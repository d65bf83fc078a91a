# Percetto in TLA+

Percetto is a C API over the Perfetto tracing SDK: an application declares
categories and tracks, calls `percetto_init` once, and then traces through
macros that cost one atomic load while no tracing session wants the category.
Nearly all of its state is shared between application threads and Perfetto's
own thread without a common lock: registries that grow by compare-and-exchange,
bit masks with one bit per tracing session, and counts published with
release/acquire.  That protocol is what this project models, checks with TLC and
proves with TLAPS.

Paths below are relative to the repository's root (`src/` is its library
directory).

## Inventory

| Component | State | Operations | Interacts with |
| --- | --- | --- | --- |
| Category registry (`src/percetto.cc`) | `is_initialized`, `categories[64]`, `category_count`, `name_iid` | `percetto_init`, `percetto_init_with_args` | read without a lock by the handlers and the tracing threads |
| Sessions (`PercettoDataSource`) | one bit per session in each category's `sessions` | `OnSetup`, `OnStart` (empty), `OnStop` | called by Perfetto's thread; masks read by the macros |
| Group categories | `groups[32]`, masks of the groups | `add_group_category`, `percetto_register_group_category`, `UpdateGroupCategory(ies)` | masks derived from the members' masks, by handlers and by registering threads |
| Track registry | `tracks[32]`, `uuid`, `parent_uuid` | `percetto_register_track` | walked by `DoIncrementalUpdate` |
| Event writing | `need_update` of each packet sequence | `TraceTrackEvent`, `DoIncrementalUpdate`, `percetto_event*` | reads all of the above |
| Category matching (`src/perfetto-port.cc`) | none | `IsCategoryEnabled` and its patterns | called by `OnSetup` |
| ATrace layer (`src/percetto-atrace.c`, `.h`) | status, `s_lock`, group and counter trackers, two cached pointers per call site | `atrace_init`, `atrace_create_category(_and_counter)`, macros | lazily calls `percetto_init`, group and track registration |
| Macros (`src/percetto.h`) | mask loaded at a call site | `TRACE_EVENT`, `TRACE_COUNTER`, ... | load a mask, pass it to `percetto_event*` |
| Clock and process identity (`src/percetto.cc`) | `trace_clock_id`, `perfetto_clock`, `process_pid`, `process_uuid` | `DetermineClockId`, `GetClockIdFrom`, `GetEnvU32`, `GetProcessUuid` | fixed by the first `percetto_init`, read by every packet, event and track |

What makes each of them hard, and what correct means there:

* **Category registry.**  Slots are written in a plain loop and published by
  one release store of the count.  Correct: whatever is published is complete
  and never changes, also when `percetto_init` is called again with the
  categories of a second library, when the array is full, and when Perfetto
  refuses the registration.
* **Sessions.**  Perfetto reuses an instance index after `OnStop`, while
  categories are being added.  Correct: a live session has its bit in exactly
  the categories that it wanted of those registered at its `OnSetup`; a free
  index has its bit nowhere.
* **Group categories.**  A group's mask is a derived value that two kinds of
  thread recompute at once.  Correct: no registered group is hidden from the
  handlers; the mask equals the union of the members' masks once things are
  quiet.  The second half does not hold (see *Findings*); what holds instead is
  stated and proved.
* **Track registry.**  A thread writes the uuid of a slot before it knows that
  it gets the slot, while tracing threads walk the array.  Correct: lock-free
  registration looks atomic; nothing ever names a track by another one's uuid.
* **Event writing.**  A mask is loaded, then used; the session may be gone, or its
  index belong to another one, and categories may have been added since.
  Correct: no session records what it did not want, every category id resolves
  on the sequence of its event, the slices of a session nest.
* **ATrace layer.**  Two pointers are published by one call site and read in
  the other order; failures are cached for good.
* **Category matching.**  Sequential, but eight comparisons whose order matters
  and defaults that a list of the configuration replaces.  Correct: the first
  match in a fixed order decides; the usual configurations mean what they seem to.
* **Clock and process identity.**  Fixed once, used in every packet, and read by
  somebody who sees the packets of many processes.  Correct: every timestamp can
  be placed on the clock it was read from, no two tracks share a uuid, also in
  different pid namespaces, and nothing is left half initialised by a failure.
  Uuids are not distinct where one process has several copies of Percetto (see
  *Findings*).

## Modules

| Module | Models |
| --- | --- |
| `SessionBoard` | abstract: what the masks promise to their readers |
| `SessionBoardProofs` | what the board keeps true, for all that implements it |
| `CategorySessions` | category registry, sessions and groups, one atomic access per step |
| `CategorySessionsProofs` | its theorems |
| `MCCategorySessions` | its instances for TLC, composed with `CategoryMatch` |
| `TrackTable` | abstract: registration of a track as one atomic step |
| `TrackTableProofs` | what the table keeps true, for all that implements it |
| `TrackRegistry` | `percetto_register_track` beside the walk of `DoIncrementalUpdate` |
| `TrackRegistryProofs` | its theorems |
| `MCTrackRegistry` | its instances for TLC |
| `TraceEvents` | the macros and `TraceTrackEvent`, on the session board |
| `TraceEventsProofs` | its theorems |
| `MCTraceEvents` | its instances for TLC |
| `CategoryMatch` | `IsCategoryEnabled` and its patterns, as operators |
| `TraceConfig` | a configuration that grows entry by entry, and what `OnSetup` makes of it |
| `TraceConfigProofs` | its theorems |
| `MCTraceConfig` | its instance for TLC |
| `ProcessIdentity` | clock, uuid and settings of the first `percetto_init`, and the timestamps and descriptors of a trace of several processes, or of several copies of Percetto in one |
| `ProcessIdentityProofs` | its theorems |
| `MCProcessIdentity` | its instance for TLC |
| `Atrace` | the atrace layer: lazy initialisation, its lock, the two trackers, the pointers of the call sites |
| `AtraceProofs` | its theorems |
| `MCAtrace` | its instances for TLC |

### CategorySessions

Three kinds of thread.  `Main` runs `percetto_init_with_args`, one call at a time
(`percetto.h:95` excludes concurrent calls), with the lists of `InitLists` in any
order and each again only if the call with it failed.  `Registrar` threads run
`percetto_register_group_category`.  `Muxer` runs `OnSetup` and `OnStop`, one at a
time, as Perfetto does.

| Code | Definition |
| --- | --- |
| `percetto_init_with_args` 624-663 | `InitCall`, `InitClockError` |
| store loop 665-675, count 676 | `StoreCategory`, `SkipCategory`, `PublishCount` |
| groups of the list 679-681 | `NextGroup` and the slot actions below |
| `Register` 343-370 | `RegisterDataSource(ok)` |
| `add_group_category` 589-604 | `ClaimSlot`, `SlotTaken`, `NoSlotLeft` |
| `OnSetup`, `OnStop` 267-309 | `OnSetup`, `OnSetupRejected`, `OnStop`, `UpdateCategory`, `CategoriesDone`, `HandlerEnd` |
| `UpdateGroupCategory(ies)` 314-341 | `GroupLoad`, `MemberLoad`, `GroupStore` |

A mask is the set of instances whose bit is 1; `fetch_or` and `fetch_and` are one
step, the derivation of a group's mask is one step per load and one for the
store.  What `IsCategoryEnabled` answers for a configuration is the set of
categories it accepts (`Configs`); `MCCategorySessions` computes these sets with
`CategoryMatch!IsCategoryEnabled` from the names and tags of the categories and from
three configurations: an empty one, which enables all but the slow categories, one
that enables just these, and one that enables all.  `phase` is the life of the
session on an index: Perfetto's side of the contract, known only from how the
handlers are used.  `unsynced` is a history variable: it records the groups whose mask may be
wrong for one of the two reasons found (below) and guards no action.

### TrackRegistry

Registrars store the uuid of the slot they are about to try, try it, and go on
to the next one; tracers write events and, when `need_update` is set, first walk
the array to the first NULL slot and write a descriptor of each track.  The
receiving side is the set of descriptors each sequence has carried since it was
last cleared, and the last event.  `TrackTable` is the atomic registration that
the lock-free one implements: the refinement maps `tracks[]` to `owner`.

A track is registered once, and after `percetto_init`, as the documentation
asks.  `GetTrackUuid` is an exclusive or with the process uuid, so distinct slots
have distinct uuids; a uuid is modelled by its slot number plus 1, 0 being the
static initial value.

### TraceEvents

One tracing thread and the sessions around it.  The masks of named categories
change as `SessionBoard` says, by `Board == INSTANCE SessionBoard` on the same
variables, so what is checked here holds of `CategorySessions`, which implements
the board.  A group's mask is stored by threads and handlers from bits loaded
earlier; here it is any set of bits that the members' masks have ever shown
(`seen`), which includes every outdated sum that `CategorySessions` can store
(`GroupMasksSeen`).

| Code | Definition |
| --- | --- |
| `I_PERCETTO_LOAD_MASK`, `percetto.h:192-218` | `LoadMask` |
| `TRACE_EVENT` and its cleanup, `percetto.h:488-500`, 407-412 | `TraceEvent`, `CleanupEnd` |
| `TRACE_ANY_WITH_ARGS` and the macros made from it, 514-577 | `TraceAny` |
| `TRACE_DATA` and the like, 201-213, 432-476 | `TraceData` |
| loop of `TraceWithInstances` 382-384 | `NextInstance` |
| `DoIncrementalUpdate` 485-505, 586 | `DoIncrementalUpdate` |
| `TraceTrackEvent` 386-462, `AddCategoryGroup` | `WriteEvent`, `Iids` |
| `PercettoIncrementalState` 253-259 | `needUpdate`, `interned`, `ClearIncrementalState` |
| return of `percetto_event_*` 721-769 | `Return` |

Perfetto's side is external and modelled from its use: a session has one packet
sequence for each thread, new with the session; an index whose session is gone
is passed over by `TraceWithInstances`; what a thread writes after the session was
released is dropped (`attached`).  Tracing threads share nothing but the board,
so one is enough in the runs; the theorems are for any number.  `same` is a
history variable: the instances of the mask that still have the session they had
when the mask was loaded.  Of a scope the model keeps, besides the category, the
sessions that have been live since its begin load and those of them that were
given its begin and end events.

### CategoryMatch and TraceConfig

A pattern is a string with or without the one `*` at its end that the code
supports; strings are values with a relation "begins with" (`PrefixesOf`), which
is all that `NameMatchesPattern` asks of them.

| Code | Definition |
| --- | --- |
| `NameMatchesPattern`, `NameMatchesPatternList` 31-54 | the same names |
| `has_matching_tag` 62-68, tags from `strings[1..]` (`percetto.cc:279-283`) | `HasMatchingTag`, `Tags` |
| enabled lists 74-85, disabled lists 87-105 | `EnabledBy`, `DisabledBy` |
| defaults 94-102 | `DisabledTags`, `DefaultDisabledTags` |
| `IsCategoryEnabled` 58-110 | `IsCategoryEnabled` |
| loop of `OnSetup` 277-289 | `Accepted` |

`TraceConfig` lets the author of a configuration add one entry after the other, so
that TLC visits every configuration over a stock of entries and an action
property can say what one more entry may do.  `FirstMatchDecides` compares the
loops with early returns to a declarative ranking of the entries.

### ProcessIdentity

Copies of Percetto in the processes of one system that trace into one session.
Usually a process has one, but `README.md:9-15` of the repository also allows one for
each library that is linked to its own; a copy has its own `s_percetto`, and the pid
and the pid namespace of its process (`SameProcess`).  An action of a copy is
a call of `percetto_init` (lines 624-660, what is done only once), a registration of a
track, an event with a timestamp of its own or of its caller, or Perfetto's
clearing of a sequence.

| Code (`percetto.cc`) | Definition |
| --- | --- |
| `DetermineClockId`, `GetClockIdFrom`, choice 629-635 | `DetermineClockId`, `GetClockIdFrom`, `ClockFor` |
| -4 of line 638 | `Refuse` |
| 641-660 | `Initialize`, with `GetProcessUuid` 114-132 and `GetEnvU32` 243-251 |
| `GetTrackUuid` 161-163, `percetto_register_track` | `GetTrackUuid`, `RegisterTrack` |
| `NewTracePacket` 464-477 | `Label` |
| `DoIncrementalUpdate` 485-586 | `DoIncrementalUpdate`, `Described`, `UpdateStamps` |
| `percetto_event_begin`, `_end` | `WriteEvent` |
| `percetto_event`, `percetto_event_extended` | `WriteTimedEvent`, or `WriteEvent` for a timestamp 0 |

A timestamp is the clock it was read from with the label it gets; a hash is its
inputs (`Uuid`), an exclusive or with it the pair of its operands (`TrackUuid`): the
model takes the 64-bit hash to be free of collisions.  The three settings are
read alike, so there is one.  Which clocks the kernel supports and whether `stat`
works are inputs.  The interleavings of these calls are the subject of the other
modules, so they are single steps here; events precede no `percetto_init`, because
masks are 0 until then.  A track that finds no slot is left to `TrackRegistry`.
Three kinds of use are outside the properties by name: tracks registered before
`percetto_init` (`Early`; `percetto.h:129` asks for the other order), processes whose `stat`
failed (`Regular`), and timestamps of a caller whose `percetto_init` came second and
asked for another clock (`late`; `percetto.h:95` allows one call).

### Atrace

Threads, each at one call site at a time.  The labels of `pc` are the places
between which the code can lose the processor with an effect; those in `Locked`
are passed with `s_lock` held.

| Code (`percetto-atrace.c`, `.h`) | Definition |
| --- | --- |
| `ATRACE_ANY`, `ATRACE_COUNTER`, `.h:133-157` | `Macro`, `LoadMask`, `AtraceEvent` |
| `ATRACE_INIT`, `atrace_init` 104-116 | `AtraceInitCall`, `LockInit`, `AtraceInit`, `UnlockInit` |
| unlocked read of the status 218, 229 | `ReadStatus` |
| `atrace_create_category(_and_counter)` 217-240 | `Lock`, `Steps`, `Unlock` |
| `atrace_create_counter_locked` 187-215 | `NoCounter`, `CounterFound`, `NewCounter`, `RegisterTrack`, `StoreTrack` |
| `atrace_create_category_locked` 118-185 | `CategoryNever`, `CategoryFound`, `CategoryRegular`, `NewGroup`, `RegisterGroup`, `StoreCategory` |

`percetto_init` runs under the lock and no other thread of this layer can see its
middle, so it is one step with either result.  The two registrations are one step
each, with a result the layer ignores; either may be refused at any time, since
code outside this layer uses the same arrays.  Masks are abstract here: `LoadMask`
may find a mask set only if Percetto knows the category (`MayBeEnabled`).
`NameOf` is the name of the first call at an `ATRACE_COUNTER` site: a site that is
reached with another name later keeps its first track, as in the code.
`ATRACE_ANY_WITH_ARGS_PTR` loads the category pointer twice, for the mask and for
the event; `SitesWriteOnce` is what makes that safe.

### Abstractions shared by all

* Atomics are sequentially consistent.  The code uses acquire and release where
  it publishes, and relaxed loads of `groups[]`, `tracks[]` and the masks; data
  behind a relaxed pointer is reached only through that pointer.
* Perfetto's DCHECKs, which stop a debug build, are not modelled: the branch
  behind the check is (a configuration that is missing or unreadable).
* The limits 64, 32, 32 are constants of the modules; the runs take 2 or 3, so
  that arrays fill up.
* Bounds: the runs bound the number of lists, groups, tracks and sessions by the
  sets given in the configurations.  The only counter that cuts an action off is
  `MaxDepth` of `TraceEvents`, the nesting of scopes of one thread; otherwise the
  state spaces are finite because the program's arrays are.

## Runs

| Run | Shows |
| --- | --- |
| `reinit` | two lists with three categories for two slots, three groups for two slots, two sessions before, between and after, and a thread that registers groups; sessions differ in what they accept, so that a wrong bit of one is visible next to the other: `MasksExact`, `GroupsReachable`, `GroupsAgreeUnlessRaced`, `SlotsWriteOnce`, `RegistryConsistent` (what is turned away leaves the rest intact) and `BoardSafe`, the refinement of the session board |
| `live` | two registrars, fair scheduling: `GroupsReachable`, `SlotsWriteOnce` and `CallsReturn` for two threads that race for the group slots, a raced group mask is repaired by the next handler, `BoardSpec` with its fairness |
| `race`, `result` | findings 1 and 2 |
| `tracks` | three registrars with three tracks for two slots, one tracer: `DescriptorsFinal`, `EventsResolve`, the refinement of `TrackTable` and, with fairness, that registration is wait-free and the walk ends |
| `tracks_refused` | finding 3 |
| `instances` | scopes and calls that write to two sessions, whose indices are reused meanwhile, and a second `percetto_init`: `EventsWanted`, `EventsInterned`, `ScopesBalance` |
| `nested` | scopes in scopes, over named categories and a group of two with any outdated mask: `EventsInterned`, `ScopesBalance` |
| `annotations` | finding 4 |
| `atrace` | two threads, four sites (three counters) that share tags and names, a site with more tags than fit in a group, one track and two groups: `InitOnce`, `TrackersUnique`, `PublishedReady`, `SitesResolved`, `CountersTracked`, `SitesWriteOnce`, `CallsReturn` |
| `matching` | four categories (shared prefixes, tags, a description that is a tag's name, both default disabled tags) under every configuration made of three entries for each list: `FirstMatchDecides`, `AllowListsExact`, `SlowNeedsEntry`, `EntriesMonotone` |
| `identity` | two processes with one pid in two namespaces; kernels with all clocks, or a single one; calls that ask for different clocks, early tracks, failing `stat`, a setting unset, in range and on both sides of it: `TimestampsResolve`, `UuidsDistinct`, `TracksUnderProcess`, `SettingsIntended`, `ClockFound` |

Why the bounds are enough: two registrars meet in every probing order, with one
slot fewer than groups or tracks the full array is reached, two sessions show
whether a handler touches the other's bits, and reuse of an index happens after
one stop.  A third session or registrar adds no new pair of racing accesses.  In
`TraceEvents` a depth of two has an inner scope opened and closed while an outer
one is open.  In `atrace` two threads are enough for every race on the lock and on
a site, three sites with different tags fill two groups, and two names fill one
track.  In `matching` each list has an exact entry, and three of them also the
entry for everything, so every pair of ranks competes for some category.  In
`identity` two processes are what a
collision takes, and 3 stands for `UINT_MAX` with -1, 2 and 7 below, within and
above.  The theorems hold for any number.

Longest runs: `reinit` and `identity` take one to two minutes, `instances` about
one with two workers.  `reinit`, `instances` and `nested` use symmetry (of the
instances, or of the two members of the group), `tracks_refused` of tracks and
threads; no run with a liveness property does.

`CHECK_DEADLOCK FALSE` in the runs of `CategorySessions`, `TraceEvents`, `TraceConfig` and
`ProcessIdentity`: an application that has made its calls may make no further one,
Perfetto may never start a session, and a configuration may have all its entries.
In `TrackRegistry` a tracer and in `Atrace` a thread can always call again, so there
deadlock is checked.

**Fairness.**  `WF` on the steps of a call in progress: a thread inside
`percetto_init`, `percetto_register_*` or a handler is scheduled again.  None on
calls, which the application and Perfetto make or not.  Nothing stronger is
needed in the registries, because no thread waits for another.  In `Atrace`
threads wait for `s_lock`, and a POSIX mutex promises no order: `WF` on `Step(t)`
does not give a waiting thread the lock if others take it again and again.
`CallsReturn` holds all the same, for two reasons the run depends on: each site
asks for the lock only until its pointer is set (the disabled category is cached
too), and the one call that takes the lock every time, `ATRACE_INIT`, is assumed
not to be made for ever.

Each property of a passing run has a mutant of the code that breaks it; the
mutants stand before the definition they change.

## Findings

1. *Lost update of a group's mask* (`race`).  `UpdateGroupCategory` loads the
   members one by one and stores the sum with a plain store
   (`src/percetto.cc:322-327`).  A thread in `percetto_register_group_category` can
   load, lose the processor while `OnSetup` or `OnStop` changes the members and
   makes its own pass, and then store the old sum.  The group stays disabled in a
   live session, or enabled for a stopped one, until the next handler.  Line 313
   says "Thread safe. Multiple threads can call simultaneously for same index."
   `percetto_init` breaks the rule that a group's mask is the sum of its members'
   (334-336) in a second way: it adds the groups of its list (679-681) without
   computing their masks.  If a session is live, which takes a second
   `percetto_init`, they stay disabled until the next handler.
   `GroupsAgreeUnlessRaced` says that there is no third way; `unsynced` names the
   groups of both.
2. *Result of `percetto_init`* (`result`).  `is_initialized` is set before
   `Base::Register` and stays set when that fails; the next call then takes the
   `UpdateDescriptor` branch and returns 0 though Perfetto has no data source.
3. *Refused tracks* (`tracks_refused`).  A track refused because all 32 slots are
   taken keeps the uuid of slot 31.  `src/percetto-atrace.c:212` drops the result and
   uses the track nevertheless, and its events are shown on the track that owns
   the slot.
4. *Annotations* (`annotations`).  The lambda of `TraceTrackEvent` captures
   `extended` by reference and walks the list of annotations to its end
   (`src/percetto.cc:382-412`); it runs once for each session, so only the first
   session of the loop gets them.

Three things met on the way that no run is about.  `percetto.h:95` allows one call of
`percetto_init`, while `percetto_init_with_args` provides for more and
`examples/multi-perfetto-*` make two (of one Percetto if it is built as a shared
library, of two copies if it is built as a static one); the modules follow the code,
and the clock that a later call asks for is ignored without a word (the exception in
`TimestampsResolve`).  `I_PERCETTO_LIST_CAT_PTRS4` (`percetto.h:150`) passes two arguments to
a macro of one, so the macros cannot define a group of four: a compile-time
matter.  And a custom track's uuid is its slot plus 2^32, exclusive-or the hash of pid
and namespace (`src/percetto.cc:116-129`, 162, 707): copies of Percetto in one process
have the same hash and each counts its own slots from 0, so their n-th tracks get
one uuid and two descriptors, and a reader takes them for one track.  Line 78 says
"so to make sure that custom tracks have unique IDs", and `README.md:13-15` of the
repository names only binary size and a thread as the price of several copies.
Outside the kinds of use named under *ProcessIdentity*, `UuidsDistinct` says that
uuids coincide in no other way; that copies share the
uuids of the process and of its threads is as it should be.

## Proofs

All theorems are for every value of the constants that satisfies the named
assumptions of the module (`SizesAssumption`, `CategoriesAssumption`,
`ThreadsAssumption`, `ListsAssumption`; `TrackAssumption`; `TraceAssumption`;
`SitesAssumption`, `LimitsAssumption`; `MatchAssumption`, `ExtAssumption`;
`IdentityAssumption`): sizes are natural numbers (a group has room for two
categories at least), the category lists of a program share no category, thread ids are
below `kCustomTrackIdOffset`, the kinds of thread are disjoint, `Null` is not an object,
groups come last in a category list (which `PERCETTO_CATEGORY_DEFINE` guarantees).

`CategorySessionsProofs` proves `TypeOK`, `RegistryConsistent`, `MasksExact`,
`GroupsReachable`, `GroupsAgreeUnlessRaced`, the action property `SlotsWriteOnce`,
and that the specification implements the safety part of `SessionBoard`.  None
of the properties is inductive: each speaks of published state, and a handler or
a registrar in the middle of its loop is between two published states.  The
invariant therefore says, layer by layer, what a thread knows at each label:

* `TypeInv`: types, and which locals are set at which label;
* `RegistryInv`: slots below `Stored` are complete; `Stored` runs ahead of the
  count while the loop stores, and the count catches up when it is published;
* `MasksInv`: for the session being set up, its bit is in exactly the wanted
  categories of the slots before `idx`; for the one being stopped, only in
  slots from `idx` on; the count the handler uses is the one it read at its
  start, and `OnStop` reads a count at least as large as `OnSetup` did, which is
  why no bit is left behind;
* `GroupSlotsInv`: a thread that has passed a slot has seen it taken, so a claim
  never leaves a hole;
* `OwnershipInv`: no two threads register the same group;
* `GroupMasksInv`: the handler's pass has settled the groups before its slot,
  since no other thread changes a member's mask while the handler runs.

The refinement is then put to use.  `SessionBoardProofs` proves of the small
abstract module that a bit is a wish of the session there, that bits change only
in the handlers of their own session, and that an index changes hands only by way of
"free".  `BoardFacts` instantiates these theorems with the registry's variables, and
`ImplementsBoard` carries them over: `MasksNeverForeign` and `MasksStable` hold at
every step, also between the two published states that `MasksExact` speaks of.

Two more theorems are the safety part of what the runs check with fairness.
`RepairIsFinal`: a registered group of the application that is not in `unsynced`
never gets there again, since its registrar's call is over (`GroupSlotsInv`,
`OwnershipInv`); a race spoils a mask once at most, and the next handler's repair
lasts.  `WaitFree`: every step of a thread lowers `StepsLeft`, a number that no step of
another thread raises, so that a call of `percetto_register_group_category` takes at
most `MaxGroups` + the number of categories + 3 steps of its own, and the handlers
and `percetto_init` a bounded number too, although groups are added while they walk
over them.  This needs one more hypothesis, that `Category` is finite.  That a thread
which has steps left is scheduled is the part left to TLC.

`GroupMasksSeen` justifies the one place where `TraceEvents` is coarser than the board:
with a history variable `seen` for the bits that a group's members have ever shown,
each store to a group's mask stores a subset of it, to a group in the array.  The
invariant `SeenInv` follows the sum that a thread is making from load to load,
across handlers that change the members in between.

`TrackRegistryProofs` proves `TypeOK`, `DescriptorsFinal`, `EventsResolve` and the
refinement of `TrackTable`.  `SlotsInv` ties a slot to its owner's uuid, parent and
outcome and says that a registrar owns the track it holds and has seen all slots
before its own taken; `WalkInv` says that a walk has described the slots before
its position, and, once over, every track that was registered when it began,
because a NULL slot has only NULL slots behind it.  `TrackTableProofs` proves of the
atomic table that owners and results fit together and are final, and `TableFacts`
lifts it: `OutcomesCorrect` (a thread that was told "ok" owns exactly one slot,
"full" means that all are taken) and `SlotsPermanent`.  `WaitFree` bounds a registration by
2 `MaxTracks` + 1 steps and an event with its walk by one more, however many tracks
are registered meanwhile.

`AtraceProofs` proves every safety property of the `atrace` run: `TypeOK`,
`InitOnce`, `TrackersUnique`, `PublishedReady`, `SitesWriteOnce`, `CountersTracked`
and `SitesResolved`.  None of the last five is inductive.  The invariant `Inv`
says:

* `ControlInv`: the lock's holder is the thread at a label under the lock, the
  status is set before a thread gets there, `inits` follows the status;
* `GroupsInv`: groups have different tags and two members at least; a group
  without its registration is the last one and its creator has the lock; each
  category pointer `Fits` its site, that is, it is the result that the lookup gives
  now and, since trackers are only added and the status only set once, for good.
  `FitsUnique` (a site has one fitting pointer) then gives `SitesWriteOnce`: a thread
  that lost the race for the lock stores the same pointer again;
* `CountersInv`: the same of counters;
* `TrackFirst`: a category pointer is not set before the track of its site has been
  looked for; with `EventInv` (an event's category can be enabled) this gives
  `CountersTracked`;
* `PointerSet`: at the labels where the macros go through their category pointer
  it is not NULL, because what was created is set, with the disabled category if
  all else fails, and pointers do not change (`PointersSet`);
* `FirstTagsSize`: a group has all valid tags or exactly as many as fit, from the
  smallest and largest elements of finite sets of naturals, for `SitesResolved`:
  a site is turned away for want of a group only if its tags need one.

`CallsBounded` is about the lock: the status, the trackers and the static pointers
change only in steps of its holder, nobody else gives it back, and each step
lowers the `Rank` of the thread's label, so that it is held for seven steps at most
and a macro is over after fourteen.  How long a thread waits for it is not
bounded by the code; that it does not wait for ever is `CallsReturn`, by TLC.

`TraceEventsProofs` proves every property of its passing runs: `TypeOK`,
`EventsWanted`, `EventsInterned` and `ScopesBalance`.  They speak of the moment an event
is written, and what makes them true was settled when the mask was loaded, so the
invariant carries it across whatever sessions do in between:

* `BoardInv`: a bit says that the session wants the category, a live session has
  all its bits, and it wants only categories published by then;
* `Closed`: a list of `percetto_init` is published as a whole, so a sequence that
  knows one of its categories knows them all;
* `SequenceInv`: a sequence that needs no update knows all that its session wants,
  and a member of every group that has ever shown its session;
* `GroupInv`: a group shows only sessions that one of its members has shown;
* `CallInv`: what the bits of a call still mean, as long as the index is `same`;
* `ScopeInv`: for a session that is live since the begin load, having recorded
  the begin is the same as wanting the category, except while the event is still
  pending; at the end likewise.

`EventsInterned` for a group then follows: the session was shown by the group, so
some member is interned, so by `Closed` the whole list, which contains the group.

`EventsWanted` says that nobody gets too much.  `EventsReachSessions` is the other
direction: the load of a mask finds exactly the live sessions that want the
category, a bit is passed over only if its session is free, and an event that was
begun is written.  `RunsOnBoard` proves that the masks change as `SessionBoard` allows,
which closes the chain from `CategorySessions` to the events.  `CallsBounded` says
that a call takes at most three steps for each bit of its mask and one, if the
set of instances is finite (a mask has one bit for each): tracing never
waits.

`TraceConfigProofs` proves the four properties of `matching`.  Three of them are about
single configurations and hold by the definitions, which `ExactMatch` and
`PatternMatch` bring into a form without the match type; `FirstMatchDecides` goes
through `RanksAre`, which ranks a category has, and `TestsOfRanks`, that the eight
comparisons of the code ask for just these.

`ProcessIdentityProofs` proves the five properties of `identity` and `TypeOK`.
`NothingBefore` says that an uninitialised process has written nothing, `ClockFixed`,
`UuidFixed` and `SettingFixed` what an initialised one has for good, `DefaultsRight` that a
sequence without need of an update has the process's clock as its default, and
`TracksRight` and `DescriptorsRight` lead a uuid in the trace back to the slot or
thread it was made for.  Nothing is assumed of pids and namespaces: that equal
hashes mean the same process is the conclusion of `UuidsCorrect`.

Only model-checked: everything with fairness (`CallsReturn` of three modules,
`RaceRepairedByNextHandler`, the liveness half of `BoardSpec`), which the proof
system does not reach; the theorems on bounded calls and on repair are what can
be proved of it.  That `MCCategorySessions` gets its configurations from
`CategoryMatch` needs no proof: the theorems about `CategorySessions` hold for any
set of configurations.

## Not modelled

* The examples and the build files: no behaviour of the library.
* Text: process and thread names read from the system, event names, the values
  of counters, flow ids and annotations, the CPU ticks of the clock snapshot.
  They are copied into packets by sequential code, and nothing depends on them.
* Collisions of the 64-bit process hash, and of `trackid ^ process_uuid` of
  different processes.
* What the trace shows of a refused group, and of a group with members that found no
  slot.  `Atrace` has the first and `CategorySessions` the second, but no property
  speaks of their events, since the repository promises nothing of them (the notes of the
  hazards in `PROJECT.json` say so one by one).
* Several copies of Percetto in one process, but for what they give to the trace
  (`ProcessIdentity`): a copy shares no state with another one.
* Concurrent calls of `percetto_init`, excluded by the documentation.  The mutex
  taken at line 624 is held by an unnamed temporary and so released at once: it
  would not make such calls safe.
* Perfetto itself beyond the order of its callbacks, the life of an instance
  index and of the incremental state.

## How the modules build on each other

`SessionBoard` and `TrackTable` are what the registries promise.  `CategorySessions`
implements the first, which `TraceEvents` runs on, each by a theorem, with the group
masks that `GroupMasksSeen` allows; `TrackRegistry`
implements the second, which is why `RegisterTrack` of `ProcessIdentity` may take a
slot in one step.
`CategoryMatch` is used twice: by `TraceConfig` on its own, and by
`MCCategorySessions` for what sessions want.  `Atrace` uses the registries only
through the results that it ignores, so it takes them to be arbitrary, which
covers every state of the arrays.
