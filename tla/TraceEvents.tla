----------------------------- MODULE TraceEvents -----------------------------
(***************************************************************************)
(* The tracing macros of percetto.h and TraceTrackEvent of percetto.cc,    *)
(* beside sessions that come and go.                                       *)
(*                                                                         *)
(* A macro loads the mask of its category and, if it is not 0, has an      *)
(* event written for each instance in it; a session can stop, and its      *)
(* index be given to another, at any point in between.  The masks change   *)
(* as SessionBoard says, which CategorySessions implements.                *)
(***************************************************************************)
EXTENDS Naturals, Sequences

CONSTANTS
  Category, Group, Members,   \* as in CategorySessions
  Lists,          \* the named categories of each percetto_init call
  Instance,
  Tracer,         \* application threads
  None,
  MaxDepth        \* bound of the model: how deep a thread nests its scopes

Op == {"begin", "end", "any", "data"}     \* kinds of calls

ASSUME TraceAssumption ==
  /\ Category \cap Group = {}
  /\ None \notin Category \cup Group \cup Instance \cup Op
  /\ Members \in [Group -> SUBSET Category]
  /\ Lists \subseteq SUBSET Category
  /\ \A L, M \in Lists : L # M => L \cap M = {}   \* a category is in one list
  /\ MaxDepth \in Nat

VARIABLES
  mask, phase, wanted,        \* the session board
  published,      \* categories below category_count
  grouped,        \* groups in groups[]
  groupMask,      \* sessions of each group
  seen,           \* bits that the masks of each group's members have ever shown
  \* what a tracing thread does: its label and the locals of the call
  pc, op, cat, todo, extended, inst,
  scopes,         \* scopes the thread is in, innermost last
  \* Perfetto's side: the thread's packet sequence in each session
  attached,       \* the session the thread is writing to is still there
  needUpdate,     \* need_update
  interned,       \* categories interned since the state was last cleared
  \* history
  same            \* instances with the session they had at the mask's load

boardVars == <<mask, phase, wanted>>
registryVars == <<published, grouped, groupMask, seen>>
callVars == <<pc, op, cat, todo, extended, inst>>
sequenceVars == <<needUpdate, interned>>
vars == <<boardVars, registryVars, callVars, scopes, attached, sequenceVars, same>>

Board == INSTANCE SessionBoard

\* A TRACE_EVENT scope: `live` are the sessions that have been live since the
\* mask was loaded at its beginning, `begun` and `ended` those of them that
\* were given the begin event and the end event.
Scope ==
  [cat : Category \cup Group, live : SUBSET Instance, begun : SUBSET Instance,
   ended : SUBSET Instance]

TypeOK ==
  /\ Board!TypeOK
  /\ published \subseteq Category /\ grouped \subseteq Group
  /\ groupMask \in [Group -> SUBSET Instance]
  /\ seen \in [Group -> SUBSET Instance]
  /\ pc \in [Tracer -> {"idle", "loop", "update", "write"}]
  /\ op \in [Tracer -> Op \cup {None}]
  /\ cat \in [Tracer -> Category \cup Group \cup {None}]
  /\ todo \in [Tracer -> SUBSET Instance]
  /\ extended \in [Tracer -> BOOLEAN]
  /\ inst \in [Tracer -> Instance \cup {None}]
  /\ scopes \in [Tracer -> Seq(Scope)]
  /\ \A t \in Tracer : Len(scopes[t]) <= MaxDepth
  /\ attached \in [Tracer -> BOOLEAN]
  /\ needUpdate \in [Tracer -> [Instance -> BOOLEAN]]
  /\ interned \in [Tracer -> [Instance -> SUBSET Category]]
  /\ same \in [Tracer -> SUBSET Instance]
  /\ \A t \in Tracer : (inst[t] # None) <=> pc[t] \in {"update", "write"}
  /\ \A t \in Tracer : pc[t] = "idle" => op[t] = None /\ todo[t] = {}

Init ==
  /\ Board!Init
  /\ published = {} /\ grouped = {}
  /\ groupMask = [g \in Group |-> {}]
  /\ seen = [g \in Group |-> {}]
  /\ pc = [t \in Tracer |-> "idle"]
  /\ op = [t \in Tracer |-> None]
  /\ cat = [t \in Tracer |-> None]
  /\ todo = [t \in Tracer |-> {}]
  /\ extended = [t \in Tracer |-> FALSE]
  /\ inst = [t \in Tracer |-> None]
  /\ scopes = [t \in Tracer |-> <<>>]
  /\ attached = [t \in Tracer |-> FALSE]
  /\ needUpdate = [t \in Tracer |-> [i \in Instance |-> TRUE]]
  /\ interned = [t \in Tracer |-> [i \in Instance |-> {}]]
  /\ same = [t \in Tracer |-> {}]

-----------------------------------------------------------------------------
(* Registration and group masks, as far as events depend on them *)

\* percetto_init publishes the categories of one list.
Publish(L) ==
  /\ L \in Lists /\ ~ L \subseteq published
  /\ published' = published \cup L
  /\ UNCHANGED <<boardVars, grouped, groupMask, seen, callVars, scopes, attached,
                 sequenceVars, same>>

\* A group is put in groups[] when its members have been registered.
AddGroup(g) ==
  /\ g \notin grouped /\ Members[g] \subseteq published
  /\ grouped' = grouped \cup {g}
  /\ UNCHANGED <<boardVars, published, groupMask, seen, callVars, scopes, attached,
                 sequenceVars, same>>

\* UpdateGroupCategory: handlers and registering threads add up members' masks
\* one load at a time and store the sum, which may be outdated by then.
\* CategorySessions has the steps; here the sum is any of bits once seen.
UpdateGroupCategory(g, m) ==
  /\ g \in grouped
  /\ groupMask' = [groupMask EXCEPT ![g] = m]
  /\ UNCHANGED <<boardVars, published, grouped, seen, callVars, scopes, attached,
                 sequenceVars, same>>

-----------------------------------------------------------------------------
(* Sessions *)

Setup(i, W) ==
  /\ Board!Setup(i, W)
  /\ UNCHANGED <<registryVars, callVars, scopes, attached, sequenceVars, same>>

\* A session whose configuration cannot be read.
Reject(i) ==
  /\ Board!Reject(i)
  /\ UNCHANGED <<registryVars, callVars, scopes, attached, sequenceVars, same>>

Enable(i, c) ==
  /\ Board!Enable(i, c)
  /\ seen' = [g \in Group |-> IF c \in Members[g] THEN seen[g] \cup {i} ELSE seen[g]]
  /\ UNCHANGED <<published, grouped, groupMask, callVars, scopes, attached,
                 sequenceVars, same>>

Advance(i) ==
  /\ Board!Ready(i) \/ \E c \in Category : Board!Disable(i, c)
  /\ UNCHANGED <<registryVars, callVars, scopes, attached, sequenceVars, same>>

\* The scope S without the session on index i.
Forget(S, i) ==
  [S EXCEPT !.live = @ \ {i}, !.begun = @ \ {i}, !.ended = @ \ {i}]

Stop(i) ==
  /\ Board!Stop(i)
  /\ scopes' = [t \in Tracer |->
                  [k \in 1 .. Len(scopes[t]) |-> Forget(scopes[t][k], i)]]
  /\ UNCHANGED <<registryVars, callVars, attached, sequenceVars, same>>

\* The packet sequences of the session end with it: what a thread still writes
\* for it is dropped, and a new session has new sequences.
Release(i) ==
  /\ Board!Release(i)
  /\ attached' = [t \in Tracer |-> attached[t] /\ inst[t] # i]
  /\ same' = [t \in Tracer |-> same[t] \ {i}]
  /\ needUpdate' = [t \in Tracer |-> [needUpdate[t] EXCEPT ![i] = TRUE]]
  /\ interned' = [t \in Tracer |-> [interned[t] EXCEPT ![i] = {}]]
  /\ UNCHANGED <<registryVars, callVars, scopes>>

\* Perfetto asks for the incremental state to be written again.
ClearIncrementalState(t, i) ==
  /\ pc[t] \in {"idle", "loop"} /\ phase[i] # "free" /\ ~needUpdate[t][i]
  /\ needUpdate' = [needUpdate EXCEPT ![t][i] = TRUE]
  /\ interned' = [interned EXCEPT ![t][i] = {}]
  /\ UNCHANGED <<boardVars, registryVars, callVars, scopes, attached, same>>

-----------------------------------------------------------------------------
(* The macros *)

MaskOf(c) == IF c \in Category THEN mask[c] ELSE groupMask[c]

LiveNow == {i \in Instance : phase[i] = "live"}

\* The mask is loaded; the event function is called unless it is 0.
CallWith(t, o, c, m) ==
  /\ op' = [op EXCEPT ![t] = o]
  /\ cat' = [cat EXCEPT ![t] = c]
  /\ todo' = [todo EXCEPT ![t] = m]
  /\ extended' = [extended EXCEPT ![t] = (o = "data")]
  /\ same' = [same EXCEPT ![t] = {i \in m : phase[i] # "free"}]
  /\ pc' = [pc EXCEPT ![t] = "loop"]
  /\ UNCHANGED <<boardVars, registryVars, inst, attached, sequenceVars>>

\* Mutant of LoadMask: the mask is only tested, the event goes to every session.
LoadMaskAll(t, o, c) ==
  CallWith(t, o, c, IF MaskOf(c) = {} THEN {} ELSE Instance)

LoadMask(t, o, c) == CallWith(t, o, c, MaskOf(c))

\* TRACE_EVENT: the scope is entered whatever the mask is.
TraceEvent(t, c) ==
  /\ pc[t] = "idle" /\ Len(scopes[t]) < MaxDepth
  /\ LoadMask(t, "begin", c)
  /\ scopes' = [scopes EXCEPT ![t] =
       Append(@, [cat |-> c, live |-> LiveNow, begun |-> {}, ended |-> {}])]

Innermost(t) == scopes[t][Len(scopes[t])]

\* percetto_cleanup_end: at the end of the scope the mask is loaded again.
CleanupEnd(t) ==
  /\ pc[t] = "idle" /\ scopes[t] # <<>>
  /\ LoadMask(t, "end", Innermost(t).cat)
  /\ UNCHANGED scopes

\* Events outside scopes: TRACE_ANY_WITH_ARGS and the macros made from it, ...
TraceAny(t, c) ==
  /\ pc[t] = "idle"
  /\ LoadMask(t, "any", c)
  /\ UNCHANGED scopes

\* ... and TRACE_DATA and the like, with annotations.
TraceData(t, c) ==
  /\ pc[t] = "idle"
  /\ LoadMask(t, "data", c)
  /\ UNCHANGED scopes

-----------------------------------------------------------------------------
(* TraceTrackEvent: TraceWithInstances calls the lambda for each instance *)

\* An index without a session is passed over.
NextInstance(t, i) ==
  /\ pc[t] = "loop" /\ i \in todo[t]
  /\ todo' = [todo EXCEPT ![t] = @ \ {i}]
  /\ IF phase[i] = "free"
       THEN UNCHANGED <<pc, inst, attached>>
       ELSE /\ pc' = [pc EXCEPT ![t] = IF needUpdate[t][i] THEN "update" ELSE "write"]
            /\ inst' = [inst EXCEPT ![t] = i]
            /\ attached' = [attached EXCEPT ![t] = TRUE]
  /\ UNCHANGED <<boardVars, registryVars, op, cat, extended, scopes, sequenceVars,
                 same>>

FinishUpdate(t, C, l) ==
  /\ pc[t] = "update"
  /\ pc' = [pc EXCEPT ![t] = l]
  /\ IF attached[t]
       THEN /\ needUpdate' = [needUpdate EXCEPT ![t][inst[t]] = FALSE]
            /\ interned' = [interned EXCEPT ![t][inst[t]] = C]
       ELSE UNCHANGED sequenceVars
  /\ UNCHANGED <<boardVars, registryVars, op, cat, todo, extended, inst, scopes,
                 attached, same>>

\* Mutant of DoIncrementalUpdate: only the event's own category is interned.
InternOwnOnly(t) == FinishUpdate(t, {cat[t]} \cap Category, "write")

\* Mutant of DoIncrementalUpdate: the lambda returns after the update.
UpdateInsteadOfEvent(t) == FinishUpdate(t, published, "loop")

\* DoIncrementalUpdate interns the categories published by now.
DoIncrementalUpdate(t) == FinishUpdate(t, published, "write")

\* The category ids of an event: AddCategoryGroup for a group.
Iids(c) == IF c \in Category THEN {c} ELSE Members[c]

\* The scope S after its begin or end event was written to instance i.
Seen(S, o, i) ==
  [S EXCEPT !.begun = IF o = "begin" THEN @ \cup ({i} \cap S.live) ELSE @,
            !.ended = IF o = "end" THEN @ \cup ({i} \cap S.live) ELSE @]

\* The event's packet, unless the session has gone.  The list of annotations is
\* consumed: `extended` is captured by reference.
WriteEvent(t) ==
  /\ pc[t] = "write"
  /\ scopes' = IF attached[t] /\ op[t] \in {"begin", "end"}
                  THEN [scopes EXCEPT ![t][Len(scopes[t])] = Seen(@, op[t], inst[t])]
                  ELSE scopes
  /\ extended' = [extended EXCEPT ![t] = FALSE]
  /\ inst' = [inst EXCEPT ![t] = None]
  /\ attached' = [attached EXCEPT ![t] = FALSE]
  /\ pc' = [pc EXCEPT ![t] = "loop"]
  /\ UNCHANGED <<boardVars, registryVars, op, cat, todo, sequenceVars, same>>

\* The call returns; at the end of a scope the thread leaves it.
Return(t) ==
  /\ pc[t] = "loop" /\ todo[t] = {}
  /\ pc' = [pc EXCEPT ![t] = "idle"]
  /\ op' = [op EXCEPT ![t] = None]
  /\ cat' = [cat EXCEPT ![t] = None]
  /\ extended' = [extended EXCEPT ![t] = FALSE]
  /\ same' = [same EXCEPT ![t] = {}]
  /\ scopes' = IF op[t] = "end"
                  THEN [scopes EXCEPT ![t] = SubSeq(@, 1, Len(@) - 1)]
                  ELSE scopes
  /\ UNCHANGED <<boardVars, registryVars, todo, inst, attached, sequenceVars>>

-----------------------------------------------------------------------------
TracerStep(t) ==
  \/ \E i \in Instance : NextInstance(t, i)
  \/ DoIncrementalUpdate(t) \/ WriteEvent(t) \/ Return(t)

Next ==
  \/ \E L \in Lists : Publish(L)
  \/ \E g \in Group :
       \/ AddGroup(g)
       \/ \E m \in SUBSET seen[g] : UpdateGroupCategory(g, m)
  \/ \E i \in Instance :
       \/ \E W \in SUBSET published : Setup(i, W)
       \/ \E c \in Category : Enable(i, c)
       \/ Reject(i) \/ Advance(i) \/ Stop(i) \/ Release(i)
       \/ \E t \in Tracer : ClearIncrementalState(t, i)
  \/ \E t \in Tracer :
       \/ \E c \in Category \cup Group : TraceEvent(t, c) \/ TraceAny(t, c) \/ TraceData(t, c)
       \/ CleanupEnd(t) \/ TracerStep(t)

Spec == Init /\ [][Next]_vars

-----------------------------------------------------------------------------
(* Properties *)

\* The event of t reaches a session in its next step.
Writing(t) == pc[t] = "write" /\ attached[t]

\* A session records an event only if it wants the category, unless the index
\* has changed hands since the mask was loaded.
EventsWanted ==
  \A t \in Tracer :
    Writing(t) /\ cat[t] \in Category /\ inst[t] \in same[t] =>
      cat[t] \in wanted[inst[t]]

\* Every category id in an event has been interned on the event's sequence, also
\* when percetto_init has added categories since: a session only enables
\* categories that were published before the first packet of its sequences.
\* For a group this takes members that percetto_init registered together.
EventsInterned ==
  \A t \in Tracer :
    /\ Writing(t)
    /\ cat[t] \in Group => \E L \in Lists : Members[cat[t]] \subseteq L
    => Iids(cat[t]) \subseteq interned[t][inst[t]]

\* Although the mask is loaded again at the end of a scope, a session that is
\* live from the begin load to the end of the scope gets both events or none,
\* so its slices nest.
ScopesBalance ==
  \A t \in Tracer :
    pc[t] = "loop" /\ op[t] = "end" /\ todo[t] = {} /\ cat[t] \in Category =>
      \A i \in Innermost(t).live : i \in Innermost(t).begun <=> i \in Innermost(t).ended

\* "Add data annotation to the trace": each session that records the event gets
\* the annotations.  The code does not keep it: see README.
EverySessionAnnotated ==
  \A t \in Tracer : Writing(t) /\ op[t] = "data" => extended[t]
=============================================================================
