-------------------------- MODULE TraceEventsProofs --------------------------
(***************************************************************************)
(* Proofs about TraceEvents: whatever sessions do between the load of a     *)
(* mask and the writing of the event, the event is wanted, its categories  *)
(* are interned, and the begin and the end of a scope go together.         *)
(***************************************************************************)
EXTENDS TraceEvents, TLAPS, SequenceTheorems, FiniteSetTheorems

\* The session board: a bit says that the session wants the category, a live
\* session has all its bits, and it wants categories that are published.
BoardInv ==
  \A i \in Instance :
    /\ \A c \in Category : i \in mask[c] => c \in wanted[i] /\ phase[i] # "free"
    /\ phase[i] = "live" => \A c \in wanted[i] : i \in mask[c]
    /\ phase[i] = "free" => wanted[i] = {}
    /\ wanted[i] \subseteq published

\* S has all or none of the categories of each list.
Closed(S) == \A L \in Lists : L \cap S # {} => L \subseteq S

\* Sequences that need no update know all their session can want, and a whole
\* list if they know a category of it.
SequenceInv ==
  \A t \in Tracer, i \in Instance :
    /\ phase[i] = "free" => needUpdate[t][i]
    /\ ~needUpdate[t][i] => wanted[i] \subseteq interned[t][i] /\ Closed(interned[t][i])
    /\ \A g \in Group :
         i \in seen[g] /\ ~needUpdate[t][i] => Members[g] \cap interned[t][i] # {}

\* A session that a group has shown wants a member that is published.
GroupInv ==
  \A g \in Group :
    /\ groupMask[g] \subseteq seen[g]
    /\ seen[g] # {} => Members[g] \cap published # {}

\* Thread t has the bit of i and has not written its event yet.
Pending(t, i) == i \in todo[t] \/ inst[t] = i

\* What the bits of a call still mean when its events are written.
CallOf(t) ==
  /\ \A i \in same[t] : phase[i] # "free"
  /\ \A i \in Instance :
       Pending(t, i) =>
         /\ cat[t] \in Category =>
              /\ i \in same[t] => cat[t] \in wanted[i]
              /\ cat[t] \in published
              /\ ~needUpdate[t][i] => cat[t] \in interned[t][i]
         /\ cat[t] \notin Category => cat[t] \in Group /\ i \in seen[cat[t]]
  /\ attached[t] => inst[t] # None /\ phase[inst[t]] # "free"
  /\ pc[t] = "write" /\ attached[t] => ~needUpdate[t][inst[t]]

CallInv == \A t \in Tracer : CallOf(t)

\* The thread is beginning, or ending, its scope number k.
During(t, o, k) == op[t] = o /\ k = Len(scopes[t])

\* The sessions that recorded the begin of a scope are those that want it, but
\* for those whose event is still to be written; likewise for its end.
ScopesOf(t) ==
  /\ op[t] \in {"begin", "end"} => scopes[t] # <<>> /\ cat[t] = Innermost(t).cat
  /\ \A k \in 1 .. Len(scopes[t]) : \A i \in scopes[t][k].live :
       /\ phase[i] = "live"
       /\ inst[t] = i => attached[t]
       /\ scopes[t][k].cat \in Category =>
            (i \in scopes[t][k].begun \/ (During(t, "begin", k) /\ Pending(t, i))
              <=> scopes[t][k].cat \in wanted[i])
       /\ During(t, "end", k) /\ scopes[t][k].cat \in Category =>
            (i \in scopes[t][k].ended \/ Pending(t, i) <=> scopes[t][k].cat \in wanted[i])
  /\ \A k \in 1 .. Len(scopes[t]) : ~During(t, "end", k) => scopes[t][k].ended = {}

ScopeInv == \A t \in Tracer : ScopesOf(t)

IInv ==
  /\ TypeOK /\ Closed(published)
  /\ BoardInv /\ SequenceInv /\ GroupInv /\ CallInv /\ ScopeInv

-----------------------------------------------------------------------------
(* What a step does not touch *)

\* The board is as it was.
LEMMA BoardFrame ==
  ASSUME BoardInv, UNCHANGED <<boardVars, published>>
  PROVE  BoardInv'
BY DEF BoardInv, boardVars

LEMMA SequenceFrame ==
  ASSUME SequenceInv, UNCHANGED <<phase, wanted, seen, sequenceVars>>
  PROVE  SequenceInv'
BY DEF SequenceInv, sequenceVars, Closed

LEMMA GroupFrame ==
  ASSUME GroupInv, UNCHANGED <<published, groupMask, seen>>
  PROVE  GroupInv'
BY DEF GroupInv

\* The call of t is as it was, and more may have been published and shown.
LEMMA CallFrame ==
  ASSUME NEW t \in Tracer, CallOf(t), TypeOK,
         pc'[t] = pc[t], cat'[t] = cat[t], todo'[t] = todo[t], inst'[t] = inst[t],
         attached'[t] = attached[t], same'[t] = same[t],
         needUpdate'[t] = needUpdate[t], interned'[t] = interned[t],
         \A i \in Instance : phase[i] # "free" => phase'[i] # "free" /\ wanted'[i] = wanted[i],
         published \subseteq published',
         \A g \in Group : seen[g] \subseteq seen'[g]
  PROVE  CallOf(t)'
<1>1. same[t] \subseteq Instance BY DEF TypeOK
<1>2. \A i \in same'[t] : phase'[i] # "free" BY <1>1 DEF CallOf
<1>3. ASSUME NEW i \in Instance, Pending(t, i)', cat'[t] \in Category
      PROVE  /\ i \in same'[t] => cat'[t] \in wanted'[i]
             /\ cat'[t] \in published'
             /\ ~needUpdate'[t][i] => cat'[t] \in interned'[t][i]
  <2>1. Pending(t, i) BY <1>3 DEF Pending
  <2>2. i \in same[t] => phase[i] # "free" BY DEF CallOf
  <2> QED BY <1>3, <2>1, <2>2 DEF CallOf
<1>4. ASSUME NEW i \in Instance, Pending(t, i)', cat'[t] \notin Category
      PROVE  cat'[t] \in Group /\ i \in seen'[cat'[t]]
  BY <1>4 DEF Pending, CallOf
<1>5. pc'[t] = "write" /\ attached'[t] => ~needUpdate'[t][inst'[t]] BY DEF CallOf
<1>6. attached'[t] => inst'[t] # None /\ phase'[inst'[t]] # "free" BY DEF CallOf, TypeOK
<1> QED BY <1>2, <1>3, <1>4, <1>5, <1>6 DEF CallOf

\* The scopes of t are as they were, and so are the live sessions they are about.
LEMMA ScopesFrame ==
  ASSUME NEW t \in Tracer, ScopesOf(t), TypeOK,
         op'[t] = op[t], cat'[t] = cat[t], scopes'[t] = scopes[t],
         todo'[t] = todo[t], inst'[t] = inst[t],
         \A i \in Instance : phase[i] = "live" /\ inst[t] = i /\ attached[t] => attached'[t],
         \A i \in Instance : phase[i] = "live" => phase'[i] = "live" /\ wanted'[i] = wanted[i]
  PROVE  ScopesOf(t)'
<1>1. \A k \in 1 .. Len(scopes[t]) : scopes[t][k].live \subseteq Instance
  <2>1. scopes[t] \in Seq(Scope) BY DEF TypeOK
  <2>2. \A k \in 1 .. Len(scopes[t]) : scopes[t][k] \in Scope BY <2>1, ElementOfSeq
  <2> QED BY <2>2 DEF Scope
<1>2. op'[t] \in {"begin", "end"} => scopes'[t] # <<>> /\ cat'[t] = Innermost(t)'.cat
  BY DEF ScopesOf, Innermost
<1>3. ASSUME NEW k \in 1 .. Len(scopes'[t]), NEW i \in scopes'[t][k].live
      PROVE  /\ phase'[i] = "live"
             /\ inst'[t] = i => attached'[t]
             /\ scopes'[t][k].cat \in Category =>
                  (i \in scopes'[t][k].begun
                     \/ (During(t, "begin", k)' /\ Pending(t, i)')
                    <=> scopes'[t][k].cat \in wanted'[i])
             /\ During(t, "end", k)' /\ scopes'[t][k].cat \in Category =>
                  (i \in scopes'[t][k].ended \/ Pending(t, i)'
                    <=> scopes'[t][k].cat \in wanted'[i])
  <2>1. phase[i] = "live" /\ i \in Instance BY <1>1 DEF ScopesOf
  <2>2. (Pending(t, i)' <=> Pending(t, i)) BY DEF Pending
  <2>3. (During(t, "begin", k)' <=> During(t, "begin", k)) /\
        (During(t, "end", k)' <=> During(t, "end", k))
    BY DEF During
  <2>4. phase'[i] = "live" /\ wanted'[i] = wanted[i] BY <2>1
  <2>5. inst'[t] = i => attached'[t] BY <2>1 DEF ScopesOf
  <2>6. /\ scopes[t][k].cat \in Category =>
             (i \in scopes[t][k].begun \/ (During(t, "begin", k) /\ Pending(t, i))
               <=> scopes[t][k].cat \in wanted[i])
        /\ During(t, "end", k) /\ scopes[t][k].cat \in Category =>
             (i \in scopes[t][k].ended \/ Pending(t, i) <=> scopes[t][k].cat \in wanted[i])
    BY DEF ScopesOf
  <2> QED BY <2>2, <2>3, <2>4, <2>5, <2>6
<1>4. \A k \in 1 .. Len(scopes'[t]) : ~During(t, "end", k)' => scopes'[t][k].ended = {}
  BY DEF ScopesOf, During
<1> QED BY <1>2, <1>3, <1>4 DEF ScopesOf

\* The sessions a scope is about are instances.
LEMMA LiveInstances ==
  ASSUME TypeOK
  PROVE  \A t \in Tracer : \A k \in 1 .. Len(scopes[t]) : scopes[t][k].live \subseteq Instance
<1> SUFFICES ASSUME NEW t \in Tracer, NEW k \in 1 .. Len(scopes[t])
             PROVE  scopes[t][k].live \subseteq Instance
  OBVIOUS
<1>1. scopes[t] \in Seq(Scope) BY DEF TypeOK
<1>2. scopes[t][k] \in Scope BY <1>1, ElementOfSeq
<1> QED BY <1>2 DEF Scope

LEMMA InitInvariant == Init => IInv
<1> SUFFICES ASSUME Init PROVE IInv OBVIOUS
<1> USE TraceAssumption DEF Init
<1>1. TypeOK
  <2>1. Board!TypeOK BY DEF Board!Init, Board!TypeOK, Board!Phase
  <2>2. scopes \in [Tracer -> Seq(Scope)] /\ \A t \in Tracer : Len(scopes[t]) <= MaxDepth
    <3>1. <<>> \in Seq(Scope) /\ Len(<<>>) = 0 BY EmptySeq
    <3> QED BY <3>1
  <2> QED BY <2>1, <2>2 DEF TypeOK, Op
<1>2. Closed(published) BY DEF Closed
<1>3. BoardInv BY DEF BoardInv, Board!Init
<1>4. SequenceInv BY DEF SequenceInv
<1>5. GroupInv BY DEF GroupInv
<1>6. CallInv BY DEF CallInv, CallOf, Pending
<1>7. ScopeInv
  <2>1. \A t \in Tracer : op[t] = None /\ 1 .. Len(scopes[t]) = {}
    <3>1. 1 .. Len(<<>>) = {} OBVIOUS
    <3> QED BY <3>1
  <2>2. None \notin {"begin", "end"} BY DEF Op
  <2> HIDE TraceAssumption DEF Init
  <2> QED BY <2>1, <2>2 DEF ScopeInv, ScopesOf
<1> QED BY <1>1, <1>2, <1>3, <1>4, <1>5, <1>6, <1>7 DEF IInv

-----------------------------------------------------------------------------
(* Registration and sessions *)

LEMMA PublishInvariant ==
  ASSUME IInv, NEW L \in Lists, Publish(L)
  PROVE  IInv'
<1> USE TraceAssumption DEF IInv
<1>u. /\ published' = published \cup L
      /\ UNCHANGED <<boardVars, grouped, groupMask, seen, callVars, scopes, attached,
                     sequenceVars, same>>
  BY DEF Publish
<1>1. TypeOK'
  BY <1>u DEF TypeOK, Board!TypeOK, Op, boardVars, callVars, sequenceVars
<1>2. Closed(published')
  <2> SUFFICES ASSUME NEW M \in Lists, M \cap published' # {} PROVE M \subseteq published'
    BY DEF Closed
  <2>1. CASE M \cap published # {} BY <1>u, <2>1 DEF Closed
  <2>2. CASE M \cap L # {} BY <1>u, <2>2
  <2> QED BY <1>u, <2>1, <2>2
<1>3. BoardInv' BY <1>u DEF BoardInv, boardVars
<1>4. SequenceInv' BY <1>u, SequenceFrame DEF boardVars, callVars
<1>5. GroupInv' BY <1>u DEF GroupInv
<1>6. CallInv'
  <2>1. ASSUME NEW t \in Tracer PROVE CallOf(t)'
    BY <1>u, CallFrame DEF CallInv, boardVars, callVars, sequenceVars
  <2> QED BY <2>1 DEF CallInv
<1>7. ScopeInv'
  <2>1. ASSUME NEW t \in Tracer PROVE ScopesOf(t)'
    BY <1>u, ScopesFrame DEF ScopeInv, boardVars, callVars
  <2> QED BY <2>1 DEF ScopeInv
<1>8. Closed(published)' BY <1>2 DEF Closed
<1> QED BY <1>1, <1>3, <1>4, <1>5, <1>6, <1>7, <1>8

LEMMA GroupStepInvariant ==
  ASSUME IInv, NEW g \in Group,
         AddGroup(g) \/ \E m \in SUBSET seen[g] : UpdateGroupCategory(g, m)
  PROVE  IInv'
<1> USE TraceAssumption DEF IInv
<1>u. UNCHANGED <<boardVars, published, seen, callVars, scopes, attached, sequenceVars, same>>
  BY DEF AddGroup, UpdateGroupCategory
<1>g. /\ grouped' \subseteq Group
      /\ \/ groupMask' = groupMask
         \/ \E m \in SUBSET seen[g] : groupMask' = [groupMask EXCEPT ![g] = m]
  BY DEF AddGroup, UpdateGroupCategory, TypeOK
<1>m. /\ groupMask' \in [Group -> SUBSET Instance]
      /\ \A h \in Group : groupMask'[h] \subseteq seen[h]
  <2>0. /\ groupMask \in [Group -> SUBSET Instance] /\ seen \in [Group -> SUBSET Instance]
        /\ \A h \in Group : groupMask[h] \subseteq seen[h]
    BY DEF TypeOK, GroupInv
  <2>1. CASE groupMask' = groupMask BY <2>0, <2>1
  <2>2. ASSUME NEW m \in SUBSET seen[g], groupMask' = [groupMask EXCEPT ![g] = m]
        PROVE  /\ groupMask' \in [Group -> SUBSET Instance]
               /\ \A h \in Group : groupMask'[h] \subseteq seen[h]
    BY <2>0, <2>2
  <2> QED BY <1>g, <2>1, <2>2
<1>1. TypeOK'
  BY <1>u, <1>g, <1>m DEF TypeOK, Board!TypeOK, Op, boardVars, callVars, sequenceVars
<1>2. Closed(published)' BY <1>u DEF Closed
<1>3. BoardInv' BY <1>u, BoardFrame
<1>4. SequenceInv' BY <1>u, SequenceFrame DEF boardVars
<1>5. GroupInv' BY <1>u, <1>m DEF GroupInv
<1>6. CallInv'
  <2>1. ASSUME NEW t \in Tracer PROVE CallOf(t)'
    BY <1>u, CallFrame DEF CallInv, boardVars, callVars, sequenceVars
  <2> QED BY <2>1 DEF CallInv
<1>7. ScopeInv'
  <2>1. ASSUME NEW t \in Tracer PROVE ScopesOf(t)'
    BY <1>u, ScopesFrame DEF ScopeInv, boardVars, callVars
  <2> QED BY <2>1 DEF ScopeInv
<1> QED BY <1>1, <1>2, <1>3, <1>4, <1>5, <1>6, <1>7

\* A new session, or one that is turned away: its index was free, so no call
\* and no scope is about it.
LEMMA SetupInvariant ==
  ASSUME IInv, NEW i \in Instance, NEW W \in SUBSET published, Setup(i, W) \/ Reject(i)
  PROVE  IInv'
<1> USE TraceAssumption DEF IInv
<1>u. UNCHANGED <<mask, registryVars, callVars, scopes, attached, sequenceVars, same>>
  BY DEF Setup, Reject, Board!Setup, Board!Reject
<1>p. /\ phase[i] = "free" /\ phase' \in [Instance -> Board!Phase]
      /\ wanted' \in [Instance -> SUBSET Category]
      /\ phase'[i] # "free" /\ wanted'[i] \subseteq published
      /\ phase'[i] = "live" => wanted'[i] = {}
      /\ \A j \in Instance \ {i} : phase'[j] = phase[j] /\ wanted'[j] = wanted[j]
  <2>0. /\ phase \in [Instance -> Board!Phase] /\ wanted \in [Instance -> SUBSET Category]
        /\ published \subseteq Category
    BY DEF TypeOK, Board!TypeOK
  <2>1. CASE Setup(i, W)
    <3>1. /\ phase[i] = "free" /\ phase' = [phase EXCEPT ![i] = "setup"]
          /\ wanted' = [wanted EXCEPT ![i] = W]
      BY <2>1 DEF Setup, Board!Setup
    <3>2. "setup" \in Board!Phase BY DEF Board!Phase
    <3> QED BY <2>0, <3>1, <3>2
  <2>2. CASE Reject(i)
    <3>1. /\ phase[i] = "free" /\ phase' = [phase EXCEPT ![i] = "live"] /\ wanted' = wanted
      BY <2>2 DEF Reject, Board!Reject
    <3>2. "live" \in Board!Phase /\ wanted[i] = {} BY <3>1 DEF Board!Phase, BoardInv
    <3> QED BY <2>0, <3>1, <3>2
  <2> QED BY <2>1, <2>2
<1>1. TypeOK'
  <2>1. Board!TypeOK' BY <1>u, <1>p DEF TypeOK, Board!TypeOK
  <2> QED BY <1>u, <2>1 DEF TypeOK, Op, registryVars, callVars, sequenceVars
<1>2. Closed(published)' BY <1>u DEF Closed, registryVars
<1>3. BoardInv'
  <2> SUFFICES ASSUME NEW j \in Instance
               PROVE  /\ \A c \in Category :
                           j \in mask'[c] => c \in wanted'[j] /\ phase'[j] # "free"
                      /\ phase'[j] = "live" => \A c \in wanted'[j] : j \in mask'[c]
                      /\ phase'[j] = "free" => wanted'[j] = {}
                      /\ wanted'[j] \subseteq published'
    BY DEF BoardInv
  <2>1. CASE j = i BY <1>u, <1>p, <2>1 DEF BoardInv, registryVars
  <2>2. CASE j # i BY <1>u, <1>p, <2>2 DEF BoardInv, registryVars
  <2> QED BY <2>1, <2>2
<1>4. SequenceInv'
  <2> SUFFICES ASSUME NEW t \in Tracer, NEW j \in Instance
               PROVE  /\ phase'[j] = "free" => needUpdate[t][j]
                      /\ ~needUpdate[t][j] =>
                           wanted'[j] \subseteq interned[t][j] /\ Closed(interned[t][j])
                      /\ \A g \in Group :
                           j \in seen[g] /\ ~needUpdate[t][j] =>
                             Members[g] \cap interned[t][j] # {}
    BY <1>u DEF SequenceInv, registryVars, sequenceVars, Closed
  <2>1. CASE j = i BY <1>p, <2>1 DEF SequenceInv
  <2>2. CASE j # i BY <1>p, <2>2 DEF SequenceInv
  <2> QED BY <2>1, <2>2
<1>5. GroupInv' BY <1>u, GroupFrame DEF registryVars
<1>6. CallInv'
  <2>1. \A j \in Instance : phase[j] # "free" => phase'[j] # "free" /\ wanted'[j] = wanted[j]
    BY <1>p
  <2>2. ASSUME NEW t \in Tracer PROVE CallOf(t)'
    BY <1>u, <2>1, CallFrame DEF CallInv, registryVars, callVars, sequenceVars
  <2> QED BY <2>2 DEF CallInv
<1>7. ScopeInv'
  <2>1. \A j \in Instance : phase[j] = "live" => phase'[j] = "live" /\ wanted'[j] = wanted[j]
    BY <1>p
  <2>2. ASSUME NEW t \in Tracer PROVE ScopesOf(t)'
    BY <1>u, <2>1, ScopesFrame DEF ScopeInv, registryVars, callVars
  <2> QED BY <2>2 DEF ScopeInv
<1> QED BY <1>1, <1>2, <1>3, <1>4, <1>5, <1>6, <1>7

LEMMA EnableInvariant ==
  ASSUME IInv, NEW i \in Instance, NEW c \in Category, Enable(i, c)
  PROVE  IInv'
<1> USE TraceAssumption DEF IInv
<1>u. /\ UNCHANGED <<phase, wanted, published, grouped, groupMask, callVars, scopes,
                     attached, sequenceVars, same>>
      /\ mask' = [mask EXCEPT ![c] = @ \cup {i}]
      /\ phase[i] = "setup" /\ c \in wanted[i]
      /\ seen' = [g \in Group |-> IF c \in Members[g] THEN seen[g] \cup {i} ELSE seen[g]]
  BY DEF Enable, Board!Enable
<1>s. \A g \in Group : /\ seen[g] \subseteq seen'[g]
                       /\ seen'[g] \subseteq seen[g] \cup {i}
                       /\ seen'[g] # seen[g] => c \in Members[g]
  BY <1>u
<1>1. TypeOK'
  <2>1. Board!TypeOK' BY <1>u DEF TypeOK, Board!TypeOK
  <2>2. seen' \in [Group -> SUBSET Instance] BY <1>u DEF TypeOK
  <2> QED BY <1>u, <2>1, <2>2 DEF TypeOK, Op, callVars, sequenceVars
<1>2. Closed(published)' BY <1>u DEF Closed
<1>3. BoardInv'
  <2>1. mask \in [Category -> SUBSET Instance] BY DEF TypeOK, Board!TypeOK
  <2>2. \A d \in Category : mask'[d] = IF d = c THEN mask[d] \cup {i} ELSE mask[d]
    BY <1>u, <2>1
  <2>3. wanted \in [Instance -> SUBSET Category] BY DEF TypeOK, Board!TypeOK
  <2> QED BY <1>u, <2>2, <2>3 DEF BoardInv
<1>w. c \in published BY <1>u DEF BoardInv
<1>4. SequenceInv'
  <2>1. ASSUME NEW t \in Tracer, NEW j \in Instance, NEW g \in Group,
               j \in seen'[g], ~needUpdate[t][j]
        PROVE  Members[g] \cap interned[t][j] # {}
    <3>1. CASE j \in seen[g] BY <2>1, <3>1 DEF SequenceInv
    <3>2. CASE j \notin seen[g]
      <4>1. j = i /\ c \in Members[g] BY <1>s, <2>1, <3>2
      <4>2. c \in interned[t][j] BY <1>u, <2>1, <4>1 DEF SequenceInv
      <4> QED BY <4>1, <4>2
    <3> QED BY <3>1, <3>2
  <2>2. \A t \in Tracer, j \in Instance :
          /\ phase[j] = "free" => needUpdate[t][j]
          /\ ~needUpdate[t][j] => wanted[j] \subseteq interned[t][j] /\ Closed(interned[t][j])
    BY DEF SequenceInv
  <2> QED BY <1>u, <2>1, <2>2 DEF SequenceInv, sequenceVars, Closed
<1>5. GroupInv'
  <2> SUFFICES ASSUME NEW g \in Group
               PROVE  /\ groupMask'[g] \subseteq seen'[g]
                      /\ seen'[g] # {} => Members[g] \cap published' # {}
    BY DEF GroupInv
  <2>1. groupMask'[g] \subseteq seen'[g] BY <1>u, <1>s DEF GroupInv
  <2>2. CASE seen'[g] = seen[g] BY <1>u, <2>1, <2>2 DEF GroupInv
  <2>3. CASE seen'[g] # seen[g] BY <1>u, <1>s, <1>w, <2>1, <2>3
  <2> QED BY <2>2, <2>3
<1>6. CallInv'
  <2>1. ASSUME NEW t \in Tracer PROVE CallOf(t)'
    BY <1>u, <1>s, CallFrame DEF CallInv, callVars, sequenceVars
  <2> QED BY <2>1 DEF CallInv
<1>7. ScopeInv'
  <2>1. ASSUME NEW t \in Tracer PROVE ScopesOf(t)'
    BY <1>u, ScopesFrame DEF ScopeInv, callVars
  <2> QED BY <2>1 DEF ScopeInv
<1> QED BY <1>1, <1>2, <1>3, <1>4, <1>5, <1>6, <1>7

LEMMA AdvanceInvariant ==
  ASSUME IInv, NEW i \in Instance, Advance(i)
  PROVE  IInv'
<1> USE TraceAssumption DEF IInv
<1>u. UNCHANGED <<wanted, registryVars, callVars, scopes, attached, sequenceVars, same>>
  BY DEF Advance, Board!Ready, Board!Disable
<1>0. /\ mask \in [Category -> SUBSET Instance] /\ phase \in [Instance -> Board!Phase]
      /\ wanted \in [Instance -> SUBSET Category]
  BY DEF TypeOK, Board!TypeOK
<1>p. /\ phase' \in [Instance -> Board!Phase] /\ mask' \in [Category -> SUBSET Instance]
      /\ \A c \in Category, j \in Instance : j \in mask'[c] => j \in mask[c]
      /\ \A j \in Instance : /\ phase[j] # "free" <=> phase'[j] # "free"
                             /\ phase[j] = "live" => phase'[j] = "live"
                             /\ phase'[j] = "live" => \A c \in wanted[j] : j \in mask'[c]
  <2>1. CASE Board!Ready(i)
    <3>1. /\ phase[i] = "setup" /\ \A c \in wanted[i] : i \in mask[c]
          /\ phase' = [phase EXCEPT ![i] = "live"] /\ mask' = mask
      BY <2>1 DEF Board!Ready
    <3>2. "live" \in Board!Phase BY DEF Board!Phase
    <3>3. \A j \in Instance : phase'[j] = IF j = i THEN "live" ELSE phase[j] BY <1>0, <3>1
    <3> QED BY <1>0, <3>1, <3>2, <3>3 DEF BoardInv
  <2>2. ASSUME NEW c \in Category, Board!Disable(i, c)
        PROVE  /\ phase' = phase /\ mask' \in [Category -> SUBSET Instance]
               /\ \A d \in Category, j \in Instance : j \in mask'[d] => j \in mask[d]
               /\ \A j \in Instance : phase[j] = "live" =>
                    \A d \in wanted[j] : j \in mask'[d]
    <3>1. phase[i] = "stop" /\ phase' = phase /\ mask' = [mask EXCEPT ![c] = @ \ {i}]
      BY <2>2 DEF Board!Disable
    <3>2. \A d \in Category : mask'[d] = IF d = c THEN mask[d] \ {i} ELSE mask[d]
      BY <1>0, <3>1
    <3>3. \A j \in Instance : phase[j] = "live" => j # i BY <3>1
    <3> QED BY <1>0, <3>1, <3>2, <3>3 DEF BoardInv
  <2> QED BY <1>0, <2>1, <2>2 DEF Advance
<1>1. TypeOK'
  <2>1. Board!TypeOK' BY <1>0, <1>u, <1>p DEF Board!TypeOK
  <2> QED BY <1>u, <2>1 DEF TypeOK, Op, registryVars, callVars, sequenceVars
<1>2. Closed(published)' BY <1>u DEF Closed, registryVars
<1>3. BoardInv' BY <1>u, <1>p DEF BoardInv, registryVars
<1>4. SequenceInv' BY <1>u, <1>p DEF SequenceInv, registryVars, sequenceVars, Closed
<1>5. GroupInv' BY <1>u, GroupFrame DEF registryVars
<1>6. CallInv'
  <2>1. ASSUME NEW t \in Tracer PROVE CallOf(t)'
    BY <1>u, <1>p, CallFrame DEF CallInv, registryVars, callVars, sequenceVars
  <2> QED BY <2>1 DEF CallInv
<1>7. ScopeInv'
  <2>1. ASSUME NEW t \in Tracer PROVE ScopesOf(t)'
    BY <1>u, <1>p, ScopesFrame DEF ScopeInv, callVars
  <2> QED BY <2>1 DEF ScopeInv
<1> QED BY <1>1, <1>2, <1>3, <1>4, <1>5, <1>6, <1>7

\* A session that stops is taken out of all scopes.
LEMMA ForgetScopes ==
  ASSUME NEW s \in Seq(Scope), NEW i \in Instance
  PROVE  LET f == [k \in 1 .. Len(s) |-> Forget(s[k], i)]
         IN  /\ f \in Seq(Scope) /\ Len(f) = Len(s)
             /\ \A k \in 1 .. Len(s) :
                  /\ f[k].cat = s[k].cat /\ f[k].live = s[k].live \ {i}
                  /\ f[k].begun = s[k].begun \ {i} /\ f[k].ended = s[k].ended \ {i}
<1> DEFINE f == [k \in 1 .. Len(s) |-> Forget(s[k], i)]
<1>0. Len(s) \in Nat BY LenProperties
<1>1. ASSUME NEW k \in 1 .. Len(s)
      PROVE  /\ f[k] \in Scope /\ f[k].cat = s[k].cat /\ f[k].live = s[k].live \ {i}
             /\ f[k].begun = s[k].begun \ {i} /\ f[k].ended = s[k].ended \ {i}
  <2>1. s[k] \in Scope BY ElementOfSeq
  <2>2. f[k] = Forget(s[k], i) OBVIOUS
  <2> HIDE DEF f
  <2> QED BY <2>1, <2>2 DEF Scope, Forget
<1>2. f \in [1 .. Len(s) -> Scope] BY <1>1
<1>3. f \in Seq(Scope) BY <1>0, <1>2, SeqDef
<1>4. Len(f) = Len(s) BY <1>0, <1>2, <1>3, LenProperties
<1> QED BY <1>1, <1>3, <1>4

LEMMA StopInvariant ==
  ASSUME IInv, NEW i \in Instance, Stop(i)
  PROVE  IInv'
<1> USE TraceAssumption DEF IInv
<1>u. /\ UNCHANGED <<mask, wanted, registryVars, callVars, attached, sequenceVars, same>>
      /\ phase[i] = "live" /\ phase' = [phase EXCEPT ![i] = "stop"]
      /\ scopes' = [t \in Tracer |-> [k \in 1 .. Len(scopes[t]) |-> Forget(scopes[t][k], i)]]
  BY DEF Stop, Board!Stop
<1>p. /\ phase' \in [Instance -> Board!Phase] /\ phase'[i] = "stop"
      /\ \A j \in Instance \ {i} : phase'[j] = phase[j]
  <2>1. phase \in [Instance -> Board!Phase] /\ "stop" \in Board!Phase
    BY DEF TypeOK, Board!TypeOK, Board!Phase
  <2> QED BY <1>u, <2>1
<1>s. ASSUME NEW t \in Tracer
      PROVE  /\ scopes'[t] \in Seq(Scope) /\ Len(scopes'[t]) = Len(scopes[t])
             /\ Len(scopes[t]) \in Nat /\ scopes[t] \in Seq(Scope)
             /\ \A k \in 1 .. Len(scopes[t]) :
                  /\ scopes'[t][k].cat = scopes[t][k].cat
                  /\ scopes'[t][k].live = scopes[t][k].live \ {i}
                  /\ scopes'[t][k].begun = scopes[t][k].begun \ {i}
                  /\ scopes'[t][k].ended = scopes[t][k].ended \ {i}
  <2>1. scopes[t] \in Seq(Scope) BY DEF TypeOK
  <2>2. scopes'[t] = [k \in 1 .. Len(scopes[t]) |-> Forget(scopes[t][k], i)] BY <1>u
  <2>3. Len(scopes[t]) \in Nat BY <2>1, LenProperties
  <2> QED BY <2>1, <2>2, <2>3, ForgetScopes
<1>1. TypeOK'
  <2>1. Board!TypeOK' BY <1>u, <1>p DEF TypeOK, Board!TypeOK
  <2>2. \A t \in Tracer : scopes'[t] \in Seq(Scope) /\ Len(scopes'[t]) <= MaxDepth
    BY <1>s DEF TypeOK
  <2> QED BY <1>u, <2>1, <2>2 DEF TypeOK, Op, registryVars, callVars, sequenceVars
<1>2. Closed(published)' BY <1>u DEF Closed, registryVars
<1>3. BoardInv' BY <1>u, <1>p DEF BoardInv, registryVars
<1>4. SequenceInv'
  BY <1>u, <1>p DEF SequenceInv, registryVars, sequenceVars, Closed
<1>5. GroupInv' BY <1>u, GroupFrame DEF registryVars
<1>6. CallInv'
  <2>1. \A j \in Instance : phase[j] # "free" => phase'[j] # "free" BY <1>p
  <2>2. ASSUME NEW t \in Tracer PROVE CallOf(t)'
    BY <1>u, <2>1, CallFrame DEF CallInv, registryVars, callVars, sequenceVars
  <2> QED BY <2>2 DEF CallInv
<1>7. ScopeInv'
  <2> SUFFICES ASSUME NEW t \in Tracer PROVE ScopesOf(t)' BY DEF ScopeInv
  <2>0. ScopesOf(t) BY DEF ScopeInv
  <2>1. ASSUME op'[t] \in {"begin", "end"}
        PROVE  scopes'[t] # <<>> /\ cat'[t] = Innermost(t)'.cat
    <3>1. scopes[t] # <<>> /\ cat[t] = Innermost(t).cat
      BY <1>u, <2>0, <2>1 DEF ScopesOf, callVars
    <3>2. Len(scopes[t]) \in 1 .. Len(scopes[t]) BY <1>s, <3>1, EmptySeq
    <3>3. Len(scopes'[t]) = Len(scopes[t]) BY <1>s
    <3>4. Innermost(t)'.cat = Innermost(t).cat BY <1>s, <3>2, <3>3 DEF Innermost
    <3>5. scopes'[t] # <<>> BY <3>2, <3>3, EmptySeq
    <3> QED BY <1>u, <3>1, <3>4, <3>5 DEF callVars
  <2>2. \A k \in 1 .. Len(scopes[t]) : \A o \in Op : During(t, o, k)' <=> During(t, o, k)
    BY <1>u, <1>s DEF During, callVars
  <2>3. \A j \in Instance : Pending(t, j)' <=> Pending(t, j) BY <1>u DEF Pending, callVars
  <2>4. ASSUME NEW k \in 1 .. Len(scopes'[t]), NEW j \in scopes'[t][k].live
        PROVE  /\ phase'[j] = "live"
               /\ inst'[t] = j => attached'[t]
               /\ scopes'[t][k].cat \in Category =>
                    (j \in scopes'[t][k].begun
                       \/ (During(t, "begin", k)' /\ Pending(t, j)')
                      <=> scopes'[t][k].cat \in wanted'[j])
               /\ During(t, "end", k)' /\ scopes'[t][k].cat \in Category =>
                    (j \in scopes'[t][k].ended \/ Pending(t, j)'
                      <=> scopes'[t][k].cat \in wanted'[j])
    <3>1. k \in 1 .. Len(scopes[t]) /\ j \in scopes[t][k].live /\ j # i BY <1>s, <2>4
    <3>2. scopes[t][k] \in Scope BY <1>s, <3>1, ElementOfSeq
    <3>3. j \in Instance BY <3>1, <3>2 DEF Scope
    <3>4. /\ j \in scopes'[t][k].begun <=> j \in scopes[t][k].begun
          /\ j \in scopes'[t][k].ended <=> j \in scopes[t][k].ended
          /\ scopes'[t][k].cat = scopes[t][k].cat
      BY <1>s, <3>1
    <3>5. /\ During(t, "begin", k)' <=> During(t, "begin", k)
          /\ During(t, "end", k)' <=> During(t, "end", k)
      BY <2>2, <3>1 DEF Op
    <3>6. /\ phase[j] = "live"
          /\ inst[t] = j => attached[t]
          /\ scopes[t][k].cat \in Category =>
               (j \in scopes[t][k].begun \/ (During(t, "begin", k) /\ Pending(t, j))
                 <=> scopes[t][k].cat \in wanted[j])
          /\ During(t, "end", k) /\ scopes[t][k].cat \in Category =>
               (j \in scopes[t][k].ended \/ Pending(t, j) <=> scopes[t][k].cat \in wanted[j])
      BY <2>0, <3>1 DEF ScopesOf
    <3>7. phase'[j] = "live" BY <1>p, <3>1, <3>3, <3>6
    <3>8. inst' = inst /\ attached' = attached /\ wanted' = wanted BY <1>u DEF callVars
    <3> QED BY <2>3, <3>3, <3>4, <3>5, <3>6, <3>7, <3>8
  <2>5. ASSUME NEW k \in 1 .. Len(scopes'[t]), ~During(t, "end", k)'
        PROVE  scopes'[t][k].ended = {}
    <3>1. k \in 1 .. Len(scopes[t]) BY <1>s
    <3>2. ~During(t, "end", k) BY <2>2, <2>5, <3>1 DEF Op
    <3>3. scopes[t][k].ended = {} BY <2>0, <3>1, <3>2 DEF ScopesOf
    <3> QED BY <1>s, <3>1, <3>3
  <2> QED BY <2>1, <2>4, <2>5 DEF ScopesOf
<1> QED BY <1>1, <1>2, <1>3, <1>4, <1>5, <1>6, <1>7

\* An index is given back: nothing the old session left is taken for the new one's.
LEMMA ReleaseInvariant ==
  ASSUME IInv, NEW i \in Instance, Release(i)
  PROVE  IInv'
<1> USE TraceAssumption DEF IInv
<1>u. /\ UNCHANGED <<mask, registryVars, callVars, scopes>>
      /\ phase[i] = "stop" /\ \A c \in Category : i \notin mask[c]
      /\ phase' = [phase EXCEPT ![i] = "free"] /\ wanted' = [wanted EXCEPT ![i] = {}]
      /\ attached' = [t \in Tracer |-> attached[t] /\ inst[t] # i]
      /\ same' = [t \in Tracer |-> same[t] \ {i}]
      /\ needUpdate' = [t \in Tracer |-> [needUpdate[t] EXCEPT ![i] = TRUE]]
      /\ interned' = [t \in Tracer |-> [interned[t] EXCEPT ![i] = {}]]
  BY DEF Release, Board!Release
<1>p. /\ phase' \in [Instance -> Board!Phase] /\ wanted' \in [Instance -> SUBSET Category]
      /\ phase'[i] = "free" /\ wanted'[i] = {}
      /\ \A j \in Instance \ {i} : phase'[j] = phase[j] /\ wanted'[j] = wanted[j]
  <2>1. /\ phase \in [Instance -> Board!Phase] /\ "free" \in Board!Phase
        /\ wanted \in [Instance -> SUBSET Category]
    BY DEF TypeOK, Board!TypeOK, Board!Phase
  <2> QED BY <1>u, <2>1
<1>n. /\ needUpdate' \in [Tracer -> [Instance -> BOOLEAN]]
      /\ interned' \in [Tracer -> [Instance -> SUBSET Category]]
      /\ \A t \in Tracer : /\ needUpdate'[t][i] = TRUE
                           /\ \A j \in Instance \ {i} : /\ needUpdate'[t][j] = needUpdate[t][j]
                                                        /\ interned'[t][j] = interned[t][j]
  <2>1. /\ needUpdate \in [Tracer -> [Instance -> BOOLEAN]]
        /\ interned \in [Tracer -> [Instance -> SUBSET Category]]
    BY DEF TypeOK
  <2> QED BY <1>u, <2>1
<1>1. TypeOK'
  <2>1. Board!TypeOK' BY <1>u, <1>p DEF TypeOK, Board!TypeOK
  <2>2. same' \in [Tracer -> SUBSET Instance] BY <1>u DEF TypeOK
  <2>3. attached' \in [Tracer -> BOOLEAN] BY <1>u
  <2> QED BY <1>u, <1>n, <2>1, <2>2, <2>3 DEF TypeOK, Op, registryVars, callVars
<1>2. Closed(published)' BY <1>u DEF Closed, registryVars
<1>3. BoardInv'
  <2> SUFFICES ASSUME NEW j \in Instance
               PROVE  /\ \A c \in Category :
                           j \in mask'[c] => c \in wanted'[j] /\ phase'[j] # "free"
                      /\ phase'[j] = "live" => \A c \in wanted'[j] : j \in mask'[c]
                      /\ phase'[j] = "free" => wanted'[j] = {}
                      /\ wanted'[j] \subseteq published'
    BY DEF BoardInv
  <2>1. CASE j = i BY <1>u, <1>p, <2>1
  <2>2. CASE j # i BY <1>u, <1>p, <2>2 DEF BoardInv, registryVars
  <2> QED BY <2>1, <2>2
<1>4. SequenceInv'
  <2> SUFFICES ASSUME NEW t \in Tracer, NEW j \in Instance
               PROVE  /\ phase'[j] = "free" => needUpdate'[t][j]
                      /\ ~needUpdate'[t][j] =>
                           wanted'[j] \subseteq interned'[t][j] /\ Closed(interned'[t][j])
                      /\ \A g \in Group :
                           j \in seen[g] /\ ~needUpdate'[t][j] =>
                             Members[g] \cap interned'[t][j] # {}
    BY <1>u DEF SequenceInv, registryVars, Closed
  <2>1. CASE j = i BY <1>n, <2>1
  <2>2. CASE j # i
    <3>1. /\ phase'[j] = phase[j] /\ wanted'[j] = wanted[j]
          /\ needUpdate'[t][j] = needUpdate[t][j] /\ interned'[t][j] = interned[t][j]
      BY <1>p, <1>n, <2>2
    <3> QED BY <3>1 DEF SequenceInv
  <2> QED BY <2>1, <2>2
<1>5. GroupInv' BY <1>u, GroupFrame DEF registryVars
<1>6. CallInv'
  <2> SUFFICES ASSUME NEW t \in Tracer PROVE CallOf(t)' BY DEF CallInv
  <2>0. CallOf(t) BY DEF CallInv
  <2>u. /\ pc' = pc /\ cat' = cat /\ inst' = inst /\ todo' = todo
        /\ published' = published /\ seen' = seen
        /\ same'[t] = same[t] \ {i} /\ same[t] \subseteq Instance
        /\ attached'[t] = (attached[t] /\ inst[t] # i)
    BY <1>u DEF registryVars, callVars, TypeOK
  <2>1. \A j \in same'[t] : phase'[j] # "free" BY <1>p, <2>0, <2>u DEF CallOf
  <2>2. ASSUME NEW j \in Instance, Pending(t, j)'
        PROVE  /\ cat'[t] \in Category =>
                    /\ j \in same'[t] => cat'[t] \in wanted'[j]
                    /\ cat'[t] \in published'
                    /\ ~needUpdate'[t][j] => cat'[t] \in interned'[t][j]
               /\ cat'[t] \notin Category => cat'[t] \in Group /\ j \in seen'[cat'[t]]
    <3>1. Pending(t, j) BY <2>2, <2>u DEF Pending
    <3>2. CASE j = i BY <1>n, <2>0, <2>u, <3>1, <3>2 DEF CallOf
    <3>3. CASE j # i BY <1>p, <1>n, <2>0, <2>u, <3>1, <3>3 DEF CallOf
    <3> QED BY <3>2, <3>3
  <2>3. ASSUME pc'[t] = "write", attached'[t] PROVE ~needUpdate'[t][inst'[t]]
    <3>1. inst[t] \in Instance /\ inst[t] # i BY <2>3, <2>u DEF TypeOK
    <3>2. ~needUpdate[t][inst[t]] BY <2>0, <2>3, <2>u DEF CallOf
    <3> QED BY <1>n, <2>u, <3>1, <3>2
  <2>4. ASSUME attached'[t] PROVE inst'[t] # None /\ phase'[inst'[t]] # "free"
    <3>1. inst[t] \in Instance /\ inst[t] # i BY <2>0, <2>4, <2>u DEF CallOf, TypeOK
    <3>2. attached[t] BY <2>4, <2>u
    <3>3. inst[t] # None /\ phase[inst[t]] # "free" BY <2>0, <3>2 DEF CallOf
    <3>4. phase'[inst[t]] = phase[inst[t]] BY <1>p, <3>1
    <3> QED BY <2>u, <3>3, <3>4
  <2> QED BY <2>1, <2>2, <2>3, <2>4 DEF CallOf
<1>7. ScopeInv'
  <2>1. \A j \in Instance : phase[j] = "live" => phase'[j] = "live" /\ wanted'[j] = wanted[j]
    BY <1>u, <1>p
  <2>2. \A t \in Tracer, j \in Instance :
          phase[j] = "live" /\ inst[t] = j /\ attached[t] => attached'[t]
    BY <1>u
  <2>3. ASSUME NEW t \in Tracer PROVE ScopesOf(t)'
    BY <1>u, <2>1, <2>2, ScopesFrame DEF ScopeInv, callVars
  <2> QED BY <2>3 DEF ScopeInv
<1> QED BY <1>1, <1>2, <1>3, <1>4, <1>5, <1>6, <1>7

\* A step that sets one entry of a table of two indices leaves all others alone.
LEMMA EntryUpdate ==
  ASSUME NEW S, NEW f \in [Tracer -> [Instance -> S]], NEW t \in Tracer,
         NEW i \in Instance, NEW v \in S
  PROVE  LET h == [f EXCEPT ![t][i] = v]
         IN  /\ h \in [Tracer -> [Instance -> S]]
             /\ h[t][i] = v
             /\ \A j \in Instance \ {i} : h[t][j] = f[t][j]
             /\ \A u \in Tracer \ {t} : h[u] = f[u]
<1> DEFINE r == [f[t] EXCEPT ![i] = v]
<1>1. /\ r \in [Instance -> S] /\ r[i] = v
      /\ \A j \in Instance \ {i} : r[j] = f[t][j]
  <2>1. f[t] \in [Instance -> S] OBVIOUS
  <2> QED BY <2>1
<1>2. [f EXCEPT ![t][i] = v] = [f EXCEPT ![t] = r] OBVIOUS
<1> HIDE DEF r
<1> QED BY <1>1, <1>2

LEMMA ClearInvariant ==
  ASSUME IInv, NEW t \in Tracer, NEW i \in Instance, ClearIncrementalState(t, i)
  PROVE  IInv'
<1> USE TraceAssumption DEF IInv
<1>u. /\ UNCHANGED <<boardVars, registryVars, callVars, scopes, attached, same>>
      /\ pc[t] \in {"idle", "loop"}
      /\ needUpdate' = [needUpdate EXCEPT ![t][i] = TRUE]
      /\ interned' = [interned EXCEPT ![t][i] = {}]
  BY DEF ClearIncrementalState
<1>n. /\ needUpdate' \in [Tracer -> [Instance -> BOOLEAN]]
      /\ interned' \in [Tracer -> [Instance -> SUBSET Category]]
      /\ \A u \in Tracer, j \in Instance :
           \/ needUpdate'[u][j]
           \/ needUpdate'[u][j] = needUpdate[u][j] /\ interned'[u][j] = interned[u][j]
      /\ \A u \in Tracer \ {t} :
           needUpdate'[u] = needUpdate[u] /\ interned'[u] = interned[u]
      /\ \A u \in Tracer, j \in Instance : needUpdate[u][j] => needUpdate'[u][j]
  <2>1. /\ needUpdate \in [Tracer -> [Instance -> BOOLEAN]]
        /\ interned \in [Tracer -> [Instance -> SUBSET Category]]
    BY DEF TypeOK
  <2>2. /\ needUpdate' \in [Tracer -> [Instance -> BOOLEAN]]
        /\ needUpdate'[t][i] = TRUE
        /\ \A j \in Instance \ {i} : needUpdate'[t][j] = needUpdate[t][j]
        /\ \A u \in Tracer \ {t} : needUpdate'[u] = needUpdate[u]
    BY <1>u, <2>1, EntryUpdate
  <2>3. /\ interned' \in [Tracer -> [Instance -> SUBSET Category]]
        /\ \A j \in Instance \ {i} : interned'[t][j] = interned[t][j]
        /\ \A u \in Tracer \ {t} : interned'[u] = interned[u]
    <3>1. {} \in SUBSET Category OBVIOUS
    <3> QED BY <1>u, <2>1, <3>1, EntryUpdate
  <2>4. ASSUME NEW u \in Tracer, NEW j \in Instance
        PROVE  /\ \/ needUpdate'[u][j]
                  \/ needUpdate'[u][j] = needUpdate[u][j] /\ interned'[u][j] = interned[u][j]
               /\ needUpdate[u][j] => needUpdate'[u][j]
    <3>1. CASE u = t /\ j = i BY <2>2, <3>1
    <3>2. CASE u = t /\ j # i BY <2>2, <2>3, <3>2
    <3>3. CASE u # t BY <2>2, <2>3, <3>3
    <3> QED BY <3>1, <3>2, <3>3
  <2> QED BY <2>2, <2>3, <2>4
<1>1. TypeOK'
  BY <1>u, <1>n DEF TypeOK, Board!TypeOK, Op, boardVars, registryVars, callVars
<1>2. Closed(published)' BY <1>u DEF Closed, registryVars
<1>3. BoardInv' BY <1>u, BoardFrame DEF registryVars
<1>4. SequenceInv'
  <2> SUFFICES ASSUME NEW u \in Tracer, NEW j \in Instance
               PROVE  /\ phase[j] = "free" => needUpdate'[u][j]
                      /\ ~needUpdate'[u][j] =>
                           wanted[j] \subseteq interned'[u][j] /\ Closed(interned'[u][j])
                      /\ \A g \in Group :
                           j \in seen[g] /\ ~needUpdate'[u][j] =>
                             Members[g] \cap interned'[u][j] # {}
    BY <1>u DEF SequenceInv, boardVars, registryVars, Closed
  <2>1. CASE needUpdate'[u][j] BY <2>1
  <2>2. CASE ~needUpdate'[u][j]
    <3>1. ~needUpdate[u][j] /\ interned'[u][j] = interned[u][j] BY <1>n, <2>2
    <3> QED BY <2>2, <3>1 DEF SequenceInv
  <2> QED BY <2>1, <2>2
<1>5. GroupInv' BY <1>u, GroupFrame DEF registryVars
<1>6. CallInv'
  <2> SUFFICES ASSUME NEW u \in Tracer PROVE CallOf(u)' BY DEF CallInv
  <2>0. CallOf(u) BY DEF CallInv
  <2>u. /\ pc' = pc /\ cat' = cat /\ inst' = inst /\ todo' = todo /\ phase' = phase
        /\ wanted' = wanted /\ published' = published /\ seen' = seen /\ same' = same
        /\ attached' = attached
    BY <1>u DEF boardVars, registryVars, callVars
  <2>2. ASSUME NEW j \in Instance, Pending(u, j)'
        PROVE  /\ cat'[u] \in Category =>
                    /\ j \in same'[u] => cat'[u] \in wanted'[j]
                    /\ cat'[u] \in published'
                    /\ ~needUpdate'[u][j] => cat'[u] \in interned'[u][j]
               /\ cat'[u] \notin Category => cat'[u] \in Group /\ j \in seen'[cat'[u]]
    <3>1. Pending(u, j) BY <2>2, <2>u DEF Pending
    <3>2. ~needUpdate'[u][j] => ~needUpdate[u][j] /\ interned'[u][j] = interned[u][j]
      BY <1>n
    <3> QED BY <2>0, <2>u, <3>1, <3>2 DEF CallOf
  <2>3. ASSUME pc'[u] = "write", attached'[u] PROVE ~needUpdate'[u][inst'[u]]
    <3>1. u # t BY <1>u, <2>3, <2>u
    <3> QED BY <1>n, <2>0, <2>3, <2>u, <3>1 DEF CallOf
  <2>4. \A j \in same'[u] : phase'[j] # "free" BY <2>0, <2>u DEF CallOf
  <2>5. attached'[u] => inst'[u] # None /\ phase'[inst'[u]] # "free"
    BY <2>0, <2>u DEF CallOf
  <2> QED BY <2>2, <2>3, <2>4, <2>5 DEF CallOf
<1>7. ScopeInv'
  <2>1. ASSUME NEW u \in Tracer PROVE ScopesOf(u)'
    BY <1>u, ScopesFrame DEF ScopeInv, boardVars, callVars
  <2> QED BY <2>1 DEF ScopeInv
<1> QED BY <1>1, <1>2, <1>3, <1>4, <1>5, <1>6, <1>7

-----------------------------------------------------------------------------
(* The macros *)

\* The bits that are loaded belong to sessions that want the category.
LEMMA LoadMaskCalls ==
  ASSUME IInv, NEW t \in Tracer, NEW o \in Op, NEW c \in Category \cup Group,
         pc[t] = "idle", LoadMask(t, o, c)
  PROVE  /\ CallInv'
         /\ op' \in [Tracer -> Op \cup {None}]
         /\ cat' \in [Tracer -> Category \cup Group \cup {None}]
         /\ todo' \in [Tracer -> SUBSET Instance] /\ same' \in [Tracer -> SUBSET Instance]
         /\ extended' \in [Tracer -> BOOLEAN]
         /\ pc' = [pc EXCEPT ![t] = "loop"]
         /\ op'[t] = o /\ cat'[t] = c /\ todo'[t] = MaskOf(c) /\ inst[t] = None
         /\ \A u \in Tracer \ {t} : /\ pc'[u] = pc[u] /\ op'[u] = op[u] /\ cat'[u] = cat[u]
                                    /\ todo'[u] = todo[u] /\ same'[u] = same[u]
<1> USE TraceAssumption DEF IInv
<1>u. /\ UNCHANGED <<boardVars, registryVars, inst, attached, sequenceVars>>
      /\ op' = [op EXCEPT ![t] = o] /\ cat' = [cat EXCEPT ![t] = c]
      /\ todo' = [todo EXCEPT ![t] = MaskOf(c)]
      /\ extended' = [extended EXCEPT ![t] = (o = "data")]
      /\ same' = [same EXCEPT ![t] = {i \in MaskOf(c) : phase[i] # "free"}]
      /\ pc' = [pc EXCEPT ![t] = "loop"]
  BY DEF LoadMask, CallWith
<1>m. MaskOf(c) \subseteq Instance BY DEF MaskOf, TypeOK, Board!TypeOK
<1>1. /\ op' \in [Tracer -> Op \cup {None}]
      /\ cat' \in [Tracer -> Category \cup Group \cup {None}]
      /\ todo' \in [Tracer -> SUBSET Instance] /\ same' \in [Tracer -> SUBSET Instance]
      /\ extended' \in [Tracer -> BOOLEAN]
  BY <1>u, <1>m DEF TypeOK
<1>2. /\ op'[t] = o /\ cat'[t] = c /\ todo'[t] = MaskOf(c) /\ pc'[t] = "loop"
      /\ same'[t] = {i \in MaskOf(c) : phase[i] # "free"}
      /\ \A u \in Tracer \ {t} : /\ pc'[u] = pc[u] /\ op'[u] = op[u] /\ cat'[u] = cat[u]
                                 /\ todo'[u] = todo[u] /\ same'[u] = same[u]
  BY <1>u DEF TypeOK
<1>3. inst[t] = None BY DEF TypeOK
<1>4. CallOf(t)'
  <2>1. \A i \in same'[t] : phase'[i] # "free" BY <1>u, <1>2 DEF boardVars
  <2>2. ASSUME NEW i \in Instance, Pending(t, i)', c \in Category
        PROVE  c \in wanted[i] /\ c \in published /\ (~needUpdate[t][i] => c \in interned[t][i])
    <3>1. i \in mask[c] BY <1>u, <1>2, <1>3, <2>2 DEF Pending, MaskOf
    <3>2. c \in wanted[i] BY <2>2, <3>1 DEF BoardInv
    <3>3. c \in published BY <3>2 DEF BoardInv
    <3>4. ~needUpdate[t][i] => c \in interned[t][i] BY <3>2 DEF SequenceInv
    <3> QED BY <3>2, <3>3, <3>4
  <2>3. ASSUME NEW i \in Instance, Pending(t, i)', c \in Group
        PROVE  i \in seen[c]
    <3>1. i \in groupMask[c] BY <1>u, <1>2, <1>3, <2>3 DEF Pending, MaskOf
    <3> QED BY <2>3, <3>1 DEF GroupInv
  <2>4. ~attached[t] BY <1>3 DEF CallInv, CallOf
  <2> QED BY <1>u, <1>2, <2>1, <2>2, <2>3, <2>4
          DEF CallOf, boardVars, registryVars, sequenceVars
<1>5. ASSUME NEW u \in Tracer \ {t} PROVE CallOf(u)'
  BY <1>u, <1>2, CallFrame DEF CallInv, boardVars, registryVars, sequenceVars
<1> QED BY <1>u, <1>1, <1>2, <1>3, <1>4, <1>5 DEF CallInv

\* The rest of what the beginning of a call leaves as it was.
LEMMA LoadMaskRest ==
  ASSUME IInv, NEW t \in Tracer, NEW o \in Op, NEW c \in Category \cup Group,
         pc[t] = "idle", LoadMask(t, o, c),
         scopes' \in [Tracer -> Seq(Scope)], \A u \in Tracer : Len(scopes'[u]) <= MaxDepth,
         \A u \in Tracer \ {t} : scopes'[u] = scopes[u],
         ScopesOf(t)'
  PROVE  IInv'
<1> USE TraceAssumption DEF IInv
<1>u. UNCHANGED <<boardVars, registryVars, inst, attached, sequenceVars>>
  BY DEF LoadMask, CallWith
<1>1. TypeOK'
  <2>1. /\ op' \in [Tracer -> Op \cup {None}]
        /\ cat' \in [Tracer -> Category \cup Group \cup {None}]
        /\ todo' \in [Tracer -> SUBSET Instance] /\ same' \in [Tracer -> SUBSET Instance]
        /\ extended' \in [Tracer -> BOOLEAN]
        /\ pc' = [pc EXCEPT ![t] = "loop"] /\ inst[t] = None
        /\ \A u \in Tracer \ {t} : op'[u] = op[u] /\ todo'[u] = todo[u]
    BY LoadMaskCalls
  <2>2. pc' \in [Tracer -> {"idle", "loop", "update", "write"}] BY <2>1 DEF TypeOK
  <2>3. /\ pc'[t] = "loop"
        /\ \A u \in Tracer \ {t} : pc'[u] = pc[u]
    BY <2>1 DEF TypeOK
  <2>4. \A u \in Tracer : (inst'[u] # None) <=> pc'[u] \in {"update", "write"}
    BY <1>u, <2>1, <2>3 DEF TypeOK
  <2>5. \A u \in Tracer : pc'[u] = "idle" => op'[u] = None /\ todo'[u] = {}
    BY <2>1, <2>3 DEF TypeOK
  <2>6. Board!TypeOK' BY <1>u DEF TypeOK, Board!TypeOK, boardVars
  <2> QED BY <1>u, <2>1, <2>2, <2>4, <2>5, <2>6 DEF TypeOK, registryVars, sequenceVars
<1>2. Closed(published)' BY <1>u DEF Closed, registryVars
<1>3. BoardInv' BY <1>u, BoardFrame DEF registryVars
<1>4. SequenceInv' BY <1>u, SequenceFrame DEF boardVars, registryVars
<1>5. GroupInv' BY <1>u, GroupFrame DEF registryVars
<1>6. CallInv' BY LoadMaskCalls
<1>7. ScopeInv'
  <2>1. ASSUME NEW u \in Tracer \ {t} PROVE ScopesOf(u)'
    BY <1>u, LoadMaskCalls, ScopesFrame DEF ScopeInv, boardVars
  <2> QED BY <2>1 DEF ScopeInv
<1> QED BY <1>1, <1>2, <1>3, <1>4, <1>5, <1>6, <1>7

\* A call outside scopes is about none of them.
LEMMA TraceOutsideInvariant ==
  ASSUME IInv, NEW t \in Tracer, NEW c \in Category \cup Group,
         TraceAny(t, c) \/ TraceData(t, c)
  PROVE  IInv'
<1> USE DEF IInv
<1>1. PICK o \in {"any", "data"} : pc[t] = "idle" /\ LoadMask(t, o, c) /\ UNCHANGED scopes
  BY DEF TraceAny, TraceData
<1>2. /\ op'[t] = o /\ inst[t] = None /\ op[t] = None
      /\ UNCHANGED <<boardVars, inst, attached>>
  BY <1>1, LoadMaskCalls DEF Op, TypeOK, LoadMask, CallWith
<1>3. ScopesOf(t) BY DEF ScopeInv
<1>4. ASSUME NEW k \in Nat
      PROVE  /\ ~During(t, "begin", k)' /\ ~During(t, "end", k)'
             /\ ~During(t, "begin", k) /\ ~During(t, "end", k)
  BY <1>1, <1>2, TraceAssumption DEF During, Op
<1>5. Len(scopes[t]) \in Nat /\ scopes'[t] = scopes[t]
  <2>1. scopes[t] \in Seq(Scope) BY DEF TypeOK
  <2> QED BY <1>1, <2>1, LenProperties
<1>6. ScopesOf(t)'
  <2>1. \A k \in 1 .. Len(scopes[t]) :
          /\ ~During(t, "begin", k)' /\ ~During(t, "end", k)'
          /\ ~During(t, "begin", k) /\ ~During(t, "end", k)
    BY <1>4, <1>5
  <2>2. op'[t] \notin {"begin", "end"} BY <1>1, <1>2
  <2> QED BY <1>2, <1>3, <1>5, <2>1, <2>2 DEF ScopesOf, boardVars
<1>7. scopes' \in [Tracer -> Seq(Scope)] /\ \A u \in Tracer : Len(scopes'[u]) <= MaxDepth
  BY <1>1 DEF TypeOK
<1>8. o \in Op BY DEF Op
<1> QED BY <1>1, <1>6, <1>7, <1>8, LoadMaskRest

\* The scopes of a thread that enters another.
LEMMA BeginScope ==
  ASSUME NEW s \in Seq(Scope), NEW c \in Category \cup Group, Len(s) < MaxDepth
  PROVE  LET e == [cat |-> c, live |-> LiveNow, begun |-> {}, ended |-> {}]
         IN  /\ Append(s, e) \in Seq(Scope) /\ Append(s, e) # <<>>
             /\ Len(Append(s, e)) = Len(s) + 1 /\ Len(s) \in Nat
             /\ Len(s) + 1 <= MaxDepth
             /\ \A k \in 1 .. Len(s) : Append(s, e)[k] = s[k]
             /\ Append(s, e)[Len(s) + 1] = e
<1> DEFINE e == [cat |-> c, live |-> LiveNow, begun |-> {}, ended |-> {}]
<1>1. e \in Scope BY DEF Scope, LiveNow
<1> HIDE DEF e
<1>2. Len(s) \in Nat BY LenProperties
<1>3. Len(s) + 1 <= MaxDepth BY <1>2, TraceAssumption
<1>4. /\ Append(s, e) \in Seq(Scope) /\ Append(s, e) # <<>>
      /\ Len(Append(s, e)) = Len(s) + 1
      /\ \A k \in 1 .. Len(s) : Append(s, e)[k] = s[k]
      /\ Append(s, e)[Len(s) + 1] = e
  BY <1>1, AppendProperties
<1> QED BY <1>2, <1>3, <1>4 DEF e

LEMMA TraceEventInvariant ==
  ASSUME IInv, NEW t \in Tracer, NEW c \in Category \cup Group, TraceEvent(t, c)
  PROVE  IInv'
<1> USE DEF IInv
<1> DEFINE e == [cat |-> c, live |-> LiveNow, begun |-> {}, ended |-> {}]
           n == Len(scopes[t])
<1>u. /\ pc[t] = "idle" /\ n < MaxDepth /\ LoadMask(t, "begin", c)
      /\ scopes' = [scopes EXCEPT ![t] = Append(@, e)]
  BY DEF TraceEvent
<1>c. /\ op'[t] = "begin" /\ cat'[t] = c /\ todo'[t] = MaskOf(c) /\ inst[t] = None
      /\ op[t] = None /\ UNCHANGED <<boardVars, inst, attached>>
  <2>1. /\ op \in [Tracer -> Op \cup {None}] /\ cat \in [Tracer -> Category \cup Group \cup {None}]
        /\ todo \in [Tracer -> SUBSET Instance]
        /\ inst[t] # None <=> pc[t] \in {"update", "write"}
        /\ pc[t] = "idle" => op[t] = None
    BY DEF TypeOK
  <2>2. /\ op' = [op EXCEPT ![t] = "begin"] /\ cat' = [cat EXCEPT ![t] = c]
        /\ todo' = [todo EXCEPT ![t] = MaskOf(c)]
        /\ UNCHANGED <<boardVars, inst, attached>>
    BY <1>u DEF LoadMask, CallWith
  <2> QED BY <1>u, <2>1, <2>2
<1>s. /\ scopes'[t] \in Seq(Scope) /\ scopes'[t] # <<>>
      /\ Len(scopes'[t]) = n + 1 /\ n \in Nat /\ n + 1 <= MaxDepth
      /\ \A k \in 1 .. n : scopes'[t][k] = scopes[t][k]
      /\ scopes'[t][n + 1] = e
      /\ \A u \in Tracer \ {t} : scopes'[u] = scopes[u]
  <2>1. scopes[t] \in Seq(Scope) BY DEF TypeOK
  <2>2. /\ scopes'[t] = Append(scopes[t], e)
        /\ \A u \in Tracer \ {t} : scopes'[u] = scopes[u]
    BY <1>u DEF TypeOK
  <2> QED BY <1>u, <2>1, <2>2, BeginScope
<1>e. e.cat = c /\ e.live = LiveNow /\ e.begun = {} /\ e.ended = {} OBVIOUS
<1> HIDE DEF e, n
<1>1. ScopesOf(t)'
  <2>0. ScopesOf(t) BY DEF ScopeInv
  <2>1. op'[t] \in {"begin", "end"} => scopes'[t] # <<>> /\ cat'[t] = Innermost(t)'.cat
    BY <1>c, <1>s, <1>e DEF Innermost
  <2>2. ASSUME NEW k \in 1 .. Len(scopes'[t])
        PROVE  /\ During(t, "begin", k)' <=> k = n + 1
               /\ ~During(t, "end", k)' /\ ~During(t, "begin", k) /\ ~During(t, "end", k)
               /\ k # n + 1 => k \in 1 .. n
    <3>1. op[t] # "begin" /\ op[t] # "end" BY <1>c, TraceAssumption DEF Op
    <3> QED BY <1>c, <1>s, <3>1 DEF During
  <2>3. ASSUME NEW k \in 1 .. Len(scopes'[t]), NEW i \in scopes'[t][k].live
        PROVE  /\ phase'[i] = "live"
               /\ inst'[t] = i => attached'[t]
               /\ scopes'[t][k].cat \in Category =>
                    (i \in scopes'[t][k].begun
                       \/ (During(t, "begin", k)' /\ Pending(t, i)')
                      <=> scopes'[t][k].cat \in wanted'[i])
    <3>1. CASE k = n + 1
      <4>1. i \in Instance /\ phase[i] = "live" BY <1>s, <1>e, <3>1 DEF LiveNow
      <4>2. i # None BY <4>1, TraceAssumption
      <4>3. c \in Category => (i \in mask[c] <=> c \in wanted[i])
        BY <4>1 DEF BoardInv
      <4>4. c \in Category => (Pending(t, i)' <=> c \in wanted[i])
        BY <1>c, <4>2, <4>3 DEF Pending, MaskOf
      <4>5. scopes'[t][k].cat = c /\ i \notin scopes'[t][k].begun /\ During(t, "begin", k)'
        BY <1>s, <1>e, <2>2, <3>1
      <4> QED BY <1>c, <4>1, <4>2, <4>4, <4>5 DEF boardVars
    <3>2. CASE k # n + 1
      <4>1. k \in 1 .. Len(scopes[t]) /\ scopes'[t][k] = scopes[t][k]
        BY <1>s, <2>2, <3>2 DEF n
      <4>2. ~During(t, "begin", k)' /\ ~During(t, "begin", k) BY <2>2, <3>2
      <4>3. /\ phase[i] = "live" /\ (inst[t] = i => attached[t])
            /\ scopes[t][k].cat \in Category =>
                 (i \in scopes[t][k].begun \/ (During(t, "begin", k) /\ Pending(t, i))
                    <=> scopes[t][k].cat \in wanted[i])
        BY <2>0, <4>1 DEF ScopesOf
      <4> QED BY <1>c, <4>1, <4>2, <4>3 DEF boardVars
    <3> QED BY <3>1, <3>2
  <2>4. ASSUME NEW k \in 1 .. Len(scopes'[t]) PROVE scopes'[t][k].ended = {}
    <3>1. CASE k = n + 1 BY <1>s, <1>e, <3>1
    <3>2. CASE k # n + 1
      <4>1. k \in 1 .. Len(scopes[t]) /\ scopes'[t][k] = scopes[t][k]
        BY <1>s, <2>2, <3>2 DEF n
      <4>2. ~During(t, "end", k) BY <2>2
      <4> QED BY <2>0, <4>1, <4>2 DEF ScopesOf
    <3> QED BY <3>1, <3>2
  <2> QED BY <2>1, <2>2, <2>3, <2>4 DEF ScopesOf
<1>2. scopes' \in [Tracer -> Seq(Scope)] /\ \A u \in Tracer : Len(scopes'[u]) <= MaxDepth
  <2>1. scopes' \in [Tracer -> Seq(Scope)] BY <1>u, <1>s DEF TypeOK
  <2>2. \A u \in Tracer : Len(scopes[u]) <= MaxDepth BY DEF TypeOK
  <2>3. ASSUME NEW u \in Tracer PROVE Len(scopes'[u]) <= MaxDepth
    <3>1. CASE u = t BY <1>s, <3>1
    <3>2. CASE u # t
      <4>1. scopes'[u] = scopes[u] BY <1>s, <3>2
      <4> QED BY <2>2, <4>1
    <3> QED BY <3>1, <3>2
  <2> QED BY <2>1, <2>3
<1>3. "begin" \in Op BY DEF Op
<1> QED BY <1>u, <1>s, <1>1, <1>2, <1>3, LoadMaskRest

LEMMA CleanupEndInvariant ==
  ASSUME IInv, NEW t \in Tracer, CleanupEnd(t)
  PROVE  IInv'
<1> USE DEF IInv
<1> DEFINE n == Len(scopes[t])
           c == scopes[t][n].cat
<1>u. /\ pc[t] = "idle" /\ LoadMask(t, "end", c) /\ scopes[t] # <<>> /\ scopes' = scopes
  BY DEF CleanupEnd, Innermost
<1>s. /\ \A k \in 1 .. n : scopes[t][k].live \subseteq Instance
      /\ n \in 1 .. n /\ c \in Category \cup Group
  <2>1. scopes[t] \in Seq(Scope) BY DEF TypeOK
  <2>2. n \in 1 .. n BY <1>u, <2>1, EmptySeq
  <2>3. \A k \in 1 .. n : scopes[t][k] \in Scope BY <2>1, ElementOfSeq
  <2>4. \A r \in Scope : r.live \subseteq Instance /\ r.cat \in Category \cup Group
    BY DEF Scope
  <2> QED BY <2>2, <2>3, <2>4
<1>3. "end" \in Op BY DEF Op
<1>c. /\ op'[t] = "end" /\ cat'[t] = c /\ todo'[t] = MaskOf(c) /\ inst[t] = None
      /\ op[t] = None /\ UNCHANGED <<boardVars, inst, attached>>
  <2>1. /\ op \in [Tracer -> Op \cup {None}] /\ cat \in [Tracer -> Category \cup Group \cup {None}]
        /\ todo \in [Tracer -> SUBSET Instance]
        /\ inst[t] # None <=> pc[t] \in {"update", "write"}
        /\ pc[t] = "idle" => op[t] = None
    BY DEF TypeOK
  <2>2. /\ op' = [op EXCEPT ![t] = "end"] /\ cat' = [cat EXCEPT ![t] = c]
        /\ todo' = [todo EXCEPT ![t] = MaskOf(c)]
        /\ UNCHANGED <<boardVars, inst, attached>>
    BY <1>u DEF LoadMask, CallWith
  <2> QED BY <1>u, <2>1, <2>2
<1>1. ScopesOf(t)'
  <2>0. ScopesOf(t) BY DEF ScopeInv
  <2>1. op'[t] \in {"begin", "end"} => scopes'[t] # <<>> /\ cat'[t] = Innermost(t)'.cat
    BY <1>u, <1>c DEF Innermost
  <2>2. ASSUME NEW k \in 1 .. n
        PROVE  /\ During(t, "end", k)' <=> k = n
               /\ ~During(t, "begin", k)' /\ ~During(t, "begin", k) /\ ~During(t, "end", k)
    <3>1. op[t] # "begin" /\ op[t] # "end" BY <1>c, TraceAssumption DEF Op
    <3> QED BY <1>c, <1>u, <3>1 DEF During
  <2>3. ASSUME NEW k \in 1 .. n, NEW i \in scopes[t][k].live
        PROVE  /\ phase'[i] = "live"
               /\ inst'[t] = i => attached'[t]
               /\ scopes[t][k].cat \in Category =>
                    (i \in scopes[t][k].begun \/ (During(t, "begin", k)' /\ Pending(t, i)')
                      <=> scopes[t][k].cat \in wanted'[i])
               /\ During(t, "end", k)' /\ scopes[t][k].cat \in Category =>
                    (i \in scopes[t][k].ended \/ Pending(t, i)'
                      <=> scopes[t][k].cat \in wanted'[i])
    <3>1. /\ phase[i] = "live" /\ (inst[t] = i => attached[t])
          /\ scopes[t][k].cat \in Category =>
               (i \in scopes[t][k].begun \/ (During(t, "begin", k) /\ Pending(t, i))
                  <=> scopes[t][k].cat \in wanted[i])
          /\ ~During(t, "end", k) => scopes[t][k].ended = {}
      BY <2>0 DEF ScopesOf
    <3>2. i \in Instance /\ i # None BY <1>s, TraceAssumption
    <3>3. c \in Category => (i \in mask[c] <=> c \in wanted[i])
      BY <3>1, <3>2 DEF BoardInv
    <3>4. c \in Category => (Pending(t, i)' <=> c \in wanted[i])
      BY <1>c, <3>2, <3>3 DEF Pending, MaskOf
    <3>5. During(t, "end", k)' => scopes[t][k].cat = c BY <2>2
    <3> HIDE DEF c, n
    <3> QED BY <1>c, <2>2, <3>1, <3>4, <3>5 DEF boardVars
  <2>4. ASSUME NEW k \in 1 .. n PROVE scopes[t][k].ended = {}
    BY <2>0, <2>2 DEF ScopesOf
  <2> QED BY <1>u, <2>1, <2>3, <2>4 DEF ScopesOf
<1>2. scopes' \in [Tracer -> Seq(Scope)] /\ \A u \in Tracer : Len(scopes'[u]) <= MaxDepth
  BY <1>u DEF TypeOK
<1> QED BY <1>u, <1>s, <1>1, <1>2, <1>3, LoadMaskRest

-----------------------------------------------------------------------------
(* The instances of a call *)

\* A step inside the call of t leaves the board and other threads as they were.
LEMMA CallStepRest ==
  ASSUME IInv, NEW t \in Tracer, TypeOK', SequenceInv',
         UNCHANGED <<boardVars, registryVars>>,
         \A u \in Tracer \ {t} :
           /\ pc'[u] = pc[u] /\ op'[u] = op[u] /\ cat'[u] = cat[u] /\ todo'[u] = todo[u]
           /\ inst'[u] = inst[u] /\ scopes'[u] = scopes[u] /\ attached'[u] = attached[u]
           /\ needUpdate'[u] = needUpdate[u] /\ interned'[u] = interned[u]
           /\ same'[u] = same[u],
         CallOf(t)', ScopesOf(t)'
  PROVE  IInv'
<1> USE DEF IInv
<1>2. Closed(published)' BY DEF Closed, registryVars
<1>3. BoardInv' BY BoardFrame DEF registryVars
<1>5. GroupInv' BY GroupFrame DEF registryVars
<1>6. CallInv'
  <2>1. ASSUME NEW u \in Tracer \ {t} PROVE CallOf(u)'
    BY CallFrame DEF CallInv, boardVars, registryVars
  <2> QED BY <2>1 DEF CallInv
<1>7. ScopeInv'
  <2>1. ASSUME NEW u \in Tracer \ {t} PROVE ScopesOf(u)'
    BY ScopesFrame DEF ScopeInv, boardVars
  <2> QED BY <2>1 DEF ScopeInv
<1> QED BY <1>2, <1>3, <1>5, <1>6, <1>7

LEMMA NextInstanceInvariant ==
  ASSUME IInv, NEW t \in Tracer, NEW i \in Instance, NextInstance(t, i)
  PROVE  IInv'
<1> USE TraceAssumption DEF IInv
<1>u. /\ pc[t] = "loop" /\ i \in todo[t]
      /\ todo' = [todo EXCEPT ![t] = @ \ {i}]
      /\ UNCHANGED <<boardVars, registryVars, op, cat, extended, scopes, sequenceVars, same>>
  BY DEF NextInstance
<1>p. \/ phase[i] = "free" /\ UNCHANGED <<pc, inst, attached>>
      \/ /\ phase[i] # "free"
         /\ pc' = [pc EXCEPT ![t] = IF needUpdate[t][i] THEN "update" ELSE "write"]
         /\ inst' = [inst EXCEPT ![t] = i]
         /\ attached' = [attached EXCEPT ![t] = TRUE]
  BY DEF NextInstance
<1>c. /\ todo' \in [Tracer -> SUBSET Instance] /\ todo'[t] = todo[t] \ {i}
      /\ pc' \in [Tracer -> {"idle", "loop", "update", "write"}]
      /\ inst' \in [Tracer -> Instance \cup {None}]
      /\ attached' \in [Tracer -> BOOLEAN]
      /\ inst[t] = None
      /\ \A u \in Tracer \ {t} : /\ pc'[u] = pc[u] /\ todo'[u] = todo[u]
                                 /\ inst'[u] = inst[u] /\ attached'[u] = attached[u]
  <2>1. /\ todo \in [Tracer -> SUBSET Instance] /\ inst[t] = None
        /\ pc \in [Tracer -> {"idle", "loop", "update", "write"}]
        /\ inst \in [Tracer -> Instance \cup {None}]
        /\ attached \in [Tracer -> BOOLEAN]
    BY <1>u DEF TypeOK
  <2>2. (IF needUpdate[t][i] THEN "update" ELSE "write") \in {"update", "write"} OBVIOUS
  <2>3. todo' \in [Tracer -> SUBSET Instance] /\ todo'[t] = todo[t] \ {i} BY <1>u, <2>1
  <2>4. \A u \in Tracer \ {t} : todo'[u] = todo[u] BY <1>u, <2>1
  <2> HIDE TraceAssumption DEF IInv
  <2>5. CASE UNCHANGED <<pc, inst, attached>> BY <2>1, <2>3, <2>4, <2>5
  <2>6. CASE /\ pc' = [pc EXCEPT ![t] = IF needUpdate[t][i] THEN "update" ELSE "write"]
             /\ inst' = [inst EXCEPT ![t] = i]
             /\ attached' = [attached EXCEPT ![t] = TRUE]
    <3>1. pc' \in [Tracer -> {"idle", "loop", "update", "write"}] BY <2>1, <2>2, <2>6
    <3>2. inst' \in [Tracer -> Instance \cup {None}] BY <2>1, <2>6
    <3>3. attached' \in [Tracer -> BOOLEAN] BY <2>1, <2>6
    <3>4. \A u \in Tracer \ {t} :
            pc'[u] = pc[u] /\ inst'[u] = inst[u] /\ attached'[u] = attached[u]
      BY <2>1, <2>6
    <3> QED BY <2>1, <2>3, <2>4, <3>1, <3>2, <3>3, <3>4
  <2> QED BY <1>p, <2>5, <2>6
<1>t. \/ /\ phase[i] = "free" /\ pc'[t] = "loop" /\ inst'[t] = None
         /\ attached'[t] = attached[t]
      \/ /\ phase[i] # "free" /\ inst'[t] = i /\ attached'[t]
         /\ \/ pc'[t] = "update"
            \/ pc'[t] = "write" /\ ~needUpdate[t][i]
  <2>1. CASE phase[i] = "free" BY <1>u, <1>p, <1>c, <2>1
  <2>2. CASE phase[i] # "free"
    <3>1. /\ pc'[t] = IF needUpdate[t][i] THEN "update" ELSE "write"
          /\ inst'[t] = i /\ attached'[t]
      BY <1>p, <2>2 DEF TypeOK
    <3>2. CASE needUpdate[t][i] BY <2>2, <3>1, <3>2
    <3>3. CASE ~needUpdate[t][i] BY <2>2, <3>1, <3>3
    <3> QED BY <3>2, <3>3
  <2> QED BY <2>1, <2>2
<1>1. TypeOK'
  <2>1. \A u \in Tracer : (inst'[u] # None) <=> pc'[u] \in {"update", "write"}
    <3>1. \A u \in Tracer : (inst[u] # None) <=> pc[u] \in {"update", "write"} BY DEF TypeOK
    <3>2. (inst'[t] # None) <=> pc'[t] \in {"update", "write"} BY <1>t
    <3> QED BY <1>c, <3>1, <3>2
  <2>2. \A u \in Tracer : pc'[u] = "idle" => op'[u] = None /\ todo'[u] = {}
    <3>1. \A u \in Tracer : pc[u] = "idle" => op[u] = None /\ todo[u] = {} BY DEF TypeOK
    <3>2. pc'[t] # "idle" BY <1>t
    <3> QED BY <1>u, <1>c, <3>1, <3>2
  <2>3. Board!TypeOK' BY <1>u DEF TypeOK, Board!TypeOK, boardVars
  <2> QED BY <1>u, <1>c, <2>1, <2>2, <2>3 DEF TypeOK, registryVars, sequenceVars
<1>2. SequenceInv' BY <1>u, SequenceFrame DEF boardVars, registryVars
<1>3. \A j \in Instance : Pending(t, j)' => Pending(t, j)
  BY <1>u, <1>c, <1>t DEF Pending
<1>4. CallOf(t)'
  <2>0. CallOf(t) BY DEF CallInv
  <2>1. \A j \in same'[t] : phase'[j] # "free" BY <1>u, <2>0 DEF CallOf, boardVars
  <2>2. attached'[t] => inst'[t] # None /\ phase'[inst'[t]] # "free"
    <3>1. ~attached[t] BY <1>c, <2>0 DEF CallOf
    <3> QED BY <1>u, <1>t, <3>1 DEF boardVars
  <2>3. pc'[t] = "write" /\ attached'[t] => ~needUpdate'[t][inst'[t]]
    BY <1>u, <1>t DEF sequenceVars
  <2>4. ASSUME NEW j \in Instance, Pending(t, j)'
        PROVE  /\ cat'[t] \in Category =>
                    /\ j \in same'[t] => cat'[t] \in wanted'[j]
                    /\ cat'[t] \in published'
                    /\ ~needUpdate'[t][j] => cat'[t] \in interned'[t][j]
               /\ cat'[t] \notin Category => cat'[t] \in Group /\ j \in seen'[cat'[t]]
    BY <1>u, <1>3, <2>0, <2>4 DEF CallOf, boardVars, registryVars, sequenceVars
  <2> QED BY <2>1, <2>2, <2>3, <2>4 DEF CallOf
<1>5. ScopesOf(t)'
  <2>0. ScopesOf(t) BY DEF ScopeInv
  <2>1. \A j \in Instance : phase[j] = "live" =>
          /\ Pending(t, j)' <=> Pending(t, j)
          /\ inst'[t] = j => attached'[t]
    BY <1>u, <1>c, <1>t DEF Pending
  <2>2. /\ scopes' = scopes /\ op' = op /\ cat' = cat /\ phase' = phase /\ wanted' = wanted
        /\ \A k \in 1 .. Len(scopes[t]) :
             /\ During(t, "begin", k)' <=> During(t, "begin", k)
             /\ During(t, "end", k)' <=> During(t, "end", k)
    BY <1>u DEF boardVars, During
  <2>3. op'[t] \in {"begin", "end"} => scopes'[t] # <<>> /\ cat'[t] = Innermost(t)'.cat
    BY <2>0, <2>2 DEF ScopesOf, Innermost
  <2>4. ASSUME NEW k \in 1 .. Len(scopes[t]), NEW j \in scopes[t][k].live
        PROVE  /\ phase'[j] = "live"
               /\ inst'[t] = j => attached'[t]
               /\ scopes[t][k].cat \in Category =>
                    (j \in scopes[t][k].begun \/ (During(t, "begin", k)' /\ Pending(t, j)')
                      <=> scopes[t][k].cat \in wanted'[j])
               /\ During(t, "end", k)' /\ scopes[t][k].cat \in Category =>
                    (j \in scopes[t][k].ended \/ Pending(t, j)'
                      <=> scopes[t][k].cat \in wanted'[j])
    <3>1. /\ phase[j] = "live"
          /\ scopes[t][k].cat \in Category =>
               (j \in scopes[t][k].begun \/ (During(t, "begin", k) /\ Pending(t, j))
                 <=> scopes[t][k].cat \in wanted[j])
          /\ During(t, "end", k) /\ scopes[t][k].cat \in Category =>
               (j \in scopes[t][k].ended \/ Pending(t, j) <=> scopes[t][k].cat \in wanted[j])
      BY <2>0 DEF ScopesOf
    <3>2. j \in Instance BY LiveInstances
    <3>3. (Pending(t, j)' <=> Pending(t, j)) /\ (inst'[t] = j => attached'[t])
      BY <2>1, <3>1, <3>2
    <3>4. /\ During(t, "begin", k)' <=> During(t, "begin", k)
          /\ During(t, "end", k)' <=> During(t, "end", k)
          /\ wanted'[j] = wanted[j] /\ phase'[j] = phase[j]
      BY <2>2
    <3> HIDE TraceAssumption DEF IInv
    <3> QED BY <3>1, <3>3, <3>4
  <2>5. \A k \in 1 .. Len(scopes[t]) : ~During(t, "end", k)' => scopes[t][k].ended = {}
    BY <2>0, <2>2 DEF ScopesOf
  <2> QED BY <2>2, <2>3, <2>4, <2>5 DEF ScopesOf
<1> QED BY <1>u, <1>c, <1>1, <1>2, <1>4, <1>5, CallStepRest DEF sequenceVars

\* A sequence is brought up to date with everything that is published, which is
\* all its session can want.
LEMMA UpdateInvariant ==
  ASSUME IInv, NEW t \in Tracer, DoIncrementalUpdate(t)
  PROVE  IInv'
<1> USE TraceAssumption DEF IInv
<1>u. /\ pc[t] = "update" /\ pc' = [pc EXCEPT ![t] = "write"]
      /\ UNCHANGED <<boardVars, registryVars, op, cat, todo, extended, inst, scopes,
                     attached, same>>
  BY DEF DoIncrementalUpdate, FinishUpdate
<1>p. \/ ~attached[t] /\ needUpdate' = needUpdate /\ interned' = interned
      \/ /\ attached[t] /\ needUpdate' = [needUpdate EXCEPT ![t][inst[t]] = FALSE]
         /\ interned' = [interned EXCEPT ![t][inst[t]] = published]
  BY DEF DoIncrementalUpdate, FinishUpdate, sequenceVars
<1>i. inst[t] \in Instance /\ (attached[t] => phase[inst[t]] # "free")
  BY <1>u DEF TypeOK, CallInv, CallOf
<1>c. /\ pc' \in [Tracer -> {"idle", "loop", "update", "write"}] /\ pc'[t] = "write"
      /\ needUpdate' \in [Tracer -> [Instance -> BOOLEAN]]
      /\ interned' \in [Tracer -> [Instance -> SUBSET Category]]
      /\ attached[t] => ~needUpdate'[t][inst[t]] /\ interned'[t][inst[t]] = published
      /\ \A u \in Tracer, j \in Instance : u # t \/ j # inst[t] \/ ~attached[t] =>
           needUpdate'[u][j] = needUpdate[u][j] /\ interned'[u][j] = interned[u][j]
      /\ \A u \in Tracer \ {t} :
           pc'[u] = pc[u] /\ needUpdate'[u] = needUpdate[u] /\ interned'[u] = interned[u]
  <2>1. /\ pc \in [Tracer -> {"idle", "loop", "update", "write"}]
        /\ needUpdate \in [Tracer -> [Instance -> BOOLEAN]]
        /\ interned \in [Tracer -> [Instance -> SUBSET Category]]
        /\ published \subseteq Category
    BY DEF TypeOK
  <2> HIDE TraceAssumption DEF IInv
  <2>2. CASE ~attached[t] BY <1>u, <1>p, <2>1, <2>2
  <2>3. CASE attached[t]
    <3> DEFINE j == inst[t]
    <3>0. /\ j \in Instance /\ needUpdate' = [needUpdate EXCEPT ![t][j] = FALSE]
          /\ interned' = [interned EXCEPT ![t][j] = published]
      BY <1>p, <1>i, <2>3
    <3> HIDE DEF j
    <3>1. needUpdate' \in [Tracer -> [Instance -> BOOLEAN]] BY <2>1, <3>0
    <3>2. interned' \in [Tracer -> [Instance -> SUBSET Category]] BY <2>1, <3>0
    <3>3. /\ ~needUpdate'[t][j] /\ interned'[t][j] = published
          /\ \A u \in Tracer, k \in Instance : u # t \/ k # j =>
               needUpdate'[u][k] = needUpdate[u][k] /\ interned'[u][k] = interned[u][k]
          /\ \A u \in Tracer \ {t} :
               needUpdate'[u] = needUpdate[u] /\ interned'[u] = interned[u]
      BY <2>1, <3>0
    <3>4. pc' \in [Tracer -> {"idle", "loop", "update", "write"}] /\ pc'[t] = "write"
          /\ \A u \in Tracer \ {t} : pc'[u] = pc[u]
      BY <1>u, <2>1
    <3> QED BY <2>3, <3>1, <3>2, <3>3, <3>4 DEF j
  <2> QED BY <2>2, <2>3
<1>1. TypeOK'
  <2>1. \A u \in Tracer : (inst'[u] # None) <=> pc'[u] \in {"update", "write"}
    <3>1. \A u \in Tracer : (inst[u] # None) <=> pc[u] \in {"update", "write"} BY DEF TypeOK
    <3> QED BY <1>u, <1>i, <1>c, <3>1
  <2>2. \A u \in Tracer : pc'[u] = "idle" => op'[u] = None /\ todo'[u] = {}
    <3>1. \A u \in Tracer : pc[u] = "idle" => op[u] = None /\ todo[u] = {} BY DEF TypeOK
    <3> QED BY <1>u, <1>c, <3>1
  <2>3. Board!TypeOK' BY <1>u DEF TypeOK, Board!TypeOK, boardVars
  <2> QED BY <1>u, <1>c, <2>1, <2>2, <2>3 DEF TypeOK, registryVars
<1>2. SequenceInv'
  <2> SUFFICES ASSUME NEW u \in Tracer, NEW j \in Instance
               PROVE  /\ phase[j] = "free" => needUpdate'[u][j]
                      /\ ~needUpdate'[u][j] =>
                           wanted[j] \subseteq interned'[u][j] /\ Closed(interned'[u][j])
                      /\ \A g \in Group :
                           j \in seen[g] /\ ~needUpdate'[u][j] =>
                             Members[g] \cap interned'[u][j] # {}
    BY <1>u DEF SequenceInv, boardVars, registryVars, Closed
  <2>1. CASE u = t /\ j = inst[t] /\ attached[t]
    <3>1. phase[j] # "free" /\ interned'[u][j] = published BY <1>i, <1>c, <2>1
    <3>2. wanted[j] \subseteq published BY DEF BoardInv
    <3>3. \A g \in Group : j \in seen[g] => Members[g] \cap published # {} BY DEF GroupInv
    <3> QED BY <3>1, <3>2, <3>3
  <2>2. CASE u # t \/ j # inst[t] \/ ~attached[t]
    <3>1. needUpdate'[u][j] = needUpdate[u][j] /\ interned'[u][j] = interned[u][j]
      BY <1>c, <2>2
    <3> QED BY <3>1 DEF SequenceInv
  <2> QED BY <2>1, <2>2
<1>4. CallOf(t)'
  <2>0. CallOf(t) BY DEF CallInv
  <2>1. \A j \in same'[t] : phase'[j] # "free" BY <1>u, <2>0 DEF CallOf, boardVars
  <2>2. attached'[t] => inst'[t] # None /\ phase'[inst'[t]] # "free"
    BY <1>u, <2>0 DEF CallOf, boardVars
  <2>3. pc'[t] = "write" /\ attached'[t] => ~needUpdate'[t][inst'[t]] BY <1>u, <1>c
  <2>4. ASSUME NEW j \in Instance, Pending(t, j)'
        PROVE  /\ cat'[t] \in Category =>
                    /\ j \in same'[t] => cat'[t] \in wanted'[j]
                    /\ cat'[t] \in published'
                    /\ ~needUpdate'[t][j] => cat'[t] \in interned'[t][j]
               /\ cat'[t] \notin Category => cat'[t] \in Group /\ j \in seen'[cat'[t]]
    <3>1. Pending(t, j) BY <1>u, <2>4 DEF Pending
    <3>2. cat[t] \in Category /\ ~needUpdate'[t][j] => cat[t] \in interned'[t][j]
      BY <1>c, <2>0, <3>1 DEF CallOf
    <3> QED BY <1>u, <2>0, <3>1, <3>2 DEF CallOf, boardVars, registryVars
  <2> QED BY <2>1, <2>2, <2>3, <2>4 DEF CallOf
<1>5. ScopesOf(t)' BY <1>u, ScopesFrame DEF ScopeInv, boardVars
<1> QED BY <1>u, <1>c, <1>1, <1>2, <1>4, <1>5, CallStepRest

\* f is s after an event of kind o was written to instance i.
WrittenTo(s, f, o, i) ==
  LET n == Len(s)
  IN  /\ f \in Seq(Scope) /\ Len(f) = n /\ f # <<>> /\ n \in 1 .. n
      /\ \A k \in 1 .. n : k # n => f[k] = s[k]
      /\ \A k \in 1 .. n : f[k].cat = s[k].cat /\ f[k].live = s[k].live
      /\ o = "begin" => f[n].begun = s[n].begun \cup ({i} \cap s[n].live)
      /\ o # "begin" => f[n].begun = s[n].begun
      /\ o = "end" => f[n].ended = s[n].ended \cup ({i} \cap s[n].live)
      /\ o # "end" => f[n].ended = s[n].ended

LEMMA SeenScopes ==
  ASSUME NEW s \in Seq(Scope), s # <<>>, NEW o, NEW i \in Instance,
         NEW f, f = [s EXCEPT ![Len(s)] = Seen(s[Len(s)], o, i)]
  PROVE  WrittenTo(s, f, o, i)
<1> DEFINE n == Len(s)
           e == Seen(s[n], o, i)
<1>1. n \in 1 .. n BY EmptySeq
<1>2. s[n] \in Scope BY <1>1, ElementOfSeq
<1>3. e \in Scope BY <1>2 DEF Scope, Seen
<1>4. /\ e.cat = s[n].cat /\ e.live = s[n].live
      /\ o = "begin" => e.begun = s[n].begun \cup ({i} \cap s[n].live)
      /\ o # "begin" => e.begun = s[n].begun
      /\ o = "end" => e.ended = s[n].ended \cup ({i} \cap s[n].live)
      /\ o # "end" => e.ended = s[n].ended
  BY <1>2 DEF Scope, Seen
<1>f. f = [s EXCEPT ![n] = e] OBVIOUS
<1> HIDE DEF e
<1>5. f \in Seq(Scope) /\ Len(f) = n /\ \A k \in 1 .. n : f[k] = IF k = n THEN e ELSE s[k]
  BY <1>1, <1>3, <1>f, ExceptSeq
<1>6. f # <<>> BY <1>1, <1>5, EmptySeq
<1>7. \A k \in 1 .. n : /\ k # n => f[k] = s[k]
                       /\ f[k].cat = s[k].cat /\ f[k].live = s[k].live
  BY <1>4, <1>5
<1>8. f[n] = e BY <1>1, <1>5
<1> QED BY <1>1, <1>4, <1>5, <1>6, <1>7, <1>8 DEF WrittenTo

LEMMA WriteEventInvariant ==
  ASSUME IInv, NEW t \in Tracer, WriteEvent(t)
  PROVE  IInv'
<1> USE TraceAssumption DEF IInv
<1> DEFINE n == Len(scopes[t])
<1>u. /\ pc[t] = "write"
      /\ scopes' = IF attached[t] /\ op[t] \in {"begin", "end"}
                      THEN [scopes EXCEPT ![t][n] = Seen(@, op[t], inst[t])]
                      ELSE scopes
      /\ extended' = [extended EXCEPT ![t] = FALSE]
      /\ inst' = [inst EXCEPT ![t] = None] /\ attached' = [attached EXCEPT ![t] = FALSE]
      /\ pc' = [pc EXCEPT ![t] = "loop"]
      /\ UNCHANGED <<boardVars, registryVars, op, cat, todo, sequenceVars, same>>
  BY DEF WriteEvent
<1>i. inst[t] \in Instance BY <1>u DEF TypeOK
<1>c. /\ pc' \in [Tracer -> {"idle", "loop", "update", "write"}] /\ pc'[t] = "loop"
      /\ extended' \in [Tracer -> BOOLEAN] /\ attached' \in [Tracer -> BOOLEAN]
      /\ inst' \in [Tracer -> Instance \cup {None}] /\ inst'[t] = None /\ ~attached'[t]
      /\ \A u \in Tracer \ {t} :
           pc'[u] = pc[u] /\ inst'[u] = inst[u] /\ attached'[u] = attached[u]
  BY <1>u DEF TypeOK
<1>0. CallOf(t) /\ ScopesOf(t) BY DEF CallInv, ScopeInv
<1>s. /\ scopes' \in [Tracer -> Seq(Scope)] /\ Len(scopes'[t]) = n
      /\ \A u \in Tracer \ {t} : scopes'[u] = scopes[u]
      /\ scopes[t] # <<>> => scopes'[t] # <<>> /\ n \in 1 .. n
      /\ \A k \in 1 .. n : /\ k # n => scopes'[t][k] = scopes[t][k]
                          /\ scopes'[t][k].cat = scopes[t][k].cat
                          /\ scopes'[t][k].live = scopes[t][k].live
      /\ \/ ~attached[t] /\ scopes'[t] = scopes[t]
         \/ op[t] \notin {"begin", "end"} /\ scopes'[t] = scopes[t]
         \/ /\ op[t] = "begin" /\ attached[t] /\ scopes'[t][n].ended = scopes[t][n].ended
            /\ scopes'[t][n].begun = scopes[t][n].begun \cup ({inst[t]} \cap scopes[t][n].live)
         \/ /\ op[t] = "end" /\ attached[t] /\ scopes'[t][n].begun = scopes[t][n].begun
            /\ scopes'[t][n].ended = scopes[t][n].ended \cup ({inst[t]} \cap scopes[t][n].live)
  <2>1. scopes \in [Tracer -> Seq(Scope)] /\ scopes[t] \in Seq(Scope) BY DEF TypeOK
  <2>2. scopes[t] # <<>> => n \in 1 .. n BY <2>1, EmptySeq
  <2>3. CASE ~(attached[t] /\ op[t] \in {"begin", "end"})
    <3>1. scopes' = scopes BY <1>u, <2>3
    <3> QED BY <2>1, <2>2, <2>3, <3>1
  <2>4. CASE attached[t] /\ op[t] \in {"begin", "end"}
    <3>1. scopes[t] # <<>> BY <1>0, <2>4 DEF ScopesOf
    <3> DEFINE f == [scopes[t] EXCEPT ![n] = Seen(scopes[t][n], op[t], inst[t])]
    <3>2. scopes' = [scopes EXCEPT ![t] = f] BY <1>u, <2>1, <2>4
    <3>0. f = [scopes[t] EXCEPT ![Len(scopes[t])] =
                 Seen(scopes[t][Len(scopes[t])], op[t], inst[t])]
      OBVIOUS
    <3> HIDE DEF f
    <3>3. /\ f \in Seq(Scope) /\ Len(f) = n /\ f # <<>> /\ n \in 1 .. n
          /\ \A k \in 1 .. n : k # n => f[k] = scopes[t][k]
          /\ \A k \in 1 .. n : f[k].cat = scopes[t][k].cat /\ f[k].live = scopes[t][k].live
          /\ op[t] = "begin" =>
               f[n].begun = scopes[t][n].begun \cup ({inst[t]} \cap scopes[t][n].live)
          /\ op[t] # "begin" => f[n].begun = scopes[t][n].begun
          /\ op[t] = "end" =>
               f[n].ended = scopes[t][n].ended \cup ({inst[t]} \cap scopes[t][n].live)
          /\ op[t] # "end" => f[n].ended = scopes[t][n].ended
      <4>1. WrittenTo(scopes[t], f, op[t], inst[t])
        BY <1>i, <2>1, <3>0, <3>1, SeenScopes
      <4> QED BY <4>1 DEF WrittenTo
    <3> HIDE TraceAssumption DEF f, n, IInv
    <3>4. scopes'[t] = f /\ \A u \in Tracer \ {t} : scopes'[u] = scopes[u]
      BY <2>1, <3>2
    <3>5. scopes' \in [Tracer -> Seq(Scope)] BY <2>1, <3>2, <3>3
    <3>6. CASE op[t] = "begin"
      <4>1. op[t] # "end" BY <3>6
      <4> QED BY <2>4, <3>3, <3>4, <3>5, <3>6, <4>1
    <3>7. CASE op[t] = "end"
      <4>1. op[t] # "begin" BY <3>7
      <4> QED BY <2>4, <3>3, <3>4, <3>5, <3>7, <4>1
    <3> QED BY <2>4, <3>6, <3>7
  <2> QED BY <2>3, <2>4
<1> HIDE DEF n
<1>1. TypeOK'
  <2>1. \A u \in Tracer : (inst'[u] # None) <=> pc'[u] \in {"update", "write"}
    <3>1. \A u \in Tracer : (inst[u] # None) <=> pc[u] \in {"update", "write"} BY DEF TypeOK
    <3> QED BY <1>c, <3>1
  <2>2. \A u \in Tracer : pc'[u] = "idle" => op'[u] = None /\ todo'[u] = {}
    <3>1. \A u \in Tracer : pc[u] = "idle" => op[u] = None /\ todo[u] = {} BY DEF TypeOK
    <3> QED BY <1>u, <1>c, <3>1
  <2>3. Board!TypeOK' BY <1>u DEF TypeOK, Board!TypeOK, boardVars
  <2>4. \A u \in Tracer : Len(scopes'[u]) <= MaxDepth
    <3>1. \A u \in Tracer : Len(scopes[u]) <= MaxDepth BY DEF TypeOK
    <3> QED BY <1>s, <3>1 DEF n
  <2> QED BY <1>u, <1>c, <1>s, <2>1, <2>2, <2>3, <2>4 DEF TypeOK, registryVars, sequenceVars
<1>2. SequenceInv' BY <1>u, SequenceFrame DEF boardVars, registryVars
<1>3. CallOf(t)'
  <2>1. \A j \in same'[t] : phase'[j] # "free" BY <1>0, <1>u DEF CallOf, boardVars
  <2>2. ASSUME NEW j \in Instance, Pending(t, j)'
        PROVE  /\ cat'[t] \in Category =>
                    /\ j \in same'[t] => cat'[t] \in wanted'[j]
                    /\ cat'[t] \in published'
                    /\ ~needUpdate'[t][j] => cat'[t] \in interned'[t][j]
               /\ cat'[t] \notin Category => cat'[t] \in Group /\ j \in seen'[cat'[t]]
    <3>1. Pending(t, j) BY <1>u, <1>c, <2>2 DEF Pending
    <3> QED BY <1>0, <1>u, <3>1 DEF CallOf, boardVars, registryVars, sequenceVars
  <2> QED BY <1>c, <2>1, <2>2 DEF CallOf
<1>4. ScopesOf(t)'
  <2>1. op'[t] \in {"begin", "end"} => scopes'[t] # <<>> /\ cat'[t] = Innermost(t)'.cat
    <3>1. op' = op /\ cat' = cat BY <1>u
    <3>2. ASSUME op[t] \in {"begin", "end"}
          PROVE  scopes'[t] # <<>> /\ cat[t] = scopes'[t][Len(scopes'[t])].cat
      <4>1. scopes[t] # <<>> /\ cat[t] = scopes[t][n].cat
        BY <1>0, <3>2 DEF ScopesOf, Innermost, n
      <4> QED BY <1>s, <4>1
    <3> QED BY <3>1, <3>2 DEF Innermost
  <2>2. ASSUME NEW k \in 1 .. n
        PROVE  /\ During(t, "begin", k)' <=> (op[t] = "begin" /\ k = n)
               /\ During(t, "begin", k) <=> (op[t] = "begin" /\ k = n)
               /\ During(t, "end", k)' <=> (op[t] = "end" /\ k = n)
               /\ During(t, "end", k) <=> (op[t] = "end" /\ k = n)
    <3>1. op' = op /\ Len(scopes'[t]) = n BY <1>u, <1>s
    <3> QED BY <3>1 DEF During, n
  <2>3. ASSUME NEW k \in 1 .. n, NEW i \in scopes'[t][k].live
        PROVE  /\ phase'[i] = "live"
               /\ inst'[t] = i => attached'[t]
               /\ scopes'[t][k].cat \in Category =>
                    (i \in scopes'[t][k].begun
                       \/ (During(t, "begin", k)' /\ Pending(t, i)')
                      <=> scopes'[t][k].cat \in wanted'[i])
               /\ During(t, "end", k)' /\ scopes'[t][k].cat \in Category =>
                    (i \in scopes'[t][k].ended \/ Pending(t, i)'
                      <=> scopes'[t][k].cat \in wanted'[i])
    <3>1. /\ i \in scopes[t][k].live /\ scopes'[t][k].cat = scopes[t][k].cat
          /\ k \in 1 .. Len(scopes[t])
      BY <1>s, <2>3 DEF n
    <3>2. /\ phase[i] = "live" /\ (inst[t] = i => attached[t])
          /\ scopes[t][k].cat \in Category =>
               (i \in scopes[t][k].begun \/ (During(t, "begin", k) /\ Pending(t, i))
                 <=> scopes[t][k].cat \in wanted[i])
          /\ During(t, "end", k) /\ scopes[t][k].cat \in Category =>
               (i \in scopes[t][k].ended \/ Pending(t, i) <=> scopes[t][k].cat \in wanted[i])
      BY <1>0, <3>1 DEF ScopesOf
    <3>3. i \in Instance /\ i # None BY <3>1, LiveInstances
    <3>4. /\ Pending(t, i)' <=> i \in todo[t]
          /\ Pending(t, i) <=> i \in todo[t] \/ inst[t] = i
      BY <1>u, <1>c, <3>3 DEF Pending
    <3>5. phase'[i] = "live" /\ wanted'[i] = wanted[i] /\ inst'[t] # i
      BY <1>u, <1>c, <3>2, <3>3 DEF boardVars
    <3>6. /\ During(t, "begin", k)' /\ i \in scopes'[t][k].begun
               <=> During(t, "begin", k)
                     /\ (i \in scopes[t][k].begun \/ (inst[t] = i /\ attached[t]))
          /\ ~During(t, "begin", k)' => (i \in scopes'[t][k].begun <=> i \in scopes[t][k].begun)
          /\ During(t, "end", k)' => During(t, "end", k) /\
               (i \in scopes'[t][k].ended <=>
                  i \in scopes[t][k].ended \/ (inst[t] = i /\ attached[t]))
      <4> HIDE TraceAssumption DEF IInv
      <4>1. CASE k # n BY <1>s, <2>2, <4>1
      <4>2. CASE k = n
        <5>1. inst[t] = i => attached[t] BY <3>2
        <5>2. i \in scopes[t][n].live BY <3>1, <4>2
        <5>3. /\ During(t, "begin", k)' <=> op[t] = "begin"
              /\ During(t, "begin", k) <=> op[t] = "begin"
              /\ During(t, "end", k)' <=> op[t] = "end"
              /\ During(t, "end", k) <=> op[t] = "end"
          BY <2>2, <4>2
        <5>4. CASE scopes'[t] = scopes[t] /\ (~attached[t] \/ op[t] \notin {"begin", "end"})
          BY <5>1, <5>3, <5>4
        <5>5. CASE /\ op[t] = "begin" /\ attached[t]
                   /\ scopes'[t][n].ended = scopes[t][n].ended
                   /\ scopes'[t][n].begun =
                        scopes[t][n].begun \cup ({inst[t]} \cap scopes[t][n].live)
          BY <4>2, <5>2, <5>3, <5>5
        <5>6. CASE /\ op[t] = "end" /\ attached[t]
                   /\ scopes'[t][n].begun = scopes[t][n].begun
                   /\ scopes'[t][n].ended =
                        scopes[t][n].ended \cup ({inst[t]} \cap scopes[t][n].live)
          BY <4>2, <5>2, <5>3, <5>6
        <5> QED BY <1>s, <5>4, <5>5, <5>6
      <4> QED BY <4>1, <4>2
    <3> HIDE TraceAssumption DEF IInv
    <3>7. During(t, "begin", k)' <=> During(t, "begin", k) BY <2>2
    <3>8. scopes[t][k].cat \in Category =>
            (i \in scopes'[t][k].begun \/ (During(t, "begin", k)' /\ Pending(t, i)')
              <=> i \in scopes[t][k].begun \/ (During(t, "begin", k) /\ Pending(t, i)))
      <4>1. inst[t] = i => attached[t] BY <3>2
      <4>2. CASE During(t, "begin", k) BY <3>4, <3>6, <3>7, <4>1, <4>2
      <4>3. CASE ~During(t, "begin", k) BY <3>6, <3>7, <4>3
      <4> QED BY <4>2, <4>3
    <3>9. During(t, "end", k)' =>
            (i \in scopes'[t][k].ended \/ Pending(t, i)'
              <=> i \in scopes[t][k].ended \/ Pending(t, i)) /\ During(t, "end", k)
      <4>1. inst[t] = i => attached[t] BY <3>2
      <4> QED BY <3>4, <3>6, <4>1
    <3> QED BY <3>1, <3>2, <3>5, <3>8, <3>9
  <2>4. ASSUME NEW k \in 1 .. n, ~During(t, "end", k)' PROVE scopes'[t][k].ended = {}
    <3>1. ~During(t, "end", k) BY <2>2, <2>4
    <3>2. scopes[t][k].ended = {} BY <1>0, <3>1 DEF ScopesOf, n
    <3>3. CASE k # n BY <1>s, <3>2, <3>3
    <3>4. CASE k = n
      <4>1. op[t] # "end" BY <2>2, <3>1, <3>4
      <4> QED BY <1>s, <3>2, <3>4, <4>1
    <3> QED BY <3>3, <3>4
  <2> QED BY <1>s, <2>1, <2>3, <2>4 DEF ScopesOf
<1> QED BY <1>u, <1>c, <1>s, <1>1, <1>2, <1>3, <1>4, CallStepRest DEF sequenceVars

LEMMA ReturnInvariant ==
  ASSUME IInv, NEW t \in Tracer, Return(t)
  PROVE  IInv'
<1> USE TraceAssumption DEF IInv
<1> DEFINE n == Len(scopes[t])
<1>u. /\ pc[t] = "loop" /\ todo[t] = {} /\ pc' = [pc EXCEPT ![t] = "idle"]
      /\ op' = [op EXCEPT ![t] = None] /\ cat' = [cat EXCEPT ![t] = None]
      /\ extended' = [extended EXCEPT ![t] = FALSE] /\ same' = [same EXCEPT ![t] = {}]
      /\ scopes' = IF op[t] = "end" THEN [scopes EXCEPT ![t] = SubSeq(@, 1, n - 1)]
                                    ELSE scopes
      /\ UNCHANGED <<boardVars, registryVars, todo, inst, attached, sequenceVars>>
  BY DEF Return
<1>c. /\ pc' \in [Tracer -> {"idle", "loop", "update", "write"}] /\ pc'[t] = "idle"
      /\ op' \in [Tracer -> Op \cup {None}] /\ op'[t] = None
      /\ cat' \in [Tracer -> Category \cup Group \cup {None}]
      /\ extended' \in [Tracer -> BOOLEAN]
      /\ same' \in [Tracer -> SUBSET Instance] /\ same'[t] = {}
      /\ inst[t] = None
      /\ \A u \in Tracer \ {t} : /\ pc'[u] = pc[u] /\ op'[u] = op[u] /\ cat'[u] = cat[u]
                                 /\ same'[u] = same[u]
  BY <1>u DEF TypeOK
<1>0. CallOf(t) /\ ScopesOf(t) BY DEF CallInv, ScopeInv
<1>s. /\ scopes' \in [Tracer -> Seq(Scope)] /\ Len(scopes'[t]) <= n /\ n \in Nat
      /\ Len(scopes'[t]) \in Nat
      /\ op[t] = "end" => Len(scopes'[t]) < n
      /\ \A u \in Tracer \ {t} : scopes'[u] = scopes[u]
      /\ \A k \in 1 .. Len(scopes'[t]) : scopes'[t][k] = scopes[t][k]
  <2>1. scopes \in [Tracer -> Seq(Scope)] /\ scopes[t] \in Seq(Scope) BY DEF TypeOK
  <2>2. n \in Nat /\ (scopes[t] # <<>> => n # 0) BY <2>1, EmptySeq, LenProperties
  <2>3. CASE op[t] # "end" BY <1>u, <2>1, <2>2, <2>3
  <2>4. CASE op[t] = "end"
    <3>1. n # 0 BY <1>0, <2>2, <2>4 DEF ScopesOf
    <3> DEFINE f == SubSeq(scopes[t], 1, n - 1)
    <3>2. scopes' = [scopes EXCEPT ![t] = f] BY <1>u, <2>4
    <3>3. \A k \in 1 .. n - 1 : scopes[t][k] \in Scope
      <4>1. \A k \in 1 .. n - 1 : k \in 1 .. n BY <2>2
      <4> QED BY <2>1, <4>1, ElementOfSeq
    <3>4. 1 \in Int /\ n - 1 \in Int BY <2>2
    <3>5. /\ f \in Seq(Scope) /\ Len(f) = IF 1 <= n - 1 THEN (n - 1) - 1 + 1 ELSE 0
          /\ \A k \in 1 .. (n - 1) - 1 + 1 : f[k] = scopes[t][1 + k - 1]
      BY <3>3, <3>4, SubSeqProperties
    <3> HIDE TraceAssumption DEF f, n, IInv
    <3>6. Len(f) = n - 1 /\ \A k \in 1 .. n - 1 : f[k] = scopes[t][k]
      BY <2>2, <3>1, <3>5
    <3>7. scopes'[t] = f /\ \A u \in Tracer \ {t} : scopes'[u] = scopes[u]
      BY <2>1, <3>2
    <3>8. scopes' \in [Tracer -> Seq(Scope)] BY <2>1, <3>2, <3>5
    <3> QED BY <2>2, <3>1, <3>6, <3>7, <3>8
  <2> QED BY <2>3, <2>4
<1> HIDE DEF n
<1>1. TypeOK'
  <2>1. \A u \in Tracer : (inst'[u] # None) <=> pc'[u] \in {"update", "write"}
    <3>1. \A u \in Tracer : (inst[u] # None) <=> pc[u] \in {"update", "write"} BY DEF TypeOK
    <3> QED BY <1>u, <1>c, <3>1
  <2>2. \A u \in Tracer : pc'[u] = "idle" => op'[u] = None /\ todo'[u] = {}
    <3>1. \A u \in Tracer : pc[u] = "idle" => op[u] = None /\ todo[u] = {} BY DEF TypeOK
    <3> QED BY <1>u, <1>c, <3>1
  <2>3. Board!TypeOK' BY <1>u DEF TypeOK, Board!TypeOK, boardVars
  <2>4. \A u \in Tracer : Len(scopes'[u]) <= MaxDepth
    <3>1. \A u \in Tracer : Len(scopes[u]) <= MaxDepth BY DEF TypeOK
    <3>2. Len(scopes'[t]) <= MaxDepth
      <4>1. n <= MaxDepth BY <3>1 DEF n
      <4> QED BY <1>s, <4>1
    <3> QED BY <1>s, <3>1, <3>2
  <2> QED BY <1>u, <1>c, <1>s, <2>1, <2>2, <2>3, <2>4 DEF TypeOK, registryVars, sequenceVars
<1>2. SequenceInv' BY <1>u, SequenceFrame DEF boardVars, registryVars
<1>3. CallOf(t)'
  <2>1. \A j \in Instance : ~Pending(t, j)' BY <1>u, <1>c DEF Pending
  <2>2. ~attached'[t] BY <1>0, <1>u, <1>c DEF CallOf
  <2> QED BY <1>c, <2>1, <2>2 DEF CallOf
<1>4. ScopesOf(t)'
  <2>1. op'[t] \notin {"begin", "end"} BY <1>c DEF Op
  <2>2. ASSUME NEW k \in 1 .. Len(scopes'[t])
        PROVE  /\ ~During(t, "begin", k)' /\ ~During(t, "end", k)' /\ ~During(t, "end", k)
               /\ k \in 1 .. Len(scopes[t]) /\ scopes'[t][k] = scopes[t][k]
    <3>1. k \in 1 .. Len(scopes[t]) /\ scopes'[t][k] = scopes[t][k] BY <1>s DEF n
    <3>2. ~During(t, "begin", k)' /\ ~During(t, "end", k)' BY <2>1 DEF During
    <3>3. ~During(t, "end", k) BY <1>s DEF During, n
    <3> QED BY <3>1, <3>2, <3>3
  <2>3. ASSUME NEW k \in 1 .. Len(scopes'[t]), NEW i \in scopes'[t][k].live
        PROVE  /\ phase'[i] = "live"
               /\ inst'[t] = i => attached'[t]
               /\ scopes'[t][k].cat \in Category =>
                    (i \in scopes'[t][k].begun <=> scopes'[t][k].cat \in wanted'[i])
    <3>1. i \in scopes[t][k].live /\ k \in 1 .. Len(scopes[t]) BY <2>2
    <3>2. /\ phase[i] = "live"
          /\ scopes[t][k].cat \in Category =>
               (i \in scopes[t][k].begun \/ (During(t, "begin", k) /\ Pending(t, i))
                 <=> scopes[t][k].cat \in wanted[i])
      BY <1>0, <3>1 DEF ScopesOf
    <3>3. i \in Instance /\ i # None BY <3>1, LiveInstances
    <3>4. ~Pending(t, i) BY <1>u, <1>c, <3>3 DEF Pending
    <3>5. phase' = phase /\ wanted' = wanted /\ inst' = inst BY <1>u DEF boardVars
    <3> QED BY <1>c, <2>2, <3>2, <3>3, <3>4, <3>5
  <2>4. ASSUME NEW k \in 1 .. Len(scopes'[t]) PROVE scopes'[t][k].ended = {}
    BY <1>0, <2>2 DEF ScopesOf
  <2> QED BY <2>1, <2>2, <2>3, <2>4 DEF ScopesOf
<1> QED BY <1>u, <1>c, <1>s, <1>1, <1>2, <1>3, <1>4, CallStepRest DEF sequenceVars

-----------------------------------------------------------------------------
(* The theorems *)

LEMMA NextInvariant == IInv /\ [Next]_vars => IInv'
<1> SUFFICES ASSUME IInv, [Next]_vars PROVE IInv' OBVIOUS
<1>1. ASSUME NEW L \in Lists, Publish(L) PROVE IInv' BY <1>1, PublishInvariant
<1>2. ASSUME NEW g \in Group, AddGroup(g) PROVE IInv' BY <1>2, GroupStepInvariant
<1>3. ASSUME NEW g \in Group, NEW m \in SUBSET seen[g], UpdateGroupCategory(g, m) PROVE IInv'
  BY <1>3, GroupStepInvariant
<1>4. ASSUME NEW i \in Instance, NEW W \in SUBSET published, Setup(i, W) PROVE IInv'
  BY <1>4, SetupInvariant
<1>5. ASSUME NEW i \in Instance, Reject(i) PROVE IInv'
  <2>1. {} \in SUBSET published OBVIOUS
  <2> QED BY <1>5, <2>1, SetupInvariant
<1>6. ASSUME NEW i \in Instance, NEW c \in Category, Enable(i, c) PROVE IInv'
  BY <1>6, EnableInvariant
<1>7. ASSUME NEW i \in Instance, Advance(i) PROVE IInv' BY <1>7, AdvanceInvariant
<1>8. ASSUME NEW i \in Instance, Stop(i) PROVE IInv' BY <1>8, StopInvariant
<1>9. ASSUME NEW i \in Instance, Release(i) PROVE IInv' BY <1>9, ReleaseInvariant
<1>10. ASSUME NEW i \in Instance, NEW t \in Tracer, ClearIncrementalState(t, i) PROVE IInv'
  BY <1>10, ClearInvariant
<1>11. ASSUME NEW t \in Tracer, NEW c \in Category \cup Group, TraceEvent(t, c) PROVE IInv'
  BY <1>11, TraceEventInvariant
<1>12. ASSUME NEW t \in Tracer, NEW c \in Category \cup Group,
              TraceAny(t, c) \/ TraceData(t, c)
       PROVE  IInv'
  BY <1>12, TraceOutsideInvariant
<1>13. ASSUME NEW t \in Tracer, CleanupEnd(t) PROVE IInv' BY <1>13, CleanupEndInvariant
<1>14. ASSUME NEW t \in Tracer, NEW i \in Instance, NextInstance(t, i) PROVE IInv'
  BY <1>14, NextInstanceInvariant
<1>15. ASSUME NEW t \in Tracer, DoIncrementalUpdate(t) PROVE IInv' BY <1>15, UpdateInvariant
<1>16. ASSUME NEW t \in Tracer, WriteEvent(t) PROVE IInv' BY <1>16, WriteEventInvariant
<1>17. ASSUME NEW t \in Tracer, Return(t) PROVE IInv' BY <1>17, ReturnInvariant
<1>18. CASE UNCHANGED vars
  <2>1. TypeOK'
    BY <1>18 DEF IInv, TypeOK, Board!TypeOK, vars, boardVars, registryVars, callVars,
                 sequenceVars
  <2>2. Closed(published)' /\ BoardInv' /\ SequenceInv' /\ GroupInv'
    BY <1>18, BoardFrame, SequenceFrame, GroupFrame
    DEF IInv, Closed, vars, boardVars, registryVars
  <2>3. ASSUME NEW t \in Tracer PROVE CallOf(t)' /\ ScopesOf(t)'
    BY <1>18, CallFrame, ScopesFrame
    DEF IInv, CallInv, ScopeInv, vars, boardVars, registryVars, callVars, sequenceVars
  <2> QED BY <2>1, <2>2, <2>3 DEF IInv, CallInv, ScopeInv
<1> QED
  BY <1>1, <1>2, <1>3, <1>4, <1>5, <1>6, <1>7, <1>8, <1>9, <1>10, <1>11, <1>12, <1>13, <1>14,
     <1>15, <1>16, <1>17, <1>18
  DEF Next, TracerStep

\* The invariant holds at all times.
THEOREM Invariant == Spec => []IInv
BY InitInvariant, NextInvariant, PTL DEF Spec

\* Tracing threads, sessions and packet sequences only have the values and the
\* combinations of locals that TraceEvents says.
THEOREM TypeCorrect == Spec => []TypeOK
<1>1. IInv => TypeOK BY DEF IInv
<1> QED BY <1>1, Invariant, PTL

\* A session records only events of categories it wants, however sessions come
\* and go between the macro's load of the mask and the writing of the event.
THEOREM WantedCorrect == Spec => []EventsWanted
<1>1. IInv => EventsWanted
  <2> SUFFICES ASSUME IInv, NEW t \in Tracer, Writing(t), cat[t] \in Category,
                      inst[t] \in same[t]
               PROVE  cat[t] \in wanted[inst[t]]
    BY DEF EventsWanted
  <2>1. inst[t] \in Instance BY DEF IInv, TypeOK, Writing
  <2> QED BY <2>1 DEF IInv, CallInv, CallOf, Pending
<1> QED BY <1>1, Invariant, PTL

\* TraceTrackEvent never writes a category id that DoIncrementalUpdate has not
\* interned on that sequence: also for groups whose members were registered
\* together, also after categories were added and after the state was cleared.
THEOREM InternedCorrect == Spec => []EventsInterned
<1>1. IInv => EventsInterned
  <2> SUFFICES ASSUME IInv, NEW t \in Tracer, Writing(t),
                      cat[t] \in Group => \E L \in Lists : Members[cat[t]] \subseteq L
               PROVE  Iids(cat[t]) \subseteq interned[t][inst[t]]
    BY DEF EventsInterned
  <2>0. CallOf(t) /\ pc[t] = "write" /\ attached[t] BY DEF IInv, CallInv, Writing
  <2>1. inst[t] \in Instance BY <2>0 DEF IInv, TypeOK
  <2>2. ~needUpdate[t][inst[t]] /\ Pending(t, inst[t]) BY <2>0 DEF CallOf, Pending
  <2>3. CASE cat[t] \in Category
    BY <2>0, <2>1, <2>2, <2>3 DEF CallOf, Iids
  <2>4. CASE cat[t] \notin Category
    <3>2. cat[t] \in Group /\ inst[t] \in seen[cat[t]]
      BY <2>0, <2>1, <2>2, <2>4 DEF CallOf
    <3>1. PICK L \in Lists : Members[cat[t]] \subseteq L BY <3>2
    <3>3. Members[cat[t]] \cap interned[t][inst[t]] # {} /\ Closed(interned[t][inst[t]])
      BY <2>1, <2>2, <3>2 DEF IInv, SequenceInv
    <3>4. L \subseteq interned[t][inst[t]] BY <3>1, <3>3 DEF Closed
    <3> QED BY <2>4, <3>1, <3>4 DEF Iids
  <2> QED BY <2>3, <2>4
<1> QED BY <1>1, Invariant, PTL

\* The begin and the end of a TRACE_EVENT scope load the mask separately, and
\* still a session that stays live records both or neither.
THEOREM BalanceCorrect == Spec => []ScopesBalance
<1>1. IInv => ScopesBalance
  <2> SUFFICES ASSUME IInv, NEW t \in Tracer, pc[t] = "loop", op[t] = "end", todo[t] = {},
                      cat[t] \in Category, NEW i \in Innermost(t).live
               PROVE  i \in Innermost(t).begun <=> i \in Innermost(t).ended
    BY DEF ScopesBalance
  <2> DEFINE n == Len(scopes[t])
  <2>1. /\ ScopesOf(t) /\ scopes[t] \in Seq(Scope) /\ inst[t] = None
        /\ \A k \in 1 .. n : scopes[t][k].live \subseteq Instance
    BY LiveInstances DEF IInv, ScopeInv, TypeOK
  <2>2. scopes[t] # <<>> /\ cat[t] = Innermost(t).cat BY <2>1 DEF ScopesOf
  <2>3. n \in 1 .. n /\ Innermost(t) = scopes[t][n] BY <2>1, <2>2, EmptySeq DEF Innermost
  <2>4. During(t, "end", n) /\ ~During(t, "begin", n) BY DEF During
  <2>5. ~Pending(t, i) BY <2>1, <2>3, TraceAssumption DEF Pending
  <2>6. /\ i \in scopes[t][n].begun \/ (During(t, "begin", n) /\ Pending(t, i))
             <=> scopes[t][n].cat \in wanted[i]
        /\ i \in scopes[t][n].ended \/ Pending(t, i) <=> scopes[t][n].cat \in wanted[i]
    BY <2>1, <2>2, <2>3, <2>4 DEF ScopesOf
  <2> QED BY <2>3, <2>4, <2>5, <2>6
<1> QED BY <1>1, Invariant, PTL

-----------------------------------------------------------------------------
(* The sessions of this module are those of the board *)

LEMMA BoardStep == TypeOK /\ [Next]_vars => [Board!Next]_(Board!vars)
<1> SUFFICES ASSUME TypeOK, [Next]_vars PROVE Board!Next \/ UNCHANGED boardVars
  BY DEF Board!vars, boardVars
<1>1. ASSUME NEW i \in Instance, NEW W \in SUBSET published, Setup(i, W) PROVE Board!Next
  <2>1. W \in SUBSET Category BY DEF TypeOK
  <2> QED BY <1>1, <2>1 DEF Setup, Board!Next
<1>2. ASSUME NEW i \in Instance, Reject(i) PROVE Board!Next
  BY <1>2 DEF Reject, Board!Next
<1>3. ASSUME NEW i \in Instance, NEW c \in Category, Enable(i, c) PROVE Board!Next
  BY <1>3 DEF Enable, Board!Next, Board!Progress
<1>4. ASSUME NEW i \in Instance, Advance(i) PROVE Board!Next
  BY <1>4 DEF Advance, Board!Next, Board!Progress
<1>5. ASSUME NEW i \in Instance, Stop(i) PROVE Board!Next
  BY <1>5 DEF Stop, Board!Next
<1>6. ASSUME NEW i \in Instance, Release(i) PROVE Board!Next
  BY <1>6 DEF Release, Board!Next, Board!Progress
<1>7. ASSUME NEW i \in Instance, NEW t \in Tracer, ClearIncrementalState(t, i)
      PROVE  UNCHANGED boardVars
  BY <1>7 DEF ClearIncrementalState
<1>8. ASSUME \/ \E L \in Lists : Publish(L)
             \/ \E g \in Group : AddGroup(g) \/ \E m \in SUBSET seen[g] : UpdateGroupCategory(g, m)
      PROVE  UNCHANGED boardVars
  BY <1>8 DEF Publish, AddGroup, UpdateGroupCategory
<1>9. ASSUME NEW t \in Tracer,
             \/ \E c \in Category \cup Group : TraceEvent(t, c) \/ TraceAny(t, c) \/ TraceData(t, c)
             \/ CleanupEnd(t)
      PROVE  UNCHANGED boardVars
  BY <1>9 DEF TraceEvent, TraceAny, TraceData, CleanupEnd, LoadMask, CallWith
<1>10. ASSUME NEW t \in Tracer, TracerStep(t) PROVE UNCHANGED boardVars
  BY <1>10 DEF TracerStep, NextInstance, DoIncrementalUpdate, FinishUpdate, WriteEvent, Return
<1>11. ASSUME UNCHANGED vars PROVE UNCHANGED boardVars
  BY <1>11 DEF vars
<1> QED
  BY <1>1, <1>2, <1>3, <1>4, <1>5, <1>6, <1>7, <1>8, <1>9, <1>10, <1>11 DEF Next

\* The masks that events are written from change as the session board says, which
\* CategorySessions implements: what is proved here holds of the masks there.
THEOREM RunsOnBoard == Spec => Board!SafeSpec
<1>1. Init => Board!Init BY DEF Init
<1> QED BY <1>1, BoardStep, TypeCorrect, PTL DEF Spec, Board!SafeSpec

-----------------------------------------------------------------------------
(* Events reach their sessions *)

\* A macro's load of the mask finds, among the live sessions, exactly those that
\* want the category; each bit is then passed over only if its session has ended,
\* and an event that was begun is written.
EventsDelivered ==
  \A t \in Tracer, i \in Instance :
    /\ pc[t] = "idle" /\ pc'[t] = "loop" /\ cat'[t] \in Category /\ phase[i] = "live" =>
         (i \in todo'[t] <=> cat'[t] \in wanted[i])
    /\ i \in todo[t] /\ i \notin todo'[t] =>
         phase[i] = "free" \/ (inst'[t] = i /\ attached'[t])
    /\ inst[t] = i /\ inst'[t] # i => pc[t] = "write"

LEMMA CallDelivers ==
  ASSUME IInv, NEW t \in Tracer, NEW o \in Op, NEW c \in Category \cup Group,
         pc[t] = "idle", LoadMask(t, o, c)
  PROVE  EventsDelivered
<1>1. /\ pc \in [Tracer -> {"idle", "loop", "update", "write"}]
      /\ cat \in [Tracer -> Category \cup Group \cup {None}]
      /\ todo \in [Tracer -> SUBSET Instance]
      /\ todo[t] = {} /\ inst' = inst
      /\ todo' = [todo EXCEPT ![t] = MaskOf(c)] /\ cat' = [cat EXCEPT ![t] = c]
      /\ pc' = [pc EXCEPT ![t] = "loop"]
  BY DEF IInv, TypeOK, LoadMask, CallWith
<1>2. ASSUME NEW i \in Instance, c \in Category, phase[i] = "live"
      PROVE  i \in MaskOf(c) <=> c \in wanted[i]
  BY <1>2 DEF MaskOf, IInv, BoardInv
<1>3. ASSUME NEW u \in Tracer, u # t
      PROVE  pc'[u] = pc[u] /\ todo'[u] = todo[u]
  BY <1>1, <1>3
<1>4. todo'[t] = MaskOf(c) /\ cat'[t] = c
  BY <1>1
<1> QED BY <1>1, <1>2, <1>3, <1>4 DEF EventsDelivered

LEMMA DeliveryStep == IInv /\ [Next]_vars => EventsDelivered
<1> SUFFICES ASSUME IInv, [Next]_vars PROVE EventsDelivered OBVIOUS
<1>a. /\ pc \in [Tracer -> {"idle", "loop", "update", "write"}]
      /\ todo \in [Tracer -> SUBSET Instance] /\ inst \in [Tracer -> Instance \cup {None}]
      /\ attached \in [Tracer -> BOOLEAN] /\ None \notin Instance
      /\ \A t \in Tracer : (inst[t] # None) <=> pc[t] \in {"update", "write"}
  BY TraceAssumption DEF IInv, TypeOK
<1>1. ASSUME UNCHANGED <<pc, todo, inst>> PROVE EventsDelivered
  BY <1>1 DEF EventsDelivered
<1>2. ASSUME NEW t \in Tracer, NEW i \in Instance, NextInstance(t, i) PROVE EventsDelivered
  <2>1. /\ pc[t] = "loop" /\ todo' = [todo EXCEPT ![t] = todo[t] \ {i}]
        /\ \/ phase[i] = "free" /\ UNCHANGED <<pc, inst>>
           \/ /\ inst' = [inst EXCEPT ![t] = i] /\ attached' = [attached EXCEPT ![t] = TRUE]
              /\ pc'[t] # "loop" /\ \A u \in Tracer \ {t} : pc'[u] = pc[u]
    BY <1>2, <1>a DEF NextInstance
  <2>2. inst[t] = None BY <1>a, <2>1
  <2> QED BY <1>a, <2>1, <2>2 DEF EventsDelivered
<1>3. ASSUME NEW t \in Tracer, DoIncrementalUpdate(t) PROVE EventsDelivered
  BY <1>3, <1>a DEF DoIncrementalUpdate, FinishUpdate, EventsDelivered
<1>4. ASSUME NEW t \in Tracer, WriteEvent(t) PROVE EventsDelivered
  <2>1. /\ pc[t] = "write" /\ pc' = [pc EXCEPT ![t] = "loop"] /\ todo' = todo
        /\ inst' = [inst EXCEPT ![t] = None]
    BY <1>4 DEF WriteEvent
  <2> QED BY <1>a, <2>1 DEF EventsDelivered
<1>5. ASSUME NEW t \in Tracer, Return(t) PROVE EventsDelivered
  <2>1. /\ pc' = [pc EXCEPT ![t] = "idle"] /\ todo' = todo /\ inst' = inst
    BY <1>5 DEF Return
  <2> QED BY <1>a, <2>1 DEF EventsDelivered
<1>6. ASSUME NEW t \in Tracer, NEW c \in Category \cup Group,
             TraceEvent(t, c) \/ TraceAny(t, c) \/ TraceData(t, c)
      PROVE  EventsDelivered
  BY <1>6, CallDelivers DEF TraceEvent, TraceAny, TraceData, Op
<1>7. ASSUME NEW t \in Tracer, CleanupEnd(t) PROVE EventsDelivered
  <2>1. scopes[t] \in Seq(Scope) /\ scopes[t] # <<>> BY <1>7 DEF CleanupEnd, IInv, TypeOK
  <2>2. Innermost(t) \in Scope
    <3>1. Len(scopes[t]) \in 1 .. Len(scopes[t]) BY <2>1, EmptySeq
    <3> QED BY <2>1, <3>1, ElementOfSeq DEF Innermost
  <2>3. Innermost(t).cat \in Category \cup Group BY <2>2 DEF Scope
  <2> QED BY <1>7, <2>3, CallDelivers DEF CleanupEnd, Op
<1>8. ASSUME NEW i \in Instance,
             \/ \E W \in SUBSET published : Setup(i, W)
             \/ \E c \in Category : Enable(i, c)
             \/ Reject(i) \/ Advance(i) \/ Stop(i) \/ Release(i)
             \/ \E t \in Tracer : ClearIncrementalState(t, i)
      PROVE  EventsDelivered
  BY <1>1, <1>8 DEF Setup, Enable, Reject, Advance, Stop, Release, ClearIncrementalState, callVars
<1>9. ASSUME \/ \E L \in Lists : Publish(L)
             \/ \E g \in Group : AddGroup(g) \/ \E m \in SUBSET seen[g] : UpdateGroupCategory(g, m)
      PROVE  EventsDelivered
  BY <1>1, <1>9 DEF Publish, AddGroup, UpdateGroupCategory, callVars
<1>10. CASE UNCHANGED vars BY <1>1, <1>10 DEF vars, callVars
<1> QED
  BY <1>2, <1>3, <1>4, <1>5, <1>6, <1>7, <1>8, <1>9, <1>10 DEF Next, TracerStep

\* No session misses an event: every session that is live at the load of the mask
\* and wants the category has the event written, if it does not end before.
THEOREM EventsReachSessions == Spec => [][EventsDelivered]_vars
BY DeliveryStep, Invariant, PTL DEF Spec

-----------------------------------------------------------------------------
(* Calls are bounded *)

\* The most steps that a call has left: three for each bit that is left, and the
\* return.
StepsLeft(t) ==
  CASE pc[t] = "loop" -> 3 * Cardinality(todo[t]) + 1
    [] pc[t] = "update" -> 3 * Cardinality(todo[t]) + 3
    [] pc[t] = "write" -> 3 * Cardinality(todo[t]) + 2
    [] OTHER -> 0

StepsBounded == \A t \in Tracer : StepsLeft(t) \in 0 .. 3 * Cardinality(Instance) + 3

\* Each step of a tracing thread brings its call nearer to the return, and
\* nothing else, in Perfetto or in another thread, takes it further away.
CallsAdvance ==
  \A t \in Tracer :
    /\ TracerStep(t) => StepsLeft(t)' < StepsLeft(t)
    /\ pc[t] # "idle" => TracerStep(t) \/ StepsLeft(t)' = StepsLeft(t)

LEMMA TodoSize ==
  ASSUME TypeOK, IsFiniteSet(Instance), NEW t \in Tracer
  PROVE  /\ IsFiniteSet(todo[t]) /\ Cardinality(todo[t]) \in 0 .. Cardinality(Instance)
         /\ Cardinality(Instance) \in Nat
<1>1. todo[t] \subseteq Instance
  BY DEF TypeOK
<1> QED
  BY <1>1, FS_Subset, FS_CardinalityType

LEMMA StepsAreBounded ==
  ASSUME TypeOK, IsFiniteSet(Instance)
  PROVE  StepsBounded
<1> SUFFICES ASSUME NEW t \in Tracer
             PROVE  StepsLeft(t) \in 0 .. 3 * Cardinality(Instance) + 3
  BY DEF StepsBounded
<1> QED
  BY TodoSize DEF StepsLeft

LEMMA TracerAdvances ==
  ASSUME TypeOK, IsFiniteSet(Instance), NEW t \in Tracer, TracerStep(t)
  PROVE  StepsLeft(t)' < StepsLeft(t)
<1>1. /\ pc \in [Tracer -> {"idle", "loop", "update", "write"}]
      /\ todo \in [Tracer -> SUBSET Instance]
      /\ Cardinality(todo[t]) \in Nat /\ IsFiniteSet(todo[t])
  BY TodoSize DEF TypeOK
<1>2. ASSUME NEW i \in Instance, NextInstance(t, i)
      PROVE  StepsLeft(t)' < StepsLeft(t)
  <2>1. /\ pc[t] = "loop" /\ i \in todo[t] /\ todo'[t] = todo[t] \ {i}
        /\ pc'[t] \in {"loop", "update", "write"}
    BY <1>1, <1>2 DEF NextInstance
  <2>2. /\ Cardinality(todo[t] \ {i}) = Cardinality(todo[t]) - 1
        /\ IsFiniteSet(todo[t] \ {i})
    <3> HIDE <1>2
    <3> QED
      BY <1>1, <2>1, FS_RemoveElement
  <2>3. Cardinality(todo[t] \ {i}) \in Nat
    BY <2>2, FS_CardinalityType
  <2> QED
    BY <1>1, <2>1, <2>2, <2>3 DEF StepsLeft
<1>3. CASE DoIncrementalUpdate(t)
  <2>1. pc[t] = "update" /\ pc'[t] = "write" /\ todo' = todo
    BY <1>1, <1>3 DEF DoIncrementalUpdate, FinishUpdate
  <2> QED
    BY <1>1, <2>1 DEF StepsLeft
<1>4. CASE WriteEvent(t)
  <2>1. pc[t] = "write" /\ pc'[t] = "loop" /\ todo' = todo
    BY <1>1, <1>4 DEF WriteEvent
  <2> QED
    BY <1>1, <2>1 DEF StepsLeft
<1>5. CASE Return(t)
  <2>1. pc[t] = "loop" /\ pc'[t] = "idle"
    BY <1>1, <1>5 DEF Return
  <2> QED
    BY <1>1, <2>1 DEF StepsLeft
<1> QED
  BY <1>2, <1>3, <1>4, <1>5 DEF TracerStep

\* Only the thread itself moves its call.
LEMMA CallFrozen ==
  ASSUME TypeOK, NEW t \in Tracer, pc[t] # "idle", ~TracerStep(t), [Next]_vars
  PROVE  pc'[t] = pc[t] /\ todo'[t] = todo[t]
<1>1. /\ pc \in [Tracer -> {"idle", "loop", "update", "write"}]
      /\ todo \in [Tracer -> SUBSET Instance]
  BY DEF TypeOK
<1>2. ASSUME NEW u \in Tracer, NEW c \in Category \cup Group,
             TraceEvent(u, c) \/ TraceAny(u, c) \/ TraceData(u, c)
      PROVE  pc'[t] = pc[t] /\ todo'[t] = todo[t]
  BY <1>1, <1>2 DEF TraceEvent, TraceAny, TraceData, LoadMask, CallWith
<1>3. ASSUME NEW u \in Tracer, CleanupEnd(u)
      PROVE  pc'[t] = pc[t] /\ todo'[t] = todo[t]
  BY <1>1, <1>3 DEF CleanupEnd, LoadMask, CallWith
<1>4. ASSUME NEW u \in Tracer, TracerStep(u)
      PROVE  pc'[t] = pc[t] /\ todo'[t] = todo[t]
  <2>1. u # t
    BY <1>4
  <2>2. \A l : [pc EXCEPT ![u] = l][t] = pc[t] /\ [todo EXCEPT ![u] = l][t] = todo[t]
    BY <1>1, <2>1
  <2>3. /\ pc' = pc \/ \E l : pc' = [pc EXCEPT ![u] = l]
        /\ todo' = todo \/ \E l : todo' = [todo EXCEPT ![u] = l]
    BY <1>4 DEF TracerStep, NextInstance, DoIncrementalUpdate, FinishUpdate, WriteEvent, Return
  <2> QED
    BY <2>2, <2>3
<1>5. ASSUME NEW i \in Instance,
             \/ \E W \in SUBSET published : Setup(i, W)
             \/ \E c \in Category : Enable(i, c)
             \/ Reject(i) \/ Advance(i) \/ Stop(i) \/ Release(i)
             \/ \E u \in Tracer : ClearIncrementalState(u, i)
      PROVE  pc' = pc /\ todo' = todo
  BY <1>5 DEF Setup, Enable, Reject, Advance, Stop, Release, ClearIncrementalState, callVars
<1>6. ASSUME \/ \E L \in Lists : Publish(L)
             \/ \E g \in Group : AddGroup(g) \/ \E m \in SUBSET seen[g] : UpdateGroupCategory(g, m)
      PROVE  pc' = pc /\ todo' = todo
  BY <1>6 DEF Publish, AddGroup, UpdateGroupCategory, callVars
<1>7. CASE UNCHANGED vars
  BY <1>7 DEF vars, callVars
<1> HIDE DEF TracerStep
<1> QED
  BY <1>2, <1>3, <1>4, <1>5, <1>6, <1>7 DEF Next

\* A tracing call never waits: whatever sessions and other threads do, it returns
\* after at most three steps of its own for each bit of the mask, and one more.
THEOREM CallsBounded ==
  ASSUME IsFiniteSet(Instance)
  PROVE  Spec => []StepsBounded /\ [][CallsAdvance]_vars
<1>1. TypeOK => StepsBounded
  BY StepsAreBounded
<1>2. TypeOK /\ [Next]_vars => CallsAdvance
  <2> SUFFICES ASSUME TypeOK, [Next]_vars, NEW t \in Tracer
               PROVE  /\ TracerStep(t) => StepsLeft(t)' < StepsLeft(t)
                      /\ pc[t] # "idle" => TracerStep(t) \/ StepsLeft(t)' = StepsLeft(t)
    BY DEF CallsAdvance
  <2>1. pc[t] # "idle" /\ ~TracerStep(t) => StepsLeft(t)' = StepsLeft(t)
    BY CallFrozen DEF StepsLeft
  <2> QED
    BY <2>1, TracerAdvances
<1> QED
  BY <1>1, <1>2, TypeCorrect, PTL DEF Spec

=============================================================================
