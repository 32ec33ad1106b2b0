--------------------------- MODULE Waiters_proofs ---------------------------
(***************************************************************************)
(* Theorems about Waiters, for every set of statements and names.          *)
(***************************************************************************)
EXTENDS Waiters, TLAPS

-----------------------------------------------------------------------------
(* Types.                                                                   *)

Entries == [id : Nat \ {0}, stmt : Statements]

LEMMA StatementFields ==
  ASSUME NEW s \in Statements
  PROVE  /\ s.kind \in {"at", "wait"}
         /\ s.on \subseteq Names
         /\ s.kind = "wait" => s.on \subseteq Signals
<1>1. CASE s \in AtStatement
  <2>1. PICK o \in {{}} \cup {{n} : n \in Names}, e \in Edge : s = [kind |-> "at", on |-> o, edge |-> e]
    BY <1>1 DEF AtStatement
  <2> QED
    BY <2>1
<1>2. CASE s \in WaitStatement
  <2>1. PICK o \in SUBSET Signals : \E g \in SUBSET [o -> Bit] : s = [kind |-> "wait", on |-> o, goal |-> g]
    BY <1>2 DEF WaitStatement
  <2> QED
    BY <2>1 DEF Names
<1> QED
  BY <1>1, <1>2, WaitersAssumption

LEMMA WaitersType ==
  ASSUME TypeOK
  PROVE  /\ waiters \in Seq(Entries)
         /\ \A i \in DOMAIN waiters : /\ waiters[i] \in Entries
                                      /\ waiters[i].id \in Nat /\ waiters[i].id # 0
                                      /\ waiters[i].stmt \in Statements
<1>1. waiters \in Seq(Entries)
  BY DEF TypeOK, Entries
<1>2. \A i \in DOMAIN waiters : waiters[i] \in Entries
  BY <1>1
<1>3. \A x \in Entries : x.id \in Nat /\ x.id # 0 /\ x.stmt \in Statements
  BY DEF Entries
<1> QED
  BY <1>1, <1>2, <1>3

LEMMA TopType ==
  ASSUME TypeOK, walks # <<>>
  PROVE  /\ Len(walks) \in DOMAIN walks
         /\ Top \in Walks
         /\ Top.slot \in Nat /\ Top.who \in Nat
         /\ Top.sig \in Names /\ Top.old \in Bit /\ Top.fresh \in BOOLEAN
<1>1. Len(walks) \in DOMAIN walks /\ Top \in Walks
  BY DEF TypeOK, Top
<1> QED
  BY <1>1 DEF Walks

LEMMA WithTopType ==
  ASSUME TypeOK, walks # <<>>, NEW f \in Walks
  PROVE  /\ WithTop(f) \in Seq(Walks)
         /\ Len(WithTop(f)) = Len(walks)
         /\ WithTop(f)[Len(walks)] = f
         /\ \A k \in DOMAIN walks : k # Len(walks) => WithTop(f)[k] = walks[k]
BY DEF TypeOK, WithTop

LEMMA FreedType ==
  ASSUME NEW n, NEW w \in Seq(Walks)
  PROVE  /\ Freed(n, w) \in Seq(Walks)
         /\ Len(Freed(n, w)) = Len(w)
         /\ \A k \in DOMAIN w : /\ Freed(n, w)[k].sig = w[k].sig
                                /\ Freed(n, w)[k].old = w[k].old
                                /\ Freed(n, w)[k].slot = w[k].slot
                                /\ Freed(n, w)[k].who = w[k].who
                                /\ w[k].sig # n => Freed(n, w)[k].fresh = w[k].fresh
<1>1. \A k \in DOMAIN w : w[k] \in Walks
  OBVIOUS
<1>2. \A f \in Walks : [f EXCEPT !.fresh = @ /\ f.sig # n] \in Walks
  BY DEF Walks
<1>3. Freed(n, w) \in [1 .. Len(w) -> Walks]
  BY <1>1, <1>2 DEF Freed
<1>4. \A k \in DOMAIN w : Freed(n, w)[k] = [w[k] EXCEPT !.fresh = @ /\ w[k].sig # n]
  BY DEF Freed
<1>5. \A f \in Walks : LET g == [f EXCEPT !.fresh = @ /\ f.sig # n] IN
        /\ g.sig = f.sig /\ g.old = f.old /\ g.slot = f.slot /\ g.who = f.who
        /\ f.sig # n => g.fresh = f.fresh
  BY DEF Walks
<1>6. Freed(n, w) \in Seq(Walks) /\ Len(Freed(n, w)) = Len(w)
  BY <1>3
<1>7. ASSUME NEW k \in DOMAIN w
      PROVE  /\ Freed(n, w)[k].sig = w[k].sig
             /\ Freed(n, w)[k].old = w[k].old
             /\ Freed(n, w)[k].slot = w[k].slot
             /\ Freed(n, w)[k].who = w[k].who
             /\ w[k].sig # n => Freed(n, w)[k].fresh = w[k].fresh
  <2> DEFINE f == w[k]
  <2>1. f \in Walks
    BY <1>1
  <2>2. Freed(n, w)[k] = [f EXCEPT !.fresh = @ /\ f.sig # n]
    BY <1>4
  <2> HIDE DEF f
  <2> QED
    BY <2>1, <2>2, <1>5 DEF f
<1> QED
  BY <1>6, <1>7

LEMMA DroppedType ==
  ASSUME TypeOK, NEW w
  PROVE  /\ Dropped(w) \in Seq(Entries)
         /\ waiters # <<>> => Len(Dropped(w)) = Len(waiters) - 1
         /\ \A i \in 1 .. Len(waiters) - 1 :
              Dropped(w)[i] = IF i = w THEN waiters[Len(waiters)] ELSE waiters[i]
<1> DEFINE n == Len(waiters)
<1>1. n \in Nat /\ waiters \in [1 .. n -> Entries]
  BY WaitersType
<1>2. CASE n = 0
  <2>1. 1 .. n - 1 = 1 .. 0
    BY <1>2
  <2> QED
    BY <1>1, <1>2, <2>1 DEF Dropped
<1>3. CASE n # 0
  BY <1>1, <1>3 DEF Dropped
<1> QED
  BY <1>2, <1>3

LEMMA WaitingType == ASSUME TypeOK, NEW n, NEW o, NEW v PROVE Waiting(n, o, v) \subseteq Nat
BY WaitersType DEF Waiting

LEMMA InitType == Init => TypeOK
BY DEF Init, TypeOK, Names, Bit

LEMMA StatementType == TypeOK /\ Statement => TypeOK'
<1> SUFFICES ASSUME TypeOK, Statement PROVE TypeOK'
  OBVIOUS
<1>1. ASSUME NEW s \in Statements, Join(s) PROVE TypeOK'
  BY <1>1 DEF TypeOK, Join
<1>2. ASSUME NEW n \in Signals, NEW v \in Bit, Assign(n, v) PROVE TypeOK'
  <2>1. walks' \in Seq(Walks)
    BY <1>2, FreedType DEF TypeOK, Assign
  <2>2. value' \in [Names -> Bit] /\ value[n] \in Bit
    BY <1>2 DEF TypeOK, Assign, Names
  <2>3. recorded' \in Seq(Changes) /\ missed' \subseteq Signals
    <3>1. [sig |-> n, old |-> value[n]] \in Changes
      BY <2>2 DEF Changes
    <3>2. Append(recorded, [sig |-> n, old |-> value[n]]) \in Seq(Changes)
      BY <3>1 DEF TypeOK
    <3>3. recorded' \in {recorded, Append(recorded, [sig |-> n, old |-> value[n]])}
      BY <1>2 DEF Assign
    <3>4. missed' \in {missed, missed \cup {n}}
      BY <1>2 DEF Assign
    <3> QED
      BY <3>2, <3>3, <3>4 DEF TypeOK
  <2> QED
    BY <1>2, <2>1, <2>2, <2>3 DEF TypeOK, Assign
<1>3. ASSUME NEW n \in Signals, NEW v \in Bit, Drive(n, v) PROVE TypeOK'
  <2>1. walks' \in Seq(Walks)
    BY <1>3, FreedType DEF TypeOK, Drive
  <2>2. value' \in [Names -> Bit] /\ missed' \subseteq Signals
    BY <1>3 DEF TypeOK, Drive, Names
  <2> QED
    BY <1>3, <2>1, <2>2 DEF TypeOK, Drive
<1>4. ASSUME NEW n \in Events, Trigger(n) PROVE TypeOK'
  <2>1. value' \in [Names -> Bit] /\ value[n] \in Bit
    BY <1>4 DEF TypeOK, Trigger, Names, Bit
  <2>2. Walk(n, value[n]) \in Walks
    BY <2>1 DEF Walk, Walks, Names
  <2>3. walks' \in Seq(Walks)
    BY <1>4, <2>2, FreedType DEF TypeOK, Trigger
  <2>4. due' \subseteq Nat
    BY <1>4, WaitingType DEF TypeOK, Trigger
  <2> QED
    BY <1>4, <2>1, <2>3, <2>4 DEF TypeOK, Trigger
<1> QED
  BY <1>1, <1>2, <1>3, <1>4 DEF Statement

LEMMA WalkStepType == TypeOK /\ WalkStep => TypeOK'
<1> SUFFICES ASSUME TypeOK, WalkStep PROVE TypeOK'
  OBVIOUS
<1>0. walks # <<>>
  BY DEF WalkStep, Start, Pass, Wake, BodyDone, WalkDone, AtSlot
<1>1. CASE Start
  <2>1. [Top EXCEPT !.slot = 1, !.fresh = @ \/ Top.sig \in Events] \in Walks
    BY <1>0, TopType DEF Walks
  <2>2. walks' \in Seq(Walks)
    BY <1>0, <1>1, <2>1, WithTopType DEF Start
  <2> QED
    BY <1>1, <2>2 DEF TypeOK, Start
<1>2. CASE Pass
  <2>1. [Top EXCEPT !.slot = @ + 1] \in Walks
    BY <1>0, TopType DEF Walks
  <2>2. walks' \in Seq(Walks)
    BY <1>0, <1>2, <2>1, WithTopType DEF Pass
  <2> QED
    BY <1>2, <2>2 DEF TypeOK, Pass
<1>3. CASE Wake
  <2>0. waiters[Top.slot].id \in Nat
    BY <1>3, WaitersType DEF Wake, AtSlot
  <2>1. [Top EXCEPT !.who = waiters[Top.slot].id] \in Walks
    BY <1>0, <2>0, TopType DEF Walks
  <2>2. walks' \in Seq(Walks)
    BY <1>0, <1>3, <2>1, WithTopType DEF Wake
  <2> QED
    BY <1>3, <2>0, <2>2 DEF TypeOK, Wake
<1>4. CASE BodyDone
  <2>1. [Top EXCEPT !.who = 0] \in Walks
    BY <1>0, TopType DEF Walks
  <2>2. walks' \in Seq(Walks)
    BY <1>0, <1>4, <2>1, WithTopType DEF BodyDone
  <2>3. waiters' \in Seq(Entries)
    BY <1>4, DroppedType DEF BodyDone
  <2> QED
    BY <1>4, <2>2, <2>3 DEF TypeOK, BodyDone, Entries
<1>5. CASE WalkDone
  <2> DEFINE outer == SubSeq(walks, 1, Len(walks) - 1)
  <2>1. outer \in Seq(Walks)
    BY <1>0 DEF TypeOK
  <2>2. Freed(Top.sig, outer) \in Seq(Walks)
    BY <2>1, FreedType
  <2>3. walks' \in Seq(Walks)
    BY <1>5, <2>1, <2>2 DEF WalkDone
  <2>4. value' \in [Names -> Bit]
    BY <1>0, <1>5, TopType DEF TypeOK, WalkDone, Bit
  <2> QED
    BY <1>5, <2>3, <2>4 DEF TypeOK, WalkDone
<1> QED
  BY <1>1, <1>2, <1>3, <1>4, <1>5 DEF WalkStep

LEMMA BatchType == TypeOK /\ Batch => TypeOK'
<1> SUFFICES ASSUME TypeOK, Batch PROVE TypeOK'
  OBVIOUS
<1>1. CASE Begin
  BY <1>1 DEF TypeOK, Begin
<1>2. CASE Note
  <2>1. Head(recorded) \in Changes /\ recorded' \in Seq(Changes)
    BY <1>2 DEF TypeOK, Note
  <2>2. Head(recorded).sig \in Signals
    BY <2>1 DEF Changes
  <2>3. changes' \in Seq(Changes) /\ missed' \subseteq Signals
    <3>1. changes' \in {changes, Append(changes, Head(recorded))}
      BY <1>2 DEF Note
    <3>2. Append(changes, Head(recorded)) \in Seq(Changes)
      BY <2>1 DEF TypeOK
    <3>3. missed' \in {missed, missed \cup {Head(recorded).sig}}
      BY <1>2 DEF Note
    <3> QED
      BY <2>2, <3>1, <3>2, <3>3 DEF TypeOK
  <2> QED
    BY <1>2, <2>1, <2>3 DEF TypeOK, Note
<1>8. CASE End
  BY <1>8 DEF TypeOK, End
<1>3. CASE Take
  <2>1. Head(changes) \in Changes
    BY <1>3 DEF TypeOK, Take
  <2>2. Walk(Head(changes).sig, Head(changes).old) \in Walks
    BY <2>1 DEF Walk, Walks, Changes, Names
  <2>3. walks' \in Seq(Walks)
    BY <1>3, <2>2 DEF Take
  <2>4. due' \subseteq Nat /\ missed' \subseteq Signals /\ changes' \in Seq(Changes)
    <3>1. Waiting(Head(changes).sig, Head(changes).old, value[Head(changes).sig]) \subseteq Nat
      BY WaitingType
    <3>2. due' \subseteq Nat
      BY <1>3, <3>1 DEF TypeOK, Take
    <3>3. missed' \subseteq Signals /\ changes' \in Seq(Changes)
      BY <1>3 DEF TypeOK, Take
    <3> QED
      BY <3>2, <3>3
  <2> QED
    BY <1>3, <2>3, <2>4 DEF TypeOK, Take
<1>4. CASE NextPhase
  BY <1>4 DEF TypeOK, NextPhase
<1>5. ASSUME NEW n \in Signals, NEW v \in Bit, Noted(n, v)
      PROVE  value' \in [Names -> Bit] /\ changes' \in Seq(Changes)
  BY <1>5 DEF TypeOK, Noted, Names, Changes
<1>6. ASSUME NEW n \in Signals, NEW v \in Bit, Apply(n, v) PROVE TypeOK'
  BY <1>5, <1>6 DEF TypeOK, Apply
<1>7. ASSUME NEW n \in Signals, NEW v \in Bit, Resolve(n, v) PROVE TypeOK'
  BY <1>5, <1>7 DEF TypeOK, Resolve
<1> QED
  BY <1>1, <1>2, <1>3, <1>4, <1>6, <1>7, <1>8 DEF Batch

LEMMA TypeCorrectStep == TypeOK /\ [Next]_vars => TypeOK'
<1>1. TypeOK /\ UNCHANGED vars => TypeOK'
  BY DEF TypeOK, vars
<1> QED
  BY <1>1, StatementType, WalkStepType, BatchType DEF Next

\* The variables keep their types.
THEOREM TypeCorrect == Spec => []TypeOK
BY TypeCorrectStep, InitType, PTL DEF Spec

-----------------------------------------------------------------------------
(* What the actions do to the list and to the walks.                        *)

\* Walk k stays where it is.
Kept(k) ==
  /\ walks'[k].sig = walks[k].sig /\ walks'[k].old = walks[k].old
  /\ walks'[k].slot = walks[k].slot /\ walks'[k].who = walks[k].who

\* The list and the walks stay as they are; values may change.
Quiet ==
  /\ waiters' = waiters /\ arrived' = arrived /\ woken' = woken /\ habits' = habits
  /\ Len(walks') = Len(walks)
  /\ \A k \in DOMAIN walks : Kept(k)

\* A walk for n begins.
Pushed(n, old) ==
  /\ waiters' = waiters /\ arrived' = arrived /\ woken' = woken /\ habits' = habits
  /\ Len(walks') = Len(walks) + 1
  /\ \A k \in DOMAIN walks : Kept(k)
  /\ walks'[Len(walks) + 1] = Walk(n, old)

LEMMA FreedKeeps ==
  ASSUME TypeOK, NEW n, walks' = Freed(n, walks)
  PROVE  Len(walks') = Len(walks) /\ \A k \in DOMAIN walks : Kept(k)
<1>1. walks \in Seq(Walks)
  BY DEF TypeOK
<1> QED
  BY <1>1, FreedType DEF Kept

LEMMA QuietSteps ==
  ASSUME TypeOK,
         \/ \E n \in Signals, v \in Bit : Assign(n, v) \/ Drive(n, v) \/ Apply(n, v) \/ Resolve(n, v)
         \/ Begin \/ Note \/ End \/ NextPhase \/ UNCHANGED vars
  PROVE  Quiet
<1>1. ASSUME NEW n, walks' = Freed(n, walks), UNCHANGED <<waiters, arrived, woken, habits>>
      PROVE  Quiet
  BY <1>1, FreedKeeps DEF Quiet
<1>2. ASSUME UNCHANGED <<walks, waiters, arrived, woken, habits>> PROVE Quiet
  BY <1>2 DEF Quiet, Kept
<1>3. ASSUME NEW n \in Signals, NEW v \in Bit, Assign(n, v) \/ Drive(n, v) PROVE Quiet
  BY <1>3, <1>1 DEF Assign, Drive
<1>4. ASSUME NEW n \in Signals, NEW v \in Bit, Apply(n, v) \/ Resolve(n, v) PROVE Quiet
  BY <1>4, <1>2 DEF Apply, Resolve
<1>5. CASE Begin \/ Note \/ End \/ NextPhase \/ UNCHANGED vars
  BY <1>5, <1>2 DEF Begin, Note, End, NextPhase, vars
<1> QED
  BY <1>3, <1>4, <1>5

LEMMA TriggerPushes ==
  ASSUME TypeOK, NEW n \in Events, Trigger(n)
  PROVE  Pushed(n, value[n])
<1>1. Freed(n, walks) \in Seq(Walks) /\ Len(Freed(n, walks)) = Len(walks)
  BY FreedType DEF TypeOK
<1>2. walks' = Append(Freed(n, walks), Walk(n, value[n]))
  BY DEF Trigger
<1>3. Len(walks') = Len(walks) + 1 /\ walks'[Len(walks) + 1] = Walk(n, value[n])
  BY <1>1, <1>2
<1>4. \A k \in DOMAIN walks : walks'[k] = Freed(n, walks)[k]
  BY <1>1, <1>2
<1>5. \A k \in DOMAIN walks : Kept(k)
  BY <1>4, FreedType DEF TypeOK, Kept
<1> QED
  BY <1>3, <1>5 DEF Pushed, Trigger

LEMMA TakePushes ==
  ASSUME TypeOK, Take
  PROVE  Pushed(Head(changes).sig, Head(changes).old)
BY DEF Take, Pushed, Kept

\* The innermost walk goes on to f.
LEMMA Advanced ==
  ASSUME TypeOK, walks # <<>>, NEW f \in Walks, walks' = WithTop(f)
  PROVE  /\ walks' # <<>> /\ Len(walks') = Len(walks) /\ DOMAIN walks' = DOMAIN walks
         /\ Top' = f
         /\ \A k \in DOMAIN walks : k # Len(walks) => walks'[k] = walks[k]
<1>1. Len(walks) \in Nat /\ Len(walks) # 0
  BY DEF TypeOK
<1>2. walks' \in Seq(Walks) /\ Len(walks') = Len(walks)
  BY WithTopType
<1> QED
  BY <1>1, <1>2, WithTopType DEF Top

\* The innermost walk is over.
LEMMA Popped ==
  ASSUME TypeOK, WalkDone
  PROVE  /\ walks # <<>> /\ Len(walks') = Len(walks) - 1
         /\ \A k \in 1 .. Len(walks) - 1 : Kept(k)
         /\ DOMAIN walks' = 1 .. Len(walks) - 1
<1> DEFINE outer == SubSeq(walks, 1, Len(walks) - 1)
<1>0. walks # <<>> /\ walks \in Seq(Walks)
  BY DEF WalkDone, TypeOK
<1>1. /\ outer \in Seq(Walks) /\ Len(outer) = Len(walks) - 1
      /\ \A k \in 1 .. Len(walks) - 1 : outer[k] = walks[k]
  <2>1. Len(walks) \in Nat /\ Len(walks) # 0
    BY <1>0
  <2>2. outer = [k \in 1 .. Len(walks) - 1 |-> walks[k]]
    BY <1>0, <2>1
  <2>3. \A k \in 1 .. Len(walks) - 1 : walks[k] \in Walks
    BY <1>0
  <2> HIDE DEF outer
  <2> QED
    BY <2>1, <2>2, <2>3
<1>2. walks' = outer \/ walks' = Freed(Top.sig, outer)
  BY DEF WalkDone
<1> HIDE DEF outer
<1>3. CASE walks' = outer
  BY <1>0, <1>1, <1>3 DEF Kept
<1>4. CASE walks' = Freed(Top.sig, outer)
  BY <1>0, <1>1, <1>4, FreedType DEF Kept
<1> QED
  BY <1>0, <1>2, <1>3, <1>4

LEMMA StartMoves ==
  ASSUME TypeOK, Start
  PROVE  /\ walks # <<>> /\ Top.slot = 0
         /\ [Top EXCEPT !.slot = 1, !.fresh = @ \/ Top.sig \in Events] \in Walks
         /\ Top'.sig = Top.sig /\ Top'.old = Top.old /\ Top'.slot = 1 /\ Top'.who = Top.who
         /\ Top.fresh => Top'.fresh
         /\ Len(walks') = Len(walks) /\ DOMAIN walks' = DOMAIN walks
         /\ \A k \in DOMAIN walks : k # Len(walks) => walks'[k] = walks[k]
<1> DEFINE f == [Top EXCEPT !.slot = 1, !.fresh = @ \/ Top.sig \in Events]
<1>1. walks # <<>> /\ Top.slot = 0 /\ walks' = WithTop(f)
  BY DEF Start
<1>2. f \in Walks /\ f.sig = Top.sig /\ f.old = Top.old /\ f.slot = 1 /\ f.who = Top.who
      /\ (Top.fresh => f.fresh)
  BY <1>1, TopType DEF Walks
<1> HIDE DEF f
<1>3. Top' = f
  BY <1>1, <1>2, Advanced
<1> QED
  BY <1>1, <1>2, <1>3, Advanced DEF f

LEMMA PassMoves ==
  ASSUME TypeOK, Pass
  PROVE  /\ walks # <<>> /\ Top.slot \in DOMAIN waiters /\ Top.who = 0
         /\ Top'.sig = Top.sig /\ Top'.old = Top.old /\ Top'.slot = Top.slot + 1 /\ Top'.who = 0
         /\ Top'.fresh = Top.fresh
         /\ Len(walks') = Len(walks) /\ DOMAIN walks' = DOMAIN walks
         /\ \A k \in DOMAIN walks : k # Len(walks) => walks'[k] = walks[k]
<1> DEFINE f == [Top EXCEPT !.slot = @ + 1]
<1>1. walks # <<>> /\ Top.slot \in DOMAIN waiters /\ Top.who = 0 /\ walks' = WithTop(f)
  BY DEF Pass, AtSlot
<1>2. f \in Walks /\ f.sig = Top.sig /\ f.old = Top.old /\ f.slot = Top.slot + 1
      /\ f.who = 0 /\ f.fresh = Top.fresh
  BY <1>1, TopType DEF Walks
<1> HIDE DEF f
<1>3. Top' = f
  BY <1>1, <1>2, Advanced
<1> QED
  BY <1>1, <1>2, <1>3, Advanced

LEMMA WakeMoves ==
  ASSUME TypeOK, Wake
  PROVE  /\ walks # <<>> /\ Top.slot \in DOMAIN waiters /\ Top.who = 0
         /\ Top'.sig = Top.sig /\ Top'.old = Top.old /\ Top'.slot = Top.slot
         /\ Top'.who = waiters[Top.slot].id /\ Top'.fresh = Top.fresh
         /\ Len(walks') = Len(walks) /\ DOMAIN walks' = DOMAIN walks
         /\ \A k \in DOMAIN walks : k # Len(walks) => walks'[k] = walks[k]
<1> DEFINE f == [Top EXCEPT !.who = waiters[Top.slot].id]
<1>1. walks # <<>> /\ Top.slot \in DOMAIN waiters /\ Top.who = 0 /\ walks' = WithTop(f)
  BY DEF Wake, AtSlot
<1>2. waiters[Top.slot].id \in Nat
  BY <1>1, WaitersType
<1>3. f \in Walks /\ f.sig = Top.sig /\ f.old = Top.old /\ f.slot = Top.slot
      /\ f.who = waiters[Top.slot].id /\ f.fresh = Top.fresh
  BY <1>1, <1>2, TopType DEF Walks
<1> HIDE DEF f
<1>4. Top' = f
  BY <1>1, <1>3, Advanced
<1> QED
  BY <1>1, <1>3, <1>4, Advanced

LEMMA BodyMoves ==
  ASSUME TypeOK, BodyDone
  PROVE  /\ walks # <<>> /\ Top.who # 0
         /\ Top'.sig = Top.sig /\ Top'.old = Top.old /\ Top'.slot = Top.slot
         /\ Top'.who = 0 /\ Top'.fresh = Top.fresh
         /\ Len(walks') = Len(walks) /\ DOMAIN walks' = DOMAIN walks
         /\ \A k \in DOMAIN walks : k # Len(walks) => walks'[k] = walks[k]
<1> DEFINE f == [Top EXCEPT !.who = 0]
<1>1. walks # <<>> /\ Top.who # 0 /\ walks' = WithTop(f)
  BY DEF BodyDone
<1>2. f \in Walks /\ f.sig = Top.sig /\ f.old = Top.old /\ f.slot = Top.slot
      /\ f.who = 0 /\ f.fresh = Top.fresh
  BY <1>1, TopType DEF Walks
<1> HIDE DEF f
<1>3. Top' = f
  BY <1>1, <1>2, Advanced
<1> QED
  BY <1>1, <1>2, <1>3, Advanced

-----------------------------------------------------------------------------
(* The walks are nested properly, and the list has everyone who waits.      *)

Calm == "trigger" \notin habits

\* Walks are nested in what runs before an outer walk sets out: only the
\* innermost one is on the list, and the slot it is at keeps its statement.
Nesting ==
  /\ \A k \in DOMAIN walks : k # Len(walks) => walks[k].slot = 0 /\ walks[k].who = 0
  /\ walks # <<>> /\ Top.who # 0 =>
       Top.slot \in DOMAIN waiters /\ waiters[Top.slot].id = Top.who

\* Every statement that came is on the list once or was woken, and the only one
\* of those woken that is still on it is the one whose body runs.
Membership ==
  /\ \A i, j \in DOMAIN waiters : waiters[i].id = waiters[j].id => i = j
  /\ 1 .. arrived = Listed \cup woken
  /\ \A i \in DOMAIN waiters : waiters[i].id \in woken => walks # <<>> /\ Top.who = waiters[i].id
  /\ walks # <<>> /\ Top.who # 0 => Top.who \in woken

LEMMA IdleTop ==
  ASSUME TypeOK, Nesting, walks # <<>>, Top.slot = 0
  PROVE  Top.who = 0
BY DEF TypeOK, Nesting

\* A walk begins where no other is on the list.
LEMMA PushedOutside ==
  ASSUME TypeOK, Calm, Nesting,
         (\E n \in Events : Trigger(n)) \/ Take
  PROVE  walks # <<>> => Top.slot = 0 /\ Top.who = 0
BY IdleTop DEF Trigger, Take, Executing, Calm

\* Where the statements of the list stand once the one whose body ran is removed.
LEMMA BodyRemoves ==
  ASSUME TypeOK, Nesting, Membership, BodyDone
  PROVE  /\ \A i \in DOMAIN waiters' : \E j \in DOMAIN waiters :
              /\ waiters'[i] = waiters[j] /\ waiters[j].id # Top.who
              /\ j = i \/ (i = Top.slot /\ i <= j)
         /\ \A j \in DOMAIN waiters : waiters[j].id # Top.who =>
              \E i \in DOMAIN waiters' :
                /\ waiters'[i] = waiters[j]
                /\ i = j \/ (i = Top.slot /\ i <= j)
         /\ \A i, j \in DOMAIN waiters' : waiters'[i].id = waiters'[j].id => i = j
<1> DEFINE n == Len(waiters)
           w == Top.slot
<1>1. walks # <<>> /\ Top.who # 0 /\ waiters' = Dropped(w)
  BY DEF BodyDone
<1>2. n \in Nat /\ DOMAIN waiters = 1 .. n /\ w \in 1 .. n /\ waiters[w].id = Top.who
  BY <1>1 DEF TypeOK, Nesting
<1>3. waiters # <<>> /\ n >= 1
  BY <1>2
<1>4. /\ DOMAIN waiters' = 1 .. n - 1
      /\ \A i \in 1 .. n - 1 : waiters'[i] = IF i = w THEN waiters[n] ELSE waiters[i]
  BY <1>1, <1>3, DroppedType
<1>5. \A i, j \in 1 .. n : waiters[i].id = waiters[j].id => i = j
  BY <1>2 DEF Membership
<1> HIDE DEF n, w
<1>6. \A i \in 1 .. n - 1 : \E j \in 1 .. n :
        /\ waiters'[i] = waiters[j] /\ j # w /\ (j = i \/ (i = w /\ i <= j))
  <2> TAKE i \in 1 .. n - 1
  <2>1. CASE i = w
    <3>1. n \in 1 .. n /\ n # w /\ i <= n
      BY <1>2, <2>1
    <3>2. waiters'[i] = waiters[n]
      BY <1>4, <2>1
    <3> QED
      BY <2>1, <3>1, <3>2
  <2>2. CASE i # w
    <3>1. i \in 1 .. n
      BY <1>2
    <3> QED
      BY <1>4, <2>2, <3>1
  <2> QED
    BY <2>1, <2>2
<1>7. \A j \in 1 .. n : j # w => \E i \in 1 .. n - 1 :
        waiters'[i] = waiters[j] /\ (i = j \/ (i = w /\ i <= j))
  <2> TAKE j \in 1 .. n
  <2> HAVE j # w
  <2>1. CASE j = n
    <3>1. w \in 1 .. n - 1 /\ w <= j
      BY <1>2, <2>1
    <3> QED
      BY <1>4, <2>1, <3>1
  <2>2. CASE j # n
    <3>1. j \in 1 .. n - 1
      BY <1>2, <2>2
    <3> QED
      BY <1>4, <3>1
  <2> QED
    BY <2>1, <2>2
<1>8. \A j \in 1 .. n : waiters[j].id # Top.who <=> j # w
  BY <1>2, <1>5
<1>9. ASSUME NEW i \in 1 .. n - 1, NEW j \in 1 .. n - 1, waiters'[i].id = waiters'[j].id
      PROVE  i = j
  <2>1. i \in 1 .. n /\ j \in 1 .. n /\ n \in 1 .. n /\ i # n /\ j # n
    BY <1>2
  <2> QED
    BY <1>4, <1>5, <1>9, <2>1
<1>10. \A i \in DOMAIN waiters' : \E j \in DOMAIN waiters :
         /\ waiters'[i] = waiters[j] /\ waiters[j].id # Top.who
         /\ j = i \/ (i = w /\ i <= j)
  BY <1>2, <1>4, <1>6, <1>8
<1>11. \A j \in DOMAIN waiters : waiters[j].id # Top.who =>
         \E i \in DOMAIN waiters' : waiters'[i] = waiters[j] /\ (i = j \/ (i = w /\ i <= j))
  BY <1>2, <1>4, <1>7, <1>8
<1>12. \A i, j \in DOMAIN waiters' : waiters'[i].id = waiters'[j].id => i = j
  BY <1>4, <1>9
<1> QED
  BY <1>10, <1>11, <1>12 DEF w

LEMMA NestingStep ==
  ASSUME TypeOK, Calm, Nesting, [Next]_vars
  PROVE  Nesting'
<1>0. walks \in Seq(Walks) /\ walks' \in Seq(Walks)
  BY TypeCorrectStep DEF TypeOK
<1>1. CASE Quiet
  <2>1. DOMAIN walks' = DOMAIN walks /\ Len(walks') = Len(walks) /\ waiters' = waiters
    BY <1>0, <1>1 DEF Quiet
  <2>2. \A k \in DOMAIN walks : walks'[k].slot = walks[k].slot /\ walks'[k].who = walks[k].who
    BY <1>1 DEF Quiet, Kept
  <2>3. walks # <<>> => Len(walks) \in DOMAIN walks
    BY <1>0
  <2>4. walks' # <<>> => walks # <<>>
    BY <1>0, <2>1
  <2> QED
    BY <2>1, <2>2, <2>3, <2>4 DEF Nesting, Top
<1>2. ASSUME NEW n, NEW old, Pushed(n, old), walks # <<>> => Top.slot = 0 /\ Top.who = 0
      PROVE  Nesting'
  <2> DEFINE n1 == Len(walks) + 1
  <2>1. Len(walks) \in Nat /\ Len(walks') = n1 /\ DOMAIN walks' = DOMAIN walks \cup {n1}
    BY <1>0, <1>2 DEF Pushed
  <2>2. \A k \in DOMAIN walks : walks'[k].slot = walks[k].slot /\ walks'[k].who = walks[k].who
    BY <1>2 DEF Pushed, Kept
  <2>3. walks'[n1].who = 0
    BY <1>2 DEF Pushed, Walk
  <2>4. \A k \in DOMAIN walks : walks[k].slot = 0 /\ walks[k].who = 0
    <3> TAKE k \in DOMAIN walks
    <3>1. walks # <<>>
      BY <1>0
    <3> QED
      BY <1>2, <3>1 DEF Nesting, Top
  <2> QED
    BY <2>1, <2>2, <2>3, <2>4 DEF Nesting, Top
<1>3. ASSUME NEW s \in Statements, Join(s) PROVE Nesting'
  BY <1>3 DEF Join, Nesting, Top, TypeOK
<1>4. CASE Start
  BY <1>4, StartMoves, IdleTop DEF Nesting
<1>5. CASE Pass
  BY <1>5, PassMoves DEF Nesting
<1>6. CASE Wake
  BY <1>6, WakeMoves DEF Nesting, Wake
<1>7. CASE BodyDone
  BY <1>7, BodyMoves DEF Nesting
<1>8. CASE WalkDone
  <2>1. walks # <<>> /\ walks \in Seq(Walks) /\ Len(walks) \in Nat /\ Len(walks) # 0
    BY <1>8, Popped DEF TypeOK
  <2>2. \A k \in 1 .. Len(walks) - 1 : walks'[k].slot = 0 /\ walks'[k].who = 0
    BY <1>8, <2>1, Popped DEF Nesting, Kept
  <2>3. walks' # <<>> => Len(walks') \in 1 .. Len(walks) - 1
    BY <1>8, <2>1, Popped, TypeCorrectStep DEF TypeOK
  <2> QED
    BY <1>8, <2>2, <2>3, Popped DEF Nesting, Top
<1> QED
  BY <1>1, <1>2, <1>3, <1>4, <1>5, <1>6, <1>7, <1>8, QuietSteps, TriggerPushes, TakePushes,
     PushedOutside DEF Next, Statement, WalkStep, Batch

\* No body runs: nobody on the list was woken.
LEMMA NobodyAwake ==
  ASSUME TypeOK, Membership, walks = <<>> \/ Top.who = 0
  PROVE  \A i \in DOMAIN waiters : waiters[i].id \notin woken
BY WaitersType DEF Membership

LEMMA MembershipStep ==
  ASSUME TypeOK, Calm, Nesting, Membership, [Next]_vars
  PROVE  Membership'
<1>0. walks \in Seq(Walks) /\ walks' \in Seq(Walks)
  BY TypeCorrectStep DEF TypeOK
<1>1. CASE Quiet
  <2>1. Len(walks') = Len(walks) /\ UNCHANGED <<waiters, arrived, woken>>
    BY <1>1 DEF Quiet
  <2>2. walks # <<>> => walks' # <<>> /\ Top'.who = Top.who
    <3>1. walks # <<>> => Len(walks) \in DOMAIN walks
      BY <1>0
    <3> QED
      BY <1>0, <1>1, <2>1, <3>1 DEF Quiet, Kept, Top
  <2>3. walks' # <<>> => walks # <<>>
    BY <1>0, <2>1
  <2> QED
    BY <2>1, <2>2, <2>3 DEF Membership, Listed
<1>2. ASSUME NEW n, NEW old, Pushed(n, old), walks # <<>> => Top.slot = 0 /\ Top.who = 0
      PROVE  Membership'
  <2>1. UNCHANGED <<waiters, arrived, woken>> /\ Len(walks') = Len(walks) + 1
    BY <1>2 DEF Pushed
  <2>2. Top'.who = 0
    BY <1>2, <2>1 DEF Pushed, Walk, Top
  <2>3. \A i \in DOMAIN waiters : waiters[i].id \notin woken
    BY <1>2, NobodyAwake
  <2> QED
    BY <2>1, <2>2, <2>3 DEF Membership, Listed
<1>3. ASSUME NEW s \in Statements, Join(s) PROVE Membership'
  <2> DEFINE n == Len(waiters)
             x == [id |-> arrived + 1, stmt |-> s]
  <2>1. /\ n \in Nat /\ DOMAIN waiters = 1 .. n /\ DOMAIN waiters' = 1 .. n + 1
        /\ waiters'[n + 1] = x /\ \A i \in 1 .. n : waiters'[i] = waiters[i]
    BY <1>3 DEF TypeOK, Join
  <2>2. x.id = arrived + 1 /\ arrived \in Nat /\ arrived' = arrived + 1
    BY <1>3 DEF TypeOK, Join
  <2> HIDE DEF n, x
  <2>3. Listed' = Listed \cup {arrived + 1}
    <3>1. 1 .. n + 1 = (1 .. n) \cup {n + 1}
      BY <2>1
    <3> QED
      BY <2>1, <2>2, <3>1 DEF Listed
  <2>4. 1 .. arrived + 1 = (1 .. arrived) \cup {arrived + 1}
    BY <2>2
  <2>5. arrived + 1 \notin Listed /\ arrived + 1 \notin woken
    BY <2>2 DEF Membership
  <2>6. \A i \in 1 .. n : waiters'[i].id # arrived + 1
    BY <2>1, <2>5 DEF Listed
  <2>7. \A i, j \in DOMAIN waiters' : waiters'[i].id = waiters'[j].id => i = j
    BY <2>1, <2>2, <2>6 DEF Membership
  <2>8. UNCHANGED <<walks, woken>>
    BY <1>3 DEF Join
  <2>9. 1 .. arrived' = Listed' \cup woken'
    BY <2>2, <2>3, <2>4, <2>8 DEF Membership
  <2>10. \A i \in DOMAIN waiters' : waiters'[i].id \in woken' =>
           walks' # <<>> /\ Top'.who = waiters'[i].id
    BY <2>1, <2>2, <2>5, <2>8 DEF Membership, Top
  <2> QED
    BY <2>7, <2>8, <2>9, <2>10 DEF Membership, Top
<1>4. CASE Start
  <2>1. UNCHANGED <<waiters, arrived, woken>> /\ walks # <<>> /\ walks' # <<>> /\ Top'.who = Top.who
    BY <1>0, <1>4, StartMoves DEF Start
  <2> QED
    BY <2>1 DEF Membership, Listed
<1>5. CASE Pass
  <2>1. UNCHANGED <<waiters, arrived, woken>> /\ walks # <<>> /\ walks' # <<>> /\ Top'.who = Top.who
    BY <1>0, <1>5, PassMoves DEF Pass
  <2> QED
    BY <2>1 DEF Membership, Listed
<1>6. CASE Wake
  <2> DEFINE i == waiters[Top.slot].id
  <2>1. /\ UNCHANGED <<waiters, arrived>> /\ woken' = woken \cup {i}
        /\ walks' # <<>> /\ Top'.who = i /\ Top.who = 0 /\ Top.slot \in DOMAIN waiters
    BY <1>0, <1>6, WakeMoves DEF Wake
  <2>2. \A j \in DOMAIN waiters : waiters[j].id \notin woken
    BY <2>1, NobodyAwake
  <2>3. i \in Listed
    BY <2>1 DEF Listed
  <2> HIDE DEF i
  <2> QED
    BY <2>1, <2>2, <2>3 DEF Membership, Listed
<1>7. CASE BodyDone
  <2>1. /\ UNCHANGED <<arrived, woken>> /\ walks # <<>> /\ Top.who # 0
        /\ walks' # <<>> /\ Top'.who = 0
    BY <1>0, <1>7, BodyMoves DEF BodyDone
  <2>2. Top.who \in woken
    BY <2>1 DEF Membership
  <2>3. Listed' = Listed \ {Top.who}
    BY <1>7, BodyRemoves DEF Listed
  <2>4. 1 .. arrived' = Listed' \cup woken'
    BY <2>1, <2>2, <2>3 DEF Membership
  <2>5. \A i \in DOMAIN waiters' : waiters'[i].id \notin woken'
    BY <1>7, <2>1, BodyRemoves DEF Membership
  <2> QED
    BY <1>7, <2>1, <2>4, <2>5, BodyRemoves DEF Membership
<1>8. CASE WalkDone
  <2>1. UNCHANGED <<waiters, arrived, woken>> /\ Top.who = 0
    BY <1>8 DEF WalkDone
  <2>2. \A i \in DOMAIN waiters : waiters[i].id \notin woken
    BY <2>1, NobodyAwake
  <2>3. walks' # <<>> => Top'.who = 0
    <3>1. Len(walks) \in Nat /\ Len(walks') = Len(walks) - 1 /\ DOMAIN walks = 1 .. Len(walks)
      BY <1>0, <1>8, Popped
    <3>2. walks' # <<>> => Len(walks') \in 1 .. Len(walks) - 1 /\ Len(walks') # Len(walks)
      BY <1>0, <3>1
    <3>3. walks' # <<>> => walks'[Len(walks')].who = 0
      BY <1>8, <3>1, <3>2, Popped DEF Nesting, Kept
    <3> QED
      BY <3>3 DEF Top
  <2> QED
    BY <2>1, <2>2, <2>3 DEF Membership, Listed
<1> QED
  BY <1>1, <1>2, <1>3, <1>4, <1>5, <1>6, <1>7, <1>8, QuietSteps, TriggerPushes, TakePushes,
     PushedOutside DEF Next, Statement, WalkStep, Batch

LEMMA ListInit == Init => Nesting /\ Membership
BY DEF Init, Nesting, Membership, Listed

LEMMA CalmStays == TypeOK /\ [Next]_vars => habits' = habits
BY DEF Next, Statement, WalkStep, Batch, Join, Assign, Drive, Trigger, Start, Pass, Wake, BodyDone,
       WalkDone, Begin, Note, End, Take, NextPhase, Apply, Resolve, vars

OnTheList == Calm => Nesting /\ Membership

LEMMA OnTheListAlways == Spec => [](TypeOK /\ OnTheList)
<1>1. TypeOK /\ OnTheList /\ [Next]_vars => OnTheList'
  BY CalmStays, NestingStep, MembershipStep DEF OnTheList, Calm
<1>2. Init => OnTheList
  BY ListInit DEF OnTheList
<1> QED
  BY <1>1, <1>2, InitType, TypeCorrectStep, PTL DEF Spec

\* As long as no woken body triggers an event, check_waiters_on_change executes
\* each statement that came to wait at most once and removes it, whatever else
\* bodies do to the list while it walks it: none is lost and none stays.
THEOREM ExecutedAndRemoved == Spec => [](Calm => NoneLost)
<1>1. TypeOK /\ OnTheList => (Calm => NoneLost)
  <2> SUFFICES ASSUME TypeOK, Nesting, Membership PROVE NoneLost
    BY DEF OnTheList
  <2>1. Listed \cap woken \subseteq Running
    <3>1. ASSUME NEW i \in Listed \cap woken PROVE i \in Running
      <4>1. PICK j \in DOMAIN waiters : waiters[j].id = i
        BY <3>1 DEF Listed
      <4>2. walks # <<>> /\ Top.who = i /\ i # 0
        BY <3>1, <4>1, WaitersType DEF Membership
      <4> QED
        BY <4>2, TopType DEF Running, Top
    <3> QED
      BY <3>1
  <2> QED
    BY <2>1 DEF Membership, NoneLost
<1> QED
  BY <1>1, OnTheListAlways, PTL

-----------------------------------------------------------------------------
(* Walks that nothing overwrites wake whoever is due.                       *)

\* Each walk is for a name of its own, and new_val is that name's value.
Steady ==
  /\ \A k, l \in DOMAIN walks : walks[k].sig = walks[l].sig => k = l
  /\ \A k \in DOMAIN walks : walks[k].fresh

\* The edge that walk k announces is one that j waits for, and j is still to come.
Awaits(j, k) ==
  /\ waiters[j].stmt.kind = "at"
  /\ walks[k].sig \in waiters[j].stmt.on
  /\ Matches(waiters[j].stmt.edge, walks[k].old, value[walks[k].sig])
  /\ walks[k].slot <= j

\* Whoever is due has a walk ahead of it.
DueAhead ==
  \A i \in due : /\ i \notin woken
                 /\ \E j \in DOMAIN waiters, k \in DOMAIN walks : waiters[j].id = i /\ Awaits(j, k)

\* Whoever a walk will wake for its edge is due.
AheadDue ==
  \A j \in DOMAIN waiters, k \in DOMAIN walks :
    Awaits(j, k) /\ waiters[j].id \notin woken => waiters[j].id \in due

Untouched == "overwrite" \notin habits

\* Walk k announces the value it did, unless it is over.
Still(k) == value'[walks[k].sig] = value[walks[k].sig] /\ walks'[k].fresh = walks[k].fresh

LEMMA QuietStill ==
  ASSUME TypeOK, Untouched,
         \/ \E n \in Signals, v \in Bit : Assign(n, v) \/ Drive(n, v) \/ Apply(n, v) \/ Resolve(n, v)
         \/ Begin \/ Note \/ End \/ NextPhase \/ UNCHANGED vars
  PROVE  /\ \A k \in DOMAIN walks : Still(k)
         /\ due' = due
<1>0. walks \in Seq(Walks) /\ value \in [Names -> Bit]
  BY DEF TypeOK
<1>1. ASSUME NEW n \in Signals, NEW v \in Bit, Assign(n, v) \/ Drive(n, v)
      PROVE  (\A k \in DOMAIN walks : Still(k)) /\ due' = due
  <2>1. n \notin UnderWay /\ value' = [value EXCEPT ![n] = v] /\ walks' = Freed(n, walks) /\ due' = due
    BY <1>1 DEF Assign, Drive, Untouched
  <2>2. \A k \in DOMAIN walks : walks[k].sig # n /\ walks'[k].fresh = walks[k].fresh
    BY <1>0, <2>1, FreedType DEF UnderWay
  <2> QED
    BY <1>0, <2>1, <2>2 DEF Still
<1>2. ASSUME NEW n \in Signals, NEW v \in Bit, Apply(n, v) \/ Resolve(n, v)
      PROVE  (\A k \in DOMAIN walks : Still(k)) /\ due' = due
  BY <1>2 DEF Apply, Resolve, Between
<1>3. CASE Begin \/ Note \/ End \/ NextPhase \/ UNCHANGED vars
  BY <1>3 DEF Begin, Note, End, NextPhase, vars, Still
<1> QED
  BY <1>1, <1>2, <1>3

\* A walk that begins is for a name of its own.
LEMMA TriggerStill ==
  ASSUME TypeOK, Untouched, NEW n \in Events, Trigger(n)
  PROVE  /\ \A k \in DOMAIN walks : Still(k) /\ walks[k].sig # n
         /\ due' = due \cup Waiting(n, value[n], value'[n])
<1>0. walks \in Seq(Walks) /\ value \in [Names -> Bit] /\ n \in Names
  BY DEF TypeOK, Names
<1>1. /\ n \notin UnderWay /\ value' = [value EXCEPT ![n] = "1"]
      /\ walks' = Append(Freed(n, walks), Walk(n, value[n]))
      /\ due' = due \cup Waiting(n, value[n], "1")
  BY DEF Trigger, Untouched
<1>2. value'[n] = "1"
  BY <1>0, <1>1
<1>3. \A k \in DOMAIN walks : walks[k].sig # n
  BY <1>1 DEF UnderWay
<1>4. \A k \in DOMAIN walks : walks'[k] = Freed(n, walks)[k]
  BY <1>0, <1>1, FreedType
<1>5. \A k \in DOMAIN walks : walks'[k].fresh = walks[k].fresh
  BY <1>0, <1>3, <1>4, FreedType
<1>6. \A k \in DOMAIN walks : value'[walks[k].sig] = value[walks[k].sig]
  <2>1. \A k \in DOMAIN walks : walks[k] \in Walks
    BY <1>0
  <2>2. \A k \in DOMAIN walks : walks[k].sig \in Names
    BY <2>1 DEF Walks
  <2> QED
    BY <1>0, <1>1, <1>3, <2>2
<1> QED
  BY <1>1, <1>2, <1>3, <1>5, <1>6 DEF Still

LEMMA TakeStill ==
  ASSUME TypeOK, Take
  PROVE  /\ DOMAIN walks = {}
         /\ due' = due \cup Waiting(Head(changes).sig, Head(changes).old, value'[Head(changes).sig])
BY DEF Take

LEMMA DoneStill ==
  ASSUME TypeOK, Steady, WalkDone
  PROVE  /\ \A k \in 1 .. Len(walks) - 1 : Still(k)
         /\ due' = due
<1> DEFINE outer == SubSeq(walks, 1, Len(walks) - 1)
<1>0. walks \in Seq(Walks) /\ value \in [Names -> Bit] /\ walks # <<>>
  BY DEF TypeOK, WalkDone
<1>1. /\ outer \in Seq(Walks) /\ DOMAIN outer = 1 .. Len(walks) - 1
      /\ \A k \in 1 .. Len(walks) - 1 : outer[k] = walks[k]
  <2>1. Len(walks) \in Nat /\ Len(walks) # 0
    BY <1>0
  <2>2. outer = [k \in 1 .. Len(walks) - 1 |-> walks[k]]
    BY <1>0, <2>1
  <2>3. \A k \in 1 .. Len(walks) - 1 : walks[k] \in Walks
    BY <1>0
  <2> HIDE DEF outer
  <2> QED
    BY <2>1, <2>2, <2>3
<1>2. \A k \in 1 .. Len(walks) - 1 : walks[k].sig # Top.sig
  BY <1>0 DEF Steady, Top
<1>3. due' = due
  BY DEF WalkDone
<1>4. CASE Top.sig \in Events
  <2>1. walks' = Freed(Top.sig, outer) /\ value' = [value EXCEPT ![Top.sig] = "0"]
    BY <1>4 DEF WalkDone
  <2> HIDE DEF outer
  <2>2. \A k \in 1 .. Len(walks) - 1 : walks'[k].fresh = walks[k].fresh
    BY <1>1, <1>2, <2>1, FreedType
  <2> QED
    BY <1>0, <1>2, <1>3, <2>1, <2>2 DEF Still
<1>5. CASE Top.sig \notin Events
  <2>1. walks' = outer /\ value' = value
    BY <1>5 DEF WalkDone
  <2> HIDE DEF outer
  <2> QED
    BY <1>1, <1>3, <2>1 DEF Still
<1> QED
  BY <1>4, <1>5

\* The innermost walk stays for the value it announced.
LEMMA TopStill ==
  ASSUME TypeOK, Start \/ Pass \/ Wake \/ BodyDone
  PROVE  /\ walks # <<>> /\ Len(walks) \in DOMAIN walks /\ DOMAIN walks' = DOMAIN walks
         /\ walks[Len(walks)] = Top /\ walks'[Len(walks)] = Top'
         /\ \A k \in DOMAIN walks : walks'[k].sig = walks[k].sig /\ walks'[k].old = walks[k].old
         /\ \A k \in DOMAIN walks : k # Len(walks) => walks'[k].slot = walks[k].slot
         /\ \A k \in DOMAIN walks : walks[k].fresh => walks'[k].fresh
         /\ UNCHANGED value
<1>1. walks # <<>> /\ Len(walks) \in DOMAIN walks /\ walks[Len(walks)] = Top
  BY TopType DEF Start, Pass, Wake, BodyDone, AtSlot, Top
<1>2. /\ DOMAIN walks' = DOMAIN walks /\ Len(walks') = Len(walks)
      /\ Top'.sig = Top.sig /\ Top'.old = Top.old /\ (Top.fresh => Top'.fresh)
      /\ \A k \in DOMAIN walks : k # Len(walks) => walks'[k] = walks[k]
  BY StartMoves, PassMoves, WakeMoves, BodyMoves
<1>3. walks'[Len(walks)] = Top'
  BY <1>2 DEF Top
<1>4. UNCHANGED value
  BY DEF Start, Pass, Wake, BodyDone
<1>5. ASSUME NEW k \in DOMAIN walks
      PROVE  /\ walks'[k].sig = walks[k].sig /\ walks'[k].old = walks[k].old
             /\ walks[k].fresh => walks'[k].fresh
  <2>1. CASE k = Len(walks)
    BY <1>1, <1>2, <1>3, <2>1
  <2>2. CASE k # Len(walks)
    BY <1>2, <2>2
  <2> QED
    BY <2>1, <2>2
<1> QED
  BY <1>1, <1>2, <1>3, <1>4, <1>5

LEMMA SteadyStep ==
  ASSUME TypeOK, Untouched, Steady, [Next]_vars
  PROVE  Steady'
<1>0. walks \in Seq(Walks) /\ walks' \in Seq(Walks)
  BY TypeCorrectStep DEF TypeOK
<1>1. CASE Quiet /\ \A k \in DOMAIN walks : Still(k)
  <2>1. DOMAIN walks' = DOMAIN walks
    BY <1>0, <1>1 DEF Quiet
  <2> QED
    BY <1>1, <2>1 DEF Quiet, Kept, Still, Steady
<1>2. ASSUME NEW n, NEW old, Pushed(n, old), \A k \in DOMAIN walks : Still(k) /\ walks[k].sig # n
      PROVE  Steady'
  <2>1. DOMAIN walks' = DOMAIN walks \cup {Len(walks) + 1}
    BY <1>0, <1>2 DEF Pushed
  <2>2. walks'[Len(walks) + 1].sig = n /\ walks'[Len(walks) + 1].fresh
    BY <1>2 DEF Pushed, Walk
  <2>3. \A k \in DOMAIN walks : walks'[k].sig = walks[k].sig /\ walks'[k].fresh
    BY <1>2 DEF Pushed, Kept, Still, Steady
  <2> QED
    BY <1>2, <2>1, <2>2, <2>3 DEF Steady
<1>3. CASE \E s \in Statements : Join(s)
  BY <1>3 DEF Join, Steady
<1>4. CASE Start \/ Pass \/ Wake \/ BodyDone
  BY <1>4, TopStill DEF Steady
<1>5. CASE WalkDone
  <2>1. DOMAIN walks' = 1 .. Len(walks) - 1 /\ 1 .. Len(walks) - 1 \subseteq DOMAIN walks
    BY <1>0, <1>5, Popped
  <2>2. \A k \in 1 .. Len(walks) - 1 : walks'[k].sig = walks[k].sig /\ walks'[k].fresh = walks[k].fresh
    BY <1>5, Popped, DoneStill DEF Kept, Still
  <2> QED
    BY <2>1, <2>2 DEF Steady
<1> QED
  BY <1>1, <1>2, <1>3, <1>4, <1>5, QuietSteps, QuietStill, TriggerPushes, TriggerStill,
     TakePushes, TakeStill DEF Next, Statement, WalkStep, Batch

LEMMA WaitingOne ==
  ASSUME TypeOK, NEW n, NEW o, NEW v, NEW i
  PROVE  i \in Waiting(n, o, v) <=>
           \E j \in DOMAIN waiters : /\ waiters[j].id = i
                                     /\ waiters[j].stmt.kind = "at"
                                     /\ n \in waiters[j].stmt.on
                                     /\ Matches(waiters[j].stmt.edge, o, v)
BY DEF Waiting

\* A statement whose slot is passed does not wait for what the walk announces.
LEMMA PassedBy ==
  ASSUME TypeOK, Steady, Pass
  PROVE  ~Awaits(Top.slot, Len(walks))
<1>1. walks[Len(walks)] = Top /\ Len(walks) \in DOMAIN walks
  BY TopStill
<1>2. Top.fresh
  BY <1>1 DEF Steady
<1>3. ~Fires(waiters[Top.slot].stmt, Top, value[Top.sig])
  BY <1>2 DEF Pass, Shown
<1> QED
  BY <1>1, <1>3 DEF Awaits, Fires

\* A statement that is woken for an edge does.
LEMMA WokenAwaits ==
  ASSUME TypeOK, Steady, Wake, waiters[Top.slot].stmt.kind = "at"
  PROVE  Awaits(Top.slot, Len(walks))
<1>1. walks[Len(walks)] = Top /\ Len(walks) \in DOMAIN walks
  BY TopStill
<1>2. Top.fresh /\ Top.slot <= Top.slot
  BY <1>1, TopType DEF Steady
<1>3. Fires(waiters[Top.slot].stmt, Top, value[Top.sig])
  BY <1>2 DEF Wake, Shown
<1> QED
  BY <1>1, <1>2, <1>3 DEF Awaits, Fires

LEMMA DueAheadStep ==
  ASSUME TypeOK, Calm, Untouched, Nesting, Membership, Steady, DueAhead, [Next]_vars
  PROVE  DueAhead'
<1>0. /\ walks \in Seq(Walks) /\ walks' \in Seq(Walks)
      /\ waiters \in Seq(Entries) /\ waiters' \in Seq(Entries)
  BY TypeCorrectStep, WaitersType DEF TypeOK, Entries
<1>1. CASE Quiet /\ (\A k \in DOMAIN walks : Still(k)) /\ due' = due
  <2>1. DOMAIN walks' = DOMAIN walks
    BY <1>0, <1>1 DEF Quiet
  <2>2. \A j, k : k \in DOMAIN walks /\ Awaits(j, k) => Awaits(j, k)'
    BY <1>1 DEF Quiet, Kept, Still, Awaits
  <2> QED
    BY <1>1, <2>1, <2>2 DEF Quiet, DueAhead
<1>2. ASSUME NEW n, NEW old, Pushed(n, old), \A k \in DOMAIN walks : Still(k) /\ walks[k].sig # n,
             due' = due \cup Waiting(n, old, value'[n]), walks # <<>> => Top.slot = 0 /\ Top.who = 0
      PROVE  DueAhead'
  <2>0. DOMAIN walks' = DOMAIN walks \cup {Len(walks) + 1}
    BY <1>0, <1>2 DEF Pushed
  <2>1. PICK m \in DOMAIN walks' : m = Len(walks) + 1 /\ DOMAIN walks \subseteq DOMAIN walks'
    BY <2>0
  <2>2. \A j, k : k \in DOMAIN walks /\ Awaits(j, k) => Awaits(j, k)'
    BY <1>2 DEF Pushed, Kept, Still, Awaits
  <2>3. \A j \in DOMAIN waiters :
          /\ waiters[j].stmt.kind = "at" /\ n \in waiters[j].stmt.on
          /\ Matches(waiters[j].stmt.edge, old, value'[n])
          => Awaits(j, m)'
    <3>1. \A j \in DOMAIN waiters : 0 <= j
      BY <1>0
    <3>2. walks'[m].sig = n /\ walks'[m].old = old /\ walks'[m].slot = 0 /\ waiters' = waiters
      BY <1>2, <2>1 DEF Pushed, Walk
    <3> TAKE j \in DOMAIN waiters
    <3> HAVE /\ waiters[j].stmt.kind = "at" /\ n \in waiters[j].stmt.on
             /\ Matches(waiters[j].stmt.edge, old, value'[n])
    <3>3. Matches(waiters'[j].stmt.edge, walks'[m].old, value'[walks'[m].sig])
      BY <3>2, Zenon
    <3> QED
      BY <3>1, <3>2, <3>3 DEF Awaits
  <2>4. \A j \in DOMAIN waiters : waiters[j].id \notin woken
    BY <1>2, NobodyAwake
  <2>5. waiters' = waiters /\ woken' = woken
    BY <1>2 DEF Pushed
  <2>6. ASSUME NEW i \in Waiting(n, old, value'[n])
        PROVE  i \notin woken /\ \E j \in DOMAIN waiters, k \in DOMAIN walks' :
                 waiters[j].id = i /\ Awaits(j, k)'
    <3>1. PICK j \in DOMAIN waiters : waiters[j].id = i /\ Awaits(j, m)'
      BY <2>3, <2>6, WaitingOne
    <3>2. i \notin woken
      BY <2>4, <3>1
    <3>3. m \in DOMAIN walks'
      BY <2>1
    <3> QED
      BY <3>1, <3>2, <3>3
  <2>7. ASSUME NEW i \in due
        PROVE  i \notin woken /\ \E j \in DOMAIN waiters, k \in DOMAIN walks' :
                 waiters[j].id = i /\ Awaits(j, k)'
    BY <2>1, <2>2 DEF DueAhead
  <2> QED
    BY <1>2, <2>5, <2>6, <2>7 DEF DueAhead
<1>3. ASSUME NEW s \in Statements, Join(s) PROVE DueAhead'
  <2>1. /\ DOMAIN waiters \subseteq DOMAIN waiters'
        /\ \A j \in DOMAIN waiters : waiters'[j] = waiters[j]
    BY <1>0, <1>3 DEF Join
  <2>2. UNCHANGED <<walks, value, due, woken>>
    BY <1>3 DEF Join
  <2>3. \A j \in DOMAIN waiters, k \in DOMAIN walks : Awaits(j, k) => Awaits(j, k)'
    BY <2>1, <2>2 DEF Awaits
  <2> QED
    BY <2>1, <2>2, <2>3 DEF DueAhead
<1>4. CASE Start
  <2>1. UNCHANGED <<waiters, due, woken>>
    BY <1>4 DEF Start
  <2>2. \A j \in DOMAIN waiters : 1 <= j
    BY <1>0
  <2>3. Top'.slot = 1
    BY <1>4, StartMoves
  <2>4. \A j \in DOMAIN waiters, k \in DOMAIN walks : Awaits(j, k) => Awaits(j, k)'
    BY <1>4, <2>1, <2>2, <2>3, TopStill DEF Awaits
  <2> QED
    BY <1>4, <2>1, <2>4, TopStill DEF DueAhead
<1>5. CASE Pass
  <2>1. UNCHANGED <<waiters, due, woken>>
    BY <1>5 DEF Pass
  <2>2. Top'.slot = Top.slot + 1 /\ Top.slot \in Nat
    BY <1>5, PassMoves, TopType
  <2>3. \A j \in DOMAIN waiters : j # Top.slot /\ Top.slot <= j => Top.slot + 1 <= j
    BY <1>0, <2>2
  <2>4. \A j \in DOMAIN waiters, k \in DOMAIN walks : Awaits(j, k) => Awaits(j, k)'
    BY <1>5, <2>1, <2>2, <2>3, PassedBy, TopStill DEF Awaits
  <2> QED
    BY <1>5, <2>1, <2>4, TopStill DEF DueAhead
<1>6. CASE Wake
  <2>1. UNCHANGED waiters /\ Top'.slot = Top.slot
    BY <1>6, WakeMoves DEF Wake
  <2>2. \A j \in DOMAIN waiters, k \in DOMAIN walks : Awaits(j, k) => Awaits(j, k)'
    BY <1>6, <2>1, TopStill DEF Awaits
  <2>3. \A i \in due' : i \in due /\ (i \notin woken => i \notin woken')
    BY <1>6 DEF Wake
  <2> QED
    BY <1>6, <2>1, <2>2, <2>3, TopStill DEF DueAhead
<1>7. CASE BodyDone
  <2>1. UNCHANGED <<due, woken>> /\ Top.who # 0 /\ Top'.slot = Top.slot /\ walks # <<>>
    BY <1>7, BodyMoves DEF BodyDone
  <2>2. Top.who \in woken
    BY <2>1 DEF Membership
  <2>3. ASSUME NEW i \in due
        PROVE  \E j \in DOMAIN waiters', k \in DOMAIN walks' : waiters'[j].id = i /\ Awaits(j, k)'
    <3>1. PICK j \in DOMAIN waiters, k \in DOMAIN walks : waiters[j].id = i /\ Awaits(j, k)
      BY DEF DueAhead
    <3>2. waiters[j].id # Top.who
      BY <2>2, <3>1 DEF DueAhead
    <3>3. PICK l \in DOMAIN waiters' : waiters'[l] = waiters[j] /\ (l = j \/ (l = Top.slot /\ l <= j))
      BY <1>7, <3>2, BodyRemoves
    <3>4. walks'[k].slot <= l
      <4>1. CASE k = Len(walks)
        <5>1. walks'[k].slot = Top.slot /\ Top.slot \in Nat /\ Top.slot <= j
          BY <1>7, <2>1, <3>1, <4>1, TopStill, TopType DEF Awaits
        <5> QED
          BY <3>3, <5>1
      <4>2. CASE k # Len(walks)
        <5>1. walks'[k].slot = 0
          BY <1>7, <4>2, TopStill DEF Nesting
        <5>2. l \in Nat
          BY <1>0
        <5> QED
          BY <5>1, <5>2
      <4> QED
        BY <4>1, <4>2
    <3>5. Awaits(l, k)'
      BY <1>7, <3>1, <3>3, <3>4, TopStill DEF Awaits
    <3> QED
      BY <1>7, <3>1, <3>3, <3>5, TopStill
  <2> QED
    BY <2>1, <2>3 DEF DueAhead
<1>8. CASE WalkDone
  <2>1. UNCHANGED <<waiters, due, woken>> /\ Top.slot > Len(waiters) /\ walks # <<>>
    BY <1>8 DEF WalkDone
  <2>2. DOMAIN walks' = 1 .. Len(walks) - 1 /\ DOMAIN walks = 1 .. Len(walks) /\ Len(walks) \in Nat
    BY <1>0, <1>8, Popped
  <2>3. \A j \in DOMAIN waiters, k \in DOMAIN walks : Awaits(j, k) => k \in DOMAIN walks'
    <3>1. \A j \in DOMAIN waiters : ~(Top.slot <= j)
      BY <1>0, <2>1, TopType
    <3> QED
      BY <2>2, <3>1 DEF Awaits, Top
  <2>4. \A j \in DOMAIN waiters, k \in DOMAIN walks' : Awaits(j, k) => Awaits(j, k)'
    BY <1>8, <2>1, <2>2, Popped, DoneStill DEF Awaits, Kept, Still
  <2> QED
    BY <2>1, <2>3, <2>4 DEF DueAhead
<1> QED
  BY <1>1, <1>2, <1>3, <1>4, <1>5, <1>6, <1>7, <1>8, QuietSteps, QuietStill, TriggerPushes,
     TriggerStill, TakePushes, TakeStill, PushedOutside DEF Next, Statement, WalkStep, Batch

Unjoined == "rejoin" \notin habits

LEMMA AheadDueStep ==
  ASSUME TypeOK, Calm, Untouched, Unjoined, Nesting, Membership, Steady, AheadDue, [Next]_vars
  PROVE  AheadDue'
<1>0. /\ walks \in Seq(Walks) /\ walks' \in Seq(Walks)
      /\ waiters \in Seq(Entries) /\ waiters' \in Seq(Entries)
  BY TypeCorrectStep, WaitersType DEF TypeOK, Entries
<1>1. CASE Quiet /\ (\A k \in DOMAIN walks : Still(k)) /\ due' = due
  <2>1. DOMAIN walks' = DOMAIN walks
    BY <1>0, <1>1 DEF Quiet
  <2>2. \A j, k : k \in DOMAIN walks /\ Awaits(j, k)' => Awaits(j, k)
    BY <1>1 DEF Quiet, Kept, Still, Awaits
  <2> QED
    BY <1>1, <2>1, <2>2 DEF Quiet, AheadDue
<1>2. ASSUME NEW n, NEW old, Pushed(n, old), \A k \in DOMAIN walks : Still(k) /\ walks[k].sig # n,
             due' = due \cup Waiting(n, old, value'[n])
      PROVE  AheadDue'
  <2>0. DOMAIN walks' = DOMAIN walks \cup {Len(walks) + 1}
    BY <1>0, <1>2 DEF Pushed
  <2>1. PICK m \in DOMAIN walks' : m = Len(walks) + 1 /\ DOMAIN walks' = DOMAIN walks \cup {m}
    BY <2>0
  <2>2. \A j, k : k \in DOMAIN walks /\ Awaits(j, k)' => Awaits(j, k)
    BY <1>2 DEF Pushed, Kept, Still, Awaits
  <2>3. waiters' = waiters /\ woken' = woken /\ walks'[m].sig = n /\ walks'[m].old = old
    BY <1>2, <2>1 DEF Pushed, Walk
  <2>4. ASSUME NEW j \in DOMAIN waiters, Awaits(j, m)'
        PROVE  waiters[j].id \in due'
    <3>1. Matches(waiters'[j].stmt.edge, walks'[m].old, value'[walks'[m].sig])
      BY <2>4 DEF Awaits
    <3>2. Matches(waiters[j].stmt.edge, old, value'[n])
      BY <2>3, <3>1, Zenon
    <3>3. waiters[j].id \in Waiting(n, old, value'[n])
      BY <2>3, <2>4, <3>2, WaitingOne DEF Awaits
    <3> QED
      BY <1>2, <3>3
  <2>5. ASSUME NEW j \in DOMAIN waiters, NEW k \in DOMAIN walks, Awaits(j, k)',
               waiters[j].id \notin woken
        PROVE  waiters[j].id \in due'
    BY <1>2, <2>2, <2>5 DEF AheadDue
  <2> QED
    BY <2>1, <2>3, <2>4, <2>5 DEF AheadDue
<1>3. ASSUME NEW s \in Statements, Join(s) PROVE AheadDue'
  <2>1. PICK l \in DOMAIN waiters' :
          /\ DOMAIN waiters' = DOMAIN waiters \cup {l} /\ waiters'[l].stmt = s
          /\ \A j \in DOMAIN waiters : waiters'[j] = waiters[j]
    <3> DEFINE x == [id |-> arrived + 1, stmt |-> s]
    <3>1. waiters' = Append(waiters, x) /\ x.stmt = s
      BY <1>3 DEF Join
    <3> HIDE DEF x
    <3>2. /\ DOMAIN waiters' = DOMAIN waiters \cup {Len(waiters) + 1}
          /\ waiters'[Len(waiters) + 1] = x
          /\ \A j \in DOMAIN waiters : waiters'[j] = waiters[j]
      BY <1>0, <3>1
    <3> QED
      BY <3>1, <3>2
  <2>2. UNCHANGED <<walks, value, due, woken>>
    BY <1>3 DEF Join
  <2>3. s.kind = "at" => \A k \in DOMAIN walks : walks[k].sig \notin s.on
    BY <1>3 DEF Join, Unjoined, UnderWay
  <2>4. \A k \in DOMAIN walks : ~Awaits(l, k)'
    BY <2>1, <2>2, <2>3 DEF Awaits
  <2>5. \A j \in DOMAIN waiters, k \in DOMAIN walks : Awaits(j, k)' => Awaits(j, k)
    BY <2>1, <2>2 DEF Awaits
  <2> QED
    BY <2>1, <2>2, <2>4, <2>5 DEF AheadDue
<1>4. CASE Start \/ Pass
  <2>1. UNCHANGED <<waiters, due, woken>>
    BY <1>4 DEF Start, Pass
  <2>2. Top.slot \in Nat /\ ((Top'.slot = 1 /\ Top.slot = 0) \/ Top'.slot = Top.slot + 1)
    BY <1>4, StartMoves, PassMoves, TopType, TopStill
  <2>3. \A j \in DOMAIN waiters : Top'.slot <= j => Top.slot <= j
    BY <1>0, <2>2
  <2>4. \A j \in DOMAIN waiters, k \in DOMAIN walks : Awaits(j, k)' => Awaits(j, k)
    BY <1>4, <2>1, <2>3, TopStill DEF Awaits
  <2> QED
    BY <1>4, <2>1, <2>4, TopStill DEF AheadDue
<1>5. CASE Wake
  <2>1. UNCHANGED waiters /\ Top'.slot = Top.slot /\ Top.slot \in DOMAIN waiters
    BY <1>5, WakeMoves DEF Wake
  <2>2. \A j \in DOMAIN waiters, k \in DOMAIN walks : Awaits(j, k)' => Awaits(j, k)
    BY <1>5, <2>1, TopStill DEF Awaits
  <2>3. woken' = woken \cup {waiters[Top.slot].id} /\ due' = due \ {waiters[Top.slot].id}
    BY <1>5 DEF Wake
  <2> QED
    BY <1>5, <2>1, <2>2, <2>3, TopStill DEF AheadDue
<1>6. CASE BodyDone
  <2>1. UNCHANGED <<due, woken>> /\ Top'.slot = Top.slot /\ Top.slot \in Nat
    BY <1>6, BodyMoves, TopType DEF BodyDone
  <2>2. ASSUME NEW i \in DOMAIN waiters', NEW k \in DOMAIN walks', Awaits(i, k)',
               waiters'[i].id \notin woken
        PROVE  waiters'[i].id \in due
    <3>1. PICK j \in DOMAIN waiters : waiters'[i] = waiters[j] /\ (j = i \/ (i = Top.slot /\ i <= j))
      BY <1>6, BodyRemoves
    <3>2. walks[k].slot <= i
      BY <1>6, <2>1, <2>2, TopStill DEF Awaits
    <3>3. walks[k].slot <= j
      <4>1. i \in Nat /\ j \in Nat /\ walks[k] \in Walks
        BY <1>0, <1>6, TopStill
      <4>2. walks[k].slot \in Nat
        BY <4>1 DEF Walks
      <4> QED
        BY <3>1, <3>2, <4>1, <4>2
    <3>4. Awaits(j, k)
      BY <1>6, <2>2, <3>1, <3>3, TopStill DEF Awaits
    <3> QED
      BY <1>6, <2>2, <3>1, <3>4, TopStill DEF AheadDue
  <2> QED
    BY <2>1, <2>2 DEF AheadDue
<1>7. CASE WalkDone
  <2>1. UNCHANGED <<waiters, due, woken>>
    BY <1>7 DEF WalkDone
  <2>2. DOMAIN walks' = 1 .. Len(walks) - 1 /\ DOMAIN walks' \subseteq DOMAIN walks
    BY <1>0, <1>7, Popped
  <2>3. \A j \in DOMAIN waiters, k \in DOMAIN walks' : Awaits(j, k)' => Awaits(j, k)
    BY <1>7, <2>1, <2>2, Popped, DoneStill DEF Awaits, Kept, Still
  <2> QED
    BY <2>1, <2>2, <2>3 DEF AheadDue
<1> QED
  BY <1>1, <1>2, <1>3, <1>4, <1>5, <1>6, <1>7, QuietSteps, QuietStill, TriggerPushes,
     TriggerStill, TakePushes, TakeStill DEF Next, Statement, WalkStep, Batch

EdgesServed == Calm /\ Untouched => Steady /\ DueAhead
EdgesAwaited == Calm /\ Untouched /\ Unjoined => AheadDue

LEMMA EdgesAlways == Spec => [](TypeOK /\ OnTheList /\ EdgesServed /\ EdgesAwaited)
<1>1. TypeOK /\ OnTheList /\ EdgesServed /\ [Next]_vars => EdgesServed'
  BY CalmStays, SteadyStep, DueAheadStep DEF OnTheList, EdgesServed, Calm, Untouched
<1>2. TypeOK /\ OnTheList /\ EdgesServed /\ EdgesAwaited /\ [Next]_vars => EdgesAwaited'
  BY CalmStays, AheadDueStep DEF OnTheList, EdgesServed, EdgesAwaited, Calm, Untouched, Unjoined
<1>3. Init => EdgesServed /\ EdgesAwaited
  BY DEF Init, EdgesServed, EdgesAwaited, Steady, DueAhead, AheadDue
<1> QED
  BY <1>1, <1>2, <1>3, OnTheListAlways, PTL DEF Spec

\* As long as no woken body triggers an event, a walk of check_waiters_on_change
\* wakes every statement that waited for its edge when it set out, unless the
\* signal of the walk is overwritten: none is passed over when the last statement
\* moves into a freed slot, or when a body lets others join.
THEOREM NoneSleepsOn == Spec => [](Calm => AllDueWoken)
<1>1. TypeOK /\ EdgesServed => (Calm => AllDueWoken)
  BY DEF EdgesServed, AllDueWoken, DueAhead, Untouched
<1> QED
  BY <1>1, EdgesAlways, PTL

\* As long as no woken body triggers an event, check_waiters_on_change wakes for an
\* edge only who waited for it when it was announced: who begins to wait behind it
\* is not woken by it, unless what runs under the walk waits for the same signal.
THEOREM OnlyByCause == Spec /\ Calm => WokenByCause
<1> DEFINE ByCause == /\ habits \cap {"rejoin", "overwrite"} = {}
                      /\ woken' # woken
                      /\ waiters[Top.slot].stmt.kind = "at"
                      => waiters[Top.slot].id \in due
<1>1. TypeOK /\ OnTheList /\ EdgesServed /\ EdgesAwaited /\ Calm /\ [Next]_vars => [ByCause]_vars
  <2> SUFFICES ASSUME TypeOK, OnTheList, EdgesServed, EdgesAwaited, Calm, [Next]_vars,
                      habits \cap {"rejoin", "overwrite"} = {}, woken' # woken,
                      waiters[Top.slot].stmt.kind = "at"
               PROVE  waiters[Top.slot].id \in due
    OBVIOUS
  <2>1. Nesting /\ Membership /\ Steady /\ AheadDue
    BY DEF OnTheList, EdgesServed, EdgesAwaited, Untouched, Unjoined
  <2>2. Wake
    BY DEF Next, Statement, WalkStep, Batch, Join, Assign, Drive, Trigger, Start, Pass, BodyDone,
           WalkDone, Begin, Note, End, Take, NextPhase, Apply, Resolve, vars
  <2>3. Awaits(Top.slot, Len(walks))
    BY <2>1, <2>2, WokenAwaits
  <2>4. /\ Top.slot \in DOMAIN waiters /\ Len(walks) \in DOMAIN walks
        /\ waiters[Top.slot].id \notin woken
    BY <2>1, <2>2, WakeMoves, TopType, NobodyAwake
  <2> QED
    BY <2>1, <2>3, <2>4 DEF AheadDue
<1>2. ByCause <=> (/\ habits \cap {"rejoin", "overwrite"} = {}
                   /\ woken' # woken
                   /\ waiters[Top.slot].stmt.kind = "at"
                   => waiters[Top.slot].id \in due)
  OBVIOUS
<1>3. TypeOK /\ Calm /\ [Next]_vars => Calm'
  BY CalmStays DEF Calm
<1> HIDE DEF Calm
<1> QED
  BY <1>1, <1>3, EdgesAlways, PTL DEF Spec, WokenByCause
-----------------------------------------------------------------------------
(* A wait whose condition holds has something to wake it.                   *)

Sigs(q) == {q[k].sig : k \in DOMAIN q}

\* Signals whose change is still to be walked for, or never will be.
Pending == missed \cup Sigs(changes) \cup Sigs(recorded)

\* j waits for a condition that holds.
Ready(j) ==
  /\ waiters[j].stmt.kind = "wait"
  /\ Holds(waiters[j].stmt)
  /\ waiters[j].id \notin woken

\* A change of one of its signals is on a list, was missed, or is announced by a
\* walk that j is ahead of.
Covered(j) ==
  \/ waiters[j].stmt.on \cap Pending # {}
  \/ \E k \in DOMAIN walks : walks[k].sig \in waiters[j].stmt.on /\ walks[k].slot <= j

WaitAhead == \A j \in DOMAIN waiters : Ready(j) => Covered(j)

\* Between statement events nothing is recorded.
NotRecorded == event = "none" => recorded = <<>>

LEMMA SigsOfAppend ==
  ASSUME NEW q \in Seq(Changes), NEW x \in Changes
  PROVE  Sigs(Append(q, x)) = Sigs(q) \cup {x.sig}
<1> DEFINE p == Append(q, x)
<1>1. /\ DOMAIN p = DOMAIN q \cup {Len(q) + 1} /\ p[Len(q) + 1] = x
      /\ \A k \in DOMAIN q : p[k] = q[k]
  OBVIOUS
<1> HIDE DEF p
<1>2. Sigs(p) = Sigs(q) \cup {x.sig}
  BY <1>1 DEF Sigs
<1> QED
  BY <1>2 DEF p

LEMMA SigsOfTail ==
  ASSUME NEW q \in Seq(Changes), q # <<>>
  PROVE  Sigs(q) = {Head(q).sig} \cup Sigs(Tail(q))
<1> DEFINE p == Tail(q)
<1>1. /\ Len(q) \in Nat /\ Len(q) # 0 /\ DOMAIN q = 1 .. Len(q) /\ Head(q) = q[1]
      /\ DOMAIN p = 1 .. Len(q) - 1
      /\ \A k \in 1 .. Len(q) - 1 : p[k] = q[k + 1]
  OBVIOUS
<1> HIDE DEF p
<1>2. \A k \in DOMAIN q : k = 1 \/ (k - 1 \in DOMAIN p /\ q[k] = p[k - 1])
  BY <1>1
<1>3. \A k \in DOMAIN p : k + 1 \in DOMAIN q /\ q[k + 1] = p[k]
  BY <1>1
<1>4. 1 \in DOMAIN q
  BY <1>1
<1>5. Sigs(q) = {q[1].sig} \cup Sigs(p)
  BY <1>2, <1>3, <1>4 DEF Sigs
<1> QED
  BY <1>1, <1>5 DEF p

\* Whoever is ready was before, or something it waits on has changed.
LEMMA ReadyBefore ==
  ASSUME TypeOK, NEW i \in DOMAIN waiters', NEW j \in DOMAIN waiters,
         waiters'[i] = waiters[j], woken \subseteq woken', Ready(i)',
         \A n \in waiters[j].stmt.on : value'[n] = value[n]
  PROVE  Ready(j)
<1> DEFINE s == waiters[j].stmt
<1>1. s.kind = "wait" /\ waiters[j].id \notin woken
  BY DEF Ready
<1>2. [n \in waiters'[i].stmt.on |-> value'[n]] \in waiters'[i].stmt.goal
  BY DEF Ready, Holds
<1>3. [n \in s.on |-> value'[n]] \in s.goal
  BY <1>2, Zenon
<1>4. [n \in s.on |-> value'[n]] = [n \in s.on |-> value[n]]
  OBVIOUS
<1>5. [n \in s.on |-> value[n]] \in s.goal
  BY <1>3, <1>4, Zenon
<1> QED
  BY <1>1, <1>5 DEF Ready, Holds

LEMMA ReadyOnSignals ==
  ASSUME TypeOK, NEW j \in DOMAIN waiters, waiters[j].stmt.kind = "wait"
  PROVE  waiters[j].stmt.on \subseteq Signals
BY WaitersType, StatementFields

\* A signal that changes is pending, or a walk for it begins; and it is pending
\* until then.
LEMMA ChangesPending ==
  ASSUME TypeOK,
         \/ \E n \in Signals, v \in Bit : Assign(n, v) \/ Drive(n, v) \/ Apply(n, v) \/ Resolve(n, v)
         \/ Begin \/ Note \/ End \/ NextPhase \/ UNCHANGED vars
  PROVE  /\ Pending \subseteq Pending'
         /\ \A n \in Signals : value'[n] # value[n] => n \in Pending'
<1>0. /\ value \in [Names -> Bit] /\ recorded \in Seq(Changes) /\ changes \in Seq(Changes)
      /\ Signals \subseteq Names
  BY DEF TypeOK, Names
<1>1. ASSUME NEW n \in Signals, NEW v \in Bit, Assign(n, v)
      PROVE  Pending \cup {n} \subseteq Pending'
  <2> DEFINE x == [sig |-> n, old |-> value[n]]
  <2>1. x \in Changes /\ x.sig = n
    BY <1>0 DEF Changes
  <2>2. changes' = changes
    BY <1>1 DEF Assign
  <2>3. CASE event = "recorded" /\ IsRecorded(n)
    <3>1. missed' = missed /\ recorded' = recorded
      BY <1>1, <2>3 DEF Assign
    <3>2. n \in Sigs(recorded)
      BY <2>3 DEF IsRecorded, Sigs
    <3> QED
      BY <2>2, <3>1, <3>2 DEF Pending, Sigs
  <2>4. CASE event = "recorded" /\ ~IsRecorded(n)
    <3>1. missed' = missed /\ recorded' = Append(recorded, x)
      BY <1>1, <2>4 DEF Assign
    <3> HIDE DEF x
    <3>2. Sigs(Append(recorded, x)) = Sigs(recorded) \cup {n}
      BY <1>0, <2>1, SigsOfAppend
    <3>3. Sigs(recorded)' = Sigs(recorded) \cup {n}
      BY <3>1, <3>2 DEF Sigs
    <3> QED
      BY <2>2, <3>1, <3>3 DEF Pending, Sigs
  <2>5. CASE event # "recorded"
    <3>1. missed' = missed \cup {n} /\ recorded' = recorded
      BY <1>1, <2>5 DEF Assign
    <3> QED
      BY <2>2, <3>1 DEF Pending, Sigs
  <2> QED
    BY <2>3, <2>4, <2>5
<1>2. ASSUME NEW n \in Signals, NEW v \in Bit, Drive(n, v)
      PROVE  Pending \cup {n} \subseteq Pending'
  BY <1>2 DEF Drive, Pending, Sigs
<1>3. ASSUME NEW n \in Signals, NEW v \in Bit, Noted(n, v), UNCHANGED <<recorded, missed>>
      PROVE  Pending \cup {n} \subseteq Pending'
  <2> DEFINE x == [sig |-> n, old |-> value[n]]
  <2>1. x \in Changes /\ x.sig = n /\ changes' = Append(changes, x)
    BY <1>0, <1>3 DEF Changes, Noted
  <2> HIDE DEF x
  <2>2. Sigs(Append(changes, x)) = Sigs(changes) \cup {n}
    BY <1>0, <2>1, SigsOfAppend
  <2>3. Sigs(changes)' = Sigs(changes) \cup {n}
    BY <2>1, <2>2 DEF Sigs
  <2> QED
    BY <1>3, <2>3 DEF Pending, Sigs
<1>4. ASSUME NEW n \in Signals, NEW v \in Bit,
             Assign(n, v) \/ Drive(n, v) \/ Apply(n, v) \/ Resolve(n, v)
      PROVE  /\ Pending \subseteq Pending'
             /\ \A m \in Signals : value'[m] # value[m] => m \in Pending'
  <2>1. Pending \cup {n} \subseteq Pending'
    BY <1>1, <1>2, <1>3, <1>4 DEF Apply, Resolve
  <2>2. value' = [value EXCEPT ![n] = v]
    BY <1>4 DEF Assign, Drive, Apply, Resolve, Noted
  <2> QED
    BY <1>0, <2>1, <2>2
<1>5. CASE Note
  <2> DEFINE x == Head(recorded)
  <2>1. x \in Changes /\ recorded' = Tail(recorded) /\ value' = value
    BY <1>0, <1>5 DEF Note
  <2>2. Sigs(recorded) = {x.sig} \cup Sigs(recorded)'
    <3>1. Sigs(recorded) = {x.sig} \cup Sigs(Tail(recorded))
      BY <1>0, <1>5, SigsOfTail DEF Note
    <3> QED
      BY <2>1, <3>1 DEF Sigs
  <2>3. CASE Differs(x)
    <3>1. changes' = Append(changes, x) /\ missed' = missed
      BY <1>5, <2>3 DEF Note
    <3> HIDE DEF x
    <3>2. Sigs(Append(changes, x)) = Sigs(changes) \cup {x.sig}
      BY <1>0, <2>1, SigsOfAppend
    <3>3. Sigs(changes)' = Sigs(changes) \cup {x.sig}
      BY <3>1, <3>2 DEF Sigs
    <3> QED
      BY <2>1, <2>2, <3>1, <3>3 DEF Pending
  <2>4. CASE ~Differs(x)
    <3>1. missed' = missed \cup {x.sig} /\ changes' = changes
      BY <1>5, <2>4 DEF Note
    <3>2. Sigs(changes)' = Sigs(changes)
      BY <3>1 DEF Sigs
    <3> HIDE DEF x
    <3> QED
      BY <2>1, <2>2, <3>1, <3>2 DEF Pending
  <2> QED
    BY <2>3, <2>4
<1>6. CASE Begin \/ End \/ NextPhase \/ UNCHANGED vars
  BY <1>6 DEF Begin, End, NextPhase, vars, Pending, Sigs
<1> QED
  BY <1>4, <1>5, <1>6

LEMMA WaitAheadStep ==
  ASSUME TypeOK, Calm, Nesting, Membership, WaitAhead, [Next]_vars
  PROVE  WaitAhead'
<1>0. /\ walks \in Seq(Walks) /\ walks' \in Seq(Walks)
      /\ waiters \in Seq(Entries) /\ waiters' \in Seq(Entries)
  BY TypeCorrectStep, WaitersType DEF TypeOK, Entries
<1>1. ASSUME Quiet, Pending \subseteq Pending',
             \A n \in Signals : value'[n] # value[n] => n \in Pending'
      PROVE  WaitAhead'
  <2>1. DOMAIN walks' = DOMAIN walks /\ UNCHANGED <<waiters, woken>>
    BY <1>0, <1>1 DEF Quiet
  <2>2. ASSUME NEW j \in DOMAIN waiters, Ready(j)' PROVE Covered(j)'
    <3>1. waiters[j].stmt.on \subseteq Signals
      BY <2>1, <2>2, ReadyOnSignals DEF Ready
    <3>2. CASE \A n \in waiters[j].stmt.on : value'[n] = value[n]
      <4>1. Covered(j)
        BY <2>1, <2>2, <3>2, ReadyBefore DEF WaitAhead
      <4> QED
        BY <1>1, <2>1, <4>1 DEF Covered, Quiet, Kept
    <3>3. CASE \E n \in waiters[j].stmt.on : value'[n] # value[n]
      BY <1>1, <2>1, <3>1, <3>3 DEF Covered
    <3> QED
      BY <3>2, <3>3
  <2> QED
    BY <2>1, <2>2 DEF WaitAhead
<1>2. ASSUME NEW n, NEW old, Pushed(n, old), Pending \subseteq Pending' \cup {n},
             \A m \in Signals : value'[m] = value[m]
      PROVE  WaitAhead'
  <2>1. UNCHANGED <<waiters, woken>>
    BY <1>2 DEF Pushed
  <2>2. PICK m \in DOMAIN walks' : m = Len(walks) + 1 /\ DOMAIN walks' = DOMAIN walks \cup {m}
    BY <1>0, <1>2 DEF Pushed
  <2>3. walks'[m].sig = n /\ walks'[m].slot = 0
    BY <1>2, <2>2 DEF Pushed, Walk
  <2>4. ASSUME NEW j \in DOMAIN waiters, Ready(j)' PROVE Covered(j)'
    <3>1. \A q \in waiters[j].stmt.on : value'[q] = value[q]
      BY <1>2, <2>1, <2>4, ReadyOnSignals DEF Ready
    <3>2. Covered(j)
      BY <2>1, <2>4, <3>1, ReadyBefore DEF WaitAhead
    <3>3. CASE n \in waiters[j].stmt.on
      <4>1. 0 <= j
        BY <1>0
      <4> QED
        BY <2>1, <2>2, <2>3, <3>3, <4>1 DEF Covered
    <3>4. CASE n \notin waiters[j].stmt.on
      BY <1>2, <2>1, <2>2, <3>2, <3>4 DEF Covered, Pushed, Kept
    <3> QED
      BY <3>3, <3>4
  <2> QED
    BY <2>1, <2>4 DEF WaitAhead
<1>3. ASSUME NEW n \in Events, Trigger(n) PROVE WaitAhead'
  <2>1. Pending' = Pending /\ value' = [value EXCEPT ![n] = "1"] /\ n \notin Signals
    BY <1>3, WaitersAssumption DEF Trigger, Pending, Sigs
  <2>2. \A m \in Signals : value'[m] = value[m]
    BY <2>1 DEF TypeOK, Names
  <2> QED
    BY <1>2, <1>3, <2>1, <2>2, TriggerPushes
<1>4. CASE Take
  <2> DEFINE c == Head(changes)
  <2>1. /\ changes \in Seq(Changes) /\ changes # <<>> /\ changes' = Tail(changes)
        /\ missed' = missed \ {c.sig} /\ recorded' = recorded /\ value' = value
    BY <1>4 DEF Take, TypeOK
  <2>2. Sigs(changes) = {c.sig} \cup Sigs(Tail(changes))
    BY <2>1, SigsOfTail
  <2>3. Pending \subseteq Pending' \cup {c.sig}
    <3> HIDE DEF c
    <3> QED
      BY <2>1, <2>2 DEF Pending, Sigs
  <2> QED
    BY <1>2, <1>4, <2>1, <2>3, TakePushes
<1>5. ASSUME NEW s \in Statements, Join(s) PROVE WaitAhead'
  <2>1. PICK l \in DOMAIN waiters' :
          /\ DOMAIN waiters' = DOMAIN waiters \cup {l} /\ waiters'[l].stmt = s
          /\ \A j \in DOMAIN waiters : waiters'[j] = waiters[j]
    <3> DEFINE x == [id |-> arrived + 1, stmt |-> s]
    <3>1. waiters' = Append(waiters, x) /\ x.stmt = s
      BY <1>5 DEF Join
    <3> HIDE DEF x
    <3>2. /\ DOMAIN waiters' = DOMAIN waiters \cup {Len(waiters) + 1}
          /\ waiters'[Len(waiters) + 1] = x
          /\ \A j \in DOMAIN waiters : waiters'[j] = waiters[j]
      BY <1>0, <3>1
    <3> QED
      BY <3>1, <3>2
  <2>2. UNCHANGED <<walks, value, woken, changes, recorded, missed>>
    BY <1>5 DEF Join
  <2>3. s.kind = "wait" => ~Holds(s)
    BY <1>5 DEF Join
  <2>4. ~Ready(l)'
    BY <2>1, <2>2, <2>3 DEF Ready, Holds
  <2>5. ASSUME NEW j \in DOMAIN waiters, Ready(j)' PROVE Covered(j)'
    <3>1. j \in DOMAIN waiters' /\ waiters'[j] = waiters[j]
      BY <2>1
    <3>2. Covered(j)
      BY <2>2, <2>5, <3>1, ReadyBefore DEF WaitAhead
    <3> QED
      BY <2>2, <3>1, <3>2 DEF Covered, Pending, Sigs
  <2> QED
    BY <2>1, <2>4, <2>5 DEF WaitAhead
<1>6. ASSUME Start \/ Pass \/ Wake \/ BodyDone, NEW i \in DOMAIN waiters', Ready(i)',
             NEW j \in DOMAIN waiters, waiters'[i] = waiters[j],
             Top.slot <= j => Top'.slot <= i, j = i \/ Top'.slot # 0
      PROVE  Covered(i)'
  <2>1. UNCHANGED <<value, changes, recorded, missed>> /\ woken \subseteq woken'
    BY <1>6 DEF Start, Pass, Wake, BodyDone
  <2>2. Covered(j)
    BY <1>6, <2>1, ReadyBefore DEF WaitAhead
  <2>3. CASE waiters[j].stmt.on \cap Pending # {}
    BY <1>6, <2>1, <2>3 DEF Covered, Pending, Sigs
  <2>4. ASSUME NEW k \in DOMAIN walks, walks[k].sig \in waiters[j].stmt.on, walks[k].slot <= j
        PROVE  Covered(i)'
    <3>1. k \in DOMAIN walks' /\ walks'[k].sig \in waiters'[i].stmt.on
      BY <1>6, <2>4, TopStill
    <3>2. walks'[k].slot <= i
      <4>1. CASE k = Len(walks)
        BY <1>6, <2>4, <4>1, TopStill
      <4>2. CASE k # Len(walks)
        <5>1. walks'[k].slot = 0 /\ 0 <= i
          BY <1>0, <1>6, <4>2, TopStill DEF Nesting
        <5> QED
          BY <5>1
      <4> QED
        BY <4>1, <4>2
    <3> QED
      BY <3>1, <3>2 DEF Covered
  <2> QED
    BY <2>2, <2>3, <2>4 DEF Covered
<1>7. CASE Start
  <2>1. UNCHANGED waiters /\ Top'.slot = 1 /\ \A i \in DOMAIN waiters : 1 <= i
    BY <1>0, <1>7, StartMoves DEF Start
  <2> QED
    BY <1>6, <1>7, <2>1 DEF WaitAhead
<1>8. CASE Pass
  <2>1. UNCHANGED <<waiters, value, woken, changes, recorded, missed>>
    BY <1>8 DEF Pass
  <2>2. Top'.slot = Top.slot + 1 /\ Top.slot \in Nat /\ Top.slot \in DOMAIN waiters
    BY <1>8, PassMoves, TopType
  <2>3. ASSUME NEW i \in DOMAIN waiters, Ready(i)' PROVE Covered(i)'
    <3>1. CASE i # Top.slot
      <4>1. Top.slot <= i => Top'.slot <= i
        BY <1>0, <2>2, <3>1
      <4> QED
        BY <1>6, <1>8, <2>1, <2>3, <4>1
    <3>2. CASE i = Top.slot
      <4>1. Ready(i)
        BY <2>1, <2>3, ReadyBefore
      <4>2. Top.sig \notin waiters[i].stmt.on
        BY <1>8, <3>2, <4>1 DEF Pass, Ready, Fires
      <4>3. Covered(i)
        BY <4>1 DEF WaitAhead
      <4>4. \A k \in DOMAIN walks : walks[k].sig \in waiters[i].stmt.on => k # Len(walks)
        BY <4>2 DEF Top
      <4> QED
        BY <1>8, <2>1, <4>3, <4>4, TopStill DEF Covered, Pending, Sigs
    <3> QED
      BY <3>1, <3>2
  <2> QED
    BY <2>1, <2>3 DEF WaitAhead
<1>9. CASE Wake
  <2>1. UNCHANGED waiters /\ Top'.slot = Top.slot
    BY <1>9, WakeMoves DEF Wake
  <2> QED
    BY <1>6, <1>9, <2>1 DEF WaitAhead
<1>10. CASE BodyDone
  <2>1. Top'.slot = Top.slot /\ Top.slot \in Nat /\ Top.slot \in DOMAIN waiters
    BY <1>10, BodyMoves, TopType DEF Nesting
  <2>2. ASSUME NEW i \in DOMAIN waiters', Ready(i)' PROVE Covered(i)'
    <3>1. PICK j \in DOMAIN waiters : waiters'[i] = waiters[j] /\ (j = i \/ (i = Top.slot /\ i <= j))
      BY <1>10, BodyRemoves
    <3>2. Top.slot <= j => Top'.slot <= i
      BY <1>0, <2>1, <3>1
    <3>3. j = i \/ Top'.slot # 0
      BY <1>0, <2>1
    <3> QED
      BY <1>6, <1>10, <2>2, <3>1, <3>2, <3>3
  <2> QED
    BY <2>2 DEF WaitAhead
<1>11. CASE WalkDone
  <2>1. UNCHANGED <<waiters, woken, changes, recorded, missed>> /\ Top.slot > Len(waiters)
    BY <1>11 DEF WalkDone
  <2>2. DOMAIN walks' = 1 .. Len(walks) - 1 /\ DOMAIN walks = 1 .. Len(walks) /\ Len(walks) \in Nat
    BY <1>0, <1>11, Popped
  <2>3. \A n \in Signals : value'[n] = value[n]
    <3>1. value' = value \/ (Top.sig \in Events /\ value' = [value EXCEPT ![Top.sig] = "0"])
      BY <1>11 DEF WalkDone
    <3> QED
      BY <3>1, WaitersAssumption DEF TypeOK, Names
  <2>4. ASSUME NEW j \in DOMAIN waiters, Ready(j)' PROVE Covered(j)'
    <3>1. \A n \in waiters[j].stmt.on : value'[n] = value[n]
      BY <2>1, <2>3, <2>4, ReadyOnSignals DEF Ready
    <3>2. Covered(j)
      BY <2>1, <2>4, <3>1, ReadyBefore DEF WaitAhead
    <3>3. ~(Top.slot <= j)
      BY <1>0, <1>11, <2>1, Popped, TopType
    <3>4. \A k \in DOMAIN walks : walks[k].slot <= j => k \in DOMAIN walks'
      BY <2>2, <3>3 DEF Top
    <3>5. \A k \in DOMAIN walks' : Kept(k)
      BY <1>11, <2>2, Popped
    <3> QED
      BY <2>1, <3>2, <3>4, <3>5 DEF Covered, Pending, Sigs, Kept
  <2> QED
    BY <2>1, <2>4 DEF WaitAhead
<1> QED
  BY <1>1, <1>3, <1>4, <1>5, <1>7, <1>8, <1>9, <1>10, <1>11, QuietSteps, ChangesPending
     DEF Next, Statement, WalkStep, Batch

LEMMA NotRecordedStep == NotRecorded /\ [Next]_vars => NotRecorded'
BY DEF NotRecorded, Next, Statement, WalkStep, Batch, Join, Assign, Drive, Trigger, Start, Pass,
       Wake, BodyDone, WalkDone, Begin, Note, End, Take, NextPhase, Apply, Resolve, vars

\* As long as no woken body triggers an event, no wait sleeps between two batches
\* whose condition holds, whichever of its signals changed last and whatever
\* joined or left the list since, unless one of them changed unannounced.
THEOREM WaitsAreSeenTo == Spec => [](Calm => NoMissedWait)
<1> DEFINE Seen == Calm => WaitAhead
<1>1. TypeOK /\ OnTheList /\ Seen /\ [Next]_vars => Seen'
  BY CalmStays, WaitAheadStep DEF OnTheList, Calm
<1>2. Init => Seen /\ NotRecorded
  BY DEF Init, WaitAhead, NotRecorded
<1>3. TypeOK /\ OnTheList /\ Seen /\ NotRecorded => (Calm => NoMissedWait)
  <2> SUFFICES ASSUME TypeOK, Nesting, Membership, WaitAhead, NotRecorded,
                      Between, changes = <<>>,
                      NEW i \in DOMAIN waiters, waiters[i].stmt.kind = "wait",
                      Holds(waiters[i].stmt)
               PROVE  waiters[i].stmt.on \cap missed # {}
    BY DEF OnTheList, NoMissedWait
  <2>1. walks = <<>> /\ recorded = <<>>
    BY DEF Between, NotRecorded
  <2>2. Pending = missed
    BY <2>1 DEF Pending, Sigs
  <2>3. Covered(i)
    BY <2>1, NobodyAwake DEF WaitAhead, Ready
  <2> QED
    BY <2>1, <2>2, <2>3 DEF Covered
<1> HIDE DEF Seen
<1> QED
  BY <1>1, <1>2, <1>3, NotRecordedStep, OnTheListAlways, PTL DEF Spec

=============================================================================
