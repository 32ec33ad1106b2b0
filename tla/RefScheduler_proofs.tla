------------------------ MODULE RefScheduler_proofs ------------------------
(***************************************************************************)
(* The reference scheduler keeps the promise of Timeline, for any events,  *)
(* times, size of the wheel and delta limit: every step of it is a step of *)
(* Timeline or leaves what Timeline sees unchanged.                        *)
(***************************************************************************)
EXTENDS RefScheduler, Segments

\* Events within one turn of the wheel that share a slot are at one time.
LEMMA SlotOfTurn ==
  ASSUME NEW t \in Nat, NEW u \in Nat, Slot(t) = Slot(u), t <= u, u < t + WheelSize
  PROVE  u = t
<1>. DEFINE a == t \div WheelSize
            b == u \div WheelSize
            r == t % WheelSize
<1>1. WheelSize \in Nat /\ WheelSize > 0
  BY SchedulerAssumption
<1>2. /\ a \in Int /\ b \in Int /\ r \in Int
      /\ t = WheelSize * a + r /\ u = WheelSize * b + r
  BY <1>1 DEF Slot
<1>. HIDE DEF a, b, r
<1>3. u - t = WheelSize * (b - a)
  BY <1>1, <1>2
<1>4. CASE b - a >= 1
  <2>1. WheelSize * (b - a) >= WheelSize
    BY <1>1, <1>2, <1>4
  <2>. QED
    BY <1>1, <1>3, <2>1
<1>5. CASE b - a <= -1
  <2>1. WheelSize * (b - a) <= -WheelSize
    BY <1>1, <1>2, <1>5
  <2>. QED
    BY <1>1, <1>3, <2>1
<1>6. CASE b - a = 0
  BY <1>1, <1>2, <1>3, <1>6
<1>. QED
  BY <1>2, <1>4, <1>5, <1>6

LEMMA SlotType == ASSUME NEW t \in Nat PROVE Slot(t) \in Slots
BY SchedulerAssumption DEF Slot, Slots

LEMMA ConstantTypes ==
  Ids \subseteq Nat /\ MaxTime \in Nat /\ WheelSize \in Nat /\ WheelSize > 0 /\ MaxDelta \in Nat
BY SchedulerAssumption

LEMMA EventType ==
  ASSUME NEW e \in Events
  PROVE  /\ e.time \in 0 .. MaxTime /\ e.time \in Nat /\ e.id \in Nat
         /\ e.early \in BOOLEAN /\ e.nba \in BOOLEAN
<1>1. e.time \in 0 .. MaxTime /\ e.id \in Ids
  BY DEF Events
<1>2. e.early \in BOOLEAN /\ e.nba \in BOOLEAN
  BY DEF Events
<1>3. e.time \in Nat
  BY <1>1, ConstantTypes
<1>4. e.id \in Nat
  BY <1>1, ConstantTypes
<1>. QED
  BY <1>1, <1>2, <1>3, <1>4

-----------------------------------------------------------------------------
(* What the queues hold.                                                   *)

Wheels == [Slots -> Seq(Events)]

\* Every event occurs once.
Once(q) == \A i, j \in DOMAIN q : q[i] = q[j] => i = j

\* Every event sits in its slot once, is between times a and b, and before b unless it
\* may be early.
Fits(w, a, b) ==
  /\ w \in Wheels
  /\ \A s \in Slots : Once(w[s])
  /\ \A s \in Slots : \A e \in Range(w[s]) :
       Slot(e.time) = s /\ a <= e.time /\ e.time <= b /\ (~e.early => e.time < b)

\* The overflow list is sorted; its events are from time a on, and may be early.
Behind(o, a) ==
  /\ o \in Seq(Events) /\ Once(o)
  /\ \A i, j \in DOMAIN o : i < j => o[i].time <= o[j].time
  /\ \A e \in Range(o) : e.early /\ a <= e.time

On(w) == UNION {Range(w[s]) : s \in Slots}
Contents(w, o, q, n) == On(w) \cup Range(q) \cup Range(o) \cup Range(n)

LEMMA JoinedQueues ==
  ASSUME NEW p \in Seq(Events), NEW q \in Seq(Events)
  PROVE  /\ p \o q \in Seq(Events) /\ Len(p \o q) = Len(p) + Len(q)
         /\ DOMAIN (p \o q) = 1 .. Len(p) + Len(q)
         /\ \A i \in 1 .. Len(p) : (p \o q)[i] = p[i]
         /\ \A i \in 1 .. Len(q) : (p \o q)[Len(p) + i] = q[i]
BY Joined

LEMMA RangeOfTwo ==
  ASSUME NEW p \in Seq(Events), NEW q \in Seq(Events)
  PROVE  p \o q \in Seq(Events) /\ Range(p \o q) = Range(p) \cup Range(q)
<1>1. p \o q \in Seq(Events) /\ Len(p \o q) = Len(p) + Len(q)
  OBVIOUS
<1>2. ASSUME NEW e \in Range(p) PROVE e \in Range(p \o q)
  <2>1. PICK i \in DOMAIN p : e = p[i]
    BY <1>2 DEF Range
  <2>2. i \in DOMAIN (p \o q) /\ (p \o q)[i] = p[i]
    OBVIOUS
  <2>. QED
    BY <2>1, <2>2 DEF Range
<1>3. ASSUME NEW e \in Range(q) PROVE e \in Range(p \o q)
  <2>1. PICK i \in DOMAIN q : e = q[i]
    BY <1>3 DEF Range
  <2>2. Len(p) + i \in DOMAIN (p \o q) /\ (p \o q)[Len(p) + i] = q[i]
    OBVIOUS
  <2>. QED
    BY <2>1, <2>2 DEF Range
<1>4. ASSUME NEW e \in Range(p \o q) PROVE e \in Range(p) \cup Range(q)
  <2>1. PICK i \in DOMAIN (p \o q) : e = (p \o q)[i]
    BY <1>4 DEF Range
  <2>2. CASE i <= Len(p)
    <3>1. i \in DOMAIN p /\ (p \o q)[i] = p[i]
      BY <2>2
    <3>. QED
      BY <2>1, <3>1 DEF Range
  <2>3. CASE i > Len(p)
    <3>1. i - Len(p) \in DOMAIN q /\ (p \o q)[i] = q[i - Len(p)]
      BY <2>3
    <3>. QED
      BY <2>1, <3>1 DEF Range
  <2>. QED
    BY <2>2, <2>3
<1>. QED
  BY <1>1, <1>2, <1>3, <1>4

LEMMA RangeOfOne == ASSUME NEW e PROVE Range(<<e>>) = {e} /\ Range(<<>>) = {}
BY DEF Range

LEMMA RangeType == ASSUME NEW q \in Seq(Events) PROVE Range(q) \subseteq Events
BY DEF Range

\* A new event in front of, or behind, a sequence in which every event occurs once.
LEMMA OnceMore ==
  ASSUME NEW q \in Seq(Events), NEW e \in Events, Once(q), e \notin Range(q)
  PROVE  Once(<<e>> \o q) /\ Once(Append(q, e))
<1>1. ASSUME NEW i \in DOMAIN (<<e>> \o q), NEW j \in DOMAIN (<<e>> \o q),
             (<<e>> \o q)[i] = (<<e>> \o q)[j]
      PROVE  i = j
  <2>. DEFINE r == <<e>> \o q
  <2>1. Len(r) = Len(q) + 1 /\ r[1] = e /\ \A k \in 2 .. Len(q) + 1 : r[k] = q[k - 1]
    OBVIOUS
  <2>2. i \in 1 .. Len(q) + 1 /\ j \in 1 .. Len(q) + 1 /\ r[i] = r[j]
    BY <1>1
  <2>. HIDE DEF r
  <2>3. \A k \in 2 .. Len(q) + 1 : k - 1 \in DOMAIN q /\ q[k - 1] \in Range(q)
    BY DEF Range
  <2>. QED
    BY <2>1, <2>2, <2>3 DEF Once
<1>2. ASSUME NEW i \in DOMAIN Append(q, e), NEW j \in DOMAIN Append(q, e),
             Append(q, e)[i] = Append(q, e)[j]
      PROVE  i = j
  <2>. DEFINE r == Append(q, e)
  <2>1. Len(r) = Len(q) + 1 /\ r[Len(q) + 1] = e /\ \A k \in 1 .. Len(q) : r[k] = q[k]
    OBVIOUS
  <2>2. i \in 1 .. Len(q) + 1 /\ j \in 1 .. Len(q) + 1 /\ r[i] = r[j]
    BY <1>2
  <2>. HIDE DEF r
  <2>3. \A k \in 1 .. Len(q) : k \in DOMAIN q /\ q[k] \in Range(q)
    BY DEF Range
  <2>. QED
    BY <2>1, <2>2, <2>3 DEF Once
<1>. QED
  BY <1>1, <1>2 DEF Once

LEMMA RangeOfAppend ==
  ASSUME NEW q \in Seq(Events), NEW e \in Events
  PROVE  Append(q, e) \in Seq(Events) /\ Range(Append(q, e)) = Range(q) \cup {e}
<1>1. Append(q, e) = q \o <<e>> /\ <<e>> \in Seq(Events)
  OBVIOUS
<1>. QED
  BY <1>1, RangeOfTwo, RangeOfOne

\* wheel_push.
LEMMA PushFits ==
  ASSUME NEW a \in Nat, NEW b \in Nat, NEW w, Fits(w, a, b), NEW e \in Events,
         a <= e.time, e.time <= b, ~e.early => e.time < b, e \notin On(w)
  PROVE  Fits(Push(w, e), a, b) /\ On(Push(w, e)) = On(w) \cup {e}
<1>. DEFINE s0 == Slot(e.time)
            v  == Push(w, e)
<1>1. s0 \in Slots /\ e.time \in Nat
  BY EventType, SlotType
<1>2. w \in Wheels /\ w[s0] \in Seq(Events) /\ <<e>> \in Seq(Events)
  BY <1>1 DEF Fits, Wheels
<1>3. /\ v \in Wheels /\ v[s0] = <<e>> \o w[s0]
      /\ \A s \in Slots : s # s0 => v[s] = w[s]
  BY <1>1, <1>2 DEF Push, Wheels
<1>4. Range(v[s0]) = Range(w[s0]) \cup {e}
  <2>. DEFINE p == <<e>>
  <2>1. p \in Seq(Events) /\ Range(p) = {e} /\ v[s0] = p \o w[s0]
    BY <1>2, <1>3, RangeOfOne
  <2>. HIDE DEF p, v, s0
  <2>2. Range(p \o w[s0]) = Range(p) \cup Range(w[s0])
    BY <1>2, <2>1, RangeOfTwo
  <2>. QED
    BY <2>1, <2>2
<1>5. Once(v[s0])
  <2>1. e \notin Range(w[s0])
    BY <1>1 DEF On
  <2>2. Once(w[s0])
    BY <1>1 DEF Fits
  <2>. QED
    BY <1>2, <1>3, <2>1, <2>2, OnceMore
<1>6. s0 = Slot(e.time)
  OBVIOUS
<1>. HIDE DEF s0, v
<1>7. On(v) = On(w) \cup {e}
  BY <1>1, <1>3, <1>4 DEF On
<1>8. Fits(v, a, b)
  BY <1>1, <1>3, <1>4, <1>5, <1>6 DEF Fits
<1>. QED
  BY <1>7, <1>8 DEF v

\* overflow_to_wheel: what is within the horizon goes to the wheel, the rest stays.
OneOn(w, o, t, i)  == IF OnHorizon(o[i], t) THEN Push(w, o[i]) ELSE w
OneBack(r, o, t, i) == IF OnHorizon(o[i], t) THEN r ELSE Append(r, o[i])

LEMMA PushedWalk ==
  ASSUME NEW t \in Nat, NEW w \in Wheels, NEW o \in Seq(Events)
  PROVE  \E v : /\ v[0] = w /\ v[Len(o)] = Pushed(w, o, t)
                /\ \A i \in 1 .. Len(o) : v[i] = OneOn(v[i - 1], o, t, i)
<1>. DEFINE n == Len(o)
            G == [x \in (1 .. n) \X Wheels |-> OneOn(x[2], o, t, x[1])]
<1>1. n \in Nat
  OBVIOUS
<1>2. ASSUME NEW i \in 1 .. n, NEW x \in Wheels PROVE OneOn(x, o, t, i) \in Wheels
  <2>1. o[i] \in Events /\ o[i].time \in Nat
    BY EventType
  <2>2. Slot(o[i].time) \in Slots
    BY <2>1, SlotType
  <2>3. <<o[i]>> \o x[Slot(o[i].time)] \in Seq(Events)
    BY <2>1, <2>2 DEF Wheels
  <2>4. Push(x, o[i]) \in Wheels
    BY <2>2, <2>3 DEF Push, Wheels
  <2>. QED
    BY <2>4 DEF OneOn
<1>3. G \in Steps(n, Wheels)
  BY <1>2 DEF Steps
<1>4. PICK f : Solves(f, n, Wheels, w, G)
  <2>. HIDE DEF G, n
  <2>. QED
    BY <1>1, <1>3, Recursion
<1>5. f \in [0 .. n -> Wheels] /\ f[0] = w
  BY <1>4 DEF Solves
<1>6. ASSUME NEW i \in 1 .. n PROVE f[i] = OneOn(f[i - 1], o, t, i)
  <2>1. f[i] = G[<<i, f[i - 1]>>]
    BY <1>4 DEF Solves
  <2>2. i - 1 \in 0 .. n
    BY <1>1
  <2>3. f[i - 1] \in Wheels
    BY <1>5, <2>2
  <2>. QED
    BY <2>1, <2>3
<1>. DEFINE v == CHOOSE v : v = [i \in 0 .. Len(o) |-> IF i = 0 THEN w ELSE
                     IF OnHorizon(o[i], t) THEN Push(v[i - 1], o[i]) ELSE v[i - 1]]
<1>7. f = [i \in 0 .. Len(o) |-> IF i = 0 THEN w ELSE
             IF OnHorizon(o[i], t) THEN Push(f[i - 1], o[i]) ELSE f[i - 1]]
  <2>1. \A i \in 0 .. n : i = 0 \/ i \in 1 .. n
    BY <1>1
  <2>2. \A i \in 0 .. n : f[i] = IF i = 0 THEN w ELSE OneOn(f[i - 1], o, t, i)
    BY <1>5, <1>6, <2>1
  <2>3. f = [i \in 0 .. n |-> IF i = 0 THEN w ELSE OneOn(f[i - 1], o, t, i)]
    BY <1>5, <2>2
  <2>. QED
    BY <2>3, Zenon DEF OneOn
<1>8. v = [i \in 0 .. Len(o) |-> IF i = 0 THEN w ELSE
             IF OnHorizon(o[i], t) THEN Push(v[i - 1], o[i]) ELSE v[i - 1]]
  BY <1>7, Zenon
<1>9. Pushed(w, o, t) = v[Len(o)]
  BY Zenon DEF Pushed
<1>. HIDE DEF v
<1>10. v[0] = w
  BY <1>1, <1>8
<1>11. ASSUME NEW i \in 1 .. Len(o) PROVE v[i] = OneOn(v[i - 1], o, t, i)
  <2>1. i \in 0 .. Len(o) /\ i # 0
    OBVIOUS
  <2>2. v[i] = IF i = 0 THEN w ELSE IF OnHorizon(o[i], t) THEN Push(v[i - 1], o[i]) ELSE v[i - 1]
    BY <1>8, <2>1, Zenon
  <2>. QED
    BY <2>1, <2>2, Zenon DEF OneOn
<1>. QED
  BY <1>9, <1>10, <1>11

LEMMA BeyondWalk ==
  ASSUME NEW t \in Nat, NEW o \in Seq(Events)
  PROVE  \E v : /\ v[0] = <<>> /\ v[Len(o)] = Beyond(o, t)
                /\ \A i \in 1 .. Len(o) : v[i] = OneBack(v[i - 1], o, t, i)
<1>. DEFINE n == Len(o)
            Lists == Seq(Events)
            G == [x \in (1 .. n) \X Lists |-> OneBack(x[2], o, t, x[1])]
<1>1. n \in Nat /\ <<>> \in Lists
  OBVIOUS
<1>2. ASSUME NEW i \in 1 .. n, NEW x \in Lists PROVE OneBack(x, o, t, i) \in Lists
  BY DEF OneBack
<1>. HIDE DEF Lists
<1>3. G \in Steps(n, Lists)
  BY <1>2 DEF Steps
<1>4. PICK f : Solves(f, n, Lists, <<>>, G)
  <2>. HIDE DEF G, n
  <2>. QED
    BY <1>1, <1>3, Recursion
<1>5. f \in [0 .. n -> Lists] /\ f[0] = <<>>
  BY <1>4 DEF Solves
<1>6. ASSUME NEW i \in 1 .. n PROVE f[i] = OneBack(f[i - 1], o, t, i)
  <2>1. f[i] = G[<<i, f[i - 1]>>]
    BY <1>4 DEF Solves
  <2>2. i - 1 \in 0 .. n
    BY <1>1
  <2>3. f[i - 1] \in Lists
    BY <1>5, <2>2
  <2>. QED
    BY <2>1, <2>3
<1>. DEFINE r == CHOOSE r : r = [i \in 0 .. Len(o) |-> IF i = 0 THEN <<>> ELSE
                     IF OnHorizon(o[i], t) THEN r[i - 1] ELSE Append(r[i - 1], o[i])]
<1>7. f = [i \in 0 .. Len(o) |-> IF i = 0 THEN <<>> ELSE
             IF OnHorizon(o[i], t) THEN f[i - 1] ELSE Append(f[i - 1], o[i])]
  <2>1. \A i \in 0 .. n : i = 0 \/ i \in 1 .. n
    BY <1>1
  <2>2. \A i \in 0 .. n : f[i] = IF i = 0 THEN <<>> ELSE OneBack(f[i - 1], o, t, i)
    BY <1>5, <1>6, <2>1
  <2>3. f = [i \in 0 .. n |-> IF i = 0 THEN <<>> ELSE OneBack(f[i - 1], o, t, i)]
    BY <1>5, <2>2
  <2>. QED
    BY <2>3, Zenon DEF OneBack
<1>8. r = [i \in 0 .. Len(o) |-> IF i = 0 THEN <<>> ELSE
             IF OnHorizon(o[i], t) THEN r[i - 1] ELSE Append(r[i - 1], o[i])]
  BY <1>7, Zenon
<1>9. Beyond(o, t) = r[Len(o)]
  BY Zenon DEF Beyond
<1>. HIDE DEF r
<1>10. r[0] = <<>>
  BY <1>1, <1>8
<1>11. ASSUME NEW i \in 1 .. Len(o) PROVE r[i] = OneBack(r[i - 1], o, t, i)
  <2>1. i \in 0 .. Len(o) /\ i # 0
    OBVIOUS
  <2>2. r[i] = IF i = 0 THEN <<>> ELSE IF OnHorizon(o[i], t) THEN r[i - 1] ELSE Append(r[i - 1], o[i])
    BY <1>8, <2>1, Zenon
  <2>. QED
    BY <2>1, <2>2, Zenon DEF OneBack
<1>. QED
  BY <1>9, <1>10, <1>11

\* What came up to step i of the walk and is, or is not, on the horizon.
Taken(o, t, i) == {o[j] : j \in {k \in 1 .. i : OnHorizon(o[k], t)}}
Left(o, t, i)  == {o[j] : j \in {k \in 1 .. i : ~OnHorizon(o[k], t)}}

LEMMA WalkSets ==
  ASSUME NEW t \in Nat, NEW o \in Seq(Events), NEW i \in Nat, i + 1 <= Len(o)
  PROVE  /\ o[i + 1] \in Events /\ i + 1 \in 1 .. Len(o)
         /\ OnHorizon(o[i + 1], t) =>
              Taken(o, t, i + 1) = Taken(o, t, i) \cup {o[i + 1]} /\ Left(o, t, i + 1) = Left(o, t, i)
         /\ ~OnHorizon(o[i + 1], t) =>
              Left(o, t, i + 1) = Left(o, t, i) \cup {o[i + 1]} /\ Taken(o, t, i + 1) = Taken(o, t, i)
<1>1. i + 1 \in 1 .. Len(o) /\ o[i + 1] \in Events
  OBVIOUS
<1>2. \A k : k \in 1 .. i + 1 <=> (k \in 1 .. i \/ k = i + 1)
  OBVIOUS
<1>. QED
  BY <1>1, <1>2, Zenon DEF Taken, Left

LEMMA WalkOnce ==
  ASSUME NEW t \in Nat, NEW o \in Seq(Events), Once(o), NEW i \in Nat, i + 1 <= Len(o)
  PROVE  o[i + 1] \notin Taken(o, t, i) /\ o[i + 1] \notin Left(o, t, i)
<1>1. \A j \in 1 .. i : j \in DOMAIN o /\ i + 1 \in DOMAIN o /\ j # i + 1
  OBVIOUS
<1>2. \A j \in 1 .. i : o[j] # o[i + 1]
  BY <1>1 DEF Once
<1>. QED
  BY <1>2 DEF Taken, Left

LEMMA PushedFits ==
  ASSUME NEW t \in Nat, NEW a \in Nat, NEW w, Fits(w, a, t + WheelSize), NEW o, Behind(o, a),
         On(w) \cap Range(o) = {}
  PROVE  /\ Fits(Pushed(w, o, t), a, t + WheelSize)
         /\ On(Pushed(w, o, t)) = On(w) \cup Taken(o, t, Len(o))
<1>. DEFINE b == t + WheelSize
<1>0. w \in Wheels /\ o \in Seq(Events) /\ b \in Nat /\ Once(o)
  BY ConstantTypes DEF Fits, Behind
<1>1. PICK v : /\ v[0] = w /\ v[Len(o)] = Pushed(w, o, t)
               /\ \A i \in 1 .. Len(o) : v[i] = OneOn(v[i - 1], o, t, i)
  BY <1>0, PushedWalk
<1>. DEFINE S == {i \in Nat : i <= Len(o) => /\ Fits(v[i], a, b)
                                             /\ On(v[i]) = On(w) \cup Taken(o, t, i)}
<1>2. 0 \in S
  BY <1>1 DEF Taken
<1>3. ASSUME NEW i \in Nat, i \in S PROVE i + 1 \in S
  <2>. SUFFICES ASSUME i + 1 <= Len(o)
                PROVE  Fits(v[i + 1], a, b) /\ On(v[i + 1]) = On(w) \cup Taken(o, t, i + 1)
    OBVIOUS
  <2>. DEFINE e == o[i + 1]
  <2>1. Fits(v[i], a, b) /\ On(v[i]) = On(w) \cup Taken(o, t, i)
    BY <1>0, <1>3
  <2>2. e \in Events /\ e.time \in Nat /\ e.early /\ a <= e.time /\ e \in Range(o)
    <3>1. e \in Events /\ e \in Range(o)
      BY <1>0, WalkSets DEF Range
    <3>. QED
      BY <3>1, EventType DEF Behind
  <2>3. v[i + 1] = OneOn(v[i], o, t, i + 1)
    <3>1. i + 1 \in 1 .. Len(o) /\ (i + 1) - 1 = i
      BY <1>0, WalkSets
    <3>. QED
      BY <1>1, <3>1
  <2>4. CASE OnHorizon(e, t)
    <3>1. v[i + 1] = Push(v[i], e)
      BY <2>3, <2>4 DEF OneOn
    <3>2. Fits(Push(v[i], e), a, b) /\ On(Push(v[i], e)) = On(v[i]) \cup {e}
      <4>1. e.time <= b
        BY <2>4 DEF OnHorizon
      <4>2. e \notin Taken(o, t, i)
        BY <1>0, WalkOnce
      <4>. HIDE DEF e, b
      <4>3. e \notin On(v[i])
        BY <2>1, <2>2, <4>2
      <4>. QED
        BY <1>0, <2>1, <2>2, <4>1, <4>3, PushFits
    <3>3. Taken(o, t, i + 1) = Taken(o, t, i) \cup {e}
      BY <1>0, <2>4, WalkSets
    <3>. QED
      BY <2>1, <3>1, <3>2, <3>3
  <2>5. CASE ~OnHorizon(e, t)
    <3>1. v[i + 1] = v[i]
      BY <2>3, <2>5 DEF OneOn
    <3>2. Taken(o, t, i + 1) = Taken(o, t, i)
      BY <1>0, <2>5, WalkSets
    <3>. QED
      BY <2>1, <3>1, <3>2
  <2>. QED
    BY <2>4, <2>5
<1>. HIDE DEF S
<1>4. Len(o) \in S
  BY <1>0, <1>2, <1>3, Induction
<1>. QED
  BY <1>0, <1>1, <1>4 DEF S

LEMMA BeyondBehind ==
  ASSUME NEW t \in Nat, NEW a \in Nat, NEW o, Behind(o, a)
  PROVE  /\ Behind(Beyond(o, t), a) /\ Range(Beyond(o, t)) = Left(o, t, Len(o))
         /\ \A e \in Range(Beyond(o, t)) : e.time > t + WheelSize
<1>0. o \in Seq(Events) /\ Len(o) \in Nat /\ Once(o)
  BY DEF Behind
<1>1. PICK r : /\ r[0] = <<>> /\ r[Len(o)] = Beyond(o, t)
               /\ \A i \in 1 .. Len(o) : r[i] = OneBack(r[i - 1], o, t, i)
  BY <1>0, BeyondWalk
<1>. DEFINE Good(q, i) == /\ q \in Seq(Events) /\ Range(q) = Left(o, t, i) /\ Once(q)
                          /\ \A j, k \in DOMAIN q : j < k => q[j].time <= q[k].time
            S == {i \in Nat : i <= Len(o) => Good(r[i], i)}
<1>2. 0 \in S
  <2>1. /\ Range(<<>>) = {} /\ Left(o, t, 0) = {} /\ <<>> \in Seq(Events) /\ DOMAIN <<>> = {}
        /\ Once(<<>>)
    BY DEF Range, Left, Once
  <2>2. Good(<<>>, 0)
    BY <2>1, Zenon
  <2>. QED
    BY <1>1, <2>2
<1>3. ASSUME NEW i \in Nat, i \in S PROVE i + 1 \in S
  <2>. SUFFICES ASSUME i + 1 <= Len(o) PROVE Good(r[i + 1], i + 1)
    OBVIOUS
  <2>. DEFINE e == o[i + 1]
              q == r[i]
  <2>1. Good(q, i)
    BY <1>0, <1>3
  <2>2. e \in Events /\ r[i + 1] = OneBack(q, o, t, i + 1)
    <3>1. i + 1 \in 1 .. Len(o) /\ (i + 1) - 1 = i /\ e \in Events
      BY <1>0, WalkSets
    <3>. QED
      BY <1>1, <3>1
  <2>3. CASE OnHorizon(e, t)
    <3>1. r[i + 1] = q /\ Left(o, t, i + 1) = Left(o, t, i)
      BY <1>0, <2>2, <2>3, WalkSets DEF OneBack
    <3>. QED
      BY <2>1, <3>1
  <2>4. CASE ~OnHorizon(e, t)
    <3>1. r[i + 1] = Append(q, e) /\ Left(o, t, i + 1) = Left(o, t, i) \cup {e}
      BY <1>0, <2>2, <2>4, WalkSets DEF OneBack
    <3>2. \A f \in Range(q) : f.time <= e.time
      <4>. SUFFICES ASSUME NEW j \in 1 .. i PROVE o[j].time <= e.time
        BY <2>1 DEF Left
      <4>. QED
        BY <1>0 DEF Behind
    <3>3. e \notin Left(o, t, i)
      BY <1>0, WalkOnce
    <3>. HIDE DEF e, q
    <3>4. Once(Append(q, e))
      BY <2>1, <2>2, <3>3, OnceMore
    <3>5. Append(q, e) \in Seq(Events) /\ Range(Append(q, e)) = Range(q) \cup {e}
      BY <2>1, <2>2, RangeOfAppend
    <3>6. \A j, k \in DOMAIN Append(q, e) : j < k => Append(q, e)[j].time <= Append(q, e)[k].time
      <4>1. /\ q \in Seq(Events) /\ DOMAIN Append(q, e) = 1 .. Len(q) + 1
            /\ Append(q, e)[Len(q) + 1] = e /\ \A k \in 1 .. Len(q) : Append(q, e)[k] = q[k]
        BY <2>1, <2>2
      <4>2. \A k \in 1 .. Len(q) : q[k].time <= e.time
        BY <3>2, <4>1 DEF Range
      <4>3. \A j, k \in 1 .. Len(q) : j < k => q[j].time <= q[k].time
        BY <2>1, <4>1
      <4>. DEFINE p == Append(q, e)
      <4>. HIDE DEF p
      <4>. QED
        BY <4>1, <4>2, <4>3 DEF p
    <3>. QED
      BY <2>1, <3>1, <3>4, <3>5, <3>6
  <2>. QED
    BY <2>3, <2>4
<1>. HIDE DEF S
<1>4. Len(o) \in S
  BY <1>0, <1>2, <1>3, Induction
<1>5. Good(Beyond(o, t), Len(o))
  BY <1>0, <1>1, <1>4 DEF S
<1>6. ASSUME NEW e \in Range(Beyond(o, t)) PROVE e \in Range(o) /\ e.time > t + WheelSize
  <2>1. PICK j \in 1 .. Len(o) : e = o[j] /\ ~OnHorizon(o[j], t)
    BY <1>5 DEF Left
  <2>2. o[j] \in Events /\ o[j].time \in Nat
    BY <1>0, EventType
  <2>. QED
    BY <1>0, <2>1, <2>2, ConstantTypes DEF OnHorizon, Range
<1>. QED
  BY <1>5, <1>6 DEF Behind

\* The walk loses nothing, and puts nothing in two places.
LEMMA AllTakenOrLeft ==
  ASSUME NEW t \in Nat, NEW o \in Seq(Events)
  PROVE  /\ Taken(o, t, Len(o)) \cup Left(o, t, Len(o)) = Range(o)
         /\ Taken(o, t, Len(o)) \cap Left(o, t, Len(o)) = {}
<1>1. DOMAIN o = 1 .. Len(o)
  OBVIOUS
<1>. QED
  BY <1>1, Zenon DEF Taken, Left, Range

\* wheel_push changes one slot, whatever the wheel holds.
LEMMA PushOn ==
  ASSUME NEW w \in Wheels, NEW e \in Events
  PROVE  Push(w, e) \in Wheels /\ On(Push(w, e)) = On(w) \cup {e}
<1>. DEFINE s0 == Slot(e.time)
            v  == Push(w, e)
            p  == <<e>>
<1>1. s0 \in Slots
  BY EventType, SlotType
<1>2. w[s0] \in Seq(Events) /\ p \in Seq(Events) /\ Range(p) = {e}
  BY <1>1, RangeOfOne DEF Wheels
<1>3. p \o w[s0] \in Seq(Events) /\ Range(p \o w[s0]) = Range(p) \cup Range(w[s0])
  <2>. HIDE DEF p, s0
  <2>. QED
    BY <1>2, RangeOfTwo
<1>4. v \in Wheels /\ v[s0] = p \o w[s0] /\ \A s \in Slots : s # s0 => v[s] = w[s]
  <2>1. v = [w EXCEPT ![s0] = p \o w[s0]]
    BY DEF Push
  <2>. HIDE DEF p, s0, v
  <2>. QED
    BY <1>1, <1>3, <2>1 DEF Wheels
<1>. HIDE DEF p, s0, v
<1>5. On(v) = On(w) \cup {e}
  BY <1>1, <1>2, <1>3, <1>4, Zenon DEF On
<1>. QED
  BY <1>4, <1>5 DEF v

\* overflow_insert.
LEMMA InsertParts ==
  ASSUME NEW o \in Seq(Events), NEW e \in Events
  PROVE  \E n \in 0 .. Len(o) :
           /\ OverflowInsert(o, e) = SubSeq(o, 1, n) \o <<e>> \o SubSeq(o, n + 1, Len(o))
           /\ \A i \in 1 .. n : o[i].time <= e.time
           /\ n < Len(o) => ~(o[n + 1].time <= e.time)
<1>. DEFINE ahead == {i \in DOMAIN o : \A j \in 1 .. i : o[j].time <= e.time}
            n     == Cardinality(ahead)
<1>1. n \in 0 .. Len(o) /\ ahead = 1 .. n
  <2>1. Len(o) \in Nat /\ ahead \in SUBSET (1 .. Len(o))
    OBVIOUS
  <2>2. \A i \in ahead, j \in 1 .. Len(o) : j <= i => j \in ahead
    OBVIOUS
  <2>. HIDE DEF ahead
  <2>. QED
    BY <2>1, <2>2, Segment
<1>2. OverflowInsert(o, e) = SubSeq(o, 1, n) \o <<e>> \o SubSeq(o, n + 1, Len(o))
  BY DEF OverflowInsert
<1>3. \A i \in 1 .. n : o[i].time <= e.time
  <2>1. \A i \in ahead : i \in DOMAIN o /\ \A j \in 1 .. i : o[j].time <= e.time
    OBVIOUS
  <2>2. \A i \in ahead : i \in 1 .. i
    OBVIOUS
  <2>. HIDE DEF ahead, n
  <2>. QED
    BY <1>1, <2>1, <2>2
<1>4. ASSUME n < Len(o) PROVE ~(o[n + 1].time <= e.time)
  <2>1. n + 1 \in DOMAIN o /\ n + 1 \notin ahead
    <3>. HIDE DEF ahead, n
    <3>. QED
      BY <1>1, <1>4
  <2>2. \A i \in 1 .. n + 1 : i \in 1 .. n \/ i = n + 1
    <3>. HIDE DEF ahead, n
    <3>. QED
      BY <1>1
  <2>. HIDE DEF n
  <2>. QED
    BY <1>3, <2>1, <2>2
<1>. HIDE DEF n
<1>. QED
  BY <1>1, <1>2, <1>3, <1>4

LEMMA InsertBehind ==
  ASSUME NEW o \in Seq(Events), NEW e \in Events
  PROVE  /\ OverflowInsert(o, e) \in Seq(Events)
         /\ Range(OverflowInsert(o, e)) = Range(o) \cup {e}
         /\ \A a \in Nat : Behind(o, a) /\ e.early /\ a <= e.time /\ e \notin Range(o)
              => Behind(OverflowInsert(o, e), a)
<1>1. PICK n \in 0 .. Len(o) :
        /\ OverflowInsert(o, e) = SubSeq(o, 1, n) \o <<e>> \o SubSeq(o, n + 1, Len(o))
        /\ \A i \in 1 .. n : o[i].time <= e.time
        /\ n < Len(o) => ~(o[n + 1].time <= e.time)
  BY InsertParts
<1>. DEFINE x == SubSeq(o, 1, n)
            y == <<e>>
            z == SubSeq(o, n + 1, Len(o))
            r == OverflowInsert(o, e)
            m == Len(o)
<1>2. m \in Nat /\ DOMAIN o = 1 .. m /\ (\A i \in 1 .. m : o[i] \in Events) /\ n \in 0 .. m
  OBVIOUS
<1>3. x \in Seq(Events) /\ Len(x) = n /\ \A i \in 1 .. n : x[i] = o[i]
  OBVIOUS
<1>4. z \in Seq(Events) /\ Len(z) = m - n /\ \A i \in 1 .. m - n : z[i] = o[n + i]
  OBVIOUS
<1>5. y \in Seq(Events) /\ Len(y) = 1 /\ y[1] = e
  OBVIOUS
<1>6. r = x \o y \o z
  BY <1>1
<1>7. o \in Seq(Events)
  OBVIOUS
<1>8. m = Len(o)
  OBVIOUS
<1>. DEFINE p == x \o y
<1>. HIDE DEF x, y, z, r, m
<1>9. /\ p \in Seq(Events) /\ Len(p) = n + 1
      /\ (\A i \in 1 .. n : p[i] = o[i]) /\ p[n + 1] = e
  <2>1. /\ p \in Seq(Events) /\ Len(p) = Len(x) + Len(y)
        /\ \A i \in 1 .. Len(x) : p[i] = x[i]
        /\ \A i \in 1 .. Len(y) : p[Len(x) + i] = y[i]
    BY <1>3, <1>5, JoinedQueues
  <2>. HIDE DEF p
  <2>. QED
    BY <1>2, <1>3, <1>5, <2>1
<1>10. /\ r \in Seq(Events) /\ Len(r) = Len(p) + Len(z) /\ DOMAIN r = 1 .. Len(p) + Len(z)
       /\ \A i \in 1 .. Len(p) : r[i] = p[i]
       /\ \A i \in 1 .. Len(z) : r[Len(p) + i] = z[i]
  <2>1. r = p \o z
    BY <1>6
  <2>2. p \in Seq(Events) /\ z \in Seq(Events)
    BY <1>4, <1>9
  <2>. HIDE DEF p
  <2>3. /\ p \o z \in Seq(Events) /\ Len(p \o z) = Len(p) + Len(z)
        /\ DOMAIN (p \o z) = 1 .. Len(p) + Len(z)
        /\ \A i \in 1 .. Len(p) : (p \o z)[i] = p[i]
        /\ \A i \in 1 .. Len(z) : (p \o z)[Len(p) + i] = z[i]
    BY <2>2, JoinedQueues
  <2>. QED
    BY <2>1, <2>3, Zenon
<1>. HIDE DEF p
<1>11. r \in Seq(Events) /\ Len(r) = m + 1 /\ DOMAIN r = 1 .. m + 1
  <2>1. Len(p) + Len(z) = m + 1
    BY <1>2, <1>4, <1>9
  <2>. QED
    BY <1>10, <2>1
<1>12. ASSUME NEW i \in 1 .. m + 1
       PROVE  r[i] = IF i <= n THEN o[i] ELSE IF i = n + 1 THEN e ELSE o[i - 1]
  <2>1. CASE i <= n
    <3>1. i \in 1 .. n /\ i \in 1 .. Len(p)
      BY <1>2, <1>9, <2>1
    <3>2. r[i] = p[i]
      BY <1>10, <3>1
    <3>. QED
      BY <1>9, <2>1, <3>1, <3>2
  <2>2. CASE i = n + 1
    <3>1. i \in 1 .. Len(p)
      BY <1>2, <1>9, <2>2
    <3>2. r[i] = p[i]
      BY <1>10, <3>1
    <3>. QED
      BY <1>2, <1>9, <2>2, <3>2
  <2>3. CASE i > n + 1
    <3>1. r[i] = z[i - (n + 1)] /\ i - (n + 1) \in 1 .. m - n
      <4>1. /\ i - (n + 1) \in 1 .. m - n /\ i - (n + 1) \in 1 .. Len(z)
            /\ Len(p) + (i - (n + 1)) = i
        BY <1>2, <1>4, <1>9, <2>3
      <4>2. r[Len(p) + (i - (n + 1))] = z[i - (n + 1)]
        BY <1>10, <4>1
      <4>. QED
        BY <4>1, <4>2
    <3>2. z[i - (n + 1)] = o[n + (i - (n + 1))] /\ n + (i - (n + 1)) = i - 1
      BY <1>2, <1>4, <3>1
    <3>. QED
      BY <1>2, <2>3, <3>1, <3>2
  <2>. QED
    BY <1>2, <2>1, <2>2, <2>3
<1>13. Range(r) = Range(o) \cup {e}
  <2>1. ASSUME NEW f \in Range(r) PROVE f \in Range(o) \cup {e}
    <3>1. PICK i \in 1 .. m + 1 : f = r[i]
      BY <1>11 DEF Range
    <3>2. CASE i <= n
      <4>1. i \in DOMAIN o /\ f = o[i]
        BY <1>2, <1>12, <3>1, <3>2
      <4>. QED
        BY <4>1 DEF Range
    <3>3. CASE i = n + 1
      BY <1>2, <1>12, <3>1, <3>3
    <3>4. CASE i > n + 1
      <4>1. i - 1 \in DOMAIN o /\ f = o[i - 1]
        BY <1>2, <1>12, <3>1, <3>4
      <4>. QED
        BY <4>1 DEF Range
    <3>. QED
      BY <1>2, <3>2, <3>3, <3>4
  <2>2. e \in Range(r)
    <3>1. n + 1 \in DOMAIN r /\ r[n + 1] = e
      BY <1>2, <1>11, <1>12
    <3>. QED
      BY <3>1 DEF Range
  <2>3. ASSUME NEW f \in Range(o) PROVE f \in Range(r)
    <3>1. PICK i \in 1 .. m : f = o[i]
      BY <1>2 DEF Range
    <3>2. CASE i <= n
      <4>1. i \in DOMAIN r /\ r[i] = f
        BY <1>2, <1>11, <1>12, <3>1, <3>2
      <4>. QED
        BY <4>1 DEF Range
    <3>3. CASE i > n
      <4>1. i + 1 \in DOMAIN r /\ r[i + 1] = o[(i + 1) - 1] /\ (i + 1) - 1 = i
        BY <1>2, <1>11, <1>12, <3>3
      <4>. QED
        BY <3>1, <4>1 DEF Range
    <3>. QED
      BY <1>2, <3>2, <3>3
  <2>. QED
    BY <2>1, <2>2, <2>3
<1>14. ASSUME NEW a \in Nat, Behind(o, a), e.early, a <= e.time, e \notin Range(o)
       PROVE  Behind(r, a)
  <2>1. \A i, j \in 1 .. m : i < j => o[i].time <= o[j].time
    BY <1>2, <1>14 DEF Behind
  <2>2. \A i \in 1 .. m : o[i].time \in Nat
    BY <1>2, EventType
  <2>3. e.time \in Nat
    BY EventType
  <2>4. \A i \in 1 .. n : o[i].time <= e.time
    BY <1>1
  <2>5. \A i \in n + 1 .. m : e.time <= o[i].time
    <3>. SUFFICES ASSUME NEW i \in n + 1 .. m PROVE e.time <= o[i].time
      OBVIOUS
    <3>1. n < m /\ n + 1 \in 1 .. m /\ i \in 1 .. m
      BY <1>2
    <3>2. e.time <= o[n + 1].time
      <4>1. n < Len(o) => ~(o[n + 1].time <= e.time)
        BY <1>1
      <4>. QED
        BY <1>8, <2>2, <2>3, <3>1, <4>1
    <3>3. o[n + 1].time <= o[i].time
      <4>1. CASE i = n + 1
        BY <2>2, <3>1, <4>1
      <4>2. CASE i # n + 1
        BY <1>2, <2>1, <3>1, <4>2
      <4>. QED
        BY <4>1, <4>2
    <3>. QED
      BY <2>2, <2>3, <3>1, <3>2, <3>3
  <2>6. ASSUME NEW i \in 1 .. m + 1, NEW j \in 1 .. m + 1, i < j
        PROVE  r[i].time <= r[j].time
    <3>1. CASE j <= n
      <4>1. r[i] = o[i] /\ r[j] = o[j] /\ i \in 1 .. m /\ j \in 1 .. m
        BY <1>2, <1>12, <2>6, <3>1
      <4>. QED
        BY <2>1, <2>6, <4>1
    <3>2. CASE j = n + 1
      <4>1. r[i] = o[i] /\ r[j] = e /\ i \in 1 .. n
        BY <1>2, <1>12, <2>6, <3>2
      <4>. QED
        BY <2>4, <4>1
    <3>3. CASE j > n + 1
      <4>1. r[j] = o[j - 1] /\ j - 1 \in n + 1 .. m /\ j - 1 \in 1 .. m
        BY <1>2, <1>12, <3>3
      <4>2. CASE i <= n
        <5>1. r[i] = o[i] /\ i \in 1 .. m /\ i < j - 1
          BY <1>2, <1>12, <3>3, <4>2
        <5>. QED
          BY <2>1, <4>1, <5>1
      <4>3. CASE i = n + 1
        <5>1. r[i] = e
          BY <1>2, <1>12, <4>3
        <5>. QED
          BY <2>5, <4>1, <5>1
      <4>4. CASE i > n + 1
        <5>1. r[i] = o[i - 1] /\ i - 1 \in 1 .. m /\ i - 1 < j - 1
          BY <1>2, <1>12, <2>6, <4>4
        <5>. QED
          BY <2>1, <4>1, <5>1
      <4>. QED
        BY <1>2, <4>2, <4>3, <4>4
    <3>. QED
      BY <1>2, <3>1, <3>2, <3>3
  <2>7. \A f \in Range(r) : f.early /\ a <= f.time
    BY <1>13, <1>14 DEF Behind
  <2>8. ASSUME NEW i \in 1 .. m + 1, NEW j \in 1 .. m + 1, i < j PROVE r[i] # r[j]
    <3>1. \A k, l \in 1 .. m : k # l => o[k] # o[l]
      BY <1>2, <1>14 DEF Behind, Once
    <3>2. \A k \in 1 .. m : o[k] # e
      BY <1>2, <1>14 DEF Range
    <3>3. CASE j <= n
      <4>1. r[i] = o[i] /\ r[j] = o[j] /\ i \in 1 .. m /\ j \in 1 .. m /\ i # j
        BY <1>2, <1>12, <2>8, <3>3
      <4>. QED
        BY <3>1, <4>1
    <3>4. CASE j = n + 1
      <4>1. r[i] = o[i] /\ r[j] = e /\ i \in 1 .. m
        BY <1>2, <1>12, <2>8, <3>4
      <4>. QED
        BY <3>2, <4>1
    <3>5. CASE j > n + 1
      <4>1. r[j] = o[j - 1] /\ j - 1 \in 1 .. m
        BY <1>2, <1>12, <3>5
      <4>2. CASE i <= n
        <5>1. r[i] = o[i] /\ i \in 1 .. m /\ i # j - 1
          BY <1>2, <1>12, <3>5, <4>2
        <5>. QED
          BY <3>1, <4>1, <5>1
      <4>3. CASE i = n + 1
        <5>1. r[i] = e
          BY <1>2, <1>12, <4>3
        <5>. QED
          BY <3>2, <4>1, <5>1
      <4>4. CASE i > n + 1
        <5>1. r[i] = o[i - 1] /\ i - 1 \in 1 .. m /\ i - 1 # j - 1
          BY <1>2, <1>12, <2>8, <4>4
        <5>. QED
          BY <3>1, <4>1, <5>1
      <4>. QED
        BY <1>2, <4>2, <4>3, <4>4
    <3>. QED
      BY <1>2, <3>3, <3>4, <3>5
  <2>9. Once(r)
    <3>. SUFFICES ASSUME NEW i \in 1 .. m + 1, NEW j \in 1 .. m + 1, r[i] = r[j] PROVE i = j
      BY <1>11 DEF Once
    <3>. QED
      BY <2>8
  <2>. QED
    BY <1>11, <2>6, <2>7, <2>9 DEF Behind
<1>15. r \in Seq(Events) /\ Range(r) = Range(o) \cup {e}
  BY <1>11, <1>13
<1>. QED
  BY <1>14, <1>15 DEF r

-----------------------------------------------------------------------------
(* What the queues hold at time t while the simulation is not over.        *)

\* The queues share no event.
Apart(w, o, q, n) ==
  /\ On(w) \cap Range(o) = {} /\ Range(q) \cap Range(n) = {}
  /\ (On(w) \cup Range(o)) \cap (Range(q) \cup Range(n)) = {}

\* Events that may be delivered at time t: they are for it, or for later and may be early.
Due(q, t) == q \in Seq(Events) /\ Once(q) /\ \A e \in Range(q) : t <= e.time /\ (~e.early => e.time = t)

\* What is active or an NBA may be delivered at time t; what is on the wheel or in the
\* overflow list is for later.
Ready(w, o, q, n, t) ==
  /\ Fits(w, t + 1, t + WheelSize) /\ Behind(o, t + 1) /\ Due(q, t) /\ Due(n, t)
  /\ Apart(w, o, q, n)

LEMMA FitsTypes ==
  ASSUME NEW w, NEW a, NEW b, Fits(w, a, b)
  PROVE  /\ w \in Wheels /\ \A s \in Slots : w[s] \in Seq(Events)
         /\ \A e \in On(w) : /\ e \in Events /\ e.time \in Nat /\ a <= e.time /\ e.time <= b
                             /\ ~e.early => e.time < b
         /\ \A e \in On(w) : Slot(e.time) \in Slots /\ e \in Range(w[Slot(e.time)])
<1>1. w \in Wheels /\ \A s \in Slots : w[s] \in Seq(Events)
  BY DEF Fits, Wheels
<1>2. ASSUME NEW e \in On(w)
      PROVE  /\ e \in Events /\ e.time \in Nat /\ a <= e.time /\ e.time <= b
             /\ ~e.early => e.time < b
             /\ Slot(e.time) \in Slots /\ e \in Range(w[Slot(e.time)])
  <2>1. PICK s \in Slots : e \in Range(w[s])
    BY DEF On
  <2>2. e \in Events
    BY <1>1, <2>1, RangeType
  <2>3. e.time \in Nat
    BY <2>2, EventType
  <2>. QED
    BY <2>1, <2>2, <2>3 DEF Fits
<1>. QED
  BY <1>1, <1>2

LEMMA BehindTypes ==
  ASSUME NEW o, NEW a, Behind(o, a)
  PROVE  \A e \in Range(o) : e \in Events /\ e.time \in Nat /\ e.early /\ a <= e.time
BY RangeType, EventType DEF Behind

LEMMA DueTypes ==
  ASSUME NEW q, NEW t, Due(q, t)
  PROVE  /\ q \in Seq(Events)
         /\ \A e \in Range(q) : e \in Events /\ e.time \in Nat /\ t <= e.time /\ (~e.early => e.time = t)
BY RangeType, EventType DEF Due

LEMMA NothingDue == ASSUME NEW t PROVE Due(<<>>, t) /\ Range(<<>>) = {}
BY DEF Due, Once, Range

\* Everything that is pending is for the present time or later.
LEMMA NotLate ==
  ASSUME NEW w, NEW o, NEW q, NEW n, NEW t \in Nat, Ready(w, o, q, n, t)
  PROVE  \A e \in Contents(w, o, q, n) : e.time >= t
<1>1. \A e \in On(w) : e.time \in Nat /\ t + 1 <= e.time
  BY FitsTypes DEF Ready
<1>2. \A e \in Range(o) : e.time \in Nat /\ t + 1 <= e.time
  BY BehindTypes DEF Ready
<1>3. \A e \in Range(q) \cup Range(n) : e.time \in Nat /\ t <= e.time
  BY DueTypes DEF Ready
<1>. QED
  BY <1>1, <1>2, <1>3 DEF Contents

\* Joining two queues that share no event.
LEMMA OnceOfTwo ==
  ASSUME NEW p \in Seq(Events), NEW q \in Seq(Events), Once(p), Once(q),
         Range(p) \cap Range(q) = {}
  PROVE  Once(p \o q)
<1>. DEFINE r == p \o q
            m == Len(p)
            k == Len(q)
<1>1. /\ m \in Nat /\ k \in Nat /\ DOMAIN r = 1 .. m + k
      /\ \A i \in 1 .. m : r[i] = p[i]
      /\ \A i \in 1 .. k : r[m + i] = q[i]
  BY JoinedQueues
<1>2. \A i, j \in 1 .. m : p[i] = p[j] => i = j
  BY DEF Once
<1>3. \A i, j \in 1 .. k : q[i] = q[j] => i = j
  BY DEF Once
<1>4. \A i \in 1 .. m, j \in 1 .. k : p[i] # q[j]
  BY DEF Range
<1>. HIDE DEF r, m, k
<1>5. ASSUME NEW i \in 1 .. m + k, NEW j \in 1 .. m + k, r[i] = r[j]
      PROVE  i = j
  <2>1. \A h \in 1 .. m + k : h > m => h - m \in 1 .. k /\ r[h] = q[h - m]
    <3>. SUFFICES ASSUME NEW h \in 1 .. m + k, h > m
                  PROVE  h - m \in 1 .. k /\ r[h] = q[h - m]
      OBVIOUS
    <3>1. h - m \in 1 .. k /\ m + (h - m) = h
      BY <1>1
    <3>. QED
      BY <1>1, <3>1
  <2>2. \A h \in 1 .. m + k : ~(h > m) => h \in 1 .. m /\ r[h] = p[h]
    BY <1>1
  <2>3. CASE i > m /\ j > m
    <3>1. i - m = j - m
      BY <1>3, <1>5, <2>1, <2>3
    <3>. QED
      BY <1>1, <3>1
  <2>4. CASE i > m /\ ~(j > m)
    BY <1>4, <1>5, <2>1, <2>2, <2>4
  <2>5. CASE ~(i > m) /\ j > m
    BY <1>4, <1>5, <2>1, <2>2, <2>5
  <2>6. CASE ~(i > m) /\ ~(j > m)
    BY <1>2, <1>5, <2>2, <2>6
  <2>. QED
    BY <2>3, <2>4, <2>5, <2>6
<1>6. Once(r)
  BY <1>1, <1>5 DEF Once
<1>. QED
  BY <1>6 DEF r

Emptied(w, t) == [w EXCEPT ![Slot(t)] = <<>>]

\* The slot of time t is emptied behind it: a new present time, or the present one
\* once more, and the NBAs n after what was on the wheel.
LEMMA LoadReady ==
  ASSUME NEW t \in Nat, NEW w, Fits(w, t, t + WheelSize), NEW o, Behind(o, t + 1),
         NEW n, Due(n, t), Apart(w, o, <<>>, n)
  PROVE  /\ Ready(Emptied(w, t), o, w[Slot(t)] \o n, <<>>, t)
         /\ Contents(Emptied(w, t), o, w[Slot(t)] \o n, <<>>) = Contents(w, o, <<>>, n)
<1>. DEFINE s0 == Slot(t)
            v  == Emptied(w, t)
            h  == w[s0]
<1>1. s0 \in Slots /\ w \in Wheels /\ h \in Seq(Events) /\ Once(h)
  BY SlotType, FitsTypes DEF Fits
<1>2. v \in Wheels /\ v[s0] = <<>> /\ \A s \in Slots : s # s0 => v[s] = w[s]
  BY <1>1 DEF Wheels, Emptied
<1>3. Range(<<>>) = {} /\ <<>> \in Seq(Events) /\ Once(<<>>) /\ Due(<<>>, t)
  BY NothingDue DEF Due
<1>4. \A e \in On(w) : /\ e \in Events /\ e.time \in Nat /\ t <= e.time /\ e.time <= t + WheelSize
                       /\ ~e.early => e.time < t + WheelSize
  BY FitsTypes
<1>5. \A s \in Slots : \A e \in Range(w[s]) : Slot(e.time) = s /\ e \in On(w)
  BY DEF Fits, On
<1>6. s0 = Slot(t)
  OBVIOUS
<1>7. Range(h) \subseteq On(w)
  BY <1>1, <1>5
<1>8. \A e \in Range(h) : Slot(e.time) = s0
  BY <1>1, <1>5
<1>. HIDE DEF s0, v, h
<1>9. \A e \in Range(h) : t <= e.time /\ (~e.early => e.time = t)
  <2>. SUFFICES ASSUME NEW e \in Range(h), ~e.early PROVE e.time = t
    BY <1>4, <1>7
  <2>1. e.time \in Nat /\ t <= e.time /\ e.time < t + WheelSize /\ Slot(t) = Slot(e.time)
    BY <1>4, <1>6, <1>7, <1>8
  <2>. QED
    BY <2>1, SlotOfTurn
<1>10. Fits(v, t + 1, t + WheelSize)
  <2>1. ASSUME NEW s \in Slots PROVE Once(v[s])
    BY <1>2, <1>3 DEF Fits
  <2>2. ASSUME NEW s \in Slots, NEW e \in Range(v[s])
        PROVE  /\ Slot(e.time) = s /\ t + 1 <= e.time /\ e.time <= t + WheelSize
               /\ ~e.early => e.time < t + WheelSize
    <3>1. s # s0 /\ v[s] = w[s]
      BY <1>2, <1>3, <2>2
    <3>2. Slot(e.time) = s /\ e \in On(w)
      BY <1>5, <2>2, <3>1
    <3>3. e.time # t
      BY <1>6, <3>1, <3>2
    <3>. QED
      BY <1>4, <3>2, <3>3
  <2>. QED
    BY <1>2, <2>1, <2>2 DEF Fits
<1>11. h \o n \in Seq(Events) /\ Range(h \o n) = Range(h) \cup Range(n)
  BY <1>1, DueTypes, RangeOfTwo
<1>12. Once(h \o n)
  <2>1. Range(h) \cap Range(n) = {} /\ n \in Seq(Events) /\ Once(n)
    BY <1>7 DEF Apart, Due
  <2>. QED
    BY <1>1, <2>1, OnceOfTwo
<1>13. Due(h \o n, t)
  <2>1. \A e \in Range(n) : t <= e.time /\ (~e.early => e.time = t)
    BY DueTypes
  <2>. QED
    BY <1>9, <1>11, <1>12, <2>1 DEF Due
<1>14. On(w) = On(v) \cup Range(h) /\ On(v) \cap Range(h) = {}
  <2>1. \A s \in Slots : s # s0 => Range(v[s]) = Range(w[s])
    BY <1>2
  <2>2. Range(v[s0]) = {}
    BY <1>2, <1>3
  <2>3. h = w[s0]
    BY DEF h
  <2>4. On(w) = On(v) \cup Range(h)
    BY <1>1, <2>1, <2>2, <2>3, Zenon DEF On
  <2>5. ASSUME NEW e \in On(v), e \in Range(h) PROVE FALSE
    <3>1. PICK s \in Slots : e \in Range(v[s])
      BY DEF On
    <3>2. s # s0 /\ e \in Range(w[s])
      BY <2>1, <2>2, <3>1
    <3>. QED
      BY <1>5, <1>8, <2>5, <3>2
  <2>. QED
    BY <2>4, <2>5
<1>15. Apart(v, o, h \o n, <<>>)
  BY <1>3, <1>11, <1>14 DEF Apart
<1>16. Ready(v, o, h \o n, <<>>, t)
  BY <1>3, <1>10, <1>13, <1>15 DEF Ready
<1>17. Contents(v, o, h \o n, <<>>) = Contents(w, o, <<>>, n)
  BY <1>3, <1>11, <1>14 DEF Contents
<1>. QED
  BY <1>16, <1>17 DEF v, h, s0

\* The head of the active queue is delivered: it may be at the present time, and is
\* pending no more.
LEMMA ProcessReady ==
  ASSUME NEW t \in Nat, NEW w, NEW o, NEW q, NEW n, Ready(w, o, q, n, t), q # <<>>
  PROVE  /\ Ready(w, o, Tail(q), n, t)
         /\ q[1] \in Events /\ q[1].time \in Nat /\ q[1] \in Contents(w, o, q, n)
         /\ t <= q[1].time /\ (~q[1].early => q[1].time = t)
         /\ Contents(w, o, Tail(q), n) = Contents(w, o, q, n) \ {q[1]}
<1>. DEFINE h == q[1]
            r == Tail(q)
            m == Len(q)
<1>1. q \in Seq(Events) /\ Once(q)
  BY DEF Ready, Due
<1>2. /\ m \in Nat /\ m >= 1 /\ r \in Seq(Events) /\ DOMAIN q = 1 .. m /\ DOMAIN r = 1 .. m - 1
      /\ (\A i \in 1 .. m - 1 : r[i] = q[i + 1]) /\ h \in Events
  BY <1>1
<1>3. \A i, j \in 1 .. m : q[i] = q[j] => i = j
  BY <1>1, <1>2 DEF Once
<1>4. h = q[1]
  OBVIOUS
<1>. HIDE DEF h, r, m
<1>5. Range(q) = Range(r) \cup {h}
  <2>1. \A i \in 1 .. m : i = 1 \/ (i - 1 \in 1 .. m - 1 /\ q[i] = r[i - 1])
    <3>. SUFFICES ASSUME NEW i \in 1 .. m, i # 1 PROVE i - 1 \in 1 .. m - 1 /\ q[i] = r[i - 1]
      OBVIOUS
    <3>1. i - 1 \in 1 .. m - 1 /\ (i - 1) + 1 = i
      BY <1>2
    <3>. QED
      BY <1>2, <3>1
  <2>2. \A i \in 1 .. m - 1 : i + 1 \in 1 .. m /\ r[i] = q[i + 1]
    BY <1>2
  <2>3. 1 \in 1 .. m
    BY <1>2
  <2>4. \A e : e \in Range(q) <=> \E i \in 1 .. m : e = q[i]
    BY <1>2 DEF Range
  <2>5. \A e : e \in Range(r) <=> \E i \in 1 .. m - 1 : e = r[i]
    BY <1>2 DEF Range
  <2>6. ASSUME NEW e \in Range(q) PROVE e \in Range(r) \cup {h}
    <3>1. PICK i \in 1 .. m : e = q[i]
      BY <2>4, <2>6
    <3>2. CASE i = 1
      BY <1>4, <3>1, <3>2
    <3>3. CASE i - 1 \in 1 .. m - 1 /\ q[i] = r[i - 1]
      BY <2>5, <3>1, <3>3
    <3>. QED
      BY <2>1, <3>2, <3>3
  <2>7. ASSUME NEW e \in Range(r) PROVE e \in Range(q)
    BY <2>2, <2>4, <2>5, Zenon
  <2>8. h \in Range(q)
    BY <1>4, <2>3, <2>4, Zenon
  <2>. QED
    BY <2>6, <2>7, <2>8
<1>6. h \in Range(q) /\ Range(r) \subseteq Range(q)
  BY <1>5
<1>7. h \notin Range(r)
  <2>. SUFFICES ASSUME NEW i \in 1 .. m - 1, r[i] = h PROVE FALSE
    BY <1>2 DEF Range
  <2>1. i + 1 \in 1 .. m /\ 1 \in 1 .. m /\ q[i + 1] = q[1] /\ i + 1 # 1
    BY <1>2, <1>4
  <2>. QED
    BY <1>3, <1>4, <2>1
<1>8. Once(r)
  <2>. SUFFICES ASSUME NEW i \in 1 .. m - 1, NEW j \in 1 .. m - 1, r[i] = r[j]
                PROVE  i = j
    BY <1>2 DEF Once
  <2>1. i + 1 \in 1 .. m /\ j + 1 \in 1 .. m /\ q[i + 1] = q[j + 1]
    BY <1>2
  <2>2. i + 1 = j + 1
    BY <1>3, <2>1
  <2>. QED
    BY <2>2
<1>9. \A e \in Range(q) : e.time \in Nat /\ t <= e.time /\ (~e.early => e.time = t)
  BY DueTypes DEF Ready
<1>10. Due(r, t)
  BY <1>2, <1>6, <1>8, <1>9 DEF Due
<1>11. Ready(w, o, r, n, t)
  BY <1>6, <1>10 DEF Ready, Apart
<1>12. h \notin On(w) /\ h \notin Range(o) /\ h \notin Range(n)
  BY <1>6 DEF Ready, Apart
<1>13. Contents(w, o, r, n) = Contents(w, o, q, n) \ {h}
  BY <1>5, <1>7, <1>12 DEF Contents
<1>14. h \in Contents(w, o, q, n)
  BY <1>6 DEF Contents
<1>. QED
  BY <1>2, <1>6, <1>9, <1>11, <1>13, <1>14 DEF h, r

\* An event is scheduled.
LEMMA ActiveReady ==
  ASSUME NEW t \in Nat, NEW w, NEW o, NEW q, NEW n, Ready(w, o, q, n, t),
         NEW e \in Events, t <= e.time, ~e.early => e.time = t, e \notin Contents(w, o, q, n)
  PROVE  Ready(w, o, Append(q, e), n, t) /\ Ready(w, o, q, Append(n, e), t)
<1>1. ASSUME NEW p, Due(p, t), e \notin Range(p)
      PROVE  Due(Append(p, e), t) /\ Range(Append(p, e)) = Range(p) \cup {e}
  <2>1. p \in Seq(Events) /\ Once(p)
    BY <1>1 DEF Due
  <2>2. Append(p, e) \in Seq(Events) /\ Range(Append(p, e)) = Range(p) \cup {e}
    BY <2>1, RangeOfAppend
  <2>3. Once(Append(p, e))
    BY <1>1, <2>1, OnceMore
  <2>. QED
    BY <1>1, <2>2, <2>3 DEF Due
<1>2. e \notin Range(q) /\ e \notin Range(n) /\ e \notin On(w) /\ e \notin Range(o)
  BY DEF Contents
<1>3. Due(q, t) /\ Due(n, t) /\ Apart(w, o, q, n)
  BY DEF Ready
<1>4. /\ Due(Append(q, e), t) /\ Range(Append(q, e)) = Range(q) \cup {e}
      /\ Due(Append(n, e), t) /\ Range(Append(n, e)) = Range(n) \cup {e}
  BY <1>1, <1>2, <1>3
<1>5. Apart(w, o, Append(q, e), n) /\ Apart(w, o, q, Append(n, e))
  BY <1>2, <1>3, <1>4 DEF Apart
<1>. QED
  BY <1>4, <1>5 DEF Ready

LEMMA LaterReady ==
  ASSUME NEW t \in Nat, NEW w, NEW o, NEW q, NEW n, Ready(w, o, q, n, t),
         NEW e \in Events, e.time > t, e.early <=> e.time >= t + WheelSize,
         e \notin Contents(w, o, q, n)
  PROVE  /\ e.time <= t + WheelSize => Ready(Push(w, e), o, q, n, t)
         /\ e.time > t + WheelSize => Ready(w, OverflowInsert(o, e), q, n, t)
<1>0. e.time \in Nat /\ t + WheelSize \in Nat /\ t + 1 \in Nat /\ t + 1 <= e.time
  BY EventType, ConstantTypes
<1>1. e \notin Range(q) /\ e \notin Range(n) /\ e \notin On(w) /\ e \notin Range(o)
  BY DEF Contents
<1>2. /\ Fits(w, t + 1, t + WheelSize) /\ Behind(o, t + 1) /\ o \in Seq(Events)
      /\ Due(q, t) /\ Due(n, t) /\ Apart(w, o, q, n)
  BY DEF Ready, Behind
<1>3. ASSUME e.time <= t + WheelSize PROVE Ready(Push(w, e), o, q, n, t)
  <2>1. ~e.early => e.time < t + WheelSize
    BY <1>0
  <2>2. Fits(Push(w, e), t + 1, t + WheelSize) /\ On(Push(w, e)) = On(w) \cup {e}
    BY <1>0, <1>1, <1>2, <1>3, <2>1, PushFits
  <2>3. Apart(Push(w, e), o, q, n)
    BY <1>1, <1>2, <2>2 DEF Apart
  <2>. QED
    BY <1>2, <2>2, <2>3 DEF Ready
<1>4. ASSUME e.time > t + WheelSize PROVE Ready(w, OverflowInsert(o, e), q, n, t)
  <2>1. e.early
    BY <1>0, <1>4
  <2>2. /\ Behind(OverflowInsert(o, e), t + 1)
        /\ Range(OverflowInsert(o, e)) = Range(o) \cup {e}
    BY <1>0, <1>1, <1>2, <2>1, InsertBehind
  <2>3. Apart(w, OverflowInsert(o, e), q, n)
    BY <1>1, <1>2, <2>2 DEF Apart
  <2>. QED
    BY <1>2, <2>2, <2>3 DEF Ready
<1>. QED
  BY <1>3, <1>4

-----------------------------------------------------------------------------
(* How time goes on.                                                       *)

\* Time may become t with w and o as the wheel and the overflow list, o from time a on.
Comes(t, w, o, a) ==
  /\ t \in now .. MaxTime /\ Fits(w, t, t + WheelSize) /\ Behind(o, a)
  /\ On(w) \cap Range(o) = {} /\ On(w) \cup Range(o) = On(wheel) \cup Range(overflow)

\* The wheel and the overflow list at the present time.
Present ==
  /\ now \in Nat /\ Fits(wheel, now + 1, now + WheelSize) /\ Behind(overflow, now + 1)
  /\ On(wheel) \cap Range(overflow) = {}

LEMMA PresentFits ==
  ASSUME Present
  PROVE  /\ Fits(Wheel, now + 1, now + WheelSize) /\ Behind(Overflow, now + 1)
         /\ \A e \in Range(Overflow) : e \in Events /\ e.time \in Nat /\ e.time > now + WheelSize
         /\ On(Wheel) \cap Range(Overflow) = {}
         /\ On(Wheel) \cup Range(Overflow) = On(wheel) \cup Range(overflow)
<1>1. /\ now \in Nat /\ now + 1 \in Nat /\ overflow \in Seq(Events) /\ Behind(overflow, now + 1)
      /\ Fits(wheel, now + 1, now + WheelSize) /\ On(wheel) \cap Range(overflow) = {}
  BY DEF Present, Behind
<1>2. /\ Fits(Wheel, now + 1, now + WheelSize)
      /\ On(Wheel) = On(wheel) \cup Taken(overflow, now, Len(overflow))
  BY <1>1, PushedFits DEF Wheel
<1>3. /\ Behind(Overflow, now + 1) /\ Range(Overflow) = Left(overflow, now, Len(overflow))
      /\ \A e \in Range(Overflow) : e.time > now + WheelSize
  BY <1>1, BeyondBehind DEF Overflow
<1>4. \A e \in Range(Overflow) : e \in Events /\ e.time \in Nat
  BY <1>3, BehindTypes
<1>5. /\ Taken(overflow, now, Len(overflow)) \cup Left(overflow, now, Len(overflow)) = Range(overflow)
      /\ Taken(overflow, now, Len(overflow)) \cap Left(overflow, now, Len(overflow)) = {}
  BY <1>1, AllTakenOrLeft
<1>. QED
  BY <1>1, <1>2, <1>3, <1>4, <1>5

\* What the wheel holds shows in the slots of the turn.
LEMMA SlotShows ==
  ASSUME now \in Nat, Fits(Wheel, now + 1, now + WheelSize), NEW u \in {now, now + 1}
  PROVE  /\ \A e \in On(Wheel) : e \in Events /\ e.time \in Nat /\ e.time \in Slotted(u)
         /\ \A s \in Slotted(u) : \E e \in On(Wheel) : e \in Range(Wheel[Slot(s)])
<1>1. ASSUME NEW e \in On(Wheel)
      PROVE  e \in Events /\ e.time \in Nat /\ e.time \in Slotted(u)
  <2>1. /\ e \in Events /\ e.time \in Nat /\ now + 1 <= e.time /\ e.time <= now + WheelSize
        /\ Slot(e.time) \in Slots /\ e \in Range(Wheel[Slot(e.time)])
    BY <1>1, FitsTypes
  <2>2. Wheel[Slot(e.time)] # <<>>
    BY <2>1, RangeOfOne
  <2>3. e.time \in u .. Horizon
    BY <2>1, ConstantTypes DEF Horizon
  <2>. QED
    BY <2>1, <2>2, <2>3 DEF Slotted
<1>2. ASSUME NEW s \in Slotted(u) PROVE \E e \in On(Wheel) : e \in Range(Wheel[Slot(s)])
  <2>1. s \in Nat /\ Wheel[Slot(s)] # <<>>
    BY ConstantTypes DEF Slotted, Horizon
  <2>2. Slot(s) \in Slots
    BY <2>1, SlotType
  <2>3. Wheel[Slot(s)] \in Seq(Events)
    BY <2>2, FitsTypes
  <2>4. 1 \in DOMAIN Wheel[Slot(s)]
    BY <2>1, <2>3
  <2>5. Wheel[Slot(s)][1] \in Range(Wheel[Slot(s)])
    BY <2>4 DEF Range
  <2>. QED
    BY <2>2, <2>5 DEF On
<1>. QED
  BY <1>1, <1>2

\* The nearest slot that has events.
LEMMA SlotComes ==
  ASSUME Present,
         NEW u \in {now, now + 1}, Slotted(u) # {}
  PROVE  /\ Comes(Nearest(Slotted(u)), Wheel, Overflow, Nearest(Slotted(u)) + 1)
         /\ Nearest(Slotted(u)) >= u
         /\ Wheel[Slot(Nearest(Slotted(u)))] # <<>>
<1>. DEFINE t == Nearest(Slotted(u))
<1>1. /\ Fits(Wheel, now + 1, now + WheelSize) /\ Behind(Overflow, now + 1)
      /\ \A e \in Range(Overflow) : e \in Events /\ e.time \in Nat /\ e.time > now + WheelSize
      /\ On(Wheel) \cap Range(Overflow) = {}
      /\ On(Wheel) \cup Range(Overflow) = On(wheel) \cup Range(overflow) /\ now \in Nat
  BY PresentFits DEF Present
<1>2. Slotted(u) \subseteq Nat
  BY <1>1, ConstantTypes DEF Slotted, Horizon
<1>3. t \in Slotted(u) /\ \A s \in Slotted(u) : t <= s
  <2>1. PICK m \in Slotted(u) : \A s \in Slotted(u) : m <= s
    BY <1>2, LeastNatural
  <2>. QED
    BY <2>1 DEF Nearest
<1>. HIDE DEF t
<1>4. t \in Nat /\ t >= u /\ t >= now /\ t <= now + WheelSize /\ Wheel[Slot(t)] # <<>>
  BY <1>1, <1>3, ConstantTypes DEF Slotted, Horizon
<1>5. \A e \in On(Wheel) : e \in Events /\ e.time \in Nat /\ t <= e.time
  BY <1>1, <1>3, SlotShows
<1>6. t <= MaxTime
  <2>1. PICK e \in On(Wheel) : e \in Range(Wheel[Slot(t)])
    BY <1>1, <1>3, SlotShows
  <2>2. e.time \in 0 .. MaxTime /\ t <= e.time
    BY <1>5, EventType
  <2>. QED
    BY <1>4, <2>2, ConstantTypes
<1>7. Fits(Wheel, t, t + WheelSize)
  <2>1. Wheel \in Wheels /\ \A s \in Slots : Once(Wheel[s])
    BY <1>1 DEF Fits
  <2>2. ASSUME NEW s \in Slots, NEW e \in Range(Wheel[s])
        PROVE  /\ Slot(e.time) = s /\ t <= e.time /\ e.time <= t + WheelSize
               /\ ~e.early => e.time < t + WheelSize
    <3>1. e \in On(Wheel) /\ Slot(e.time) = s
      BY <1>1, <2>2 DEF On, Fits
    <3>2. e.time \in Nat /\ e.time <= now + WheelSize /\ (~e.early => e.time < now + WheelSize)
      BY <1>1, <3>1, FitsTypes
    <3>. QED
      BY <1>1, <1>4, <1>5, <3>1, <3>2, ConstantTypes
  <2>. QED
    BY <2>1, <2>2 DEF Fits
<1>8. Behind(Overflow, t + 1)
  <2>1. \A e \in Range(Overflow) : t + 1 <= e.time
    BY <1>1, <1>4, ConstantTypes
  <2>. QED
    BY <1>1, <2>1 DEF Behind
<1>9. Comes(t, Wheel, Overflow, t + 1)
  BY <1>1, <1>4, <1>6, <1>7, <1>8, ConstantTypes DEF Comes
<1>. QED
  BY <1>4, <1>9 DEF t

\* Nothing on the wheel: time may become that of the first of the overflow list.
LEMMA OverflowComes ==
  ASSUME Present,
         NEW u \in {now, now + 1}, Slotted(u) = {}
  PROVE  /\ On(Wheel) = {}
         /\ Overflow # <<>> =>
              /\ Comes(Overflow[1].time, Wheel, Overflow, Overflow[1].time)
              /\ Overflow[1].time > now /\ Overflow[1] \in Range(Overflow)
<1>1. /\ Fits(Wheel, now + 1, now + WheelSize) /\ Behind(Overflow, now + 1)
      /\ \A e \in Range(Overflow) : e \in Events /\ e.time \in Nat /\ e.time > now + WheelSize
      /\ On(Wheel) \cap Range(Overflow) = {}
      /\ On(Wheel) \cup Range(Overflow) = On(wheel) \cup Range(overflow) /\ now \in Nat
  BY PresentFits DEF Present
<1>2. On(Wheel) = {}
  BY <1>1, SlotShows
<1>3. ASSUME Overflow # <<>>
      PROVE  /\ Comes(Overflow[1].time, Wheel, Overflow, Overflow[1].time)
             /\ Overflow[1].time > now /\ Overflow[1] \in Range(Overflow)
  <2>. DEFINE o == Overflow
              t == o[1].time
  <2>1. o \in Seq(Events) /\ \A i, j \in DOMAIN o : i < j => o[i].time <= o[j].time
    BY <1>1 DEF Behind
  <2>2. 1 \in DOMAIN o /\ \A i \in DOMAIN o : o[i] \in Range(o) /\ i \in Nat /\ (i = 1 \/ 1 < i)
    BY <1>3, <2>1 DEF Range
  <2>3. t \in Nat /\ t > now /\ t <= MaxTime /\ o[1] \in Range(o)
    <3>1. o[1] \in Range(o) /\ o[1] \in Events
      BY <1>1, <2>2
    <3>. QED
      BY <1>1, <3>1, EventType, ConstantTypes
  <2>4. Behind(o, t)
    <3>1. ASSUME NEW e \in Range(o) PROVE t <= e.time
      <4>1. PICK i \in DOMAIN o : e = o[i]
        BY <3>1 DEF Range
      <4>. QED
        BY <2>1, <2>2, <2>3, <4>1
    <3>. QED
      BY <1>1, <3>1 DEF Behind
  <2>5. Fits(Wheel, t, t + WheelSize)
    <3>1. \A s \in Slots : Range(Wheel[s]) = {}
      BY <1>2 DEF On
    <3>. QED
      BY <1>1, <3>1 DEF Fits
  <2>6. Comes(t, Wheel, o, t)
    BY <1>1, <2>3, <2>4, <2>5, ConstantTypes DEF Comes
  <2>. QED
    BY <2>3, <2>6
<1>. QED
  BY <1>2, <1>3

\* The overflow list is looked through once more at the new time.
LEMMA PushedComes ==
  ASSUME now \in Nat, NEW t, NEW w, NEW o, NEW a \in {t, t + 1}, Comes(t, w, o, a)
  PROVE  /\ Comes(t, Pushed(w, o, t), Beyond(o, t), t + 1)
         /\ \A e \in Range(o) : e.time = t =>
              e \in On(Pushed(w, o, t)) /\ Pushed(w, o, t)[Slot(t)] # <<>>
<1>1. /\ t \in Nat /\ t \in now .. MaxTime /\ Fits(w, t, t + WheelSize) /\ Behind(o, a)
      /\ On(w) \cap Range(o) = {}
  BY ConstantTypes DEF Comes
<1>2. o \in Seq(Events) /\ Behind(o, t)
  <2>1. \A e \in Range(o) : e.time \in Nat /\ a <= e.time
    BY <1>1, BehindTypes
  <2>2. \A e \in Range(o) : t <= e.time
    BY <1>1, <2>1
  <2>. QED
    BY <1>1, <2>2 DEF Behind
<1>3. /\ Fits(Pushed(w, o, t), t, t + WheelSize)
      /\ On(Pushed(w, o, t)) = On(w) \cup Taken(o, t, Len(o))
  BY <1>1, <1>2, PushedFits
<1>4. /\ Behind(Beyond(o, t), t) /\ Range(Beyond(o, t)) = Left(o, t, Len(o))
      /\ \A e \in Range(Beyond(o, t)) : e.time > t + WheelSize
  BY <1>1, <1>2, BeyondBehind
<1>5. Behind(Beyond(o, t), t + 1)
  <2>1. \A e \in Range(Beyond(o, t)) : e.time \in Nat
    BY <1>4, BehindTypes
  <2>2. \A e \in Range(Beyond(o, t)) : t + 1 <= e.time
    BY <1>1, <1>4, <2>1, ConstantTypes
  <2>. QED
    BY <1>4, <2>2 DEF Behind
<1>6. /\ Taken(o, t, Len(o)) \cup Left(o, t, Len(o)) = Range(o)
      /\ Taken(o, t, Len(o)) \cap Left(o, t, Len(o)) = {}
  BY <1>1, <1>2, AllTakenOrLeft
<1>7. Comes(t, Pushed(w, o, t), Beyond(o, t), t + 1)
  BY <1>1, <1>3, <1>4, <1>5, <1>6 DEF Comes
<1>8. ASSUME NEW e \in Range(o), e.time = t
      PROVE  e \in On(Pushed(w, o, t)) /\ Pushed(w, o, t)[Slot(t)] # <<>>
  <2>1. e \notin Range(Beyond(o, t))
    BY <1>1, <1>4, <1>8, ConstantTypes
  <2>2. e \in On(Pushed(w, o, t))
    BY <1>3, <1>4, <1>6, <2>1
  <2>3. e \in Range(Pushed(w, o, t)[Slot(t)])
    BY <1>3, <1>8, <2>2, FitsTypes
  <2>. QED
    BY <2>2, <2>3, RangeOfOne
<1>. QED
  BY <1>7, <1>8

-----------------------------------------------------------------------------
(* The inductive invariant.                                                *)

Queues == Ready(wheel, overflow, active, nbas, now)

Lists ==
  /\ wheel \in Wheels /\ active \in Seq(Events) /\ overflow \in Seq(Events) /\ nbas \in Seq(Events)
  /\ now \in 0 .. MaxTime

Control ==
  /\ client \in Clients /\ delta \in 0 .. MaxDelta + 1 /\ done \in BOOLEAN
  /\ mode \in {"idle", "run", "time"} /\ until \in 0 .. MaxTime /\ callback \in BOOLEAN
  /\ cause \in {"none", "empty", "until", "limit"} /\ (done <=> cause # "none")
  /\ (done => mode = "idle")

NbasOfClient == client.nba \/ nbas = <<>>

IInv == Control /\ Lists /\ NbasOfClient /\ (~done => Queues)

\* A client that steps by delta has no NBAs (a step by delta goes to the next slot
\* before it looks at them: libqsim/src/scheduler.c).
NoNbasByDelta == \A c \in Clients : ~(c.nba /\ "delta" \in c.api)

\* What Timeline sees of a step.
Kept  == T!Next \/ UNCHANGED T!vars

LEMMA OneMoreType ==
  ASSUME NEW d \in 0 .. MaxDelta + 1 PROVE OneMore(d) \in 0 .. MaxDelta + 1
BY ConstantTypes DEF OneMore

LEMMA PendingContents ==
  /\ Pending = Contents(wheel, overflow, active, nbas)
  /\ Pending' = Contents(wheel', overflow', active', nbas')
<1>. DEFINE U == UNION {Range(wheel[s]) : s \in Slots}
<1>1. Pending = U \cup Range(active) \cup Range(overflow) \cup Range(nbas)
  BY DEF Pending
<1>2. Pending' = U' \cup Range(active') \cup Range(overflow') \cup Range(nbas')
  BY DEF Pending
<1>3. On(wheel) = U /\ On(wheel') = U'
  BY DEF On
<1>. HIDE DEF U
<1>. QED
  BY <1>1, <1>2, <1>3 DEF Contents

LEMMA InvTypes == IInv => TypeOK
BY DEF IInv, Control, Lists, Wheels, TypeOK

LEMMA InitInv == Init => IInv
<1>. SUFFICES ASSUME Init PROVE IInv
  OBVIOUS
<1>. USE DEF Init
<1>0. <<>> \in Seq(Events) /\ Range(<<>>) = {} /\ DOMAIN <<>> = {}
  BY DEF Range
<1>1. Control
  <2>1. 0 \in 0 .. MaxDelta + 1 /\ 0 \in 0 .. MaxTime
    BY ConstantTypes
  <2>. QED
    BY <2>1, Zenon DEF Control
<1>2. Lists
  BY <1>0, ConstantTypes DEF Lists, Wheels
<1>3. NbasOfClient
  BY DEF NbasOfClient
<1>4. Once(<<>>) /\ Due(<<>>, now)
  BY <1>0, NothingDue DEF Once
<1>5. Fits(wheel, now + 1, now + WheelSize)
  BY <1>0, <1>2, <1>4 DEF Fits, Lists
<1>6. Behind(overflow, now + 1)
  BY <1>0, <1>4 DEF Behind
<1>7. Queues
  BY <1>0, <1>4, <1>5, <1>6 DEF Queues, Ready, Apart
<1>. QED
  BY <1>1, <1>2, <1>3, <1>7 DEF IInv

\* The control variables stay within their types.
LEMMA ControlKept == IInv /\ [Next]_vars => Control'
<1>. SUFFICES ASSUME IInv, [Next]_vars PROVE Control'
  OBVIOUS
<1>0. Control
  BY DEF IInv
<1>1. \A d \in 0 .. MaxDelta + 1 : OneMore(d) \in 0 .. MaxDelta + 1
  BY OneMoreType
<1>2. 0 \in 0 .. MaxDelta + 1
  BY ConstantTypes
<1>. USE DEF Control, Stop, GoOn
<1>3. ASSUME NEW why \in {"empty", "until", "limit"}, Stop(why), client' = client,
             delta' \in 0 .. MaxDelta + 1, until' = until, callback' \in BOOLEAN
      PROVE  Control'
  BY <1>0, <1>3
<1>4. ASSUME GoOn, client' = client,
             delta' \in 0 .. MaxDelta + 1, until' = until, callback' \in BOOLEAN
      PROVE  Control'
  BY <1>0, <1>4
<1>5. CASE RunNba /\ UNCHANGED client
  BY <1>0, <1>1, <1>3, <1>4, <1>5 DEF RunNba, RunDry
<1>6. CASE RunAdvance /\ UNCHANGED client
  BY <1>0, <1>2, <1>3, <1>4, <1>6 DEF RunAdvance, RunDry
<1>7. CASE RunExhausted /\ UNCHANGED client
  BY <1>0, <1>3, <1>7 DEF RunExhausted, RunDry
<1>8. CASE RunProcess /\ UNCHANGED client
  BY <1>0, <1>3, <1>4, <1>8 DEF RunProcess
<1>9. CASE TimeProcess /\ UNCHANGED client
  BY <1>0, <1>4, <1>9 DEF TimeProcess
<1>10. CASE TimeNba /\ UNCHANGED client
  BY <1>0, <1>1, <1>10 DEF TimeNba, TimeReturns
<1>11. CASE TimeAdvance /\ UNCHANGED client
  BY <1>0, <1>2, <1>11 DEF TimeAdvance, TimeReturns
<1>12. CASE TimeExhausted /\ UNCHANGED client
  BY <1>0, <1>3, <1>12 DEF TimeExhausted
<1>13. CASE Run /\ UNCHANGED client
  BY <1>0, <1>13 DEF Run
<1>14. CASE Time /\ UNCHANGED client
  BY <1>0, <1>14 DEF Time
<1>15. ASSUME NEW q, NEW d \in 0 .. MaxDelta + 1, StepProcess(q, d), UNCHANGED client
       PROVE  Control'
  BY <1>0, <1>1, <1>3, <1>4, <1>15 DEF StepProcess
<1>16. CASE StepActive /\ UNCHANGED client
  BY <1>0, <1>15, <1>16 DEF StepActive
<1>17. CASE StepAdvance /\ UNCHANGED client
  BY <1>0, <1>2, <1>15, <1>17 DEF StepAdvance
<1>18. CASE StepExhausted /\ UNCHANGED client
  BY <1>0, <1>3, <1>18 DEF StepExhausted
<1>19. ASSUME NEW e \in Events, Schedule(e) PROVE Control'
  BY <1>0, <1>19 DEF Schedule, SignalUpdate, NbaUpdate
<1>20. CASE UNCHANGED vars
  BY <1>0, <1>20 DEF vars
<1>. QED
  BY <1>5, <1>6, <1>7, <1>8, <1>9, <1>10, <1>11, <1>12, <1>13, <1>14, <1>16, <1>17, <1>18,
     <1>19, <1>20 DEF Next, Engine, Call

LEMMA NbasKept == IInv /\ [Next]_vars => NbasOfClient'
<1>. SUFFICES ASSUME IInv, [Next]_vars PROVE NbasOfClient'
  OBVIOUS
<1>1. NbasOfClient
  BY DEF IInv
<1>2. client' = client
  BY DEF Next, Engine, Call, Schedule, vars
<1>3. nbas' = nbas \/ nbas' = <<>> \/ client.nba
  <2>1. CASE Engine
    BY <2>1 DEF Engine, RunNba, RunAdvance, RunExhausted, RunProcess, TimeProcess, TimeNba, TimeAdvance,
       TimeExhausted, Load, TimeReturns
  <2>2. CASE Call
    BY <2>2 DEF Call, Run, Time, StepActive, StepAdvance, StepExhausted, Load
  <2>3. ASSUME NEW e \in Events, Schedule(e) PROVE nbas' = nbas \/ client.nba
    BY <2>3, Zenon DEF Schedule, SignalUpdate, NbaUpdate
  <2>4. CASE UNCHANGED vars
    BY <2>4 DEF vars
  <2>. QED
    BY <2>1, <2>2, <2>3, <2>4, Zenon DEF Next
<1>. QED
  BY <1>1, <1>2, <1>3, Zenon DEF NbasOfClient

-----------------------------------------------------------------------------
(* The steps, and what Timeline sees of them.                              *)

\* What the invariant says while the simulation is not over.
LEMMA Going ==
  ASSUME IInv, ~done
  PROVE  /\ Queues /\ Present /\ now \in Nat /\ now <= MaxTime /\ cause = "none"
         /\ Fits(wheel, now + 1, now + WheelSize) /\ Behind(overflow, now + 1)
         /\ wheel \in Wheels /\ active \in Seq(Events) /\ overflow \in Seq(Events)
         /\ nbas \in Seq(Events)
<1>1. Queues /\ cause = "none" /\ now \in 0 .. MaxTime
  BY DEF IInv, Control, Lists
<1>. QED
  BY <1>1, ConstantTypes DEF IInv, Lists, Queues, Ready, Apart, Present

\* Time goes on, or not, and nothing is delivered.
LEMMA Passes ==
  ASSUME IInv, ~done, NEW t, NEW w, NEW o, Comes(t, w, o, t + 1), active = <<>>, nbas = <<>>,
         now' = t, Pending' = Pending, cause' \in {"none", "until", "limit"}
  PROVE  Kept
<1>1. /\ now \in Nat /\ now <= MaxTime /\ cause = "none" /\ t \in now .. MaxTime /\ MaxTime \in Nat
  BY Going, ConstantTypes DEF Comes
<1>2. CASE t = now
  BY <1>1, <1>2 DEF Kept, T!vars
<1>3. CASE t # now
  <2>1. \A e \in On(w) : e.time \in Nat /\ t <= e.time
    BY FitsTypes DEF Comes
  <2>2. \A e \in Range(o) : e.time \in Nat /\ t + 1 <= e.time
    BY BehindTypes DEF Comes
  <2>3. Pending = On(w) \cup Range(o)
    BY RangeOfOne, PendingContents DEF Comes, Contents
  <2>4. \A e \in Pending : e.time > now /\ e.time >= t
    BY <1>1, <1>3, <2>1, <2>2, <2>3
  <2>5. t \in now + 1 .. MaxTime
    BY <1>1, <1>3
  <2>6. T!Advance
    BY <1>1, <2>4, <2>5 DEF T!Advance
  <2>. QED
    BY <2>6 DEF Kept, T!Next
<1>. QED
  BY <1>2, <1>3

\* An event is delivered at time t.
LEMMA Delivers ==
  ASSUME cause = "none", NEW e \in Events, e \in Pending, NEW t \in Nat, now \in Nat,
         now <= t, t <= e.time, ~e.early => e.time = t,
         now' = t, Pending' = Pending \ {e}, \A f \in Pending' : f.time >= t
  PROVE  Kept
<1>1. t \in now .. e.time
  BY EventType
<1>2. T!Deliver(e)
  BY <1>1 DEF T!Deliver
<1>. QED
  BY <1>2 DEF Kept, T!Next

\* RunProcess, TimeProcess, StepActive.
LEMMA ProcessStep ==
  ASSUME IInv, ~done, active # <<>>, active' = Tail(active),
         UNCHANGED <<wheel, overflow, nbas, now>>, cause' \in {"none", "limit"}
  PROVE  Queues' /\ Lists' /\ Kept
<1>. DEFINE h == active[1]
<1>1. Queues /\ now \in Nat /\ cause = "none" /\ overflow \in Seq(Events) /\ wheel \in Wheels
  BY Going
<1>2. /\ Ready(wheel, overflow, Tail(active), nbas, now)
      /\ h \in Events /\ h.time \in Nat /\ h \in Contents(wheel, overflow, active, nbas)
      /\ now <= h.time /\ (~h.early => h.time = now)
      /\ Contents(wheel, overflow, Tail(active), nbas)
           = Contents(wheel, overflow, active, nbas) \ {h}
  BY <1>1, ProcessReady DEF Queues
<1>3. Queues'
  BY <1>2 DEF Queues
<1>4. Lists'
  <2>1. Lists
    BY DEF IInv
  <2>2. Tail(active) \in Seq(Events)
    BY <1>2 DEF Ready, Due
  <2>. QED
    BY <2>1, <2>2 DEF Lists
<1>5. h \in Pending /\ Pending' = Pending \ {h}
  BY <1>2, PendingContents
<1>6. \A f \in Pending' : f.time >= now
  BY <1>1, <1>5, NotLate, PendingContents DEF Queues
<1>. HIDE DEF h
<1>7. Kept
  <2>1. now <= now /\ now' = now
    BY <1>1
  <2>. QED
    BY <1>1, <1>2, <1>5, <1>6, <2>1, Delivers
<1>. QED
  BY <1>3, <1>4, <1>7

\* Loaded.
LEMMA LoadFacts ==
  ASSUME IInv, ~done, NEW t, NEW w, NEW o, Comes(t, w, o, t + 1), active = <<>>, nbas = <<>>
  PROVE  /\ t \in Nat /\ t \in 0 .. MaxTime /\ Loaded(t, w) = w[Slot(t)] /\ Loaded(t, w) \in Seq(Events)
         /\ Ready(Emptied(w, t), o, Loaded(t, w), <<>>, t)
         /\ Contents(Emptied(w, t), o, Loaded(t, w), <<>>) = Pending
<1>1. t \in Nat /\ t \in 0 .. MaxTime /\ Fits(w, t, t + WheelSize) /\ Behind(o, t + 1)
  <2>1. now \in Nat
    BY Going
  <2>. QED
    BY <2>1, ConstantTypes DEF Comes
<1>2. w[Slot(t)] \in Seq(Events)
  BY <1>1, FitsTypes, SlotType
<1>3. Loaded(t, w) = w[Slot(t)] \o <<>> /\ Loaded(t, w) = w[Slot(t)]
  BY <1>2 DEF Loaded
<1>4. Range(<<>>) = {} /\ Due(<<>>, t)
  BY NothingDue
<1>5. /\ Ready(Emptied(w, t), o, w[Slot(t)] \o <<>>, <<>>, t)
      /\ Contents(Emptied(w, t), o, w[Slot(t)] \o <<>>, <<>>) = Contents(w, o, <<>>, <<>>)
  <2>1. Apart(w, o, <<>>, <<>>)
    BY <1>4 DEF Apart, Comes
  <2>. QED
    BY <1>1, <1>4, <2>1, LoadReady
<1>6. Pending = Contents(w, o, <<>>, <<>>)
  BY <1>4, PendingContents DEF Comes, Contents
<1>. QED
  BY <1>1, <1>2, <1>3, <1>5, <1>6

\* RunAdvance, TimeAdvance.
LEMMA AdvanceStep ==
  ASSUME IInv, ~done, NEW t, NEW w, NEW o, Comes(t, w, o, t + 1), active = <<>>, nbas = <<>>,
         active' = Loaded(t, w), Load(t, w, o), cause' = "none"
  PROVE  Queues' /\ Lists' /\ Kept
<1>1. /\ t \in Nat /\ t \in 0 .. MaxTime /\ Loaded(t, w) \in Seq(Events)
      /\ Ready(Emptied(w, t), o, Loaded(t, w), <<>>, t)
      /\ Contents(Emptied(w, t), o, Loaded(t, w), <<>>) = Pending
  BY LoadFacts
<1>2. /\ active' = Loaded(t, w) /\ now' = t /\ nbas' = <<>> /\ overflow' = o
      /\ wheel' = Emptied(w, t)
  BY DEF Load, Emptied
<1>3. Queues'
  BY <1>1, <1>2 DEF Queues
<1>4. Lists'
  BY <1>1, <1>2, <1>3 DEF Lists, Queues, Ready, Due, Fits, Behind
<1>5. Pending' = Pending
  BY <1>1, <1>2, PendingContents
<1>6. Kept
  BY <1>2, <1>5, Passes
<1>. QED
  BY <1>3, <1>4, <1>6

\* StepAdvance: time goes on, and what comes first then is delivered.
LEMMA DeliverStep ==
  ASSUME IInv, ~done, NEW t, NEW w, NEW o, Comes(t, w, o, t + 1), active = <<>>, nbas = <<>>,
         w[Slot(t)] # <<>>, active' = Tail(Loaded(t, w)), Load(t, w, o), cause' \in {"none", "limit"}
  PROVE  Queues' /\ Lists' /\ Kept
<1>. DEFINE q == Loaded(t, w)
            v == Emptied(w, t)
            h == q[1]
<1>1. /\ t \in Nat /\ t \in 0 .. MaxTime /\ q \in Seq(Events) /\ q # <<>>
      /\ Ready(v, o, q, <<>>, t) /\ Contents(v, o, q, <<>>) = Pending
  BY LoadFacts
<1>2. /\ active' = Tail(q) /\ now' = t /\ nbas' = <<>> /\ overflow' = o /\ wheel' = v
  BY DEF Load, Emptied
<1>. HIDE DEF q, v
<1>3. /\ Ready(v, o, Tail(q), <<>>, t)
      /\ h \in Events /\ h \in Pending /\ t <= h.time /\ (~h.early => h.time = t)
      /\ Contents(v, o, Tail(q), <<>>) = Pending \ {h}
  <2>1. /\ Ready(v, o, Tail(q), <<>>, t)
        /\ q[1] \in Events /\ q[1] \in Contents(v, o, q, <<>>)
        /\ t <= q[1].time /\ (~q[1].early => q[1].time = t)
        /\ Contents(v, o, Tail(q), <<>>) = Contents(v, o, q, <<>>) \ {q[1]}
    BY <1>1, ProcessReady
  <2>. QED
    BY <1>1, <2>1
<1>4. Queues'
  BY <1>2, <1>3 DEF Queues
<1>5. Lists'
  BY <1>1, <1>2, <1>3 DEF Lists, Ready, Due, Fits, Behind
<1>6. Pending' = Pending \ {h}
  BY <1>2, <1>3, PendingContents
<1>7. \A f \in Pending' : f.time >= t
  BY <1>1, <1>6, NotLate
<1>. HIDE DEF h
<1>8. Kept
  <2>1. cause = "none" /\ now \in Nat /\ now <= t
    BY Going DEF Comes
  <2>. QED
    BY <1>1, <1>2, <1>3, <1>6, <1>7, <2>1, Delivers
<1>. QED
  BY <1>4, <1>5, <1>8

\* RunNba, when the run goes on.
LEMMA NbaStep ==
  ASSUME IInv, ~done, active = <<>>, active' = Loaded(now, wheel), Load(now, wheel, overflow),
         cause' = "none"
  PROVE  Queues' /\ Lists' /\ Kept
<1>1. /\ now \in Nat /\ now <= MaxTime /\ cause = "none" /\ Queues
      /\ Fits(wheel, now + 1, now + WheelSize) /\ Behind(overflow, now + 1) /\ nbas \in Seq(Events)
  BY Going
<1>2. Fits(wheel, now, now + WheelSize)
  <2>1. \A s \in Slots : \A e \in Range(wheel[s]) : e.time \in Nat /\ now <= e.time
    <3>1. \A e \in On(wheel) : e.time \in Nat /\ now + 1 <= e.time
      BY <1>1, FitsTypes
    <3>2. \A s \in Slots : \A e \in Range(wheel[s]) : e \in On(wheel)
      BY DEF On
    <3>. QED
      BY <1>1, <3>1, <3>2
  <2>. QED
    BY <1>1, <2>1 DEF Fits
<1>3. Due(nbas, now)
  BY <1>1 DEF Queues, Ready
<1>4. Apart(wheel, overflow, <<>>, nbas)
  BY <1>1, RangeOfOne DEF Queues, Ready, Apart
<1>5. wheel[Slot(now)] \in Seq(Events) /\ Loaded(now, wheel) = wheel[Slot(now)] \o nbas
  <2>1. wheel[Slot(now)] \in Seq(Events)
    BY <1>1, FitsTypes, SlotType
  <2>. QED
    BY <2>1 DEF Loaded
<1>6. /\ Ready(Emptied(wheel, now), overflow, wheel[Slot(now)] \o nbas, <<>>, now)
      /\ Contents(Emptied(wheel, now), overflow, wheel[Slot(now)] \o nbas, <<>>)
           = Contents(wheel, overflow, <<>>, nbas)
  BY <1>1, <1>2, <1>3, <1>4, LoadReady
<1>7. /\ active' = wheel[Slot(now)] \o nbas /\ now' = now /\ nbas' = <<>> /\ overflow' = overflow
      /\ wheel' = Emptied(wheel, now)
  BY <1>5 DEF Load, Emptied
<1>8. Queues'
  BY <1>6, <1>7 DEF Queues
<1>9. Lists'
  <2>1. now \in 0 .. MaxTime
    BY DEF IInv, Lists
  <2>. QED
    BY <1>7, <1>8, <2>1 DEF Lists, Queues, Ready, Due, Fits, Behind
<1>10. Pending' = Pending
  BY <1>6, <1>7, PendingContents
<1>11. Kept
  <2>1. (cause' = "empty") = (cause = "empty")
    BY <1>1
  <2>2. UNCHANGED T!vars
    BY <1>7, <1>10, <2>1 DEF T!vars
  <2>. QED
    BY <2>2 DEF Kept
<1>. QED
  BY <1>8, <1>9, <1>11

\* TimeNba.
LEMMA TimeNbaStep ==
  ASSUME IInv, ~done, active = <<>>, active' = nbas, nbas' = <<>>,
         UNCHANGED <<wheel, overflow, now, cause>>
  PROVE  Queues' /\ Lists' /\ Kept
<1>1. now \in Nat /\ Queues
  BY Going
<1>2. <<>> \in Seq(Events) /\ Range(<<>>) = {} /\ Due(<<>>, now)
  BY NothingDue
<1>3. Ready(wheel, overflow, nbas, <<>>, now)
  BY <1>1, <1>2 DEF Queues, Ready, Apart
<1>4. Queues'
  BY <1>3 DEF Queues
<1>5. Lists'
  BY <1>2 DEF IInv, Lists
<1>6. Pending' = Pending
  BY <1>2, PendingContents DEF Contents
<1>7. Kept
  <2>1. UNCHANGED T!vars
    BY <1>6 DEF T!vars
  <2>. QED
    BY <2>1 DEF Kept
<1>. QED
  BY <1>4, <1>5, <1>7

\* Nothing is pending any more.
LEMMA FinishStep ==
  ASSUME IInv, ~done, active = <<>>, nbas = <<>>, NEW u \in {now, now + 1}, Slotted(u) = {},
         Overflow = <<>>, UNCHANGED <<wheel, active, overflow, nbas, now>>, cause' = "empty"
  PROVE  Lists' /\ Kept
<1>1. Present
  BY Going
<1>2. On(Wheel) = {} /\ On(Wheel) \cup Range(Overflow) = On(wheel) \cup Range(overflow)
  BY <1>1, PresentFits, OverflowComes
<1>3. Pending = {} /\ Pending' = Pending
  <2>1. On(wheel) = {} /\ Range(overflow) = {}
    BY <1>2, RangeOfOne
  <2>2. Contents(wheel, overflow, active, nbas) = {}
    BY <2>1, RangeOfOne DEF Contents
  <2>3. Contents(wheel', overflow', active', nbas') = Contents(wheel, overflow, active, nbas)
    OBVIOUS
  <2>. QED
    BY <2>2, <2>3, PendingContents
<1>4. T!Finish
  BY <1>3 DEF T!Finish
<1>5. Lists'
  BY DEF IInv, Lists
<1>. QED
  BY <1>4, <1>5 DEF Kept, T!Next

\* An event is scheduled, and the queues stay ready.
LEMMA ScheduleStep ==
  ASSUME IInv, NEW e \in Events, Schedule(e)
  PROVE  Lists' /\ (~done => Queues') /\ Kept /\ done' = done
<1>1. /\ e.time >= now /\ \A f \in Pending : f.id < e.id
      /\ e.early <=> e.time >= IF e.nba THEN now + 1 ELSE now + WheelSize
  BY DEF Schedule, SignalUpdate, NbaUpdate, CanSchedule, MayBeEarly, Horizon
<1>2. now' = now /\ cause' = cause /\ done' = done
  BY DEF Schedule, SignalUpdate, NbaUpdate
<1>3. Lists /\ now \in Nat /\ e.time \in Nat /\ e.id \in Nat
  BY EventType, ConstantTypes DEF IInv, Lists
<1>4. \A f \in Pending : f.id # e.id
  <2>1. ASSUME NEW f \in Pending, f.id = e.id PROVE FALSE
    BY <1>1, <1>3, <2>1
  <2>. QED
    BY <2>1
<1>5. e \notin Contents(wheel, overflow, active, nbas)
  BY <1>4, PendingContents
<1>6. /\ wheel \in Wheels /\ active \in Seq(Events) /\ overflow \in Seq(Events)
      /\ nbas \in Seq(Events) /\ now \in 0 .. MaxTime
  BY <1>3 DEF Lists
<1>7. ASSUME ~done PROVE Ready(wheel, overflow, active, nbas, now)
  BY <1>7 DEF IInv, Queues
<1>8. /\ Lists' /\ (~done => Queues')
      /\ Contents(wheel', overflow', active', nbas')
           = Contents(wheel, overflow, active, nbas) \cup {e}
  <2>1. CASE /\ e.time = now /\ active' = Append(active, e)
             /\ UNCHANGED <<wheel, overflow, nbas, now>>
    <3>1. Append(active, e) \in Seq(Events) /\ Range(Append(active, e)) = Range(active) \cup {e}
      BY <1>6, RangeOfAppend
    <3>2. Lists'
      BY <1>6, <2>1, <3>1 DEF Lists
    <3>3. ASSUME ~done PROVE Queues'
      <4>1. Ready(wheel, overflow, Append(active, e), nbas, now)
        BY <1>3, <1>5, <1>7, <2>1, <3>3, ActiveReady
      <4>. QED
        BY <2>1, <4>1 DEF Queues
    <3>. QED
      BY <2>1, <3>1, <3>2, <3>3 DEF Contents
  <2>2. CASE /\ e.nba /\ nbas' = Append(nbas, e)
             /\ UNCHANGED <<wheel, overflow, active, now>>
    <3>1. Append(nbas, e) \in Seq(Events) /\ Range(Append(nbas, e)) = Range(nbas) \cup {e}
      BY <1>6, RangeOfAppend
    <3>2. Lists'
      BY <1>6, <2>2, <3>1 DEF Lists
    <3>3. ASSUME ~done PROVE Queues'
      <4>1. now <= e.time /\ (~e.early => e.time = now)
        BY <1>1, <1>3, <2>2
      <4>2. Ready(wheel, overflow, active, Append(nbas, e), now)
        BY <1>3, <1>5, <1>7, <3>3, <4>1, ActiveReady
      <4>. QED
        BY <2>2, <4>2 DEF Queues
    <3>. QED
      BY <2>2, <3>1, <3>2, <3>3 DEF Contents
  <2>3. CASE /\ ~e.nba /\ e.time # now /\ e.time <= now + WheelSize /\ wheel' = Push(wheel, e)
             /\ UNCHANGED <<nbas, overflow, active, now>>
    <3>1. Push(wheel, e) \in Wheels /\ On(Push(wheel, e)) = On(wheel) \cup {e}
      BY <1>6, PushOn
    <3>2. Lists'
      BY <1>6, <2>3, <3>1 DEF Lists
    <3>3. ASSUME ~done PROVE Queues'
      <4>1. e.time > now
        BY <1>1, <1>3, <2>3
      <4>2. Ready(Push(wheel, e), overflow, active, nbas, now)
        BY <1>1, <1>3, <1>5, <1>7, <2>3, <3>3, <4>1, LaterReady
      <4>. QED
        BY <2>3, <4>2 DEF Queues
    <3>. QED
      BY <2>3, <3>1, <3>2, <3>3 DEF Contents
  <2>4. CASE /\ ~e.nba /\ e.time > now + WheelSize /\ overflow' = OverflowInsert(overflow, e)
             /\ UNCHANGED <<nbas, wheel, active, now>>
    <3>1. /\ OverflowInsert(overflow, e) \in Seq(Events)
          /\ Range(OverflowInsert(overflow, e)) = Range(overflow) \cup {e}
      BY <1>6, InsertBehind
    <3>2. Lists'
      BY <1>6, <2>4, <3>1 DEF Lists
    <3>3. ASSUME ~done PROVE Queues'
      <4>1. e.time > now
        BY <1>3, <2>4, ConstantTypes
      <4>2. Ready(wheel, OverflowInsert(overflow, e), active, nbas, now)
        BY <1>1, <1>3, <1>5, <1>7, <2>4, <3>3, <4>1, LaterReady
      <4>. QED
        BY <2>4, <4>2 DEF Queues
    <3>. QED
      BY <2>4, <3>1, <3>2, <3>3 DEF Contents
  <2>5. CASE SignalUpdate(e)
    BY <2>1, <2>3, <2>4, <2>5 DEF SignalUpdate, Horizon
  <2>6. CASE NbaUpdate(e)
    BY <2>2, <2>6 DEF NbaUpdate
  <2>. QED
    BY <2>5, <2>6 DEF Schedule
<1>9. Pending' = Pending \cup {e}
  BY <1>8, PendingContents
<1>10. Kept
  <2>1. (cause' = "empty") = (cause = "empty")
    BY <1>2
  <2>2. T!Schedule(e)
    BY <1>1, <1>2, <1>4, <1>9, <2>1 DEF T!Schedule
  <2>. QED
    BY <2>2 DEF Kept, T!Next
<1>. QED
  BY <1>2, <1>8, <1>10

\* Nothing that Timeline sees, or that the queues hold, changes.
LEMMA IdleStep ==
  ASSUME IInv, UNCHANGED <<wheel, overflow, active, nbas, now, cause>>
  PROVE  Lists' /\ (Queues => Queues') /\ Kept
<1>1. Lists'
  BY DEF IInv, Lists
<1>2. Queues => Queues'
  BY DEF Queues
<1>3. Contents(wheel', overflow', active', nbas') = Contents(wheel, overflow, active, nbas)
  OBVIOUS
<1>4. Pending' = Pending
  BY <1>3, PendingContents
<1>5. UNCHANGED T!vars
  BY <1>4 DEF T!vars
<1>. QED
  BY <1>1, <1>2, <1>5 DEF Kept

LEMMA RunAdvanceStep ==
  ASSUME IInv, RunAdvance
  PROVE  Lists' /\ (~done' => Queues') /\ Kept
<1>. DEFINE t == Nearest(RunTimes)
            w == Pushed(Wheel, Overflow, t)
            o == Beyond(Overflow, t)
<1>1. ~done
  BY DEF RunAdvance, RunDry, IInv, Control
<1>2. Present /\ now \in Nat /\ cause = "none" /\ now <= MaxTime
  BY <1>1, Going
<1>3. active = <<>> /\ nbas = <<>> /\ RunTimes # {}
  BY DEF RunAdvance, RunDry
<1>4. \/ active' = Loaded(t, w) /\ Load(t, w, o) /\ GoOn
      \/ /\ Stop("until") /\ now' = t /\ wheel' = w /\ overflow' = o
         /\ UNCHANGED <<active, nbas>>
  BY DEF RunAdvance
<1>5. Comes(t, Wheel, Overflow, t + 1)
  <2>1. CASE Overflow = <<>>
    <3>1. RunTimes = Slotted(now + 1)
      BY <2>1 DEF RunTimes
    <3>. QED
      BY <1>2, <1>3, <3>1, SlotComes
  <2>2. CASE Overflow # <<>>
    <3>1. RunTimes = now + 1 .. now + WheelSize
      BY <2>2 DEF RunTimes, Horizon
    <3>2. t = now + 1
      <4>1. now + 1 \in RunTimes /\ \A s \in RunTimes : now + 1 <= s
        BY <1>2, <3>1, ConstantTypes
      <4>2. t \in RunTimes /\ \A s \in RunTimes : t <= s
        BY <4>1 DEF Nearest
      <4>. HIDE DEF t
      <4>3. t \in now + 1 .. now + WheelSize /\ t <= now + 1
        BY <3>1, <4>1, <4>2
      <4>. QED
        BY <1>2, <4>3
    <3>3. /\ Fits(Wheel, now + 1, now + WheelSize) /\ Behind(Overflow, now + 1)
          /\ \A e \in Range(Overflow) : e \in Events /\ e.time \in Nat /\ e.time > now + WheelSize
          /\ On(Wheel) \cap Range(Overflow) = {}
          /\ On(Wheel) \cup Range(Overflow) = On(wheel) \cup Range(overflow)
      BY <1>2, PresentFits
    <3>4. now + 1 <= MaxTime
      <4>1. Overflow \in Seq(Events) /\ 1 \in DOMAIN Overflow
        BY <2>2, <3>3 DEF Behind
      <4>2. Overflow[1] \in Range(Overflow)
        BY <4>1 DEF Range
      <4>3. Overflow[1].time > now + WheelSize /\ Overflow[1].time \in 0 .. MaxTime
        BY <3>3, <4>2, EventType
      <4>. QED
        BY <1>2, <4>3, ConstantTypes
    <3>. HIDE DEF t
    <3>5. Fits(Wheel, t, t + WheelSize)
      <4>1. Wheel \in Wheels /\ \A s \in Slots : Once(Wheel[s])
        BY <3>3 DEF Fits
      <4>2. \A e \in On(Wheel) : e.time \in Nat /\ now + 1 <= e.time /\ e.time <= now + WheelSize
        BY <3>3, FitsTypes
      <4>3. ASSUME NEW s \in Slots, NEW e \in Range(Wheel[s])
            PROVE  /\ Slot(e.time) = s /\ t <= e.time /\ e.time <= t + WheelSize
                   /\ ~e.early => e.time < t + WheelSize
        <5>1. e \in On(Wheel) /\ Slot(e.time) = s
          BY <3>3, <4>3 DEF On, Fits
        <5>. QED
          BY <1>2, <3>2, <4>2, <5>1, ConstantTypes
      <4>. QED
        BY <4>1, <4>3 DEF Fits
    <3>6. Behind(Overflow, t + 1)
      <4>1. \A e \in Range(Overflow) : t + 1 <= e.time
        BY <1>2, <3>2, <3>3, ConstantTypes
      <4>. QED
        BY <3>3, <4>1 DEF Behind
    <3>7. t \in now .. MaxTime
      BY <1>2, <3>2, <3>4, ConstantTypes
    <3>. QED
      BY <3>3, <3>5, <3>6, <3>7 DEF Comes
  <2>. QED
    BY <2>1, <2>2
<1>. HIDE DEF t, w, o
<1>6. Comes(t, w, o, t + 1)
  BY <1>2, <1>5, PushedComes DEF w, o
<1>7. CASE active' = Loaded(t, w) /\ Load(t, w, o) /\ GoOn
  <2>1. cause' = "none"
    BY <1>2, <1>7 DEF GoOn
  <2>. QED
    BY <1>1, <1>3, <1>6, <1>7, <2>1, AdvanceStep
<1>8. CASE /\ Stop("until") /\ now' = t /\ wheel' = w /\ overflow' = o
           /\ UNCHANGED <<active, nbas>>
  <2>1. done' /\ cause' = "until"
    BY <1>8 DEF Stop
  <2>2. Lists'
    <3>1. t \in 0 .. MaxTime /\ w \in Wheels /\ o \in Seq(Events)
      BY <1>2, <1>6, ConstantTypes DEF Comes, Fits, Behind
    <3>. QED
      BY <1>8, <3>1 DEF IInv, Lists
  <2>3. Pending' = Pending
    <3>1. Contents(w, o, active, nbas) = Contents(wheel, overflow, active, nbas)
      BY <1>6 DEF Comes, Contents
    <3>. QED
      BY <1>8, <3>1, PendingContents
  <2>4. Kept
    BY <1>1, <1>3, <1>6, <1>8, <2>1, <2>3, Passes
  <2>. QED
    BY <2>1, <2>2, <2>4
<1>. QED
  BY <1>4, <1>7, <1>8

LEMMA TimeAdvanceStep ==
  ASSUME IInv, TimeAdvance
  PROVE  Lists' /\ (~done' => Queues') /\ Kept
<1>1. ~done /\ active = <<>> /\ nbas = <<>> /\ cause' = cause
  BY DEF TimeAdvance, TimeReturns, IInv, Control
<1>2. Present /\ now \in Nat /\ cause = "none"
  BY <1>1, Going
<1>3. CASE Slotted(now + 1) # {}
  <2>. DEFINE t == Nearest(Slotted(now + 1))
  <2>1. active' = Loaded(t, Wheel) /\ Load(t, Wheel, Overflow)
    BY <1>3 DEF TimeAdvance
  <2>2. Comes(t, Wheel, Overflow, t + 1)
    BY <1>2, <1>3, SlotComes
  <2>. HIDE DEF t
  <2>. QED
    BY <1>1, <1>2, <2>1, <2>2, AdvanceStep
<1>4. CASE Slotted(now + 1) = {}
  <2>. DEFINE t == Overflow[1].time
              w == Pushed(Wheel, Overflow, t)
              o == Beyond(Overflow, t)
  <2>1. Overflow # <<>> /\ active' = Loaded(t, w) /\ Load(t, w, o)
    BY <1>4 DEF TimeAdvance
  <2>2. Comes(t, Wheel, Overflow, t)
    BY <1>2, <1>4, <2>1, OverflowComes
  <2>3. Comes(t, w, o, t + 1)
    <3>. HIDE DEF t
    <3>. QED
      BY <1>2, <2>2, PushedComes
  <2>. HIDE DEF t, w, o
  <2>. QED
    BY <1>1, <1>2, <2>1, <2>3, AdvanceStep
<1>. QED
  BY <1>3, <1>4

LEMMA StepAdvanceStep ==
  ASSUME NoNbasByDelta, IInv, StepAdvance
  PROVE  Lists' /\ (~done' => Queues') /\ Kept
<1>1. ~done /\ active = <<>> /\ "delta" \in client.api
  BY DEF StepAdvance, CanStep
<1>2. nbas = <<>>
  <2>1. client \in Clients /\ NbasOfClient
    BY DEF IInv, Control
  <2>2. ~client.nba
    BY <1>1, <2>1, Zenon DEF NoNbasByDelta
  <2>. QED
    BY <2>1, <2>2, Zenon DEF NbasOfClient
<1>3. Present /\ now \in Nat /\ cause = "none"
  BY <1>1, Going
<1>4. \A q, d : StepProcess(q, d) => active' = Tail(q) /\ cause' \in {"none", "limit"}
  BY <1>3 DEF StepProcess, Stop, GoOn
<1>5. CASE Slotted(now) # {}
  <2>. DEFINE t == Nearest(Slotted(now))
  <2>1. StepProcess(Loaded(t, Wheel), 0) /\ Load(t, Wheel, Overflow)
    BY <1>5 DEF StepAdvance
  <2>2. Comes(t, Wheel, Overflow, t + 1) /\ Wheel[Slot(t)] # <<>>
    BY <1>3, <1>5, SlotComes
  <2>. HIDE DEF t
  <2>3. active' = Tail(Loaded(t, Wheel)) /\ cause' \in {"none", "limit"}
    BY <1>4, <2>1
  <2>. QED
    BY <1>1, <1>2, <2>1, <2>2, <2>3, DeliverStep
<1>6. CASE Slotted(now) = {}
  <2>. DEFINE t == Overflow[1].time
              w == Pushed(Wheel, Overflow, t)
              o == Beyond(Overflow, t)
  <2>1. Overflow # <<>> /\ StepProcess(Loaded(t, w), 0) /\ Load(t, w, o)
    BY <1>2, <1>6 DEF StepAdvance
  <2>2. Comes(t, Wheel, Overflow, t) /\ Overflow[1] \in Range(Overflow) /\ Overflow[1].time = t
    BY <1>3, <1>6, <2>1, OverflowComes
  <2>3. Comes(t, w, o, t + 1) /\ w[Slot(t)] # <<>>
    <3>. HIDE DEF t
    <3>. QED
      BY <1>3, <2>2, PushedComes
  <2>. HIDE DEF t, w, o
  <2>4. active' = Tail(Loaded(t, w)) /\ cause' \in {"none", "limit"}
    BY <1>4, <2>1
  <2>. QED
    BY <1>1, <1>2, <2>1, <2>3, <2>4, DeliverStep
<1>. QED
  BY <1>5, <1>6

\* Every step.
LEMMA StepKept ==
  ASSUME NoNbasByDelta, IInv, [Next]_vars
  PROVE  IInv' /\ Kept
<1>1. Lists' /\ (~done' => Queues') /\ Kept
  <2>0. Control /\ (~done => Queues) /\ (~done => cause = "none")
    BY DEF IInv, Control
  <2>1. CASE RunNba
    <3>1. ~done /\ active = <<>>
      BY <2>0, <2>1 DEF RunNba, RunDry, Control
    <3>2. CASE active' = Loaded(now, wheel) /\ Load(now, wheel, overflow) /\ GoOn
      BY <2>0, <3>1, <3>2, NbaStep DEF GoOn
    <3>3. CASE Stop("until") /\ UNCHANGED <<wheel, active, overflow, nbas, now>>
      <4>1. done' /\ (cause' = "empty") = (cause = "empty")
        BY <2>0, <3>1, <3>3 DEF Stop
      <4>2. Lists'
        BY <3>3 DEF IInv, Lists
      <4>3. Contents(wheel', overflow', active', nbas') = Contents(wheel, overflow, active, nbas)
        BY <3>3
      <4>4. UNCHANGED T!vars
        BY <3>3, <4>1, <4>3, PendingContents DEF T!vars
      <4>. QED
        BY <4>1, <4>2, <4>4 DEF Kept
    <3>. QED
      BY <2>1, <3>2, <3>3 DEF RunNba
  <2>2. CASE RunAdvance
    BY <2>2, RunAdvanceStep
  <2>3. CASE RunExhausted
    <3>1. /\ ~done /\ active = <<>> /\ nbas = <<>> /\ RunTimes = {} /\ cause' = "empty" /\ done'
          /\ UNCHANGED <<wheel, active, overflow, nbas, now>>
      BY <2>0, <2>3 DEF RunExhausted, RunDry, Stop, Control
    <3>2. now \in Nat
      BY <3>1, Going
    <3>3. Overflow = <<>> /\ Slotted(now + 1) = {}
      <4>1. now + 1 \in now + 1 .. Horizon
        BY <3>2, ConstantTypes DEF Horizon
      <4>. QED
        BY <3>1, <4>1 DEF RunTimes
    <3>. QED
      BY <3>1, <3>3, FinishStep
  <2>4. CASE RunProcess
    <3>1. /\ ~done /\ active # <<>> /\ active' = Tail(active)
          /\ UNCHANGED <<wheel, overflow, nbas, now>> /\ cause' \in {"none", "limit"}
      BY <2>0, <2>4 DEF RunProcess, Stop, GoOn, Control
    <3>. QED
      BY <3>1, ProcessStep
  <2>5. CASE TimeProcess
    <3>1. /\ ~done /\ active # <<>> /\ active' = Tail(active)
          /\ UNCHANGED <<wheel, overflow, nbas, now>> /\ cause' \in {"none", "limit"}
      BY <2>0, <2>5 DEF TimeProcess, Control
    <3>. QED
      BY <3>1, ProcessStep
  <2>6. CASE TimeNba
    <3>1. /\ ~done /\ active = <<>> /\ active' = nbas /\ nbas' = <<>>
          /\ UNCHANGED <<wheel, overflow, now, cause>>
      BY <2>0, <2>6 DEF TimeNba, TimeReturns, Control
    <3>. QED
      BY <3>1, TimeNbaStep
  <2>7. CASE TimeAdvance
    BY <2>7, TimeAdvanceStep
  <2>8. CASE TimeExhausted
    <3>1. /\ ~done /\ active = <<>> /\ nbas = <<>> /\ cause' = "empty" /\ done'
          /\ Overflow = <<>> /\ Slotted(now + 1) = {}
          /\ UNCHANGED <<wheel, active, overflow, nbas, now>>
      BY <2>0, <2>8 DEF TimeExhausted, Stop, Control
    <3>. QED
      BY <3>1, FinishStep
  <2>9. CASE Run
    BY <2>0, <2>9, IdleStep DEF Run
  <2>10. CASE Time
    BY <2>0, <2>10, IdleStep DEF Time
  <2>11. CASE StepActive
    <3>1. /\ ~done /\ active # <<>> /\ active' = Tail(active)
          /\ UNCHANGED <<wheel, overflow, nbas, now>> /\ cause' \in {"none", "limit"}
      BY <2>0, <2>11 DEF StepActive, CanStep, StepProcess, Stop, GoOn
    <3>. QED
      BY <3>1, ProcessStep
  <2>12. CASE StepAdvance
    BY <2>12, StepAdvanceStep
  <2>13. CASE StepExhausted
    <3>1. /\ ~done /\ active = <<>> /\ nbas = <<>> /\ cause' = "empty" /\ done'
          /\ Overflow = <<>> /\ Slotted(now) = {}
          /\ UNCHANGED <<wheel, active, overflow, nbas, now>>
      BY <2>13 DEF StepExhausted, CanStep, Stop
    <3>. QED
      BY <3>1, FinishStep
  <2>14. ASSUME NEW e \in Events, Schedule(e) PROVE Lists' /\ (~done' => Queues') /\ Kept
    BY <2>14, ScheduleStep
  <2>15. CASE UNCHANGED vars
    BY <2>0, <2>15, IdleStep DEF vars
  <2>. QED
    BY <2>1, <2>2, <2>3, <2>4, <2>5, <2>6, <2>7, <2>8, <2>9, <2>10, <2>11, <2>12, <2>13, <2>14,
       <2>15, Zenon DEF Next, Engine, Call
<1>. QED
  BY <1>1, ControlKept, NbasKept DEF IInv

-----------------------------------------------------------------------------

\* Every event is delivered once and none after its time, an update of the present time
\* and a signal update less than a turn of the wheel ahead exactly at theirs, and the
\* simulation ends by itself only when nothing is pending: for any clients that schedule
\* for the present or for later, but those that have NBAs and step by delta.
THEOREM SchedulerIsTimeline == ASSUME NoNbasByDelta PROVE Spec => IsTimeline
<1>1. Init => IInv
  BY InitInv
<1>2. IInv /\ [Next]_vars => IInv'
  BY StepKept
<1>3. Init => T!Init
  <2>. SUFFICES ASSUME Init PROVE T!Init
    OBVIOUS
  <2>1. \A s \in Slots : Range(wheel[s]) = {}
    BY RangeOfOne DEF Init
  <2>2. On(wheel) = {}
    BY <2>1 DEF On
  <2>3. Contents(wheel, overflow, active, nbas) = {}
    BY <2>2, RangeOfOne DEF Init, Contents
  <2>4. Pending = {}
    BY <2>3, PendingContents
  <2>. QED
    BY <2>4 DEF Init, T!Init
<1>4. IInv /\ [Next]_vars => [T!Next]_(T!vars)
  BY StepKept DEF Kept
<1>. QED
  BY <1>1, <1>2, <1>3, <1>4, PTL DEF Spec, IsTimeline, T!Spec

\* The queues hold events and the control variables are within their bounds, the times
\* within MaxTime and the deltas within the limit: for the same clients.
THEOREM SchedulerTypes == ASSUME NoNbasByDelta PROVE Spec => []TypeOK
<1>1. Init => IInv
  BY InitInv
<1>2. IInv /\ [Next]_vars => IInv'
  BY StepKept
<1>3. IInv => TypeOK
  BY InvTypes
<1>. QED
  BY <1>1, <1>2, <1>3, PTL DEF Spec
=============================================================================
