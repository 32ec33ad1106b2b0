-------------------------- MODULE Requests_proofs --------------------------
(***************************************************************************)
(* Three theorems, for any number of clients, connections, calls and       *)
(* restarts, and however the streams are cut: a request finds the session  *)
(* its client was told of (Found); one thread at a time works under the    *)
(* mutex; and answers are taken in the order of the calls, one for each    *)
(* (Paired).                                                               *)
(*                                                                         *)
(* Found.  A session's number travels: from the thread that creates it     *)
(* through an answer, the stream, the client's buffer and its memory into  *)
(* a later request.  The invariant says at each of these places that it is *)
(* the number of a session that was created; sessions are never taken      *)
(* away.                                                                   *)
(*                                                                         *)
(* Paired.  What a client has still to read of its connection begins with  *)
(* at most one line end left over and is then the answers, in all their    *)
(* parts, to the first calls it has due; the call being served and those   *)
(* on the way there are the rest.  The invariant says so of the buffer and *)
(* the stream joined, so that it does not matter where TCP cuts them; and  *)
(* that a client's connection is open and no other client's, so that no    *)
(* answer is dropped and none goes elsewhere.                              *)
(***************************************************************************)
EXTENDS Requests, Segments, SequenceTheorems

\* What travels while n sessions have been created and m connections made.
Pieces(n) == [part : {"header", "body", "newline"}, id : Nat,
              answer : [ok : BOOLEAN, sid : 0 .. n]]
Methods   == {"compile", "elaborate", "simulate"}
Requested(n) ==
  {q \in [id : Nat, m : Methods, sid : 0 .. n, source : {"good", "bad"}] :
     q.m # "compile" => q.sid # 0}
Unasked == [id |-> 0, m |-> "none", sid |-> 0, source |-> "good"]
Busy    == {"create", "want", "work"}
\* A busy thread has a request, and has a session to work on once it wants the mutex.
Threads(n) ==
  [up : Seq(Requested(n)), down : Seq(Pieces(n)), open : BOOLEAN, alive : BOOLEAN,
   at : Busy \cup {"read", "gone"}, req : Requested(n) \cup {Unasked}, on : 0 .. n]
Conns(n) ==
  {r \in Threads(n) : /\ r.at \in Busy => r.req \in Requested(n)
                      /\ r.at \in {"want", "work"} => r.on # 0}
ClientRecords(n, m) ==
  [sock : 0 .. m, waiting : BOOLEAN, compiling : BOOLEAN, id : Nat, sid : 0 .. n,
   buf : Seq(Pieces(n)), calls : Nat, connects : Nat, timeouts : Nat, late : Nat]
\* A client that waits has a connection to wait on.
ClientsOf(n, m) == {r \in ClientRecords(n, m) : r.waiting => r.sock # 0}
\* Nothing takes a session away, and none is from a process still to come.
SessionsBy(n) == [state : {"new", "compiled", "elaborated"}, born : 0 .. n, gone : {FALSE}]

FoundInv ==
  /\ client \in [Clients -> ClientsOf(Len(sessions), Len(conn))]
  /\ conn \in Seq(Conns(Len(sessions)))
  /\ sessions \in Seq(SessionsBy(kills)) /\ kills \in Nat

\* The thread that works is the one that holds the mutex.
OneWorks == \A k \in DOMAIN conn : Runs(k, "work") => lock = k

-----------------------------------------------------------------------------
(* The buffer.                                                              *)

\* _read_response drops line ends and keeps the rest of the buffer.
LEMMA StrippedIsPart ==
  ASSUME NEW P, NEW buf \in Seq(P)
  PROVE  Stripped(buf) \in Seq(P)
<1>1. LineEnds(buf) \in SUBSET (1 .. Len(buf))
  BY DEF LineEnds
<1>2. Len(buf) \in Nat
  OBVIOUS
<1>3. IsFiniteSet(1 .. Len(buf)) /\ Cardinality(1 .. Len(buf)) = Len(buf)
  <2>. DEFINE l == Len(buf)
  <2>1. l \in Nat
    BY <1>2
  <2>. HIDE DEF l
  <2>2. IsFiniteSet(1 .. l) /\ Cardinality(1 .. l) = l
    BY <2>1, FS_Interval
  <2>. QED
    BY <2>2 DEF l
<1>4. IsFiniteSet(LineEnds(buf)) /\ Cardinality(LineEnds(buf)) <= Len(buf)
  BY <1>1, <1>3, FS_Subset
<1>5. Cardinality(LineEnds(buf)) \in 0 .. Len(buf)
  BY <1>2, <1>4, FS_CardinalityType
<1> QED
  BY <1>2, <1>5 DEF Stripped

-----------------------------------------------------------------------------
(* What one step changes.                                                   *)

\* What travels goes on being well typed when sessions and connections are added.
LEMMA Growing ==
  ASSUME NEW n \in Nat, NEW m \in Nat, NEW nn \in Nat, NEW mm \in Nat, n <= nn, m <= mm
  PROVE  Conns(n) \subseteq Conns(nn) /\ ClientsOf(n, m) \subseteq ClientsOf(nn, mm)
<1>1. Pieces(n) \subseteq Pieces(nn) /\ Requested(n) \subseteq Requested(nn)
  BY DEF Pieces, Requested
<1>2. Seq(Pieces(n)) \subseteq Seq(Pieces(nn)) /\ Seq(Requested(n)) \subseteq Seq(Requested(nn))
  BY <1>1
<1>3. 0 .. n \subseteq 0 .. nn /\ 0 .. m \subseteq 0 .. mm
  OBVIOUS
<1>4. Threads(n) \subseteq Threads(nn)
  BY <1>1, <1>2, <1>3, SMTT(30) DEF Threads
<1>5. ClientRecords(n, m) \subseteq ClientRecords(nn, mm)
  BY <1>2, <1>3, SMTT(30) DEF ClientRecords
<1> QED
  BY <1>1, <1>4, <1>5 DEF Conns, ClientsOf

\* An answer in its parts.
LEMMA MessageIsTyped ==
  ASSUME NEW n \in Nat, NEW i \in Nat, NEW ok \in BOOLEAN, NEW s \in 0 .. n
  PROVE  Message(i, Answer(ok, s)) \in Seq(Pieces(n))
BY DEF Message, Answer, Parts, Pieces

\* One field of a client's or a thread's record is set.
LEMMA ClientFields ==
  ASSUME NEW n, NEW m, NEW w \in ClientsOf(n, m)
  PROVE  /\ \A k \in 0 .. m : (k # 0 \/ ~w.waiting) => [w EXCEPT !.sock = k] \in ClientsOf(n, m)
         /\ \A b \in BOOLEAN : (b => w.sock # 0) => [w EXCEPT !.waiting = b] \in ClientsOf(n, m)
         /\ \A b \in BOOLEAN : [w EXCEPT !.compiling = b] \in ClientsOf(n, m)
         /\ \A i \in 0 .. n : [w EXCEPT !.sid = i] \in ClientsOf(n, m)
         /\ \A s \in Seq(Pieces(n)) : [w EXCEPT !.buf = s] \in ClientsOf(n, m)
         /\ \A i \in Nat : /\ [w EXCEPT !.id = i] \in ClientsOf(n, m)
                           /\ [w EXCEPT !.calls = i] \in ClientsOf(n, m)
                           /\ [w EXCEPT !.connects = i] \in ClientsOf(n, m)
                           /\ [w EXCEPT !.timeouts = i] \in ClientsOf(n, m)
                           /\ [w EXCEPT !.late = i] \in ClientsOf(n, m)
         /\ w.sock \in 0 .. m /\ w.sid \in 0 .. n /\ w.buf \in Seq(Pieces(n))
         /\ {w.id, w.calls, w.connects, w.timeouts, w.late} \subseteq Nat
BY DEF ClientsOf, ClientRecords

LEMMA ThreadFields ==
  ASSUME NEW n, NEW w \in Threads(n)
  PROVE  /\ \A s \in Seq(Requested(n)) : [w EXCEPT !.up = s] \in Threads(n)
         /\ \A s \in Seq(Pieces(n)) : [w EXCEPT !.down = s] \in Threads(n)
         /\ \A b \in BOOLEAN : /\ [w EXCEPT !.open = b] \in Threads(n)
                               /\ [w EXCEPT !.alive = b] \in Threads(n)
         /\ \A a \in Busy \cup {"read", "gone"} : [w EXCEPT !.at = a] \in Threads(n)
         /\ \A q \in Requested(n) : [w EXCEPT !.req = q] \in Threads(n)
         /\ \A i \in 0 .. n : [w EXCEPT !.on = i] \in Threads(n)
         /\ w.up \in Seq(Requested(n)) /\ w.down \in Seq(Pieces(n)) /\ w.on \in 0 .. n
BY DEF Threads

\* A step that changes one client and no session.
LEMMA ClientStep ==
  ASSUME FoundInv, NEW c \in Clients, NEW r, Set(c, r), UNCHANGED <<sessions, kills>>,
         conn' \in Seq(Conns(Len(sessions))), Len(conn') >= Len(conn),
         r \in ClientsOf(Len(sessions), Len(conn'))
  PROVE  FoundInv'
<1> DEFINE n == Len(sessions)
<1>1. n \in Nat /\ Len(conn) \in Nat /\ Len(conn') \in Nat
  BY DEF FoundInv
<1>2. ClientsOf(n, Len(conn)) \subseteq ClientsOf(n, Len(conn'))
  BY <1>1, Growing
<1>3. client' \in [Clients -> ClientsOf(n, Len(conn'))]
  BY <1>2 DEF FoundInv, Set
<1> QED
  BY <1>3 DEF FoundInv

\* A step of one thread that changes no session.
LEMMA ThreadStep ==
  ASSUME FoundInv, NEW k \in DOMAIN conn, NEW r \in Conns(Len(sessions)), Thread(k, r),
         UNCHANGED <<client, sessions, kills>>
  PROVE  FoundInv'
<1>1. conn' \in Seq(Conns(Len(sessions))) /\ Len(conn') = Len(conn)
  BY DEF FoundInv, Thread
<1> QED
  BY <1>1 DEF FoundInv

LEMMA InitFound == Init => FoundInv
<1> SUFFICES ASSUME Init PROVE FoundInv
  OBVIOUS
<1>1. Fresh \in ClientsOf(0, 0)
  BY DEF Fresh, ClientsOf, ClientRecords, Pieces
<1> QED
  BY <1>1 DEF Init, FoundInv

-----------------------------------------------------------------------------
(* The client.                                                              *)

LEMMA ConnectFound ==
  ASSUME FoundInv, NEW c \in Clients, Connect(c)
  PROVE  FoundInv'
<1> DEFINE n == Len(sessions)
           m == Len(conn')
<1>1. NewConn \in Conns(n)
  BY DEF NewConn, Conns, Threads, Unasked, Busy, FoundInv
<1>2. conn' \in Seq(Conns(n)) /\ Len(conn') = Len(conn) + 1
  BY <1>1 DEF FoundInv, Connect
<1>3. m \in 0 .. m /\ m # 0 /\ n \in Nat /\ <<>> \in Seq(Pieces(n)) /\ Len(conn) \in 0 .. m
  BY <1>2 DEF FoundInv
<1>4. client[c] \in ClientsOf(n, m)
  <2>1. client[c] \in ClientsOf(n, Len(conn)) /\ Len(conn) \in Nat /\ Len(conn) <= m /\ m \in Nat
    BY <1>2 DEF FoundInv
  <2> QED
    BY <1>3, <2>1, Growing
<1> DEFINE v == [client[c] EXCEPT !.sock = m]
           w == [v EXCEPT !.id = 0]
           x == [w EXCEPT !.buf = <<>>]
           y == [x EXCEPT !.late = 0]
           j == y.connects + 1
           z == [y EXCEPT !.connects = j]
<1> HIDE DEF n, m
<1>5. v \in ClientsOf(n, m)
  BY <1>3, <1>4, ClientFields
<1>6. w \in ClientsOf(n, m)
  BY <1>5, ClientFields
<1>7. x \in ClientsOf(n, m)
  BY <1>3, <1>6, ClientFields
<1>8. y \in ClientsOf(n, m)
  BY <1>7, ClientFields
<1> HIDE DEF y
<1>9. j \in Nat
  BY <1>8, ClientFields
<1>10. z \in ClientsOf(n, m)
  BY <1>8, <1>9, ClientFields
<1>11. Set(c, z)
  BY DEF Connect, y, m
<1> QED
  BY <1>2, <1>3, <1>10, <1>11, ClientStep DEF Connect, n, m

LEMMA CloseFound ==
  ASSUME FoundInv, NEW c \in Clients, Close(c)
  PROVE  FoundInv'
<1> DEFINE n == Len(sessions)
           k == client[c].sock
           r == [client[c] EXCEPT !.sock = 0]
<1>1. client[c] \in ClientsOf(n, Len(conn)) /\ Len(conn) \in Nat
  BY DEF FoundInv
<1>2. k \in DOMAIN conn
  BY <1>1 DEF Close, ClientsOf, ClientRecords, FoundInv
<1>3. [conn[k] EXCEPT !.open = FALSE] \in Conns(n)
  <2>1. conn[k] \in Conns(n)
    BY <1>2 DEF FoundInv
  <2> QED
    BY <2>1 DEF Conns, Threads
<1>4. conn' \in Seq(Conns(n)) /\ Len(conn') = Len(conn)
  BY <1>2, <1>3 DEF FoundInv, Close
<1>5. r \in ClientsOf(n, Len(conn'))
  <2>1. ~client[c].waiting /\ 0 \in 0 .. Len(conn)
    BY <1>1 DEF Close
  <2> HIDE DEF n
  <2>2. r \in ClientsOf(n, Len(conn))
    BY <1>1, <2>1, ClientFields
  <2> QED
    BY <1>4, <2>2
<1>6. Set(c, r) /\ UNCHANGED <<sessions, kills>> /\ Len(conn') >= Len(conn)
  BY <1>1, <1>4 DEF Close
<1> QED
  BY <1>4, <1>5, <1>6, ClientStep

LEMMA CallFound ==
  ASSUME FoundInv, NEW c \in Clients, NEW a \in Asks[c], Call(c, a[1], a[2])
  PROVE  FoundInv'
<1> DEFINE n == Len(sessions)
           m == Len(conn)
           k == client[c].sock
           i == client[c].id + 1
           j == client[c].calls + 1
           v == [client[c] EXCEPT !.id = i]
           z == [v EXCEPT !.calls = j]
           x == (a[1] = "compile")
           r == [z EXCEPT !.compiling = x]
           q == [id |-> r.id, m |-> a[1], sid |-> r.sid, source |-> a[2]]
<1>1. client[c] \in ClientsOf(n, m) /\ m \in Nat /\ n \in Nat
  BY DEF FoundInv
<1>2. k \in DOMAIN conn /\ k # 0
  BY <1>1, ClientFields DEF Call, FoundInv
<1>3. a[1] \in Methods /\ a[2] \in {"good", "bad"}
  <2>1. a \in Methods \X {"good", "bad"}
    BY RequestsAssumption DEF Methods
  <2> QED
    BY <2>1
<1>4. i \in Nat /\ j \in Nat
  BY <1>1, ClientFields
<1> HIDE DEF n, m, i, j
<1>5. v \in ClientsOf(n, m) /\ v.sid = client[c].sid /\ v.sock = k /\ v.calls = client[c].calls
  BY <1>1, <1>4 DEF ClientsOf, ClientRecords
<1>6. r \in ClientsOf(n, m) /\ r.sid = client[c].sid /\ r.sock = k
  <2> HIDE DEF v
  <2>1. z \in ClientsOf(n, m) /\ z.sid = client[c].sid /\ z.sock = k
    BY <1>4, <1>5 DEF ClientsOf, ClientRecords
  <2>2. x \in BOOLEAN
    OBVIOUS
  <2> HIDE DEF z, x
  <2> QED
    BY <2>1, <2>2 DEF ClientsOf, ClientRecords
<1>7. z = [[client[c] EXCEPT !.id = @ + 1] EXCEPT !.calls = @ + 1]
  BY <1>5 DEF i, j
<1>8. r = [client[c] EXCEPT !.id = @ + 1, !.calls = @ + 1, !.compiling = (a[1] = "compile")]
  BY <1>7
<1> HIDE DEF r
<1>9. q \in Requested(n)
  <2>1. r.id \in Nat /\ r.sid \in 0 .. n
    BY <1>6, ClientFields
  <2>2. a[1] # "compile" => r.sid # 0
    BY <1>3, <1>6 DEF Call, Methods
  <2> QED
    BY <1>3, <2>1, <2>2 DEF Requested
<1>10. CASE conn[k].alive
  <2> DEFINE w == [r EXCEPT !.waiting = TRUE]
             s == [w EXCEPT !.buf = Stripped(@)]
             t == [conn[k] EXCEPT !.up = Append(@, q)]
  <2>1. conn' = [conn EXCEPT ![k] = t] /\ Set(c, s)
    BY <1>8, <1>10 DEF Call
  <2>2. t \in Conns(n)
    <3>1. conn[k] \in Conns(n)
      BY <1>2 DEF FoundInv, n
    <3>2. Append(conn[k].up, q) \in Seq(Requested(n))
      BY <1>9, <3>1, ThreadFields DEF Conns
    <3> QED
      BY <3>1, <3>2 DEF Conns, Threads
  <2>3. conn' \in Seq(Conns(n)) /\ Len(conn') = m
    BY <1>2, <2>1, <2>2 DEF FoundInv, n, m
  <2>4. s \in ClientsOf(n, m)
    <3>1. w \in ClientsOf(n, m)
      BY <1>2, <1>6, ClientFields
    <3>2. Stripped(w.buf) \in Seq(Pieces(n))
      BY <3>1, ClientFields, StrippedIsPart
    <3> QED
      BY <3>1, <3>2, ClientFields
  <2>5. UNCHANGED <<sessions, kills>> /\ Len(conn') >= Len(conn)
    BY <1>1, <2>3 DEF Call, m
  <2> QED
    BY <2>1, <2>3, <2>4, <2>5, ClientStep DEF n, m
<1>11. CASE ~conn[k].alive
  <2>1. Set(c, r) /\ conn' = conn /\ UNCHANGED <<sessions, kills>>
    BY <1>8, <1>11 DEF Call
  <2>2. conn' \in Seq(Conns(n)) /\ Len(conn') >= Len(conn) /\ r \in ClientsOf(n, Len(conn'))
    BY <1>1, <1>6, <2>1 DEF FoundInv, n, m
  <2> QED
    BY <2>1, <2>2, ClientStep DEF n, m
<1> QED
  BY <1>10, <1>11

LEMMA ReceiveFound ==
  ASSUME FoundInv, NEW c \in Clients, NEW i, Receive(c, i)
  PROVE  FoundInv'
<1> DEFINE n == Len(sessions)
           k == client[c].sock
           down == conn[k].down
           t == [conn[k] EXCEPT !.down = SubSeq(@, i + 1, Len(@))]
           b == client[c].buf \o SubSeq(down, 1, i)
           r == [client[c] EXCEPT !.buf = b]
<1>1. client[c] \in ClientsOf(n, Len(conn)) /\ Len(conn) \in Nat
  BY DEF FoundInv
<1>2. k \in DOMAIN conn
  BY <1>1 DEF Receive, ClientsOf, ClientRecords, FoundInv
<1>3. conn[k] \in Conns(n)
  BY <1>2 DEF FoundInv
<1>4. down \in Seq(Pieces(n)) /\ i \in DOMAIN down
  BY <1>3, ThreadFields DEF Conns, Receive
<1>5. SubSeq(down, 1, i) \in Seq(Pieces(n)) /\ SubSeq(down, i + 1, Len(down)) \in Seq(Pieces(n))
  <2> HIDE DEF down, n
  <2> QED
    BY <1>4
<1>6. t \in Conns(n)
  <2>1. SubSeq(down, i + 1, Len(down)) \in Seq(Pieces(n))
    BY <1>5
  <2> HIDE DEF n
  <2> QED
    BY <1>3, <2>1 DEF Conns, Threads
<1>7. conn' \in Seq(Conns(n)) /\ Len(conn') = Len(conn)
  BY <1>2, <1>6 DEF FoundInv, Receive
<1>8. b \in Seq(Pieces(n))
  <2>1. client[c].buf \in Seq(Pieces(n)) /\ SubSeq(down, 1, i) \in Seq(Pieces(n))
    BY <1>1, <1>5, ClientFields
  <2> QED
    BY <2>1
<1>9. r \in ClientsOf(n, Len(conn'))
  BY <1>1, <1>7, <1>8, ClientFields
<1>10. Set(c, r) /\ UNCHANGED <<sessions, kills>> /\ Len(conn') >= Len(conn)
  BY <1>1, <1>7 DEF Receive
<1> QED
  BY <1>7, <1>9, <1>10, ClientStep

LEMMA ReturnFound ==
  ASSUME FoundInv, NEW c \in Clients, Return(c)
  PROVE  FoundInv'
<1> DEFINE n == Len(sessions)
           m == Len(conn)
           b == Stripped(client[c].buf)
           rest == SubSeq(b, 3, Len(b))
           a == b[1].answer
           v == [client[c] EXCEPT !.waiting = FALSE]
           w == [v EXCEPT !.buf = rest]
           r == Remembered(w, a)
<1>1. client[c] \in ClientsOf(n, m) /\ m \in Nat /\ n \in Nat /\ conn \in Seq(Conns(n))
  BY DEF FoundInv
<1>2. b \in Seq(Pieces(n)) /\ Len(b) >= 2
  BY <1>1, ClientFields, StrippedIsPart DEF Return, Complete
<1> HIDE DEF n, m, b
<1>3. rest \in Seq(Pieces(n))
  BY <1>2
<1>4. a.sid \in 0 .. n
  <2>1. b[1] \in Pieces(n)
    BY <1>2
  <2> QED
    BY <2>1 DEF Pieces
<1>5. v \in ClientsOf(n, m)
  BY <1>1, ClientFields
<1> HIDE DEF v, rest
<1>6. w \in ClientsOf(n, m)
  BY <1>3, <1>5, ClientFields
<1> HIDE DEF w, a
<1>7. r \in ClientsOf(n, m)
  BY <1>4, <1>6, ClientFields DEF Remembered
<1>8. Set(c, r) /\ conn' = conn /\ UNCHANGED <<sessions, kills>>
  BY DEF Return, r, w, v, rest, a, b
<1> QED
  BY <1>1, <1>7, <1>8, ClientStep DEF n, m

LEMMA GiveUpFound ==
  ASSUME FoundInv, NEW c \in Clients, GiveUp(c)
  PROVE  FoundInv'
<1> DEFINE n == Len(sessions)
           m == Len(conn)
           v == [client[c] EXCEPT !.waiting = FALSE]
           i == v.timeouts + 1
           w == [v EXCEPT !.timeouts = i]
           j == w.late + 1
           r == [w EXCEPT !.late = j]
<1>1. client[c] \in ClientsOf(n, m) /\ m \in Nat /\ conn \in Seq(Conns(n))
  BY DEF FoundInv
<1> HIDE DEF n, m
<1>2. v \in ClientsOf(n, m)
  BY <1>1, ClientFields
<1> HIDE DEF v
<1>3. i \in Nat
  BY <1>2, ClientFields
<1>4. w \in ClientsOf(n, m)
  BY <1>2, <1>3, ClientFields
<1> HIDE DEF w
<1>5. j \in Nat
  BY <1>4, ClientFields
<1>6. r \in ClientsOf(n, m)
  BY <1>4, <1>5, ClientFields
<1>7. Set(c, r) /\ conn' = conn /\ UNCHANGED <<sessions, kills>>
  BY DEF GiveUp, w, v
<1> QED
  BY <1>1, <1>6, <1>7, ClientStep DEF n, m

LEMMA BrokenFound ==
  ASSUME FoundInv, NEW c \in Clients, Broken(c)
  PROVE  FoundInv'
<1> DEFINE r == [client[c] EXCEPT !.waiting = FALSE]
<1>1. client[c] \in ClientsOf(Len(sessions), Len(conn)) /\ conn \in Seq(Conns(Len(sessions)))
      /\ Len(conn) \in Nat
  BY DEF FoundInv
<1>2. r \in ClientsOf(Len(sessions), Len(conn))
  BY <1>1, ClientFields
<1>3. Set(c, r) /\ conn' = conn /\ UNCHANGED <<sessions, kills>>
  BY DEF Broken
<1> QED
  BY <1>1, <1>2, <1>3, ClientStep

-----------------------------------------------------------------------------
(* The threads of the server.                                               *)

\* What the invariant says of a thread that runs.
LEMMA ThreadOf ==
  ASSUME FoundInv, NEW k \in DOMAIN conn
  PROVE  conn[k] \in Conns(Len(sessions)) /\ conn[k] \in Threads(Len(sessions))
BY DEF FoundInv, Conns

LEMMA ReadRequestFound ==
  ASSUME FoundInv, NEW k \in DOMAIN conn, ReadRequest(k)
  PROVE  FoundInv'
<1> DEFINE n == Len(sessions)
           q == Head(conn[k].up)
           rest == Tail(conn[k].up)
           on == q.sid
           at == IF q.m = "compile" THEN "create" ELSE "want"
           v == [conn[k] EXCEPT !.up = rest]
           w == [v EXCEPT !.req = q]
           x == [w EXCEPT !.on = on]
           r == [x EXCEPT !.at = at]
<1>1. conn[k] \in Threads(n)
  BY ThreadOf
<1>2. q \in Requested(n) /\ rest \in Seq(Requested(n))
  BY <1>1, ThreadFields DEF ReadRequest
<1>3. on \in 0 .. n /\ (at = "want" => on # 0) /\ at \in {"create", "want"}
  BY <1>2 DEF Requested
<1> HIDE DEF n, q, rest, on, at
<1>4. v \in Threads(n)
  BY <1>1, <1>2, ThreadFields
<1> HIDE DEF v
<1>5. w \in Threads(n) /\ w.req = q
  BY <1>2, <1>4 DEF Threads
<1> HIDE DEF w
<1>6. x \in Threads(n) /\ x.req = q /\ x.on = on
  BY <1>3, <1>5 DEF Threads
<1> HIDE DEF x
<1>7. r \in Threads(n) /\ r.req = q /\ r.on = on /\ r.at = at
  BY <1>3, <1>6 DEF Threads, Busy
<1> HIDE DEF r
<1>8. r \in Conns(n)
  BY <1>2, <1>3, <1>7 DEF Conns
<1>9. Thread(k, r) /\ UNCHANGED <<client, sessions, kills>>
  BY DEF ReadRequest, r, x, w, v, at, on, rest, q
<1> QED
  BY <1>8, <1>9, ThreadStep DEF n

LEMMA EndOfStreamFound ==
  ASSUME FoundInv, NEW k \in DOMAIN conn, EndOfStream(k)
  PROVE  FoundInv'
<1> DEFINE r == [conn[k] EXCEPT !.at = "gone"]
<1>1. r \in Threads(Len(sessions)) /\ r.at = "gone"
  BY ThreadOf DEF Threads
<1>2. r \in Conns(Len(sessions))
  BY <1>1 DEF Conns, Busy
<1>3. Thread(k, r) /\ UNCHANGED <<client, sessions, kills>>
  BY DEF EndOfStream
<1> QED
  BY <1>2, <1>3, ThreadStep

LEMMA LockFound ==
  ASSUME FoundInv, NEW k \in DOMAIN conn, Lock(k)
  PROVE  FoundInv'
<1> DEFINE r == [conn[k] EXCEPT !.at = "work"]
<1>1. conn[k] \in Conns(Len(sessions)) /\ conn[k].at = "want"
  BY ThreadOf DEF Lock, Runs
<1>2. r \in Threads(Len(sessions)) /\ r.req = conn[k].req /\ r.on = conn[k].on
  BY <1>1 DEF Conns, Threads, Busy
<1>3. r \in Conns(Len(sessions))
  BY <1>1, <1>2 DEF Conns, Busy
<1>4. Thread(k, r) /\ UNCHANGED <<client, sessions, kills>>
  BY DEF Lock
<1> QED
  BY <1>3, <1>4, ThreadStep

\* The session is in the map, and its number with its thread, in one step.
LEMMA CreateFound ==
  ASSUME FoundInv, NEW k \in DOMAIN conn, Create(k)
  PROVE  FoundInv'
<1> DEFINE n == Len(sessions)
           new == [state |-> "new", born |-> kills, gone |-> FALSE]
           v == [conn[k] EXCEPT !.at = "want"]
           r == [v EXCEPT !.on = n + 1]
<1>1. n \in Nat /\ Len(conn) \in Nat /\ kills \in Nat /\ sessions \in Seq(SessionsBy(kills))
  BY DEF FoundInv
<1>2. new \in SessionsBy(kills)
  BY <1>1 DEF SessionsBy
<1>3. sessions' = Append(sessions, new) /\ conn' = [conn EXCEPT ![k] = [conn[k] EXCEPT !.at = "want", !.on = Len(sessions')]]
      /\ UNCHANGED <<client, kills>> /\ conn[k].at = "create"
  BY DEF Create, Thread, Runs
<1> HIDE DEF new
<1>4. sessions' \in Seq(SessionsBy(kills)) /\ Len(sessions') = n + 1
  BY <1>1, <1>2, <1>3
<1>5. conn' = [conn EXCEPT ![k] = r]
  BY <1>3, <1>4
<1>6. Conns(n) \subseteq Conns(n + 1) /\ ClientsOf(n, Len(conn)) \subseteq ClientsOf(n + 1, Len(conn))
  BY <1>1, Growing
<1>7. conn \in Seq(Conns(n + 1)) /\ client \in [Clients -> ClientsOf(n + 1, Len(conn))]
  BY <1>6 DEF FoundInv
<1>8. r \in Conns(n + 1)
  <2>1. conn[k] \in Conns(n + 1) /\ conn[k].at \in Busy /\ n + 1 \in 0 .. n + 1 /\ n + 1 # 0
    BY <1>1, <1>3, <1>7 DEF Busy
  <2> HIDE DEF n
  <2>2. v \in Threads(n + 1) /\ v.req = conn[k].req /\ v.at = "want"
    BY <2>1 DEF Conns, Threads, Busy
  <2> HIDE DEF v
  <2>3. r \in Threads(n + 1) /\ r.req = conn[k].req /\ r.on = n + 1
    BY <2>1, <2>2 DEF Threads
  <2> HIDE DEF r
  <2> QED
    BY <2>1, <2>3 DEF Conns
<1>9. conn' \in Seq(Conns(n + 1)) /\ Len(conn') = Len(conn)
  BY <1>5, <1>7, <1>8
<1> QED
  BY <1>1, <1>3, <1>4, <1>7, <1>9 DEF FoundInv

\* What is done in the closure changes a session and makes none.
LEMMA AfterKeeps ==
  ASSUME FoundInv, NEW s \in DOMAIN sessions, NEW q
  PROVE  After(s, q) \in Seq(SessionsBy(kills)) /\ Len(After(s, q)) = Len(sessions)
<1>1. sessions[s] \in SessionsBy(kills)
  BY DEF FoundInv
<1>2. /\ [sessions[s] EXCEPT !.state = "compiled"] \in SessionsBy(kills)
      /\ [sessions[s] EXCEPT !.state = "elaborated"] \in SessionsBy(kills)
  BY <1>1 DEF SessionsBy
<1> DEFINE t1 == [sessions[s] EXCEPT !.state = "compiled"]
           t2 == [sessions[s] EXCEPT !.state = "elaborated"]
<1>3. \/ After(s, q) = [sessions EXCEPT ![s] = t1]
      \/ After(s, q) = [sessions EXCEPT ![s] = t2]
      \/ After(s, q) = sessions
  BY DEF After
<1>4. t1 \in SessionsBy(kills) /\ t2 \in SessionsBy(kills) /\ sessions \in Seq(SessionsBy(kills))
  BY <1>2 DEF FoundInv
<1> HIDE DEF t1, t2
<1> QED
  BY <1>3, <1>4

LEMMA WorkFound ==
  ASSUME FoundInv, NEW k \in DOMAIN conn, Work(k)
  PROVE  FoundInv'
<1> DEFINE n == Len(sessions)
           q == conn[k].req
           s == conn[k].on
           here == Answer(Succeeds(s, q), IF q.m = "compile" THEN s ELSE 0)
           ok == IF Here(s) THEN Succeeds(s, q) ELSE FALSE
           sid == IF Here(s) /\ q.m = "compile" THEN s ELSE 0
           a == Answer(ok, sid)
<1>1. conn[k] \in Conns(n) /\ conn[k] \in Threads(n) /\ conn[k].at = "work" /\ n \in Nat
  BY ThreadOf DEF FoundInv, Work, Runs
<1>2. q \in Requested(n) /\ s \in 0 .. n
  BY <1>1 DEF Conns, Threads, Busy
<1>3. sid \in 0 .. n
  BY <1>1, <1>2
<1>4. ok \in BOOLEAN
  <2>1. CASE q.m = "compile"
    BY <2>1 DEF Succeeds
  <2>2. CASE q.m = "elaborate"
    BY <2>2 DEF Succeeds
  <2>3. CASE q.m = "simulate"
    BY <2>3 DEF Succeeds
  <2> QED
    BY <1>2, <2>1, <2>2, <2>3 DEF Requested, Methods
<1>5. Thread(k, Replied(k, a)) /\ UNCHANGED <<client, kills>>
  BY DEF Work
<1>6. sessions' \in Seq(SessionsBy(kills)) /\ Len(sessions') = n
  <2>1. CASE Here(s)
    BY <2>1, AfterKeeps DEF Work, Here
  <2>2. CASE ~Here(s)
    BY <2>2 DEF Work, FoundInv
  <2> QED
    BY <2>1, <2>2
<1>7. Replied(k, a) \in Conns(n)
  <2> DEFINE v == [conn[k] EXCEPT !.at = "read"]
             w == [v EXCEPT !.on = 0]
             down == IF conn[k].open THEN conn[k].down \o Message(q.id, a) ELSE conn[k].down
             r == [w EXCEPT !.down = down]
  <2>1. q.id \in Nat
    BY <1>2 DEF Requested
  <2> HIDE DEF q, ok, sid, n
  <2>2. Message(q.id, a) \in Seq(Pieces(n))
    BY <1>1, <1>3, <1>4, <2>1, MessageIsTyped
  <2> HIDE DEF a
  <2>3. down \in Seq(Pieces(n))
    BY <1>1, <2>2, ThreadFields
  <2> HIDE DEF down
  <2>4. v \in Threads(n) /\ v.at = "read" /\ v.down = conn[k].down
    BY <1>1 DEF Threads
  <2> HIDE DEF v
  <2>5. w \in Threads(n) /\ w.at = "read" /\ w.down = conn[k].down
    BY <1>1, <2>4 DEF Threads
  <2> HIDE DEF w
  <2>6. r \in Threads(n) /\ r.at = "read"
    BY <2>3, <2>5 DEF Threads
  <2>7. Replied(k, a) = r
    BY <2>5 DEF Replied, down, w, v, q
  <2> QED
    BY <2>6, <2>7 DEF Conns, Busy
<1>8. conn' \in Seq(Conns(n)) /\ Len(conn') = Len(conn)
  <2>1. conn' = [conn EXCEPT ![k] = Replied(k, a)] /\ conn \in Seq(Conns(n))
    BY <1>5 DEF FoundInv, Thread
  <2> HIDE DEF n, a
  <2> QED
    BY <1>7, <2>1
<1> QED
  BY <1>5, <1>6, <1>8 DEF FoundInv

\* The process ends; what the clients were told stays with them.
LEMMA KillFound == FoundInv /\ Kill => FoundInv'
<1> SUFFICES ASSUME FoundInv, Kill PROVE FoundInv'
  OBVIOUS
<1> DEFINE n == Len(sessions)
           r(k) == [conn[k] EXCEPT !.alive = FALSE, !.up = <<>>]
<1>1. \A k \in DOMAIN conn : r(k) \in Conns(n)
  <2> SUFFICES ASSUME NEW k \in DOMAIN conn PROVE r(k) \in Conns(n)
    OBVIOUS
  <2> DEFINE v == [conn[k] EXCEPT !.alive = FALSE]
             w == [v EXCEPT !.up = <<>>]
  <2>1. conn[k] \in Conns(n)
    BY ThreadOf
  <2> HIDE DEF n
  <2>2. v \in Threads(n) /\ v.at = conn[k].at /\ v.req = conn[k].req /\ v.on = conn[k].on
    BY <2>1 DEF Conns, Threads
  <2>3. <<>> \in Seq(Requested(n))
    OBVIOUS
  <2>4. r(k) = w
    OBVIOUS
  <2> HIDE DEF v, r
  <2>5. w \in Threads(n) /\ w.at = conn[k].at /\ w.req = conn[k].req /\ w.on = conn[k].on
    BY <2>2, <2>3 DEF Threads
  <2> QED
    BY <2>1, <2>4, <2>5 DEF Conns
<1>2. conn' \in Seq(Conns(n)) /\ Len(conn') = Len(conn)
  <2>1. conn' = [k \in DOMAIN conn |-> r(k)]
    BY Zenon DEF Kill
  <2>2. DOMAIN conn = 1 .. Len(conn) /\ Len(conn) \in Nat
    BY DEF FoundInv
  <2> HIDE DEF r, n
  <2> QED
    BY <1>1, <2>1, <2>2
<1>3. kills' = kills + 1 /\ UNCHANGED <<client, sessions>>
  BY Zenon DEF Kill
<1>4. kills' \in Nat /\ SessionsBy(kills) \subseteq SessionsBy(kills')
  <2>1. kills \in Nat /\ kills' \in Nat
    BY <1>3 DEF FoundInv
  <2>2. 0 .. kills \subseteq 0 .. kills'
    BY <1>3, <2>1
  <2> QED
    BY <2>1, <2>2 DEF SessionsBy
<1>5. sessions \in Seq(SessionsBy(kills'))
  BY <1>4 DEF FoundInv
<1> QED
  BY <1>2, <1>3, <1>4, <1>5 DEF FoundInv

-----------------------------------------------------------------------------
(* The specification.                                                       *)

LEMMA NextFound == FoundInv /\ [Next]_vars => FoundInv'
<1> SUFFICES ASSUME FoundInv, [Next]_vars PROVE FoundInv'
  OBVIOUS
<1>1. ASSUME NEW c \in Clients, Connect(c) \/ Close(c) \/ GiveUp(c) \/ Return(c) \/ Broken(c)
      PROVE  FoundInv'
  BY <1>1, ConnectFound, CloseFound, GiveUpFound, ReturnFound, BrokenFound
<1>2. ASSUME NEW c \in Clients, NEW i, Receive(c, i)
      PROVE  FoundInv'
  BY <1>2, ReceiveFound
<1>3. ASSUME NEW c \in Clients, NEW a \in Asks[c], Call(c, a[1], a[2])
      PROVE  FoundInv'
  BY <1>3, CallFound
<1>4. ASSUME NEW k \in DOMAIN conn, Serves(k)
      PROVE  FoundInv'
  BY <1>4, ReadRequestFound, EndOfStreamFound, CreateFound, LockFound, WorkFound DEF Serves
<1>5. CASE Kill
  BY <1>5, KillFound
<1>6. CASE UNCHANGED vars
  BY <1>6 DEF vars, FoundInv
<1> QED
  BY <1>1, <1>2, <1>3, <1>4, <1>5, <1>6 DEF Next, Reads

LEMMA InvFound == FoundInv => Found
<1> SUFFICES ASSUME FoundInv, NEW k \in DOMAIN conn, conn[k].at \in {"want", "work"}
             PROVE  /\ conn[k].on \in DOMAIN sessions
                    /\ Here(conn[k].on) \/ sessions[conn[k].on].born < kills
  BY DEF Found
<1> DEFINE s == conn[k].on
<1>1. s \in DOMAIN sessions
  BY ThreadOf DEF FoundInv, Conns, Threads
<1>2. sessions[s] \in SessionsBy(kills) /\ kills \in Nat
  BY <1>1 DEF FoundInv
<1>3. sessions[s].gone = FALSE /\ sessions[s].born \in 0 .. kills
  <2> HIDE DEF s
  <2> QED
    BY <1>2 DEF SessionsBy
<1>4. sessions[s].born = kills \/ sessions[s].born < kills
  <2> HIDE DEF s
  <2> QED
    BY <1>2, <1>3
<1> QED
  BY <1>1, <1>3, <1>4, Zenon DEF Here

\* A request for a session finds the one its client was told of, as long as the
\* server that made it runs, and never another one: whatever the clients call,
\* however TCP cuts the streams, and however often the server is killed.
THEOREM SessionIsFound == Spec => []Found
<1>1. Spec => []FoundInv
  BY InitFound, NextFound, PTL DEF Spec
<1> QED
  BY <1>1, InvFound, PTL

-----------------------------------------------------------------------------
(* The mutex.                                                               *)

\* A step that changes one connection, keeps the mutex and starts no work.
LEMMA NoneStarts ==
  ASSUME FoundInv, OneWorks, NEW k \in DOMAIN conn, NEW t,
         conn' = [conn EXCEPT ![k] = t], lock' = lock,
         t.alive /\ t.at = "work" => Runs(k, "work")
  PROVE  OneWorks'
<1>1. DOMAIN conn' = DOMAIN conn /\ conn'[k] = t /\ \A l \in DOMAIN conn \ {k} : conn'[l] = conn[l]
  BY DEF FoundInv
<1> QED
  BY <1>1 DEF OneWorks, Runs

\* The fields of a connection that say whether its thread works.
LEMMA AtWork ==
  ASSUME NEW n, NEW w \in Threads(n)
  PROVE  /\ \A s : [w EXCEPT !.up = s].at = w.at /\ [w EXCEPT !.up = s].alive = w.alive
         /\ \A s : [w EXCEPT !.down = s].at = w.at /\ [w EXCEPT !.down = s].alive = w.alive
         /\ \A s : [w EXCEPT !.open = s].at = w.at /\ [w EXCEPT !.open = s].alive = w.alive
BY DEF Threads

LEMMA ClientsLeaveWork ==
  ASSUME FoundInv, OneWorks, NEW c \in Clients,
         \/ Close(c) \/ GiveUp(c) \/ Return(c) \/ Broken(c)
         \/ \E i : Receive(c, i)
         \/ \E m, source : Call(c, m, source)
  PROVE  OneWorks'
<1> DEFINE k == client[c].sock
<1>1. CASE UNCHANGED <<conn, lock>>
  BY <1>1 DEF OneWorks, Runs
<1>2. ASSUME k # 0 PROVE k \in DOMAIN conn /\ conn[k] \in Threads(Len(sessions))
  BY <1>2, ThreadOf DEF FoundInv, ClientsOf, ClientRecords
<1> DEFINE Same(t) == t.at = conn[k].at /\ t.alive = conn[k].alive /\ conn' = [conn EXCEPT ![k] = t]
<1>3. ASSUME k # 0, lock' = lock, \E t : Same(t) PROVE OneWorks'
  <2>1. PICK t : Same(t)
    BY <1>3
  <2>2. t.alive /\ t.at = "work" => Runs(k, "work")
    BY <2>1 DEF Runs
  <2> QED
    BY <1>2, <1>3, <2>1, <2>2, NoneStarts
<1>4. CASE Close(c)
  <2>1. k # 0 /\ lock' = lock /\ conn' = [conn EXCEPT ![k] = [conn[k] EXCEPT !.open = FALSE]]
    BY <1>4 DEF Close
  <2>2. Same([conn[k] EXCEPT !.open = FALSE])
    BY <1>2, <2>1, AtWork
  <2> HIDE DEF Same
  <2> QED
    BY <1>3, <2>1, <2>2
<1>5. ASSUME NEW i, Receive(c, i) PROVE OneWorks'
  <2> DEFINE s == SubSeq(conn[k].down, i + 1, Len(conn[k].down))
  <2>1. k # 0 /\ lock' = lock /\ conn' = [conn EXCEPT ![k] = [conn[k] EXCEPT !.down = s]]
    BY <1>5 DEF Receive, FoundInv, ClientsOf
  <2> HIDE DEF s
  <2>2. Same([conn[k] EXCEPT !.down = s])
    BY <1>2, <2>1, AtWork
  <2> HIDE DEF Same
  <2> QED
    BY <1>3, <2>1, <2>2
<1>6. ASSUME NEW m, NEW source, Call(c, m, source) PROVE OneWorks'
  <2>1. k # 0 /\ lock' = lock
    BY <1>6 DEF Call
  <2>2. \/ conn' = conn
        \/ \E s : conn' = [conn EXCEPT ![k] = [conn[k] EXCEPT !.up = s]]
    BY <1>6 DEF Call
  <2>3. CASE conn' = conn
    BY <1>1, <2>1, <2>3
  <2>4. ASSUME NEW s, conn' = [conn EXCEPT ![k] = [conn[k] EXCEPT !.up = s]] PROVE OneWorks'
    <3>1. Same([conn[k] EXCEPT !.up = s])
      BY <1>2, <2>1, <2>4, AtWork
    <3> HIDE DEF Same
    <3> QED
      BY <1>3, <2>1, <3>1
  <2> QED
    BY <2>2, <2>3, <2>4
<1> QED
  BY <1>1, <1>4, <1>5, <1>6 DEF GiveUp, Return, Broken

LEMMA NextOneWorks == FoundInv /\ OneWorks /\ [Next]_vars => OneWorks'
<1> SUFFICES ASSUME FoundInv, OneWorks, [Next]_vars PROVE OneWorks'
  OBVIOUS
<1>1. ASSUME NEW c \in Clients, Connect(c) PROVE OneWorks'
  <2>1. /\ lock' = lock /\ DOMAIN conn' = DOMAIN conn \cup {Len(conn) + 1}
        /\ conn'[Len(conn) + 1] = NewConn /\ \A l \in DOMAIN conn : conn'[l] = conn[l]
    BY <1>1 DEF Connect, FoundInv
  <2> QED
    BY <2>1 DEF OneWorks, Runs, NewConn
<1>2. ASSUME NEW k \in DOMAIN conn, ReadRequest(k) \/ EndOfStream(k) \/ Create(k) PROVE OneWorks'
  <2>1. conn[k] \in Threads(Len(sessions))
    BY ThreadOf
  <2>2. ReadRequest(k) => \E t : t.at # "work" /\ conn' = [conn EXCEPT ![k] = t]
    BY <2>1 DEF ReadRequest, Thread, Threads
  <2>3. EndOfStream(k) => \E t : t.at # "work" /\ conn' = [conn EXCEPT ![k] = t]
    BY <2>1 DEF EndOfStream, Thread, Threads
  <2>4. Create(k) => \E t : t.at # "work" /\ conn' = [conn EXCEPT ![k] = t]
    BY <2>1 DEF Create, Thread, Threads
  <2>5. lock' = lock
    BY <1>2 DEF ReadRequest, EndOfStream, Create
  <2> QED
    BY <1>2, <2>2, <2>3, <2>4, <2>5, NoneStarts
<1>3. ASSUME NEW k \in DOMAIN conn, Lock(k) PROVE OneWorks'
  <2>1. \A l \in DOMAIN conn : ~Runs(l, "work") \/ l = 0
    BY <1>3 DEF OneWorks, Lock
  <2>2. 0 \notin DOMAIN conn
    BY DEF FoundInv
  <2>3. lock' = k /\ DOMAIN conn' = DOMAIN conn /\ \A l \in DOMAIN conn \ {k} : conn'[l] = conn[l]
    BY <1>3 DEF Lock, Thread, FoundInv
  <2> QED
    BY <2>1, <2>2, <2>3 DEF OneWorks, Runs
<1>4. ASSUME NEW k \in DOMAIN conn, Work(k) PROVE OneWorks'
  <2>1. conn[k] \in Threads(Len(sessions)) /\ lock = k
    BY <1>4, ThreadOf DEF OneWorks, Work
  <2>2. \E a : conn' = [conn EXCEPT ![k] = Replied(k, a)]
    BY <1>4 DEF Work, Thread
  <2>3. \A a : Replied(k, a).at = "read"
    BY <2>1 DEF Replied, Threads
  <2>4. DOMAIN conn' = DOMAIN conn /\ conn'[k].at = "read" /\ \A l \in DOMAIN conn \ {k} : conn'[l] = conn[l]
    BY <2>2, <2>3 DEF FoundInv
  <2>5. \A l \in DOMAIN conn \ {k} : ~Runs(l, "work")
    BY <2>1 DEF OneWorks
  <2> QED
    BY <2>4, <2>5 DEF OneWorks, Runs
<1>5. CASE Kill
  <2>1. DOMAIN conn' = DOMAIN conn /\ \A k \in DOMAIN conn : conn'[k] = [conn[k] EXCEPT !.alive = FALSE, !.up = <<>>]
    BY <1>5, Zenon DEF Kill
  <2>2. \A k \in DOMAIN conn : conn'[k].alive = FALSE
    BY <2>1, ThreadOf DEF Threads
  <2> QED
    BY <2>1, <2>2, Zenon DEF OneWorks, Runs
<1>6. CASE UNCHANGED vars
  BY <1>6 DEF vars, OneWorks, Runs
<1> QED
  BY <1>1, <1>2, <1>3, <1>4, <1>5, <1>6, ClientsLeaveWork DEF Next, Reads, Serves

\* Two handlers never work on sessions at the same time, although each
\* connection has a thread of its own and a killed process leaves the mutex in
\* any state: what the FFI does for a call is done under the mutex.
THEOREM OneAtWork == Spec => [](\A k, l \in DOMAIN conn : Runs(k, "work") /\ Runs(l, "work") => k = l)
<1>1. Init => OneWorks
  BY DEF Init, OneWorks
<1>2. Spec => [](FoundInv /\ OneWorks)
  BY <1>1, InitFound, NextFound, NextOneWorks, PTL DEF Spec
<1>3. OneWorks => \A k, l \in DOMAIN conn : Runs(k, "work") /\ Runs(l, "work") => k = l
  BY DEF OneWorks
<1> QED
  BY <1>2, <1>3, PTL

-----------------------------------------------------------------------------
(* A stream and the requests it does not answer yet, whatever carries them. *)

\* s is the answers to m calls, from the one after call i, behind z line ends.
Stream(s, z, i, m) ==
  /\ Len(s) = z + 3 * m
  /\ z = 1 => s[1].part = "newline"
  /\ \A j \in 0 .. m - 1, p \in 1 .. 3 :
       s[z + 3 * j + p].part = Parts[p] /\ s[z + 3 * j + p].id = i + j + 1

\* The l calls after call i are the one being served, if one is, and those in up.
Rest(at, q, up, i, l) ==
  \/ /\ at \in Busy /\ l = Len(up) + 1 /\ q = i + 1
     /\ \A j \in 1 .. Len(up) : up[j].id = i + 1 + j
  \/ /\ at \notin Busy /\ l = Len(up)
     /\ \A j \in 1 .. Len(up) : up[j].id = i + j

\* The n calls due up to call id: the stream answers the first ones.
Flow(s, at, q, up, id, n) ==
  \E z \in {0, 1}, m \in 0 .. n :
    Stream(s, z, id - n, m) /\ Rest(at, q, up, id - n + m, n - m)

LEMMA PartsAre ==
  /\ DOMAIN Parts = 1 .. 3 /\ Len(Parts) = 3
  /\ Parts[1] = "header" /\ Parts[2] = "body" /\ Parts[3] = "newline"
BY DEF Parts

\* What precedes a message is dropped, and no more.
LEMMA StripExactly ==
  ASSUME NEW P, NEW s \in Seq(P), NEW z \in {0, 1}, z <= Len(s),
         z = 1 => s[1].part = "newline",
         z + 1 <= Len(s) => s[z + 1].part # "newline"
  PROVE  Stripped(s) = SubSeq(s, z + 1, Len(s))
<1>1. CASE z = 0
  <2>1. LineEnds(s) = {}
    <3>. SUFFICES ASSUME NEW i \in DOMAIN s, \A j \in 1 .. i : s[j].part = "newline" PROVE FALSE
      BY DEF LineEnds
    <3>1. 1 \in 1 .. i /\ 1 <= Len(s)
      OBVIOUS
    <3>. QED
      BY <1>1, <3>1
  <2>. QED
    BY <1>1, <2>1, FS_EmptySet DEF Stripped
<1>2. CASE z = 1
  <2>1. LineEnds(s) = {1}
    <3>1. ASSUME NEW i \in DOMAIN s, \A j \in 1 .. i : s[j].part = "newline" PROVE i = 1
      <4>1. ASSUME i # 1 PROVE FALSE
        <5>1. 2 \in 1 .. i /\ 2 <= Len(s)
          BY <4>1
        <5>. QED
          BY <1>2, <3>1, <5>1
      <4>. QED
        BY <4>1
    <3>2. 1 \in DOMAIN s /\ \A j \in 1 .. 1 : s[j].part = "newline"
      BY <1>2
    <3>. QED
      BY <3>1, <3>2 DEF LineEnds
  <2>. QED
    BY <1>2, <2>1, FS_Singleton DEF Stripped
<1>. QED
  BY <1>1, <1>2

\* A call is sent.
LEMMA FlowCall ==
  ASSUME NEW s, NEW at, NEW q, NEW Q, NEW up \in Seq(Q), NEW r \in Q, NEW id \in Nat, NEW n \in Nat,
         Flow(s, at, q, up, id, n), r.id = id + 1
  PROVE  Flow(s, at, q, Append(up, r), id + 1, n + 1)
<1>1. PICK z \in {0, 1}, m \in 0 .. n :
        Stream(s, z, id - n, m) /\ Rest(at, q, up, id - n + m, n - m)
  BY DEF Flow
<1>2. /\ Len(Append(up, r)) = Len(up) + 1 /\ Append(up, r)[Len(up) + 1] = r
      /\ \A j \in 1 .. Len(up) : Append(up, r)[j] = up[j]
  OBVIOUS
<1>. DEFINE i == id - n + m
            uu == Append(up, r)
            k == Len(up)
<1>3. k \in Nat /\ i \in Int /\ \A j \in 1 .. k + 1 : j \in 1 .. k \/ j = k + 1
  OBVIOUS
<1>4. Rest(at, q, uu, i, n + 1 - m)
  <2>1. CASE /\ at \in Busy /\ n - m = k + 1 /\ q = i + 1
             /\ \A j \in 1 .. k : up[j].id = i + 1 + j
    <3>1. r.id = i + 1 + (k + 1)
      BY <2>1
    <3>2. \A j \in 1 .. k + 1 : uu[j].id = i + 1 + j
      BY <1>2, <1>3, <2>1, <3>1
    <3>3. n + 1 - m = Len(uu) + 1 /\ Len(uu) = k + 1
      BY <1>2, <2>1
    <3>. HIDE DEF uu, k, i
    <3>. QED
      BY <2>1, <3>2, <3>3 DEF Rest
  <2>2. CASE /\ at \notin Busy /\ n - m = k
             /\ \A j \in 1 .. k : up[j].id = i + j
    <3>1. r.id = i + (k + 1)
      BY <2>2
    <3>2. \A j \in 1 .. k + 1 : uu[j].id = i + j
      BY <1>2, <1>3, <2>2, <3>1
    <3>3. n + 1 - m = Len(uu) /\ Len(uu) = k + 1
      BY <1>2, <2>2
    <3>. HIDE DEF uu, k, i
    <3>. QED
      BY <2>2, <3>2, <3>3 DEF Rest
  <2>. QED
    BY <1>1, <2>1, <2>2 DEF Rest
<1>5. id + 1 - (n + 1) = id - n /\ m \in 0 .. n + 1
  OBVIOUS
<1>. QED
  BY <1>1, <1>4, <1>5 DEF Flow

\* A request is read.
LEMMA FlowRead ==
  ASSUME NEW s, NEW at, at \notin Busy, NEW q, NEW Q, NEW up \in Seq(Q), up # <<>>,
         NEW to \in Busy, NEW id \in Nat, NEW n \in Nat, Flow(s, at, q, up, id, n)
  PROVE  Flow(s, to, Head(up).id, Tail(up), id, n)
<1>1. PICK z \in {0, 1}, m \in 0 .. n :
        Stream(s, z, id - n, m) /\ Rest(at, q, up, id - n + m, n - m)
  BY DEF Flow
<1>. DEFINE i == id - n + m
            uu == Tail(up)
            k == Len(up)
<1>2. k \in Nat /\ k >= 1 /\ Len(uu) = k - 1 /\ Head(up) = up[1] /\ i \in Int
  OBVIOUS
<1>3. \A j \in 1 .. k - 1 : uu[j] = up[j + 1] /\ j + 1 \in 1 .. k
  OBVIOUS
<1>4. n - m = k /\ \A j \in 1 .. k : up[j].id = i + j
  BY <1>1 DEF Rest
<1>. HIDE DEF i, uu, k
<1>5. Head(up).id = i + 1
  BY <1>2, <1>4
<1>6. \A j \in 1 .. k - 1 : uu[j].id = i + 1 + j
  <2>. SUFFICES ASSUME NEW j \in 1 .. k - 1 PROVE uu[j].id = i + 1 + j
    OBVIOUS
  <2>1. uu[j] = up[j + 1] /\ up[j + 1].id = i + (j + 1)
    BY <1>3, <1>4
  <2>. QED
    BY <1>2, <2>1
<1>7. Rest(to, Head(up).id, uu, i, n - m)
  BY <1>2, <1>4, <1>5, <1>6 DEF Rest
<1>. QED
  BY <1>1, <1>7 DEF Flow, i, uu

\* What is left of two sequences joined when some of the first is dropped.
LEMMA Dropped ==
  ASSUME NEW P, NEW p \in Seq(P), NEW q \in Seq(P), NEW d \in 0 .. Len(p)
  PROVE  LET r == SubSeq(p, d + 1, Len(p)) \o q
             s == p \o q
         IN  Len(r) = Len(s) - d /\ \A x \in 1 .. Len(r) : r[x] = s[d + x]
<1>. DEFINE b == SubSeq(p, d + 1, Len(p))
            r == b \o q
            s == p \o q
<1>1. b \in Seq(P) /\ Len(b) = Len(p) - d /\ \A x \in 1 .. Len(b) : b[x] = p[d + x]
  <2>1. Len(p) \in Nat /\ d \in Nat /\ d <= Len(p)
    OBVIOUS
  <2>2. b \in Seq(P)
    BY <2>1
  <2>3. Len(b) = Len(p) - d
    BY <2>1
  <2>4. \A x \in 1 .. Len(b) : b[x] = p[d + x]
    BY <2>1, <2>3
  <2>. HIDE DEF b
  <2>. QED
    BY <2>2, <2>3, <2>4
<1>. HIDE DEF b
<1>2. /\ Len(s) = Len(p) + Len(q) /\ Len(p) \in Nat /\ Len(q) \in Nat
      /\ \A i \in 1 .. Len(p) : s[i] = p[i]
      /\ \A i \in 1 .. Len(q) : s[Len(p) + i] = q[i]
  BY Joined
<1>3. /\ Len(r) = Len(b) + Len(q)
      /\ \A i \in 1 .. Len(b) : r[i] = b[i]
      /\ \A i \in 1 .. Len(q) : r[Len(b) + i] = q[i]
  <2>1. b \in Seq(P)
    BY <1>1
  <2>. QED
    BY <2>1, Joined
<1>. HIDE DEF r, s
<1>4. Len(r) = Len(s) - d
  BY <1>1, <1>2, <1>3
<1>5. ASSUME NEW x \in 1 .. Len(r) PROVE r[x] = s[d + x]
  <2>1. CASE x <= Len(b)
    <3>1. x \in 1 .. Len(b) /\ d + x \in 1 .. Len(p)
      BY <1>1, <1>2, <2>1
    <3>. QED
      BY <1>1, <1>2, <1>3, <3>1
  <2>2. CASE x > Len(b)
    <3>1. x - Len(b) \in 1 .. Len(q)
      BY <1>1, <1>2, <1>3, <2>2
    <3>2. Len(b) + (x - Len(b)) = x /\ Len(p) + (x - Len(b)) = d + x
      BY <1>1, <1>2
    <3>. QED
      BY <1>2, <1>3, <3>1, <3>2
  <2>. QED
    BY <1>1, <1>2, <2>1, <2>2
<1>. QED
  BY <1>4, <1>5 DEF r, s, b

LEMMA NothingStripped == Stripped(<<>>) = <<>>
<1>1. LineEnds(<<>>) = {}
  BY DEF LineEnds
<1>. QED
  BY <1>1, FS_EmptySet DEF Stripped

\* A client drops the line ends before it looks for an answer.
LEMMA StreamStripped ==
  ASSUME NEW P, NEW buf \in Seq(P), NEW down \in Seq(P), NEW z \in {0, 1}, NEW i \in Int, NEW m \in Nat,
         Stream(buf \o down, z, i, m)
  PROVE  \E y \in {0, 1} : /\ Stream(Stripped(buf) \o down, y, i, m)
                           /\ Stripped(buf) # <<>> => y = 0
<1>. DEFINE s == buf \o down
<1>1. Len(s) = z + 3 * m /\ (z = 1 => s[1].part = "newline")
  BY DEF Stream
<1>2. \A j \in 0 .. m - 1, p \in 1 .. 3 :
        s[z + 3 * j + p].part = Parts[p] /\ s[z + 3 * j + p].id = i + j + 1
  BY DEF Stream
<1>3. Len(s) = Len(buf) + Len(down) /\ \A x \in 1 .. Len(buf) : s[x] = buf[x]
  BY Joined
<1>4. Len(buf) \in Nat /\ Len(down) \in Nat
  OBVIOUS
<1>. HIDE DEF s
<1>5. CASE buf = <<>>
  BY <1>5, NothingStripped
<1>6. CASE buf # <<>>
  <2>1. Len(buf) >= 1
    BY <1>6
  <2>2. z \in 0 .. Len(buf) /\ 1 \in 1 .. Len(buf)
    BY <1>4, <2>1
  <2>3. z = 1 => buf[1].part = "newline"
    BY <1>1, <1>3, <2>2
  <2>4. ASSUME z + 1 <= Len(buf) PROVE buf[z + 1].part # "newline"
    <3>1. m >= 1
      BY <1>1, <1>3, <1>4, <2>4
    <3>2. 0 \in 0 .. m - 1 /\ 1 \in 1 .. 3
      BY <3>1
    <3>3. s[z + 3 * 0 + 1].part = Parts[1]
      BY <1>2, <3>2
    <3>4. z + 3 * 0 + 1 = z + 1 /\ z + 1 \in 1 .. Len(buf)
      BY <1>4, <2>4
    <3>. QED
      BY <1>3, <3>3, <3>4, PartsAre
  <2>5. Stripped(buf) = SubSeq(buf, z + 1, Len(buf))
    BY <2>2, <2>3, <2>4, StripExactly
  <2>. DEFINE t == Stripped(buf) \o down
  <2>6. Len(t) = Len(s) - z /\ \A x \in 1 .. Len(t) : t[x] = s[z + x]
    <3>. DEFINE r == SubSeq(buf, z + 1, Len(buf)) \o down
    <3>1. Len(r) = Len(buf \o down) - z /\ \A x \in 1 .. Len(r) : r[x] = (buf \o down)[z + x]
      BY <2>2, Dropped
    <3>2. t = r
      BY <2>5
    <3>. QED
      BY <3>1, <3>2 DEF s
  <2>. HIDE DEF t
  <2>7. Len(t) = 3 * m
    BY <1>1, <2>6
  <2>8. ASSUME NEW j \in 0 .. m - 1, NEW p \in 1 .. 3
        PROVE  t[0 + 3 * j + p].part = Parts[p] /\ t[0 + 3 * j + p].id = i + j + 1
    <3>1. 0 + 3 * j + p \in 1 .. Len(t) /\ z + (0 + 3 * j + p) = z + 3 * j + p
      BY <2>7
    <3>2. t[0 + 3 * j + p] = s[z + 3 * j + p]
      BY <2>6, <3>1
    <3>. QED
      BY <1>2, <3>2
  <2>9. Stream(t, 0, i, m)
    BY <2>7, <2>8 DEF Stream
  <2>. QED
    BY <2>9 DEF t
<1>. QED
  BY <1>5, <1>6

LEMMA WholeStripped ==
  ASSUME NEW P, NEW s \in Seq(P), NEW z \in {0, 1}, NEW i \in Int, NEW m \in Nat, Stream(s, z, i, m)
  PROVE  Stream(Stripped(s), 0, i, m)
<1>. DEFINE e == [x \in 1 .. 0 |-> x]
            b == Stripped(s)
<1>0. s \in Seq(P) /\ z \in {0, 1} /\ i \in Int /\ m \in Nat
  OBVIOUS
<1>1. e \in Seq(P) /\ s \o e = s
  <2>1. e = <<>>
    OBVIOUS
  <2>. QED
    BY <2>1, ConcatEmptySeq
<1>2. b \in Seq(P) /\ b \o e = b
  <2>1. e = <<>> /\ b \in Seq(P)
    BY StrippedIsPart
  <2>. HIDE DEF b
  <2>. QED
    BY <2>1, ConcatEmptySeq
<1>. HIDE DEF e
<1>3. \E y \in {0, 1} : Stream(b \o e, y, i, m) /\ (b # <<>> => y = 0)
  <2>1. e \in Seq(P) /\ Stream(s \o e, z, i, m)
    BY <1>1
  <2>2. ASSUME NEW t \in Seq(P), Stream(s \o t, z, i, m)
        PROVE  \E y \in {0, 1} : Stream(b \o t, y, i, m) /\ (b # <<>> => y = 0)
    <3>1. \E y \in {0, 1} : Stream(Stripped(s) \o t, y, i, m) /\ (Stripped(s) # <<>> => y = 0)
      BY <1>0, <2>2, StreamStripped, SMTT(20)
    <3>. QED
      BY <3>1, Zenon
  <2>. QED
    BY <2>1, <2>2
<1>4. PICK y \in {0, 1} : Stream(b, y, i, m) /\ (b # <<>> => y = 0)
  BY <1>2, <1>3
<1>. HIDE DEF b
<1>5. y = 0
  <2>1. Len(b) = y + 3 * m
    BY <1>4 DEF Stream
  <2>2. b = <<>> => Len(b) = 0
    OBVIOUS
  <2>. QED
    BY <1>4, <2>1, <2>2
<1>. QED
  BY <1>4, <1>5 DEF b

LEMMA FlowStrip ==
  ASSUME NEW P, NEW buf \in Seq(P), NEW down \in Seq(P), NEW at, NEW q, NEW up, NEW id \in Nat, NEW n \in Nat,
         Flow(buf \o down, at, q, up, id, n)
  PROVE  Flow(Stripped(buf) \o down, at, q, up, id, n)
<1>1. PICK z \in {0, 1}, m \in 0 .. n :
        Stream(buf \o down, z, id - n, m) /\ Rest(at, q, up, id - n + m, n - m)
  BY DEF Flow
<1>2. id - n \in Int /\ m \in Nat
  OBVIOUS
<1>3. \E y \in {0, 1} : Stream(Stripped(buf) \o down, y, id - n, m)
  BY <1>1, <1>2, StreamStripped
<1>. QED
  BY <1>1, <1>3 DEF Flow

\* An answer is written.
LEMMA FlowWork ==
  ASSUME NEW P, NEW s \in Seq(P), NEW at \in Busy, NEW q, NEW up, NEW a, NEW id \in Nat, NEW n \in Nat,
         NEW to, to \notin Busy, Message(q, a) \in Seq(P), NEW Q, up \in Seq(Q), Flow(s, at, q, up, id, n)
  PROVE  Flow(s \o Message(q, a), to, q, up, id, n)
<1>1. PICK z \in {0, 1}, m \in 0 .. n :
        Stream(s, z, id - n, m) /\ Rest(at, q, up, id - n + m, n - m)
  BY DEF Flow
<1>. DEFINE i == id - n + m
            t == s \o Message(q, a)
<1>2. /\ Len(Message(q, a)) = 3
      /\ \A p \in 1 .. 3 : Message(q, a)[p].part = Parts[p] /\ Message(q, a)[p].id = q
  BY PartsAre DEF Message
<1>3. /\ Len(t) = Len(s) + 3 /\ Len(s) \in Nat
      /\ \A x \in 1 .. Len(s) : t[x] = s[x]
      /\ \A p \in 1 .. 3 : t[Len(s) + p] = Message(q, a)[p]
  <2>1. /\ Len(t) = Len(s) + Len(Message(q, a)) /\ Len(s) \in Nat
        /\ \A x \in 1 .. Len(s) : t[x] = s[x]
        /\ \A p \in 1 .. Len(Message(q, a)) : t[Len(s) + p] = Message(q, a)[p]
    BY Joined
  <2>. HIDE DEF t
  <2>. QED
    BY <1>2, <2>1
<1>4. n - m = Len(up) + 1 /\ q = i + 1 /\ Len(up) \in Nat
      /\ \A j \in 1 .. Len(up) : up[j].id = i + 1 + j
  BY <1>1 DEF Rest
<1>5. m + 1 \in 0 .. n /\ id - n + (m + 1) = i + 1 /\ n - (m + 1) = Len(up)
  BY <1>4
<1>6. Rest(to, q, up, id - n + (m + 1), n - (m + 1))
  <2>. HIDE DEF i
  <2>. QED
    BY <1>4, <1>5 DEF Rest
<1>. DEFINE l == id - n
<1>7. Len(s) = z + 3 * m /\ (z = 1 => s[1].part = "newline")
  BY <1>1 DEF Stream
<1>8. \A j \in 0 .. m - 1, p \in 1 .. 3 :
         s[z + 3 * j + p].part = Parts[p] /\ s[z + 3 * j + p].id = l + j + 1
  BY <1>1 DEF Stream
<1>9. l \in Int /\ q = l + m + 1
  BY <1>4
<1>. HIDE DEF t, l, i
<1>10. ASSUME NEW j \in 0 .. m, NEW p \in 1 .. 3
      PROVE  t[z + 3 * j + p].part = Parts[p] /\ t[z + 3 * j + p].id = l + j + 1
  <2>1. CASE j < m
    <3>1. j \in 0 .. m - 1 /\ z + 3 * j + p \in 1 .. Len(s)
      BY <1>7, <2>1
    <3>. QED
      <4>1. t[z + 3 * j + p] = s[z + 3 * j + p]
        BY <1>3, <3>1
      <4>. QED
        BY <1>8, <3>1, <4>1
  <2>2. CASE j = m
    <3>1. z + 3 * j + p = Len(s) + p
      BY <1>7, <2>2
    <3>. QED
      <4>1. t[z + 3 * j + p] = Message(q, a)[p]
        BY <1>3, <3>1
      <4>2. l + j + 1 = q
        BY <1>9, <2>2
      <4>. QED
        BY <1>2, <4>1, <4>2
  <2>. QED
    BY <2>1, <2>2
<1>11. z = 1 => t[1].part = "newline"
  <2>1. z = 1 => 1 \in 1 .. Len(s)
    BY <1>7
  <2>. QED
    BY <1>3, <1>7, <2>1
<1>12. Len(t) = z + 3 * (m + 1) /\ (m + 1) - 1 = m
  BY <1>3, <1>7
<1>13. Stream(t, z, l, m + 1)
  BY <1>10, <1>11, <1>12 DEF Stream
<1>. QED
  BY <1>5, <1>6, <1>13 DEF Flow, t, l

\* An answer is taken.
LEMMA FlowReturn ==
  ASSUME NEW P, NEW buf \in Seq(P), NEW down \in Seq(P), NEW at, NEW q, NEW up, NEW id \in Nat, NEW n \in Nat,
         Flow(buf \o down, at, q, up, id, n), Complete(buf)
  PROVE  n >= 1 /\ Flow(SubSeq(Stripped(buf), 3, Len(Stripped(buf))) \o down, at, q, up, id, n - 1)
<1>. DEFINE b == Stripped(buf)
            s == b \o down
            r == SubSeq(b, 3, Len(b))
            t == r \o down
            l == id - n
<1>1. PICK z \in {0, 1}, m \in 0 .. n :
        Stream(buf \o down, z, l, m) /\ Rest(at, q, up, l + m, n - m)
  BY DEF Flow
<1>2. l \in Int /\ m \in Nat
  OBVIOUS
<1>3. b \in Seq(P) /\ Len(b) >= 2 /\ b # <<>>
  BY StrippedIsPart DEF Complete
<1>4. Stream(s, 0, l, m)
  BY <1>1, <1>2, <1>3, StreamStripped
<1>. HIDE DEF b, l
<1>5. Len(b) \in Nat /\ 2 \in 0 .. Len(b) /\ r = SubSeq(b, 2 + 1, Len(b))
  BY <1>3
<1>6. Len(t) = Len(s) - 2 /\ \A x \in 1 .. Len(t) : t[x] = s[2 + x]
  <2>1. /\ Len(SubSeq(b, 2 + 1, Len(b)) \o down) = Len(b \o down) - 2
        /\ \A x \in 1 .. Len(SubSeq(b, 2 + 1, Len(b)) \o down) :
             (SubSeq(b, 2 + 1, Len(b)) \o down)[x] = (b \o down)[2 + x]
    <3>1. 2 \in 0 .. Len(b) /\ b \in Seq(P) /\ down \in Seq(P)
      BY <1>3, <1>5
    <3>. QED
      BY <3>1, Dropped, SMTT(20)
  <2>. QED
    BY <1>5, <2>1, Zenon
<1>7. Len(s) >= 2
  BY <1>3, Joined
<1>. HIDE DEF r, s, t
<1>8. Len(s) = 3 * m
  BY <1>4 DEF Stream
<1>9. \A j \in 0 .. m - 1, p \in 1 .. 3 :
        s[0 + 3 * j + p].part = Parts[p] /\ s[0 + 3 * j + p].id = l + j + 1
  BY <1>4 DEF Stream
<1>10. m >= 1 /\ n >= 1 /\ Len(t) = 1 + 3 * (m - 1)
  BY <1>6, <1>7, <1>8
<1>11. t[1].part = "newline"
  <2>1. 1 \in 1 .. Len(t) /\ 2 + 1 = 0 + 3 * 0 + 3 /\ 0 \in 0 .. m - 1 /\ 3 \in 1 .. 3
    BY <1>10
  <2>2. t[1] = s[2 + 1]
    BY <1>6, <2>1
  <2>3. s[0 + 3 * 0 + 3].part = Parts[3]
    BY <1>9, <2>1
  <2>. QED
    BY <2>1, <2>2, <2>3, PartsAre
<1>12. ASSUME NEW j \in 0 .. (m - 1) - 1, NEW p \in 1 .. 3
       PROVE  t[1 + 3 * j + p].part = Parts[p] /\ t[1 + 3 * j + p].id = (l + 1) + j + 1
  <2>1. /\ 1 + 3 * j + p \in 1 .. Len(t) /\ 2 + (1 + 3 * j + p) = 0 + 3 * (j + 1) + p
        /\ j + 1 \in 0 .. m - 1 /\ l + (j + 1) + 1 = (l + 1) + j + 1
    BY <1>2, <1>10
  <2>2. t[1 + 3 * j + p] = s[0 + 3 * (j + 1) + p]
    BY <1>6, <2>1
  <2>3. s[0 + 3 * (j + 1) + p].part = Parts[p] /\ s[0 + 3 * (j + 1) + p].id = l + (j + 1) + 1
    BY <1>9, <2>1
  <2>. QED
    BY <2>1, <2>2, <2>3
<1>13. Stream(t, 1, l + 1, m - 1)
  BY <1>10, <1>11, <1>12 DEF Stream
<1>14. /\ id - (n - 1) = l + 1 /\ (l + 1) + (m - 1) = l + m /\ (n - 1) - (m - 1) = n - m
       /\ m - 1 \in 0 .. n - 1
  BY <1>10 DEF l
<1>15. Rest(at, q, up, id - (n - 1) + (m - 1), (n - 1) - (m - 1))
  BY <1>1, <1>14
<1>16. Stream(t, 1, id - (n - 1), m - 1)
  BY <1>13, <1>14
<1>17. Flow(t, at, q, up, id, n - 1)
  BY <1>14, <1>15, <1>16 DEF Flow
<1>. QED
  BY <1>10, <1>17 DEF t, r, b

-----------------------------------------------------------------------------
(* What a client and its connection agree on.                               *)

Awaited(w) == w.late + (IF w.waiting THEN 1 ELSE 0)

\* What client record w and connection t agree on while the server runs.
Agree(w, t) ==
  t.alive => Flow(w.buf \o t.down, t.at, t.req.id, t.up, w.id, Awaited(w))

\* No two clients use one connection, a client's connection is open, and it agrees.
PairInv ==
  /\ \A c \in Clients : client[c].sock # 0 =>
       conn[client[c].sock].open /\ Agree(client[c], conn[client[c].sock])
  /\ \A c, d \in Clients : client[c].sock = client[d].sock /\ client[c].sock # 0 => c = d

Record(w, F) == w = [f \in F |-> w[f]]
ClientNames  == {"sock", "waiting", "compiling", "id", "sid", "buf", "calls", "connects", "timeouts", "late"}
ThreadNames  == {"up", "down", "open", "alive", "at", "req", "on"}

\* What a change of one field leaves of a client.
LEMMA BufferSet ==
  ASSUME NEW w, Record(w, ClientNames), NEW b
  PROVE  LET r == [w EXCEPT !.buf = b]
         IN  /\ r.sock = w.sock /\ r.waiting = w.waiting /\ r.id = w.id /\ r.late = w.late
             /\ r.buf = b /\ Record(r, ClientNames)
BY DEF Record, ClientNames

LEMMA WaitingSet ==
  ASSUME NEW w, Record(w, ClientNames), NEW b
  PROVE  LET r == [w EXCEPT !.waiting = b]
         IN  /\ r.sock = w.sock /\ r.waiting = b /\ r.id = w.id /\ r.late = w.late
             /\ r.buf = w.buf /\ Record(r, ClientNames)
BY DEF Record, ClientNames

LEMMA Shapes ==
  ASSUME FoundInv
  PROVE  /\ \A c \in Clients : Record(client[c], ClientNames)
         /\ \A k \in DOMAIN conn : Record(conn[k], ThreadNames)
<1>1. ASSUME NEW c \in Clients PROVE Record(client[c], ClientNames)
  <2>1. client[c] \in ClientsOf(Len(sessions), Len(conn))
    BY DEF FoundInv
  <2>. QED
    BY <2>1 DEF ClientsOf, ClientRecords, Record, ClientNames
<1>2. ASSUME NEW k \in DOMAIN conn PROVE Record(conn[k], ThreadNames)
  <2>1. conn[k] \in Threads(Len(sessions))
    BY ThreadOf
  <2>. QED
    BY <2>1 DEF Threads, Record, ThreadNames
<1>. QED
  BY <1>1, <1>2

\* The types of what they agree on.
LEMMA Linked ==
  ASSUME FoundInv, NEW c \in Clients, client[c].sock # 0
  PROVE  LET k == client[c].sock
             n == Len(sessions)
         IN  /\ k \in DOMAIN conn
             /\ client[c].buf \in Seq(Pieces(n)) /\ conn[k].down \in Seq(Pieces(n))
             /\ conn[k].up \in Seq(Requested(n))
             /\ client[c].id \in Nat /\ client[c].late \in Nat /\ client[c].waiting \in BOOLEAN
             /\ Awaited(client[c]) \in Nat
<1>. DEFINE k == client[c].sock
            n == Len(sessions)
<1>1. client[c] \in ClientsOf(n, Len(conn)) /\ Len(conn) \in Nat
  BY DEF FoundInv
<1>2. k \in 0 .. Len(conn) /\ client[c].buf \in Seq(Pieces(n)) /\ client[c].id \in Nat /\ client[c].late \in Nat
  BY <1>1, ClientFields
<1>3. client[c].waiting \in BOOLEAN
  BY <1>1 DEF ClientsOf, ClientRecords
<1>4. k \in DOMAIN conn
  BY <1>1, <1>2 DEF FoundInv
<1>5. conn[k].down \in Seq(Pieces(n)) /\ conn[k].up \in Seq(Requested(n))
  BY <1>4, ThreadOf, ThreadFields
<1>6. Awaited(client[c]) \in Nat
  BY <1>2 DEF Awaited
<1>. QED
  BY <1>2, <1>3, <1>4, <1>5, <1>6

\* A step of a client that stays on its connection.
LEMMA ClientAgrees ==
  ASSUME FoundInv, PairInv, NEW c \in Clients, client[c].sock # 0, NEW r, Set(c, r), NEW t,
         r.sock = client[c].sock, conn' = [conn EXCEPT ![client[c].sock] = t],
         t.open = conn[client[c].sock].open, Agree(r, t)
  PROVE  PairInv'
<1>. DEFINE k == client[c].sock
<1>1. k \in DOMAIN conn
  BY Linked
<1>2. conn'[k] = t /\ \A l \in DOMAIN conn \ {k} : conn'[l] = conn[l]
  BY <1>1 DEF FoundInv
<1>3. client'[c] = r /\ \A d \in Clients \ {c} : client'[d] = client[d]
  BY DEF FoundInv, Set
<1>4. \A d \in Clients : client'[d].sock = client[d].sock
  BY <1>3
<1>5. \A d, e \in Clients : client'[d].sock = client'[e].sock /\ client'[d].sock # 0 => d = e
  BY <1>4 DEF PairInv
<1>6. ASSUME NEW d \in Clients, client'[d].sock # 0
      PROVE  conn'[client'[d].sock].open /\ Agree(client'[d], conn'[client'[d].sock])
  <2>1. CASE d = c
    BY <1>2, <1>3, <2>1 DEF PairInv
  <2>2. CASE d # c
    <3>1. client[d].sock # k /\ client[d].sock \in DOMAIN conn
      BY <1>4, <1>6, <2>2, Linked DEF PairInv
    <3>. QED
      BY <1>2, <1>3, <1>4, <1>6, <2>2, <3>1 DEF PairInv
  <2>. QED
    BY <2>1, <2>2
<1>. QED
  BY <1>5, <1>6 DEF PairInv, Agree

\* A step of a connection's thread.
LEMMA ThreadAgrees ==
  ASSUME FoundInv, PairInv, NEW k \in DOMAIN conn, NEW t, Thread(k, t), client' = client,
         t.open = conn[k].open,
         \A c \in Clients : client[c].sock = k => Agree(client[c], t)
  PROVE  PairInv'
<1>1. conn'[k] = t /\ \A l \in DOMAIN conn \ {k} : conn'[l] = conn[l]
  BY DEF FoundInv, Thread
<1>2. ASSUME NEW c \in Clients, client[c].sock # 0
      PROVE  conn'[client[c].sock].open /\ Agree(client[c], conn'[client[c].sock])
  <2>1. client[c].sock \in DOMAIN conn
    BY <1>2, Linked
  <2>2. CASE client[c].sock = k
    BY <1>1, <1>2, <2>2 DEF PairInv
  <2>3. CASE client[c].sock # k
    BY <1>1, <1>2, <2>1, <2>3 DEF PairInv
  <2>. QED
    BY <2>2, <2>3
<1>. QED
  BY <1>2 DEF PairInv, Agree

-----------------------------------------------------------------------------
(* The steps keep requests and answers paired.                              *)

LEMMA InitPairs == Init => PairInv
<1>. SUFFICES ASSUME Init PROVE PairInv
  OBVIOUS
<1>1. \A c \in Clients : client[c].sock = 0
  BY DEF Init, Fresh
<1>. QED
  BY <1>1 DEF PairInv

LEMMA ConnectPairs ==
  ASSUME FoundInv, PairInv, NEW c \in Clients, Connect(c)
  PROVE  PairInv'
<1>. DEFINE m == Len(conn) + 1
            r == client'[c]
<1>1. Len(conn) \in Nat /\ DOMAIN conn = 1 .. Len(conn)
  BY DEF FoundInv
<1>2. conn' = Append(conn, NewConn) /\ Len(conn') = m
  BY DEF Connect, FoundInv
<1>3. conn'[m] = NewConn /\ \A l \in DOMAIN conn : conn'[l] = conn[l]
  BY <1>2 DEF FoundInv
<1>4. \A d \in Clients \ {c} : client'[d] = client[d]
  BY DEF FoundInv, Connect, Set
<1>5. r = [client[c] EXCEPT !.sock = Len(conn'), !.id = 0, !.buf = <<>>, !.late = 0, !.connects = @ + 1]
  BY DEF FoundInv, Connect, Set
<1>6. r.sock = m /\ r.id = 0 /\ r.buf = <<>> /\ r.late = 0 /\ r.waiting = client[c].waiting
  BY <1>2, <1>5, Shapes DEF Record, ClientNames
<1>7. client[c].waiting = FALSE
  <2>1. client[c] \in ClientsOf(Len(sessions), Len(conn)) /\ client[c].sock = 0
    BY DEF FoundInv, Connect
  <2>. QED
    BY <2>1 DEF ClientsOf, ClientRecords
<1>8. Awaited(r) = 0
  BY <1>6, <1>7 DEF Awaited
<1>9. Agree(r, NewConn)
  <2>1. Stream(<<>>, 0, 0, 0)
    BY DEF Stream
  <2>2. Rest("read", 0, <<>>, 0, 0)
    BY DEF Rest, Busy
  <2>3. Flow(<<>>, "read", 0, <<>>, 0, 0)
    BY <2>1, <2>2 DEF Flow
  <2>4. r.buf \o NewConn.down = <<>>
    BY <1>6 DEF NewConn
  <2>5. NewConn.at = "read" /\ NewConn.req.id = 0 /\ NewConn.up = <<>>
    BY DEF NewConn
  <2>. QED
    BY <1>6, <1>8, <2>3, <2>4, <2>5 DEF Agree
<1>. HIDE DEF r
<1>10. \A d \in Clients \ {c} : client'[d].sock # m
  BY <1>1, <1>4, Linked
<1>11. ASSUME NEW d \in Clients, client'[d].sock # 0
       PROVE  conn'[client'[d].sock].open /\ Agree(client'[d], conn'[client'[d].sock])
  <2>1. CASE d = c
    BY <1>3, <1>6, <1>9, <2>1 DEF r, NewConn
  <2>2. CASE d # c
    <3>1. client'[d] = client[d] /\ client[d].sock \in DOMAIN conn
      BY <1>4, <1>11, <2>2, Linked
    <3>. QED
      BY <1>3, <1>11, <3>1 DEF PairInv
  <2>. QED
    BY <2>1, <2>2
<1>12. ASSUME NEW d \in Clients, NEW e \in Clients, client'[d].sock = client'[e].sock, client'[d].sock # 0
       PROVE  d = e
  <2>1. CASE d = c \/ e = c
    BY <1>6, <1>10, <1>12, <2>1 DEF r
  <2>2. CASE d # c /\ e # c
    BY <1>4, <1>12, <2>2 DEF PairInv
  <2>. QED
    BY <2>1, <2>2
<1>. QED
  BY <1>11, <1>12 DEF PairInv, Agree

LEMMA ClosePairs ==
  ASSUME FoundInv, PairInv, NEW c \in Clients, Close(c)
  PROVE  PairInv'
<1>. DEFINE k == client[c].sock
<1>1. k # 0 /\ k \in DOMAIN conn
  BY Linked DEF Close
<1>2. \A l \in DOMAIN conn \ {k} : conn'[l] = conn[l]
  BY <1>1 DEF FoundInv, Close
<1>3. client'[c].sock = 0 /\ \A d \in Clients \ {c} : client'[d] = client[d]
  <2>1. client'[c] = [client[c] EXCEPT !.sock = 0] /\ \A d \in Clients \ {c} : client'[d] = client[d]
    BY DEF FoundInv, Close, Set
  <2>. QED
    BY <2>1, Shapes DEF Record, ClientNames
<1>4. ASSUME NEW d \in Clients, client'[d].sock # 0
      PROVE  conn'[client'[d].sock].open /\ Agree(client'[d], conn'[client'[d].sock])
  <2>1. d # c /\ client'[d] = client[d]
    BY <1>3, <1>4
  <2>2. client[d].sock # k /\ client[d].sock \in DOMAIN conn
    BY <1>1, <1>4, <2>1, Linked DEF PairInv
  <2>. QED
    BY <1>2, <1>4, <2>1, <2>2 DEF PairInv
<1>5. \A d, e \in Clients : client'[d].sock = client'[e].sock /\ client'[d].sock # 0 => d = e
  BY <1>3 DEF PairInv
<1>. QED
  BY <1>4, <1>5 DEF PairInv, Agree

LEMMA CallPairs ==
  ASSUME FoundInv, PairInv, NEW c \in Clients, NEW m, NEW source, Call(c, m, source)
  PROVE  PairInv'
<1>. DEFINE k == client[c].sock
            v == [client[c] EXCEPT !.id = @ + 1, !.calls = @ + 1, !.compiling = (m = "compile")]
            q == [id |-> v.id, m |-> m, sid |-> v.sid, source |-> source]
<1>1. k # 0 /\ ~client[c].waiting /\ k \in DOMAIN conn
  BY Linked DEF Call
<1>2. v.sock = k /\ v.id = client[c].id + 1
  BY Shapes DEF Record, ClientNames
<1>3. CASE ~conn[k].alive
  <2>1. Set(c, v) /\ conn' = [conn EXCEPT ![k] = conn[k]] /\ conn[k].open = conn[k].open
    BY <1>1, <1>3 DEF Call, FoundInv
  <2>2. Agree(v, conn[k])
    BY <1>3 DEF Agree
  <2>. QED
    BY <1>1, <1>2, <2>1, <2>2, ClientAgrees
<1>4. CASE conn[k].alive
  <2>. DEFINE r == [v EXCEPT !.waiting = TRUE, !.buf = Stripped(@)]
              t == [conn[k] EXCEPT !.up = Append(@, q)]
  <2>1. Set(c, r) /\ conn' = [conn EXCEPT ![k] = t]
    BY <1>4 DEF Call
  <2>2. /\ r.sock = k /\ r.id = client[c].id + 1 /\ r.waiting = TRUE
        /\ r.buf = Stripped(client[c].buf) /\ r.late = client[c].late
    BY <1>2, Shapes DEF Record, ClientNames
  <2>3. /\ t.up = Append(conn[k].up, q) /\ t.down = conn[k].down /\ t.at = conn[k].at
        /\ t.req = conn[k].req /\ t.open = conn[k].open /\ t.alive = conn[k].alive
    BY <1>1, Shapes DEF Record, ThreadNames
  <2>. DEFINE w == client[c]
              buf == w.buf
              down == conn[k].down
              n == Awaited(w)
  <2>4. Awaited(r) = n + 1 /\ n \in Nat /\ w.id \in Nat
    BY <1>1, <2>2, Linked DEF Awaited
  <2>5. Flow(buf \o down, t.at, t.req.id, conn[k].up, w.id, n)
    BY <1>1, <1>4, <2>3 DEF PairInv, Agree
  <2>6. /\ buf \in Seq(Pieces(Len(sessions))) /\ down \in Seq(Pieces(Len(sessions)))
        /\ conn[k].up \in Seq(Requested(Len(sessions)))
    BY <1>1, Linked
  <2>7. q.id = w.id + 1
    BY <1>2
  <2>. HIDE DEF r, t, q, n, w, buf, down
  <2>8. Flow(Stripped(buf) \o down, t.at, t.req.id, conn[k].up, w.id, n)
    BY <2>4, <2>5, <2>6, FlowStrip
  <2>9. Flow(Stripped(buf) \o down, t.at, t.req.id, Append(conn[k].up, q), w.id + 1, n + 1)
    <3>1. PICK Q : Q = Requested(Len(sessions)) \cup {q}
      OBVIOUS
    <3>2. conn[k].up \in Seq(Q) /\ q \in Q
      BY <2>6, <3>1
    <3>. QED
      BY <2>4, <2>7, <2>8, <3>2, FlowCall
  <2>10. Agree(r, t)
    BY <2>2, <2>3, <2>4, <2>9 DEF Agree, w, buf, down
  <2>. QED
    BY <1>1, <2>1, <2>2, <2>3, <2>10, ClientAgrees
<1>. QED
  BY <1>3, <1>4

LEMMA ReceivePairs ==
  ASSUME FoundInv, PairInv, NEW c \in Clients, NEW x, Receive(c, x)
  PROVE  PairInv'
<1>. DEFINE k == client[c].sock
            w == client[c]
            down == conn[k].down
            some == SubSeq(down, 1, x)
            rest == SubSeq(down, x + 1, Len(down))
            r == [w EXCEPT !.buf = @ \o some]
            t == [conn[k] EXCEPT !.down = rest]
            P == Pieces(Len(sessions))
<1>1. k # 0 /\ k \in DOMAIN conn
  <2>1. w \in ClientsOf(Len(sessions), Len(conn)) /\ w.waiting
    BY DEF FoundInv, Receive
  <2>2. k # 0
    BY <2>1 DEF ClientsOf
  <2>. QED
    BY <2>2, Linked
<1>2. Set(c, r) /\ conn' = [conn EXCEPT ![k] = t] /\ x \in DOMAIN down
  BY DEF Receive
<1>3. r.sock = k /\ r.id = w.id /\ r.waiting = w.waiting /\ r.buf = w.buf \o some /\ r.late = w.late
  BY Shapes, BufferSet
<1>4. /\ t.up = conn[k].up /\ t.down = rest /\ t.at = conn[k].at
      /\ t.req = conn[k].req /\ t.open = conn[k].open /\ t.alive = conn[k].alive
  <2>. HIDE DEF rest
  <2>. QED
    BY <1>1, Shapes DEF Record, ThreadNames
<1>5. w.buf \in Seq(P) /\ down \in Seq(P)
  BY <1>1, Linked
<1>. HIDE DEF r, t, w, P, down
<1>6. (w.buf \o some) \o rest = w.buf \o down
  <2>1. 1 \in 1 .. Len(down) + 1 /\ x \in 0 .. Len(down) /\ Len(down) \in x .. Len(down) /\ 1 - 1 = 0
    BY <1>2, <1>5
  <2>2. some \in Seq(P)
    BY <1>2, <1>5, <2>1
  <2>3. rest \in Seq(P)
    BY <1>2, <1>5, <2>1
  <2>4. some \o rest = SubSeq(down, 1, Len(down))
    BY <1>5, <2>1, ConcatAdjacentSubSeq
  <2>5. SubSeq(down, 1, Len(down)) = down
    BY <1>5
  <2>. HIDE DEF some, rest
  <2>6. (w.buf \o some) \o rest = w.buf \o (some \o rest)
    <3>. DEFINE bb == w.buf
    <3>1. bb \in Seq(P)
      BY <1>5
    <3>. HIDE DEF bb
    <3>2. \A p, q, v \in Seq(P) : (p \o q) \o v = p \o (q \o v)
      BY ConcatAssociative
    <3>3. (bb \o some) \o rest = bb \o (some \o rest)
      BY <2>2, <2>3, <3>1, <3>2, Zenon
    <3>. QED
      BY <3>3, Zenon DEF bb
  <2>. QED
    BY <2>4, <2>5, <2>6, Zenon
<1>7. Awaited(r) = Awaited(w)
  BY <1>3 DEF Awaited
<1>8. Agree(w, conn[k])
  BY <1>1 DEF PairInv, w
<1>9. Agree(r, t)
  BY <1>3, <1>4, <1>6, <1>7, <1>8 DEF Agree, down
<1>. QED
  BY <1>1, <1>2, <1>3, <1>4, <1>9, ClientAgrees DEF w

LEMMA ReturnPairs ==
  ASSUME FoundInv, PairInv, NEW c \in Clients, Return(c)
  PROVE  PairInv'
<1>. DEFINE k == client[c].sock
            w == client[c]
            b == Stripped(w.buf)
            rest == SubSeq(b, 3, Len(b))
            v == [w EXCEPT !.waiting = FALSE, !.buf = rest]
            r == Remembered(v, b[1].answer)
            down == conn[k].down
            n == Awaited(w)
            P == Pieces(Len(sessions))
<1>1. k # 0 /\ k \in DOMAIN conn /\ w.waiting = TRUE
  <2>1. w \in ClientsOf(Len(sessions), Len(conn)) /\ w.waiting
    BY DEF FoundInv, Return
  <2>2. k # 0
    BY <2>1 DEF ClientsOf
  <2>. QED
    BY <2>1, <2>2, Linked
<1>2. Set(c, r) /\ conn' = conn /\ Complete(w.buf)
  BY DEF Return
<1>3. conn' = [conn EXCEPT ![k] = conn[k]]
  BY <1>1, <1>2 DEF FoundInv
<1>4. r.sock = k /\ r.id = w.id /\ r.waiting = FALSE /\ r.buf = rest /\ r.late = w.late
  <2>1. /\ v.sock = k /\ v.id = w.id /\ v.waiting = FALSE /\ v.buf = rest /\ v.late = w.late
        /\ Record(v, ClientNames)
    <3>. DEFINE u == [w EXCEPT !.waiting = FALSE]
    <3>1. Record(w, ClientNames) /\ v = [u EXCEPT !.buf = rest]
      BY Shapes
    <3>. HIDE DEF v, rest
    <3>2. Record(u, ClientNames) /\ u.sock = k /\ u.id = w.id /\ u.waiting = FALSE /\ u.late = w.late
      BY <3>1, WaitingSet
    <3>. HIDE DEF u
    <3>. QED
      BY <3>1, <3>2, BufferSet
  <2>. HIDE DEF v
  <2>. QED
    BY <2>1, SMTT(20) DEF Remembered, Record, ClientNames
<1>5. /\ w.buf \in Seq(P) /\ down \in Seq(P) /\ w.id \in Nat /\ w.late \in Nat /\ n \in Nat
  BY <1>1, Linked
<1>6. Awaited(r) = n - 1
  <2>1. Awaited(r) = w.late + 0
    BY <1>4 DEF Awaited
  <2>2. n = w.late + 1
    BY <1>1 DEF Awaited
  <2>. QED
    BY <1>5, <2>1, <2>2
<1>7. Agree(w, conn[k])
  BY <1>1 DEF PairInv
<1>. HIDE DEF r, P, down, n, w
<1>8. ASSUME conn[k].alive
      PROVE  Flow(rest \o down, conn[k].at, conn[k].req.id, conn[k].up, w.id, n - 1)
  <2>1. Flow(w.buf \o down, conn[k].at, conn[k].req.id, conn[k].up, w.id, n)
    BY <1>7, <1>8 DEF Agree, n, down
  <2>. QED
    BY <1>2, <1>5, <2>1, FlowReturn
<1>9. Agree(r, conn[k])
  BY <1>4, <1>6, <1>8 DEF Agree, down
<1>. QED
  BY <1>1, <1>2, <1>3, <1>4, <1>9, ClientAgrees DEF w

\* A call that is given up stays due.
LEMMA GiveUpPairs ==
  ASSUME FoundInv, PairInv, NEW c \in Clients, GiveUp(c) \/ Broken(c)
  PROVE  PairInv'
<1>. DEFINE k == client[c].sock
            w == client[c]
            r == client'[c]
<1>1. k # 0 /\ k \in DOMAIN conn /\ w.waiting = TRUE /\ w.late \in Nat
  <2>1. w \in ClientsOf(Len(sessions), Len(conn)) /\ w.waiting
    BY DEF FoundInv, GiveUp, Broken
  <2>2. k # 0
    BY <2>1 DEF ClientsOf
  <2>. QED
    BY <2>1, <2>2, Linked
<1>2. conn' = [conn EXCEPT ![k] = conn[k]] /\ Set(c, r)
  BY <1>1 DEF GiveUp, Broken, FoundInv, Set
<1>3. /\ r.sock = k /\ r.id = w.id /\ r.waiting = FALSE /\ r.buf = w.buf
      /\ r.late = w.late + 1 \/ ~conn[k].alive
  <2>1. CASE GiveUp(c)
    <3>1. r = [w EXCEPT !.waiting = FALSE, !.timeouts = @ + 1, !.late = @ + 1]
      BY <2>1 DEF GiveUp, Set, FoundInv
    <3>. QED
      BY <3>1, Shapes DEF Record, ClientNames
  <2>2. CASE Broken(c)
    <3>1. r = [w EXCEPT !.waiting = FALSE] /\ ~conn[k].alive
      BY <2>2 DEF Broken, Set, FoundInv
    <3>. QED
      BY <3>1, Shapes DEF Record, ClientNames
  <2>. QED
    BY <2>1, <2>2
<1>4. Agree(w, conn[k])
  BY <1>1 DEF PairInv
<1>5. Agree(r, conn[k])
  <2>1. conn[k].alive => Awaited(r) = Awaited(w)
    BY <1>1, <1>3 DEF Awaited
  <2>. QED
    BY <1>3, <1>4, <2>1 DEF Agree
<1>. HIDE DEF r
<1>. QED
  BY <1>1, <1>2, <1>3, <1>5, ClientAgrees

LEMMA ReadRequestPairs ==
  ASSUME FoundInv, PairInv, NEW k \in DOMAIN conn, ReadRequest(k)
  PROVE  PairInv'
<1>. DEFINE q == Head(conn[k].up)
            to == IF q.m = "compile" THEN "create" ELSE "want"
            t == [conn[k] EXCEPT !.up = Tail(@), !.req = q, !.on = q.sid, !.at = to]
<1>1. Thread(k, t) /\ client' = client /\ conn[k].at = "read" /\ conn[k].up # <<>>
  BY DEF ReadRequest, Runs
<1>. HIDE DEF q, to
<1>2. /\ t.up = Tail(conn[k].up) /\ t.down = conn[k].down /\ t.at = to
      /\ t.req = q /\ t.open = conn[k].open /\ t.alive = conn[k].alive
  BY Shapes DEF Record, ThreadNames
<1>3. to \in Busy /\ "read" \notin Busy
  BY DEF to, Busy
<1>. HIDE DEF t
<1>4. ASSUME NEW c \in Clients, client[c].sock = k PROVE Agree(client[c], t)
  <2>. DEFINE w == client[c]
              s == w.buf \o conn[k].down
              n == Awaited(w)
  <2>1. k # 0
    BY DEF FoundInv
  <2>2. conn[k].up \in Seq(Requested(Len(sessions))) /\ w.id \in Nat /\ n \in Nat
    BY <1>4, <2>1, Linked
  <2>3. conn[k].alive => Flow(s, "read", conn[k].req.id, conn[k].up, w.id, n)
    BY <1>1, <1>4, <2>1 DEF PairInv, Agree
  <2>. HIDE DEF w, s, n
  <2>4. conn[k].alive => Flow(s, to, Head(conn[k].up).id, Tail(conn[k].up), w.id, n)
    BY <1>1, <1>3, <2>2, <2>3, FlowRead
  <2>. QED
    BY <1>2, <2>4 DEF Agree, q, w, s, n
<1>. QED
  BY <1>1, <1>2, <1>4, ThreadAgrees

\* A thread that is busy and stays so, or ends.
LEMMA StaysPairs ==
  ASSUME FoundInv, PairInv, NEW k \in DOMAIN conn, EndOfStream(k) \/ Create(k) \/ Lock(k)
  PROVE  PairInv'
<1>. DEFINE t == conn'[k]
            u == conn[k]
<1>1. client' = client /\ Thread(k, t)
  BY DEF EndOfStream, Create, Lock, Thread, FoundInv
<1>2. /\ t.up = u.up /\ t.down = u.down /\ t.req = u.req /\ t.open = u.open
      /\ \/ u.at \in Busy /\ t.at \in Busy
         \/ u.open = FALSE
  <2>1. CASE EndOfStream(k)
    <3>1. t = [u EXCEPT !.at = "gone"] /\ ~u.open
      BY <2>1 DEF EndOfStream, Thread, FoundInv
    <3>2. u.open = FALSE
      BY <3>1, ThreadOf DEF Threads
    <3>. QED
      BY <3>1, <3>2, Shapes DEF Record, ThreadNames
  <2>2. CASE Create(k)
    <3>1. t = [u EXCEPT !.at = "want", !.on = Len(sessions')] /\ u.at = "create"
      BY <2>2 DEF Create, Thread, FoundInv, Runs
    <3>. QED
      BY <3>1, Shapes DEF Record, ThreadNames, Busy
  <2>3. CASE Lock(k)
    <3>1. t = [u EXCEPT !.at = "work"] /\ u.at = "want"
      BY <2>3 DEF Lock, Thread, FoundInv, Runs
    <3>. QED
      BY <3>1, Shapes DEF Record, ThreadNames, Busy
  <2>. QED
    BY <2>1, <2>2, <2>3
<1>3. u.alive
  BY DEF EndOfStream, Create, Lock, Runs
<1>. HIDE DEF t
<1>4. ASSUME NEW c \in Clients, client[c].sock = k PROVE Agree(client[c], t)
  <2>1. k # 0
    BY DEF FoundInv
  <2>2. u.open /\ Agree(client[c], u)
    BY <1>4, <2>1 DEF PairInv
  <2>3. u.at \in Busy /\ t.at \in Busy
    BY <1>2, <2>2
  <2>. QED
    BY <1>2, <1>3, <2>2, <2>3 DEF Agree, Flow, Rest
<1>. QED
  BY <1>1, <1>2, <1>4, ThreadAgrees

LEMMA WorkPairs ==
  ASSUME FoundInv, PairInv, NEW k \in DOMAIN conn, Work(k)
  PROVE  PairInv'
<1>. DEFINE n == Len(sessions)
            u == conn[k]
<1>1. client' = client /\ u.at = "work" /\ \E a : Thread(k, Replied(k, a))
  BY DEF Work, Runs
<1>2. PICK a : Thread(k, Replied(k, a))
  BY <1>1
<1>. DEFINE t == Replied(k, a)
<1>3. /\ t.up = u.up /\ t.req = u.req /\ t.at = "read" /\ t.open = u.open /\ t.alive = u.alive
      /\ t.down = IF u.open THEN u.down \o Message(u.req.id, a) ELSE u.down
  BY Shapes DEF Replied, Record, ThreadNames
<1>. HIDE DEF t
<1>4. ASSUME NEW c \in Clients, client[c].sock = k PROVE Agree(client[c], t)
  <2>. DEFINE w == client[c]
              m == Message(u.req.id, a)
              P == Pieces(n) \cup Range(m)
  <2>1. k # 0
    BY DEF FoundInv
  <2>2. u.open /\ Agree(w, u)
    BY <1>4, <2>1 DEF PairInv
  <2>3. /\ u.up \in Seq(Requested(n)) /\ w.buf \in Seq(Pieces(n)) /\ u.down \in Seq(Pieces(n))
        /\ w.id \in Nat /\ Awaited(w) \in Nat
    BY <1>4, <2>1, Linked
  <2>4. m \in Seq(P)
    BY PartsAre DEF Message, Range
  <2>5. w.buf \in Seq(P) /\ u.down \in Seq(P)
    BY <2>3
  <2>6. t.down = u.down \o m
    BY <1>3, <2>2
  <2>. HIDE DEF m, P, w, u
  <2>7. (w.buf \o u.down) \o m = w.buf \o (u.down \o m) /\ w.buf \o u.down \in Seq(P)
    <3>. DEFINE bb == w.buf
                dd == u.down
    <3>1. bb \in Seq(P) /\ dd \in Seq(P)
      BY <2>5
    <3>. HIDE DEF bb, dd
    <3>2. (bb \o dd) \o m = bb \o (dd \o m)
      BY <2>4, <3>1, ConcatAssociative
    <3>3. bb \o dd \in Seq(P)
      BY <3>1
    <3>. QED
      BY <3>2, <3>3, Zenon DEF bb, dd
  <2>8. u.alive => Flow(w.buf \o u.down, "work", u.req.id, u.up, w.id, Awaited(w))
    BY <1>1, <2>2 DEF Agree
  <2>9. "work" \in Busy /\ "read" \notin Busy
    BY DEF Busy
  <2>10. u.alive => Flow((w.buf \o u.down) \o m, "read", u.req.id, u.up, w.id, Awaited(w))
    BY <2>3, <2>4, <2>7, <2>8, <2>9, FlowWork DEF m
  <2>. QED
    BY <1>3, <2>6, <2>7, <2>10 DEF Agree, w
<1>. QED
  BY <1>1, <1>2, <1>3, <1>4, ThreadAgrees DEF t

\* No more is expected of a process that has ended.
LEMMA KillPairs == FoundInv /\ PairInv /\ Kill => PairInv'
<1>. SUFFICES ASSUME FoundInv, PairInv, Kill PROVE PairInv'
  OBVIOUS
<1>1. client' = client /\ \A k \in DOMAIN conn : conn'[k] = [conn[k] EXCEPT !.alive = FALSE, !.up = <<>>]
  BY Zenon DEF Kill
<1>2. \A k \in DOMAIN conn : conn'[k].alive = FALSE /\ conn'[k].open = conn[k].open
  BY <1>1, Shapes DEF Record, ThreadNames
<1>3. ASSUME NEW c \in Clients, client[c].sock # 0
      PROVE  conn'[client[c].sock].open /\ Agree(client[c], conn'[client[c].sock])
  <2>1. client[c].sock \in DOMAIN conn /\ conn[client[c].sock].open
    BY <1>3, Linked DEF PairInv
  <2>. QED
    BY <1>2, <2>1 DEF Agree
<1>. QED
  BY <1>1, <1>3 DEF PairInv, Agree

LEMMA NextPairs == FoundInv /\ PairInv /\ [Next]_vars => PairInv'
<1>. SUFFICES ASSUME FoundInv, PairInv, [Next]_vars PROVE PairInv'
  OBVIOUS
<1>1. ASSUME NEW c \in Clients, Connect(c) \/ Close(c) \/ GiveUp(c) \/ Return(c) \/ Broken(c)
      PROVE  PairInv'
  BY <1>1, ConnectPairs, ClosePairs, GiveUpPairs, ReturnPairs
<1>2. ASSUME NEW c \in Clients, NEW x, Receive(c, x)
      PROVE  PairInv'
  BY <1>2, ReceivePairs
<1>3. ASSUME NEW c \in Clients, NEW a \in Asks[c], Call(c, a[1], a[2])
      PROVE  PairInv'
  BY <1>3, CallPairs
<1>4. ASSUME NEW k \in DOMAIN conn, Serves(k)
      PROVE  PairInv'
  BY <1>4, ReadRequestPairs, StaysPairs, WorkPairs DEF Serves
<1>5. CASE Kill
  BY <1>5, KillPairs
<1>6. CASE UNCHANGED vars
  BY <1>6 DEF vars, PairInv, Agree
<1>. QED
  BY <1>1, <1>2, <1>3, <1>4, <1>5, <1>6 DEF Next, Reads

LEMMA InvPaired == FoundInv /\ PairInv => Paired
<1>. SUFFICES ASSUME FoundInv, PairInv, NEW c \in Clients, client[c].sock # 0, conn[client[c].sock].alive
              PROVE  \E m \in 0 .. Due(c) :
                       /\ Answers(Coming(c, client[c].sock), client[c].id - Due(c), m)
                       /\ Unanswered(client[c].sock) =
                            [j \in 1 .. Due(c) - m |-> client[c].id - Due(c) + m + j]
  BY DEF Paired
<1>. DEFINE k == client[c].sock
            w == client[c]
            u == conn[k]
            s == w.buf \o u.down
            n == Due(c)
            i == w.id - n
            P == Pieces(Len(sessions))
<1>1. /\ u.up \in Seq(Requested(Len(sessions))) /\ w.buf \in Seq(P) /\ u.down \in Seq(P)
      /\ w.id \in Nat /\ n \in Nat /\ n = Awaited(w)
  BY Linked DEF Due, Awaited
<1>2. Flow(s, u.at, u.req.id, u.up, w.id, n)
  BY <1>1 DEF PairInv, Agree
<1>3. s \in Seq(P)
  BY <1>1, Joined
<1>. HIDE DEF s, n, P
<1>4. PICK z \in {0, 1}, m \in 0 .. n : Stream(s, z, i, m) /\ Rest(u.at, u.req.id, u.up, i + m, n - m)
  BY <1>2 DEF Flow
<1>5. Answers(Stripped(s), i, m)
  <2>1. i \in Int /\ m \in Nat
    BY <1>1
  <2>2. Stream(Stripped(s), 0, i, m)
    BY <1>3, <1>4, <2>1, WholeStripped
  <2>. QED
    BY <2>1, <2>2, PartsAre DEF Stream, Answers
<1>6. Unanswered(k) = [j \in 1 .. n - m |-> i + m + j]
  <2>. DEFINE ids == [j \in DOMAIN u.up |-> u.up[j].id]
              l == Len(u.up)
              h == i + m
  <2>1. l \in Nat /\ DOMAIN u.up = 1 .. l /\ h \in Int
    BY <1>1
  <2>2. CASE /\ u.at \in Busy /\ n - m = l + 1 /\ u.req.id = h + 1
             /\ \A j \in 1 .. l : u.up[j].id = h + 1 + j
    <3>1. ids = [j \in 1 .. l |-> h + 1 + j]
      BY <2>1, <2>2
    <3>. HIDE DEF ids, l, h
    <3>2. <<h + 1>> \o ids = [j \in 1 .. l + 1 |-> h + j]
      BY <2>1, <3>1
    <3>3. Unanswered(k) = <<h + 1>> \o ids
      BY <2>2 DEF Unanswered, Busy, ids
    <3>. QED
      BY <2>2, <3>2, <3>3 DEF h
  <2>3. CASE u.at \notin Busy /\ n - m = l /\ \A j \in 1 .. l : u.up[j].id = h + j
    <3>1. ids = [j \in 1 .. l |-> h + j]
      BY <2>1, <2>3
    <3>. HIDE DEF ids, l, h
    <3>2. <<>> \o ids = ids
      BY <2>1, <3>1
    <3>3. Unanswered(k) = <<>> \o ids
      BY <2>3 DEF Unanswered, Busy, ids
    <3>. QED
      BY <2>3, <3>1, <3>2, <3>3 DEF h
  <2>. QED
    BY <1>4, <2>2, <2>3 DEF Rest
<1>. QED
  BY <1>5, <1>6 DEF Coming, s, n

\* Answers are taken in the order of the calls and one for each, however many
\* clients there are, whatever they call and give up and however TCP cuts the
\* streams: a client that waits takes the answer to the first call it has due.
THEOREM AnswersArePaired == Spec => []Paired
<1>1. Spec => [](FoundInv /\ PairInv)
  BY InitFound, NextFound, InitPairs, NextPairs, PTL DEF Spec
<1>. QED
  BY <1>1, InvPaired, PTL
=============================================================================
