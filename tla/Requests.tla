------------------------------- MODULE Requests -------------------------------
(***************************************************************************)
(* The remote interface: Python clients (client.py, __init__.py), the TCP  *)
(* server with one thread per connection (mcp/server.rs), the handlers     *)
(* (mcp/handler.rs) and the session manager whose one mutex a handler      *)
(* holds while it works on a session (session/mod.rs).                     *)
(*                                                                         *)
(* A connection is two byte streams that TCP cuts where it likes: what is  *)
(* received at once is any part of what has arrived.  A client that waited *)
(* too long gives up on the call, not on the connection.  The server       *)
(* process may be killed and started again; its sessions are gone then.    *)
(***************************************************************************)
EXTENDS Integers, Sequences, FiniteSets, Functions

CONSTANTS
  Clients,
  Asks,         \* by client, its calls: pairs of a method and a source
  MaxCalls,     \* bound: by client, its calls
  MaxConnects,  \* bound: by client, its connections
  MaxTimeouts,  \* bound: by client, the calls it gives up
  MaxKills      \* bound: ends of the server process

ASSUME RequestsAssumption ==
  /\ \A c \in Clients : Asks[c] \subseteq {"compile", "elaborate", "simulate"} \X {"good", "bad"}
  /\ {MaxCalls, MaxConnects, MaxTimeouts} \subseteq [Clients -> Nat] /\ MaxKills \in Nat

VARIABLES
  client,    \* by client: see Fresh
  conn,      \* the connections made, in order
  sessions,  \* the sessions created, in order; ids are never used twice
  lock,      \* the connection whose thread holds the mutex; 0 if none
  kills      \* how often the server has been killed

vars == <<client, conn, sessions, lock, kills>>

\* sock is a connection or 0; sid is Qiming._session_id, 0 if none.  The calls,
\* the connections and the calls given up are counted; late counts those given
\* up on this connection; compiling says whether the last call was Qiming.compile.
Fresh == [sock |-> 0, waiting |-> FALSE, compiling |-> FALSE, id |-> 0, sid |-> 0,
          buf |-> <<>>, calls |-> 0, connects |-> 0, timeouts |-> 0, late |-> 0]
\* at is where the thread is: "read", "create", "want", "work" or "gone"; on is
\* the session it works on; alive says whether the process still runs.
NewConn == [up |-> <<>>, down |-> <<>>, open |-> TRUE, alive |-> TRUE,
            at |-> "read", req |-> [id |-> 0, m |-> "none", sid |-> 0, source |-> "good"], on |-> 0]

\* write_response: a header with its empty line, a body, a newline.
Parts == <<"header", "body", "newline">>
Message(id, answer) == [i \in DOMAIN Parts |-> [part |-> Parts[i], id |-> id, answer |-> answer]]
Answer(ok, sid) == [ok |-> ok, sid |-> sid]

Init ==
  /\ client = [c \in Clients |-> Fresh]
  /\ conn = <<>> /\ sessions = <<>> /\ lock = 0 /\ kills = 0

-----------------------------------------------------------------------------
(* The client.                                                              *)

Set(c, r) == client' = [client EXCEPT ![c] = r]

Connect(c) ==
  /\ client[c].sock = 0 /\ client[c].connects < MaxConnects[c]
  /\ conn' = Append(conn, NewConn)
  /\ Set(c, [client[c] EXCEPT !.sock = Len(conn'), !.id = 0, !.buf = <<>>,
                              !.late = 0, !.connects = @ + 1])
  /\ UNCHANGED <<sessions, lock, kills>>

Close(c) ==
  /\ client[c].sock # 0 /\ ~client[c].waiting
  /\ conn' = [conn EXCEPT ![client[c].sock].open = FALSE]
  /\ Set(c, [client[c] EXCEPT !.sock = 0])
  /\ UNCHANGED <<sessions, lock, kills>>

\* _read_response drops line ends left over before it looks for an answer.
LineEnds(buf) == {i \in DOMAIN buf : \A j \in 1 .. i : buf[j].part = "newline"}
Stripped(buf) == SubSeq(buf, Cardinality(LineEnds(buf)) + 1, Len(buf))

\* _call: a request is sent; a broken connection fails it.
Call(c, m, source) ==
  LET k == client[c].sock IN
  /\ k # 0 /\ ~client[c].waiting /\ client[c].calls < MaxCalls[c]
  /\ m \in {"elaborate", "simulate"} => client[c].sid # 0
  /\ LET r == [client[c] EXCEPT !.id = @ + 1, !.calls = @ + 1, !.compiling = (m = "compile")]
         q == [id |-> r.id, m |-> m, sid |-> r.sid, source |-> source]
     IN  IF conn[k].alive
         THEN /\ conn' = [conn EXCEPT ![k].up = Append(@, q)]
              /\ Set(c, [r EXCEPT !.waiting = TRUE, !.buf = Stripped(@)])
         ELSE UNCHANGED conn /\ Set(c, r)
  /\ UNCHANGED <<sessions, lock, kills>>

\* A message may follow the line end of the one before it.
Header(buf)   == Stripped(buf) # <<>>
Complete(buf) == Len(Stripped(buf)) >= 2

\* recv: as much as there is while the header is incomplete, at most what is
\* missing of the body after that.
Receive(c, n) ==
  LET k == client[c].sock
      b == client[c].buf
  IN  /\ client[c].waiting /\ ~Complete(b)
      /\ n \in DOMAIN conn[k].down /\ (Header(b) => n = 1)
      /\ Set(c, [client[c] EXCEPT !.buf = @ \o SubSeq(conn[k].down, 1, n)])
      /\ conn' = [conn EXCEPT ![k].down = SubSeq(@, n + 1, Len(@))]
      /\ UNCHANGED <<sessions, lock, kills>>

\* Qiming.compile, and no other call, notes the session its answer names.
Remembered(r, a) == IF r.compiling /\ a.sid # 0 THEN [r EXCEPT !.sid = a.sid] ELSE r

\* Seeded fault: the buffer is emptied with the answer taken from it.
ReturnEmptying(c) ==
  /\ client[c].waiting /\ Complete(client[c].buf)
  /\ Set(c, Remembered([client[c] EXCEPT !.waiting = FALSE, !.buf = <<>>],
                       Stripped(client[c].buf)[1].answer))
  /\ UNCHANGED <<conn, sessions, lock, kills>>

\* The answer is taken from the buffer, whichever call it answers.
Return(c) ==
  /\ client[c].waiting /\ Complete(client[c].buf)
  /\ LET b == Stripped(client[c].buf) IN
     Set(c, Remembered([client[c] EXCEPT !.waiting = FALSE, !.buf = SubSeq(b, 3, Len(b))],
                       b[1].answer))
  /\ UNCHANGED <<conn, sessions, lock, kills>>

\* Nothing came for 30 seconds: ReadError, and the connection stays in use.
GiveUp(c) ==
  /\ client[c].waiting /\ ~Complete(client[c].buf)
  /\ conn[client[c].sock].down = <<>> /\ conn[client[c].sock].alive
  /\ client[c].timeouts < MaxTimeouts[c]
  /\ Set(c, [client[c] EXCEPT !.waiting = FALSE, !.timeouts = @ + 1, !.late = @ + 1])
  /\ UNCHANGED <<conn, sessions, lock, kills>>

\* recv returns nothing: the server has gone.
Broken(c) ==
  /\ client[c].waiting /\ ~Complete(client[c].buf)
  /\ conn[client[c].sock].down = <<>> /\ ~conn[client[c].sock].alive
  /\ Set(c, [client[c] EXCEPT !.waiting = FALSE])
  /\ UNCHANGED <<conn, sessions, lock, kills>>

-----------------------------------------------------------------------------
(* A connection's thread in the server.                                     *)

Runs(k, at) == conn[k].alive /\ conn[k].at = at
Thread(k, r) == conn' = [conn EXCEPT ![k] = r]
\* The answer is written; a client that has gone does not get it.
Replied(k, a) ==
  [conn[k] EXCEPT !.at = "read", !.on = 0,
                  !.down = IF conn[k].open THEN @ \o Message(conn[k].req.id, a) ELSE @]

\* handle_connection reads a request, or the end of the stream.
ReadRequest(k) ==
  /\ Runs(k, "read") /\ conn[k].up # <<>>
  /\ LET r == Head(conn[k].up) IN
     Thread(k, [conn[k] EXCEPT !.up = Tail(@), !.req = r, !.on = r.sid,
                               !.at = IF r.m = "compile" THEN "create" ELSE "want"])
  /\ UNCHANGED <<client, sessions, lock, kills>>
EndOfStream(k) ==
  /\ Runs(k, "read") /\ conn[k].up = <<>> /\ ~conn[k].open
  /\ Thread(k, [conn[k] EXCEPT !.at = "gone"])
  /\ UNCHANGED <<client, sessions, lock, kills>>

\* Seeded fault: the mutex is kept for the compilation that follows.
CreateHolding(k) ==
  /\ Runs(k, "create") /\ lock = 0 /\ lock' = k
  /\ sessions' = Append(sessions, [state |-> "new", born |-> kills, gone |-> FALSE])
  /\ Thread(k, [conn[k] EXCEPT !.at = "want", !.on = Len(sessions')])
  /\ UNCHANGED <<client, kills>>

\* SessionManager::create: the session is in the map before it is compiled.
Create(k) ==
  /\ Runs(k, "create") /\ lock = 0
  /\ sessions' = Append(sessions, [state |-> "new", born |-> kills, gone |-> FALSE])
  /\ Thread(k, [conn[k] EXCEPT !.at = "want", !.on = Len(sessions')])
  /\ UNCHANGED <<client, lock, kills>>

\* with_session: the mutex is held until the closure returns.
Lock(k) ==
  /\ Runs(k, "want") /\ lock = 0 /\ lock' = k
  /\ Thread(k, [conn[k] EXCEPT !.at = "work"])
  /\ UNCHANGED <<client, sessions, kills>>

Here(s) == s \in DOMAIN sessions /\ ~sessions[s].gone /\ sessions[s].born = kills
\* Seeded fault: a session that does not compile is destroyed at once.
AfterDropping(s, q) ==
  CASE q.m = "compile" /\ q.source = "bad" -> [sessions EXCEPT ![s].gone = TRUE]
    [] q.m = "compile" -> [sessions EXCEPT ![s].state = "compiled"]
    [] OTHER -> sessions
\* Session::compile_string, elaborate and step_delta: each needs the one before.
After(s, q) ==
  CASE q.m = "compile" /\ q.source = "good" -> [sessions EXCEPT ![s].state = "compiled"]
    [] q.m = "elaborate" /\ sessions[s].state # "new" ->
         [sessions EXCEPT ![s].state = "elaborated"]
    [] OTHER -> sessions
Succeeds(s, q) ==
  CASE q.m = "compile"   -> q.source = "good"
    [] q.m = "elaborate" -> sessions[s].state # "new"
    [] q.m = "simulate"  -> sessions[s].state = "elaborated"

\* The closure, or "session not found".
Work(k) ==
  LET q == conn[k].req
      s == conn[k].on
  IN  /\ Runs(k, "work")
      /\ IF Here(s)
         THEN /\ sessions' = After(s, q)
              /\ Thread(k, Replied(k, Answer(Succeeds(s, q), IF q.m = "compile" THEN s ELSE 0)))
         ELSE UNCHANGED sessions /\ Thread(k, Replied(k, Answer(FALSE, 0)))
      /\ lock' = 0
      /\ UNCHANGED <<client, kills>>

\* The process is killed, and started again.
Kill ==
  /\ kills < MaxKills
  /\ kills' = kills + 1 /\ lock' = 0
  /\ conn' = [k \in DOMAIN conn |-> [conn[k] EXCEPT !.alive = FALSE, !.up = <<>>]]
  /\ UNCHANGED <<client, sessions>>

Reads(c)  == Return(c) \/ Broken(c) \/ \E n \in 1 .. MaxCalls[c] * Len(Parts) : Receive(c, n)
Serves(k) == ReadRequest(k) \/ EndOfStream(k) \/ Create(k) \/ Lock(k) \/ Work(k)
Next ==
  \/ \E c \in Clients :
       \/ Connect(c) \/ Close(c) \/ GiveUp(c) \/ Reads(c)
       \/ \E m \in Asks[c] : Call(c, m[1], m[2])
  \/ \E k \in DOMAIN conn : Serves(k)
  \/ Kill

SumOver(f) == FoldFunction(LAMBDA x, y : x + y, 0, f)
\* Threads run and a client that waits reads what there is; nobody has to call,
\* to give up or to be killed.
Spec ==
  /\ Init /\ [][Next]_vars
  /\ \A c \in Clients : WF_vars(Reads(c))
  /\ \A k \in 1 .. SumOver(MaxConnects) : WF_vars(k \in DOMAIN conn /\ Serves(k))

-----------------------------------------------------------------------------
(* Properties.                                                              *)

\* The calls of a client that were sent on its connection and have not returned with
\* an answer: the one it waits for and those before it that it gave up.
Due(c) == client[c].late + (IF client[c].waiting THEN 1 ELSE 0)

\* s is the answers to m calls in order, from the one after call i, in all their parts.
Answers(s, i, m) ==
  /\ Len(s) = 3 * m
  /\ \A j \in 0 .. m - 1, p \in DOMAIN Parts :
       s[3 * j + p].part = Parts[p] /\ s[3 * j + p].id = i + j + 1

\* What a client has still to read of connection k, and the calls that are not
\* answered yet: the one being served, and those on the way there.
Coming(c, k) == Stripped(client[c].buf \o conn[k].down)
Unanswered(k) ==
  (IF conn[k].at \in {"create", "want", "work"} THEN <<conn[k].req.id>> ELSE <<>>)
  \o [i \in DOMAIN conn[k].up |-> conn[k].up[i].id]

\* Every request on a connection is answered once and in order, whatever TCP
\* makes of the stream: what a client has still to read is the answers to the first
\* calls it has due, and the others due are not answered yet (_read_response
\* does not look at ids, so this is all that pairs answers with calls).
Paired ==
  \A c \in Clients :
    LET k == client[c].sock
        n == Due(c)
        i == client[c].id - n
    IN  k # 0 /\ conn[k].alive =>
          \E m \in 0 .. n : /\ Answers(Coming(c, k), i, m)
                            /\ Unanswered(k) = [j \in 1 .. n - m |-> i + m + j]

\* A request for a session, compiled or not, finds the one its client was told
\* of, as long as the server that made it runs: after a restart "session not
\* found" is the answer, never another session.
Found ==
  \A k \in DOMAIN conn :
    conn[k].at \in {"want", "work"} =>
      /\ conn[k].on \in DOMAIN sessions
      /\ Here(conn[k].on) \/ sessions[conn[k].on].born < kills

\* A call comes back: with an answer, or with an error once the server is gone.
\* No two threads keep the mutex from each other.
CallReturns == \A c \in Clients : client[c].waiting ~> ~client[c].waiting
=============================================================================
