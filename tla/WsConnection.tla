---------------------------- MODULE WsConnection ----------------------------
(***************************************************************************)
(* One WebSocket to the Signal server: class _BaseWs of transport/ws.py.   *)
(*                                                                         *)
(* Two asyncio tasks share the object: the read task (_read_loop), which   *)
(* turns inbound frames into queued requests and settled futures, and the  *)
(* keepalive task (_keepalive_loop), the only caller of _send_request.     *)
(* Around them are the consumer of requests(), the callers of close() and  *)
(* the server.  A step of this specification is what one of them does      *)
(* between two awaits that can suspend it; asyncio runs one such step at a *)
(* time.                                                                   *)
(*                                                                         *)
(* External, modelled from its use: the `websockets' connection.  It keeps *)
(* the frames it has received readable after the connection ends, and its  *)
(* send() raises ConnectionClosed, which is not a SigsigError, once the    *)
(* connection is gone.                                                     *)
(***************************************************************************)
EXTENDS Naturals, FiniteSets, Sequences

CONSTANTS Closers,   \* the tasks that may call close(): Client.run, Client.stop
          MaxPush,   \* bound: requests the server pushes
          MaxTick,   \* bound: keepalive requests, hence ids from _request_id_seq
          MaxWire    \* bound: frames received and not yet read

ASSUME BoundsAreNatural == MaxPush \in Nat /\ MaxTick \in Nat /\ MaxWire \in Nat

VARIABLES
  conn,        \* "open", "closing" (close frame exchanged), "closed", "dropped"
  wire,        \* inbound frames not yet read by the read task
  pushed,      \* how many requests the server has pushed; their ids are 1..pushed
  reader,      \* the read task: "reading", or how it ended
  keepalive,   \* the keepalive task: where it is suspended, or how it ended
  cancelled,   \* the tasks on which Task.cancel() has been called
  rid,         \* the last id drawn from _request_id_seq
  pending,     \* the keys of _pending_responses
  fut,         \* the state of the future created for each id
  queue,       \* _request_queue: ids of requests, and Sentinel
  closed,      \* the event _closed
  closer,      \* where each caller of close() is
  iterator,    \* requests(): "iterating", "ended" or "gone" (abandoned)
  delivered    \* history: the requests the iterator has yielded, in order

vars == <<conn, wire, pushed, reader, keepalive, cancelled, rid, pending, fut,
          queue, closed, closer, iterator, delivered>>

Rids     == 1..MaxTick
Sentinel == 0                            \* _SENTINEL_REQUEST; its id is 0 too

Request(i)  == [kind |-> "request",  id |-> i]
Response(i) == [kind |-> "response", id |-> i]
Noise       == [kind |-> "noise",    id |-> 0]  \* text frame, or no known type
Garbage     == [kind |-> "garbage",  id |-> 0]  \* does not parse
Frames      == [kind : {"request", "response", "noise", "garbage"}, id : Nat]

ReaderDone    == reader \in {"ok", "error", "cancelled"}
KeepaliveDone == keepalive \in {"ok", "crashed", "cancelled"}
ConnGone      == conn \in {"closed", "dropped"}

Init ==
  /\ conn = "open" /\ wire = <<>> /\ pushed = 0
  /\ reader = "reading" /\ keepalive = "sleeping" /\ cancelled = {}
  /\ rid = 0 /\ pending = {} /\ fut = [r \in Rids |-> "none"]
  /\ queue = <<>> /\ closed = FALSE
  /\ closer = [c \in Closers |-> "idle"]
  /\ iterator = "iterating" /\ delivered = <<>>

-----------------------------------------------------------------------------
(* The server and the network.                                             *)

Arrive(f) == conn = "open" /\ Len(wire) < MaxWire /\ wire' = Append(wire, f)

ServerPush ==
  /\ pushed < MaxPush
  /\ Arrive(Request(pushed + 1))
  /\ pushed' = pushed + 1
  /\ UNCHANGED <<conn, reader, keepalive, cancelled, rid, pending, fut, queue,
                 closed, closer, iterator, delivered>>

\* The server answers any request it was sent, late and more than once if it
\* likes, and sends frames that mean nothing to the client.
Answerable == {r \in Rids : r < rid \/ (r = rid /\ keepalive # "sending")}

ServerFrame ==
  /\ \E f \in {Noise, Garbage} \cup {Response(r) : r \in Answerable} : Arrive(f)
  /\ UNCHANGED <<conn, pushed, reader, keepalive, cancelled, rid, pending, fut,
                 queue, closed, closer, iterator, delivered>>

\* The server's close frame: everything it had sent has already arrived.
ServerClose ==
  /\ conn = "open" /\ conn' = "closing"
  /\ UNCHANGED <<wire, pushed, reader, keepalive, cancelled, rid, pending, fut,
                 queue, closed, closer, iterator, delivered>>

\* The closing handshake ends: with the peer's answer or by close_timeout.
ConnCloses ==
  /\ conn = "closing" /\ conn' = "closed"
  /\ UNCHANGED <<wire, pushed, reader, keepalive, cancelled, rid, pending, fut,
                 queue, closed, closer, iterator, delivered>>

\* The transport breaks; what was still in flight never arrives.
ConnDrops ==
  /\ conn = "open" /\ conn' = "dropped"
  /\ \E n \in 0..Len(wire) : wire' = SubSeq(wire, 1, n)
  /\ UNCHANGED <<pushed, reader, keepalive, cancelled, rid, pending, fut, queue,
                 closed, closer, iterator, delivered>>

-----------------------------------------------------------------------------
(* The read task.                                                          *)

Reading == reader = "reading" /\ "reader" \notin cancelled

Reads(kind) ==
  /\ Reading
  /\ wire # <<>> /\ Head(wire).kind = kind
  /\ wire' = Tail(wire)

\* Fault: the queue handed out newest first.
ReadRequestLifo ==
  /\ Reads("request")
  /\ queue' = <<Head(wire).id>> \o queue
  /\ UNCHANGED <<conn, pushed, reader, keepalive, cancelled, rid, pending, fut,
                 closed, closer, iterator, delivered>>

ReadRequest ==
  /\ Reads("request")
  /\ queue' = Append(queue, Head(wire).id)
  /\ UNCHANGED <<conn, pushed, reader, keepalive, cancelled, rid, pending, fut,
                 closed, closer, iterator, delivered>>

\* set_result and set_exception of asyncio.Future: on one that is done they
\* raise InvalidStateError in the read task, here "invalid" in the future's place.
Settle(r, outcome) == IF fut[r] = "pending" THEN outcome ELSE "invalid"

\* `fut is not None and not fut.done()'
Awaited(r) == r \in pending /\ fut[r] = "pending"

\* Fault: `not fut.done()' forgotten.
ReadResponseAnyway ==
  /\ Reads("response")
  /\ LET r == Head(wire).id IN
       fut' = IF r \in pending THEN [fut EXCEPT ![r] = Settle(r, "result")] ELSE fut
  /\ UNCHANGED <<conn, pushed, reader, keepalive, cancelled, rid, pending, queue,
                 closed, closer, iterator, delivered>>

ReadResponse ==
  /\ Reads("response")
  /\ LET r == Head(wire).id IN
       fut' = IF Awaited(r) THEN [fut EXCEPT ![r] = Settle(r, "result")] ELSE fut
  /\ UNCHANGED <<conn, pushed, reader, keepalive, cancelled, rid, pending, queue,
                 closed, closer, iterator, delivered>>

ReadNoise ==
  /\ Reads("noise")
  /\ UNCHANGED <<conn, pushed, reader, keepalive, cancelled, rid, pending, fut,
                 queue, closed, closer, iterator, delivered>>

\* Faults: the waiters are forgotten; the futures that are not pending are lost.
FailWaitersForgets == fut
FailWaitersOnly == [r \in pending |-> "error"]

\* The `finally' of _read_loop: fail the waiters, set _closed, end the iterator.
FailWaiters == [r \in Rids |-> IF Awaited(r) THEN Settle(r, "error") ELSE fut[r]]

\* Fault: the sentinel is not queued when a frame did not parse.
EndReaderQuietly(how) ==
  /\ reader' = how
  /\ fut' = FailWaiters
  /\ pending' = {}
  /\ closed' = TRUE
  /\ queue' = IF how = "error" THEN queue ELSE Append(queue, Sentinel)
  /\ UNCHANGED <<conn, pushed, keepalive, cancelled, rid, closer, iterator, delivered>>

EndReader(how) ==
  /\ reader' = how
  /\ fut' = FailWaiters
  /\ pending' = {}
  /\ closed' = TRUE
  /\ queue' = Append(queue, Sentinel)
  /\ UNCHANGED <<conn, pushed, keepalive, cancelled, rid, closer, iterator, delivered>>

ReadGarbage == Reads("garbage") /\ EndReader("error")

\* Fault: buffered frames are dropped once the connection is gone.
ReadEndEarly == Reading /\ ConnGone /\ EndReader("ok") /\ UNCHANGED wire

ReadEnd == Reading /\ wire = <<>> /\ ConnGone /\ EndReader("ok") /\ UNCHANGED wire

ReadCancelled ==
  /\ reader = "reading" /\ "reader" \in cancelled
  /\ EndReader("cancelled") /\ UNCHANGED wire

ReaderStep == \/ ReadRequest \/ ReadResponse \/ ReadNoise \/ ReadGarbage
              \/ ReadEnd \/ ReadCancelled

-----------------------------------------------------------------------------
(* The keepalive task, with _send_request inlined.                         *)

Runs(pc) == keepalive = pc /\ "keepalive" \notin cancelled

KeepaliveStops ==
  /\ Runs("sleeping") /\ closed
  /\ keepalive' = "ok"
  /\ UNCHANGED <<conn, wire, pushed, reader, cancelled, rid, pending, fut, queue,
                 closed, closer, iterator, delivered>>

KeepaliveWakes ==
  /\ Runs("sleeping") /\ ~closed /\ rid < MaxTick
  /\ rid' = rid + 1
  /\ fut' = [fut EXCEPT ![rid + 1] = "pending"]
  /\ pending' = pending \cup {rid + 1}
  /\ keepalive' = "sending"
  /\ UNCHANGED <<conn, wire, pushed, reader, cancelled, queue, closed, closer,
                 iterator, delivered>>

KeepaliveSent ==
  /\ Runs("sending") /\ conn = "open"
  /\ keepalive' = "waiting"
  /\ UNCHANGED <<conn, wire, pushed, reader, cancelled, rid, pending, fut, queue,
                 closed, closer, iterator, delivered>>

\* conn.send() raises ConnectionClosed: `except TransportError' misses it.
KeepaliveSendFails ==
  /\ Runs("sending") /\ ConnGone
  /\ keepalive' = "crashed"
  /\ pending' = pending \ {rid}
  /\ UNCHANGED <<conn, wire, pushed, reader, cancelled, rid, fut, queue, closed,
                 closer, iterator, delivered>>

KeepaliveAnswered ==
  /\ Runs("waiting") /\ fut[rid] = "result"
  /\ keepalive' = IF closed THEN "ok" ELSE "sleeping"
  /\ pending' = pending \ {rid}
  /\ UNCHANGED <<conn, wire, pushed, reader, cancelled, rid, fut, queue, closed,
                 closer, iterator, delivered>>

KeepaliveFailed ==
  /\ Runs("waiting") /\ fut[rid] = "error"
  /\ keepalive' = "ok"
  /\ pending' = pending \ {rid}
  /\ UNCHANGED <<conn, wire, pushed, reader, cancelled, rid, fut, queue, closed,
                 closer, iterator, delivered>>

KeepaliveCancelled ==
  /\ ~KeepaliveDone /\ "keepalive" \in cancelled
  /\ keepalive' = "cancelled"
  /\ pending' = pending \ {rid}
  /\ UNCHANGED <<conn, wire, pushed, reader, cancelled, rid, fut, queue, closed,
                 closer, iterator, delivered>>

KeepaliveStep == \/ KeepaliveStops \/ KeepaliveWakes \/ KeepaliveSent
                 \/ KeepaliveSendFails \/ KeepaliveAnswered \/ KeepaliveFailed
                 \/ KeepaliveCancelled

-----------------------------------------------------------------------------
(* close(), by any of its callers.  Awaiting a task that was cancelled is   *)
(* suppressed; awaiting one that died of an exception re-raises it.         *)

CloseStart(c) ==
  /\ closer[c] = "idle"
  /\ closer' = [closer EXCEPT ![c] = "awaitReader"]
  /\ closed' = TRUE
  /\ cancelled' = cancelled \cup {"reader"}
  /\ UNCHANGED <<conn, wire, pushed, reader, keepalive, rid, pending, fut, queue,
                 iterator, delivered>>

CloseRaisesRead(c) ==
  /\ closer[c] = "awaitReader" /\ reader = "error"
  /\ closer' = [closer EXCEPT ![c] = "raisedTransport"]
  /\ UNCHANGED <<conn, wire, pushed, reader, keepalive, cancelled, rid, pending,
                 fut, queue, closed, iterator, delivered>>

\* Task.cancel() also cancels the future the task is suspended on.
CancelledFuture == [r \in Rids |-> IF keepalive = "waiting" /\ r = rid /\ fut[r] = "pending"
                                   THEN "cancelled" ELSE fut[r]]

CloseReaderDone(c) ==
  /\ closer[c] = "awaitReader" /\ reader \in {"ok", "cancelled"}
  /\ closer' = [closer EXCEPT ![c] = "awaitKeepalive"]
  /\ cancelled' = cancelled \cup {"keepalive"}
  /\ fut' = CancelledFuture
  /\ UNCHANGED <<conn, wire, pushed, reader, keepalive, rid, pending, queue,
                 closed, iterator, delivered>>

CloseRaisesKeepalive(c) ==
  /\ closer[c] = "awaitKeepalive" /\ keepalive = "crashed"
  /\ closer' = [closer EXCEPT ![c] = "raisedForeign"]
  /\ UNCHANGED <<conn, wire, pushed, reader, keepalive, cancelled, rid, pending,
                 fut, queue, closed, iterator, delivered>>

\* Fault: the keepalive task is cancelled but not awaited.
CloseConnAtOnce(c) ==
  /\ closer[c] = "awaitKeepalive"
  /\ closer' = [closer EXCEPT ![c] = "awaitConn"]
  /\ conn' = IF conn = "open" THEN "closing" ELSE conn
  /\ UNCHANGED <<wire, pushed, reader, keepalive, cancelled, rid, pending, fut,
                 queue, closed, iterator, delivered>>

CloseConn(c) ==
  /\ closer[c] = "awaitKeepalive" /\ keepalive \in {"ok", "cancelled"}
  /\ closer' = [closer EXCEPT ![c] = "awaitConn"]
  /\ conn' = IF conn = "open" THEN "closing" ELSE conn
  /\ UNCHANGED <<wire, pushed, reader, keepalive, cancelled, rid, pending, fut,
                 queue, closed, iterator, delivered>>

CloseReturns(c) ==
  /\ closer[c] = "awaitConn" /\ ConnGone
  /\ closer' = [closer EXCEPT ![c] = "returned"]
  /\ UNCHANGED <<conn, wire, pushed, reader, keepalive, cancelled, rid, pending,
                 fut, queue, closed, iterator, delivered>>

CloserStep(c) == \/ CloseRaisesRead(c) \/ CloseReaderDone(c)
                 \/ CloseRaisesKeepalive(c) \/ CloseConn(c) \/ CloseReturns(c)

-----------------------------------------------------------------------------
(* requests().                                                              *)

IteratorYields ==
  /\ iterator = "iterating" /\ queue # <<>> /\ Head(queue) # Sentinel
  /\ queue' = Tail(queue)
  /\ delivered' = Append(delivered, Head(queue))
  /\ UNCHANGED <<conn, wire, pushed, reader, keepalive, cancelled, rid, pending,
                 fut, closed, closer, iterator>>

IteratorEnds ==
  /\ iterator = "iterating" /\ queue # <<>> /\ Head(queue) = Sentinel
  /\ queue' = Tail(queue)
  /\ iterator' = "ended"
  /\ UNCHANGED <<conn, wire, pushed, reader, keepalive, cancelled, rid, pending,
                 fut, closed, closer, delivered>>

IteratorGets == IteratorYields \/ IteratorEnds

\* The consumer is cancelled, or leaves its `async for'.
IteratorAbandoned ==
  /\ iterator = "iterating" /\ iterator' = "gone"
  /\ UNCHANGED <<conn, wire, pushed, reader, keepalive, cancelled, rid, pending,
                 fut, queue, closed, closer, delivered>>

-----------------------------------------------------------------------------
Server == ServerPush \/ ServerFrame \/ ServerClose \/ ConnDrops

Next ==
  \/ Server \/ ConnCloses
  \/ ReaderStep \/ KeepaliveStep
  \/ \E c \in Closers : CloseStart(c) \/ CloserStep(c)
  \/ IteratorGets \/ IteratorAbandoned

\* The event loop runs every task that is ready, sleeps end, and the closing
\* handshake is bounded by a timeout.  Nothing obliges the server to send or
\* answer anything, nor anybody to call close().
Fairness ==
  /\ WF_vars(ReaderStep) /\ WF_vars(KeepaliveStep) /\ WF_vars(ConnCloses)
  /\ WF_vars(IteratorGets)
  /\ \A c \in Closers : WF_vars(CloserStep(c))

Spec == Init /\ [][Next]_vars /\ Fairness

-----------------------------------------------------------------------------
(* Properties.                                                              *)

TypeOK ==
  /\ conn \in {"open", "closing", "closed", "dropped"}
  /\ wire \in Seq(Frames) /\ pushed \in 0..MaxPush
  /\ reader \in {"reading", "ok", "error", "cancelled"}
  /\ keepalive \in {"sleeping", "sending", "waiting", "ok", "crashed", "cancelled"}
  /\ cancelled \in SUBSET {"reader", "keepalive"}
  /\ rid \in 0..MaxTick /\ pending \in SUBSET Rids
  /\ fut \in [Rids -> {"none", "pending", "result", "error", "cancelled"}]
  /\ queue \in Seq(Nat) /\ closed \in BOOLEAN
  /\ closer \in [Closers -> {"idle", "awaitReader", "awaitKeepalive", "awaitConn",
                             "returned", "raisedTransport", "raisedForeign"}]
  /\ iterator \in {"iterating", "ended", "gone"} /\ delivered \in Seq(Nat)

\* Requests reach the consumer in the order the server pushed them, with none
\* skipped, repeated or overtaken, whatever the frames between them and
\* whenever the socket dies: in what was delivered, then what is queued, then
\* what is on the wire, each request comes after all those pushed before it and
\* after no other.
RequestIds == [i \in 1..Len(wire) |-> IF wire[i].kind = "request" THEN wire[i].id ELSE 0]
PushOrder ==
  LET ids == delivered \o queue \o RequestIds
  IN  \A i \in 1..Len(ids) : ids[i] # 0 =>
        /\ \A j \in 1..(i - 1) : ids[j] < ids[i]
        /\ \A k \in 1..(ids[i] - 1) : \E j \in 1..(i - 1) : ids[j] = k

\* A server that closes gracefully loses nothing: an iterator that ended
\* because the socket closed has yielded every request that was pushed.
GracefulCloseDeliversAll ==
  iterator = "ended" /\ reader = "ok" /\ conn = "closed" => Len(delivered) = pushed

\* The sentinel is the last thing ever queued, and is there (or was consumed)
\* exactly when the read task has ended: requests() cannot stop early, and
\* cannot wait on a dead read task.
SentinelEndsQueue ==
  LET inQueue == {i \in 1..Len(queue) : queue[i] = Sentinel} IN
  IF ReaderDone /\ iterator # "ended" THEN inQueue = {Len(queue)} ELSE inQueue = {}

\* Nobody is left waiting for a read task that is gone: a keepalive that
\* awaits its answer then holds a future that is already settled.
NoOrphanWaiter ==
  ReaderDone /\ keepalive = "waiting" => fut[rid] # "pending"

\* Each future is settled once, by a call it allows: the read task never dies
\* of an InvalidStateError, although answers may be repeated, come after the
\* waiter was cancelled, or race the end of the read task.
Settles(r) == fut[r] = "pending" /\ fut'[r] \in {"result", "error", "cancelled"}
FuturesSettleOnce ==
  [][\A r \in Rids : fut'[r] # fut[r] =>
       Settles(r) \/ (fut[r] = "none" /\ fut'[r] = "pending")]_vars

\* When close() returns normally, to any of its callers, no task survives it,
\* no waiter is registered and the connection is gone.
CloseLeavesNothing ==
  \A c \in Closers : closer[c] = "returned" =>
    ReaderDone /\ KeepaliveDone /\ pending = {} /\ ConnGone /\ closed

\* README: "All exceptions derive from sigsig.SigsigError".  close() lets the
\* ConnectionClosed of a keepalive that was sending escape.
CloseRaisesSigsigErrors == \A c \in Closers : closer[c] # "raisedForeign"
=============================================================================
