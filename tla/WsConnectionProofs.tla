------------------------- MODULE WsConnectionProofs -------------------------
(* Safety of WsConnection for every number of pushes, ticks and callers of  *)
(* close().  IInv is the inductive invariant: TypeOK, and what ties the     *)
(* tasks, the futures, the queue and the callers of close() together; OInv  *)
(* follows the pushes from the wire through the queue to the iteration.     *)
EXTENDS WsConnection, SequenceTheorems, TLAPS

USE BoundsAreNatural

\* Only ids up to rid were drawn, and only the last one can be registered, by
\* a keepalive that is still inside _send_request.
FuturesInv ==
  /\ \A r \in Rids : r > rid => fut[r] = "none"
  /\ pending \subseteq {rid}
  /\ keepalive \in {"sending", "waiting"} => rid \in Rids
  /\ pending # {} => keepalive \in {"sending", "waiting"}
  /\ keepalive \in {"sending", "waiting"} /\ fut[rid] = "pending" => rid \in pending

\* An ended read task has set _closed and emptied _pending_responses.
ReaderInv == ReaderDone => closed /\ pending = {}

\* What each position in close() implies.
CloserInv ==
  \A c \in Closers :
    /\ closer[c] # "idle" => closed
    /\ closer[c] \in {"awaitKeepalive", "awaitConn", "returned"} => ReaderDone
    /\ closer[c] \in {"awaitConn", "returned"} => KeepaliveDone /\ conn # "open"
    /\ closer[c] = "returned" => ConnGone

\* Pushed ids are never the sentinel's.
WireInv == \A i \in 1..Len(wire) : wire[i].kind = "request" => wire[i].id # Sentinel

QueueInv ==
  /\ ReaderDone /\ iterator # "ended" =>
       /\ Len(queue) > 0 /\ queue[Len(queue)] = Sentinel
       /\ \A i \in 1..(Len(queue) - 1) : queue[i] # Sentinel
  /\ ~(ReaderDone /\ iterator # "ended") => \A i \in 1..Len(queue) : queue[i] # Sentinel
  /\ iterator = "ended" => ReaderDone

IInv == TypeOK /\ FuturesInv /\ ReaderInv /\ CloserInv /\ WireInv /\ QueueInv

\* The type invariant holds initially and is preserved by every step.
LEMMA TypeInit == Init => TypeOK
<1> SUFFICES ASSUME Init PROVE TypeOK
  OBVIOUS
<1>1. rid \in 0..MaxTick /\ pushed \in 0..MaxPush
  BY DEF Init
<1>2. wire \in Seq(Frames) /\ queue \in Seq(Nat) /\ delivered \in Seq(Nat)
  BY DEF Init
<1>3. /\ fut \in [Rids -> {"none", "pending", "result", "error", "cancelled"}]
      /\ closer \in [Closers -> {"idle", "awaitReader", "awaitKeepalive", "awaitConn",
                                "returned", "raisedTransport", "raisedForeign"}]
  BY DEF Init
<1> QED
  BY <1>1, <1>2, <1>3 DEF Init, TypeOK

LEMMA ServerType == TypeOK /\ (Server \/ ConnCloses) => TypeOK'
<1> SUFFICES ASSUME TypeOK, Server \/ ConnCloses PROVE TypeOK'
  OBVIOUS
<1> USE DEF TypeOK, Rids
<1>1. CASE ServerPush
  BY <1>1 DEF ServerPush, Arrive, Request, Frames
<1>2. CASE ServerFrame
  <2>1. PICK f \in {Noise, Garbage} \cup {Response(r) : r \in Answerable} : Arrive(f)
    BY <1>2 DEF ServerFrame
  <2>2. f \in Frames
    BY DEF Noise, Garbage, Response, Answerable, Frames
  <2> QED
    BY <1>2, <2>1, <2>2 DEF ServerFrame, Arrive
<1>3. CASE ServerClose
  BY <1>3 DEF ServerClose
<1>4. CASE ConnDrops
  BY <1>4 DEF ConnDrops
<1>5. CASE ConnCloses
  BY <1>5 DEF ConnCloses
<1> QED
  BY <1>1, <1>2, <1>3, <1>4, <1>5 DEF Server

LEMMA ReaderType == TypeOK /\ ReaderStep => TypeOK'
<1> SUFFICES ASSUME TypeOK, ReaderStep PROVE TypeOK'
  OBVIOUS
<1> USE DEF TypeOK, Rids
<1>1. ASSUME NEW kind, Reads(kind)
      PROVE  Head(wire) \in Frames /\ wire' \in Seq(Frames)
  BY <1>1 DEF Reads
<1>2. ASSUME NEW how \in {"ok", "error", "cancelled"}, EndReader(how), wire' \in Seq(Frames)
      PROVE  TypeOK'
  BY <1>2 DEF EndReader, FailWaiters, Settle, Awaited, Sentinel
<1>3. CASE ReadRequest
  BY <1>1, <1>3 DEF ReadRequest, Frames
<1>4. CASE ReadResponse
  BY <1>1, <1>4 DEF ReadResponse, Frames, Awaited, Settle
<1>5. CASE ReadNoise
  BY <1>1, <1>5 DEF ReadNoise
<1>6. CASE ReadGarbage
  BY <1>1, <1>2, <1>6 DEF ReadGarbage
<1>7. CASE ReadEnd
  BY <1>2, <1>7 DEF ReadEnd
<1>8. CASE ReadCancelled
  BY <1>2, <1>8 DEF ReadCancelled
<1> QED
  BY <1>3, <1>4, <1>5, <1>6, <1>7, <1>8 DEF ReaderStep

LEMMA KeepaliveType == TypeOK /\ KeepaliveStep => TypeOK'
<1> SUFFICES ASSUME TypeOK, KeepaliveStep PROVE TypeOK'
  OBVIOUS
<1> USE DEF TypeOK, Rids
<1>1. CASE KeepaliveStops
  BY <1>1 DEF KeepaliveStops
<1>2. CASE KeepaliveWakes
  BY <1>2 DEF KeepaliveWakes
<1>3. CASE KeepaliveSent
  BY <1>3 DEF KeepaliveSent
<1>4. CASE KeepaliveSendFails
  BY <1>4 DEF KeepaliveSendFails
<1>5. CASE KeepaliveAnswered
  BY <1>5 DEF KeepaliveAnswered
<1>6. CASE KeepaliveFailed
  BY <1>6 DEF KeepaliveFailed
<1>7. CASE KeepaliveCancelled
  BY <1>7 DEF KeepaliveCancelled
<1> QED
  BY <1>1, <1>2, <1>3, <1>4, <1>5, <1>6, <1>7 DEF KeepaliveStep

LEMMA CloserType ==
  ASSUME TypeOK, NEW c \in Closers, CloseStart(c) \/ CloserStep(c)
  PROVE  TypeOK'
<1> USE DEF TypeOK, Rids
<1>1. CASE CloseStart(c)
  BY <1>1 DEF CloseStart
<1>2. CASE CloseRaisesRead(c)
  BY <1>2 DEF CloseRaisesRead
<1>3. CASE CloseReaderDone(c)
  BY <1>3 DEF CloseReaderDone, CancelledFuture
<1>4. CASE CloseRaisesKeepalive(c)
  BY <1>4 DEF CloseRaisesKeepalive
<1>5. CASE CloseConn(c)
  BY <1>5 DEF CloseConn
<1>6. CASE CloseReturns(c)
  BY <1>6 DEF CloseReturns
<1> QED
  BY <1>1, <1>2, <1>3, <1>4, <1>5, <1>6 DEF CloserStep

LEMMA IteratorType == TypeOK /\ (IteratorGets \/ IteratorAbandoned) => TypeOK'
<1> SUFFICES ASSUME TypeOK, IteratorGets \/ IteratorAbandoned PROVE TypeOK'
  OBVIOUS
<1>1. CASE IteratorYields
  <2>1. Head(queue) \in Nat /\ queue' \in Seq(Nat)
    BY <1>1 DEF IteratorYields, TypeOK
  <2>2. delivered' \in Seq(Nat)
    BY <1>1, <2>1 DEF IteratorYields, TypeOK
  <2> QED
    BY <1>1, <2>1, <2>2 DEF IteratorYields, TypeOK
<1>2. CASE IteratorEnds
  BY <1>2 DEF IteratorEnds, TypeOK
<1>3. CASE IteratorAbandoned
  BY <1>3 DEF IteratorAbandoned, TypeOK
<1> QED
  BY <1>1, <1>2, <1>3 DEF IteratorGets

LEMMA TypeNext == TypeOK /\ [Next]_vars => TypeOK'
<1> SUFFICES ASSUME TypeOK, [Next]_vars PROVE TypeOK'
  OBVIOUS
<1>1. CASE UNCHANGED vars
  BY <1>1 DEF vars, TypeOK, Rids
<1> QED
  BY <1>1, ServerType, ReaderType, KeepaliveType, CloserType, IteratorType DEF Next

\* Type correctness of the connection object: among the rest, a future exists
\* only for an id that was drawn and each task is in one of its states.
THEOREM TypeCorrect == Spec => []TypeOK
<1>1. Init => TypeOK
  BY TypeInit
<1>2. TypeOK /\ [Next]_vars => TypeOK'
  BY TypeNext
<1> QED
  BY <1>1, <1>2, PTL DEF Spec

-----------------------------------------------------------------------------
(* The futures and the read task.                                           *)

LEMMA FuturesNext ==
  TypeOK /\ FuturesInv /\ ReaderInv /\ [Next]_vars => FuturesInv' /\ ReaderInv'
<1> SUFFICES ASSUME TypeOK, FuturesInv, ReaderInv, [Next]_vars
             PROVE  FuturesInv' /\ ReaderInv'
  OBVIOUS
<1> USE DEF TypeOK, FuturesInv, ReaderInv, ReaderDone, Rids
<1>1. CASE UNCHANGED vars
  BY <1>1 DEF vars
<1>2. CASE Server \/ ConnCloses
  BY <1>2 DEF Server, ServerPush, ServerFrame, ServerClose, ConnDrops, ConnCloses
<1>3. CASE ReaderStep
  <2>1. ASSUME NEW how \in {"ok", "error", "cancelled"}, EndReader(how)
        PROVE  FuturesInv' /\ ReaderInv'
    BY <2>1 DEF EndReader, FailWaiters, Awaited, Settle
  <2>2. CASE ReadRequest \/ ReadNoise
    BY <2>2 DEF ReadRequest, ReadNoise, Reads, Reading
  <2>3. CASE ReadResponse
    BY <2>3 DEF ReadResponse, Reads, Reading, Awaited, Settle
  <2>4. CASE ReadGarbage \/ ReadEnd \/ ReadCancelled
    BY <2>1, <2>4 DEF ReadGarbage, ReadEnd, ReadCancelled
  <2> QED
    BY <1>3, <2>2, <2>3, <2>4 DEF ReaderStep
<1>4. CASE KeepaliveStep
  <2>1. CASE KeepaliveStops
    BY <2>1 DEF KeepaliveStops, Runs
  <2>2. CASE KeepaliveWakes
    BY <2>2 DEF KeepaliveWakes, Runs
  <2>3. CASE KeepaliveSent
    BY <2>3 DEF KeepaliveSent, Runs
  <2>4. CASE KeepaliveSendFails
    BY <2>4 DEF KeepaliveSendFails, Runs
  <2>5. CASE KeepaliveAnswered
    BY <2>5 DEF KeepaliveAnswered, Runs
  <2>6. CASE KeepaliveFailed
    BY <2>6 DEF KeepaliveFailed, Runs
  <2>7. CASE KeepaliveCancelled
    BY <2>7 DEF KeepaliveCancelled, KeepaliveDone
  <2> QED
    BY <1>4, <2>1, <2>2, <2>3, <2>4, <2>5, <2>6, <2>7 DEF KeepaliveStep
<1>5. ASSUME NEW c \in Closers, CloseStart(c) \/ CloserStep(c)
      PROVE  FuturesInv' /\ ReaderInv'
  <2>1. CASE CloseReaderDone(c)
    BY <2>1 DEF CloseReaderDone, CancelledFuture
  <2>2. CASE CloseStart(c)
    BY <2>2 DEF CloseStart
  <2>3. CASE CloseRaisesRead(c) \/ CloseRaisesKeepalive(c) \/ CloseConn(c) \/ CloseReturns(c)
    BY <2>3 DEF CloseRaisesRead, CloseRaisesKeepalive, CloseConn, CloseReturns
  <2> QED
    BY <1>5, <2>1, <2>2, <2>3 DEF CloserStep
<1>6. CASE IteratorGets \/ IteratorAbandoned
  BY <1>6 DEF IteratorGets, IteratorYields, IteratorEnds, IteratorAbandoned
<1> QED
  BY <1>1, <1>2, <1>3, <1>4, <1>5, <1>6 DEF Next

-----------------------------------------------------------------------------
(* close().                                                                 *)

LEMMA CloserNext ==
  TypeOK /\ ReaderInv /\ CloserInv /\ [Next]_vars => CloserInv'
<1> SUFFICES ASSUME TypeOK, ReaderInv, CloserInv, [Next]_vars, NEW d \in Closers
             PROVE  /\ closer'[d] # "idle" => closed'
                    /\ closer'[d] \in {"awaitKeepalive", "awaitConn", "returned"} => ReaderDone'
                    /\ closer'[d] \in {"awaitConn", "returned"} => KeepaliveDone' /\ conn' # "open"
                    /\ closer'[d] = "returned" => ConnGone'
  BY DEF CloserInv
<1> USE DEF TypeOK, CloserInv, ReaderDone, KeepaliveDone, ConnGone
<1>1. CASE UNCHANGED vars
  BY <1>1 DEF vars
<1>2. CASE Server \/ ConnCloses
  BY <1>2 DEF Server, ServerPush, ServerFrame, ServerClose, ConnDrops, ConnCloses, Arrive
<1>3. CASE ReaderStep
  BY <1>3 DEF ReaderStep, ReadRequest, ReadResponse, ReadNoise, ReadGarbage, ReadEnd,
              ReadCancelled, EndReader
<1>4. CASE KeepaliveStep
  BY <1>4 DEF KeepaliveStep, KeepaliveStops, KeepaliveWakes, KeepaliveSent,
              KeepaliveSendFails, KeepaliveAnswered, KeepaliveFailed,
              KeepaliveCancelled, Runs
<1>5. ASSUME NEW c \in Closers, CloseStart(c) \/ CloserStep(c)
      PROVE  /\ closer'[d] # "idle" => closed'
             /\ closer'[d] \in {"awaitKeepalive", "awaitConn", "returned"} => ReaderDone'
             /\ closer'[d] \in {"awaitConn", "returned"} => KeepaliveDone' /\ conn' # "open"
             /\ closer'[d] = "returned" => ConnGone'
  <2>1. CASE CloseStart(c)
    BY <2>1 DEF CloseStart
  <2>2. CASE CloseRaisesRead(c) \/ CloseReaderDone(c) \/ CloseRaisesKeepalive(c)
    BY <2>2 DEF CloseRaisesRead, CloseReaderDone, CloseRaisesKeepalive
  <2>3. CASE CloseConn(c)
    BY <2>3 DEF CloseConn
  <2>4. CASE CloseReturns(c)
    BY <2>4 DEF CloseReturns
  <2> QED
    BY <1>5, <2>1, <2>2, <2>3, <2>4 DEF CloserStep
<1>6. CASE IteratorGets \/ IteratorAbandoned
  BY <1>6 DEF IteratorGets, IteratorYields, IteratorEnds, IteratorAbandoned
<1> QED
  BY <1>1, <1>2, <1>3, <1>4, <1>5, <1>6 DEF Next

-----------------------------------------------------------------------------
(* The wire and the queue.                                                  *)

LEMMA WireNext == TypeOK /\ WireInv /\ [Next]_vars => WireInv'
<1> SUFFICES ASSUME TypeOK, WireInv, [Next]_vars PROVE WireInv'
  OBVIOUS
<1> USE DEF TypeOK, WireInv, Sentinel, Frames
<1>1. CASE UNCHANGED wire
  BY <1>1
<1>2. CASE ServerPush
  <2> DEFINE f == Request(pushed + 1)
  <2>1. wire' = Append(wire, f)
    BY <1>2 DEF ServerPush, Arrive
  <2>2. f.id # Sentinel
    BY DEF Request
  <2> HIDE DEF f
  <2> QED
    BY <2>1, <2>2
<1>3. CASE ServerFrame
  <2>1. PICK f \in {Noise, Garbage} \cup {Response(r) : r \in Answerable} : Arrive(f)
    BY <1>3 DEF ServerFrame
  <2>2. f.kind # "request"
    BY DEF Noise, Garbage, Response
  <2> QED
    BY <2>1, <2>2 DEF Arrive
<1>4. CASE ConnDrops
  <2>1. PICK n \in 0..Len(wire) : wire' = SubSeq(wire, 1, n)
    BY <1>4 DEF ConnDrops
  <2>2. wire \in Seq(Frames) /\ n \in Nat /\ n <= Len(wire)
    OBVIOUS
  <2>3. Len(wire') = n /\ \A i \in 1..n : i \in 1..Len(wire) /\ wire'[i] = wire[i]
    BY <2>1, <2>2
  <2>4. WireInv
    OBVIOUS
  <2> HIDE DEF TypeOK, WireInv
  <2> QED
    BY <2>3, <2>4 DEF WireInv
<1>5. ASSUME NEW kind, Reads(kind) PROVE WireInv'
  BY <1>5 DEF Reads
<1>6. CASE ReaderStep
  BY <1>1, <1>5, <1>6 DEF ReaderStep, ReadRequest, ReadResponse, ReadNoise, ReadGarbage,
                          ReadEnd, ReadCancelled
<1>7. CASE KeepaliveStep
  BY <1>1, <1>7 DEF KeepaliveStep, KeepaliveStops, KeepaliveWakes, KeepaliveSent,
              KeepaliveSendFails, KeepaliveAnswered, KeepaliveFailed, KeepaliveCancelled
<1>8. ASSUME NEW c \in Closers, CloseStart(c) \/ CloserStep(c) PROVE UNCHANGED wire
  BY <1>8 DEF CloserStep, CloseStart, CloseRaisesRead, CloseReaderDone,
              CloseRaisesKeepalive, CloseConn, CloseReturns
<1>9. CASE ServerClose \/ ConnCloses \/ IteratorGets \/ IteratorAbandoned
  BY <1>1, <1>9 DEF ServerClose, ConnCloses, IteratorGets, IteratorYields, IteratorEnds,
                    IteratorAbandoned
<1> QED
  BY <1>1, <1>2, <1>3, <1>4, <1>6, <1>7, <1>8, <1>9 DEF Next, Server, vars

LEMMA QueueNext ==
  TypeOK /\ WireInv /\ QueueInv /\ [Next]_vars => QueueInv'
<1> SUFFICES ASSUME TypeOK, WireInv, QueueInv, [Next]_vars PROVE QueueInv'
  OBVIOUS
<1> USE DEF TypeOK, QueueInv, ReaderDone, Sentinel
<1>1. CASE UNCHANGED <<queue, reader, iterator>>
  BY <1>1
<1>2. CASE ReadRequest
  <2>1. Head(wire).id \in Nat /\ Head(wire).id # Sentinel
    <3>1. wire # <<>> /\ Head(wire) = wire[1] /\ Head(wire).kind = "request"
      BY <1>2 DEF ReadRequest, Reads
    <3>2. Head(wire) \in Frames
      BY <3>1
    <3> QED
      BY <3>1, <3>2 DEF WireInv, Frames
  <2>2. ~ReaderDone /\ queue' = Append(queue, Head(wire).id)
    BY <1>2 DEF ReadRequest, Reads, Reading
  <2> QED
    BY <1>2, <2>1, <2>2 DEF ReadRequest
<1>3. ASSUME NEW how \in {"ok", "error", "cancelled"}, EndReader(how), ~ReaderDone
      PROVE  QueueInv'
  BY <1>3 DEF EndReader
<1>4. CASE ReaderStep
  BY <1>1, <1>2, <1>3, <1>4 DEF ReaderStep, ReadResponse, ReadNoise, ReadGarbage, ReadEnd,
                          ReadCancelled, Reads, Reading
<1>5. CASE IteratorYields
  BY <1>5 DEF IteratorYields
<1>6. CASE IteratorEnds
  BY <1>6 DEF IteratorEnds
<1>7. CASE IteratorAbandoned
  BY <1>7 DEF IteratorAbandoned
<1>8. CASE KeepaliveStep
  BY <1>1, <1>8 DEF KeepaliveStep, KeepaliveStops, KeepaliveWakes, KeepaliveSent,
              KeepaliveSendFails, KeepaliveAnswered, KeepaliveFailed, KeepaliveCancelled
<1>9. ASSUME NEW c \in Closers, CloseStart(c) \/ CloserStep(c)
      PROVE  UNCHANGED <<queue, reader, iterator>>
  BY <1>9 DEF CloserStep, CloseStart, CloseRaisesRead, CloseReaderDone,
              CloseRaisesKeepalive, CloseConn, CloseReturns
<1>10. CASE Server \/ ConnCloses
  BY <1>1, <1>10 DEF Server, ServerPush, ServerFrame, ServerClose, ConnDrops, ConnCloses
<1> QED
  BY <1>1, <1>4, <1>5, <1>6, <1>7, <1>8, <1>9, <1>10 DEF Next, IteratorGets, vars

-----------------------------------------------------------------------------
(* The inductive invariant, and what follows from it.                       *)

LEMMA IInvInit == Init => IInv
<1> SUFFICES ASSUME Init PROVE IInv
  OBVIOUS
<1>1. TypeOK
  BY TypeInit
<1>2. FuturesInv /\ ReaderInv /\ CloserInv /\ WireInv /\ QueueInv
  BY <1>1 DEF Init, TypeOK, FuturesInv, ReaderInv, CloserInv, WireInv, QueueInv,
              ReaderDone, Rids
<1> QED
  BY <1>1, <1>2 DEF IInv

LEMMA IInvNext == IInv /\ [Next]_vars => IInv'
  BY TypeNext, FuturesNext, CloserNext, WireNext, QueueNext DEF IInv

THEOREM Invariance == Spec => []IInv
  BY IInvInit, IInvNext, PTL DEF Spec

\* No task is left waiting on a read task that has ended, whatever ended it.
THEOREM NoWaiterOrphaned == Spec => []NoOrphanWaiter
<1>1. IInv => NoOrphanWaiter
  BY DEF IInv, FuturesInv, ReaderInv, NoOrphanWaiter
<1> QED
  BY <1>1, Invariance, PTL

\* A close() that returns leaves no task, no waiter and no connection behind,
\* for any number of concurrent callers.
THEOREM CloseIsComplete == Spec => []CloseLeavesNothing
<1>1. IInv => CloseLeavesNothing
  BY DEF IInv, CloserInv, ReaderInv, CloseLeavesNothing
<1> QED
  BY <1>1, Invariance, PTL

\* requests() ends exactly after everything the read task queued.
THEOREM SentinelIsLast == Spec => []SentinelEndsQueue
<1>1. IInv => SentinelEndsQueue
  <2> SUFFICES ASSUME TypeOK, QueueInv PROVE SentinelEndsQueue
    BY DEF IInv
  <2> DEFINE inQueue == {i \in 1..Len(queue) : queue[i] = Sentinel}
  <2>1. CASE ReaderDone /\ iterator # "ended"
    <3>1. Len(queue) \in inQueue /\ \A i \in inQueue : i = Len(queue)
      BY <2>1 DEF QueueInv, TypeOK
    <3> QED
      BY <2>1, <3>1 DEF SentinelEndsQueue
  <2>2. CASE ~(ReaderDone /\ iterator # "ended")
    <3>1. inQueue = {}
      BY <2>2 DEF QueueInv
    <3> QED
      BY <2>2, <3>1 DEF SentinelEndsQueue
  <2> QED
    BY <2>1, <2>2
<1> QED
  BY <1>1, Invariance, PTL

\* A future is created once and settled once: no repeated, late or racing answer
\* makes the read task settle one that is done, which would raise.
THEOREM FuturesAreSettledOnce == Spec => FuturesSettleOnce
<1>1. TypeOK /\ FuturesInv /\ [Next]_vars =>
        [\A r \in Rids : fut'[r] # fut[r] =>
           Settles(r) \/ (fut[r] = "none" /\ fut'[r] = "pending")]_vars
  <2> SUFFICES ASSUME TypeOK, FuturesInv, Next, NEW r \in Rids, fut'[r] # fut[r]
               PROVE  Settles(r) \/ (fut[r] = "none" /\ fut'[r] = "pending")
    OBVIOUS
  <2> USE DEF TypeOK, Settles
  <2>1. ASSUME NEW how, EndReader(how) PROVE Settles(r)
    BY <2>1 DEF EndReader, FailWaiters, Awaited, Settle
  <2>2. CASE ReaderStep
    BY <2>1, <2>2 DEF ReaderStep, ReadRequest, ReadResponse, ReadNoise, ReadGarbage,
                      ReadEnd, ReadCancelled, Awaited, Settle
  <2>3. CASE KeepaliveWakes
    BY <2>3 DEF KeepaliveWakes, FuturesInv, Rids
  <2>4. CASE KeepaliveStep
    BY <2>3, <2>4 DEF KeepaliveStep, KeepaliveStops, KeepaliveSent, KeepaliveSendFails,
                      KeepaliveAnswered, KeepaliveFailed, KeepaliveCancelled
  <2>5. ASSUME NEW c \in Closers, CloseStart(c) \/ CloserStep(c) PROVE Settles(r)
    BY <2>5 DEF CloserStep, CloseStart, CloseRaisesRead, CloseReaderDone, CancelledFuture,
                CloseRaisesKeepalive, CloseConn, CloseReturns
  <2>6. CASE Server \/ ConnCloses \/ IteratorGets \/ IteratorAbandoned
    BY <2>6 DEF Server, ServerPush, ServerFrame, ServerClose, ConnDrops, ConnCloses,
                IteratorGets, IteratorYields, IteratorEnds, IteratorAbandoned
  <2> QED
    BY <2>2, <2>4, <2>5, <2>6 DEF Next
<1>2. IInv => TypeOK /\ FuturesInv
  BY DEF IInv
<1> QED
  BY <1>1, <1>2, Invariance, PTL DEF Spec, FuturesSettleOnce

-----------------------------------------------------------------------------
(* The order of the requests, from the server to the consumer.  What has    *)
(* been received counts up from 1; the requests on the wire go on from      *)
(* there; and up to a drop they are all there.                              *)

Requests(w) == {i \in 1..Len(w) : w[i].kind = "request"}

\* The requests among the frames w go up from lo + 1 without a gap, at most to hi.
Consecutive(w, lo, hi) ==
  /\ \A i \in Requests(w) : w[i].id \in (lo + 1)..hi
  /\ \A i, j \in Requests(w) : i < j => w[i].id < w[j].id
  /\ \A i \in Requests(w) : \A k \in (lo + 1)..w[i].id :
       \E j \in Requests(w) : j <= i /\ w[j].id = k

Complete(w, lo, hi) == \A k \in (lo + 1)..hi : \E j \in Requests(w) : w[j].id = k

\* The next request arrives.
LEMMA ArriveRequest ==
  ASSUME NEW w \in Seq(Frames), NEW lo \in Nat, NEW hi \in Nat, lo <= hi,
         NEW f \in Frames, f.kind = "request", f.id = hi + 1,
         Consecutive(w, lo, hi), Complete(w, lo, hi)
  PROVE  Consecutive(Append(w, f), lo, hi + 1) /\ Complete(Append(w, f), lo, hi + 1)
<1> DEFINE v == Append(w, f)
           n == Len(w) + 1
<1>1. n \in Nat /\ Len(v) = n /\ v[n] = f /\ \A i \in 1..Len(w) : v[i] = w[i]
  OBVIOUS
<1>2. Requests(v) = Requests(w) \cup {n}
  BY <1>1 DEF Requests
<1>3. \A i \in Requests(w) : i \in Nat /\ i < n /\ v[i] = w[i]
  BY <1>1 DEF Requests
<1>4. v[n].id = hi + 1
  BY <1>1
<1> HIDE DEF v, n
<1>5. Complete(v, lo, hi + 1)
  <2> SUFFICES ASSUME NEW k \in (lo + 1)..(hi + 1)
               PROVE  \E j \in Requests(v) : v[j].id = k
    BY DEF Complete
  <2>1. CASE k = hi + 1
    BY <1>2, <1>4, <2>1
  <2>2. CASE k # hi + 1
    BY <1>2, <1>3, <2>2 DEF Complete
  <2> QED
    BY <2>1, <2>2
<1>6. \A i \in Requests(v) : v[i].id \in (lo + 1)..(hi + 1)
  BY <1>2, <1>3, <1>4 DEF Consecutive
<1>7. \A i, j \in Requests(v) : i < j => v[i].id < v[j].id
  <2>1. \A i, j \in Requests(w) : i < j => v[i].id < v[j].id
    BY <1>3 DEF Consecutive
  <2>2. \A i \in Requests(w) : v[i].id \in (lo + 1)..hi /\ ~(n < i)
    BY <1>1, <1>3 DEF Consecutive
  <2> QED
    BY <1>1, <1>2, <1>4, <2>1, <2>2
<1>8. ASSUME NEW i \in Requests(v), NEW k \in (lo + 1)..v[i].id
      PROVE  \E j \in Requests(v) : j <= i /\ v[j].id = k
  <2>1. CASE i \in Requests(w)
    <3>1. PICK j \in Requests(w) : j <= i /\ w[j].id = k
      BY <1>3, <2>1 DEF Consecutive
    <3>2. j \in Requests(v) /\ v[j] = w[j]
      BY <1>2, <1>3
    <3> QED
      BY <3>1, <3>2
  <2>2. CASE i = n
    <3>1. PICK j \in Requests(v) : v[j].id = k
      BY <1>4, <1>5, <2>2 DEF Complete
    <3>2. j <= n
      BY <1>1, <1>2, <1>3
    <3> QED
      BY <2>2, <3>1, <3>2
  <2> QED
    BY <1>2, <2>1, <2>2
<1> QED
  BY <1>5, <1>6, <1>7, <1>8 DEF Consecutive, v

\* Another frame arrives.
LEMMA ArriveOther ==
  ASSUME NEW w \in Seq(Frames), NEW lo, NEW hi, NEW f \in Frames, f.kind # "request",
         Consecutive(w, lo, hi)
  PROVE  /\ Consecutive(Append(w, f), lo, hi)
         /\ Complete(w, lo, hi) => Complete(Append(w, f), lo, hi)
<1> DEFINE v == Append(w, f)
<1>1. Len(v) = Len(w) + 1 /\ v[Len(w) + 1] = f /\ \A i \in 1..Len(w) : v[i] = w[i]
  OBVIOUS
<1>2. Requests(v) = Requests(w)
  BY <1>1 DEF Requests
<1>3. \A i \in Requests(w) : v[i] = w[i]
  BY <1>1 DEF Requests
<1> HIDE DEF v
<1>4. Consecutive(v, lo, hi)
  BY <1>2, <1>3 DEF Consecutive
<1>5. Complete(w, lo, hi) => Complete(v, lo, hi)
  BY <1>2, <1>3 DEF Complete
<1> QED
  BY <1>4, <1>5 DEF v

\* The last frames are lost.
LEMMA LoseSuffix ==
  ASSUME NEW w \in Seq(Frames), NEW lo, NEW hi, NEW n \in 0..Len(w), Consecutive(w, lo, hi)
  PROVE  Consecutive(SubSeq(w, 1, n), lo, hi)
<1> DEFINE v == SubSeq(w, 1, n)
<1>1. n \in Nat /\ Len(v) = n /\ \A i \in 1..n : v[i] = w[i]
  OBVIOUS
<1>2. Requests(v) \subseteq Requests(w)
  BY <1>1 DEF Requests
<1>3. \A i \in Requests(v) : v[i] = w[i] /\ i \in Nat /\ i <= n
  BY <1>1 DEF Requests
<1>4. \A i \in Requests(v), j \in Requests(w) : j <= i => j \in Requests(v)
  BY <1>1 DEF Requests
<1>5. \A i \in Requests(v) : v[i].id \in (lo + 1)..hi
  BY <1>2, <1>3 DEF Consecutive
<1>6. \A i, j \in Requests(v) : i < j => v[i].id < v[j].id
  BY <1>2, <1>3 DEF Consecutive
<1>7. ASSUME NEW i \in Requests(v), NEW k \in (lo + 1)..v[i].id
      PROVE  \E j \in Requests(v) : j <= i /\ v[j].id = k
  <2>1. i \in Requests(w) /\ v[i] = w[i]
    BY <1>2, <1>3
  <2>2. PICK j \in Requests(w) : j <= i /\ w[j].id = k
    BY <2>1 DEF Consecutive
  <2>3. j \in Requests(v) /\ v[j] = w[j]
    BY <1>3, <1>4, <2>2
  <2> QED
    BY <2>2, <2>3
<1> QED
  BY <1>5, <1>6, <1>7 DEF Consecutive

\* The first frame is read.
LEMMA ReadFirst ==
  ASSUME NEW w \in Seq(Frames), w # <<>>, NEW lo \in Nat, NEW hi \in Nat,
         Consecutive(w, lo, hi),
         NEW lo2, lo2 = IF Head(w).kind = "request" THEN lo + 1 ELSE lo
  PROVE  /\ Head(w).kind = "request" => Head(w).id = lo + 1 /\ lo + 1 <= hi
         /\ Consecutive(Tail(w), lo2, hi)
         /\ Complete(w, lo, hi) => Complete(Tail(w), lo2, hi)
<1> DEFINE v == Tail(w)
           q == w[1].kind = "request"
<1>1. Len(w) \in Nat /\ Len(w) >= 1 /\ Head(w) = w[1]
  OBVIOUS
<1>2. Len(v) = Len(w) - 1 /\ \A i \in 1..Len(v) : v[i] = w[i + 1]
  BY <1>1
<1> HIDE DEF v
<1>3. \A i \in Requests(v) : i \in Nat /\ i >= 1 /\ i + 1 \in Requests(w) /\ v[i] = w[i + 1]
  BY <1>1, <1>2 DEF Requests
<1>4. ASSUME NEW i \in Requests(w)
      PROVE  i \in Nat /\ i >= 1 /\ (i # 1 => i - 1 \in Requests(v) /\ v[i - 1] = w[i])
  <2>1. i \in 1..Len(w) /\ w[i].kind = "request"
    BY DEF Requests
  <2>2. i # 1 => i - 1 \in 1..Len(v) /\ v[i - 1] = w[(i - 1) + 1] /\ (i - 1) + 1 = i
    BY <1>1, <1>2, <2>1
  <2> QED
    BY <2>1, <2>2 DEF Requests
<1>5. 1 \in Requests(w) <=> q
  BY <1>1 DEF Requests
<1>6. lo2 \in Nat /\ lo2 = IF q THEN lo + 1 ELSE lo
  BY <1>1
<1> HIDE DEF q
<1>7. ASSUME q PROVE w[1].id = lo + 1 /\ lo + 1 <= hi
  <2>1. 1 \in Requests(w) /\ w[1].id \in (lo + 1)..hi
    BY <1>5, <1>7 DEF Consecutive
  <2>2. lo + 1 \in (lo + 1)..w[1].id
    BY <2>1
  <2>3. PICK j \in Requests(w) : j <= 1 /\ w[j].id = lo + 1
    BY <2>1, <2>2 DEF Consecutive
  <2>4. j = 1
    BY <1>4, <2>3
  <2> QED
    BY <2>1, <2>3, <2>4
<1>8. ASSUME NEW j \in Requests(w), w[j].id > lo2 PROVE j # 1
  BY <1>5, <1>6, <1>7, <1>8
<1>9. ASSUME NEW i \in Requests(v) PROVE v[i].id \in (lo2 + 1)..hi
  <2>1. i + 1 \in Requests(w) /\ v[i] = w[i + 1] /\ i + 1 > 1 /\ w[i + 1].id \in (lo + 1)..hi
    BY <1>3 DEF Consecutive
  <2>2. q => w[1].id < w[i + 1].id
    BY <1>5, <2>1 DEF Consecutive
  <2> QED
    BY <1>6, <1>7, <2>1, <2>2
<1>10. ASSUME NEW i \in Requests(v), NEW j \in Requests(v), i < j PROVE v[i].id < v[j].id
  <2>1. i + 1 \in Requests(w) /\ j + 1 \in Requests(w) /\ i + 1 < j + 1
    BY <1>3, <1>10
  <2> QED
    BY <1>3, <2>1 DEF Consecutive
<1>11. ASSUME NEW i \in Requests(v), NEW k \in (lo2 + 1)..v[i].id
       PROVE  \E j \in Requests(v) : j <= i /\ v[j].id = k
  <2>1. i \in Nat /\ i + 1 \in Requests(w) /\ v[i] = w[i + 1]
    BY <1>3
  <2>2. k \in (lo + 1)..w[i + 1].id
    BY <1>6, <1>9, <2>1
  <2>3. PICK j \in Requests(w) : j <= i + 1 /\ w[j].id = k
    BY <2>1, <2>2 DEF Consecutive
  <2>4. j # 1
    BY <1>6, <1>8, <1>9, <2>3
  <2>5. j \in Nat /\ j - 1 \in Requests(v) /\ v[j - 1].id = k /\ j - 1 <= i
    BY <1>4, <2>1, <2>3, <2>4
  <2> QED
    BY <2>5
<1>12. ASSUME Complete(w, lo, hi), NEW k \in (lo2 + 1)..hi
       PROVE  \E j \in Requests(v) : v[j].id = k
  <2>1. k \in (lo + 1)..hi
    BY <1>6
  <2>2. PICK j \in Requests(w) : w[j].id = k
    BY <1>12, <2>1 DEF Complete
  <2>3. j # 1
    BY <1>6, <1>8, <2>2
  <2>4. j - 1 \in Requests(v) /\ v[j - 1].id = k
    BY <1>4, <2>2, <2>3
  <2> QED
    BY <2>4
<1>13. Consecutive(v, lo2, hi)
  BY <1>9, <1>10, <1>11 DEF Consecutive
<1>14. Complete(w, lo, hi) => Complete(v, lo2, hi)
  BY <1>12 DEF Complete
<1> QED
  BY <1>1, <1>7, <1>13, <1>14 DEF v, q

-----------------------------------------------------------------------------
\* The requests in the queue, without the sentinel.
Queued == IF ReaderDone /\ iterator # "ended" THEN Len(queue) - 1 ELSE Len(queue)
Received == Len(delivered) + Queued

ReceivedInv ==
  /\ Received <= pushed
  /\ \A i \in 1..Len(delivered) : delivered[i] = i
  /\ \A i \in 1..Queued : queue[i] = Len(delivered) + i

OnWireInv == /\ Consecutive(wire, Received, pushed)
             /\ conn # "dropped" => Complete(wire, Received, pushed)

EndInv == (reader = "ok" => wire = <<>> /\ ConnGone) /\ (iterator = "ended" => queue = <<>>)

OInv == ReceivedInv /\ OnWireInv /\ EndInv

LEMMA OInvInit == Init => OInv
<1> SUFFICES ASSUME Init PROVE OInv
  OBVIOUS
<1>1. wire = <<>> /\ queue = <<>> /\ delivered = <<>> /\ pushed = 0 /\ reader = "reading"
      /\ iterator = "iterating"
  BY DEF Init
<1>2. Queued = 0 /\ Received = 0
  BY <1>1 DEF Queued, Received, ReaderDone
<1>3. Requests(wire) = {}
  BY <1>1 DEF Requests
<1>4. OnWireInv
  BY <1>1, <1>2, <1>3 DEF OnWireInv, Consecutive, Complete
<1> QED
  BY <1>1, <1>2, <1>4 DEF OInv, ReceivedInv, EndInv

LEMMA QueuedType ==
  ASSUME TypeOK, QueueInv
  PROVE  Queued \in Nat /\ Received \in Nat /\ Queued <= Len(queue) /\ pushed \in Nat
  BY DEF TypeOK, QueueInv, Queued, Received

\* A step that touches neither the frames nor the requests.
LEMMA ElsewhereOrder ==
  ASSUME OInv, UNCHANGED <<wire, pushed, reader, queue, delivered, iterator>>,
         conn = "dropped" => conn' = "dropped", ConnGone => ConnGone'
  PROVE  OInv'
<1>1. UNCHANGED <<Queued, Received>>
  BY DEF Queued, Received, ReaderDone
<1>2. ReceivedInv'
  BY <1>1 DEF OInv, ReceivedInv
<1>3. OnWireInv'
  BY <1>1 DEF OInv, OnWireInv
<1>4. EndInv'
  BY DEF OInv, EndInv
<1> QED
  BY <1>2, <1>3, <1>4 DEF OInv

LEMMA ServerOrder == TypeOK /\ QueueInv /\ OInv /\ Server => OInv'
<1> SUFFICES ASSUME TypeOK, QueueInv, OInv, Server PROVE OInv'
  OBVIOUS
<1>1. Received \in Nat /\ pushed \in Nat /\ wire \in Seq(Frames)
  BY QueuedType DEF TypeOK
<1>2. UNCHANGED <<delivered, queue, reader, iterator>>
  BY DEF Server, ServerPush, ServerFrame, ServerClose, ConnDrops
<1>3. UNCHANGED <<Queued, Received>>
  BY <1>2 DEF Queued, Received, ReaderDone
<1>4. pushed' = pushed \/ pushed' = pushed + 1
  BY DEF Server, ServerPush, ServerFrame, ServerClose, ConnDrops
<1>5. ReceivedInv'
  BY <1>1, <1>2, <1>3, <1>4 DEF OInv, ReceivedInv
<1>6. Consecutive(wire, Received, pushed)
  BY DEF OInv, OnWireInv
<1>7. CASE ServerPush
  <2> DEFINE f == Request(pushed + 1)
  <2>1. f.kind = "request" /\ f.id = pushed + 1 /\ f \in Frames
    BY <1>1 DEF Request, Frames
  <2>2. wire' = Append(wire, f) /\ pushed' = pushed + 1 /\ conn = "open" /\ conn' = conn
    BY <1>7 DEF ServerPush, Arrive
  <2> HIDE DEF f
  <2>3. Received <= pushed /\ Complete(wire, Received, pushed)
    BY <2>2 DEF OInv, OnWireInv, ReceivedInv
  <2>4. Consecutive(wire', Received', pushed') /\ Complete(wire', Received', pushed')
    BY <1>1, <1>3, <1>6, <2>1, <2>2, <2>3, ArriveRequest
  <2> QED
    BY <1>2, <1>5, <2>2, <2>4 DEF OInv, OnWireInv, EndInv, ConnGone
<1>8. CASE ServerFrame
  <2>1. PICK f \in {Noise, Garbage} \cup {Response(r) : r \in Answerable} : Arrive(f)
    BY <1>8 DEF ServerFrame
  <2>2. f.kind # "request" /\ f \in Frames
    BY DEF Noise, Garbage, Response, Frames, Answerable, Rids
  <2>3. wire' = Append(wire, f) /\ conn = "open" /\ UNCHANGED <<conn, pushed>>
    BY <1>8, <2>1 DEF ServerFrame, Arrive
  <2>4. Consecutive(wire', Received', pushed')
        /\ (Complete(wire, Received, pushed) => Complete(wire', Received', pushed'))
    BY <1>1, <1>3, <1>6, <2>2, <2>3, ArriveOther
  <2> QED
    BY <1>2, <1>5, <2>3, <2>4 DEF OInv, OnWireInv, EndInv, ConnGone
<1>9. CASE ServerClose
  BY <1>2, <1>9, ElsewhereOrder DEF ServerClose, ConnGone
<1>10. CASE ConnDrops
  <2>1. PICK n \in 0..Len(wire) : wire' = SubSeq(wire, 1, n)
    BY <1>10 DEF ConnDrops
  <2>2. conn' = "dropped" /\ pushed' = pushed /\ conn = "open"
    BY <1>10 DEF ConnDrops
  <2>3. Consecutive(wire', Received', pushed')
    BY <1>1, <1>3, <1>6, <2>1, <2>2, LoseSuffix
  <2> QED
    BY <1>2, <1>5, <2>2, <2>3 DEF OInv, OnWireInv, EndInv, ConnGone
<1> QED
  BY <1>7, <1>8, <1>9, <1>10 DEF Server

\* The read task takes a frame off the wire, and counts it if it is a request.
LEMMA ReadsWire ==
  ASSUME TypeOK, QueueInv, OInv, NEW kind, Reads(kind), UNCHANGED <<pushed, conn>>,
         Received' = IF kind = "request" THEN Received + 1 ELSE Received
  PROVE  OnWireInv' /\ (kind = "request" => Head(wire).id = Received + 1 /\ Received < pushed)
<1>1. Received \in Nat /\ pushed \in Nat /\ wire \in Seq(Frames)
  BY QueuedType DEF TypeOK
<1>2. wire # <<>> /\ wire' = Tail(wire) /\ Head(wire).kind = kind
  BY DEF Reads
<1>3. Consecutive(wire, Received, pushed)
  BY DEF OInv, OnWireInv
<1>4. Received' = IF Head(wire).kind = "request" THEN Received + 1 ELSE Received
  BY <1>2
<1> DEFINE lo == Received
           lo2 == Received'
           hi == pushed
           w == wire
<1> HIDE DEF lo, lo2, hi, w
<1>5. /\ Head(w).kind = "request" => Head(w).id = lo + 1 /\ lo + 1 <= hi
      /\ Consecutive(Tail(w), lo2, hi)
      /\ Complete(w, lo, hi) => Complete(Tail(w), lo2, hi)
  <2>1. w \in Seq(Frames) /\ w # <<>> /\ lo \in Nat /\ hi \in Nat
        /\ Consecutive(w, lo, hi) /\ lo2 = IF Head(w).kind = "request" THEN lo + 1 ELSE lo
    BY <1>1, <1>2, <1>3, <1>4 DEF lo, lo2, hi, w
  <2> QED
    BY <2>1, ReadFirst, Zenon
<1>6. Consecutive(wire', Received', pushed')
  BY <1>2, <1>5 DEF lo, lo2, hi, w
<1>7. Complete(wire, Received, pushed) => Complete(wire', Received', pushed')
  BY <1>2, <1>5 DEF lo, lo2, hi, w
<1>8. kind = "request" => Head(wire).id = Received + 1 /\ Received < pushed
  BY <1>1, <1>2, <1>5 DEF lo, hi, w
<1> QED
  BY <1>6, <1>7, <1>8 DEF OInv, OnWireInv

\* The read task ends: the sentinel goes behind the requests and counts for none.
LEMMA EndCounts ==
  ASSUME TypeOK, QueueInv, OInv, ~ReaderDone, NEW how \in {"ok", "error", "cancelled"},
         EndReader(how)
  PROVE  Received' = Received /\ ReceivedInv'
<1>1. queue' = Append(queue, 0) /\ reader' = how /\ UNCHANGED <<delivered, pushed, iterator>>
  BY DEF EndReader, Sentinel
<1>2. iterator # "ended" /\ ReaderDone'
  BY <1>1 DEF QueueInv, ReaderDone
<1>3. queue \in Seq(Nat) /\ delivered \in Seq(Nat) /\ Len(queue) \in Nat
  BY DEF TypeOK
<1>4. Len(queue') = Len(queue) + 1 /\ \A i \in 1..Len(queue) : queue'[i] = queue[i]
  BY <1>1, <1>3
<1>5. Queued = Len(queue) /\ Queued' = Queued
  BY <1>1, <1>2, <1>3, <1>4 DEF Queued
<1>6. Received' = Received
  BY <1>1, <1>5 DEF Received
<1> QED
  BY <1>1, <1>4, <1>5, <1>6 DEF OInv, ReceivedInv

LEMMA ReaderOrder == TypeOK /\ QueueInv /\ OInv /\ ReaderStep => OInv'
<1> SUFFICES ASSUME TypeOK, QueueInv, OInv, ReaderStep PROVE OInv'
  OBVIOUS
<1>1. Received \in Nat /\ pushed \in Nat /\ wire \in Seq(Frames) /\ queue \in Seq(Nat)
      /\ Len(queue) \in Nat /\ Len(delivered) \in Nat
  BY QueuedType DEF TypeOK
<1>2. reader = "reading" /\ ~ReaderDone
  BY DEF ReaderStep, ReadRequest, ReadResponse, ReadNoise, ReadGarbage, ReadEnd, ReadCancelled,
         Reads, Reading, ReaderDone
<1>3. UNCHANGED <<conn, pushed, delivered, iterator>>
  BY DEF ReaderStep, ReadRequest, ReadResponse, ReadNoise, ReadGarbage, ReadEnd, ReadCancelled,
         EndReader
<1>4. iterator # "ended"
  BY <1>2 DEF QueueInv
<1>5. CASE ReadRequest
  <2>1. Reads("request") /\ queue' = Append(queue, Head(wire).id) /\ reader' = reader
    BY <1>5 DEF ReadRequest
  <2>2. Len(queue') = Len(queue) + 1 /\ queue'[Len(queue) + 1] = Head(wire).id
        /\ \A i \in 1..Len(queue) : queue'[i] = queue[i]
    BY <1>1, <2>1
  <2>3. Queued = Len(queue) /\ Queued' = Queued + 1
    BY <1>1, <1>2, <1>3, <2>1, <2>2 DEF Queued, ReaderDone
  <2>4. Received' = Received + 1 /\ Received = Len(delivered) + Len(queue)
    BY <1>1, <1>3, <2>3 DEF Received
  <2>5. OnWireInv' /\ Head(wire).id = Received + 1 /\ Received < pushed
    BY <1>3, <2>1, <2>4, ReadsWire
  <2>6. \A i \in 1..(Len(queue) + 1) : queue'[i] = Len(delivered) + i
    <3> SUFFICES ASSUME NEW i \in 1..(Len(queue) + 1) PROVE queue'[i] = Len(delivered) + i
      OBVIOUS
    <3>1. CASE i \in 1..Len(queue)
      BY <2>2, <2>3, <3>1 DEF OInv, ReceivedInv
    <3>2. CASE i = Len(queue) + 1
      BY <1>1, <2>2, <2>4, <2>5, <3>2
    <3> QED
      BY <1>1, <3>1, <3>2
  <2>7. ReceivedInv'
    BY <1>1, <1>3, <2>3, <2>4, <2>5, <2>6 DEF OInv, ReceivedInv
  <2> QED
    BY <1>2, <1>3, <1>4, <2>1, <2>5, <2>7 DEF OInv, EndInv
<1>6. ASSUME NEW kind \in {"response", "noise"}, Reads(kind), UNCHANGED <<queue, reader>>
      PROVE  OInv'
  <2>1. UNCHANGED <<Queued, Received>>
    BY <1>3, <1>6 DEF Queued, Received, ReaderDone
  <2>2. OnWireInv'
    BY <1>3, <1>6, <2>1, ReadsWire
  <2>3. ReceivedInv'
    BY <1>3, <1>6, <2>1 DEF OInv, ReceivedInv
  <2> QED
    BY <1>2, <1>3, <1>4, <1>6, <2>2, <2>3 DEF OInv, EndInv
<1>7. CASE ReadGarbage
  <2>1. Reads("garbage") /\ EndReader("error")
    BY <1>7 DEF ReadGarbage
  <2>2. Received' = Received /\ ReceivedInv'
    BY <1>2, <2>1, EndCounts
  <2>3. OnWireInv'
    BY <1>3, <2>1, <2>2, ReadsWire
  <2>4. EndInv'
    BY <1>3, <1>4, <2>1 DEF EndInv, EndReader
  <2> QED
    BY <2>2, <2>3, <2>4 DEF OInv
<1>8. ASSUME NEW how \in {"ok", "cancelled"}, EndReader(how), UNCHANGED wire,
             how = "ok" => wire = <<>> /\ ConnGone
      PROVE  OInv'
  <2>1. Received' = Received /\ ReceivedInv'
    BY <1>2, <1>8, EndCounts
  <2>2. OnWireInv'
    BY <1>3, <1>8, <2>1 DEF OInv, OnWireInv
  <2>3. EndInv'
    BY <1>3, <1>4, <1>8 DEF EndInv, EndReader, ConnGone
  <2> QED
    BY <2>1, <2>2, <2>3 DEF OInv
<1>9. CASE ReadResponse \/ ReadNoise
  BY <1>6, <1>9 DEF ReadResponse, ReadNoise
<1>10. CASE ReadEnd \/ ReadCancelled
  BY <1>8, <1>10 DEF ReadEnd, ReadCancelled
<1> QED
  BY <1>5, <1>7, <1>9, <1>10 DEF ReaderStep

\* The iterator moves the head of the queue to the consumer, or ends at the sentinel.
LEMMA IteratorOrder ==
  TypeOK /\ QueueInv /\ OInv /\ (IteratorGets \/ IteratorAbandoned) => OInv'
<1> SUFFICES ASSUME TypeOK, QueueInv, OInv, IteratorGets \/ IteratorAbandoned PROVE OInv'
  OBVIOUS
<1>1. /\ queue \in Seq(Nat) /\ delivered \in Seq(Nat) /\ Len(queue) \in Nat
      /\ Len(delivered) \in Nat /\ Queued \in Nat
  BY QueuedType DEF TypeOK
<1>2. UNCHANGED <<conn, wire, pushed, reader>> /\ iterator = "iterating"
  BY DEF IteratorGets, IteratorYields, IteratorEnds, IteratorAbandoned
<1>3. UNCHANGED ReaderDone /\ UNCHANGED ConnGone
  BY <1>2 DEF ReaderDone, ConnGone
<1>4. CASE IteratorYields
  <2>1. queue # <<>> /\ Head(queue) # Sentinel /\ queue' = Tail(queue) /\ iterator' = iterator
        /\ delivered' = Append(delivered, Head(queue))
    BY <1>4 DEF IteratorYields
  <2>2. Len(queue) >= 1 /\ Head(queue) = queue[1] /\ Len(queue') = Len(queue) - 1
        /\ \A i \in 1..Len(queue') : queue'[i] = queue[i + 1]
    BY <1>1, <2>1
  <2>3. Len(delivered') = Len(delivered) + 1 /\ delivered'[Len(delivered) + 1] = queue[1]
        /\ \A i \in 1..Len(delivered) : delivered'[i] = delivered[i]
    BY <1>1, <2>1, <2>2
  <2>4. Queued >= 1 /\ Queued' = Queued - 1 /\ Queued' <= Len(queue')
    BY <1>1, <1>2, <1>3, <2>1, <2>2 DEF Queued, QueueInv
  <2>5. Received' = Received
    BY <1>1, <2>3, <2>4 DEF Received
  <2>6. queue[1] = Len(delivered) + 1
    BY <1>1, <2>4 DEF OInv, ReceivedInv
  <2>7. \A i \in 1..(Len(delivered) + 1) : delivered'[i] = i
    BY <1>1, <2>3, <2>6 DEF OInv, ReceivedInv
  <2>8. ASSUME NEW i \in 1..Queued' PROVE queue'[i] = Len(delivered') + i
    <3>1. i \in 1..Len(queue') /\ i + 1 \in 1..Queued
      BY <1>1, <2>2, <2>4
    <3>2. queue'[i] = queue[i + 1] /\ queue[i + 1] = Len(delivered) + (i + 1)
      BY <2>2, <3>1 DEF OInv, ReceivedInv
    <3> QED
      BY <1>1, <2>3, <3>2
  <2>9. ReceivedInv'
    BY <1>2, <2>3, <2>5, <2>7, <2>8 DEF OInv, ReceivedInv
  <2> QED
    BY <1>2, <1>3, <2>1, <2>5, <2>9 DEF OInv, OnWireInv, EndInv
<1>5. CASE IteratorEnds
  <2>1. queue # <<>> /\ Head(queue) = Sentinel /\ queue' = Tail(queue) /\ iterator' = "ended"
        /\ delivered' = delivered
    BY <1>5 DEF IteratorEnds
  <2>2. Len(queue) >= 1 /\ queue[1] = Sentinel
    BY <1>1, <2>1
  <2>3. ReaderDone /\ Len(queue) = 1
    <3>1. 1 \in 1..Len(queue)
      BY <1>1, <2>2
    <3>2. ReaderDone
      BY <1>2, <2>2, <3>1 DEF QueueInv
    <3>3. ~(1 \in 1..(Len(queue) - 1))
      BY <1>2, <2>2, <3>2 DEF QueueInv
    <3>4. \A n \in Nat : n >= 1 /\ 1 \notin 1..(n - 1) => n = 1
      OBVIOUS
    <3> QED
      BY <1>1, <2>2, <3>2, <3>3, <3>4, Zenon
  <2>4. queue' = <<>> /\ Len(queue') = 0
    <3>1. queue' \in Seq(Nat) /\ Len(queue') = 0
      BY <1>1, <2>1, <2>3
    <3>2. \A s \in Seq(Nat) : s # <<>> => Len(s) \in Nat \ {0}
      BY EmptySeq
    <3> QED
      BY <3>1, <3>2
  <2>5. Queued = 0 /\ Queued' = 0
    BY <1>2, <2>1, <2>3, <2>4 DEF Queued
  <2>6. Received' = Received
    BY <2>1, <2>5 DEF Received
  <2>7. ReceivedInv'
    BY <1>2, <2>1, <2>5, <2>6 DEF OInv, ReceivedInv
  <2> QED
    BY <1>2, <1>3, <2>4, <2>6, <2>7 DEF OInv, OnWireInv, EndInv
<1>6. CASE IteratorAbandoned
  <2>1. iterator' = "gone" /\ UNCHANGED <<queue, delivered>>
    BY <1>6 DEF IteratorAbandoned
  <2>2. UNCHANGED <<Queued, Received>>
    BY <1>2, <1>3, <2>1 DEF Queued, Received
  <2> QED
    BY <1>2, <1>3, <2>1, <2>2 DEF OInv, ReceivedInv, OnWireInv, EndInv
<1> QED
  BY <1>4, <1>5, <1>6 DEF IteratorGets

LEMMA OInvNext == TypeOK /\ QueueInv /\ OInv /\ [Next]_vars => OInv'
<1> SUFFICES ASSUME TypeOK, QueueInv, OInv, [Next]_vars PROVE OInv'
  OBVIOUS
<1>1. CASE UNCHANGED vars \/ ConnCloses \/ KeepaliveStep
  <2>1. /\ UNCHANGED <<wire, pushed, reader, queue, delivered, iterator>>
        /\ (conn = "dropped" => conn' = "dropped") /\ (ConnGone => ConnGone')
    BY <1>1 DEF vars, ConnCloses, ConnGone, KeepaliveStep, KeepaliveStops, KeepaliveWakes,
                KeepaliveSent, KeepaliveSendFails, KeepaliveAnswered, KeepaliveFailed,
                KeepaliveCancelled
  <2> QED
    BY <2>1, ElsewhereOrder
<1>2. ASSUME NEW c \in Closers, CloseStart(c) \/ CloserStep(c) PROVE OInv'
  <2>1. /\ UNCHANGED <<wire, pushed, reader, queue, delivered, iterator>>
        /\ (conn = "dropped" => conn' = "dropped") /\ (ConnGone => ConnGone')
    BY <1>2 DEF CloserStep, CloseStart, CloseRaisesRead, CloseReaderDone,
                CloseRaisesKeepalive, CloseConn, CloseReturns, ConnGone
  <2> QED
    BY <2>1, ElsewhereOrder
<1> QED
  BY <1>1, <1>2, ServerOrder, ReaderOrder, IteratorOrder DEF Next

THEOREM OrderInvariance == Spec => [](IInv /\ OInv)
<1>1. Init => OInv
  BY OInvInit
<1>2. IInv /\ OInv /\ [Next]_vars => OInv'
  BY OInvNext DEF IInv
<1> QED
  BY <1>1, <1>2, Invariance, PTL DEF Spec

\* Requests reach the consumer in the order the server pushed them, none
\* skipped, repeated or overtaken, whenever the socket dies.
THEOREM PushesInOrder == Spec => []PushOrder
<1>1. ASSUME TypeOK, QueueInv, OInv PROVE PushOrder
  <2> DEFINE ids == delivered \o queue \o RequestIds
             D == Len(delivered)
             M == D + Len(queue)
             L == Len(wire)
             R == Received
  <2>1. /\ D \in Nat /\ Len(queue) \in Nat /\ M \in Nat /\ L \in Nat /\ R \in Nat
        /\ Queued \in Nat /\ pushed \in Nat /\ R = D + Queued
        /\ delivered \in Seq(Nat) /\ queue \in Seq(Nat) /\ wire \in Seq(Frames)
    BY <1>1, QueuedType DEF TypeOK, Received
  <2>2. Queued = Len(queue) \/ (Queued = Len(queue) - 1 /\ queue[Len(queue)] = 0)
    BY <1>1 DEF Queued, QueueInv, Sentinel
  <2>3. \A i \in 1..L : RequestIds[i] = IF wire[i].kind = "request" THEN wire[i].id ELSE 0
    BY DEF RequestIds
  <2>4. RequestIds \in Seq(Nat) /\ Len(RequestIds) = L
    <3>1. \A i \in 1..L : RequestIds[i] \in Nat
      <4> SUFFICES ASSUME NEW i \in 1..L PROVE RequestIds[i] \in Nat
        OBVIOUS
      <4>1. wire[i] \in Frames
        BY <2>1, ElementOfSeq
      <4>2. wire[i].id \in Nat
        BY <4>1 DEF Frames
      <4> QED
        BY <2>3, <4>2
    <3> QED
      BY <2>1, <3>1 DEF RequestIds
  <2>5. /\ Len(ids) = M + L
        /\ \A i \in 1..D : ids[i] = delivered[i]
        /\ \A i \in 1..Len(queue) : ids[D + i] = queue[i]
        /\ \A i \in 1..L : ids[M + i] = RequestIds[i]
    <3> DEFINE s == delivered \o queue
    <3>1. /\ s \in Seq(Nat) /\ Len(s) = M
          /\ \A i \in 1..M : s[i] = IF i <= D THEN delivered[i] ELSE queue[i - D]
      BY <2>1, ConcatProperties
    <3> HIDE DEF s
    <3>2. /\ Len(s \o RequestIds) = M + L
          /\ \A i \in 1..(M + L) : (s \o RequestIds)[i] = IF i <= M THEN s[i] ELSE RequestIds[i - M]
      <4>1. RequestIds \in Seq(Nat) /\ s \in Seq(Nat)
        BY <2>4, <3>1
      <4>2. /\ Len(s \o RequestIds) = Len(s) + Len(RequestIds)
            /\ \A i \in 1..(Len(s) + Len(RequestIds)) :
                 (s \o RequestIds)[i] = IF i <= Len(s) THEN s[i] ELSE RequestIds[i - Len(s)]
        BY <4>1, ConcatProperties, Zenon
      <4> QED
        BY <2>4, <3>1, <4>2, Zenon
    <3>3. ids = s \o RequestIds
      BY DEF s
    <3> HIDE DEF ids
    <3>4. Len(ids) = M + L /\ \A i \in 1..D : ids[i] = delivered[i]
      <4>1. \A i \in 1..D : i \in 1..M /\ i \in 1..(M + L) /\ i <= D /\ i <= M
        BY <2>1
      <4> QED
        BY <3>1, <3>2, <3>3, <4>1
    <3>5. ASSUME NEW i \in 1..Len(queue) PROVE ids[D + i] = queue[i]
      <4>1. D + i \in 1..M /\ ~(D + i <= D) /\ (D + i) - D = i /\ D + i \in 1..(M + L)
        BY <2>1
      <4>2. ids[D + i] = s[D + i]
        BY <3>2, <3>3, <4>1
      <4>3. s[D + i] = queue[(D + i) - D]
        BY <3>1, <4>1
      <4> QED
        BY <4>1, <4>2, <4>3
    <3>6. ASSUME NEW i \in 1..L PROVE ids[M + i] = RequestIds[i]
      <4>1. ~(M + i <= M) /\ (M + i) - M = i /\ M + i \in 1..(M + L)
        BY <2>1
      <4> QED
        BY <3>2, <3>3, <4>1
    <3> QED
      BY <3>4, <3>5, <3>6
  <2> HIDE DEF ids, D, M, L
  <2>6. ASSUME NEW i \in 1..R PROVE ids[i] = i
    <3>1. CASE i \in 1..D
      BY <1>1, <2>5, <3>1 DEF OInv, ReceivedInv, D
    <3>2. CASE i \notin 1..D
      <4>1. i - D \in 1..Queued /\ i - D \in 1..Len(queue) /\ D + (i - D) = i
        BY <2>1, <2>2, <3>2
      <4>2. queue[i - D] = D + (i - D)
        BY <1>1, <4>1 DEF OInv, ReceivedInv, D
      <4>3. ids[D + (i - D)] = queue[i - D]
        BY <2>5, <4>1
      <4> QED
        BY <4>1, <4>2, <4>3
    <3> QED
      BY <3>1, <3>2
  <2>7. ASSUME NEW i \in (R + 1)..M PROVE ids[i] = 0
    <3>1. Queued = Len(queue) - 1 /\ queue[Len(queue)] = 0 /\ i = M
      BY <2>1, <2>2 DEF M
    <3>2. Len(queue) \in 1..Len(queue) /\ M = D + Len(queue)
      BY <2>1, <3>1 DEF M
    <3>3. ids[D + Len(queue)] = queue[Len(queue)]
      BY <2>5, <3>2
    <3> QED
      BY <3>1, <3>2, <3>3
  <2>8. R <= M
    BY <2>1, <2>2 DEF M
  <2>9. ASSUME NEW l \in 1..L
        PROVE  ids[M + l] = (IF l \in Requests(wire) THEN wire[l].id ELSE 0)
    BY <2>3, <2>5 DEF Requests, L
  <2>10. Requests(wire) \subseteq 1..L
    BY DEF Requests, L
  <2>11. Consecutive(wire, R, pushed)
    BY <1>1 DEF OInv, OnWireInv
  <2> HIDE DEF R
  <2> SUFFICES ASSUME NEW i \in 1..Len(ids), ids[i] # 0
               PROVE  /\ \A j \in 1..(i - 1) : ids[j] < ids[i]
                      /\ \A k \in 1..(ids[i] - 1) : \E j \in 1..(i - 1) : ids[j] = k
    BY DEF PushOrder, ids
  <2>12. CASE i \in 1..R
    <3>1. ids[i] = i /\ \A j \in 1..(i - 1) : j \in 1..R /\ ids[j] = j /\ j < i
      BY <2>1, <2>6, <2>12
    <3> QED
      BY <3>1
  <2>13. CASE i \notin 1..R
    <3>1. PICK m \in 1..L : i = M + m
      <4>1. i \notin (R + 1)..M
        BY <2>7
      <4>2. i - M \in 1..L /\ i = M + (i - M)
        BY <2>1, <2>5, <2>8, <2>13, <4>1
      <4> QED
        BY <4>2
    <3>2. m \in Requests(wire) /\ ids[i] = wire[m].id
      BY <2>9, <3>1
    <3>3. ids[i] \in (R + 1)..pushed
      BY <2>11, <3>2 DEF Consecutive
    <3>4. ASSUME NEW j \in 1..(i - 1) PROVE ids[j] < ids[i]
      <4>1. CASE j \in 1..R
        BY <2>1, <2>6, <3>3, <4>1
      <4>2. CASE j \in (R + 1)..M
        BY <2>1, <2>7, <3>3, <4>2
      <4>3. CASE j > M
        <5>1. j - M \in 1..L /\ j = M + (j - M) /\ j - M < m
          BY <2>1, <3>1, <4>3
        <5>2. ids[j] = IF j - M \in Requests(wire) THEN wire[j - M].id ELSE 0
          BY <2>9, <5>1
        <5>3. j - M \in Requests(wire) => wire[j - M].id < wire[m].id
          BY <2>11, <3>2, <5>1 DEF Consecutive
        <5> QED
          BY <2>1, <3>2, <3>3, <5>2, <5>3
      <4> QED
        BY <2>1, <3>1, <4>1, <4>2, <4>3
    <3>5. ASSUME NEW k \in 1..(ids[i] - 1) PROVE \E j \in 1..(i - 1) : ids[j] = k
      <4>1. CASE k <= R
        <5>1. k \in 1..R /\ k \in 1..(i - 1)
          BY <2>1, <2>8, <3>1, <3>3, <4>1
        <5> QED
          BY <2>6, <5>1
      <4>2. CASE ~(k <= R)
        <5>1. k \in (R + 1)..wire[m].id /\ k # wire[m].id
          <6>1. R \in Nat /\ wire[m].id \in (R + 1)..pushed /\ k \in 1..(wire[m].id - 1)
            BY <2>1, <3>2, <3>3
          <6> QED
            BY <4>2, <6>1
        <5>2. PICK l \in Requests(wire) : l <= m /\ wire[l].id = k
          BY <2>11, <3>2, <5>1 DEF Consecutive
        <5>3. l \in 1..L /\ l # m
          BY <2>10, <5>1, <5>2
        <5>4. ids[M + l] = k
          BY <2>9, <5>2, <5>3
        <5>5. M + l \in 1..(i - 1)
          <6>1. M \in Nat /\ l \in Nat /\ m \in Nat /\ l >= 1 /\ l < m
            BY <2>1, <2>5, <5>2, <5>3
          <6> QED
            BY <3>1, <6>1
        <5> QED
          BY <5>4, <5>5
      <4> QED
        BY <4>1, <4>2
    <3> QED
      BY <3>4, <3>5
  <2> QED
    BY <2>12, <2>13
<1>2. IInv /\ OInv => PushOrder
  BY <1>1 DEF IInv
<1> QED
  BY <1>2, OrderInvariance, PTL

\* A server that closes gracefully loses nothing: an iterator that ended for
\* that reason has yielded every request that was pushed.
THEOREM GracefulCloseIsComplete == Spec => []GracefulCloseDeliversAll
<1>1. IInv /\ OInv => GracefulCloseDeliversAll
  <2> SUFFICES ASSUME TypeOK, QueueInv, OInv,
                      iterator = "ended", reader = "ok", conn = "closed"
               PROVE  Len(delivered) = pushed
    BY DEF IInv, GracefulCloseDeliversAll
  <2>1. wire = <<>> /\ queue = <<>>
    BY DEF OInv, EndInv
  <2>2. Queued = 0 /\ Received = Len(delivered) /\ Received \in Nat /\ pushed \in Nat
    BY <2>1, QueuedType DEF Queued, Received, TypeOK
  <2>3. Requests(wire) = {}
    BY <2>1 DEF Requests
  <2>4. ~(Received < pushed)
    <3>1. Complete(wire, Received, pushed)
      BY DEF OInv, OnWireInv
    <3>2. pushed \notin (Received + 1)..pushed
      BY <2>3, <3>1 DEF Complete
    <3> QED
      BY <2>2, <3>2
  <2> QED
    BY <2>2, <2>4 DEF OInv, ReceivedInv
<1> QED
  BY <1>1, OrderInvariance, PTL
=============================================================================
