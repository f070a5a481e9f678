---------------------------- MODULE ClientProofs ----------------------------
(* Safety of Client for every number of pushes and keepalive ticks.  Each   *)
(* step of the client is a step of the socket or leaves it alone, so what   *)
(* WsConnectionProofs shows of the socket holds here too; CInv ties run(),  *)
(* stop() and the receive task to it.                                       *)
EXTENDS Client, WsConnectionProofs

USE TwoClosers

ClientVarsType ==
  /\ runPc \in {"idle", "connecting", "receiving", "closing", "returned", "cancelled", "raised"}
  /\ stopPc \in {"idle", "awaitRecv", "closing", "nothing", "returned", "raised"}
  /\ recv \in {"none", "waiting", "handling", "acking", "ackingCancelled", "done", "cancelled"}
  /\ cancelReq \in BOOLEAN /\ stopping \in BOOLEAN
  /\ taskRef \in BOOLEAN /\ wsRef \in BOOLEAN
  /\ handled \in Seq(Nat) /\ acked \in SUBSET Nat

\* There is a receive task only once run() has connected; it ends cancelled
\* only if it was asked to stop.
RecvInv ==
  /\ runPc \in {"idle", "connecting"} => recv = "none"
  /\ taskRef => recv # "none"
  /\ cancelReq => stopping
  /\ recv \in {"ackingCancelled", "cancelled"} => stopping
  /\ recv \in {"handling", "acking", "ackingCancelled"} => delivered # <<>>

\* How far the handlers are behind the socket, at each position of the task.
ButLast == SubSeq(delivered, 1, Len(delivered) - 1)
HandledInv ==
  /\ recv \in {"none", "waiting", "acking", "done"} => handled = delivered
  /\ recv = "handling" => handled = ButLast
  /\ recv \in {"ackingCancelled", "cancelled"} =>
       handled = delivered \/ (delivered # <<>> /\ handled = ButLast)

\* What was taken from the socket is acknowledged before the next is taken.
AckInv ==
  /\ acked \subseteq 1..Len(delivered)
  /\ recv = "handling" => Len(delivered) \notin acked
  /\ conn = "open" => 1..(Len(delivered) - 1) \subseteq acked
  /\ conn = "open" /\ recv \in {"none", "waiting"} => 1..Len(delivered) \subseteq acked

\* The reference to the socket is cleared only behind a close() that returned.
StopInv ==
  /\ recv # "none" /\ ~wsRef => \E c \in Closers : closer[c] = "returned"
  /\ stopPc = "awaitRecv" => recv # "none"
  /\ stopPc = "closing" => RecvEnded
  /\ stopPc = "returned" => RecvEnded /\ ~wsRef

CInv == ClientVarsType /\ RecvInv /\ HandledInv /\ AckInv /\ StopInv

-----------------------------------------------------------------------------
(* Sequences.                                                               *)

LEMMA FrontOfAppend ==
  ASSUME NEW s \in Seq(Nat), NEW x \in Nat
  PROVE  SubSeq(Append(s, x), 1, Len(Append(s, x)) - 1) = s
<1> DEFINE t == Append(s, x)
<1>1. t \in Seq(Nat) /\ Len(t) = Len(s) + 1 /\ Len(s) \in Nat /\ \A i \in 1..Len(s) : t[i] = s[i]
  OBVIOUS
<1> HIDE DEF t
<1> DEFINE u == SubSeq(t, 1, Len(t) - 1)
<1>2. u \in Seq(Nat) /\ Len(u) = Len(s) /\ \A i \in 1..Len(s) : u[i] = s[i]
  BY <1>1
<1> HIDE DEF u
<1>3. u = s
  BY <1>2, SeqEqual
<1> QED
  BY <1>3 DEF t, u

LEMMA AppendToFront ==
  ASSUME NEW s \in Seq(Nat), s # <<>>
  PROVE  /\ Append(SubSeq(s, 1, Len(s) - 1), s[Len(s)]) = s
         /\ s[Len(s)] \in Nat
<1>1. Len(s) \in Nat /\ Len(s) >= 1
  OBVIOUS
<1>2. s[Len(s)] \in Nat
  BY <1>1, ElementOfSeq
<1> DEFINE u == SubSeq(s, 1, Len(s) - 1)
<1>3. u \in Seq(Nat) /\ Len(u) = Len(s) - 1 /\ \A i \in 1..(Len(s) - 1) : u[i] = s[i]
  <2> DEFINE m == Len(s) - 1
  <2>1. m \in Nat /\ m <= Len(s)
    BY <1>1
  <2> HIDE DEF m
  <2>2. /\ SubSeq(s, 1, m) \in Seq(Nat) /\ Len(SubSeq(s, 1, m)) = m
        /\ \A i \in 1..m : SubSeq(s, 1, m)[i] = s[i]
    BY <1>1, <2>1
  <2> QED
    BY <2>2 DEF m
<1> HIDE DEF u
<1> DEFINE t == Append(u, s[Len(s)])
<1>4. /\ t \in Seq(Nat) /\ Len(t) = Len(s) /\ t[Len(s)] = s[Len(s)]
      /\ \A i \in 1..(Len(s) - 1) : t[i] = s[i]
  BY <1>1, <1>2, <1>3
<1> HIDE DEF t
<1>5. \A i \in 1..Len(s) : i \in 1..(Len(s) - 1) \/ i = Len(s)
  BY <1>1
<1>6. t = s
  BY <1>4, <1>5, SeqEqual
<1> QED
  BY <1>2, <1>6 DEF t, u

-----------------------------------------------------------------------------
(* The client's steps and the socket's.                                     *)

LEMMA ClientStepsSocket == [ClientNext]_allVars => [Next]_vars
<1> SUFFICES ASSUME [ClientNext]_allVars PROVE Next \/ UNCHANGED vars
  OBVIOUS
<1>1. CASE UNCHANGED allVars
  BY <1>1 DEF allVars
<1>2. CASE RunStart \/ RunDialFails \/ RunConnected \/ RunInterrupted \/ RunFindsNoSocket
           \/ RunClosed \/ RunCloseRaised \/ StopCancels \/ StopFindsNothing \/ StopFindsClosed
           \/ StopClosed \/ StopCloseRaised \/ HandlersReturn \/ HandlersInterrupted
  BY <1>2 DEF RunStart, RunDialFails, RunConnected, RunInterrupted, RunFindsNoSocket, RunClosed,
              RunCloseRaised, StopCancels, StopFindsNothing, StopFindsClosed, StopClosed,
              StopCloseRaised, HandlersReturn, HandlersInterrupted
<1>3. CASE RunCloses \/ StopCloses
  BY <1>3 DEF RunCloses, StopCloses, Next
<1>4. CASE RecvTakes \/ RecvFinishes \/ RecvCancelled
  BY <1>4 DEF RecvTakes, RecvFinishes, RecvCancelled, Next, IteratorGets
<1>5. CASE AckSent \/ AckFails \/ AckInterrupted
  BY <1>5 DEF AckSent, AckFails, AckInterrupted, AfterAck, Next
<1>6. CASE SocketStep
  BY <1>6 DEF SocketStep, Next
<1> QED
  BY <1>1, <1>2, <1>3, <1>4, <1>5, <1>6 DEF ClientNext, RunStep, StopStep, RecvStep

\* The connection never reopens, and a close() that returned stays returned.
LEMMA SocketFrame ==
  TypeOK /\ [Next]_vars =>
    /\ conn' = "open" => conn = "open"
    /\ \A d \in Closers : closer[d] = "returned" => closer'[d] = "returned"
    /\ ReaderDone => ReaderDone'
<1> SUFFICES ASSUME TypeOK, [Next]_vars
             PROVE  /\ conn' = "open" => conn = "open"
                    /\ \A d \in Closers : closer[d] = "returned" => closer'[d] = "returned"
                    /\ ReaderDone => ReaderDone'
  OBVIOUS
<1> USE DEF ReaderDone
<1>1. CASE UNCHANGED vars
  BY <1>1 DEF vars
<1>2. CASE Server \/ ConnCloses
  BY <1>2 DEF Server, ServerPush, ServerFrame, ServerClose, ConnDrops, ConnCloses, Arrive
<1>3. CASE ReaderStep
  BY <1>3 DEF ReaderStep, ReadRequest, ReadResponse, ReadNoise, ReadGarbage, ReadEnd,
              ReadCancelled, EndReader, Reads, Reading
<1>4. CASE KeepaliveStep
  BY <1>4 DEF KeepaliveStep, KeepaliveStops, KeepaliveWakes, KeepaliveSent,
              KeepaliveSendFails, KeepaliveAnswered, KeepaliveFailed, KeepaliveCancelled
<1>5. ASSUME NEW c \in Closers, CloseStart(c) \/ CloserStep(c)
      PROVE  /\ conn' = "open" => conn = "open"
             /\ \A d \in Closers : closer[d] = "returned" => closer'[d] = "returned"
             /\ ReaderDone => ReaderDone'
  BY <1>5 DEF CloserStep, CloseStart, CloseRaisesRead, CloseReaderDone,
              CloseRaisesKeepalive, CloseConn, CloseReturns, TypeOK
<1>6. CASE IteratorGets \/ IteratorAbandoned
  BY <1>6 DEF IteratorGets, IteratorYields, IteratorEnds, IteratorAbandoned
<1> QED
  BY <1>1, <1>2, <1>3, <1>4, <1>5, <1>6 DEF Next

\* Only the iterator delivers, only to a receive task that waits.
LEMMA DeliveredFrame == [ClientNext]_allVars /\ ~RecvTakes => UNCHANGED delivered
<1> SUFFICES ASSUME [ClientNext]_allVars, ~RecvTakes PROVE UNCHANGED delivered
  OBVIOUS
<1>1. CASE UNCHANGED allVars
  BY <1>1 DEF allVars, vars
<1>2. CASE RunStart \/ RunDialFails \/ RunConnected \/ RunInterrupted \/ RunFindsNoSocket
           \/ RunClosed \/ RunCloseRaised \/ StopCancels \/ StopFindsNothing \/ StopFindsClosed
           \/ StopClosed \/ StopCloseRaised \/ HandlersReturn \/ HandlersInterrupted
  BY <1>2 DEF RunStart, RunDialFails, RunConnected, RunInterrupted, RunFindsNoSocket, RunClosed,
              RunCloseRaised, StopCancels, StopFindsNothing, StopFindsClosed, StopClosed,
              StopCloseRaised, HandlersReturn, HandlersInterrupted, vars
<1>3. CASE RunCloses \/ StopCloses
  BY <1>3 DEF RunCloses, StopCloses, CloseStart
<1>4. CASE RecvFinishes \/ RecvCancelled
  BY <1>4 DEF RecvFinishes, RecvCancelled, IteratorEnds, IteratorAbandoned
<1>5. CASE AckSent \/ AckFails \/ AckInterrupted
  BY <1>5 DEF AckSent, AckFails, AckInterrupted, AfterAck, IteratorAbandoned, vars
<1>6. CASE SocketStep
  <2>1. CASE Server \/ ConnCloses
    BY <2>1 DEF Server, ServerPush, ServerFrame, ServerClose, ConnDrops, ConnCloses
  <2>2. CASE ReaderStep
    BY <2>2 DEF ReaderStep, ReadRequest, ReadResponse, ReadNoise, ReadGarbage, ReadEnd,
                ReadCancelled, EndReader
  <2>3. CASE KeepaliveStep
    BY <2>3 DEF KeepaliveStep, KeepaliveStops, KeepaliveWakes, KeepaliveSent,
                KeepaliveSendFails, KeepaliveAnswered, KeepaliveFailed, KeepaliveCancelled
  <2>4. ASSUME NEW c, CloserStep(c) PROVE UNCHANGED delivered
    BY <2>4 DEF CloserStep, CloseRaisesRead, CloseReaderDone, CloseRaisesKeepalive, CloseConn,
                CloseReturns
  <2> QED
    BY <1>6, <2>1, <2>2, <2>3, <2>4 DEF SocketStep
<1> QED
  BY <1>1, <1>2, <1>3, <1>4, <1>5, <1>6 DEF ClientNext, RunStep, StopStep, RecvStep

-----------------------------------------------------------------------------
(* The steps of the receive task and of run() and stop().                   *)

LEMMA TypesNext ==
  TypeOK /\ ClientVarsType /\ RecvInv /\ [ClientNext]_allVars => ClientVarsType'
<1> SUFFICES ASSUME TypeOK, ClientVarsType, RecvInv, [ClientNext]_allVars PROVE ClientVarsType'
  OBVIOUS
<1> USE DEF ClientVarsType
<1>1. CASE UNCHANGED allVars \/ SocketStep
  BY <1>1 DEF allVars, clientVars, SocketStep
<1>2. delivered # <<>> => Current \in Nat
  BY AppendToFront DEF TypeOK, Current
<1>3. CASE RunStart \/ RunDialFails \/ RunConnected \/ RunInterrupted \/ RunStep
  BY <1>3 DEF RunStart, RunDialFails, RunConnected, RunInterrupted, RunStep, RunCloses,
              RunFindsNoSocket, RunClosed, RunCloseRaised
<1>4. CASE StopCancels \/ StopFindsNothing \/ StopStep
  BY <1>4 DEF StopCancels, StopFindsNothing, StopStep, StopFindsClosed, StopCloses,
              StopClosed, StopCloseRaised, RecvEnded
<1>5. CASE RecvTakes \/ RecvFinishes \/ RecvCancelled \/ HandlersInterrupted
  BY <1>5 DEF RecvTakes, RecvFinishes, RecvCancelled, HandlersInterrupted
<1>6. CASE HandlersReturn
  <2>1. handled' = Append(handled, Current) /\ Current \in Nat
    BY <1>2, <1>6 DEF HandlersReturn, RecvInv
  <2> QED
    BY <1>6, <2>1 DEF HandlersReturn
<1>7. CASE AckSent
  BY <1>2, <1>7 DEF AckSent, AfterAck, RecvInv
<1>8. CASE AckFails \/ AckInterrupted
  BY <1>2, <1>8 DEF AckFails, AckInterrupted, AfterAck, RecvInv
<1> QED
  BY <1>1, <1>3, <1>4, <1>5, <1>6, <1>7, <1>8 DEF ClientNext, RecvStep

LEMMA RecvNext ==
  TypeOK /\ ClientVarsType /\ RecvInv /\ [ClientNext]_allVars => RecvInv'
<1> SUFFICES ASSUME TypeOK, ClientVarsType, RecvInv, [ClientNext]_allVars PROVE RecvInv'
  OBVIOUS
<1> USE DEF RecvInv
<1>1. CASE RecvTakes
  <2>1. delivered' = Append(delivered, Head(queue)) /\ delivered \in Seq(Nat)
        /\ UNCHANGED <<runPc, taskRef, cancelReq, stopping>>
        /\ recv = "waiting" /\ recv' = "handling"
    BY <1>1 DEF RecvTakes, IteratorYields, TypeOK
  <2>2. Head(queue) \in Nat
    BY <1>1 DEF RecvTakes, IteratorYields, TypeOK
  <2>3. delivered' # <<>>
    BY <2>1, <2>2
  <2> QED
    BY <2>1, <2>3
<1>2. ASSUME ~RecvTakes PROVE UNCHANGED delivered
  BY <1>2, DeliveredFrame
<1>3. CASE UNCHANGED allVars \/ SocketStep
  <2>1. ~RecvTakes
    BY <1>3 DEF allVars, clientVars, SocketStep, RecvTakes
  <2> QED
    BY <1>2, <1>3, <2>1 DEF allVars, clientVars, SocketStep
<1>4. CASE ~RecvTakes /\ (RunStart \/ RunDialFails \/ RunConnected \/ RunInterrupted \/ RunStep)
  BY <1>2, <1>4 DEF RunStart, RunDialFails, RunConnected, RunInterrupted, RunStep, RunCloses,
              RunFindsNoSocket, RunClosed, RunCloseRaised
<1>5. CASE ~RecvTakes /\ (StopCancels \/ StopFindsNothing \/ StopStep)
  BY <1>2, <1>5 DEF StopCancels, StopFindsNothing, StopStep, StopFindsClosed, StopCloses,
              StopClosed, StopCloseRaised
<1>6. CASE ~RecvTakes /\ RecvStep
  BY <1>2, <1>6 DEF RecvStep, RecvFinishes, RecvCancelled, HandlersReturn, HandlersInterrupted,
              AckSent, AckFails, AckInterrupted, AfterAck
<1> QED
  BY <1>1, <1>3, <1>4, <1>5, <1>6 DEF ClientNext

\* What a step may do to the receive task and its histories.
LEMMA RecvMoves ==
  ASSUME [ClientNext]_allVars
  PROVE  \/ UNCHANGED <<recv, handled, acked, delivered>>
         \/ RecvTakes
         \/ HandlersReturn /\ UNCHANGED delivered
         \/ /\ UNCHANGED <<delivered, handled>>
            /\ \/ RunConnected \/ RecvFinishes \/ RecvCancelled
               \/ HandlersInterrupted \/ AckSent \/ AckFails \/ AckInterrupted
<1>1. CASE RecvTakes
  BY <1>1
<1>2. CASE ~RecvTakes
  <2>1. UNCHANGED delivered
    BY <1>2, DeliveredFrame
  <2>2. CASE RunStart \/ RunDialFails \/ RunInterrupted \/ RunStep \/ StopCancels
             \/ StopFindsNothing \/ StopStep \/ SocketStep \/ UNCHANGED allVars
    BY <2>1, <2>2 DEF RunStart, RunDialFails, RunInterrupted, RunStep, RunCloses, RunFindsNoSocket,
                RunClosed, RunCloseRaised, StopCancels, StopFindsNothing, StopStep, StopFindsClosed,
                StopCloses, StopClosed, StopCloseRaised, SocketStep, clientVars, allVars
  <2>3. CASE RunConnected \/ RecvFinishes \/ RecvCancelled \/ HandlersInterrupted \/ AckSent
             \/ AckFails \/ AckInterrupted
    BY <2>1, <2>3 DEF RunConnected, RecvFinishes, RecvCancelled, HandlersInterrupted, AckSent,
                AckFails, AckInterrupted
  <2> QED
    BY <1>2, <2>1, <2>2, <2>3 DEF ClientNext, RecvStep
<1> QED
  BY <1>1, <1>2

LEMMA TakeDelivers ==
  ASSUME TypeOK, RecvTakes
  PROVE  /\ recv = "waiting" /\ recv' = "handling" /\ UNCHANGED <<handled, acked, conn>>
         /\ delivered' \in Seq(Nat) /\ Len(delivered') = Len(delivered) + 1
         /\ ButLast' = delivered
<1>1. /\ recv = "waiting" /\ recv' = "handling" /\ UNCHANGED <<handled, acked, conn>>
      /\ delivered' = Append(delivered, Head(queue)) /\ queue # <<>>
  BY DEF RecvTakes, IteratorYields
<1>2. delivered \in Seq(Nat) /\ queue \in Seq(Nat)
  BY DEF TypeOK
<1>3. Head(queue) \in Nat
  BY <1>1, <1>2
<1> DEFINE x == Head(queue)
<1> HIDE DEF x
<1>4. SubSeq(Append(delivered, x), 1, Len(Append(delivered, x)) - 1) = delivered
  BY <1>2, <1>3, FrontOfAppend DEF x
<1>5. ButLast' = delivered
  BY <1>1, <1>4 DEF x, ButLast
<1> QED
  BY <1>1, <1>2, <1>3, <1>5

LEMMA HandledNext ==
  TypeOK /\ ClientVarsType /\ RecvInv /\ HandledInv /\ [ClientNext]_allVars => HandledInv'
<1> SUFFICES ASSUME TypeOK, ClientVarsType, RecvInv, HandledInv, [ClientNext]_allVars
             PROVE  HandledInv'
  OBVIOUS
<1>1. CASE UNCHANGED <<recv, handled, delivered>>
  BY <1>1 DEF HandledInv, ButLast
<1>2. CASE RecvTakes
  BY <1>2, TakeDelivers DEF HandledInv
<1>3. CASE HandlersReturn /\ UNCHANGED delivered
  <2>1. recv = "handling" /\ recv' = "acking" /\ handled' = Append(handled, Current)
    BY <1>3 DEF HandlersReturn
  <2>2. handled' = delivered
    BY <2>1, AppendToFront DEF HandledInv, ButLast, Current, RecvInv, TypeOK
  <2> QED
    BY <1>3, <2>1, <2>2 DEF HandledInv
<1>4. CASE UNCHANGED <<handled, delivered>> /\ (RunConnected \/ RecvFinishes \/ RecvCancelled)
  <2>1. recv \in {"none", "waiting"} /\ recv' \in {"waiting", "done", "cancelled"}
    BY <1>4 DEF RunConnected, RecvFinishes, RecvCancelled, RecvInv
  <2> QED
    BY <1>4, <2>1 DEF HandledInv, ButLast
<1>5. CASE UNCHANGED <<handled, delivered>> /\ (HandlersInterrupted \/ AckSent \/ AckFails \/ AckInterrupted)
  <2>1. /\ recv \in {"handling", "acking", "ackingCancelled"} /\ delivered # <<>>
        /\ recv' \in {"waiting", "ackingCancelled", "cancelled"}
        /\ recv' = "waiting" => recv = "acking"
    BY <1>5 DEF HandlersInterrupted, AckSent, AckFails, AckInterrupted, AfterAck, RecvInv
  <2>2. ButLast' = ButLast
    BY <1>5 DEF ButLast
  <2> QED
    BY <1>5, <2>1, <2>2 DEF HandledInv
<1> QED
  BY <1>1, <1>2, <1>3, <1>4, <1>5, RecvMoves

LEMMA AckNext ==
  ASSUME TypeOK, ClientVarsType, RecvInv, AckInv, [ClientNext]_allVars,
         \A i \in 1..Len(delivered) : delivered[i] = i
  PROVE  AckInv'
<1> DEFINE n == Len(delivered)
<1>1. n \in Nat /\ (delivered # <<>> => n >= 1 /\ Current = n)
  <2>1. delivered \in Seq(Nat)
    BY DEF TypeOK
  <2>2. n \in Nat /\ (delivered # <<>> => n >= 1)
    BY <2>1, EmptySeq
  <2> QED
    BY <2>2 DEF Current
<1>2. conn' = "open" => conn = "open"
  BY ClientStepsSocket, SocketFrame
<1>3. /\ acked \subseteq 1..n
      /\ recv = "handling" => n \notin acked
      /\ conn = "open" => 1..(n - 1) \subseteq acked
      /\ conn = "open" /\ recv \in {"none", "waiting"} => 1..n \subseteq acked
  BY DEF AckInv
<1>4. CASE RecvTakes
  <2>1. /\ recv = "waiting" /\ recv' = "handling" /\ UNCHANGED <<acked, conn>>
        /\ Len(delivered') = n + 1
    BY <1>4, TakeDelivers
  <2>2. n + 1 \notin 1..n /\ 1..n \subseteq 1..(n + 1) /\ (n + 1) - 1 = n
    BY <1>1
  <2> HIDE DEF n
  <2>3. acked' \subseteq 1..Len(delivered') /\ Len(delivered') \notin acked'
    BY <1>3, <2>1, <2>2
  <2>4. conn' = "open" => 1..(Len(delivered') - 1) \subseteq acked'
    BY <1>3, <2>1, <2>2
  <2> QED
    BY <2>1, <2>3, <2>4 DEF AckInv
<1>5. CASE UNCHANGED <<recv, acked, delivered>>
  BY <1>2, <1>5 DEF AckInv
<1>6. CASE /\ UNCHANGED <<acked, delivered>>
           /\ recv' # "handling"
           /\ recv' \in {"none", "waiting"} /\ conn' = "open" => recv \in {"none", "waiting"}
  BY <1>2, <1>6 DEF AckInv
<1>7. CASE HandlersReturn \/ RunConnected \/ RecvFinishes \/ RecvCancelled \/ HandlersInterrupted
           \/ AckFails
  <2>1. /\ UNCHANGED acked /\ recv' # "handling"
        /\ recv' \in {"none", "waiting"} /\ conn' = "open" => recv \in {"none", "waiting"}
    BY <1>2, <1>7 DEF HandlersReturn, RunConnected, RecvFinishes, RecvCancelled, HandlersInterrupted,
                AckFails, RecvInv, AfterAck, ConnGone
  <2>2. UNCHANGED delivered
    <3>1. ~RecvTakes
      BY <1>4, <1>7, <2>1 DEF RecvTakes
    <3> QED
      BY <3>1, DeliveredFrame
  <2> QED
    BY <1>6, <2>1, <2>2
<1>8. CASE UNCHANGED delivered /\ (AckSent \/ AckInterrupted)
  <2>1. /\ recv \in {"acking", "ackingCancelled"} /\ recv' \in {"waiting", "cancelled"}
        /\ acked' \in {acked, acked \cup {Current}}
        /\ recv' = "waiting" => acked' = acked \cup {Current}
    BY <1>8 DEF AckSent, AckInterrupted, AfterAck
  <2>2. Current = n /\ n \in 1..n /\ 1..n = 1..(n - 1) \cup {n}
    BY <1>1, <2>1 DEF RecvInv
  <2> HIDE DEF n
  <2>3. acked' \subseteq 1..n /\ acked \subseteq acked'
    BY <1>3, <2>1, <2>2
  <2>4. conn' = "open" => 1..(n - 1) \subseteq acked'
    BY <1>2, <1>3, <2>3
  <2>5. conn' = "open" /\ recv' = "waiting" => 1..n \subseteq acked'
    BY <2>1, <2>2, <2>4
  <2>6. Len(delivered') = n
    BY <1>8 DEF n
  <2> QED
    BY <2>1, <2>3, <2>4, <2>5, <2>6 DEF AckInv
<1> QED
  BY <1>4, <1>5, <1>7, <1>8, RecvMoves

\* An ended receive task stays ended.
LEMMA EndedStays ==
  ASSUME RecvInv, [ClientNext]_allVars
  PROVE  (RecvEnded => RecvEnded') /\ (recv # "none" => recv' # "none")
<1>1. CASE UNCHANGED recv
  BY <1>1 DEF RecvEnded
<1>2. CASE HandlersReturn \/ RunConnected \/ RecvTakes \/ RecvFinishes \/ RecvCancelled
           \/ HandlersInterrupted \/ AckSent \/ AckFails \/ AckInterrupted
  BY <1>2 DEF HandlersReturn, RunConnected, RecvTakes, RecvFinishes, RecvCancelled, HandlersInterrupted,
              AckSent, AckFails, AckInterrupted, AfterAck, RecvInv, RecvEnded
<1> QED
  BY <1>1, <1>2, RecvMoves

LEMMA StopNext ==
  ASSUME TypeOK, ClientVarsType, RecvInv, StopInv, [ClientNext]_allVars PROVE StopInv'
<1>1. RecvEnded => RecvEnded' /\ recv # "none"
  BY EndedStays DEF RecvEnded
<1>2. recv # "none" => recv' # "none"
  BY EndedStays
<1>3. \A d \in Closers : closer[d] = "returned" => closer'[d] = "returned"
  BY ClientStepsSocket, SocketFrame
<1>4. \/ UNCHANGED <<wsRef, recv>>
      \/ RunConnected /\ wsRef' = TRUE
      \/ wsRef' = wsRef /\ recv # "none"
      \/ wsRef' = FALSE /\ closer'["run"] = "returned"
      \/ wsRef' = FALSE /\ closer'["stop"] = "returned"
  <2>1. CASE UNCHANGED allVars \/ SocketStep
    BY <2>1 DEF allVars, clientVars, SocketStep
  <2>2. CASE RunStart \/ RunDialFails \/ RunInterrupted \/ RunCloses \/ RunFindsNoSocket
             \/ RunCloseRaised \/ StopCancels \/ StopFindsNothing \/ StopFindsClosed
             \/ StopCloses \/ StopCloseRaised
    BY <2>2 DEF RunStart, RunDialFails, RunInterrupted, RunCloses, RunFindsNoSocket, RunCloseRaised,
                StopCancels, StopFindsNothing, StopFindsClosed, StopCloses, StopCloseRaised
  <2>3. CASE RunClosed
    BY <1>3, <2>3 DEF RunClosed
  <2>4. CASE StopClosed
    BY <1>3, <2>4 DEF StopClosed
  <2>5. CASE RunConnected
    BY <2>5 DEF RunConnected
  <2>6. CASE RecvStep
    BY <2>6 DEF RecvStep, RecvTakes, RecvFinishes, RecvCancelled, HandlersReturn, HandlersInterrupted,
              AckSent, AckFails, AckInterrupted
  <2> QED
    BY <2>1, <2>2, <2>3, <2>4, <2>5, <2>6 DEF ClientNext, RunStep, StopStep
<1>5. (recv # "none" /\ ~wsRef => \E c \in Closers : closer[c] = "returned")'
  BY <1>3, <1>4 DEF StopInv, ClientVarsType
<1>6. \/ UNCHANGED stopPc
      \/ stopPc' \in {"nothing", "raised"}
      \/ stopPc' = "awaitRecv" /\ taskRef
      \/ stopPc' = "closing" /\ RecvEnded
      \/ stopPc' = "returned" /\ RecvEnded /\ ~wsRef'
  <2>1. CASE UNCHANGED allVars \/ SocketStep
    BY <2>1 DEF allVars, clientVars, SocketStep
  <2>2. CASE RunStart \/ RunDialFails \/ RunConnected \/ RunInterrupted \/ RunStep
    BY <2>2 DEF RunStart, RunDialFails, RunConnected, RunInterrupted, RunStep, RunCloses,
                RunFindsNoSocket, RunClosed, RunCloseRaised
  <2>3. CASE StopCancels \/ StopFindsNothing \/ StopStep
    BY <2>3 DEF StopCancels, StopFindsNothing, StopStep, StopFindsClosed, StopCloses, StopClosed,
                StopCloseRaised, StopInv
  <2>4. CASE RecvStep
    BY <2>4 DEF RecvStep, RecvTakes, RecvFinishes, RecvCancelled, HandlersReturn, HandlersInterrupted,
              AckSent, AckFails, AckInterrupted
  <2> QED
    BY <2>1, <2>2, <2>3, <2>4 DEF ClientNext
<1>7. stopPc = "returned" /\ RecvEnded => ~wsRef'
  BY <1>1, <1>4 DEF StopInv, RunConnected, RecvInv
<1> QED
  BY <1>1, <1>2, <1>5, <1>6, <1>7 DEF StopInv, RecvInv

-----------------------------------------------------------------------------
(* The invariant of the composition, and what follows from it.              *)

CInvOfBoth == IInv /\ OInv /\ CInv

LEMMA CInvInit == ClientInit => CInvOfBoth
<1> SUFFICES ASSUME ClientInit PROVE CInvOfBoth
  OBVIOUS
<1>1. IInv /\ OInv
  BY IInvInit, OInvInit DEF ClientInit
<1>2. delivered = <<>> /\ Len(delivered) = 0
  BY DEF ClientInit, Init
<1>3. ClientVarsType /\ RecvInv /\ HandledInv /\ StopInv
  <2>1. ClientVarsType
    <3>1. runPc = "idle" /\ stopPc = "idle" /\ recv = "none" /\ handled = <<>> /\ acked = {}
          /\ cancelReq = FALSE /\ stopping = FALSE /\ taskRef = FALSE /\ wsRef = FALSE
      BY DEF ClientInit
    <3>2. handled \in Seq(Nat) /\ acked \in SUBSET Nat
      BY <3>1
    <3>3. cancelReq \in BOOLEAN /\ stopping \in BOOLEAN /\ taskRef \in BOOLEAN /\ wsRef \in BOOLEAN
      BY <3>1, Zenon
    <3> QED
      BY <3>1, <3>2, <3>3, Zenon DEF ClientVarsType
  <2>2. RecvInv
    BY DEF ClientInit, RecvInv
  <2>3. HandledInv
    BY <1>2 DEF ClientInit, HandledInv
  <2>4. StopInv
    BY DEF ClientInit, StopInv
  <2> QED
    BY <2>1, <2>2, <2>3, <2>4
<1>4. AckInv
  <2>1. acked = {} /\ 1..Len(delivered) = {} /\ 1..(Len(delivered) - 1) = {}
    BY <1>2 DEF ClientInit
  <2> QED
    BY <2>1 DEF AckInv
<1> QED
  BY <1>1, <1>3, <1>4 DEF CInv, CInvOfBoth

LEMMA CInvNext == CInvOfBoth /\ [ClientNext]_allVars => CInvOfBoth'
<1> SUFFICES ASSUME IInv, OInv, CInv, [ClientNext]_allVars PROVE CInvOfBoth'
  BY DEF CInvOfBoth
<1>1. TypeOK /\ QueueInv /\ ClientVarsType /\ RecvInv /\ HandledInv /\ AckInv /\ StopInv
  BY DEF IInv, CInv
<1>2. [Next]_vars
  BY ClientStepsSocket
<1>3. IInv'
  BY <1>2, IInvNext
<1>4. OInv'
  BY <1>1, <1>2, OInvNext
<1>5. \A i \in 1..Len(delivered) : delivered[i] = i
  BY DEF OInv, ReceivedInv
<1>6. CInv'
  BY <1>1, <1>5, TypesNext, RecvNext, HandledNext, AckNext, StopNext DEF CInv
<1> QED
  BY <1>3, <1>4, <1>6 DEF CInvOfBoth

THEOREM ClientInvariance == ClientSpec => []CInvOfBoth
  BY CInvInit, CInvNext, PTL DEF ClientSpec

\* Type correctness of run(), stop(), the receive task and the socket they share.
THEOREM ClientTypeCorrect == ClientSpec => []ClientTypeOK
<1>1. CInvOfBoth => ClientTypeOK
  BY DEF CInvOfBoth, IInv, CInv, ClientVarsType, ClientTypeOK
<1> QED
  BY <1>1, ClientInvariance, PTL

\* Handlers run to their end on the requests in the order they were pushed, on
\* all that were taken but, at most, the last.
THEOREM HandlersFollowPushes == ClientSpec => []HandledInOrder
<1>1. CInvOfBoth => HandledInOrder
  BY DEF CInvOfBoth, CInv, ClientVarsType, RecvInv, HandledInv, ButLast, HandledInOrder
<1> QED
  BY <1>1, ClientInvariance, PTL

\* The server forgets nothing that was not handled, but for the one request a
\* stop cut short.
THEOREM OnlyStopLosesRequests == ClientSpec => []AckedUnhandledOnlyByStop
<1>1. CInvOfBoth => AckedUnhandledOnlyByStop
  <2> SUFFICES ASSUME CInvOfBoth, NEW i \in acked
               PROVE  i \in {handled[k] : k \in 1..Len(handled)} \/ (stopping /\ i = Current)
    BY DEF AckedUnhandledOnlyByStop
  <2>1. /\ delivered \in Seq(Nat) /\ Len(delivered) \in Nat /\ i \in 1..Len(delivered)
        /\ delivered[i] = i
    BY DEF CInvOfBoth, IInv, TypeOK, OInv, ReceivedInv, CInv, AckInv
  <2>2. CASE handled = delivered
    BY <2>1, <2>2
  <2>3. CASE handled # delivered
    <3>1. /\ delivered # <<>> /\ handled = ButLast
          /\ recv = "handling" \/ stopping
      <4> SUFFICES ASSUME ClientVarsType, RecvInv, HandledInv
                   PROVE  /\ delivered # <<>> /\ handled = ButLast
                          /\ recv = "handling" \/ stopping
        BY DEF CInvOfBoth, CInv
      <4>1. recv \in {"handling", "ackingCancelled", "cancelled"}
        BY <2>3 DEF ClientVarsType, HandledInv
      <4> QED
        BY <2>3, <4>1 DEF RecvInv, HandledInv
    <3>2. CASE i = Len(delivered)
      <4>1. recv # "handling"
        BY <3>2 DEF CInvOfBoth, CInv, AckInv
      <4> QED
        BY <2>1, <3>1, <3>2, <4>1 DEF Current
    <3>3. CASE i # Len(delivered)
      <4>1. i \in 1..(Len(delivered) - 1) /\ Len(delivered) - 1 \in Nat
        BY <2>1, <3>3
      <4>2. Len(handled) = Len(delivered) - 1 /\ handled[i] = delivered[i]
        BY <2>1, <3>1, <4>1 DEF ButLast
      <4> QED
        BY <2>1, <4>1, <4>2
    <3> QED
      BY <3>2, <3>3
  <2> QED
    BY <2>2, <2>3
<1> QED
  BY <1>1, ClientInvariance, PTL

\* While the connection is up every request but the last one taken has been
\* acknowledged.
THEOREM AcksFollowRequests == ClientSpec => []NoAckSkipped
<1>1. CInvOfBoth => NoAckSkipped
  <2> SUFFICES ASSUME CInvOfBoth, conn = "open", NEW k \in 1..(Len(delivered) - 1)
               PROVE  delivered[k] \in acked
    BY DEF NoAckSkipped
  <2>1. Len(delivered) \in Nat /\ k \in acked
    <3>1. delivered \in Seq(Nat) /\ 1..(Len(delivered) - 1) \subseteq acked
      BY DEF CInvOfBoth, IInv, TypeOK, CInv, AckInv
    <3> QED
      BY <3>1
  <2>2. delivered[k] = k
    <3>1. k \in 1..Len(delivered)
      BY <2>1
    <3> QED
      BY <3>1 DEF CInvOfBoth, OInv, ReceivedInv
  <2> QED
    BY <2>1, <2>2
<1> QED
  BY <1>1, ClientInvariance, PTL

\* A stop() that found a receive task returns only when that task, both tasks of
\* the socket and the connection are gone, whoever of run() and stop() closed it.
THEOREM StopLeavesNothing == ClientSpec => []StopIsFinal
<1>1. CInvOfBoth => StopIsFinal
  <2> SUFFICES ASSUME CInvOfBoth, stopPc = "returned"
               PROVE  RecvEnded /\ ReaderDone /\ KeepaliveDone /\ ConnGone
    BY DEF StopIsFinal
  <2>1. RecvEnded /\ ~wsRef /\ recv # "none"
    BY DEF CInvOfBoth, CInv, StopInv, RecvEnded
  <2>2. PICK c \in Closers : closer[c] = "returned"
    BY <2>1 DEF CInvOfBoth, CInv, StopInv
  <2> QED
    BY <2>1, <2>2 DEF CInvOfBoth, IInv, CloserInv
<1> QED
  BY <1>1, ClientInvariance, PTL

\* The client drives the socket only as its specification allows: every
\* step of run(), stop() and the receive task is, seen from the socket, a step of
\* WsConnection or none.  (Safety only: nothing is said of its fairness.)
THEOREM ClientUsesSocket == ClientSpec => Init /\ [][Next]_vars
<1>1. ClientInit => Init
  BY DEF ClientInit
<1> QED
  BY <1>1, ClientStepsSocket, PTL DEF ClientSpec
=============================================================================
