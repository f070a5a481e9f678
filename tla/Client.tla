------------------------------- MODULE Client -------------------------------
(***************************************************************************)
(* One run() of the Client of client.py with a concurrent stop(), composed *)
(* with the socket they share (WsConnection) and with the receive task     *)
(* that run() starts (run_receive_loop of receive.py).                     *)
(*                                                                         *)
(* The receive task is the consumer of requests(); run() and stop() are    *)
(* the two callers of close().  The socket's own steps are those of        *)
(* WsConnection, once run() has connected.                                 *)
(*                                                                         *)
(* Decryption and the fan-out to handlers are one "handling" phase here:   *)
(* whatever they raise short of cancellation is contained, so all that     *)
(* shows at this level is whether the phase ran to its end.                *)
(***************************************************************************)
EXTENDS WsConnection

ASSUME TwoClosers == Closers = {"run", "stop"}

VARIABLES
  runPc,      \* run(): where it is suspended, or how it ended
  stopPc,     \* stop(): likewise
  recv,       \* the receive task: where it is suspended, or how it ended
  cancelReq,  \* a cancellation of the receive task not yet delivered to it
  stopping,   \* history: the receive task was ever asked to stop
  taskRef,    \* Client._receive_task is not None
  wsRef,      \* Client._ws is not None
  handled,    \* history: requests whose handlers all ran to their end, in order
  acked       \* history: requests whose acknowledgement was sent

clientVars == <<runPc, stopPc, recv, cancelReq, stopping, taskRef, wsRef, handled, acked>>
allVars == <<vars, clientVars>>

RecvEnded == recv \in {"done", "cancelled"}
RunEnded  == runPc \in {"returned", "cancelled", "raised"}
StopEnded == stopPc \in {"nothing", "returned", "raised"}
Connected == recv # "none"
Current   == delivered[Len(delivered)]

ClientInit ==
  /\ Init
  /\ runPc = "idle" /\ stopPc = "idle"
  /\ recv = "none" /\ cancelReq = FALSE /\ stopping = FALSE
  /\ taskRef = FALSE /\ wsRef = FALSE
  /\ handled = <<>> /\ acked = {}

-----------------------------------------------------------------------------
(* run().                                                                   *)

RunStart ==
  /\ runPc = "idle" /\ runPc' = "connecting"
  /\ UNCHANGED <<vars, stopPc, recv, cancelReq, stopping, taskRef, wsRef, handled, acked>>

\* The dial fails (TransportError), or run() is cancelled while it dials.
RunDialFails ==
  /\ runPc = "connecting" /\ runPc' \in {"raised", "cancelled"}
  /\ UNCHANGED <<vars, stopPc, recv, cancelReq, stopping, taskRef, wsRef, handled, acked>>

RunConnected ==
  /\ runPc = "connecting" /\ runPc' = "receiving"
  /\ wsRef' = TRUE /\ taskRef' = TRUE /\ recv' = "waiting"
  /\ UNCHANGED <<vars, stopPc, cancelReq, stopping, handled, acked>>

\* run() is cancelled while it awaits the receive task, which asyncio cancels.
RunInterrupted ==
  /\ runPc = "receiving" /\ ~RecvEnded
  /\ cancelReq' = TRUE /\ stopping' = TRUE
  /\ UNCHANGED <<vars, runPc, stopPc, recv, taskRef, wsRef, handled, acked>>

RunCloses ==
  /\ runPc = "receiving" /\ RecvEnded /\ wsRef
  /\ CloseStart("run")
  /\ runPc' = "closing"
  /\ UNCHANGED <<stopPc, recv, cancelReq, stopping, taskRef, wsRef, handled, acked>>

\* stop() got there first: `self._ws.close()' on None is an AttributeError.
RunFindsNoSocket ==
  /\ runPc = "receiving" /\ RecvEnded /\ ~wsRef
  /\ runPc' = "raised"
  /\ UNCHANGED <<vars, stopPc, recv, cancelReq, stopping, taskRef, wsRef, handled, acked>>

RunClosed ==
  /\ runPc = "closing" /\ closer["run"] = "returned"
  /\ wsRef' = FALSE
  /\ runPc' = IF recv = "done" THEN "returned" ELSE "cancelled"
  /\ UNCHANGED <<vars, stopPc, recv, cancelReq, stopping, taskRef, handled, acked>>

\* Fault: the exception is reported by its kind.
RunCloseRaisedKind ==
  /\ runPc = "closing" /\ closer["run"] \in {"raisedTransport", "raisedForeign"}
  /\ runPc' = closer["run"]
  /\ UNCHANGED <<vars, stopPc, recv, cancelReq, stopping, taskRef, wsRef, handled, acked>>

\* close() raised out of the `finally'; `self._ws = None' is skipped.
RunCloseRaised ==
  /\ runPc = "closing" /\ closer["run"] \in {"raisedTransport", "raisedForeign"}
  /\ runPc' = "raised"
  /\ UNCHANGED <<vars, stopPc, recv, cancelReq, stopping, taskRef, wsRef, handled, acked>>

RunStep == RunCloses \/ RunFindsNoSocket \/ RunClosed \/ RunCloseRaised

-----------------------------------------------------------------------------
(* stop().                                                                  *)

\* Fault: the receive task is awaited without having been cancelled.
StopAwaits ==
  /\ stopPc = "idle" /\ taskRef
  /\ stopPc' = "awaitRecv" /\ stopping' = TRUE
  /\ UNCHANGED <<vars, runPc, recv, cancelReq, taskRef, wsRef, handled, acked>>

StopCancels ==
  /\ stopPc = "idle" /\ taskRef
  /\ stopPc' = "awaitRecv"
  /\ cancelReq' = ~RecvEnded /\ stopping' = TRUE
  /\ UNCHANGED <<vars, runPc, recv, taskRef, wsRef, handled, acked>>

\* Before run() has connected there is nothing to cancel or close.
StopFindsNothing ==
  /\ stopPc = "idle" /\ ~taskRef /\ ~wsRef
  /\ stopPc' = "nothing"
  /\ UNCHANGED <<vars, runPc, recv, cancelReq, stopping, taskRef, wsRef, handled, acked>>

\* run() was first to await the receive task and is woken first; stop() gets
\* ahead only if it finds everything ended already and so never suspends.
StopsTurn == runPc # "receiving" \/ (ReaderDone /\ KeepaliveDone /\ ConnGone)

\* Fault: the receive task is cancelled but not awaited.
StopClosesAtOnce ==
  /\ stopPc = "awaitRecv" /\ StopsTurn /\ wsRef
  /\ CloseStart("stop")
  /\ stopPc' = "closing" /\ taskRef' = FALSE
  /\ UNCHANGED <<runPc, recv, cancelReq, stopping, wsRef, handled, acked>>

StopCloses ==
  /\ stopPc = "awaitRecv" /\ RecvEnded /\ StopsTurn /\ wsRef
  /\ CloseStart("stop")
  /\ stopPc' = "closing" /\ taskRef' = FALSE
  /\ UNCHANGED <<runPc, recv, cancelReq, stopping, wsRef, handled, acked>>

StopFindsClosed ==
  /\ stopPc = "awaitRecv" /\ RecvEnded /\ StopsTurn /\ ~wsRef
  /\ stopPc' = "returned" /\ taskRef' = FALSE
  /\ UNCHANGED <<vars, runPc, recv, cancelReq, stopping, wsRef, handled, acked>>

StopClosed ==
  /\ stopPc = "closing" /\ closer["stop"] = "returned" /\ StopsTurn
  /\ stopPc' = "returned" /\ wsRef' = FALSE
  /\ UNCHANGED <<vars, runPc, recv, cancelReq, stopping, taskRef, handled, acked>>

StopCloseRaised ==
  /\ stopPc = "closing" /\ closer["stop"] \in {"raisedTransport", "raisedForeign"}
  /\ stopPc' = "raised"
  /\ UNCHANGED <<vars, runPc, recv, cancelReq, stopping, taskRef, wsRef, handled, acked>>

StopStep == StopCloses \/ StopFindsClosed \/ StopClosed \/ StopCloseRaised

-----------------------------------------------------------------------------
(* The receive task.                                                        *)

\* Faults: the next request is taken while handlers run; the ack comes first.
RecvTakesMore ==
  /\ recv \in {"waiting", "handling"} /\ ~cancelReq
  /\ IteratorYields
  /\ recv' = "handling"
  /\ UNCHANGED <<runPc, stopPc, cancelReq, stopping, taskRef, wsRef, handled, acked>>

RecvAcksFirst ==
  /\ recv = "waiting" /\ ~cancelReq
  /\ IteratorYields
  /\ recv' = "acking"
  /\ UNCHANGED <<runPc, stopPc, cancelReq, stopping, taskRef, wsRef, handled, acked>>

RecvTakes ==
  /\ recv = "waiting" /\ ~cancelReq
  /\ IteratorYields
  /\ recv' = "handling"
  /\ UNCHANGED <<runPc, stopPc, cancelReq, stopping, taskRef, wsRef, handled, acked>>

RecvFinishes ==
  /\ recv = "waiting" /\ ~cancelReq
  /\ IteratorEnds
  /\ recv' = "done"
  /\ UNCHANGED <<runPc, stopPc, cancelReq, stopping, taskRef, wsRef, handled, acked>>

RecvCancelled ==
  /\ recv = "waiting" /\ cancelReq
  /\ IteratorAbandoned
  /\ recv' = "cancelled" /\ cancelReq' = FALSE
  /\ UNCHANGED <<runPc, stopPc, stopping, taskRef, wsRef, handled, acked>>

\* Fault: the ack is sent only when a handler fails.
HandlersReturnUnacked ==
  /\ recv = "handling" /\ ~cancelReq
  /\ recv' \in {"acking", "waiting"} /\ handled' = Append(handled, Current)
  /\ UNCHANGED <<vars, runPc, stopPc, cancelReq, stopping, taskRef, wsRef, acked>>

HandlersReturn ==
  /\ recv = "handling" /\ ~cancelReq
  /\ recv' = "acking" /\ handled' = Append(handled, Current)
  /\ UNCHANGED <<vars, runPc, stopPc, cancelReq, stopping, taskRef, wsRef, acked>>

\* CancelledError in a handler: not an Exception, but `finally' still acks.
HandlersInterrupted ==
  /\ recv = "handling" /\ cancelReq
  /\ recv' = "ackingCancelled" /\ cancelReq' = FALSE
  /\ UNCHANGED <<vars, runPc, stopPc, stopping, taskRef, wsRef, handled, acked>>

\* What follows the acknowledgement: the next request, or the cancellation.
AfterAck ==
  IF recv = "acking"
  THEN recv' = "waiting" /\ UNCHANGED vars
  ELSE recv' = "cancelled" /\ IteratorAbandoned

AckSent ==
  /\ recv \in {"acking", "ackingCancelled"} /\ ~cancelReq /\ conn = "open"
  /\ acked' = acked \cup {Current}
  /\ AfterAck
  /\ UNCHANGED <<runPc, stopPc, cancelReq, stopping, taskRef, wsRef, handled>>

\* ConnectionClosed is logged and swallowed.
AckFails ==
  /\ recv \in {"acking", "ackingCancelled"} /\ ~cancelReq /\ ConnGone
  /\ AfterAck
  /\ UNCHANGED <<runPc, stopPc, cancelReq, stopping, taskRef, wsRef, handled, acked>>

\* Cancelled inside the send; the bytes may be out already.
AckInterrupted ==
  /\ recv \in {"acking", "ackingCancelled"} /\ cancelReq
  /\ acked' \in {acked, acked \cup {Current}}
  /\ recv' = "cancelled" /\ cancelReq' = FALSE
  /\ IteratorAbandoned
  /\ UNCHANGED <<runPc, stopPc, stopping, taskRef, wsRef, handled>>

RecvStep == \/ RecvTakes \/ RecvFinishes \/ RecvCancelled \/ HandlersReturn
            \/ HandlersInterrupted \/ AckSent \/ AckFails \/ AckInterrupted

-----------------------------------------------------------------------------
SocketStep ==
  /\ Connected
  /\ \/ Server \/ ConnCloses \/ ReaderStep \/ KeepaliveStep \/ CloserStep("run")
     \/ (StopsTurn /\ CloserStep("stop"))
  /\ UNCHANGED clientVars

ClientNext ==
  \/ RunStart \/ RunDialFails \/ RunConnected \/ RunInterrupted \/ RunStep
  \/ StopCancels \/ StopFindsNothing \/ StopStep
  \/ RecvStep \/ SocketStep

\* As in WsConnection; and handlers end, or end when they are cancelled.
ClientFairness ==
  /\ WF_allVars(RunStep) /\ WF_allVars(StopStep) /\ WF_allVars(RecvStep)
  /\ WF_allVars(Connected /\ ReaderStep /\ UNCHANGED clientVars)
  /\ WF_allVars(Connected /\ KeepaliveStep /\ UNCHANGED clientVars)
  /\ WF_allVars(Connected /\ ConnCloses /\ UNCHANGED clientVars)
  /\ WF_allVars(Connected /\ CloserStep("run") /\ UNCHANGED clientVars)
  /\ WF_allVars(Connected /\ StopsTurn /\ CloserStep("stop") /\ UNCHANGED clientVars)

ClientSpec == ClientInit /\ [][ClientNext]_allVars /\ ClientFairness

-----------------------------------------------------------------------------
(* Properties.                                                              *)

ClientTypeOK ==
  /\ TypeOK
  /\ runPc \in {"idle", "connecting", "receiving", "closing", "returned", "cancelled", "raised"}
  /\ stopPc \in {"idle", "awaitRecv", "closing", "nothing", "returned", "raised"}
  /\ recv \in {"none", "waiting", "handling", "acking", "ackingCancelled", "done", "cancelled"}
  /\ cancelReq \in BOOLEAN /\ stopping \in BOOLEAN
  /\ taskRef \in BOOLEAN /\ wsRef \in BOOLEAN
  /\ handled \in Seq(Nat) /\ acked \in SUBSET Nat

\* Requests are handled one at a time in the order they were pushed: all those
\* taken from the socket have been handled to the end but, at most, the last,
\* and that one only while it is being handled or if a stop cut it short.
HandledInOrder ==
  \/ handled = delivered
  \/ /\ delivered # <<>> /\ handled = SubSeq(delivered, 1, Len(delivered) - 1)
     /\ recv = "handling" \/ stopping

\* The server may forget a request the client never finished handling only
\* because the client was being stopped; it is then the last one taken.
AckedUnhandledOnlyByStop ==
  \A i \in acked : i \in {handled[k] : k \in 1..Len(handled)} \/ (stopping /\ i = Current)

\* While the connection is up no request is left behind unacknowledged: if a
\* later one was taken, all before it were acknowledged.
NoAckSkipped ==
  conn = "open" => \A k \in 1..(Len(delivered) - 1) : delivered[k] \in acked

\* Once stop() has found a receive task, its return is final: no handler
\* runs, no acknowledgement is underway and the socket is down.
StopIsFinal ==
  stopPc = "returned" => RecvEnded /\ ReaderDone /\ KeepaliveDone /\ ConnGone

\* The end of the connection ends run() and both tasks of the socket, also when
\* close() raises at the first of them.
Over == RunEnded /\ ReaderDone /\ KeepaliveDone
LossEndsRun == Connected /\ ConnGone ~> Over

\* A stop() that found a receive task ends, and with it run() and both tasks,
\* although the two close the socket at once and the server says nothing.
StopEndsRun == stopPc = "awaitRecv" ~> StopEnded /\ Over
=============================================================================
