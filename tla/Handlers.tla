------------------------------ MODULE Handlers ------------------------------
(***************************************************************************)
(* HandlerRegistry of handlers.py: handlers registered per event class,    *)
(* and the dispatch of one event to all that match, which starts one task  *)
(* per registration (asyncio.gather) and goes on when all have ended.      *)
(*                                                                         *)
(* A handler may suspend, fail, and register or unregister handlers while  *)
(* it runs, as any other task may.  The caller of dispatch is elsewhere    *)
(* (Delivery): it starts a dispatch with StartDispatch, and goes on once   *)
(* Gathered, with another or with EndDispatch.                             *)
(***************************************************************************)
EXTENDS Naturals, Sequences, SequencesExt

CONSTANTS
  Handler,     \* the handlers of the application
  Registered,  \* what it has registered when it starts: class -> sequence
  Patience     \* bound: registrations and removals while a process runs

EventClass == {"TextMessage", "GroupTextMessage", "Receipt", "Typing", "SelfSent",
               "UnknownMessage", "DecryptionError"}
Classes == EventClass \cup {"Event"}

ASSUME HandlersConstants ==
  /\ Registered \in [Classes -> Seq(Handler)]
  /\ Patience \in Nat

VARIABLES
  byType,       \* _by_type
  current,      \* the event being dispatched: its class, and how many follow it
  tasks,        \* gather's tasks, in the order they were created
  interrupted,  \* the dispatch has been cancelled
  due,          \* history: how often each handler is to be called for it
  patience

handlersVars == <<byType, current, tasks, interrupted, due, patience>>

Idle == [class |-> "none", left |-> 0]

HandlersInit ==
  /\ byType = Registered /\ current = Idle /\ tasks = <<>> /\ interrupted = FALSE
  /\ due = [h \in Handler |-> 0] /\ patience = Patience

-----------------------------------------------------------------------------
(* on() and off(), by a handler.  Between two dispatches they would be as if *)
(* a handler of the one before had done it, or as if Registered were another. *)

HandlerRuns == \E i \in 1..Len(tasks) : tasks[i].state = "running"

Register(c, h) ==
  /\ HandlerRuns /\ patience > 0 /\ patience' = patience - 1
  /\ byType' = [byType EXCEPT ![c] = Append(@, h)]
  /\ UNCHANGED <<current, tasks, interrupted, due>>

\* list.remove: the first of several registrations; none is no error.
Unregister(c, h) ==
  /\ HandlerRuns /\ patience > 0 /\ patience' = patience - 1
  /\ byType' = [byType EXCEPT ![c] = IF Contains(@, h) THEN RemoveFirst(@, h) ELSE @]
  /\ UNCHANGED <<current, tasks, interrupted, due>>

-----------------------------------------------------------------------------
(* dispatch().                                                              *)

\* type(event).__mro__ without object.
Mro(c) == <<c, "Event">>

Matching(c) == FlattenSeq([i \in 1..Len(Mro(c)) |-> byType[Mro(c)[i]]])

\* A handler is due once for each of its registrations that covers the event.
DueFor(c, h) ==
  LET times(k) == Cardinality({i \in 1..Len(byType[k]) : byType[k][i] = h})
  IN  times(c) + times("Event")

\* The list is copied and all tasks are created before any of them runs.
StartDispatch(c, left) ==
  /\ current' = [class |-> c, left |-> left]
  /\ tasks' = [i \in 1..Len(Matching(c)) |-> [handler |-> Matching(c)[i], state |-> "ready"]]
  /\ due' = [h \in Handler |-> DueFor(c, h)]
  /\ UNCHANGED <<byType, interrupted, patience>>

\* The loop starts tasks in the order of their creation.  A plain function, or
\* a coroutine that never suspends, is over with its first step.  A task that
\* has ended returned or raised: gather treats both alike.
TaskStarts ==
  \E i \in 1..Len(tasks) :
    /\ tasks[i].state = "ready" /\ \A j \in 1..(i - 1) : tasks[j].state # "ready"
    /\ \E s \in IF interrupted THEN {"skipped"} ELSE {"running", "ended"} :
         tasks' = [tasks EXCEPT ![i].state = s]
    /\ UNCHANGED <<byType, current, interrupted, due, patience>>

TaskEnds ==
  \E i \in 1..Len(tasks) :
    /\ tasks[i].state = "running"
    /\ tasks' = [tasks EXCEPT ![i].state = "ended"]
    /\ UNCHANGED <<byType, current, interrupted, due, patience>>

TaskEnded(i) == tasks[i].state \in {"ended", "skipped"}

\* Fault: gather without return_exceptions ends at the first exception, and
\* any task that has ended may have raised one.
GatheredOrFailed ==
  \/ \A i \in 1..Len(tasks) : TaskEnded(i)
  \/ \E i \in 1..Len(tasks) : tasks[i].state = "ended"

\* gather is done; exceptions are logged, and dispatch returns.
Gathered == \A i \in 1..Len(tasks) : TaskEnded(i)

\* Cancelling the caller cancels every task that has not ended.
Interrupt ==
  /\ interrupted' = (current # Idle)
  /\ UNCHANGED <<byType, current, tasks, due, patience>>

EndDispatch ==
  /\ current' = Idle /\ tasks' = <<>> /\ interrupted' = FALSE
  /\ due' = [h \in Handler |-> 0]
  /\ UNCHANGED <<byType, patience>>

\* A new process, with the registrations its program makes.
ForgetHandlers ==
  /\ byType' = Registered /\ current' = Idle /\ tasks' = <<>> /\ interrupted' = FALSE
  /\ due' = [h \in Handler |-> 0] /\ patience' = Patience

HandlersTypeOK ==
  /\ byType \in [Classes -> Seq(Handler)]
  /\ current \in [class : EventClass \cup {"none"}, left : Nat]
  /\ tasks \in Seq([handler : Handler,
                    state : {"ready", "running", "ended", "skipped"}])
  /\ interrupted \in BOOLEAN
  /\ due \in [Handler -> Nat] /\ patience \in 0..Patience
=============================================================================
