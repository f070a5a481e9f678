------------------------------ MODULE Delivery ------------------------------
(***************************************************************************)
(* What becomes of a message sent to this device: the server keeps it      *)
(* until it is acknowledged; run_receive_loop of receive.py decrypts it,   *)
(* turns it into events and dispatches them (Handlers), then acknowledges. *)
(* In between the connection may be lost, the client stopped, the session  *)
(* saved, the process killed and started again from its file.              *)
(*                                                                         *)
(* One peer with one device writes, and this device to it.  A chain is     *)
(* what libsignal derives message keys from: the first of a session the    *)
(* peer begins is opened by its prekey messages, every other one answers a *)
(* ratchet key this device generated, to open a session itself or to       *)
(* answer in one.                                                          *)
(* The ratchet is libsignal's, the queue the server's: both are external,  *)
(* taken from how the code uses them.  Left out: a peer that keeps two     *)
(* sessions and answers in the older one, and a send under way at a kill.  *)
(***************************************************************************)
EXTENDS Handlers, FiniteSets

CONSTANTS
  Envelopes,   \* kinds of envelope the peer or the server may send
  Touched,     \* registrations that change while the program runs
  MaxMail,     \* bound: messages
  MaxResets,   \* bound: sessions the peer begins anew
  MaxCrashes   \* bound: kills

Part == {"TextMessage", "GroupTextMessage", "Receipt", "Typing", "SelfSent",
         "badDestination", "garbage"}

EnvelopeKind ==
  [type : {"message", "receipt", "other"}, sealed : BOOLEAN,
   source : {"given", "missing", "bad"}, parts : SUBSET Part]

ASSUME DeliveryConstants ==
  /\ Envelopes \subseteq EnvelopeKind /\ Touched \subseteq Classes \X Handler
  /\ MaxMail \in Nat /\ MaxResets \in Nat /\ MaxCrashes \in Nat

VARIABLES
  peer,      \* its identity key, the chain it writes on, whether with prekeys,
             \* and the last session of ours it has taken up
  made,      \* chains so far
  mail,      \* all messages sent
  queue,     \* indices of those the server holds
  conn,      \* the connection is up
  inbox,     \* requests waiting in the client
  pc,        \* the receive loop
  msg,       \* the message it handles, and how its decryption went
  events,    \* events of the message not dispatched yet
  stopping,  \* stop() was called
  store, saved,  \* the session in memory and in the file
  resets, crashes,
  reads,     \* history: how often each message was decrypted, but for what a kill undid
  settled,   \* history: messages all of whose events were dispatched, or kept
             \* from it by a stop, by a kill or by what they contain
  lost       \* history: chains whose keys a kill destroyed

world     == <<peer, made, mail, resets>>
network   == <<queue, conn, inbox>>
loop      == <<pc, msg, events, stopping>>
session   == <<store, saved>>
histories == <<reads, settled, lost>>
vars == <<world, network, loop, session, crashes, histories, handlersVars>>

NoMsg == [id |-> 0, how |-> "none"]
NoReply == [on |-> 0, chain |-> 0]

\* known: the pinned identity, 0 for none; chains: those whose ratchet key we
\* generated; reply: the newest of them and the chain it answers, 0 if it opens
\* a session; seen: the message keys used.
Linked == [known |-> 0, chains |-> {}, reply |-> NoReply, seen |-> {}]

Up == pc # "down"

Init ==
  /\ peer = [ident |-> 1, chain |-> 1, prekey |-> TRUE, took |-> 0] /\ made = 1
  /\ mail = <<>> /\ queue = {} /\ conn = FALSE /\ inbox = <<>>
  /\ pc = "down" /\ msg = NoMsg /\ events = <<>> /\ stopping = FALSE
  /\ store = Linked /\ saved = Linked /\ resets = 0 /\ crashes = 0
  /\ reads = [i \in 1..MaxMail |-> 0]
  /\ settled = {} /\ lost = {}
  /\ HandlersInit

-----------------------------------------------------------------------------
(* The peer and the server.                                                 *)

\* Bound: MaxMail messages.  What becomes of the peer after the last of them is
\* left out, as no message would carry it.
MayWrite == Len(mail) < MaxMail

PeerSends(k) ==
  /\ MayWrite
  /\ mail' = Append(mail, [kind |-> k, ident |-> peer.ident, chain |-> peer.chain,
                           prekey |-> peer.prekey])
  /\ queue' = queue \cup {Len(mail) + 1}
  /\ UNCHANGED <<peer, made, resets, conn, inbox, loop, session, crashes, histories,
                 handlersVars>>

\* It loses its session, or all it has, and begins another.
PeerBegins(ident) ==
  /\ MayWrite /\ (mail # <<>> \/ made > 1)
  /\ resets < MaxResets /\ resets' = resets + 1
  /\ made' = made + 1
  /\ peer' = [ident |-> ident, chain |-> made + 1, prekey |-> TRUE, took |-> 0]
  /\ UNCHANGED <<mail, network, loop, session, crashes, histories, handlersVars>>

\* This device's first send to the peer: there is no session to encrypt in, so
\* the bundle, which may have been fetched before the peer began anew, opens one
\* and pins its identity.
SendOpens ==
  /\ Up /\ store.chains = {}
  /\ \E ident \in 1..peer.ident :
       /\ store.known \in {0, ident}
       /\ store' = [store EXCEPT !.known = ident, !.chains = {made + 1},
                                 !.reply = [on |-> 0, chain |-> made + 1]]
  /\ made' = made + 1
  /\ UNCHANGED <<peer, mail, resets, network, loop, saved, crashes, histories, handlersVars>>

\* A message of this device reaches the peer, who writes with its ratchet key
\* from then on: in a session this device opened, if it has not taken that up
\* and is still who the bundle was of; or on the chain that was answered.
Reply ==
  /\ MayWrite /\ Up /\ store.reply # NoReply
  /\ \/ /\ store.reply.on = 0 /\ store.known = peer.ident /\ peer.took # store.reply.chain
        /\ peer' = [peer EXCEPT !.chain = store.reply.chain, !.prekey = FALSE,
                                !.took = store.reply.chain]
     \/ /\ store.reply.on = peer.chain
        /\ peer' = [peer EXCEPT !.chain = store.reply.chain, !.prekey = FALSE]
  /\ UNCHANGED <<made, mail, resets, network, loop, session, crashes, histories, handlersVars>>

\* Requests with the client: pushed on this connection, not acknowledged yet.
InHand(i) == i = msg.id \/ \E j \in DOMAIN inbox : inbox[j] = i

\* The server pushes what it holds, in order, on each connection anew.
ServerPush ==
  /\ conn /\ \E i \in queue :
       /\ ~InHand(i) /\ \A j \in queue : j < i => InHand(j)
       /\ inbox' = Append(inbox, i)
  /\ UNCHANGED <<world, queue, conn, loop, session, crashes, histories, handlersVars>>

ConnDrops ==
  /\ conn /\ conn' = FALSE
  /\ UNCHANGED <<world, queue, inbox, loop, session, crashes, histories, handlersVars>>

-----------------------------------------------------------------------------
(* Decryption: SignalStore of lib.rs, on libsignal.                         *)

IsDuplicate(i) == i \in store.seen

Decrypts(i) ==
  LET m == mail[i] IN
    IF store.known \notin {0, m.ident} THEN "untrusted"
    ELSE IF ~m.prekey /\ m.chain \notin store.chains THEN "nosession"
    ELSE IF IsDuplicate(i) THEN "duplicate" ELSE "read"

\* The first message read on a chain makes the next ratchet key.
Advanced(i) ==
  LET m == mail[i]
      new == \A j \in store.seen : mail[j].chain # m.chain
  IN  [known |-> m.ident, seen |-> store.seen \cup {i},
       chains |-> IF new THEN store.chains \cup {made + 1} ELSE store.chains,
       reply |-> IF new THEN [on |-> m.chain, chain |-> made + 1] ELSE store.reply]

-----------------------------------------------------------------------------
(* _dispatch_envelope and _events_from_content: an envelope's events.       *)

\* ServiceId.parse raises out of _dispatch_envelope.
How(i) ==
  LET k == mail[i].kind IN
    IF k.source = "bad" THEN "rejected"
    ELSE IF k.type # "message" THEN "plain"
    ELSE IF ~k.sealed /\ k.source = "missing" THEN "nosource" ELSE Decrypts(i)

PlainEvents(k) ==
  IF k.type = "other" THEN <<"UnknownMessage">>
  ELSE IF k.source = "given" THEN <<"Receipt">> ELSE <<>>

\* A destination that does not parse raises, and takes the other events along.
ContentEvents(parts) ==
  LET one(c) == IF c \in parts THEN <<c>> ELSE <<>>
      found  == one("TextMessage") \o one("GroupTextMessage") \o one("Receipt")
                  \o one("Typing") \o one("SelfSent")
  IN  IF "garbage" \in parts THEN <<"DecryptionError">>
      ELSE IF "badDestination" \in parts THEN <<>>
      ELSE IF found = <<>> THEN <<"UnknownMessage">> ELSE found

EventsOf(i, how) ==
  CASE how = "rejected" -> <<>>
    [] how = "plain"    -> PlainEvents(mail[i].kind)
    [] how = "read"     -> ContentEvents(mail[i].kind.parts)
    [] OTHER            -> <<"DecryptionError">>

-----------------------------------------------------------------------------
(* run_receive_loop.                                                        *)

\* Fault: a request is acknowledged as it is taken.
TakenAcked(how) ==
  /\ msg' = [id |-> Head(inbox), how |-> how] /\ inbox' = Tail(inbox)
  /\ queue' = queue \ {Head(inbox)}

Taken(how) ==
  /\ msg' = [id |-> Head(inbox), how |-> how] /\ inbox' = Tail(inbox)
  /\ UNCHANGED queue

\* The loop takes a request, decrypts it and starts the first dispatch without
\* a wait in between; a request without events is done at once.
Take ==
  /\ pc = "get" /\ inbox # <<>> /\ ~stopping
  /\ LET i == Head(inbox)
         how == How(i)
         found == EventsOf(i, how)
     IN  /\ Taken(how)
         /\ store' = IF how = "read" THEN Advanced(i) ELSE store
         /\ made' = made + IF how = "read" /\ Advanced(i).chains # store.chains THEN 1 ELSE 0
         /\ reads' = [reads EXCEPT ![i] = @ + IF how = "read" THEN 1 ELSE 0]
         /\ \/ /\ found = <<>>
               /\ pc' = "ack" /\ settled' = settled \cup {i}
               /\ UNCHANGED <<events, handlersVars>>
            \/ /\ found # <<>>
               /\ pc' = "dispatch" /\ events' = Tail(found)
               /\ StartDispatch(Head(found), Len(found) - 1)
               /\ UNCHANGED settled
  /\ UNCHANGED <<peer, mail, resets, conn, stopping, saved, crashes, lost>>

\* dispatch returns, and the next event's begins.
NextEvent ==
  /\ pc = "dispatch" /\ Gathered /\ ~interrupted /\ events # <<>>
  /\ events' = Tail(events) /\ StartDispatch(Head(events), Len(events) - 1)
  /\ UNCHANGED <<world, network, pc, msg, stopping, session, crashes, histories>>

\* The last one returns.  A message seen before counts as it did then.
AllDispatched ==
  /\ pc = "dispatch" /\ Gathered /\ ~interrupted /\ events = <<>>
  /\ pc' = "ack" /\ EndDispatch
  /\ settled' = IF msg.how = "duplicate" THEN settled ELSE settled \cup {msg.id}
  /\ UNCHANGED <<world, network, msg, events, stopping, session, crashes, reads, lost>>

\* Fault: the events of a cancelled message wait for the next one.
DispatchCancelledKeeping ==
  /\ pc = "dispatch" /\ Gathered /\ interrupted
  /\ pc' = "ack" /\ EndDispatch
  /\ settled' = settled \cup {msg.id}
  /\ UNCHANGED <<world, network, msg, events, stopping, session, crashes, reads, lost>>

\* A cancelled dispatch raises when its handlers have ended.
DispatchCancelled ==
  /\ pc = "dispatch" /\ Gathered /\ interrupted
  /\ pc' = "ack" /\ events' = <<>> /\ EndDispatch
  /\ settled' = settled \cup {msg.id}
  /\ UNCHANGED <<world, network, msg, stopping, session, crashes, reads, lost>>

\* The `finally'.  A lost connection, or a stop at this point, leaves the
\* message with the server.
Ack ==
  /\ pc = "ack" /\ pc' = "get" /\ msg' = NoMsg
  /\ \/ conn /\ queue' = queue \ {msg.id}
     \/ (~conn \/ stopping) /\ UNCHANGED queue
  /\ UNCHANGED <<world, conn, inbox, events, stopping, session, crashes, histories,
                 handlersVars>>

\* The iteration is over, or cancelled; run() closes the socket and returns.
LoopEnds ==
  /\ pc = "get" /\ ((~conn /\ inbox = <<>>) \/ stopping)
  /\ pc' = "offline" /\ conn' = FALSE /\ inbox' = <<>> /\ stopping' = FALSE
  /\ UNCHANGED <<world, queue, msg, events, session, crashes, histories,
                 handlersVars>>

-----------------------------------------------------------------------------
(* The client: run(), stop(), save_session() and the process around them.   *)

Connects == conn' = TRUE /\ pc' = "get"

\* `sigsig listen' starts: the session file is loaded.
Load ==
  /\ pc = "down" /\ Connects /\ store' = saved
  /\ UNCHANGED <<world, queue, inbox, msg, events, stopping, saved, crashes, histories,
                 handlersVars>>

\* Fault: every run() begins with the session file.
ReconnectReloading ==
  /\ pc = "offline" /\ Connects /\ store' = saved
  /\ UNCHANGED <<world, queue, inbox, msg, events, stopping, saved, crashes, histories,
                 handlersVars>>

\* run() once more, with the store of before.
Reconnect ==
  /\ pc = "offline" /\ Connects
  /\ UNCHANGED <<world, queue, inbox, msg, events, stopping, session, crashes, histories,
                 handlersVars>>

Stop ==
  /\ pc \in {"get", "dispatch", "ack"} /\ ~stopping /\ stopping' = TRUE
  /\ Interrupt
  /\ UNCHANGED <<world, network, pc, msg, events, session, crashes, histories>>

Save ==
  /\ Up /\ saved' = store
  /\ UNCHANGED <<world, network, loop, store, crashes, histories, handlersVars>>

\* Fault: leaving the program does not save.
ExitUnsaved ==
  /\ pc = "offline" /\ pc' = "down" /\ ForgetHandlers
  /\ UNCHANGED <<world, network, msg, events, stopping, session, crashes, histories>>

\* The `finally' of listen, after run() has ended: the session is saved.
Exit ==
  /\ pc = "offline" /\ pc' = "down" /\ saved' = store /\ ForgetHandlers
  /\ UNCHANGED <<world, network, msg, events, stopping, store, crashes, histories>>

\* What was not saved is undone.  A message whose decryption was saved, but
\* not its handling, will be a duplicate.
Crash ==
  /\ Up /\ crashes < MaxCrashes /\ crashes' = crashes + 1
  /\ reads' = [i \in DOMAIN reads |-> IF i \in store.seen \ saved.seen THEN 0 ELSE reads[i]]
  /\ lost' = lost \cup (store.chains \ saved.chains)
  /\ settled' = IF pc = "dispatch" /\ msg.id \in saved.seen THEN settled \cup {msg.id}
                                                            ELSE settled
  /\ pc' = "down" /\ conn' = FALSE /\ inbox' = <<>> /\ msg' = NoMsg /\ events' = <<>>
  /\ stopping' = FALSE /\ ForgetHandlers
  /\ UNCHANGED <<world, queue, session>>

-----------------------------------------------------------------------------
HandlerStep ==
  /\ \/ TaskStarts \/ TaskEnds
     \/ \E t \in Touched : Register(t[1], t[2]) \/ Unregister(t[1], t[2])
  /\ UNCHANGED <<world, network, loop, session, crashes, histories>>

LoopStep == Take \/ NextEvent \/ AllDispatched \/ DispatchCancelled \/ Ack \/ LoopEnds

Next ==
  \/ LoopStep \/ HandlerStep
  \/ \E k \in Envelopes : PeerSends(k)
  \/ PeerBegins(peer.ident) \/ PeerBegins(peer.ident + 1) \/ SendOpens \/ Reply
  \/ ServerPush \/ ConnDrops
  \/ Load \/ Reconnect \/ Stop \/ Save \/ Exit \/ Crash

Spec == Init /\ [][Next]_vars

-----------------------------------------------------------------------------
(* Types.                                                                   *)
Sessions ==
  [known : Nat, chains : SUBSET (1..made), reply : [on : 0..made, chain : 0..made],
   seen : SUBSET (1..MaxMail)]

DeliveryTypeOK ==
  /\ HandlersTypeOK
  /\ peer \in [ident : Nat \ {0}, chain : 1..made, prekey : BOOLEAN, took : 0..made]
  /\ mail \in Seq([kind : Envelopes, ident : Nat \ {0}, chain : 1..made, prekey : BOOLEAN])
  /\ queue \subseteq DOMAIN mail /\ inbox \in Seq(DOMAIN mail)
  /\ pc \in {"down", "get", "dispatch", "ack", "offline"}
  /\ (pc \in {"dispatch", "ack"}) = (msg # NoMsg) /\ (pc = "dispatch") = (current # Idle)
  /\ current.left = Len(events) /\ (interrupted => stopping)
  /\ store \in Sessions /\ saved \in Sessions

\* receive.py decrypts in memory, the server repeats what was not acknowledged:
\* a message is decrypted once, and again only if a kill undid that.  (A plain
\* receipt, which is not decrypted, is dispatched again whenever its
\* acknowledgement did not get through.)
RepeatOnlyAfterRollback == \A i \in DOMAIN mail : reads[i] <= 1

\* A message the server has deleted was dispatched to its last event, unless a
\* stop cut it short, its content could not be made into events, or the process
\* died while handling it with its decryption already saved.
ForgottenOnlyHandled == DOMAIN mail \ queue \subseteq settled

\* What cannot be read was sent to a ratchet key that a kill destroyed, or
\* comes from another identity than the pinned one after the peer changed its
\* own.  No order of stops, saves, restarts, lost connections and sends of this
\* device, not even one to a bundle out of date, makes a message unreadable.
UnreadableOnlyForCause ==
  /\ msg.how = "nosession" => mail[msg.id].chain \in lost
  /\ msg.how = "untrusted" => peer.ident > 1

\* dispatch of handlers.py: when an event gives way to the next, each handler
\* has been called to its end once per registration it had when the event came,
\* whatever other handlers raised, registered or removed meanwhile.
CalledToEnd(h) ==
  Cardinality({i \in 1..Len(tasks) : tasks[i].handler = h /\ tasks[i].state = "ended"})

DispatchIsComplete ==
  [][pc = "dispatch" /\ current' # current /\ ~interrupted /\ Up'
       => \A h \in Handler : CalledToEnd(h) = due[h]]_vars
=============================================================================
