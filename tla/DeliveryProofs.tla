--------------------------- MODULE DeliveryProofs ---------------------------
(* Delivery for every set of envelopes and handlers, and any number of       *)
(* messages, resets, stops, kills and lost connections: its types, and what *)
(* becomes of each message.                                                 *)
EXTENDS Delivery, HandlersProofs

-----------------------------------------------------------------------------
(* The session that counts: the one in memory while the process runs, the   *)
(* one in the file once it is gone.                                         *)
Held == IF Up THEN store ELSE saved

Outcomes == {"rejected", "plain", "nosource", "untrusted", "nosession", "duplicate", "read"}

LoopInv ==
  /\ made \in Nat /\ Len(mail) <= MaxMail /\ resets \in Nat /\ crashes \in Nat
  /\ conn \in BOOLEAN /\ stopping \in BOOLEAN
  /\ events \in Seq(EventClass)
  /\ msg # NoMsg => msg \in [id : DOMAIN mail, how : Outcomes]
  /\ reads \in [1..MaxMail -> Nat]

\* A pinned identity is one the peer has had, and so is that of each message; a
\* ratchet key the peer may answer is one this device can decrypt with.
SessionInv(s) ==
  /\ s.known <= peer.ident
  /\ s.reply # NoReply => s.reply.chain \in s.chains

IdentInv == \A i \in DOMAIN mail : mail[i].ident <= peer.ident

\* What was read, and not undone by a kill, is known to the session.
ReadInv == \A i \in 1..MaxMail : reads[i] <= 1 /\ (reads[i] > 0 => i \in Held.seen)

\* Whoever writes without prekeys answers a key that is still held or destroyed.
ChainInv ==
  /\ ~peer.prekey => peer.chain \in Held.chains \cup lost
  /\ \A i \in DOMAIN mail : ~mail[i].prekey => mail[i].chain \in Held.chains \cup lost

\* What was decrypted has been dealt with, or is being dealt with.
SettledInv ==
  /\ \A i \in Held.seen \cup saved.seen : i \in settled \/ (pc = "dispatch" /\ i = msg.id)
  /\ pc = "ack" \/ (pc = "dispatch" /\ msg.how = "duplicate") => msg.id \in settled
  /\ ForgottenOnlyHandled

DeliveryInv ==
  /\ HandlersInv /\ DeliveryTypeOK /\ LoopInv /\ SessionInv(store) /\ SessionInv(saved)
  /\ IdentInv /\ ReadInv /\ ChainInv /\ SettledInv /\ UnreadableOnlyForCause

-----------------------------------------------------------------------------
(* Operators.                                                               *)

LEMMA SeqGrows == ASSUME NEW S, NEW T, S \subseteq T, NEW s \in Seq(S) PROVE s \in Seq(T)
<1>1. Len(s) \in Nat /\ s \in [1..Len(s) -> S]
  BY LenProperties
<1>2. s \in [1..Len(s) -> T]
  BY <1>1
<1> QED
  BY <1>1, <1>2, SequenceOfLength

LEMMA HowOutcome == ASSUME NEW i PROVE How(i) \in Outcomes
BY DEF How, Decrypts, Outcomes

\* What is done with a request, whatever it contains, is a sequence of events;
\* one that could not be decrypted has one.
LEMMA EventsOfType ==
  ASSUME NEW i, NEW how
  PROVE  EventsOf(i, how) \in Seq(EventClass) /\ (how = "duplicate" => EventsOf(i, how) # <<>>)
<1> DEFINE parts == mail[i].kind.parts
           one(c) == IF c \in parts THEN <<c>> ELSE <<>>
           found == one("TextMessage") \o one("GroupTextMessage") \o one("Receipt")
                      \o one("Typing") \o one("SelfSent")
<1>1. \A c \in EventClass : <<c>> \in Seq(EventClass) /\ <<c>> # <<>>
  OBVIOUS
<1>2. <<>> \in Seq(EventClass)
  BY EmptySeq
<1>3. \A c \in EventClass : one(c) \in Seq(EventClass)
  BY <1>1, <1>2
<1>4. found \in Seq(EventClass)
  <2>1. /\ one("TextMessage") \in Seq(EventClass) /\ one("GroupTextMessage") \in Seq(EventClass)
        /\ one("Receipt") \in Seq(EventClass) /\ one("Typing") \in Seq(EventClass)
        /\ one("SelfSent") \in Seq(EventClass)
    BY <1>3 DEF EventClass
  <2> HIDE DEF one
  <2> QED
    BY <2>1, ConcatProperties
<1>5. ContentEvents(parts) \in Seq(EventClass)
  <2>1. ContentEvents(parts) = IF "garbage" \in parts THEN <<"DecryptionError">>
                               ELSE IF "badDestination" \in parts THEN <<>>
                               ELSE IF found = <<>> THEN <<"UnknownMessage">> ELSE found
    BY DEF ContentEvents
  <2>2. "DecryptionError" \in EventClass /\ "UnknownMessage" \in EventClass
    BY DEF EventClass
  <2> HIDE DEF found, parts
  <2> QED
    BY <1>1, <1>2, <1>4, <2>1, <2>2
<1>6. PlainEvents(mail[i].kind) \in Seq(EventClass)
  <2>1. "Receipt" \in EventClass /\ "UnknownMessage" \in EventClass
    BY DEF EventClass
  <2> QED
    BY <1>1, <1>2, <2>1 DEF PlainEvents
<1>7. "DecryptionError" \in EventClass
  BY DEF EventClass
<1>8. EventsOf(i, how) = CASE how = "rejected" -> <<>>
                           [] how = "plain"    -> PlainEvents(mail[i].kind)
                           [] how = "read"     -> ContentEvents(parts)
                           [] OTHER            -> <<"DecryptionError">>
  BY DEF EventsOf
<1> HIDE DEF parts
<1> QED
  BY <1>1, <1>2, <1>5, <1>6, <1>7, <1>8

-----------------------------------------------------------------------------
(* The dispatch, inside Delivery.                                           *)

LEMMA TakenRequest ==
  ASSUME DeliveryTypeOK, Take
  PROVE  /\ Head(inbox) \in DOMAIN mail /\ Tail(inbox) \in Seq(DOMAIN mail)
         /\ msg = NoMsg /\ ~interrupted
<1>1. inbox \in Seq(DOMAIN mail) /\ inbox # <<>> /\ pc = "get" /\ ~stopping
  BY DEF DeliveryTypeOK, Take
<1>2. msg = NoMsg /\ ~interrupted
  BY <1>1 DEF DeliveryTypeOK
<1> QED
  BY <1>1, <1>2, HeadTailProperties, Zenon

LEMMA TakenDispatch ==
  ASSUME DeliveryTypeOK, Take, pc' = "dispatch"
  PROVE  \E c \in EventClass, left \in Nat :
           /\ StartDispatch(c, left) /\ events' \in Seq(EventClass) /\ left = Len(events')
<1> DEFINE found == EventsOf(Head(inbox), How(Head(inbox)))
<1>1. found \in Seq(EventClass)
  BY EventsOfType
<1>2. found # <<>> /\ events' = Tail(found) /\ StartDispatch(Head(found), Len(found) - 1)
  BY DEF Take
<1> HIDE DEF found
<1>3. Head(found) \in EventClass /\ Tail(found) \in Seq(EventClass) /\ Len(Tail(found)) = Len(found) - 1
  BY <1>1, <1>2, HeadTailProperties, Zenon
<1>4. Len(found) - 1 \in Nat
  BY <1>3, LenProperties, Zenon
<1> QED
  BY <1>2, <1>3, <1>4, Zenon

LEMMA NextDispatch ==
  ASSUME events \in Seq(EventClass), NextEvent
  PROVE  \E c \in EventClass, left \in Nat :
           /\ StartDispatch(c, left) /\ events' \in Seq(EventClass) /\ left = Len(events')
<1>1. events # <<>> /\ events' = Tail(events) /\ StartDispatch(Head(events), Len(events) - 1)
  BY DEF NextEvent
<1>2. Head(events) \in EventClass /\ Tail(events) \in Seq(EventClass) /\ Len(Tail(events)) = Len(events) - 1
  BY <1>1, HeadTailProperties, Zenon
<1>3. Len(events) - 1 \in Nat
  BY <1>2, LenProperties, Zenon
<1> QED
  BY <1>1, <1>2, <1>3, Zenon

LEMMA HandlersKept == ASSUME HandlersInv, UNCHANGED handlersVars PROVE HandlersInv'
BY DEF handlersVars, HandlersInv, HandlersTypeOK, CalledInv, SkippedInv

LEMMA HandlersNext ==
  ASSUME HandlersInv, DeliveryTypeOK, LoopInv, [Next]_vars PROVE HandlersInv'
<1>1. CASE Take
  <2>1. CASE pc' = "ack"
    BY <1>1, <2>1, HandlersKept DEF Take, handlersVars
  <2>2. CASE pc' = "dispatch"
    BY <1>1, <2>2, TakenRequest, TakenDispatch, StartDispatchInv
  <2> QED
    BY <1>1, <2>1, <2>2 DEF Take
<1>2. CASE NextEvent
  <2>1. ~interrupted /\ events \in Seq(EventClass)
    BY <1>2 DEF NextEvent, LoopInv
  <2> QED
    BY <1>2, <2>1, NextDispatch, StartDispatchInv
<1>3. CASE AllDispatched \/ DispatchCancelled \/ Exit \/ Crash
  BY <1>3, EndDispatchInv DEF AllDispatched, DispatchCancelled, Exit, Crash
<1>4. CASE Stop
  BY <1>4, InterruptInv DEF Stop
<1>5. CASE HandlerStep
  <2>1. \A t \in Touched : t[1] \in Classes /\ t[2] \in Handler
    BY DeliveryConstants
  <2> QED
    BY <1>5, <2>1, TaskStepInv, RegisterInv DEF HandlerStep
<1>6. CASE Ack \/ LoopEnds \/ PeerBegins(peer.ident) \/ PeerBegins(peer.ident + 1) \/ SendOpens \/ Reply
           \/ ServerPush \/ ConnDrops \/ Load \/ Reconnect \/ Save \/ \E k \in Envelopes : PeerSends(k)
  BY <1>6, HandlersKept DEF Ack, LoopEnds, PeerBegins, SendOpens, Reply, ServerPush, ConnDrops, Load,
     Reconnect, Save, PeerSends
<1>7. CASE UNCHANGED vars
  BY <1>7, HandlersKept DEF vars
<1> QED
  BY <1>1, <1>2, <1>3, <1>4, <1>5, <1>6, <1>7 DEF Next, LoopStep

-----------------------------------------------------------------------------
(* Types.                                                                   *)

Letters == [kind : Envelopes, ident : Nat \ {0}, chain : 1..made, prekey : BOOLEAN]

TypesInv == HandlersInv /\ DeliveryTypeOK /\ LoopInv

LEMMA TypesInit == Init => TypesInv
<1> SUFFICES ASSUME Init PROVE TypesInv
  OBVIOUS
<1>1. HandlersInv
  BY HandlersInitInv DEF Init
<1>2. <<>> \in Seq(EventClass) /\ <<>> \in Seq(Letters) /\ <<>> \in Seq(1..0) /\ Len(<<>>) = 0
  BY EmptySeq
<1>3. mail = <<>> /\ inbox = <<>> /\ events = <<>> /\ DOMAIN mail = 1..0
  BY DEF Init
<1>4. Linked \in Sessions /\ made = 1
  BY DEF Init, Linked, Sessions, NoReply
<1>5. current = Idle /\ ~interrupted /\ pc = "down" /\ msg = NoMsg /\ current.left = 0
  BY DEF Init, HandlersInit, Idle
<1>6. peer \in [ident : Nat \ {0}, chain : 1..made, prekey : BOOLEAN, took : 0..made]
  BY <1>4 DEF Init
<1>7. DeliveryTypeOK
  BY <1>1, <1>2, <1>3, <1>4, <1>5, <1>6 DEF Init, HandlersInv, DeliveryTypeOK, Letters
<1>8. LoopInv
  <2>1. made \in Nat /\ Len(mail) <= MaxMail /\ resets \in Nat /\ crashes \in Nat
    BY <1>2, <1>3, <1>4, DeliveryConstants DEF Init
  <2>2. reads \in [1..MaxMail -> Nat] /\ events \in Seq(EventClass)
    BY <1>2, <1>3 DEF Init
  <2> QED
    BY <1>5, <2>1, <2>2 DEF Init, LoopInv
<1> QED
  BY <1>1, <1>7, <1>8 DEF TypesInv

\* A longer mail still has its letters, and more chains change no session.
LEMMA TypesGrow ==
  ASSUME TypesInv, made' \in Nat, made <= made'
  PROVE  /\ peer \in [ident : Nat \ {0}, chain : 1..made', prekey : BOOLEAN, took : 0..made']
         /\ mail \in Seq(Letters') /\ store \in Sessions' /\ saved \in Sessions'
<1>1. made \in Nat /\ 1..made \subseteq 1..made' /\ 0..made \subseteq 0..made'
  BY DEF TypesInv, LoopInv
<1>2. Letters \subseteq Letters' /\ Sessions \subseteq Sessions'
  BY <1>1 DEF Letters, Sessions
<1>3. mail \in Seq(Letters) /\ store \in Sessions /\ saved \in Sessions
  BY DEF TypesInv, DeliveryTypeOK, Letters
<1>4. mail \in Seq(Letters')
  <2> DEFINE A == Letters
             B == Letters'
  <2>1. A \subseteq B /\ mail \in Seq(A)
    BY <1>2, <1>3
  <2> HIDE DEF A, B
  <2>2. mail \in Seq(B)
    BY <2>1, SeqGrows
  <2> QED
    BY <2>2 DEF B
<1> QED
  BY <1>1, <1>2, <1>3, <1>4 DEF TypesInv, DeliveryTypeOK

LEMMA TypesPeerSends ==
  ASSUME TypesInv, HandlersInv', NEW k \in Envelopes, PeerSends(k) PROVE TypesInv'
<1> DEFINE letter == [kind |-> k, ident |-> peer.ident, chain |-> peer.chain, prekey |-> peer.prekey]
<1>1. TypesInv /\ mail' = Append(mail, letter) /\ Len(mail) < MaxMail /\ queue' = queue \cup {Len(mail) + 1}
  BY DEF PeerSends, MayWrite
<1>2. UNCHANGED <<peer, made, resets, conn, inbox, loop, session, crashes, histories, handlersVars>>
  BY DEF PeerSends, MayWrite
<1>3. letter \in Letters /\ mail \in Seq(Letters)
  BY DEF TypesInv, DeliveryTypeOK, Letters
<1> HIDE DEF letter
<1>4. mail' \in Seq(Letters) /\ Len(mail') = Len(mail) + 1 /\ Len(mail) \in Nat
  BY <1>1, <1>3, AppendProperties, LenProperties
<1>5. DOMAIN mail = 1..Len(mail) /\ DOMAIN mail' = 1..(Len(mail) + 1)
  BY <1>3, <1>4, LenProperties
<1>6. DOMAIN mail \subseteq DOMAIN mail' /\ queue' \subseteq DOMAIN mail'
  BY <1>1, <1>4, <1>5 DEF TypesInv, DeliveryTypeOK
<1>7. inbox' \in Seq(DOMAIN mail')
  <2>1. inbox \in Seq(DOMAIN mail) /\ inbox' = inbox
    BY <1>2 DEF TypesInv, DeliveryTypeOK
  <2> QED
    BY <1>6, <2>1, SeqGrows
<1>8. DeliveryTypeOK'
  <2>1. Letters' = Letters /\ Sessions' = Sessions
    BY <1>2 DEF Letters, Sessions
  <2> QED
    BY <1>2, <1>4, <1>6, <1>7, <2>1
       DEF TypesInv, DeliveryTypeOK, Letters, HandlersInv, loop, session, handlersVars
<1>9. LoopInv'
  <2>1. Len(mail') <= MaxMail
    BY <1>1, <1>4, DeliveryConstants
  <2> QED
    BY <1>2, <1>6, <2>1 DEF TypesInv, LoopInv, loop, session, histories
<1> QED
  BY <1>8, <1>9 DEF TypesInv

LEMMA TypesPeer ==
  ASSUME TypesInv, HandlersInv',
         PeerBegins(peer.ident) \/ PeerBegins(peer.ident + 1) \/ Reply, SessionInv(store)
  PROVE  TypesInv'
<1> USE DEF TypesInv
<1>1. UNCHANGED <<mail, network, loop, session, crashes, histories, handlersVars>>
  BY DEF PeerBegins, Reply
<1>2. /\ made \in Nat /\ resets \in Nat
      /\ peer \in [ident : Nat \ {0}, chain : 1..made, prekey : BOOLEAN, took : 0..made]
  BY DEF LoopInv, DeliveryTypeOK
<1>3. made' \in Nat /\ made <= made' /\ resets' \in Nat
  BY <1>2 DEF PeerBegins, Reply
<1>4. peer' \in [ident : Nat \ {0}, chain : 1..made', prekey : BOOLEAN, took : 0..made']
  <2>1. CASE PeerBegins(peer.ident) \/ PeerBegins(peer.ident + 1)
    <3>1. PICK ident \in {peer.ident, peer.ident + 1} : PeerBegins(ident)
      BY <2>1
    <3>2. ident \in Nat \ {0} /\ made + 1 \in 1..(made + 1)
      BY <1>2
    <3>3. made' = made + 1 /\ peer' = [ident |-> ident, chain |-> made + 1, prekey |-> TRUE, took |-> 0]
      BY <3>1 DEF PeerBegins
    <3> QED
      BY <3>2, <3>3
  <2>2. CASE Reply
    <3>1. store.reply.chain \in 1..made
      BY <1>2, <2>2 DEF Reply, SessionInv, DeliveryTypeOK, Sessions
    <3>2. \/ peer' = [peer EXCEPT !.chain = store.reply.chain, !.prekey = FALSE,
                                  !.took = store.reply.chain]
          \/ peer' = [peer EXCEPT !.chain = store.reply.chain, !.prekey = FALSE]
      BY <2>2 DEF Reply
    <3>3. made' = made /\ store.reply.chain \in 0..made
      BY <1>2, <2>2, <3>1 DEF Reply
    <3> QED
      BY <1>2, <3>1, <3>2, <3>3
  <2> QED
    BY <2>1, <2>2
<1>5. mail' \in Seq(Letters') /\ store' \in Sessions' /\ saved' \in Sessions'
  BY <1>1, <1>3, TypesGrow DEF session
<1>6. DeliveryTypeOK'
  BY <1>1, <1>4, <1>5 DEF DeliveryTypeOK, Letters, HandlersInv, network, loop, handlersVars
<1>7. LoopInv'
  BY <1>1, <1>3 DEF LoopInv, network, loop, histories
<1> QED
  BY <1>6, <1>7

LEMMA OpenedType ==
  ASSUME TypesInv, SendOpens
  PROVE  /\ made' = made + 1 /\ made \in Nat /\ store' \in Sessions'
         /\ \E ident \in 1..peer.ident : store' = [known |-> ident, chains |-> {made + 1},
                                  reply |-> [on |-> 0, chain |-> made + 1], seen |-> store.seen]
<1>1. made \in Nat /\ store \in Sessions /\ peer.ident \in Nat /\ made' = made + 1
  BY DEF TypesInv, LoopInv, DeliveryTypeOK, SendOpens
<1>2. PICK ident \in 1..peer.ident :
        store' = [store EXCEPT !.known = ident, !.chains = {made + 1},
                               !.reply = [on |-> 0, chain |-> made + 1]]
  BY DEF SendOpens
<1>3. store' = [known |-> ident, chains |-> {made + 1}, reply |-> [on |-> 0, chain |-> made + 1],
                seen |-> store.seen]
  BY <1>1, <1>2 DEF Sessions
<1>4. store.seen \in SUBSET (1..MaxMail) /\ ident \in Nat /\ {made + 1} \in SUBSET (1..made')
      /\ 0 \in 0..made' /\ made + 1 \in 0..made'
  BY <1>1 DEF Sessions
<1>5. store' \in Sessions'
  BY <1>3, <1>4 DEF Sessions
<1> QED
  BY <1>1, <1>3, <1>5

LEMMA TypesSendOpens == ASSUME TypesInv, HandlersInv', SendOpens PROVE TypesInv'
<1> USE DEF TypesInv
<1>1. UNCHANGED <<peer, mail, resets, network, loop, saved, crashes, histories, handlersVars>>
  BY DEF SendOpens
<1>2. made' = made + 1 /\ made \in Nat /\ store' \in Sessions'
  BY OpenedType
<1>3. made' \in Nat /\ made <= made'
  BY <1>2
<1>4. /\ peer \in [ident : Nat \ {0}, chain : 1..made', prekey : BOOLEAN, took : 0..made']
      /\ mail' \in Seq(Letters') /\ saved' \in Sessions'
  BY <1>1, <1>3, TypesGrow
<1>5. DeliveryTypeOK'
  BY <1>1, <1>2, <1>4 DEF DeliveryTypeOK, Letters, HandlersInv, network, loop, handlersVars
<1>6. LoopInv'
  BY <1>1, <1>3 DEF LoopInv, network, loop, histories
<1> QED
  BY <1>5, <1>6

\* What a step on neither the world nor the session has to keep.
LEMMA TypesLocal ==
  ASSUME TypesInv, HandlersInv', UNCHANGED world, store' \in {store, saved}, saved' \in {store, saved},
         queue' \subseteq queue, inbox' \in Seq(DOMAIN mail), conn' \in BOOLEAN, stopping' \in BOOLEAN,
         pc' \in {"down", "get", "dispatch", "ack", "offline"},
         (pc' \in {"dispatch", "ack"}) = (msg' # NoMsg), (pc' = "dispatch") = (current' # Idle),
         msg' \in {msg, NoMsg}, events' \in Seq(EventClass), current'.left = Len(events'),
         interrupted' => stopping', crashes' \in Nat, reads' \in [1..MaxMail -> Nat]
  PROVE  TypesInv'
<1>1. Letters' = Letters /\ Sessions' = Sessions
  BY DEF Letters, Sessions, world
<1>2. DeliveryTypeOK'
  BY <1>1 DEF TypesInv, DeliveryTypeOK, Letters, HandlersInv, world
<1>3. LoopInv'
  BY DEF TypesInv, LoopInv, world
<1> QED
  BY <1>2, <1>3 DEF TypesInv

LEMMA AdvancedType ==
  ASSUME TypesInv, NEW i \in DOMAIN mail,
         NEW m, m = made + IF Advanced(i).chains # store.chains THEN 1 ELSE 0
  PROVE  /\ m \in Nat /\ made <= m
         /\ Advanced(i) \in [known : Nat, chains : SUBSET (1..m),
                             reply : [on : 0..m, chain : 0..m], seen : SUBSET (1..MaxMail)]
<1>1. /\ made \in Nat /\ store \in Sessions /\ mail \in Seq(Letters) /\ Len(mail) <= MaxMail
      /\ Len(mail) \in Nat /\ i \in 1..Len(mail)
  BY LenProperties DEF TypesInv, LoopInv, DeliveryTypeOK, Letters
<1>2. mail[i] \in Letters /\ i \in 1..MaxMail
  BY <1>1, ElementOfSeq, DeliveryConstants
<1>3. mail[i].ident \in Nat /\ mail[i].chain \in 1..made
  BY <1>2 DEF Letters
<1>4. /\ store.chains \in SUBSET (1..made) /\ store.seen \in SUBSET (1..MaxMail)
      /\ store.reply \in [on : 0..made, chain : 0..made]
  BY <1>1 DEF Sessions
<1> DEFINE new == \A j \in store.seen : mail[j].chain # mail[i].chain
<1>5. CASE new
  <2>1. Advanced(i) = [known |-> mail[i].ident, seen |-> store.seen \cup {i},
                       chains |-> store.chains \cup {made + 1},
                       reply |-> [on |-> mail[i].chain, chain |-> made + 1]]
    BY <1>5 DEF Advanced
  <2>2. Advanced(i).chains = store.chains \cup {made + 1}
    BY <2>1
  <2>3. made + 1 \notin store.chains
    BY <1>1, <1>4
  <2>4. m = made + 1
    BY <2>2, <2>3
  <2> HIDE DEF new
  <2> QED
    BY <1>1, <1>2, <1>3, <1>4, <2>1, <2>4
<1>6. CASE ~new
  <2>1. Advanced(i) = [known |-> mail[i].ident, seen |-> store.seen \cup {i},
                       chains |-> store.chains, reply |-> store.reply]
    BY <1>6 DEF Advanced
  <2>2. m = made
    BY <1>1, <2>1
  <2> HIDE DEF new
  <2> QED
    BY <1>1, <1>2, <1>3, <1>4, <2>1, <2>2
<1> QED
  BY <1>5, <1>6

LEMMA TypesTake == ASSUME TypesInv, HandlersInv', Take PROVE TypesInv'
<1> DEFINE i == Head(inbox)
           how == How(i)
           found == EventsOf(i, how)
<1>1. i \in DOMAIN mail /\ inbox' \in Seq(DOMAIN mail) /\ msg = NoMsg
  BY TakenRequest DEF TypesInv, Take, Taken
<1>2. /\ pc = "get" /\ ~stopping /\ msg' = [id |-> i, how |-> how]
      /\ store' = IF how = "read" THEN Advanced(i) ELSE store
      /\ made' = made + IF how = "read" /\ Advanced(i).chains # store.chains THEN 1 ELSE 0
      /\ reads' = [reads EXCEPT ![i] = @ + IF how = "read" THEN 1 ELSE 0]
      /\ UNCHANGED <<queue, peer, mail, resets, conn, stopping, saved, crashes>>
  BY DEF Take, Taken
<1>3. how \in Outcomes
  BY HowOutcome
<1>5. \/ pc' = "ack" /\ UNCHANGED <<events, handlersVars>>
      \/ pc' = "dispatch" /\ \E c \in EventClass, left \in Nat :
                                StartDispatch(c, left) /\ events' \in Seq(EventClass) /\ left = Len(events')
  BY TakenDispatch DEF TypesInv, Take
<1>6. /\ events' \in Seq(EventClass) /\ current'.left = Len(events') /\ interrupted' = interrupted
      /\ (pc' = "dispatch") = (current' # Idle) /\ pc' \in {"ack", "dispatch"}
  <2>1. CASE pc' = "ack" /\ UNCHANGED <<events, handlersVars>>
    BY <1>2, <2>1 DEF TypesInv, DeliveryTypeOK, LoopInv, handlersVars
  <2>2. ASSUME pc' = "dispatch", NEW c \in EventClass, NEW left \in Nat, StartDispatch(c, left),
               events' \in Seq(EventClass), left = Len(events')
        PROVE  /\ events' \in Seq(EventClass) /\ current'.left = Len(events') /\ interrupted' = interrupted
               /\ (pc' = "dispatch") = (current' # Idle) /\ pc' \in {"ack", "dispatch"}
    <3>1. current' = [class |-> c, left |-> left] /\ interrupted' = interrupted
      BY <2>2 DEF StartDispatch
    <3>2. current' # Idle
      BY <3>1 DEF Idle, EventClass
    <3> QED
      BY <2>2, <3>1, <3>2
  <2> QED
    BY <1>5, <2>1, <2>2
<1> HIDE DEF i, how
<1>7. msg' # NoMsg /\ msg' \in [id : DOMAIN mail, how : Outcomes]
  BY <1>1, <1>2, <1>3 DEF NoMsg, Outcomes
<1>8. made' \in Nat /\ made <= made' /\ store' \in Sessions'
  <2>1. CASE how = "read"
    <3>1. made' = made + IF Advanced(i).chains # store.chains THEN 1 ELSE 0
      BY <1>2, <2>1
    <3>2. /\ made' \in Nat /\ made <= made'
          /\ Advanced(i) \in [known : Nat, chains : SUBSET (1..made'),
                              reply : [on : 0..made', chain : 0..made'], seen : SUBSET (1..MaxMail)]
      BY <1>1, <3>1, AdvancedType
    <3> QED
      BY <1>2, <2>1, <3>2 DEF Sessions
  <2>2. CASE how # "read"
    BY <1>2, <2>2 DEF TypesInv, LoopInv, DeliveryTypeOK, Sessions
  <2> QED
    BY <2>1, <2>2
<1>9. /\ peer' \in [ident : Nat \ {0}, chain : 1..made', prekey : BOOLEAN, took : 0..made']
      /\ mail' \in Seq(Letters') /\ saved' \in Sessions'
  BY <1>2, <1>8, TypesGrow
<1>10. DeliveryTypeOK'
  BY <1>1, <1>2, <1>6, <1>7, <1>8, <1>9 DEF TypesInv, DeliveryTypeOK, HandlersInv, Letters
<1>11. reads' \in [1..MaxMail -> Nat]
  <2>1. reads \in [1..MaxMail -> Nat]
    BY DEF TypesInv, LoopInv
  <2>2. PICK n \in {0, 1} : reads' = [reads EXCEPT ![i] = @ + n]
    BY <1>2
  <2>3. \A j \in 1..MaxMail : reads[j] + n \in Nat
    BY <2>1
  <2> QED
    BY <2>1, <2>2, <2>3, DeliveryConstants
<1>12. LoopInv'
  BY <1>2, <1>6, <1>7, <1>8, <1>11 DEF TypesInv, LoopInv
<1> QED
  BY <1>10, <1>12 DEF TypesInv

LEMMA TypesNextEvent == ASSUME TypesInv, HandlersInv', NextEvent PROVE TypesInv'
<1>1. /\ pc = "dispatch" /\ ~interrupted
      /\ UNCHANGED <<world, network, pc, msg, stopping, session, crashes, histories>>
  BY DEF NextEvent
<1>2. PICK c \in EventClass, left \in Nat :
        StartDispatch(c, left) /\ events' \in Seq(EventClass) /\ left = Len(events')
  BY NextDispatch DEF TypesInv, LoopInv
<1>3. current' = [class |-> c, left |-> left] /\ interrupted' = interrupted
  BY <1>2 DEF StartDispatch
<1>4. current' # Idle /\ current'.left = Len(events')
  BY <1>2, <1>3 DEF Idle, EventClass
<1> QED
  BY <1>1, <1>2, <1>3, <1>4, TypesLocal DEF TypesInv, DeliveryTypeOK, LoopInv, network, session, histories

LEMMA TypesRest ==
  ASSUME TypesInv, HandlersInv',
         \/ AllDispatched \/ DispatchCancelled \/ Ack \/ LoopEnds \/ ServerPush \/ ConnDrops
         \/ Load \/ Reconnect \/ Stop \/ Save \/ Exit \/ Crash \/ HandlerStep
  PROVE  TypesInv'
<1>1. /\ queue \subseteq DOMAIN mail /\ inbox \in Seq(DOMAIN mail) /\ conn \in BOOLEAN /\ stopping \in BOOLEAN
      /\ pc \in {"down", "get", "dispatch", "ack", "offline"}
      /\ (pc \in {"dispatch", "ack"}) = (msg # NoMsg) /\ (pc = "dispatch") = (current # Idle)
      /\ events \in Seq(EventClass) /\ current.left = Len(events) /\ (interrupted => stopping)
      /\ crashes \in Nat /\ (interrupted => pc = "dispatch") /\ reads \in [1..MaxMail -> Nat]
  BY DEF TypesInv, DeliveryTypeOK, LoopInv, HandlersInv, SkippedInv
<1>2. <<>> \in Seq(EventClass) /\ <<>> \in Seq(DOMAIN mail) /\ Idle.left = 0 /\ Len(<<>>) = 0
  BY EmptySeq DEF Idle
<1>3. CASE AllDispatched
  <2>1. /\ pc' = "ack" /\ current' = Idle /\ ~interrupted' /\ events = <<>>
        /\ pc = "dispatch"
        /\ UNCHANGED <<world, network, msg, events, stopping, session, crashes, reads>>
    BY <1>3 DEF AllDispatched, EndDispatch
  <2> QED
    BY <1>1, <1>2, <2>1, TypesLocal DEF network, session
<1>4. CASE DispatchCancelled
  <2>1. /\ pc' = "ack" /\ current' = Idle /\ ~interrupted' /\ events' = <<>> /\ pc = "dispatch"
        /\ UNCHANGED <<world, network, msg, stopping, session, crashes, reads>>
    BY <1>4 DEF DispatchCancelled, EndDispatch
  <2> QED
    BY <1>1, <1>2, <2>1, TypesLocal DEF network, session
<1>5. CASE Ack
  <2>1. /\ pc = "ack" /\ pc' = "get" /\ msg' = NoMsg /\ queue' \subseteq queue
        /\ UNCHANGED <<world, conn, inbox, events, stopping, session, crashes, reads, current,
                       interrupted>>
    BY <1>5 DEF Ack, histories, handlersVars
  <2> QED
    BY <1>1, <2>1, TypesLocal DEF session
<1>6. CASE LoopEnds
  <2>1. /\ pc = "get" /\ pc' = "offline" /\ conn' = FALSE /\ inbox' = <<>> /\ stopping' = FALSE
        /\ UNCHANGED <<world, queue, msg, events, session, crashes, reads, current, interrupted>>
    BY <1>6 DEF LoopEnds, histories, handlersVars
  <2>2. msg' = NoMsg /\ current' = Idle /\ ~interrupted' /\ current'.left = Len(events')
    BY <1>1, <2>1
  <2>3. inbox' \in Seq(DOMAIN mail) /\ events' \in Seq(EventClass)
    BY <1>1, <1>2, <2>1
  <2>4. conn' \in BOOLEAN /\ stopping' \in BOOLEAN
    BY <2>1
  <2>5. (pc' \in {"dispatch", "ack"}) = (msg' # NoMsg) /\ (pc' = "dispatch") = (current' # Idle)
    BY <2>1, <2>2
  <2>6. pc' \in {"down", "get", "dispatch", "ack", "offline"} /\ msg' \in {msg, NoMsg} /\ crashes' \in Nat
    BY <1>1, <2>1
  <2>7. store' \in {store, saved} /\ saved' \in {store, saved} /\ queue' \subseteq queue
    BY <2>1 DEF session
  <2> QED
    BY <1>1, <2>1, <2>2, <2>3, <2>4, <2>5, <2>6, <2>7, TypesLocal
<1>7. CASE ServerPush
  <2>1. PICK i \in queue : inbox' = Append(inbox, i)
    BY <1>7 DEF ServerPush
  <2>2. UNCHANGED <<world, queue, conn, pc, msg, events, stopping, session, crashes, reads,
                    current, interrupted>>
    BY <1>7 DEF ServerPush, loop, histories, handlersVars
  <2>3. inbox' \in Seq(DOMAIN mail)
    BY <1>1, <2>1, AppendProperties
  <2> QED
    BY <1>1, <2>2, <2>3, TypesLocal DEF session
<1>8. CASE ConnDrops \/ Load \/ Reconnect \/ Save
  <2>1. /\ UNCHANGED <<world, queue, inbox, msg, events, stopping, crashes, reads, current,
                       interrupted>>
        /\ store' \in {store, saved} /\ saved' \in {store, saved}
        /\ conn' \in BOOLEAN /\ (pc' = pc \/ (pc' = "get" /\ pc \in {"down", "offline"}))
    BY <1>1, <1>8 DEF ConnDrops, Load, Reconnect, Save, Connects, network, loop, session, histories, handlersVars
  <2> QED
    BY <1>1, <2>1, TypesLocal
<1>9. CASE Stop
  <2>1. /\ UNCHANGED <<world, network, pc, msg, events, session, crashes, reads, current>>
        /\ stopping' = TRUE
    BY <1>9 DEF Stop, Interrupt, histories
  <2> QED
    BY <1>1, <2>1, TypesLocal DEF network, session
<1>10. CASE Exit
  <2>1. /\ pc = "offline" /\ pc' = "down" /\ saved' = store /\ current' = Idle /\ ~interrupted'
        /\ UNCHANGED <<world, network, msg, events, stopping, store, crashes, reads>>
    BY <1>10 DEF Exit, ForgetHandlers, histories
  <2> QED
    BY <1>1, <1>2, <2>1, TypesLocal DEF network
<1>11. CASE Crash
  <2>1. /\ pc' = "down" /\ conn' = FALSE /\ inbox' = <<>> /\ msg' = NoMsg /\ events' = <<>>
        /\ stopping' = FALSE /\ current' = Idle /\ ~interrupted' /\ crashes' = crashes + 1
        /\ UNCHANGED <<world, queue, session>>
    BY <1>11 DEF Crash, ForgetHandlers
  <2>2. crashes' \in Nat /\ inbox' \in Seq(DOMAIN mail) /\ events' \in Seq(EventClass)
    BY <1>1, <1>2, <2>1
  <2>3. current'.left = Len(events')
    BY <1>2, <2>1
  <2>4. conn' \in BOOLEAN /\ stopping' \in BOOLEAN
    BY <2>1
  <2>5. (pc' \in {"dispatch", "ack"}) = (msg' # NoMsg) /\ (pc' = "dispatch") = (current' # Idle)
    BY <2>1
  <2>6. store' \in {store, saved} /\ saved' \in {store, saved} /\ queue' \subseteq queue
    BY <2>1 DEF session
  <2>7. reads' \in [1..MaxMail -> Nat]
    BY <1>1, <1>11 DEF Crash
  <2> QED
    BY <2>1, <2>2, <2>3, <2>4, <2>5, <2>6, <2>7, TypesLocal
<1>12. CASE HandlerStep
  <2>1. UNCHANGED <<world, network, pc, msg, events, stopping, session, crashes, reads, current,
                    interrupted>>
    BY <1>12 DEF HandlerStep, TaskStarts, TaskEnds, Register, Unregister, loop, histories
  <2> QED
    BY <1>1, <2>1, TypesLocal DEF network, session
<1> QED
  BY <1>3, <1>4, <1>5, <1>6, <1>7, <1>8, <1>9, <1>10, <1>11, <1>12

LEMMA TypesNext == ASSUME TypesInv, SessionInv(store), [Next]_vars PROVE TypesInv'
<1>1. HandlersInv'
  BY HandlersNext DEF TypesInv
<1>2. CASE UNCHANGED vars
  <2>1. UNCHANGED <<world, network, loop, session, crashes, reads, current, interrupted>>
    BY <1>2 DEF vars, histories, handlersVars
  <2> QED
    BY <1>1, <2>1, TypesLocal DEF network, loop, session, TypesInv, DeliveryTypeOK, LoopInv
<1>3. CASE \E k \in Envelopes : PeerSends(k)
  BY <1>1, <1>3, TypesPeerSends
<1>4. CASE PeerBegins(peer.ident) \/ PeerBegins(peer.ident + 1) \/ SendOpens \/ Reply
  BY <1>1, <1>4, TypesPeer, TypesSendOpens
<1>5. CASE LoopStep
  BY <1>1, <1>5, TypesTake, TypesNextEvent, TypesRest DEF LoopStep
<1>6. CASE ServerPush \/ ConnDrops \/ Load \/ Reconnect \/ Stop \/ Save \/ Exit \/ Crash \/ HandlerStep
  BY <1>1, <1>6, TypesRest
<1> QED
  BY <1>2, <1>3, <1>4, <1>5, <1>6 DEF Next

-----------------------------------------------------------------------------
(* Steps that read no message and kill no process leave the session that     *)
(* counts as it is: a save, a load and an exit only copy it.                 *)

LEMMA SessionKept ==
  ASSUME TypesInv,
         \/ NextEvent \/ AllDispatched \/ DispatchCancelled \/ Ack \/ LoopEnds \/ ServerPush \/ ConnDrops
         \/ Load \/ Reconnect \/ Stop \/ Save \/ Exit \/ HandlerStep \/ UNCHANGED vars
  PROVE  /\ UNCHANGED <<world, reads, lost>> /\ Held' = Held /\ msg' \in {msg, NoMsg}
         /\ store' \in {store, saved} /\ saved' \in {store, saved}
<1>1. CASE NextEvent \/ AllDispatched \/ DispatchCancelled \/ Ack \/ LoopEnds
  <2>1. UNCHANGED <<world, store, saved, reads, lost>> /\ Up /\ Up' /\ msg' \in {msg, NoMsg}
    BY <1>1 DEF NextEvent, AllDispatched, DispatchCancelled, Ack, LoopEnds, session, histories, Up
  <2> QED
    BY <2>1 DEF Held
<1>2. CASE ServerPush \/ ConnDrops \/ Stop \/ HandlerStep \/ UNCHANGED vars
  <2>1. UNCHANGED <<world, pc, msg, store, saved, reads, lost>>
    BY <1>2 DEF ServerPush, ConnDrops, Stop, HandlerStep, vars, loop, session, histories
  <2> QED
    BY <2>1 DEF Held, Up
<1>3. CASE Load
  <2>1. /\ UNCHANGED <<world, msg, saved, reads, lost>>
        /\ pc = "down" /\ pc' = "get" /\ store' = saved
    BY <1>3 DEF Load, Connects, histories
  <2> QED
    BY <2>1 DEF Held, Up
<1>4. CASE Reconnect
  <2>1. /\ UNCHANGED <<world, msg, store, saved, reads, lost>>
        /\ pc = "offline" /\ pc' = "get"
    BY <1>4 DEF Reconnect, Connects, session, histories
  <2> QED
    BY <2>1 DEF Held, Up
<1>5. CASE Save
  <2>1. UNCHANGED <<world, pc, msg, store, reads, lost>> /\ Up /\ saved' = store
    BY <1>5 DEF Save, loop, histories
  <2> QED
    BY <2>1 DEF Held, Up
<1>6. CASE Exit
  <2>1. /\ UNCHANGED <<world, msg, store, reads, lost>>
        /\ pc = "offline" /\ pc' = "down" /\ saved' = store
    BY <1>6 DEF Exit, histories
  <2> QED
    BY <2>1 DEF Held, Up
<1> QED
  BY <1>1, <1>2, <1>3, <1>4, <1>5, <1>6

\* All that is kept of sessions, of identities and of what was read.
MemoryInv ==
  SessionInv(store) /\ SessionInv(saved) /\ IdentInv /\ ReadInv /\ ChainInv /\ UnreadableOnlyForCause

LEMMA MemoryKept ==
  ASSUME MemoryInv, UNCHANGED <<world, reads, lost>>, Held' = Held, msg' \in {msg, NoMsg},
         store' \in {store, saved}, saved' \in {store, saved}
  PROVE  MemoryInv'
<1>1. UNCHANGED <<peer, mail>>
  BY DEF world
<1>2. SessionInv(store)' /\ SessionInv(saved)'
  BY <1>1 DEF MemoryInv, SessionInv
<1>3. IdentInv' /\ ReadInv' /\ ChainInv'
  BY <1>1 DEF MemoryInv, IdentInv, ReadInv, ChainInv
<1>4. UnreadableOnlyForCause'
  BY <1>1 DEF MemoryInv, UnreadableOnlyForCause, NoMsg
<1> QED
  BY <1>2, <1>3, <1>4 DEF MemoryInv

LEMMA MailGrows ==
  ASSUME TypesInv, NEW k, PeerSends(k)
  PROVE  /\ Len(mail) + 1 \in 1..MaxMail /\ Len(mail) + 1 \notin DOMAIN mail
         /\ DOMAIN mail' = DOMAIN mail \cup {Len(mail) + 1}
         /\ \A i \in DOMAIN mail : mail'[i] = mail[i]
         /\ mail'[Len(mail) + 1] = [kind |-> k, ident |-> peer.ident, chain |-> peer.chain,
                                    prekey |-> peer.prekey]
<1> DEFINE letter == [kind |-> k, ident |-> peer.ident, chain |-> peer.chain, prekey |-> peer.prekey]
           S == Letters \cup {letter}
<1>1. mail \in Seq(S) /\ letter \in S
  BY SeqGrows DEF TypesInv, DeliveryTypeOK, Letters
<1>2. mail' = Append(mail, letter) /\ Len(mail) < MaxMail
  BY DEF PeerSends, MayWrite
<1> HIDE DEF letter, S
<1>3. Len(mail) \in Nat /\ DOMAIN mail = 1..Len(mail)
  BY <1>1, LenProperties
<1>4. /\ Append(mail, letter) \in Seq(S) /\ Len(Append(mail, letter)) = Len(mail) + 1
      /\ \A i \in 1..Len(mail) : Append(mail, letter)[i] = mail[i]
      /\ Append(mail, letter)[Len(mail) + 1] = letter
  BY <1>1, AppendProperties
<1>5. DOMAIN mail' = 1..(Len(mail) + 1)
  BY <1>2, <1>4, LenProperties
<1>6. mail'[Len(mail) + 1] = letter
  BY <1>2, <1>4
<1> QED
  BY <1>2, <1>3, <1>4, <1>5, <1>6, DeliveryConstants DEF letter

LEMMA MemoryPeerSends == ASSUME TypesInv, MemoryInv, NEW k \in Envelopes, PeerSends(k) PROVE MemoryInv'
<1> DEFINE n == Len(mail) + 1
<1>1. UNCHANGED <<peer, pc, msg, store, saved, reads, lost>>
  BY DEF PeerSends, MayWrite, loop, session, histories
<1>2. /\ n \in 1..MaxMail /\ n \notin DOMAIN mail /\ DOMAIN mail' = DOMAIN mail \cup {n}
      /\ \A i \in DOMAIN mail : mail'[i] = mail[i]
      /\ mail'[n] = [kind |-> k, ident |-> peer.ident, chain |-> peer.chain, prekey |-> peer.prekey]
  BY MailGrows
<1>3. mail'[n].chain = peer.chain /\ mail'[n].prekey = peer.prekey /\ mail'[n].ident = peer.ident
  BY <1>2
<1>4. Held' = Held
  BY <1>1 DEF Held, Up
<1> HIDE DEF n
<1>5. SessionInv(store)' /\ SessionInv(saved)' /\ ReadInv'
  BY <1>1, <1>4 DEF MemoryInv, SessionInv, ReadInv
<1>6. IdentInv'
  <2>1. peer.ident <= peer.ident
    BY DEF TypesInv, DeliveryTypeOK
  <2> QED
    BY <1>1, <1>2, <1>3, <2>1 DEF MemoryInv, IdentInv
<1>7. ChainInv'
  <2>1. ~peer.prekey => peer.chain \in Held.chains \cup lost
    BY DEF MemoryInv, ChainInv
  <2>2. ASSUME NEW i \in DOMAIN mail', ~mail'[i].prekey PROVE mail'[i].chain \in Held.chains \cup lost
    BY <1>2, <1>3, <2>1, <2>2 DEF MemoryInv, ChainInv
  <2> QED
    BY <1>1, <1>4, <2>1, <2>2 DEF ChainInv
<1>8. UnreadableOnlyForCause'
  <2>1. msg = NoMsg \/ msg.id \in DOMAIN mail
    BY DEF TypesInv, LoopInv
  <2> QED
    BY <1>1, <1>2, <2>1 DEF MemoryInv, UnreadableOnlyForCause, NoMsg
<1> QED
  BY <1>5, <1>6, <1>7, <1>8 DEF MemoryInv

\* An answer goes to a ratchet key of this device's session; a new session of
\* the peer's begins with prekeys.
LEMMA MemoryPeer ==
  ASSUME TypesInv, MemoryInv, PeerBegins(peer.ident) \/ PeerBegins(peer.ident + 1) \/ Reply
  PROVE  MemoryInv'
<1>1. UNCHANGED <<mail, pc, msg, store, saved, reads, lost>>
  BY DEF PeerBegins, Reply, loop, session, histories
<1>2. Held' = Held
  BY <1>1 DEF Held, Up
<1>3. peer \in [ident : Nat \ {0}, chain : 1..made, prekey : BOOLEAN, took : 0..made] /\ made \in Nat
  BY DEF TypesInv, DeliveryTypeOK, LoopInv
<1>4. (~peer'.prekey => peer'.chain \in Held.chains) /\ peer'.ident \in {peer.ident, peer.ident + 1}
  <2>1. CASE Reply
    <3>1. \/ peer' = [peer EXCEPT !.chain = store.reply.chain, !.prekey = FALSE,
                                  !.took = store.reply.chain]
          \/ peer' = [peer EXCEPT !.chain = store.reply.chain, !.prekey = FALSE]
      BY <2>1 DEF Reply
    <3>2. peer'.chain = store.reply.chain /\ peer'.ident = peer.ident
      BY <1>3, <3>1
    <3>3. Up /\ store.reply # NoReply
      BY <2>1 DEF Reply
    <3> QED
      BY <3>2, <3>3 DEF MemoryInv, SessionInv, Held
  <2>2. ASSUME NEW ident \in {peer.ident, peer.ident + 1}, PeerBegins(ident)
        PROVE  peer'.prekey /\ peer'.ident \in {peer.ident, peer.ident + 1}
    BY <2>2 DEF PeerBegins
  <2> QED
    BY <2>1, <2>2
<1>5. ChainInv'
  BY <1>1, <1>2, <1>4 DEF MemoryInv, ChainInv
<1>6. \A n \in Int : n <= peer.ident => n <= peer'.ident
  BY <1>3, <1>4
<1>7. SessionInv(store)' /\ SessionInv(saved)'
  <2>1. store.known \in Int /\ saved.known \in Int
    BY DEF TypesInv, DeliveryTypeOK, Sessions
  <2> QED
    BY <1>1, <1>6, <2>1 DEF MemoryInv, SessionInv
<1>8. IdentInv'
  <2>1. \A i \in DOMAIN mail : mail[i].ident \in Int
    <3>1. mail \in Seq(Letters)
      BY DEF TypesInv, DeliveryTypeOK, Letters
    <3>2. \A i \in DOMAIN mail : mail[i] \in Letters
      BY <3>1, ElementOfSeq, LenProperties
    <3> QED
      BY <3>2 DEF Letters
  <2> QED
    BY <1>1, <1>6, <2>1 DEF MemoryInv, IdentInv
<1>9. ReadInv'
  BY <1>1, <1>2 DEF MemoryInv, ReadInv
<1>10. UnreadableOnlyForCause'
  BY <1>1, <1>3, <1>4 DEF MemoryInv, UnreadableOnlyForCause
<1> QED
  BY <1>5, <1>7, <1>8, <1>9, <1>10 DEF MemoryInv

\* A session this device opens takes nothing from what it held: there was none.
LEMMA MemorySendOpens == ASSUME TypesInv, MemoryInv, SendOpens PROVE MemoryInv'
<1>1. UNCHANGED <<peer, mail, pc, msg, saved, reads, lost>> /\ Up /\ store.chains = {}
  BY DEF SendOpens, loop, histories
<1>2. PICK ident \in 1..peer.ident :
        store' = [known |-> ident, chains |-> {made + 1}, reply |-> [on |-> 0, chain |-> made + 1],
                  seen |-> store.seen]
  BY OpenedType
<1>3. Held = store /\ Held' = store' /\ peer.ident \in Nat
  BY <1>1 DEF Held, Up, TypesInv, DeliveryTypeOK
<1>4. store'.known <= peer.ident /\ store'.reply.chain \in store'.chains /\ store'.seen = store.seen
  BY <1>2, <1>3
<1>5. SessionInv(store)' /\ SessionInv(saved)'
  BY <1>1, <1>4 DEF MemoryInv, SessionInv
<1>6. IdentInv' /\ ReadInv'
  BY <1>1, <1>3, <1>4 DEF MemoryInv, IdentInv, ReadInv
<1>7. ChainInv' /\ UnreadableOnlyForCause'
  BY <1>1, <1>3 DEF MemoryInv, ChainInv, UnreadableOnlyForCause
<1> QED
  BY <1>5, <1>6, <1>7 DEF MemoryInv

LEMMA HowMeans ==
  ASSUME NEW i
  PROVE  /\ How(i) = "read" => i \notin store.seen
         /\ How(i) = "duplicate" => i \in store.seen
         /\ How(i) = "untrusted" => store.known # 0 /\ store.known # mail[i].ident
         /\ How(i) = "nosession" => ~mail[i].prekey /\ mail[i].chain \notin store.chains
BY DEF How, Decrypts, IsDuplicate

LEMMA AdvancedMeans ==
  ASSUME NEW i
  PROVE  /\ Advanced(i).known = mail[i].ident /\ Advanced(i).seen = store.seen \cup {i}
         /\ store.chains \subseteq Advanced(i).chains
         /\ \/ Advanced(i).reply.chain \in Advanced(i).chains
            \/ Advanced(i).reply = store.reply
BY DEF Advanced

LEMMA MemoryTake == ASSUME TypesInv, MemoryInv, Take PROVE MemoryInv'
<1> DEFINE i == Head(inbox)
           how == How(i)
<1>1. i \in DOMAIN mail /\ DOMAIN mail \subseteq 1..MaxMail /\ mail[i].ident \in Nat \ {0}
  <2>1. mail \in Seq(Letters) /\ Len(mail) <= MaxMail
    BY DEF TypesInv, DeliveryTypeOK, LoopInv, Letters
  <2>2. DOMAIN mail = 1..Len(mail) /\ Len(mail) \in Nat
    BY <2>1, LenProperties
  <2>3. i \in DOMAIN mail
    BY TakenRequest DEF TypesInv
  <2>4. mail[i] \in Letters
    BY <2>1, <2>2, <2>3, ElementOfSeq
  <2> QED
    BY <2>2, <2>1, <2>3, <2>4, DeliveryConstants DEF Letters
<1>2. /\ store' = IF how = "read" THEN Advanced(i) ELSE store
      /\ reads' = [reads EXCEPT ![i] = @ + IF how = "read" THEN 1 ELSE 0]
      /\ msg' = [id |-> i, how |-> how] /\ UNCHANGED <<peer, mail, saved, lost>>
  BY DEF Take, Taken
<1>3. pc = "get" /\ pc' \in {"dispatch", "ack"} /\ Held = store /\ Held' = store'
  BY DEF Take, Held, Up
<1>4. reads \in [1..MaxMail -> Nat] /\ peer.ident \in Nat /\ store.known \in Nat
  BY DEF TypesInv, LoopInv, DeliveryTypeOK, Sessions
<1> HIDE DEF i
<1>5. IdentInv'
  BY <1>2 DEF MemoryInv, IdentInv
<1>6. UnreadableOnlyForCause'
  <2>1. msg'.id = i /\ msg'.how = how
    BY <1>2
  <2>2. ASSUME how = "untrusted" PROVE peer.ident > 1
    <3>1. store.known # 0 /\ store.known # mail[i].ident
      BY <2>2, HowMeans
    <3>2. store.known <= peer.ident /\ mail[i].ident <= peer.ident
      BY <1>1 DEF MemoryInv, SessionInv, IdentInv
    <3> QED
      BY <1>1, <1>4, <3>1, <3>2
  <2>3. ASSUME how = "nosession" PROVE mail[i].chain \in lost
    <3>1. ~mail[i].prekey /\ mail[i].chain \notin store.chains
      BY <2>3, HowMeans
    <3> QED
      BY <1>1, <1>3, <3>1 DEF MemoryInv, ChainInv
  <2> QED
    BY <1>2, <2>1, <2>2, <2>3 DEF UnreadableOnlyForCause
<1>7. CASE how = "read"
  <2>1. reads' = [reads EXCEPT ![i] = @ + 1]
    BY <1>2, <1>7
  <2>2. /\ reads'[i] = reads[i] + 1 /\ reads[i] \in Nat
        /\ \A j \in 1..MaxMail : j # i => reads'[j] = reads[j]
    BY <1>1, <1>4, <2>1
  <2>3. store' = Advanced(i) /\ i \notin store.seen
    BY <1>2, <1>7, HowMeans
  <2>4. /\ store'.known = mail[i].ident /\ store'.seen = store.seen \cup {i}
        /\ store.chains \subseteq store'.chains
        /\ store'.reply.chain \in store'.chains \/ store'.reply = store.reply
    BY <2>3, AdvancedMeans
  <2>5. mail[i].ident <= peer.ident
    BY <1>1 DEF MemoryInv, IdentInv
  <2>6. SessionInv(store)' /\ SessionInv(saved)'
    BY <1>2, <2>4, <2>5 DEF MemoryInv, SessionInv
  <2>7. ReadInv'
    <3>1. ASSUME NEW j \in 1..MaxMail PROVE reads'[j] <= 1 /\ (reads'[j] > 0 => j \in Held'.seen)
      <4>1. reads[j] <= 1 /\ (reads[j] > 0 => j \in store.seen)
        BY <1>3 DEF MemoryInv, ReadInv
      <4>2. CASE j = i
        BY <1>3, <2>2, <2>3, <2>4, <4>1, <4>2
      <4>3. CASE j # i
        BY <1>3, <2>2, <2>4, <4>1, <4>3
      <4> QED
        BY <4>2, <4>3
    <3> QED
      BY <3>1 DEF ReadInv
  <2>8. ChainInv'
    BY <1>2, <1>3, <2>4 DEF MemoryInv, ChainInv
  <2> QED
    BY <1>5, <1>6, <2>6, <2>7, <2>8 DEF MemoryInv
<1>8. CASE how # "read"
  <2>1. reads' = [reads EXCEPT ![i] = @ + 0]
    BY <1>2, <1>8
  <2>2. reads' = reads
    BY <1>1, <1>4, <2>1
  <2>3. store' = store
    BY <1>2, <1>8
  <2>4. SessionInv(store)' /\ SessionInv(saved)' /\ ReadInv' /\ ChainInv'
    BY <1>2, <1>3, <2>2, <2>3 DEF MemoryInv, SessionInv, ReadInv, ChainInv
  <2> QED
    BY <1>5, <1>6, <2>4 DEF MemoryInv
<1> QED
  BY <1>7, <1>8

\* What the kill takes from the session counts as not read, its chains as lost.
LEMMA MemoryCrash == ASSUME TypesInv, MemoryInv, Crash PROVE MemoryInv'
<1>1. /\ Up /\ pc' = "down" /\ msg' = NoMsg /\ UNCHANGED <<peer, mail, store, saved>>
      /\ reads' = [i \in DOMAIN reads |-> IF i \in store.seen \ saved.seen THEN 0 ELSE reads[i]]
      /\ lost' = lost \cup (store.chains \ saved.chains)
  BY DEF Crash, world, session
<1>2. Held = store /\ Held' = saved
  BY <1>1 DEF Held, Up
<1>3. SessionInv(store)' /\ SessionInv(saved)' /\ IdentInv' /\ UnreadableOnlyForCause'
  BY <1>1 DEF MemoryInv, SessionInv, IdentInv, UnreadableOnlyForCause, NoMsg
<1>4. ReadInv'
  <2>1. DOMAIN reads = 1..MaxMail
    BY DEF TypesInv, LoopInv
  <2> QED
    BY <1>1, <1>2, <2>1 DEF MemoryInv, ReadInv
<1>5. ChainInv'
  BY <1>1, <1>2 DEF MemoryInv, ChainInv
<1> QED
  BY <1>3, <1>4, <1>5 DEF MemoryInv

LEMMA MemoryNext == ASSUME TypesInv, MemoryInv, [Next]_vars PROVE MemoryInv'
<1>1. CASE Take
  BY <1>1, MemoryTake
<1>2. CASE Crash
  BY <1>2, MemoryCrash
<1>3. CASE \E k \in Envelopes : PeerSends(k)
  BY <1>3, MemoryPeerSends
<1>4. CASE PeerBegins(peer.ident) \/ PeerBegins(peer.ident + 1) \/ SendOpens \/ Reply
  BY <1>4, MemoryPeer, MemorySendOpens
<1>5. CASE \/ NextEvent \/ AllDispatched \/ DispatchCancelled \/ Ack \/ LoopEnds \/ ServerPush \/ ConnDrops
           \/ Load \/ Reconnect \/ Stop \/ Save \/ Exit \/ HandlerStep \/ UNCHANGED vars
  BY <1>5, SessionKept, MemoryKept
<1> QED
  BY <1>1, <1>2, <1>3, <1>4, <1>5 DEF Next, LoopStep

-----------------------------------------------------------------------------
(* What becomes of a message.                                               *)

LEMMA SettledKept ==
  ASSUME SettledInv, Held' = Held, saved' = saved \/ saved' = Held,
         UNCHANGED <<mail, queue, settled>>,
         UNCHANGED <<pc, msg>> \/ (pc \notin {"dispatch", "ack"} /\ pc' \notin {"dispatch", "ack"})
  PROVE  SettledInv'
BY DEF SettledInv, ForgottenOnlyHandled

LEMMA SettledTake == ASSUME TypesInv, SettledInv, Take PROVE SettledInv'
<1> DEFINE i == Head(inbox)
           how == How(i)
           found == EventsOf(i, how)
<1>1. /\ pc = "get" /\ msg' = [id |-> i, how |-> how] /\ UNCHANGED <<mail, queue, saved>>
      /\ store' = IF how = "read" THEN Advanced(i) ELSE store
      /\ \/ found = <<>> /\ pc' = "ack" /\ settled' = settled \cup {i}
         \/ found # <<>> /\ pc' = "dispatch" /\ settled' = settled
  BY DEF Take, Taken
<1>2. Held = store /\ Held' = store'
  BY <1>1 DEF Held, Up
<1>3. \A j \in store.seen \cup saved.seen : j \in settled
  BY <1>1, <1>2 DEF SettledInv
<1>4. store'.seen \subseteq store.seen \cup {i} /\ (how # "read" => store' = store)
  BY <1>1, AdvancedMeans
<1>5. settled \subseteq settled' /\ (pc' = "ack" => i \in settled')
  BY <1>1
<1>6. how = "duplicate" => i \in store.seen
  BY HowMeans
<1>7. msg'.id = i /\ msg'.how = how /\ pc' \in {"dispatch", "ack"}
  BY <1>1
<1> HIDE DEF i, how, found
<1>8. \A j \in Held'.seen \cup saved'.seen : j \in settled' \/ (pc' = "dispatch" /\ j = msg'.id)
  BY <1>1, <1>2, <1>3, <1>4, <1>5, <1>7
<1>9. pc' = "ack" \/ (pc' = "dispatch" /\ msg'.how = "duplicate") => msg'.id \in settled'
  BY <1>3, <1>5, <1>6, <1>7
<1>10. ForgottenOnlyHandled'
  BY <1>1, <1>5 DEF SettledInv, ForgottenOnlyHandled
<1> QED
  BY <1>8, <1>9, <1>10 DEF SettledInv

LEMMA SettledDispatched ==
  ASSUME SettledInv, AllDispatched \/ DispatchCancelled PROVE SettledInv'
<1>1. /\ pc = "dispatch" /\ pc' = "ack" /\ UNCHANGED <<mail, queue, msg, store, saved>>
      /\ settled \subseteq settled' /\ (msg.how # "duplicate" => msg.id \in settled')
  BY DEF AllDispatched, DispatchCancelled, world, network, session
<1>2. Held' = Held
  BY <1>1 DEF Held, Up
<1>3. msg.id \in settled'
  BY <1>1 DEF SettledInv
<1>4. \A j \in Held.seen \cup saved.seen : j \in settled'
  BY <1>1, <1>3 DEF SettledInv
<1>5. ForgottenOnlyHandled'
  BY <1>1 DEF SettledInv, ForgottenOnlyHandled
<1> QED
  BY <1>1, <1>2, <1>3, <1>4, <1>5 DEF SettledInv

LEMMA SettledAck == ASSUME SettledInv, Ack PROVE SettledInv'
<1>1. /\ pc = "ack" /\ pc' = "get" /\ queue \ {msg.id} \subseteq queue'
      /\ UNCHANGED <<mail, store, saved, settled>>
  BY DEF Ack, world, session, histories
<1>2. Held' = Held /\ settled' = settled
  BY <1>1 DEF Held, Up
<1>3. msg.id \in settled /\ \A j \in Held.seen \cup saved.seen : j \in settled
  BY <1>1 DEF SettledInv
<1>4. ForgottenOnlyHandled'
  BY <1>1, <1>2, <1>3 DEF SettledInv, ForgottenOnlyHandled
<1> QED
  BY <1>1, <1>2, <1>3, <1>4 DEF SettledInv

\* A kill forgets what it undoes; what is saved already will not come again,
\* and is settled.
LEMMA SettledCrash == ASSUME SettledInv, Crash PROVE SettledInv'
<1>1. /\ Up /\ pc' = "down" /\ UNCHANGED <<mail, queue, saved>>
      /\ settled' = IF pc = "dispatch" /\ msg.id \in saved.seen THEN settled \cup {msg.id} ELSE settled
  BY DEF Crash, world, session
<1>2. Held' = saved /\ settled \subseteq settled'
  BY <1>1 DEF Held, Up
<1>3. \A j \in saved.seen : j \in settled'
  BY <1>1, <1>2 DEF SettledInv
<1>4. ForgottenOnlyHandled'
  BY <1>1, <1>2 DEF SettledInv, ForgottenOnlyHandled
<1> QED
  BY <1>1, <1>2, <1>3, <1>4 DEF SettledInv

LEMMA SettledNext == ASSUME TypesInv, SettledInv, [Next]_vars PROVE SettledInv'
<1>1. CASE Take
  BY <1>1, SettledTake
<1>2. CASE AllDispatched \/ DispatchCancelled
  BY <1>2, SettledDispatched
<1>3. CASE Ack
  BY <1>3, SettledAck
<1>4. CASE Crash
  BY <1>4, SettledCrash
<1>5. ASSUME NEW k \in Envelopes, PeerSends(k) PROVE SettledInv'
  <2>1. UNCHANGED <<pc, msg, store, saved, settled>> /\ queue' = queue \cup {Len(mail) + 1}
    BY <1>5 DEF PeerSends, loop, session, histories
  <2>2. DOMAIN mail' = DOMAIN mail \cup {Len(mail) + 1}
    BY <1>5, MailGrows
  <2>3. Held' = Held /\ settled' = settled
    BY <2>1 DEF Held, Up
  <2>4. ForgottenOnlyHandled'
    BY <2>1, <2>2, <2>3 DEF SettledInv, ForgottenOnlyHandled
  <2> QED
    BY <2>1, <2>3, <2>4 DEF SettledInv
<1>6. CASE \/ NextEvent \/ ServerPush \/ ConnDrops \/ Stop \/ HandlerStep \/ UNCHANGED vars
           \/ PeerBegins(peer.ident) \/ PeerBegins(peer.ident + 1) \/ Reply
  <2>1. UNCHANGED <<mail, queue, pc, msg, store, saved, settled>>
    BY <1>6 DEF NextEvent, ServerPush, ConnDrops, Stop, HandlerStep, vars, PeerBegins, Reply,
       world, network, loop, session, histories
  <2>2. Held' = Held
    BY <2>1 DEF Held, Up
  <2> QED
    BY <2>1, <2>2, SettledKept
<1>7. CASE LoopEnds \/ Load \/ Reconnect \/ Save \/ Exit
  <2>1. Held' = Held
    BY <1>7, SessionKept
  <2>2. UNCHANGED <<mail, queue, settled>>
    BY <1>7 DEF LoopEnds, Load, Reconnect, Save, Exit, world, network, histories
  <2>3. saved' = saved \/ saved' = Held
    BY <1>7 DEF LoopEnds, Load, Reconnect, Save, Exit, session, Held, Up
  <2>4. \/ UNCHANGED <<pc, msg>>
        \/ pc \notin {"dispatch", "ack"} /\ pc' \notin {"dispatch", "ack"}
    BY <1>7 DEF LoopEnds, Load, Reconnect, Save, Exit, Connects, loop
  <2> QED
    BY <2>1, <2>2, <2>3, <2>4, SettledKept
<1>8. CASE SendOpens
  <2>1. UNCHANGED <<mail, queue, pc, msg, saved, settled>> /\ Up /\ store'.seen = store.seen
    BY <1>8, OpenedType DEF SendOpens, network, loop, histories
  <2>2. Held' = store' /\ Held = store
    BY <2>1 DEF Held, Up
  <2> QED
    BY <2>1, <2>2 DEF SettledInv, ForgottenOnlyHandled
<1> QED
  BY <1>1, <1>2, <1>3, <1>4, <1>5, <1>6, <1>7, <1>8 DEF Next, LoopStep

-----------------------------------------------------------------------------
LEMMA DeliveryInit == Init => DeliveryInv
<1> SUFFICES ASSUME Init PROVE DeliveryInv
  OBVIOUS
<1>1. TypesInv
  BY TypesInit
<1>2. store = Linked /\ saved = Linked /\ Held = Linked /\ DOMAIN mail = {}
  <2>1. Len(mail) = 0 /\ mail \in Seq(Letters)
    BY EmptySeq DEF Init
  <2>2. DOMAIN mail = 1..0
    BY <2>1, LenProperties
  <2> QED
    BY <2>2 DEF Init, Held, Up
<1>3. SessionInv(store) /\ SessionInv(saved)
  <2>1. peer.ident = 1 /\ Linked.known = 0 /\ Linked.reply = NoReply
    BY DEF Init, Linked
  <2> QED
    BY <1>2, <2>1 DEF SessionInv
<1>4. IdentInv /\ ReadInv /\ ChainInv /\ UnreadableOnlyForCause
  <2>1. peer.prekey /\ msg.how = "none" /\ \A i \in 1..MaxMail : reads[i] = 0
    BY DEF Init, NoMsg
  <2> QED
    BY <1>2, <2>1 DEF IdentInv, ReadInv, ChainInv, UnreadableOnlyForCause
<1>5. SettledInv
  <2>1. Linked.seen = {} /\ pc = "down"
    BY DEF Init, Linked
  <2> QED
    BY <1>2, <2>1 DEF SettledInv, ForgottenOnlyHandled
<1> QED
  BY <1>1, <1>3, <1>4, <1>5 DEF DeliveryInv, TypesInv

LEMMA DeliveryInvParts == DeliveryInv <=> TypesInv /\ MemoryInv /\ SettledInv
BY DEF DeliveryInv, TypesInv, MemoryInv

LEMMA DeliveryNext == ASSUME DeliveryInv, [Next]_vars PROVE DeliveryInv'
<1>1. TypesInv /\ MemoryInv /\ SettledInv
  BY DeliveryInvParts
<1>2. TypesInv'
  BY <1>1, TypesNext DEF MemoryInv
<1>3. MemoryInv' /\ SettledInv'
  BY <1>1, MemoryNext, SettledNext
<1> QED
  BY <1>2, <1>3 DEF DeliveryInv, TypesInv, MemoryInv

\* The state reached by every behaviour: the types, the dispatch that goes on,
\* what the sessions hold and what was done with each message.
THEOREM DeliveryInvariance == Spec => []DeliveryInv
BY DeliveryInit, DeliveryNext, PTL DEF Spec

\* Delivery's state, the registry's included, always has its types.
THEOREM DeliveryTypeCorrect == Spec => []DeliveryTypeOK
<1>1. DeliveryInv => DeliveryTypeOK
  BY DEF DeliveryInv
<1> QED
  BY <1>1, DeliveryInvariance, PTL

\* A message is decrypted again only when a kill has undone the time before,
\* however often the server repeats it and whenever the session is saved.
THEOREM RepeatsFollowKills == Spec => []RepeatOnlyAfterRollback
<1>1. ASSUME DeliveryInv PROVE RepeatOnlyAfterRollback
  <2>1. mail \in Seq(Letters) /\ Len(mail) <= MaxMail
    BY <1>1 DEF DeliveryInv, DeliveryTypeOK, LoopInv, Letters
  <2>2. DOMAIN mail \subseteq 1..MaxMail
    BY <2>1, LenProperties, DeliveryConstants
  <2> QED
    BY <1>1, <2>2 DEF DeliveryInv, ReadInv, RepeatOnlyAfterRollback
<1> QED
  BY <1>1, DeliveryInvariance, PTL

\* What the server has deleted was dispatched to its last event, or kept from
\* that by a stop, by its content or by a kill after a save.
THEOREM NothingForgotten == Spec => []ForgottenOnlyHandled
<1>1. DeliveryInv => ForgottenOnlyHandled
  BY DEF DeliveryInv, SettledInv
<1> QED
  BY <1>1, DeliveryInvariance, PTL

\* A message that cannot be read went to a ratchet key that a kill destroyed, or
\* the peer has changed its identity; this device's own sends make none unreadable.
THEOREM UnreadableHasCause == Spec => []UnreadableOnlyForCause
<1>1. DeliveryInv => UnreadableOnlyForCause
  BY DEF DeliveryInv
<1> QED
  BY <1>1, DeliveryInvariance, PTL

\* However many handlers there are and whatever they register or remove while
\* they run, an event gives way to the next only when each of them has been
\* called to its end as often as it was registered when the event came.
THEOREM EveryHandlerIsCalled == Spec => DispatchIsComplete
<1>1. ASSUME DeliveryInv, [Next]_vars
      PROVE  pc = "dispatch" /\ current' # current /\ ~interrupted /\ Up'
               => \A h \in Handler : CalledToEnd(h) = due[h]
  <2> SUFFICES ASSUME pc = "dispatch", current' # current, ~interrupted, Up', NEW h \in Handler
               PROVE  CalledToEnd(h) = due[h]
    OBVIOUS
  <2>1. NextEvent \/ AllDispatched
    <3>1. CASE Take \/ Ack \/ LoopEnds \/ Load \/ Reconnect \/ Exit \/ Crash
      BY <3>1 DEF Take, Ack, LoopEnds, Load, Reconnect, Exit, Crash, Up
    <3>2. CASE DispatchCancelled
      BY <3>2 DEF DispatchCancelled
    <3>3. CASE HandlerStep \/ Stop \/ UNCHANGED vars
      BY <3>3 DEF HandlerStep, TaskStarts, TaskEnds, Register, Unregister, Stop, Interrupt, vars, handlersVars
    <3>4. CASE \/ Save \/ ServerPush \/ ConnDrops \/ \E k \in Envelopes : PeerSends(k)
               \/ PeerBegins(peer.ident) \/ PeerBegins(peer.ident + 1) \/ SendOpens \/ Reply
      BY <3>4 DEF Save, ServerPush, ConnDrops, PeerSends, PeerBegins, SendOpens, Reply, handlersVars
    <3> QED
      BY <1>1, <3>1, <3>2, <3>3, <3>4 DEF Next, LoopStep
  <2>2. Gathered
    BY <2>1 DEF NextEvent, AllDispatched
  <2>3. HandlersInv /\ current # Idle
    BY <1>1 DEF DeliveryInv, DeliveryTypeOK
  <2> QED
    BY <2>2, <2>3, GatheredIsComplete DEF CalledToEnd
<1> QED
  BY <1>1, DeliveryInvariance, PTL DEF Spec, DispatchIsComplete
=============================================================================
