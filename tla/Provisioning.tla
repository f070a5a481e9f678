---------------------------- MODULE Provisioning ----------------------------
(***************************************************************************)
(* Linking a device by QR code: link_device of provisioning/flow.py as     *)
(* `sigsig link' of cli.py runs it through Client.qr_login, up to the      *)
(* saved session.                                                          *)
(*                                                                         *)
(* An attempt opens a provisioning socket; the server's first push is the  *)
(* address that goes into the URL, the second the envelope the primary     *)
(* sent to that address.  An attempt ends by the envelope, by its timer or *)
(* because the socket expired, and the next one starts while the deadline  *)
(* is ahead.  The envelope leads to one link request, whose answer becomes *)
(* a session.                                                              *)
(*                                                                         *)
(* The socket is as WsConnection has it, seen from its one consumer:       *)
(* pushes in order, then the end.  The server, the network and the primary *)
(* are external, taken from how the code uses them.                        *)
(***************************************************************************)
EXTENDS Naturals, Sequences, FiniteSets

CONSTANTS
  MaxCalls,        \* bound: link commands run one after the other
  MaxDrops,        \* bound: sockets the server or the network ends, per call
  MaxScans,        \* bound: scans by the primary, per call
  Timeout,         \* PROVISIONING_TIMEOUT, in ticks of the clock
  AttemptTimeout,  \* WS_ATTEMPT_TIMEOUT
  IoTimeout        \* the websockets library's open_timeout and close_timeout

ASSUME ProvisioningBounds ==
  /\ MaxCalls \in Nat /\ MaxDrops \in Nat /\ MaxScans \in Nat
  /\ Timeout \in Nat \ {0} /\ AttemptTimeout \in Nat \ {0} /\ IoTimeout \in Nat

Calls == 1..MaxCalls
NoPush == [kind |-> "none", uuid |-> 0, scan |-> 0]
NoSession == [device |-> 0]

\* The server's answers that say a device is linked: with its number, without
\* one, or with a body that is not such JSON.
Accepted == {"linked", "unnamed", "unreadable"}

PrimaryDeviceId == 1

VARIABLES
  call,       \* the link command now running, or that ran last
  pc,         \* where it is suspended
  ended,      \* how each command ended, "open" before that
  now, due,   \* time since the command began; when the timer now armed fires
  budget,     \* min(remaining, WS_ATTEMPT_TIMEOUT), taken before the dial
  sock,       \* number of sockets dialled; the server's uuid for the last one
  line,       \* state of that socket
  inbox,      \* pushes it holds for the client
  keepalive,  \* FALSE once its keepalive task died of ConnectionClosed
  uuid,       \* session_uuid, 0 for None
  shown,      \* the uuids in the URLs handed to on_url, in order
  held,       \* the envelope _read_provision_envelope returned
  then,       \* what follows the `finally': "return", "retry" or a failure
  drops, scans,
  ackedEnv,   \* history: commands that have acknowledged an envelope
  request,    \* the link request of each command, and the server's answer to it
  devices,    \* what the server holds for each linked device
  session,    \* Client._store after qr_login
  saved       \* the session file

attempt == <<sock, line, inbox, keepalive, uuid>>
server  == <<request, devices>>
vars == <<call, pc, ended, now, due, budget, attempt, shown, held, then, drops, scans,
          ackedEnv, server, session, saved>>

Waiting == pc \in {"get", "url"}          \* inside wait_for
Running == pc \notin {"idle", "done", "failed"}
Least(a, b) == IF a < b THEN a ELSE b

-----------------------------------------------------------------------------
(* What linking makes: keys are named by the command that generated them.   *)

Key(c, name) == <<c, name>>

\* signed_pre_key_entity, kyber_pre_key_entity, and the record the store keeps
\* under that id: the public half and the private one go by one name.
PreKey(c, name) == [keyId |-> 1, key |-> Key(c, name)]

\* build_account_attributes: of these only the registration ids matter here.
Attributes(c) ==
  [registrationId |-> Key(c, "aciRegistration"), pniRegistrationId |-> Key(c, "pniRegistration")]

\* build_link_device_request, with the credentials it is sent under.
LinkBody(c) ==
  [call |-> c, password |-> Key(c, "password"), attributes |-> Attributes(c),
   aciSigned |-> PreKey(c, "aciSigned"), aciKyber |-> PreKey(c, "aciKyber"),
   pniSigned |-> PreKey(c, "pniSigned"), pniKyber |-> PreKey(c, "pniKyber")]

EmptyAciStore(c) ==
  [registrationId |-> Key(c, "aciRegistration"), signed |-> {}, kyber |-> {}, oneTime |-> {}]

\* aci_store once the prekeys are generated into it.
AciStore(c) ==
  [EmptyAciStore(c) EXCEPT !.signed = {PreKey(c, "aciSigned")}, !.kyber = {PreKey(c, "aciKyber")},
                           !.oneTime = {PreKey(c, "aciOneTime")}]

\* SigsigStore.fresh.
Fresh(c, d) ==
  [device |-> d, password |-> Key(c, "password"), aci |-> EmptyAciStore(c)]

\* Fault: the store that generated the prekeys does not replace the fresh one.
LinkedFresh(c, d) == Fresh(c, d)

Linked(c, d) == [Fresh(c, d) EXCEPT !.aci = AciStore(c)]

-----------------------------------------------------------------------------
Init ==
  /\ call = 0 /\ pc = "idle" /\ ended = [c \in Calls |-> "open"]
  /\ now = 0 /\ due = 0 /\ budget = 0
  /\ sock = 0 /\ line = "none" /\ inbox = <<>> /\ keepalive = TRUE /\ uuid = 0
  /\ shown = <<>> /\ held = NoPush /\ then = "return"
  /\ drops = 0 /\ scans = 0 /\ ackedEnv = {}
  /\ request = [c \in Calls |-> "none"] /\ devices = <<>>
  /\ session = NoSession /\ saved = NoSession

\* The command ends; its process and its memory with it.
Ends(how) ==
  /\ pc' = IF how = "done" THEN "done" ELSE "failed"
  /\ ended' = [ended EXCEPT ![call] = how]

\* Fault: an attempt may always wait its full time.
BudgetFull(remaining) == AttemptTimeout

Budget(remaining) == Least(remaining, AttemptTimeout)

\* The top of the loop in _wait_for_envelope at time t: give up, or dial.
NextAttempt(t) ==
  IF Timeout > t
  THEN /\ pc' = "dial" /\ budget' = Budget(Timeout - t) /\ due' = t + IoTimeout
       /\ UNCHANGED ended
  ELSE Ends("timeout") /\ UNCHANGED <<budget, due>>

Start ==
  /\ ~Running /\ call < MaxCalls
  /\ call' = call + 1
  /\ pc' = "dial" /\ budget' = Budget(Timeout) /\ due' = IoTimeout /\ now' = 0
  /\ shown' = <<>> /\ held' = NoPush /\ drops' = 0 /\ scans' = 0
  /\ session' = NoSession
  /\ UNCHANGED <<ended, attempt, then, ackedEnv, server, saved>>

-----------------------------------------------------------------------------
(* One attempt.                                                             *)

\* Fault: session_uuid survives the attempt, as the temporary key does.
AttemptBeginsKeepingUuid ==
  /\ sock' = sock + 1 /\ line' = "silent" /\ inbox' = <<>> /\ keepalive' = TRUE
  /\ UNCHANGED uuid

AttemptBegins ==
  /\ sock' = sock + 1 /\ line' = "silent" /\ inbox' = <<>> /\ keepalive' = TRUE
  /\ uuid' = 0

Dialled ==
  /\ pc = "dial"
  /\ AttemptBegins
  /\ pc' = "get" /\ due' = now + budget
  /\ UNCHANGED <<call, ended, now, budget, shown, held, then, drops, scans, ackedEnv,
                 server, session, saved>>

\* TransportError from connect(), outside the `try'.
DialFails ==
  /\ pc = "dial" /\ Ends("dial")
  /\ UNCHANGED <<call, now, due, budget, attempt, shown, held, then, drops, scans, ackedEnv,
                 server, session, saved>>

Live == line \in {"silent", "open"}

\* The `finally' begins: ws.close(), after which comes how.
Leave(how) == pc' = "close" /\ then' = how /\ due' = now + IoTimeout

\* The first push: acknowledged, parsed as the address, put into the URL.
GetAddress ==
  /\ pc = "get" /\ inbox # <<>> /\ Live /\ uuid = 0
  /\ uuid' = Head(inbox).uuid /\ inbox' = Tail(inbox)
  /\ shown' = Append(shown, Head(inbox).uuid)
  /\ pc' = "url"
  /\ UNCHANGED <<call, ended, now, due, budget, sock, line, keepalive, held, then, drops, scans,
                 ackedEnv, server, session, saved>>

UrlReturns ==
  /\ pc = "url" /\ pc' = "get"
  /\ UNCHANGED <<call, ended, now, due, budget, attempt, shown, held, then, drops, scans, ackedEnv,
                 server, session, saved>>

UrlRaises ==
  /\ pc = "url" /\ Leave("callback")
  /\ UNCHANGED <<call, ended, now, budget, attempt, shown, held, drops, scans, ackedEnv,
                 server, session, saved>>

\* Any later push: acknowledged, parsed as the envelope, returned.  On an open
\* socket the acknowledgement does not suspend, so no timer comes in between.
GetEnvelope ==
  /\ pc = "get" /\ inbox # <<>> /\ Live /\ uuid # 0
  /\ held' = Head(inbox) /\ inbox' = Tail(inbox)
  /\ ackedEnv' = ackedEnv \cup {call}
  /\ Leave("return")
  /\ UNCHANGED <<call, ended, now, budget, sock, line, keepalive, uuid, shown, drops, scans,
                 server, session, saved>>

\* On a socket that is gone the acknowledgement raises ConnectionClosed.
AckRaises ==
  /\ pc = "get" /\ inbox # <<>> /\ ~Live
  /\ Leave("expired")
  /\ UNCHANGED <<call, ended, now, budget, attempt, shown, held, drops, scans, ackedEnv,
                 server, session, saved>>

\* The iteration ends without an envelope: _WebSocketExpired.
AttemptExpires ==
  /\ pc = "get" /\ inbox = <<>> /\ line = "ended"
  /\ Leave("retry")
  /\ UNCHANGED <<call, ended, now, budget, attempt, shown, held, drops, scans, ackedEnv,
                 server, session, saved>>

\* Fault: a timer that fires before the result is collected discards it.
AttemptTimesOutLate ==
  /\ (Waiting /\ now >= due) \/ (pc = "close" /\ then = "return")
  /\ Leave("retry")
  /\ UNCHANGED <<call, ended, now, budget, attempt, shown, held, drops, scans, ackedEnv,
                 server, session, saved>>

\* Fault: on_url is awaited outside wait_for.
AttemptTimesOutReading ==
  /\ pc = "get" /\ now >= due
  /\ Leave("retry")
  /\ UNCHANGED <<call, ended, now, budget, attempt, shown, held, drops, scans, ackedEnv,
                 server, session, saved>>

\* wait_for cancels the reader wherever it waits.
AttemptTimesOut ==
  /\ Waiting /\ now >= due
  /\ Leave("retry")
  /\ UNCHANGED <<call, ended, now, budget, attempt, shown, held, drops, scans, ackedEnv,
                 server, session, saved>>

\* ws.close() re-raises what the keepalive task died of, in place of whatever
\* the `try' was returning or raising.
CloseRaises ==
  /\ pc = "close" /\ ~keepalive
  /\ Ends("expired") /\ line' = "none"
  /\ UNCHANGED <<call, now, due, budget, sock, inbox, keepalive, uuid, shown, held, then, drops,
                 scans, ackedEnv, server, session, saved>>

CloseThenRetries ==
  /\ pc = "close" /\ keepalive /\ then = "retry"
  /\ line' = "none" /\ NextAttempt(now)
  /\ UNCHANGED <<call, now, sock, inbox, keepalive, uuid, shown, held, then, drops, scans,
                 ackedEnv, server, session, saved>>

CloseThenRaises ==
  /\ pc = "close" /\ keepalive /\ then \in {"expired", "callback"}
  /\ line' = "none" /\ Ends(then)
  /\ UNCHANGED <<call, now, due, budget, sock, inbox, keepalive, uuid, shown, held, then, drops,
                 scans, ackedEnv, server, session, saved>>

\* provisioning_cipher.decrypt raises on all but a body of the right version
\* whose MAC comes from the secret shared with our temporary key.
Decrypts(push) == push.kind # "garbled"

\* The message has both identity key pairs, the ACI and the PNI.  A public key
\* with bytes to spare passes as well: IdentityKey::decode ignores them.
IsComplete(push) == push.kind \in {"envelope", "longKey"}

\* The keys are generated and the link request goes out, all without a wait.
CloseThenLinks ==
  /\ pc = "close" /\ keepalive /\ then = "return" /\ Decrypts(held) /\ IsComplete(held)
  /\ line' = "none"
  /\ pc' = "put" /\ request' = [request EXCEPT ![call] = "sent"]
  /\ UNCHANGED <<call, ended, now, due, budget, sock, inbox, keepalive, uuid, shown, held, then,
                 drops, scans, ackedEnv, devices, session, saved>>

CloseThenRejects ==
  /\ pc = "close" /\ keepalive /\ then = "return" /\ ~(Decrypts(held) /\ IsComplete(held))
  /\ line' = "none" /\ Ends("protocol")
  /\ UNCHANGED <<call, now, due, budget, sock, inbox, keepalive, uuid, shown, held, then, drops,
                 scans, ackedEnv, server, session, saved>>

AttemptStep ==
  \/ GetAddress \/ GetEnvelope \/ AckRaises \/ AttemptExpires
  \/ AttemptTimesOut \/ CloseRaises \/ CloseThenRetries \/ CloseThenRaises
  \/ CloseThenLinks \/ CloseThenRejects

-----------------------------------------------------------------------------
(* The link request and the session file.                                   *)

DeviceOf(c) == CHOOSE i \in DOMAIN devices : devices[i].call = c

\* The deviceId of the answer, or its default.
AnsweredId(c) == IF request[c] = "unnamed" THEN PrimaryDeviceId ELSE DeviceOf(c) + 1

\* The whole of an answer that tells success: the body must parse, and the
\* public key shown in the URL, which PublicKey.deserialize takes at its exact
\* length only, must do so again.
IsUsable(answer, push) == answer \in {"linked", "unnamed"} /\ push.kind # "longKey"

\* Fault: the device id is not found in the answer, and its default taken.
PutAnsweredPrimary ==
  /\ pc = "put" /\ IsUsable(request[call], held)
  /\ session' = Linked(call, PrimaryDeviceId)
  /\ pc' = "save"
  /\ UNCHANGED <<call, ended, now, due, budget, attempt, shown, held, then, drops, scans, ackedEnv,
                 server, saved>>

PutAnswered ==
  /\ pc = "put" /\ IsUsable(request[call], held)
  /\ session' = Linked(call, AnsweredId(call))
  /\ pc' = "save"
  /\ UNCHANGED <<call, ended, now, due, budget, attempt, shown, held, then, drops, scans, ackedEnv,
                 server, saved>>

\* The device is linked, and yet no store comes of it.
PutAnswerRaises ==
  /\ pc = "put" /\ request[call] \in Accepted /\ ~IsUsable(request[call], held)
  /\ Ends("answer")
  /\ UNCHANGED <<call, now, due, budget, attempt, shown, held, then, drops, scans, ackedEnv,
                 server, session, saved>>

\* ServerError and its like: the request was refused.
PutRefused ==
  /\ pc = "put" /\ request[call] = "refused" /\ Ends("refused")
  /\ UNCHANGED <<call, now, due, budget, attempt, shown, held, then, drops, scans, ackedEnv,
                 server, session, saved>>

\* Fault: a request without an answer is sent again.
PutRepeats ==
  /\ pc = "put" /\ request[call] \in Accepted \cup {"sent"}
  /\ request' = [request EXCEPT ![call] = "sent"]
  /\ UNCHANGED <<call, pc, ended, now, due, budget, attempt, shown, held, then, drops, scans,
                 ackedEnv, devices, session, saved>>

\* TransportError: the connection failed or httpx timed out, and the request
\* or its answer is lost, or late.
PutFails ==
  /\ pc = "put" /\ Ends("lost")
  /\ UNCHANGED <<call, now, due, budget, attempt, shown, held, then, drops, scans, ackedEnv,
                 server, session, saved>>

\* save_session; the file is replaced at once or not at all (SessionFile).
Save ==
  /\ pc = "save"
  /\ \/ saved' = session /\ Ends("done")
     \/ UNCHANGED saved /\ Ends("save")
  /\ UNCHANGED <<call, now, due, budget, attempt, shown, held, then, drops, scans, ackedEnv,
                 server, session>>

Crash ==
  /\ Running /\ Ends("crash") /\ line' = "none"
  /\ UNCHANGED <<call, now, due, budget, sock, inbox, keepalive, uuid, shown, held, then, drops,
                 scans, ackedEnv, server, session, saved>>

-----------------------------------------------------------------------------
(* The server, the network, the primary and the clock.                      *)

ServerAssigns ==
  /\ line = "silent" /\ line' = "open"
  /\ inbox' = Append(inbox, [kind |-> "address", uuid |-> sock, scan |-> 0])
  /\ UNCHANGED <<call, pc, ended, now, due, budget, sock, keepalive, uuid, shown, held, then,
                 drops, scans, ackedEnv, server, session, saved>>

\* The primary scans a URL.  Its envelope reaches the socket of that address,
\* if it is still there; scanning an older URL changes nothing.
Scan(kind) ==
  /\ scans < MaxScans /\ scans' = scans + 1
  /\ line = "open" /\ sock \in {shown[i] : i \in DOMAIN shown}
  /\ inbox' = Append(inbox, [kind |-> kind, uuid |-> sock, scan |-> scans + 1])
  /\ UNCHANGED <<call, pc, ended, now, due, budget, sock, line, keepalive, uuid, shown, held,
                 then, drops, ackedEnv, server, session, saved>>

\* The server's session lifetime is over, or the connection is lost.
SocketDrops ==
  /\ Live /\ drops < MaxDrops /\ drops' = drops + 1
  /\ line' = "dropped"
  /\ UNCHANGED <<call, pc, ended, now, due, budget, sock, inbox, keepalive, uuid, shown, held,
                 then, scans, ackedEnv, server, session, saved>>

\* The keepalive task sends before the read task has noticed the end.
KeepaliveDies ==
  /\ line = "dropped" /\ keepalive /\ keepalive' = FALSE
  /\ UNCHANGED <<call, pc, ended, now, due, budget, sock, line, inbox, uuid, shown, held, then,
                 drops, scans, ackedEnv, server, session, saved>>

\* The read task notices, and queues the sentinel behind the pushes.
ReadEnds ==
  /\ line = "dropped" /\ line' = "ended"
  /\ UNCHANGED <<call, pc, ended, now, due, budget, sock, inbox, keepalive, uuid, shown, held,
                 then, drops, scans, ackedEnv, server, session, saved>>

\* A provisioning code works once.
ServerLinks(c) ==
  /\ request[c] = "sent" /\ \A i \in DOMAIN devices : devices[i].call # c
  /\ devices' = Append(devices, LinkBody(c))
  /\ \E answer \in Accepted : request' = [request EXCEPT ![c] = answer]
  /\ UNCHANGED <<call, pc, ended, now, due, budget, attempt, shown, held, then, drops, scans,
                 ackedEnv, session, saved>>

ServerRefuses(c) ==
  /\ request[c] = "sent"
  /\ request' = [request EXCEPT ![c] = "refused"]
  /\ UNCHANGED <<call, pc, ended, now, due, budget, attempt, shown, held, then, drops, scans,
                 ackedEnv, devices, session, saved>>

\* No timer is late: time passes only while none is due.
Tick ==
  /\ Waiting \/ pc \in {"dial", "close"}
  /\ now < due /\ now' = now + 1
  /\ UNCHANGED <<call, pc, ended, due, budget, attempt, shown, held, then, drops, scans, ackedEnv,
                 server, session, saved>>

External ==
  \/ ServerAssigns \/ SocketDrops \/ KeepaliveDies \/ ReadEnds
  \/ \E kind \in {"envelope", "garbled", "incomplete", "longKey"} : Scan(kind)
  \/ \E c \in Calls : ServerLinks(c) \/ ServerRefuses(c)

DialStep == Dialled \/ DialFails
LinkStep == PutAnswered \/ PutAnswerRaises \/ PutRefused \/ PutFails \/ Save

Next == \/ Start \/ DialStep \/ AttemptStep \/ UrlReturns \/ UrlRaises \/ LinkStep
        \/ Crash \/ External \/ Tick

\* The event loop runs what is ready, timers fire, and the libraries bound the
\* dial, the close and the request.  Nothing is asked of the server, of the
\* primary, or of on_url.
Fairness ==
  WF_vars(DialStep) /\ WF_vars(AttemptStep) /\ WF_vars(LinkStep) /\ WF_vars(Tick)

Spec == Init /\ [][Next]_vars /\ Fairness

-----------------------------------------------------------------------------
(* Properties.                                                              *)

Pushes == [kind : {"none", "address", "envelope", "garbled", "incomplete", "longKey"},
           uuid : Nat, scan : Nat]
Causes == {"open", "done", "timeout", "dial", "callback", "expired", "protocol", "refused",
           "answer", "lost", "save", "crash"}
LinkBodies == {LinkBody(c) : c \in Calls}
IsStored(s) ==
  s = NoSession \/ \E c \in Calls : s = Linked(c, s.device)
                                   /\ (s.device >= 2 \/ request[c] = "unnamed")

ProvisioningTypeOK ==
  /\ call \in 0..MaxCalls /\ ended \in [Calls -> Causes]
  /\ pc \in {"idle", "dial", "get", "url", "close", "put", "save", "done", "failed"}
  /\ now \in Nat /\ due \in Nat /\ budget \in 0..AttemptTimeout
  /\ sock \in Nat /\ line \in {"none", "silent", "open", "dropped", "ended"}
  /\ inbox \in Seq(Pushes) /\ keepalive \in BOOLEAN
  /\ uuid \in 0..sock /\ shown \in Seq(1..sock) /\ held \in Pushes
  /\ then \in {"return", "retry", "expired", "callback"}
  /\ drops \in 0..MaxDrops /\ scans \in 0..MaxScans /\ ackedEnv \in SUBSET Calls
  /\ request \in [Calls -> Accepted \cup {"none", "sent", "refused"}]
  /\ devices \in Seq(LinkBodies)
  /\ IsStored(session) /\ IsStored(saved)

\* A session file is that of a linked device: it has the password the server
\* holds for the device, the private half of every key peers will find there,
\* and its number, whatever earlier and later commands did.  Only a server
\* that names no device in its answer makes it pass for the primary.
SavedSessionIsLinked ==
  saved.device # 0 =>
    \E i \in DOMAIN devices : LET d == devices[i] IN
      /\ d.password = saved.password /\ d.attributes.registrationId = saved.aci.registrationId
      /\ d.aciSigned \in saved.aci.signed /\ d.aciKyber \in saved.aci.kyber
      /\ saved.device = IF request[d.call] = "unnamed" THEN PrimaryDeviceId ELSE i + 1

\* The server holds a device for a command that failed only if the answer was
\* lost, or could not be used, the process died or the file could not be
\* written.  After any other failure, a refusal above all, none is left behind.
FailureLeavesNoDevice ==
  \A i \in DOMAIN devices :
    ended[devices[i].call] \in {"open", "done", "lost", "answer", "crash", "save"}

\* An acknowledged envelope is not thrown away by the attempt's timer: the
\* command never goes on to show another code.
EnvelopeNotDiscarded ==
  call \in ackedEnv => pc \notin {"dial", "get", "url"}

\* What is decrypted as the envelope is what the primary sent to the address
\* in the URL last shown, however many sockets came before.
EnvelopeForLastUrl ==
  held # NoPush =>
    /\ held.kind # "address"
    /\ held.uuid = uuid /\ shown # <<>> /\ uuid = shown[Len(shown)]

\* Waiting for the primary overruns the deadline by no more than one dial and
\* one close, although the attempts only know what was left before they dialled.
WaitEndsInTime ==
  pc \in {"dial", "get", "url", "close"} => now <= Timeout + 2 * IoTimeout

\* Linking ends, if need be by a timeout, whatever the others do.
LinkingEnds == Running ~> ~Running

\* flow.py: "closes with ``CLOSE 1000 Timeout`` regardless of keepalives, so
\* link_device transparently reconnects": the end of a socket is no failure.
ExpiryReconnects == \A c \in Calls : ended[c] # "expired"
=============================================================================
