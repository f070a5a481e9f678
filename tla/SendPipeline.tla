---------------------------- MODULE SendPipeline ----------------------------
(***************************************************************************)
(* Sending: send_text_message, send_group_text_message and _deliver_to_one *)
(* of send.py, over HttpClient.request of transport/http.py and the        *)
(* sessions and identities of the SignalStore (rust lib.rs).               *)
(*                                                                         *)
(* Any number of sends run as asyncio tasks on one store.  A send suspends *)
(* while it fetches the recipient's bundles and while it puts its messages *)
(* up; all it does to the store in between is one step.  Meanwhile the     *)
(* recipients' devices come and go, and the receive task advances the same *)
(* store.                                                                  *)
(*                                                                         *)
(* An address is a pair <<account, device id>>; an account's device 1 is   *)
(* its primary.  An installation is what an app generates when it          *)
(* registers: a registration id, and the identity key of its account.      *)
(* External, modelled from their use: the server's device registry, and    *)
(* libsignal, of which a session is here the installation it was made      *)
(* with, whether that has answered yet, and the next message key.          *)
(***************************************************************************)
EXTENDS Naturals, FiniteSets, Sequences

CONSTANTS Sends,    \* the tasks that call send_message, once each
          GroupSends, \* those of them that send to the group
          Addrs,    \* the addresses that may exist
          Us,       \* our own address
          Group,    \* the members of the group, a sequence of accounts
          MaxReg,   \* bound: registration ids the server gives out
          MaxBase   \* bound: sessions made with one address

Accounts == {x[1] : x \in Addrs}
Primary(a) == <<a, 1>>

ASSUME SendAssumption ==
  /\ IsFiniteSet(Addrs) /\ Us \in Addrs /\ \A a \in Accounts : Primary(a) \in Addrs
  /\ GroupSends \subseteq Sends /\ Group \in Seq(Accounts)
  /\ MaxReg \in Nat \ {0} /\ MaxBase \in Nat \ {0}

VARIABLES
  device,    \* the server's registry: the installation at each address, or None
  lastReg,   \* the last registration id given out
  session,   \* SessionsPart: the session record for each address
  known,     \* IdentityPart.known: the identity recorded for each address, or 0
  lapsed,    \* addresses whose unanswered session libsignal holds to be too old
  pc,        \* where each send is suspended, or how it ended
  todo,      \* the recipients it has yet to deliver to, the current one first
  bundle,    \* the installations in the bundles it fetched, None elsewhere
  msgs,      \* the messages of its PUT
  result,    \* history: what came of each recipient
  sealed,    \* history: every message encrypted
  accepted   \* history: every message the server accepted

storeVars == <<session, known, lapsed>>
sendVars  == <<pc, todo, bundle, msgs, result>>
vars == <<device, lastReg, storeVars, sendVars, sealed, accepted>>

None == [reg |-> 0, ident |-> 0]
Installations == [reg : 0..MaxReg, ident : 0..MaxReg]
SessionRecords == [with : Installations, base : 0..MaxBase, next : Nat, acked : BOOLEAN]
NoSession == [with |-> None, base |-> 0, next |-> 1, acked |-> TRUE]

Of(a)      == {x \in Addrs : x[1] = a}
Current(s) == Head(todo[s])
Ended(s)   == pc[s] \in {"returned", "raised", "cancelled"}

Init ==
  /\ \E linked \in SUBSET Addrs :
       device = [x \in Addrs |-> IF x \in linked \cup {Us, Primary(x[1])}
                                 THEN [reg |-> 1, ident |-> 1] ELSE None]
  /\ lastReg = 1
  /\ session = [x \in Addrs |-> NoSession] /\ known = [x \in Addrs |-> 0] /\ lapsed = {}
  /\ pc = [s \in Sends |-> "idle"]
  /\ todo = [s \in Sends |-> <<>>]
  /\ bundle = [s \in Sends |-> [x \in Addrs |-> None]]
  /\ msgs = [s \in Sends |-> {}]
  /\ result = [s \in Sends |-> [a \in Accounts |-> "none"]]
  /\ sealed = {} /\ accepted = {}

-----------------------------------------------------------------------------
(* The recipients' devices.                                                 *)

Register(x, ident) ==
  /\ lastReg < MaxReg /\ lastReg' = lastReg + 1
  /\ device' = [y \in Addrs |->
       IF y = x THEN [reg |-> lastReg + 1, ident |-> ident]
       ELSE IF y[1] = x[1] /\ ident # device[y].ident THEN None ELSE device[y]]

\* The account starts over: a new identity, and only its primary device.
Reinstalls(a) ==
  /\ a # Us[1] /\ Register(Primary(a), lastReg + 1)
  /\ UNCHANGED <<storeVars, sendVars, sealed, accepted>>

Links(x) ==
  /\ device[x] = None /\ Register(x, device[Primary(x[1])].ident)
  /\ UNCHANGED <<storeVars, sendVars, sealed, accepted>>

Unlinks(x) ==
  /\ x # Us /\ x # Primary(x[1]) /\ device[x] # None
  /\ device' = [device EXCEPT ![x] = None]
  /\ UNCHANGED <<lastReg, storeVars, sendVars, sealed, accepted>>

-----------------------------------------------------------------------------
(* The store.                                                               *)

\* Fault: a new identity is accepted like the first one.
TrustsAnything(x, inst) == TRUE

\* is_trusted_identity: the first identity seen at an address, or the same.
Trusted(x, inst) == known[x] \in {0, inst.ident}

\* What encrypt() does not report as "not found".
Usable(x) == session[x].with # None /\ (session[x].acked \/ x \notin lapsed)

NewSession(x, inst, answered) ==
  [with |-> inst, base |-> session[x].base + 1, next |-> 1, acked |-> answered]

\* Fault: the bundle is installed whether or not there is a session.
ReadyAlways(x, inst) == NewSession(x, inst, FALSE)

\* _install_bundle, where it is needed.
Ready(x, inst) == IF Usable(x) THEN session[x] ELSE NewSession(x, inst, FALSE)

\* The device has read a message of the session, and its answer is decrypted.
PeerAnswers(x) ==
  /\ ~session[x].acked
  /\ \E m \in accepted : m.addr = x /\ m.base = session[x].base /\ m.with = device[x]
  /\ session' = [session EXCEPT ![x].acked = TRUE]
  /\ UNCHANGED <<device, lastReg, known, lapsed, sendVars, sealed, accepted>>

\* Fault: the identity is not recorded.
PeerInitiatesUnknown(x) ==
  /\ x # Us /\ device[x] # None /\ Trusted(x, device[x]) /\ session[x].base < MaxBase
  /\ session' = [session EXCEPT ![x] = NewSession(x, device[x], TRUE)]
  /\ lapsed' = lapsed \ {x}
  /\ UNCHANGED <<device, lastReg, known, sendVars, sealed, accepted>>

\* The device writes to us: decrypt_prekey, if its identity is trusted.
PeerInitiates(x) ==
  /\ x # Us /\ device[x] # None /\ Trusted(x, device[x]) /\ session[x].base < MaxBase
  /\ session' = [session EXCEPT ![x] = NewSession(x, device[x], TRUE)]
  /\ known' = [known EXCEPT ![x] = device[x].ident]
  /\ lapsed' = lapsed \ {x}
  /\ UNCHANGED <<device, lastReg, sendVars, sealed, accepted>>

Lapses(x) ==
  /\ session[x].with # None /\ ~session[x].acked /\ x \notin lapsed
  /\ session[x].base < MaxBase
  /\ lapsed' = lapsed \cup {x}
  /\ UNCHANGED <<device, lastReg, session, known, sendVars, sealed, accepted>>

-----------------------------------------------------------------------------
(* One recipient: _deliver_to_one.                                          *)

Goto(s, where) == pc' = [pc EXCEPT ![s] = where]

\* Fault: our own device is not skipped.
TargetsAll(s) == {x \in Addrs : bundle[s][x] # None}

\* The devices encrypted to: those in the bundles, without ourselves.
Targets(s) == {x \in Addrs : bundle[s][x] # None /\ x # Us}

\* Faults: no exception escapes; the whole group send is given up after one;
\* a member is tried again until it works.
FinishContained(s, outcome) ==
  /\ result' = [result EXCEPT ![s][Current(s)] = outcome]
  /\ todo' = [todo EXCEPT ![s] = Tail(@)]
  /\ Goto(s, IF s \in GroupSends THEN "looping" ELSE "returned")
  /\ msgs' = [msgs EXCEPT ![s] = {}]

FinishAborts(s, outcome) ==
  /\ result' = [result EXCEPT ![s][Current(s)] = outcome]
  /\ todo' = [todo EXCEPT ![s] = Tail(@)]
  /\ Goto(s, IF s \in GroupSends /\ outcome = "accepted" THEN "looping" ELSE "returned")
  /\ msgs' = [msgs EXCEPT ![s] = {}]

FinishRetries(s, outcome) ==
  /\ result' = [result EXCEPT ![s][Current(s)] = outcome]
  /\ todo' = [todo EXCEPT ![s] = IF outcome = "accepted" THEN Tail(@) ELSE @]
  /\ Goto(s, IF s \in GroupSends THEN "looping" ELSE IF outcome = "accepted" THEN "returned" ELSE "raised")
  /\ msgs' = [msgs EXCEPT ![s] = {}]

\* The outcome for one recipient: an exception ends a direct send, while a
\* group send goes on to the next member.
Finish(s, outcome) ==
  /\ result' = [result EXCEPT ![s][Current(s)] = outcome]
  /\ todo' = [todo EXCEPT ![s] = Tail(@)]
  /\ Goto(s, IF s \in GroupSends THEN "looping" ELSE IF outcome = "accepted" THEN "returned" ELSE "raised")
  /\ msgs' = [msgs EXCEPT ![s] = {}]

ServerGivesBundles(s) ==
  /\ pc[s] = "fetching" /\ Goto(s, "fetched")
  /\ bundle' = [bundle EXCEPT ![s] =
                  [x \in Addrs |-> IF x[1] = Current(s) THEN device[x] ELSE None]]
  /\ UNCHANGED <<device, lastReg, storeVars, todo, msgs, result, sealed, accepted>>

\* No answer, an error status, or a bundle that lacks a key.
FetchFails(s) ==
  /\ pc[s] = "fetching" /\ Finish(s, "failed")
  /\ UNCHANGED <<device, lastReg, storeVars, bundle, sealed, accepted>>

Refused(s) == {x \in Targets(s) : ~Usable(x) /\ ~Trusted(x, bundle[s][x])}

\* Fault: each new session is made with the keys of the first device.
MessageMixed(s, x) ==
  LET r == Ready(x, bundle[s][Primary(x[1])])
  IN  [by |-> s, addr |-> x, with |-> r.with, base |-> r.base, n |-> r.next,
       fresh |-> ~Usable(x), reg |-> bundle[s][x].reg]

\* One entry of the PUT: the ciphertext, and destinationRegistrationId.
Message(s, x) ==
  LET r == Ready(x, bundle[s][x])
  IN  [by |-> s, addr |-> x, with |-> r.with, base |-> r.base, n |-> r.next,
       fresh |-> ~Usable(x), reg |-> bundle[s][x].reg]

\* Fault: an existing session is not stored back.
EncryptedUnsaved(s, devices) ==
  LET r(x) == Ready(x, bundle[s][x])
      fresh == {x \in devices : ~Usable(x)}
  IN  /\ session' = [x \in Addrs |-> IF x \in fresh THEN [r(x) EXCEPT !.next = @ + 1]
                                     ELSE session[x]]
      /\ known' = [x \in Addrs |-> IF x \in devices THEN r(x).with.ident ELSE known[x]]
      /\ lapsed' = lapsed \ fresh
      /\ sealed' = sealed \cup {Message(s, x) : x \in devices}

\* What encrypting to some devices does to the store.
Encrypted(s, devices) ==
  LET r(x) == Ready(x, bundle[s][x])
      fresh == {x \in devices : ~Usable(x)}
  IN  /\ session' = [x \in Addrs |-> IF x \in devices THEN [r(x) EXCEPT !.next = @ + 1]
                                     ELSE session[x]]
      /\ known' = [x \in Addrs |-> IF x \in devices THEN r(x).with.ident ELSE known[x]]
      /\ lapsed' = lapsed \ fresh
      /\ sealed' = sealed \cup {Message(s, x) : x \in devices}

Encrypts(s) ==
  /\ pc[s] = "fetched" /\ Refused(s) = {}
  /\ Encrypted(s, Targets(s))
  /\ msgs' = [msgs EXCEPT ![s] = {Message(s, x) : x \in Targets(s)}]
  /\ Goto(s, "putting")
  /\ UNCHANGED <<device, lastReg, todo, bundle, result, accepted>>

\* libsignal's UntrustedIdentity is a RuntimeError that is not about a session
\* "not found"; the devices that came before keep their advanced sessions.
EncryptRefused(s) ==
  /\ pc[s] = "fetched" /\ Refused(s) # {}
  /\ \E before \in SUBSET (Targets(s) \ Refused(s)) : Encrypted(s, before)
  /\ Finish(s, "untrusted")
  /\ UNCHANGED <<device, lastReg, bundle, accepted>>

\* The server's verdict on a PUT; 409 comes before 410.
Verdict(s) ==
  LET required == {x \in Of(Current(s)) : device[x] # None /\ x # Us}
  IN  IF {m.addr : m \in msgs[s]} # required THEN "mismatched"
      ELSE IF \E m \in msgs[s] : m.reg # device[m.addr].reg THEN "stale"
      ELSE "accepted"

Arrives(s) ==
  accepted' = IF Verdict(s) = "accepted" THEN accepted \cup msgs[s] ELSE accepted

PutAnswered(s) ==
  /\ pc[s] = "putting" /\ Arrives(s)
  /\ Finish(s, Verdict(s))
  /\ UNCHANGED <<device, lastReg, storeVars, bundle, sealed>>

\* The request, or only its answer, is lost; or the server refuses for reasons
\* of its own (any other status).
PutFails(s) ==
  /\ pc[s] = "putting" /\ (Arrives(s) \/ UNCHANGED accepted)
  /\ Finish(s, "failed")
  /\ UNCHANGED <<device, lastReg, storeVars, bundle, sealed>>

-----------------------------------------------------------------------------
(* The calls.                                                               *)

\* An attachment cannot be uploaded: nothing is sent to anybody.
UploadFails(s) ==
  /\ pc[s] = "idle" /\ Goto(s, "raised")
  /\ UNCHANGED <<device, lastReg, storeVars, todo, bundle, msgs, result, sealed, accepted>>

SendsDirect(s) ==
  /\ pc[s] = "idle" /\ s \notin GroupSends /\ Goto(s, "fetching")
  /\ \E a \in Accounts : todo' = [todo EXCEPT ![s] = <<a>>]
  /\ UNCHANGED <<device, lastReg, storeVars, bundle, msgs, result, sealed, accepted>>

SendsToGroup(s) ==
  /\ pc[s] = "idle" /\ s \in GroupSends /\ Goto(s, "looping")
  /\ todo' = [todo EXCEPT ![s] = Group]
  /\ UNCHANGED <<device, lastReg, storeVars, bundle, msgs, result, sealed, accepted>>

NextMember(s) ==
  /\ pc[s] = "looping" /\ todo[s] # <<>>
  /\ IF Current(s) = Us[1]
     THEN todo' = [todo EXCEPT ![s] = Tail(@)] /\ UNCHANGED pc
     ELSE Goto(s, "fetching") /\ UNCHANGED todo
  /\ UNCHANGED <<device, lastReg, storeVars, bundle, msgs, result, sealed, accepted>>

GroupReturns(s) ==
  /\ pc[s] = "looping" /\ todo[s] = <<>> /\ Goto(s, "returned")
  /\ UNCHANGED <<device, lastReg, storeVars, todo, bundle, msgs, result, sealed, accepted>>

\* CancelledError is contained nowhere; a PUT under way may still be accepted.
Cancelled(s) ==
  /\ pc[s] \in {"fetching", "putting"} /\ Goto(s, "cancelled")
  /\ (pc[s] = "putting" /\ Arrives(s)) \/ UNCHANGED accepted
  /\ UNCHANGED <<device, lastReg, storeVars, todo, bundle, msgs, result, sealed>>

SendStep(s) == \/ ServerGivesBundles(s) \/ FetchFails(s) \/ Encrypts(s) \/ EncryptRefused(s)
               \/ PutAnswered(s) \/ PutFails(s) \/ NextMember(s) \/ GroupReturns(s)

Next ==
  \/ \E a \in Accounts : Reinstalls(a)
  \/ \E x \in Addrs : \/ Links(x) \/ Unlinks(x)
                      \/ PeerAnswers(x) \/ PeerInitiates(x) \/ Lapses(x)
  \/ \E s \in Sends : \/ UploadFails(s) \/ SendsDirect(s) \/ SendsToGroup(s)
                      \/ SendStep(s) \/ Cancelled(s)

\* A request is answered or times out (HttpClient's timeout), and the event
\* loop runs what is ready.
Spec == Init /\ [][Next]_vars /\ \A s \in Sends : WF_vars(SendStep(s))

-----------------------------------------------------------------------------
(* Properties.                                                              *)

Messages == [by : Sends, addr : Addrs, with : Installations, base : 0..MaxBase,
             n : Nat, fresh : BOOLEAN, reg : 0..MaxReg]

SendTypeOK ==
  /\ device \in [Addrs -> Installations] /\ lastReg \in 1..MaxReg
  /\ session \in [Addrs -> SessionRecords]
  /\ known \in [Addrs -> 0..MaxReg] /\ lapsed \in SUBSET Addrs
  /\ pc \in [Sends -> {"idle", "looping", "fetching", "fetched", "putting", "returned",
                       "raised", "cancelled"}]
  /\ todo \in [Sends -> Seq(Accounts)]
  /\ bundle \in [Sends -> [Addrs -> Installations]]
  /\ msgs \in [Sends -> SUBSET Messages]
  /\ result \in [Sends -> [Accounts -> {"none", "accepted", "failed", "mismatched",
                                        "stale", "untrusted"}]]
  /\ sealed \in SUBSET Messages /\ accepted \in SUBSET sealed

\* However sends interleave at their awaits, with each other and with what is
\* received, no message key of a session encrypts twice.
NoMessageKeyTwice ==
  \A m1, m2 \in sealed :
    m1.addr = m2.addr /\ m1.base = m2.base /\ m1.n = m2.n => m1.by = m2.by

\* A session is always one with the identity that is recorded for its address,
\* also if the bundle it was made from was fetched before the identity changed.
SessionsMatchKnown == \A x \in Addrs : session[x].with.ident = known[x]

\* The identity recorded for an address is never replaced, although
\* save_identity would replace it: the trust checks come first.
IdentityPinned == [][\A x \in Addrs : known[x] # 0 => known'[x] = known[x]]_vars

\* 409 and 410 are answered only to a send during which the recipient's
\* devices changed: what was fetched last always suits the server.
RefusedOnlyByChange ==
  [][\A s \in Sends, a \in Accounts :
       result'[s][a] # result[s][a] /\ result'[s][a] \in {"mismatched", "stale"} =>
         \E x \in Of(a) : bundle[s][x] # device[x]]_vars

\* A message whose session the send made for it is accepted only if the device
\* can read it: one that was replaced between the fetch of the bundles and the
\* PUT makes the server refuse.
NewSessionsReadable ==
  [][\A m \in accepted' \ accepted : m.fresh => m.with = device[m.addr]]_vars

\* A direct send that returns has had a message accepted for each device of
\* the recipient that was in the bundles.
ReturnMeansAccepted ==
  \A s \in Sends : pc[s] = "returned" /\ s \notin GroupSends =>
    {m.addr : m \in {m \in accepted : m.by = s}} = Targets(s)

\* A group send that returns has tried every member but ourselves, whatever
\* became of the others.
GroupTriesEveryMember ==
  \A s \in Sends : pc[s] = "returned" /\ s \in GroupSends =>
    \A i \in 1..Len(Group) : (result[s][Group[i]] = "none") <=> (Group[i] = Us[1])

\* Every send comes to an end.
SendEnds == \A s \in Sends : pc[s] # "idle" ~> Ended(s)

\* README: "except sigsig.StaleDevices as exc: # some of our sessions are
\* stale; drop them and retry".  The server can only tell by the registration
\* id, and send.py always sends the one just fetched, whatever installation
\* the session is with: the message is accepted and can never be read.
StaleSessionsAreReported ==
  [][\A m \in accepted' \ accepted : m.with = device[m.addr]]_vars
=============================================================================
