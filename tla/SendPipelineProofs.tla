------------------------- MODULE SendPipelineProofs -------------------------
(* Safety of SendPipeline for every number of sends, devices, registrations *)
(* and sessions: what the sends that run at once on one store may do to the *)
(* sessions and the identities, and what each of them reports.              *)
EXTENDS SendPipeline, TLAPS

USE SendAssumption

\* A session number is only drawn where there is room for it.
BaseInv ==
  \A x \in Addrs : /\ session[x].with = None => session[x].base = 0
                   /\ x \in lapsed /\ ~session[x].acked => session[x].base < MaxBase

\* A send that is at work on a recipient has one, and puts up what it sealed.
SendInv ==
  \A s \in Sends : /\ pc[s] \in {"fetching", "fetched", "putting"} => todo[s] # <<>>
                   /\ msgs[s] \subseteq sealed

\* Every message sealed used a key of the present session or of one before.
Spent(m) == /\ m.base <= session[m.addr].base
            /\ m.base = session[m.addr].base => m.n < session[m.addr].next
SealedInv == \A m \in sealed : Spent(m)

SInv == /\ SendTypeOK /\ BaseInv /\ SendInv
        /\ SessionsMatchKnown /\ SealedInv /\ NoMessageKeyTwice

-----------------------------------------------------------------------------
\* What encrypt() finds or installs is a session record, of the session there
\* was or of the next one, with the identity that will be recorded.
LEMMA ReadyRecord ==
  ASSUME SInv, NEW x \in Addrs, NEW inst \in Installations
  PROVE  /\ Ready(x, inst) \in SessionRecords
         /\ Usable(x) => Ready(x, inst) = session[x]
         /\ ~Usable(x) => Ready(x, inst).base = session[x].base + 1
         /\ ~Usable(x) => Ready(x, inst).with = inst
<1> USE DEF SInv, SendTypeOK, SessionRecords
<1>1. CASE Usable(x)
  BY <1>1 DEF Ready
<1>2. CASE ~Usable(x)
  <2>1. session[x].base < MaxBase
    BY <1>2 DEF Usable, BaseInv
  <2> QED
    BY <1>2, <2>1 DEF Ready, NewSession
<1> QED
  BY <1>1, <1>2

LEMMA SInvInit == Init => SInv
<1> SUFFICES ASSUME Init PROVE SInv
  OBVIOUS
<1> USE DEF Init
<1>1. NoSession \in SessionRecords /\ None \in Installations
  BY DEF NoSession, None, SessionRecords, Installations
<1>2. device \in [Addrs -> Installations]
  BY <1>1 DEF Installations
<1>3. session \in [Addrs -> SessionRecords] /\ bundle \in [Sends -> [Addrs -> Installations]]
  BY <1>1
<1>4. SendTypeOK
  BY <1>2, <1>3 DEF SendTypeOK
<1>5. BaseInv /\ SessionsMatchKnown
  BY DEF BaseInv, SessionsMatchKnown, NoSession, None
<1>6. SendInv /\ SealedInv /\ NoMessageKeyTwice
  BY DEF SendInv, SealedInv, NoMessageKeyTwice
<1> QED
  BY <1>4, <1>5, <1>6 DEF SInv

-----------------------------------------------------------------------------
\* Encrypting to some of a send's targets, whatever they are.
StoreInv == /\ session \in [Addrs -> SessionRecords] /\ known \in [Addrs -> 0..MaxReg]
            /\ lapsed \in SUBSET Addrs /\ sealed \in SUBSET Messages
            /\ BaseInv /\ SessionsMatchKnown /\ SealedInv /\ NoMessageKeyTwice

LEMMA EncryptedStore ==
  ASSUME SInv, NEW s \in Sends, NEW devices \in SUBSET Targets(s), Encrypted(s, devices)
  PROVE  StoreInv' /\ sealed \subseteq sealed'
<1> DEFINE r(x) == Ready(x, bundle[s][x])
<1>1. \A x \in devices :
        /\ x \in Addrs /\ bundle[s][x] \in Installations /\ bundle[s][x] # None
        /\ r(x) \in SessionRecords
        /\ Usable(x) => r(x) = session[x]
        /\ ~Usable(x) => r(x).base = session[x].base + 1 /\ r(x).with = bundle[s][x]
  BY ReadyRecord DEF SInv, SendTypeOK, Targets
<1>2. \A x \in Addrs : session[x] \in SessionRecords
  BY DEF SInv, SendTypeOK
<1>3. \A x \in devices :
        /\ session'[x] = [r(x) EXCEPT !.next = r(x).next + 1]
        /\ session'[x] \in SessionRecords
        /\ session'[x].with = r(x).with /\ session'[x].base = r(x).base
        /\ session'[x].acked = r(x).acked /\ session'[x].next = r(x).next + 1
        /\ known'[x] = r(x).with.ident
  BY <1>1 DEF Encrypted, SessionRecords
<1>4. \A x \in Addrs \ devices : session'[x] = session[x] /\ known'[x] = known[x]
  BY DEF Encrypted
<1>5. session' \in [Addrs -> SessionRecords]
  <2>1. DOMAIN session' = Addrs /\ session' = [x \in Addrs |-> session'[x]]
    BY DEF Encrypted
  <2> QED
    BY <2>1, <1>2, <1>3, <1>4
<1>6. known' \in [Addrs -> 0..MaxReg]
  <2>1. known' = [x \in Addrs |-> known'[x]]
    BY DEF Encrypted
  <2>2. \A x \in devices : known'[x] \in 0..MaxReg
    BY <1>1, <1>3 DEF SessionRecords, Installations
  <2> QED
    BY <2>1, <2>2, <1>4 DEF SInv, SendTypeOK
<1>7. lapsed' \subseteq lapsed /\ lapsed' \in SUBSET Addrs
  BY DEF Encrypted, SInv, SendTypeOK
<1>8. \A x \in devices : Message(s, x) \in Messages /\ Message(s, x).addr = x
        /\ Message(s, x).by = s
        /\ Message(s, x).base = r(x).base /\ Message(s, x).n = r(x).next
  BY <1>1 DEF Message, Messages, SessionRecords, Installations
<1>9. sealed' = sealed \cup {Message(s, x) : x \in devices}
  BY DEF Encrypted
<1>10. sealed' \in SUBSET Messages
  BY <1>8, <1>9 DEF SInv, SendTypeOK
<1>11. BaseInv'
  <2> SUFFICES ASSUME NEW x \in Addrs
               PROVE  /\ session'[x].with = None => session'[x].base = 0
                      /\ x \in lapsed' /\ ~session'[x].acked => session'[x].base < MaxBase
    BY DEF BaseInv
  <2>1. CASE x \in devices /\ Usable(x)
    <3>1. /\ session'[x].with = session[x].with /\ session'[x].base = session[x].base
          /\ session'[x].acked = session[x].acked
      <4> HIDE DEF r
      <4>1. r(x) = session[x]
        BY <2>1, <1>1, Zenon
      <4> QED
        BY <2>1, <4>1, <1>3, Zenon
    <3>2. /\ session[x].with = None => session[x].base = 0
          /\ x \in lapsed /\ ~session[x].acked => session[x].base < MaxBase
      BY DEF SInv, BaseInv
    <3>3. x \in lapsed' => x \in lapsed
      BY <1>7
    <3> HIDE DEF r
    <3> QED
      BY <3>1, <3>2, <3>3
  <2>2. CASE x \in devices /\ ~Usable(x)
    <3>1. x \notin lapsed'
      BY <2>2 DEF Encrypted
    <3> QED
      BY <2>2, <3>1, <1>1, <1>3
  <2>3. CASE x \notin devices
    BY <2>3, <1>4, <1>7 DEF SInv, BaseInv
  <2> QED
    BY <2>1, <2>2, <2>3
<1>12. SessionsMatchKnown'
  BY <1>3, <1>4 DEF SessionsMatchKnown, SInv
<1>13. \A x \in devices : \/ r(x).base = session[x].base /\ r(x).next = session[x].next
                          \/ r(x).base = session[x].base + 1
  BY <1>1
<1>14. \A m \in sealed : m \in Messages /\ Spent(m)
  BY DEF SInv, SendTypeOK, SealedInv
<1>15. SealedInv'
  <2> SUFFICES ASSUME NEW m \in sealed'
               PROVE  /\ m.base <= session'[m.addr].base
                      /\ m.base = session'[m.addr].base => m.n < session'[m.addr].next
    BY DEF SealedInv, Spent
  <2>1. CASE m \in sealed /\ m.addr \in devices
    <3>1. m.base \in Nat /\ m.n \in Nat
          /\ session[m.addr].base \in Nat /\ session[m.addr].next \in Nat
      BY <2>1, <1>2, <1>14 DEF Messages, SessionRecords
    <3>2. m.base <= session[m.addr].base
          /\ (m.base = session[m.addr].base => m.n < session[m.addr].next)
      BY <2>1, <1>14 DEF Spent
    <3>3. \/ session'[m.addr].base = session[m.addr].base
             /\ session'[m.addr].next = session[m.addr].next + 1
          \/ session'[m.addr].base = session[m.addr].base + 1
      <4> HIDE DEF r
      <4> QED
        <5>1. \/ r(m.addr).base = session[m.addr].base /\ r(m.addr).next = session[m.addr].next
              \/ r(m.addr).base = session[m.addr].base + 1
          BY <2>1, <1>13, Zenon
        <5>2. /\ session'[m.addr].base = r(m.addr).base
              /\ session'[m.addr].next = r(m.addr).next + 1
          BY <2>1, <1>3, Zenon
        <5> QED
          BY <5>1, <5>2
    <3> QED
      BY <3>1, <3>2, <3>3
  <2>2. CASE m \in sealed /\ m.addr \notin devices
    BY <2>2, <1>4, <1>14 DEF Spent, Messages
  <2>3. CASE m \notin sealed
    <3>1. PICK x \in devices : m = Message(s, x)
      BY <2>3, <1>9
    <3>2. r(x).base \in Nat /\ r(x).next \in Nat
      BY <3>1, <1>1 DEF SessionRecords
    <3>3. m.addr = x /\ m.base = r(x).base /\ m.n = r(x).next
      BY <3>1, <1>8
    <3>4. session'[x].base = r(x).base /\ session'[x].next = r(x).next + 1
      BY <1>3
    <3> HIDE DEF r
    <3> QED
      BY <3>2, <3>3, <3>4
  <2> QED
    BY <2>1, <2>2, <2>3
<1>16. \A m \in sealed, x \in devices :
         ~(m.addr = x /\ m.base = r(x).base /\ m.n = r(x).next)
  <2> SUFFICES ASSUME NEW m \in sealed, NEW x \in devices, m.addr = x
               PROVE  ~(m.base = r(x).base /\ m.n = r(x).next)
    OBVIOUS
  <2>1. m.base \in Nat /\ m.n \in Nat /\ session[x].base \in Nat /\ session[x].next \in Nat
    BY <1>1, <1>2, <1>14 DEF Messages, SessionRecords
  <2>2. m.base <= session[x].base /\ (m.base = session[x].base => m.n < session[x].next)
    BY <1>14 DEF Spent
  <2> HIDE DEF r
  <2> QED
    BY <1>13, <2>1, <2>2
<1>17. NoMessageKeyTwice'
  <2> SUFFICES ASSUME NEW m1 \in sealed', NEW m2 \in sealed',
                      m1.addr = m2.addr, m1.base = m2.base, m1.n = m2.n
               PROVE  m1.by = m2.by
    BY DEF NoMessageKeyTwice
  <2>1. CASE m1 \in sealed /\ m2 \in sealed
    BY <2>1 DEF SInv, NoMessageKeyTwice
  <2> HIDE DEF r
  <2>2. CASE m1 \in sealed /\ m2 \notin sealed
    BY <2>2, <1>8, <1>9, <1>16
  <2>3. CASE m1 \notin sealed /\ m2 \in sealed
    BY <2>3, <1>8, <1>9, <1>16
  <2>4. CASE m1 \notin sealed /\ m2 \notin sealed
    BY <2>4, <1>8, <1>9
  <2> QED
    BY <2>1, <2>2, <2>3, <2>4
<1> QED
  BY <1>5, <1>6, <1>7, <1>9, <1>10, <1>11, <1>12, <1>15, <1>17 DEF StoreInv

-----------------------------------------------------------------------------
\* The other half of SInv: the recipients' devices, and where the sends are.
DeviceInv == device \in [Addrs -> Installations] /\ lastReg \in 1..MaxReg

SendsInv ==
  /\ pc \in [Sends -> {"idle", "looping", "fetching", "fetched", "putting", "returned",
                       "raised", "cancelled"}]
  /\ todo \in [Sends -> Seq(Accounts)]
  /\ bundle \in [Sends -> [Addrs -> Installations]]
  /\ msgs \in [Sends -> SUBSET Messages]
  /\ result \in [Sends -> [Accounts -> {"none", "accepted", "failed", "mismatched",
                                        "stale", "untrusted"}]]
  /\ accepted \in SUBSET sealed
  /\ SendInv

LEMMA SInvParts ==
  /\ SInv <=> DeviceInv /\ StoreInv /\ SendsInv
  /\ SInv' <=> DeviceInv' /\ StoreInv' /\ SendsInv'
  BY DEF SInv, SendTypeOK, DeviceInv, StoreInv, SendsInv

LEMMA StoreKept ==
  ASSUME SInv, UNCHANGED <<storeVars, sealed>>
  PROVE  StoreInv'
<1>1. StoreInv
  BY SInvParts
<1> QED
  BY <1>1 DEF StoreInv, storeVars, BaseInv, SessionsMatchKnown, SealedInv, Spent, NoMessageKeyTwice

LEMMA SendsKept ==
  ASSUME SInv, UNCHANGED <<sendVars, sealed, accepted>>
  PROVE  SendsInv'
<1>1. SendsInv
  BY SInvParts
<1> QED
  BY <1>1 DEF SendsInv, sendVars, SendInv

-----------------------------------------------------------------------------
\* The recipients' devices.
LEMMA RegisterDevice ==
  ASSUME DeviceInv, NEW x \in Addrs, NEW ident \in 0..MaxReg, Register(x, ident)
  PROVE  DeviceInv'
<1>1. lastReg + 1 \in 1..MaxReg
  BY DEF DeviceInv, Register
<1>2. [reg |-> lastReg + 1, ident |-> ident] \in Installations /\ None \in Installations
  BY <1>1 DEF Installations, None
<1>3. device' \in [Addrs -> Installations]
  <2> HIDE DEF Installations
  <2> QED
    BY <1>2 DEF Register, DeviceInv
<1> QED
  BY <1>1, <1>3 DEF DeviceInv, Register

LEMMA DeviceSteps ==
  ASSUME SInv
  PROVE  /\ \A a \in Accounts : Reinstalls(a) => SInv'
         /\ \A x \in Addrs : Links(x) \/ Unlinks(x) => SInv'
<1>0. DeviceInv
  BY SInvParts
<1>1. ASSUME NEW a \in Accounts, Reinstalls(a) PROVE SInv'
  <2>1. Primary(a) \in Addrs /\ lastReg + 1 \in 0..MaxReg
    BY <1>0, <1>1 DEF SendAssumption, Reinstalls, Register, DeviceInv
  <2>2. DeviceInv'
    BY <1>0, <1>1, <2>1, RegisterDevice DEF Reinstalls
  <2> QED
    BY <1>1, <2>2, StoreKept, SendsKept, SInvParts DEF Reinstalls
<1>2. ASSUME NEW x \in Addrs, Links(x) PROVE SInv'
  <2>1. Primary(x[1]) \in Addrs
    BY DEF SendAssumption, Accounts
  <2>2. device[Primary(x[1])].ident \in 0..MaxReg
    BY <1>0, <2>1 DEF DeviceInv, Installations
  <2>3. DeviceInv'
    BY <1>0, <1>2, <2>2, RegisterDevice DEF Links
  <2> QED
    BY <1>2, <2>3, StoreKept, SendsKept, SInvParts DEF Links
<1>3. ASSUME NEW x \in Addrs, Unlinks(x) PROVE SInv'
  <2>1. None \in Installations
    BY DEF None, Installations
  <2>2. DeviceInv'
    BY <1>0, <1>3, <2>1 DEF Unlinks, DeviceInv
  <2> QED
    BY <1>3, <2>2, StoreKept, SendsKept, SInvParts DEF Unlinks
<1> QED
  BY <1>1, <1>2, <1>3

-----------------------------------------------------------------------------
\* What the receive task does to the store.
LEMMA StoreSteps ==
  ASSUME SInv, NEW x \in Addrs
  PROVE  PeerAnswers(x) \/ PeerInitiates(x) \/ Lapses(x) => SInv'
<1>0. DeviceInv /\ StoreInv
  BY SInvParts
<1>1. session \in [Addrs -> SessionRecords] /\ session[x] \in SessionRecords
  BY <1>0 DEF StoreInv
<1>2. \A m \in sealed : m.addr \in Addrs /\ m.base \in Nat /\ m.n \in Nat /\ Spent(m)
  BY <1>0 DEF StoreInv, SealedInv, Messages
<1>3. CASE PeerAnswers(x)
  <2>1. session' = [session EXCEPT ![x] = [session[x] EXCEPT !.acked = TRUE]]
    BY <1>1, <1>3 DEF PeerAnswers
  <2>2. [session[x] EXCEPT !.acked = TRUE] \in SessionRecords
    BY <1>1 DEF SessionRecords
  <2>3. session' \in [Addrs -> SessionRecords]
    BY <1>1, <2>1, <2>2
  <2>4. \A y \in Addrs : /\ session'[y].with = session[y].with
                         /\ session'[y].base = session[y].base
                         /\ session'[y].next = session[y].next
                         /\ session[y].acked => session'[y].acked
    BY <1>1, <2>1 DEF SessionRecords
  <2>5. BaseInv' /\ SessionsMatchKnown' /\ SealedInv' /\ NoMessageKeyTwice'
    BY <1>0, <1>2, <1>3, <2>4
       DEF PeerAnswers, StoreInv, BaseInv, SessionsMatchKnown, SealedInv, Spent, NoMessageKeyTwice
  <2>6. StoreInv'
    BY <1>0, <1>3, <2>3, <2>5 DEF StoreInv, PeerAnswers
  <2> QED
    BY <1>0, <1>3, <2>6, SendsKept, SInvParts DEF PeerAnswers, DeviceInv
<1>4. CASE PeerInitiates(x)
  <2> DEFINE new == NewSession(x, device[x], TRUE)
  <2>1. /\ new \in SessionRecords /\ new.base = session[x].base + 1
        /\ new.with = device[x] /\ new.acked /\ new.next \in Nat
    BY <1>0, <1>1, <1>4 DEF PeerInitiates, NewSession, SessionRecords, DeviceInv
  <2>2. device[x] # None /\ device[x].ident \in 0..MaxReg
    BY <1>0, <1>4 DEF PeerInitiates, DeviceInv, Installations
  <2> HIDE DEF new
  <2>3. session' = [session EXCEPT ![x] = new] /\ known' = [known EXCEPT ![x] = device[x].ident]
    BY <1>4 DEF PeerInitiates, new
  <2>4. session' \in [Addrs -> SessionRecords] /\ known' \in [Addrs -> 0..MaxReg]
    BY <1>0, <2>1, <2>2, <2>3 DEF StoreInv
  <2>5. BaseInv'
    BY <1>0, <1>1, <1>4, <2>1, <2>2, <2>3 DEF PeerInitiates, StoreInv, BaseInv
  <2>6. SessionsMatchKnown'
    BY <1>0, <1>1, <2>1, <2>3 DEF StoreInv, SessionsMatchKnown
  <2>7. session[x].base \in Nat
    BY <1>1 DEF SessionRecords
  <2>8. SealedInv'
    <3> SUFFICES ASSUME NEW m \in sealed PROVE Spent(m)'
      BY <1>4 DEF PeerInitiates, SealedInv
    <3> QED
      BY <1>1, <1>2, <2>1, <2>3, <2>7 DEF Spent
  <2>9. StoreInv'
    BY <1>0, <1>4, <2>4, <2>5, <2>6, <2>8 DEF StoreInv, PeerInitiates, NoMessageKeyTwice
  <2> QED
    BY <1>0, <1>4, <2>9, SendsKept, SInvParts DEF PeerInitiates, DeviceInv
<1>5. CASE Lapses(x)
  <2>1. BaseInv' /\ SessionsMatchKnown' /\ SealedInv' /\ NoMessageKeyTwice'
    BY <1>0, <1>2, <1>5
       DEF Lapses, StoreInv, BaseInv, SessionsMatchKnown, SealedInv, Spent, NoMessageKeyTwice
  <2>2. StoreInv'
    BY <1>0, <1>5, <2>1 DEF StoreInv, Lapses
  <2> QED
    BY <1>0, <1>5, <2>2, SendsKept, SInvParts DEF Lapses, DeviceInv
<1> QED
  BY <1>3, <1>4, <1>5

-----------------------------------------------------------------------------
\* The end of one recipient, whatever its outcome.
LEMMA FinishKeeps ==
  ASSUME SendsInv, NEW s \in Sends, pc[s] \in {"fetching", "fetched", "putting"},
         NEW outcome \in {"accepted", "failed", "mismatched", "stale", "untrusted"},
         Finish(s, outcome), UNCHANGED bundle,
         sealed \subseteq sealed', accepted' \subseteq sealed'
  PROVE  SendsInv'
<1>1. todo[s] \in Seq(Accounts) /\ todo[s] # <<>>
  BY DEF SendsInv, SendInv
<1>2. Current(s) \in Accounts /\ Tail(todo[s]) \in Seq(Accounts)
  BY <1>1 DEF Current
<1>3. result' \in [Sends -> [Accounts -> {"none", "accepted", "failed", "mismatched",
                                          "stale", "untrusted"}]]
  BY <1>2 DEF Finish, SendsInv
<1>4. todo' \in [Sends -> Seq(Accounts)]
  BY <1>2 DEF Finish, SendsInv
<1>5. \A t \in Sends \ {s} : pc'[t] = pc[t] /\ todo'[t] = todo[t] /\ msgs'[t] = msgs[t]
  BY DEF Finish, Goto, SendsInv
<1>6. pc'[s] \notin {"fetching", "fetched", "putting"} /\ msgs'[s] = {}
  BY DEF Finish, Goto, SendsInv
<1>7. SendInv'
  BY <1>5, <1>6 DEF SendsInv, SendInv
<1>8. msgs' \in [Sends -> SUBSET Messages] /\ bundle' \in [Sends -> [Addrs -> Installations]]
  BY DEF Finish, SendsInv
<1>9. pc' \in [Sends -> {"idle", "looping", "fetching", "fetched", "putting", "returned",
                         "raised", "cancelled"}]
  BY DEF Finish, Goto, SendsInv
<1> QED
  BY <1>3, <1>4, <1>7, <1>8, <1>9 DEF SendsInv

\* What the server makes of a PUT is an outcome, and it accepts what was sealed.
LEMMA VerdictOutcome ==
  ASSUME NEW s \in Sends
  PROVE  Verdict(s) \in {"accepted", "mismatched", "stale"}
  BY DEF Verdict

LEMMA ArrivesSealed ==
  ASSUME SendsInv, NEW s \in Sends, Arrives(s) \/ UNCHANGED accepted, UNCHANGED sealed
  PROVE  accepted' \subseteq sealed'
  BY DEF SendsInv, SendInv, Arrives

\* The steps of a send that leave the store alone.
LEMMA SendSteps ==
  ASSUME SInv, NEW s \in Sends
  PROVE  /\ ServerGivesBundles(s) => SInv'
         /\ FetchFails(s) \/ PutAnswered(s) \/ PutFails(s) => SInv'
         /\ NextMember(s) \/ GroupReturns(s) \/ Cancelled(s) => SInv'
         /\ UploadFails(s) \/ SendsDirect(s) \/ SendsToGroup(s) => SInv'
<1>0. DeviceInv /\ SendsInv
  BY SInvParts
<1>1. ASSUME UNCHANGED <<device, lastReg, storeVars, sealed>>, SendsInv' PROVE SInv'
  BY <1>0, <1>1, StoreKept, SInvParts DEF DeviceInv
<1>2. ASSUME ServerGivesBundles(s) PROVE SInv'
  <2>1. None \in Installations
    BY DEF None, Installations
  <2>2. bundle' \in [Sends -> [Addrs -> Installations]]
    <3> HIDE DEF Installations
    <3> QED
      BY <1>0, <1>2, <2>1 DEF ServerGivesBundles, DeviceInv, SendsInv
  <2>3. SendInv'
    BY <1>0, <1>2 DEF ServerGivesBundles, Goto, SendsInv, SendInv
  <2>4. SendsInv'
    BY <1>0, <1>2, <2>2, <2>3 DEF ServerGivesBundles, Goto, SendsInv
  <2> QED
    BY <1>1, <1>2, <2>4 DEF ServerGivesBundles
<1>3. ASSUME FetchFails(s) PROVE SInv'
  <2>1. SendsInv'
    BY <1>0, <1>3, FinishKeeps DEF FetchFails, SendsInv
  <2> QED
    BY <1>1, <1>3, <2>1 DEF FetchFails
<1>4. ASSUME PutAnswered(s) PROVE SInv'
  <2>1. SendsInv'
    BY <1>0, <1>4, FinishKeeps, VerdictOutcome, ArrivesSealed DEF PutAnswered
  <2> QED
    BY <1>1, <1>4, <2>1 DEF PutAnswered
<1>5. ASSUME PutFails(s) PROVE SInv'
  <2>1. SendsInv'
    BY <1>0, <1>5, FinishKeeps, ArrivesSealed DEF PutFails
  <2> QED
    BY <1>1, <1>5, <2>1 DEF PutFails
<1>6. ASSUME NextMember(s) PROVE SInv'
  <2>1. CASE Current(s) = Us[1]
    <3>1. Tail(todo[s]) \in Seq(Accounts)
      BY <1>0, <1>6 DEF NextMember, SendsInv
    <3>2. todo' \in [Sends -> Seq(Accounts)] /\ \A t \in Sends \ {s} : todo'[t] = todo[t]
      BY <1>0, <1>6, <2>1, <3>1 DEF NextMember, SendsInv
    <3>3. SendsInv'
      BY <1>0, <1>6, <2>1, <3>2 DEF NextMember, SendsInv, SendInv
    <3> QED
      BY <1>1, <1>6, <3>3 DEF NextMember
  <2>2. CASE Current(s) # Us[1]
    <3>1. SendsInv'
      BY <1>0, <1>6, <2>2 DEF NextMember, Goto, SendsInv, SendInv
    <3> QED
      BY <1>1, <1>6, <3>1 DEF NextMember
  <2> QED
    BY <2>1, <2>2
<1>7. ASSUME GroupReturns(s) \/ UploadFails(s) PROVE SInv'
  <2>1. SendsInv'
    BY <1>0, <1>7 DEF GroupReturns, UploadFails, Goto, SendsInv, SendInv
  <2> QED
    BY <1>1, <1>7, <2>1 DEF GroupReturns, UploadFails
<1>8. ASSUME Cancelled(s) PROVE SInv'
  <2>1. accepted' \subseteq sealed'
    BY <1>0, <1>8, ArrivesSealed DEF Cancelled
  <2>2. SendsInv'
    BY <1>0, <1>8, <2>1 DEF Cancelled, Goto, SendsInv, SendInv
  <2> QED
    BY <1>1, <1>8, <2>2 DEF Cancelled
<1>9. ASSUME SendsDirect(s) PROVE SInv'
  <2>1. PICK a \in Accounts : todo' = [todo EXCEPT ![s] = <<a>>]
    BY <1>9 DEF SendsDirect
  <2>2. /\ todo' \in [Sends -> Seq(Accounts)] /\ todo'[s] # <<>>
        /\ \A t \in Sends \ {s} : todo'[t] = todo[t]
    BY <1>0, <2>1 DEF SendsInv
  <2>3. SendsInv'
    BY <1>0, <1>9, <2>2 DEF SendsDirect, Goto, SendsInv, SendInv
  <2> QED
    BY <1>1, <1>9, <2>3 DEF SendsDirect
<1>10. ASSUME SendsToGroup(s) PROVE SInv'
  <2>1. /\ todo' \in [Sends -> Seq(Accounts)]
        /\ \A t \in Sends \ {s} : todo'[t] = todo[t]
    BY <1>0, <1>10 DEF SendsToGroup, SendsInv, SendAssumption
  <2>2. SendsInv'
    BY <1>0, <1>10, <2>1 DEF SendsToGroup, Goto, SendsInv, SendInv
  <2> QED
    BY <1>1, <1>10, <2>2 DEF SendsToGroup
<1> QED
  BY <1>2, <1>3, <1>4, <1>5, <1>6, <1>7, <1>8, <1>9, <1>10

\* The steps in which a send uses the store.
LEMMA EncryptSteps ==
  ASSUME SInv, NEW s \in Sends
  PROVE  Encrypts(s) \/ EncryptRefused(s) => SInv'
<1>0. DeviceInv /\ SendsInv
  BY SInvParts
<1>1. CASE Encrypts(s)
  <2>1. StoreInv' /\ sealed \subseteq sealed'
    BY <1>1, EncryptedStore DEF Encrypts
  <2>2. msgs'[s] \subseteq sealed'
    BY <1>0, <1>1 DEF Encrypts, Encrypted, SendsInv
  <2>3. msgs'[s] \in SUBSET Messages
    BY <2>1, <2>2 DEF StoreInv
  <2>4. \A t \in Sends \ {s} : msgs'[t] = msgs[t] /\ pc'[t] = pc[t]
    BY <1>0, <1>1 DEF Encrypts, Goto, SendsInv
  <2>5. msgs' \in [Sends -> SUBSET Messages]
    BY <1>0, <1>1, <2>3, <2>4 DEF Encrypts, SendsInv
  <2>6. SendInv'
    BY <1>0, <1>1, <2>1, <2>2, <2>4 DEF Encrypts, SendsInv, SendInv
  <2>7. SendsInv'
    BY <1>0, <1>1, <2>1, <2>5, <2>6 DEF Encrypts, Goto, SendsInv
  <2> QED
    BY <1>0, <1>1, <2>1, <2>7, SInvParts DEF Encrypts, DeviceInv
<1>2. CASE EncryptRefused(s)
  <2>1. PICK before \in SUBSET (Targets(s) \ Refused(s)) : Encrypted(s, before)
    BY <1>2 DEF EncryptRefused
  <2>2. StoreInv' /\ sealed \subseteq sealed'
    BY <2>1, EncryptedStore
  <2>3. accepted' \subseteq sealed'
    BY <1>0, <1>2, <2>2 DEF EncryptRefused, SendsInv
  <2>4. SendsInv'
    BY <1>0, <1>2, <2>2, <2>3, FinishKeeps DEF EncryptRefused
  <2> QED
    BY <1>0, <1>2, <2>2, <2>4, SInvParts DEF EncryptRefused, DeviceInv
<1> QED
  BY <1>1, <1>2

LEMMA SInvNext == SInv /\ [Next]_vars => SInv'
<1> SUFFICES ASSUME SInv, [Next]_vars PROVE SInv'
  OBVIOUS
<1>1. CASE \E a \in Accounts : Reinstalls(a)
  BY <1>1, DeviceSteps
<1>2. CASE \E x \in Addrs : Links(x) \/ Unlinks(x)
  BY <1>2, DeviceSteps
<1>3. CASE \E x \in Addrs : PeerAnswers(x) \/ PeerInitiates(x) \/ Lapses(x)
  BY <1>3, StoreSteps
<1>4. CASE \E s \in Sends : Encrypts(s) \/ EncryptRefused(s)
  BY <1>4, EncryptSteps
<1>5. CASE \E s \in Sends : \/ UploadFails(s) \/ SendsDirect(s) \/ SendsToGroup(s)
                            \/ ServerGivesBundles(s) \/ FetchFails(s) \/ PutAnswered(s)
                            \/ PutFails(s) \/ NextMember(s) \/ GroupReturns(s) \/ Cancelled(s)
  BY <1>5, SendSteps
<1>6. CASE UNCHANGED vars
  BY <1>6, SInvParts, StoreKept, SendsKept DEF vars, DeviceInv
<1> QED
  BY <1>1, <1>2, <1>3, <1>4, <1>5, <1>6 DEF Next, SendStep

-----------------------------------------------------------------------------
\* The invariant that the sends and the receive task keep together.
THEOREM SendInvariant == Spec => []SInv
<1>1. Init => SInv
  BY SInvInit
<1>2. SInv /\ [Next]_vars => SInv'
  BY SInvNext
<1> QED
  BY <1>1, <1>2, PTL DEF Spec

\* Type correctness.
THEOREM SendTypes == Spec => []SendTypeOK
<1>1. SInv => SendTypeOK
  BY DEF SInv
<1> QED
  BY <1>1, SendInvariant, PTL

\* No message key of a session encrypts twice, for any number of sends at once.
THEOREM MessageKeysUsedOnce == Spec => []NoMessageKeyTwice
<1>1. SInv => NoMessageKeyTwice
  BY DEF SInv
<1> QED
  BY <1>1, SendInvariant, PTL

\* Every session is with the identity recorded for its address.
THEOREM SessionsAreWithKnown == Spec => []SessionsMatchKnown
<1>1. SInv => SessionsMatchKnown
  BY DEF SInv
<1> QED
  BY <1>1, SendInvariant, PTL

\* Encrypting keeps the identities of the devices that are not refused.
LEMMA EncryptedPinned ==
  ASSUME SInv, NEW s \in Sends, NEW devices \in SUBSET (Targets(s) \ Refused(s)),
         Encrypted(s, devices), NEW x \in Addrs, known[x] # 0
  PROVE  known'[x] = known[x]
<1>1. CASE x \notin devices
  BY <1>1 DEF Encrypted
<1>2. CASE x \in devices
  <2>1. bundle[s][x] \in Installations
    BY DEF SInv, SendTypeOK
  <2>2. known'[x] = Ready(x, bundle[s][x]).with.ident
    BY <1>2 DEF Encrypted
  <2>3. CASE Usable(x)
    BY <2>1, <2>2, <2>3, ReadyRecord DEF SInv, SessionsMatchKnown
  <2>4. CASE ~Usable(x)
    <3>1. Trusted(x, bundle[s][x])
      BY <1>2, <2>4 DEF Refused
    <3> QED
      BY <2>1, <2>2, <2>4, <3>1, ReadyRecord DEF Trusted
  <2> QED
    BY <2>3, <2>4
<1> QED
  BY <1>1, <1>2

\* The identity recorded for an address is never replaced: neither by a bundle
\* nor by what is received.
THEOREM IdentitiesPinned == Spec => IdentityPinned
<1>1. ASSUME SInv, [Next]_vars, NEW x \in Addrs, known[x] # 0
      PROVE  known'[x] = known[x]
  <2>1. CASE \E s \in Sends : Encrypts(s)
    <3>1. PICK s \in Sends : Encrypts(s)
      BY <2>1
    <3>2. Targets(s) \in SUBSET (Targets(s) \ Refused(s)) /\ Encrypted(s, Targets(s))
      BY <3>1 DEF Encrypts
    <3> QED
      BY <1>1, <3>2, EncryptedPinned
  <2>2. CASE \E s \in Sends : EncryptRefused(s)
    BY <1>1, <2>2, EncryptedPinned DEF EncryptRefused
  <2>3. CASE \E y \in Addrs : PeerInitiates(y)
    BY <1>1, <2>3 DEF PeerInitiates, Trusted, SInv, SendTypeOK
  <2>4. CASE \E y \in Addrs : PeerAnswers(y) \/ Lapses(y) \/ Links(y) \/ Unlinks(y)
    BY <2>4 DEF PeerAnswers, Lapses, Links, Unlinks, storeVars
  <2>5. CASE \E a \in Accounts : Reinstalls(a)
    BY <2>5 DEF Reinstalls, storeVars
  <2>6. CASE \E s \in Sends : \/ UploadFails(s) \/ SendsDirect(s) \/ SendsToGroup(s)
                              \/ ServerGivesBundles(s) \/ FetchFails(s) \/ PutAnswered(s)
                              \/ PutFails(s) \/ NextMember(s) \/ GroupReturns(s) \/ Cancelled(s)
    BY <2>6 DEF UploadFails, SendsDirect, SendsToGroup, ServerGivesBundles, FetchFails,
                PutAnswered, PutFails, NextMember, GroupReturns, Cancelled, storeVars
  <2>7. CASE UNCHANGED vars
    BY <2>7 DEF vars, storeVars
  <2> QED
    BY <1>1, <2>1, <2>2, <2>3, <2>4, <2>5, <2>6, <2>7 DEF Next, SendStep
<1>2. SInv /\ [Next]_vars => [\A x \in Addrs : known[x] # 0 => known'[x] = known[x]]_vars
  BY <1>1
<1> QED
  BY <1>2, SendInvariant, PTL DEF Spec, IdentityPinned

-----------------------------------------------------------------------------
(* What each send has in hand: the bundles are those of its recipient, the  *)
(* messages are one for each target, and what was accepted and what came of *)
(* each member is what its position says.                                   *)

BundleFits(s) ==
  pc[s] \in {"fetched", "putting"} =>
    \A x \in Addrs : bundle[s][x] # None => x[1] = Current(s)

PutFits(s) ==
  pc[s] = "putting" =>
    /\ {m.addr : m \in msgs[s]} = Targets(s)
    /\ \A m \in msgs[s] : /\ m.by = s /\ m.reg = bundle[s][m.addr].reg
                          /\ m.fresh => m.with = bundle[s][m.addr]

DirectFits(s) ==
  s \notin GroupSends =>
    /\ pc[s] # "looping"
    /\ pc[s] \in {"idle", "fetching", "fetched", "putting"} => \A m \in accepted : m.by # s
    /\ pc[s] = "returned" => {m.addr : m \in {m \in accepted : m.by = s}} = Targets(s)

\* A group send has been through the members before those it has yet to reach.
Behind(s) == Len(Group) - Len(todo[s])
Tried(s, a) == \E i \in 1..Behind(s) : Group[i] = a /\ a # Us[1]
GroupFits(s) ==
  s \in GroupSends =>
    /\ pc[s] = "idle" => \A a \in Accounts : result[s][a] = "none"
    /\ pc[s] \in {"fetching", "fetched", "putting"} => Current(s) # Us[1]
    /\ pc[s] = "returned" => todo[s] = <<>>
    /\ pc[s] \in {"looping", "fetching", "fetched", "putting", "returned"} =>
         /\ Behind(s) \in Nat
         /\ \A j \in 1..Len(todo[s]) : todo[s][j] = Group[Behind(s) + j]
         /\ \A a \in Accounts : result[s][a] = "none" <=> ~Tried(s, a)

Fits(s) == BundleFits(s) /\ PutFits(s) /\ DirectFits(s) /\ GroupFits(s)
FitsInv == \A s \in Sends : Fits(s)

\* A registration id is given out once: it tells the installation.
Seen == {None} \cup {device[x] : x \in Addrs}
               \cup UNION {{bundle[s][x] : x \in Addrs} : s \in Sends}
SeenInv == /\ \A i, j \in Seen : i.reg = j.reg => i = j
           /\ \A i \in Seen : i.reg <= lastReg

SendAction(s) == UploadFails(s) \/ SendsDirect(s) \/ SendsToGroup(s) \/ SendStep(s) \/ Cancelled(s)
SendKept(s) == UNCHANGED <<pc[s], todo[s], bundle[s], msgs[s], result[s]>>
SameAccepted(s) == \A m : m.by = s => (m \in accepted' <=> m \in accepted)

-----------------------------------------------------------------------------
(* One send at a time.                                                      *)

LEMMA ActionFrame ==
  ASSUME SendsInv, NEW s \in Sends, SendAction(s), NEW t \in Sends \ {s}
  PROVE  SendKept(t)
<1> USE DEF SendsInv, SendKept
<1>1. ASSUME NEW outcome, Finish(s, outcome)
      PROVE  pc'[t] = pc[t] /\ todo'[t] = todo[t] /\ msgs'[t] = msgs[t] /\ result'[t] = result[t]
  BY <1>1 DEF Finish, Goto
<1>2. CASE UploadFails(s) \/ SendsDirect(s) \/ SendsToGroup(s) \/ Cancelled(s)
  BY <1>2 DEF UploadFails, SendsDirect, SendsToGroup, Cancelled, Goto
<1>3. CASE ServerGivesBundles(s) \/ Encrypts(s) \/ NextMember(s) \/ GroupReturns(s)
  BY <1>3 DEF ServerGivesBundles, Encrypts, NextMember, GroupReturns, Goto
<1>4. CASE FetchFails(s) \/ EncryptRefused(s) \/ PutAnswered(s) \/ PutFails(s)
  BY <1>1, <1>4 DEF FetchFails, EncryptRefused, PutAnswered, PutFails
<1> QED
  BY <1>2, <1>3, <1>4 DEF SendAction, SendStep

LEMMA AcceptedGrows ==
  ASSUME NEW s \in Sends, SendAction(s)
  PROVE  accepted' = accepted \/ (pc[s] = "putting" /\ accepted' = accepted \cup msgs[s])
<1>1. CASE UploadFails(s) \/ SendsDirect(s) \/ SendsToGroup(s) \/ Cancelled(s)
  BY <1>1 DEF UploadFails, SendsDirect, SendsToGroup, Cancelled, Arrives
<1>2. CASE SendStep(s)
  BY <1>2 DEF SendStep, ServerGivesBundles, Encrypts, NextMember, GroupReturns,
              FetchFails, EncryptRefused, PutAnswered, PutFails, Arrives
<1> QED
  BY <1>1, <1>2 DEF SendAction

LEMMA FitsKept ==
  ASSUME NEW s \in Sends, Fits(s), SendKept(s), SameAccepted(s)
  PROVE  Fits(s)'
<1>1. /\ pc'[s] = pc[s] /\ todo'[s] = todo[s] /\ bundle'[s] = bundle[s] /\ msgs'[s] = msgs[s]
      /\ result'[s] = result[s]
  BY DEF SendKept
<1>2. Targets(s)' = Targets(s) /\ Current(s)' = Current(s) /\ Behind(s)' = Behind(s)
  BY <1>1 DEF Targets, Current, Behind
<1>3. BundleFits(s)' /\ PutFits(s)'
  BY <1>1, <1>2 DEF Fits, BundleFits, PutFits
<1>4. {m \in accepted' : m.by = s} = {m \in accepted : m.by = s}
  BY DEF SameAccepted
<1>5. DirectFits(s)'
  BY <1>1, <1>2, <1>4 DEF Fits, DirectFits
<1>6. GroupFits(s)'
  <2>1. \A a : Tried(s, a)' <=> Tried(s, a)
    BY <1>2, Zenon DEF Tried
  <2>2. GroupFits(s)
    BY DEF Fits
  <2> QED
    BY <1>1, <1>2, <2>1, <2>2, Zenon DEF GroupFits
<1> QED
  BY <1>3, <1>5, <1>6 DEF Fits

\* An ended send that did not return has nothing to show.
LEMMA GivenUpFits ==
  ASSUME NEW s \in Sends, pc'[s] \in {"raised", "cancelled"}
  PROVE  Fits(s)'
BY DEF Fits, BundleFits, PutFits, DirectFits, GroupFits

\* A group send leaves the member at the head of its list behind.
LEMMA BehindNext ==
  ASSUME SendsInv, NEW s \in Sends, s \in GroupSends, Fits(s), todo[s] # <<>>,
         pc[s] \in {"looping", "fetching", "fetched", "putting"}, todo'[s] = Tail(todo[s])
  PROVE  /\ Behind(s)' \in Nat
         /\ \A j \in 1..Len(todo'[s]) : todo'[s][j] = Group[Behind(s)' + j]
         /\ \A a : Tried(s, a)' <=> Tried(s, a) \/ (a = Current(s) /\ a # Us[1])
<1> DEFINE b == Behind(s)
           td == todo[s]
<1>1. /\ td \in Seq(Accounts) /\ td # <<>> /\ todo'[s] = Tail(td) /\ b \in Nat
      /\ \A j \in 1..Len(td) : td[j] = Group[b + j]
  BY DEF SendsInv, Fits, GroupFits
<1>2. Behind(s)' = Len(Group) - Len(Tail(td)) /\ b = Len(Group) - Len(td)
  BY <1>1 DEF Behind
<1>3. Current(s) = td[1]
  BY <1>1 DEF Current
<1> HIDE DEF b, td
<1>4. /\ Len(td) \in Nat /\ Len(td) >= 1 /\ Len(Tail(td)) = Len(td) - 1
      /\ \A j \in 1..(Len(td) - 1) : Tail(td)[j] = td[j + 1]
  BY <1>1
<1>5. Behind(s)' = b + 1
  <2>1. Len(Group) \in Nat
    BY DEF SendAssumption
  <2> QED
    BY <1>1, <1>2, <1>4, <2>1
<1>6. Current(s) = Group[b + 1]
  BY <1>1, <1>3, <1>4
<1>7. ASSUME NEW j \in 1..Len(todo'[s]) PROVE todo'[s][j] = Group[Behind(s)' + j]
  <2> DEFINE n == Len(td)
  <2>1. Len(todo'[s]) = n - 1 /\ n \in Nat
    BY <1>1, <1>4, Zenon
  <2> HIDE DEF n
  <2>2. j \in 1..(n - 1) /\ j + 1 \in 1..n /\ b + (j + 1) = (b + 1) + j
    BY <1>1, <2>1
  <2>3. todo'[s][j] = td[j + 1]
    BY <1>1, <1>4, <2>2, Zenon DEF n
  <2>4. td[j + 1] = Group[b + (j + 1)]
    BY <1>1, <2>2, Zenon DEF n
  <2> QED
    BY <1>5, <2>2, <2>3, <2>4, Zenon
<1>8. ASSUME NEW a PROVE Tried(s, a)' <=> Tried(s, a) \/ (a = Current(s) /\ a # Us[1])
  <2>1. Tried(s, a)' <=> \E i \in 1..(b + 1) : Group[i] = a /\ a # Us[1]
    BY <1>5 DEF Tried
  <2>2. Tried(s, a) <=> \E i \in 1..b : Group[i] = a /\ a # Us[1]
    BY DEF Tried, b
  <2>3. 1..(b + 1) = 1..b \cup {b + 1}
    BY <1>1
  <2> QED
    BY <1>6, <2>1, <2>2, <2>3
<1> QED
  BY <1>1, <1>5, <1>7, <1>8

\* A recipient is done with: a direct send has what was accepted to show for
\* it, a group send the outcome.
LEMMA FinishFits ==
  ASSUME SendsInv, NEW s \in Sends, Fits(s), pc[s] \in {"fetching", "fetched", "putting"},
         NEW outcome \in {"accepted", "failed", "mismatched", "stale", "untrusted"},
         Finish(s, outcome), UNCHANGED bundle,
         outcome = "accepted" => pc[s] = "putting" /\ accepted' = accepted \cup msgs[s]
  PROVE  Fits(s)'
<1>1. /\ todo[s] \in Seq(Accounts) /\ todo[s] # <<>> /\ todo'[s] = Tail(todo[s])
      /\ pc'[s] = IF s \in GroupSends THEN "looping" ELSE IF outcome = "accepted" THEN "returned" ELSE "raised"
  BY DEF SendsInv, SendInv, Finish, Goto
<1>2. Current(s) \in Accounts /\ \A a \in Accounts :
        result'[s][a] = IF a = Current(s) THEN outcome ELSE result[s][a]
  <2>1. Current(s) \in Accounts
    BY <1>1 DEF Current
  <2>2. result' = [result EXCEPT ![s][Current(s)] = outcome]
    BY DEF Finish
  <2> QED
    BY <2>1, <2>2 DEF SendsInv
<1>3. CASE s \notin GroupSends /\ outcome # "accepted"
  BY <1>1, <1>3, GivenUpFits
<1>4. CASE s \notin GroupSends /\ outcome = "accepted"
  <2>1. Targets(s)' = Targets(s)
    BY DEF Targets
  <2>2. accepted' = accepted \cup msgs[s] /\ \A m \in accepted : m.by # s
    BY <1>4 DEF Fits, DirectFits
  <2>3. {m.addr : m \in msgs[s]} = Targets(s) /\ \A m \in msgs[s] : m.by = s
    BY <1>4 DEF Fits, PutFits
  <2>4. {m \in accepted' : m.by = s} = msgs[s]
    BY <2>2, <2>3, Zenon
  <2>5. pc'[s] = "returned"
    BY <1>1, <1>4
  <2>6. DirectFits(s)'
    BY <2>1, <2>3, <2>4, <2>5 DEF DirectFits
  <2> QED
    BY <1>4, <2>5, <2>6 DEF Fits, BundleFits, PutFits, GroupFits
<1>5. CASE s \in GroupSends
  <2>1. /\ Behind(s)' \in Nat
        /\ \A j \in 1..Len(todo'[s]) : todo'[s][j] = Group[Behind(s)' + j]
        /\ \A a : Tried(s, a)' <=> Tried(s, a) \/ (a = Current(s) /\ a # Us[1])
    BY <1>1, <1>5, BehindNext
  <2>2. Current(s) # Us[1] /\ \A a \in Accounts : result[s][a] = "none" <=> ~Tried(s, a)
    BY <1>5 DEF Fits, GroupFits
  <2>3. \A a \in Accounts : result'[s][a] = "none" <=> ~Tried(s, a)'
    BY <1>2, <2>1, <2>2
  <2>4. pc'[s] = "looping"
    BY <1>1, <1>5
  <2>5. GroupFits(s)'
    BY <2>1, <2>3, <2>4 DEF GroupFits
  <2> QED
    BY <1>5, <2>4, <2>5 DEF Fits, BundleFits, PutFits, DirectFits
<1> QED
  BY <1>3, <1>4, <1>5

LEMMA StartFits ==
  ASSUME SendsInv, NEW s \in Sends, Fits(s), SendsDirect(s) \/ SendsToGroup(s)
  PROVE  Fits(s)'
<1>1. CASE SendsDirect(s)
  <2>1. pc[s] = "idle" /\ s \notin GroupSends /\ pc'[s] = "fetching" /\ accepted' = accepted
    BY <1>1 DEF SendsDirect, Goto, SendsInv
  <2> QED
    BY <2>1 DEF Fits, BundleFits, PutFits, DirectFits, GroupFits
<1>2. CASE SendsToGroup(s)
  <2>1. /\ pc[s] = "idle" /\ s \in GroupSends /\ pc'[s] = "looping" /\ todo'[s] = Group
        /\ result' = result
    BY <1>2 DEF SendsToGroup, Goto, SendsInv
  <2>2. Len(Group) \in Nat
    BY DEF SendAssumption
  <2>3. Behind(s)' = 0
    BY <2>1, <2>2 DEF Behind
  <2>4. \A a \in Accounts : result'[s][a] = "none" /\ ~Tried(s, a)'
    BY <2>1, <2>3 DEF Fits, GroupFits, Tried
  <2>5. \A j \in 1..Len(todo'[s]) : todo'[s][j] = Group[Behind(s)' + j]
    BY <2>1, <2>2, <2>3
  <2>6. GroupFits(s)'
    BY <2>1, <2>3, <2>4, <2>5 DEF GroupFits
  <2> QED
    BY <2>1, <2>6 DEF Fits, BundleFits, PutFits, DirectFits
<1> QED
  BY <1>1, <1>2

LEMMA LoopFits ==
  ASSUME SendsInv, NEW s \in Sends, Fits(s), NextMember(s) \/ GroupReturns(s)
  PROVE  Fits(s)'
<1>1. s \in GroupSends /\ pc[s] = "looping" /\ result' = result
  BY DEF Fits, DirectFits, NextMember, GroupReturns
<1>2. CASE NextMember(s) /\ Current(s) = Us[1]
  <2>1. todo[s] # <<>> /\ todo'[s] = Tail(todo[s]) /\ pc'[s] = "looping"
    BY <1>1, <1>2 DEF NextMember, SendsInv
  <2>2. /\ Behind(s)' \in Nat
        /\ \A j \in 1..Len(todo'[s]) : todo'[s][j] = Group[Behind(s)' + j]
        /\ \A a : Tried(s, a)' <=> Tried(s, a) \/ (a = Current(s) /\ a # Us[1])
    BY <1>1, <2>1, BehindNext
  <2>3. \A a \in Accounts : result'[s][a] = "none" <=> ~Tried(s, a)'
    BY <1>1, <1>2, <2>2 DEF Fits, GroupFits
  <2>4. GroupFits(s)'
    BY <2>1, <2>2, <2>3 DEF GroupFits
  <2> QED
    BY <1>1, <2>1, <2>4 DEF Fits, BundleFits, PutFits, DirectFits
<1>3. CASE (NextMember(s) /\ Current(s) # Us[1]) \/ GroupReturns(s)
  <2>1. /\ todo' = todo
        /\ \/ pc'[s] = "fetching" /\ Current(s) # Us[1]
           \/ pc'[s] = "returned" /\ todo[s] = <<>>
    BY <1>1, <1>3 DEF NextMember, GroupReturns, Goto, SendsInv
  <2>2. Behind(s)' = Behind(s) /\ Current(s)' = Current(s) /\ \A a : Tried(s, a)' <=> Tried(s, a)
    BY <2>1 DEF Behind, Current, Tried
  <2>3. GroupFits(s)'
    BY <1>1, <2>1, <2>2 DEF Fits, GroupFits
  <2> QED
    BY <1>1, <2>1, <2>3 DEF Fits, BundleFits, PutFits, DirectFits
<1> QED
  BY <1>2, <1>3

LEMMA FetchFits ==
  ASSUME SendsInv, NEW s \in Sends, Fits(s), ServerGivesBundles(s)
  PROVE  Fits(s)'
<1>1. /\ pc[s] = "fetching" /\ pc'[s] = "fetched" /\ UNCHANGED <<todo, msgs, result, accepted>>
      /\ bundle'[s] = [x \in Addrs |-> IF x[1] = Current(s) THEN device[x] ELSE None]
  BY DEF ServerGivesBundles, Goto, SendsInv
<1>2. Current(s)' = Current(s) /\ Behind(s)' = Behind(s) /\ \A a : Tried(s, a)' <=> Tried(s, a)
  BY <1>1 DEF Current, Behind, Tried
<1>3. BundleFits(s)'
  BY <1>1, <1>2 DEF BundleFits
<1>4. DirectFits(s)'
  BY <1>1 DEF Fits, DirectFits
<1>5. GroupFits(s)'
  BY <1>1, <1>2 DEF Fits, GroupFits
<1> QED
  BY <1>1, <1>3, <1>4, <1>5 DEF Fits, PutFits

LEMMA EncryptsFits ==
  ASSUME SInv, NEW s \in Sends, Fits(s), Encrypts(s)
  PROVE  Fits(s)'
<1>0. SendsInv
  BY SInvParts
<1>1. /\ pc[s] = "fetched" /\ pc'[s] = "putting" /\ UNCHANGED <<todo, bundle, result, accepted>>
      /\ msgs'[s] = {Message(s, x) : x \in Targets(s)}
  BY <1>0 DEF Encrypts, Goto, SendsInv
<1>2. /\ Current(s)' = Current(s) /\ Behind(s)' = Behind(s) /\ \A a : Tried(s, a)' <=> Tried(s, a)
      /\ Targets(s)' = Targets(s)
  BY <1>1 DEF Current, Behind, Tried, Targets
<1>3. \A x \in Targets(s) : /\ Message(s, x).addr = x /\ Message(s, x).by = s
                            /\ Message(s, x).reg = bundle[s][x].reg
                            /\ Message(s, x).fresh => Message(s, x).with = bundle[s][x]
  BY DEF Message, Ready, NewSession
<1>4. ASSUME NEW m \in msgs'[s]
      PROVE  /\ m.addr \in Targets(s) /\ m.by = s /\ m.reg = bundle[s][m.addr].reg
             /\ m.fresh => m.with = bundle[s][m.addr]
  <2>1. PICK x \in Targets(s) : m = Message(s, x)
    BY <1>1, Zenon
  <2>2. m.addr = x
    BY <1>3, <2>1, Zenon
  <2> QED
    BY <1>3, <2>1, <2>2, Zenon
<1>5. ASSUME NEW x \in Targets(s) PROVE \E m \in msgs'[s] : m.addr = x
  <2>1. Message(s, x) \in msgs'[s]
    BY <1>1
  <2>2. Message(s, x).addr = x
    BY <1>3
  <2> QED
    BY <2>1, <2>2, Zenon
<1>6. {m.addr : m \in msgs'[s]} = Targets(s)
  <2>1. \A m \in msgs'[s] : m.addr \in Targets(s)
    BY <1>4, Zenon
  <2>2. \A x \in Targets(s) : \E m \in msgs'[s] : m.addr = x
    BY <1>5, Zenon
  <2> QED
    BY <2>1, <2>2
<1>7. PutFits(s)'
  <2>1. UNCHANGED bundle
    BY <1>1
  <2> QED
    BY <1>2, <1>4, <1>6, <2>1, Zenon DEF PutFits
<1>8. BundleFits(s)'
  BY <1>1, <1>2 DEF Fits, BundleFits
<1>9. DirectFits(s)'
  BY <1>1 DEF Fits, DirectFits
<1>10. GroupFits(s)'
  BY <1>1, <1>2 DEF Fits, GroupFits
<1> QED
  BY <1>7, <1>8, <1>9, <1>10 DEF Fits

LEMMA ActionFits ==
  ASSUME SInv, NEW s \in Sends, Fits(s), SendAction(s)
  PROVE  Fits(s)'
<1>0. SendsInv
  BY SInvParts
<1>1. CASE UploadFails(s) \/ Cancelled(s)
  BY <1>0, <1>1, GivenUpFits DEF UploadFails, Cancelled, Goto, SendsInv
<1>2. CASE SendsDirect(s) \/ SendsToGroup(s)
  BY <1>0, <1>2, StartFits
<1>3. CASE NextMember(s) \/ GroupReturns(s)
  BY <1>0, <1>3, LoopFits
<1>4. CASE ServerGivesBundles(s)
  BY <1>0, <1>4, FetchFits
<1>5. CASE Encrypts(s)
  BY <1>5, EncryptsFits
<1>6. CASE FetchFails(s)
  BY <1>0, <1>6, FinishFits DEF FetchFails
<1>7. CASE EncryptRefused(s)
  BY <1>0, <1>7, FinishFits DEF EncryptRefused
<1>8. CASE PutAnswered(s)
  <2>1. /\ pc[s] = "putting" /\ Finish(s, Verdict(s)) /\ UNCHANGED bundle
        /\ Verdict(s) = "accepted" => accepted' = accepted \cup msgs[s]
    BY <1>8 DEF PutAnswered, Arrives
  <2> DEFINE v == Verdict(s)
  <2>2. v \in {"accepted", "failed", "mismatched", "stale", "untrusted"}
    BY VerdictOutcome
  <2> HIDE DEF v
  <2> QED
    BY <1>0, <2>1, <2>2, FinishFits DEF v
<1>9. CASE PutFails(s)
  BY <1>0, <1>9, FinishFits DEF PutFails
<1> QED
  BY <1>1, <1>2, <1>3, <1>4, <1>5, <1>6, <1>7, <1>8, <1>9 DEF SendAction, SendStep

LEMMA FitsInit == Init => FitsInv
<1> SUFFICES ASSUME Init, NEW s \in Sends PROVE Fits(s)
  BY DEF FitsInv
<1>1. pc[s] = "idle" /\ accepted = {} /\ \A a \in Accounts : result[s][a] = "none"
  BY DEF Init
<1> QED
  BY <1>1 DEF Fits, BundleFits, PutFits, DirectFits, GroupFits

LEMMA FitsNext == SInv /\ FitsInv /\ [Next]_vars => FitsInv'
<1> SUFFICES ASSUME SInv, FitsInv, [Next]_vars, NEW t \in Sends PROVE Fits(t)'
  BY DEF FitsInv
<1>0. SendsInv /\ Fits(t)
  BY SInvParts DEF FitsInv
<1>1. CASE UNCHANGED <<sendVars, accepted>>
  BY <1>0, <1>1, FitsKept DEF sendVars, SendKept, SameAccepted
<1>2. ASSUME NEW s \in Sends, SendAction(s) PROVE Fits(t)'
  <2>1. CASE s = t
    BY <1>0, <1>2, <2>1, ActionFits
  <2>2. CASE s # t
    <3>1. SendKept(t)
      BY <1>0, <1>2, <2>2, ActionFrame
    <3>2. pc[s] = "putting" => \A m \in msgs[s] : m.by = s
      BY DEF FitsInv, Fits, PutFits
    <3>3. SameAccepted(t)
      BY <1>2, <2>2, <3>2, AcceptedGrows DEF SameAccepted
    <3> QED
      BY <1>0, <3>1, <3>3, FitsKept
  <2> QED
    BY <2>1, <2>2
<1>3. CASE \/ \E a \in Accounts : Reinstalls(a)
           \/ \E x \in Addrs : \/ Links(x) \/ Unlinks(x)
                               \/ PeerAnswers(x) \/ PeerInitiates(x) \/ Lapses(x)
           \/ UNCHANGED vars
  BY <1>1, <1>3 DEF Reinstalls, Links, Unlinks, PeerAnswers, PeerInitiates, Lapses, vars
<1> QED
  BY <1>2, <1>3 DEF Next, SendAction

THEOREM FitsInvariant == Spec => [](SInv /\ FitsInv)
<1>1. Init => FitsInv
  BY FitsInit
<1>2. SInv /\ FitsInv /\ [Next]_vars => FitsInv'
  BY FitsNext
<1> QED
  BY <1>1, <1>2, SendInvariant, PTL DEF Spec

\* A direct send that returns has had a message accepted for each of the
\* recipient's devices, whatever the other sends did meanwhile.
THEOREM ReturnsAreAccepted == Spec => []ReturnMeansAccepted
<1>1. FitsInv => ReturnMeansAccepted
  BY DEF FitsInv, Fits, DirectFits, ReturnMeansAccepted
<1> QED
  BY <1>1, FitsInvariant, PTL

\* A group send that returns has an outcome for every member but ourselves.
THEOREM GroupsAreTried == Spec => []GroupTriesEveryMember
<1>1. SInv /\ FitsInv => GroupTriesEveryMember
  <2> SUFFICES ASSUME SInv, FitsInv, NEW s \in Sends, pc[s] = "returned", s \in GroupSends,
                      NEW i \in 1..Len(Group)
               PROVE  (result[s][Group[i]] = "none") <=> (Group[i] = Us[1])
    BY DEF GroupTriesEveryMember
  <2>1. todo[s] = <<>> /\ \A a \in Accounts : result[s][a] = "none" <=> ~Tried(s, a)
    BY DEF FitsInv, Fits, GroupFits
  <2>2. Len(Group) \in Nat /\ Group[i] \in Accounts
    BY DEF SendAssumption
  <2>3. Behind(s) = Len(Group)
    BY <2>1, <2>2 DEF Behind
  <2>4. Tried(s, Group[i]) <=> Group[i] # Us[1]
    BY <2>3 DEF Tried
  <2> QED
    BY <2>1, <2>2, <2>4
<1> QED
  BY <1>1, FitsInvariant, PTL

-----------------------------------------------------------------------------
(* The registration ids.                                                    *)

LEMMA SeenType == SInv => Seen \subseteq Installations
<1>1. None \in Installations
  BY DEF None, Installations
<1> HIDE DEF Installations, None
<1> QED
  BY <1>1 DEF Seen, SInv, SendTypeOK

LEMMA SeenMembers ==
  /\ None \in Seen /\ \A x \in Addrs : device[x] \in Seen
  /\ \A s \in Sends, x \in Addrs : bundle[s][x] \in Seen
  BY DEF Seen

LEMMA SeenInit == Init => SeenInv
<1> SUFFICES ASSUME Init PROVE SeenInv
  OBVIOUS
<1> DEFINE one == [reg |-> 1, ident |-> 1]
<1>1. \A x \in Addrs : device[x] \in {None, one}
  BY DEF Init
<1>2. \A s \in Sends, x \in Addrs : bundle[s][x] = None
  BY DEF Init
<1>3. Seen \subseteq {None, one}
  BY <1>1, <1>2 DEF Seen
<1>4. None.reg = 0 /\ one.reg = 1 /\ lastReg = 1
  BY DEF None, Init
<1> QED
  BY <1>3, <1>4 DEF SeenInv

\* Registering is the only source of new installations.
LEMMA SeenShrinks ==
  ASSUME SInv, SeenInv, Seen' \subseteq Seen, UNCHANGED lastReg
  PROVE  SeenInv'
BY DEF SeenInv

LEMMA SeenGrows ==
  ASSUME SInv, SeenInv, NEW x \in Addrs, NEW ident, Register(x, ident), UNCHANGED bundle
  PROVE  SeenInv'
<1> DEFINE new == [reg |-> lastReg + 1, ident |-> ident]
<1>1. lastReg \in Nat /\ lastReg' = lastReg + 1
  BY DEF SInv, SendTypeOK, Register
<1>2. \A y \in Addrs : device'[y] \in {new, None, device[y]}
  BY DEF Register
<1>3. new.reg = lastReg + 1
  OBVIOUS
<1> HIDE DEF new
<1>4. Seen' \subseteq Seen \cup {new}
  BY <1>2 DEF Seen
<1>5. \A i \in Seen : i.reg \in Nat /\ i.reg <= lastReg
  BY SeenType DEF SeenInv, Installations
<1> QED
  BY <1>1, <1>3, <1>4, <1>5 DEF SeenInv

LEMMA SeenNext == SInv /\ SeenInv /\ [Next]_vars => SeenInv'
<1> SUFFICES ASSUME SInv, SeenInv, [Next]_vars PROVE SeenInv'
  OBVIOUS
<1>1. CASE UNCHANGED <<device, bundle, lastReg>>
  BY <1>1 DEF SeenInv, Seen
<1>2. CASE \E a \in Accounts : Reinstalls(a)
  <2>1. \A a \in Accounts : Primary(a) \in Addrs
    BY DEF SendAssumption
  <2> QED
    BY <1>2, <2>1, SeenGrows DEF Reinstalls, sendVars
<1>3. CASE \E x \in Addrs : Links(x)
  BY <1>3, SeenGrows DEF Links, sendVars
<1>4. CASE \E x \in Addrs : Unlinks(x)
  <2>1. \A y \in Addrs : device'[y] \in {None, device[y]}
    BY <1>4 DEF Unlinks, SInv, SendTypeOK
  <2>2. Seen' \subseteq Seen
    BY <1>4, <2>1 DEF Seen, Unlinks, sendVars
  <2> QED
    BY <1>4, <2>2, SeenShrinks DEF Unlinks
<1>5. CASE \E s \in Sends : ServerGivesBundles(s)
  <2>1. PICK s \in Sends : ServerGivesBundles(s)
    BY <1>5
  <2>2. /\ \A x \in Addrs : bundle'[s][x] \in {None, device[x]}
        /\ \A t \in Sends \ {s} : bundle'[t] = bundle[t]
        /\ UNCHANGED <<device, lastReg>>
    BY <2>1 DEF ServerGivesBundles, SInv, SendTypeOK
  <2>3. \A t \in Sends, x \in Addrs : bundle'[t][x] \in Seen
    BY <2>2, SeenMembers
  <2>4. Seen' \subseteq Seen
    BY <2>2, <2>3, SeenMembers DEF Seen
  <2> QED
    BY <2>2, <2>4, SeenShrinks
<1>6. CASE \E x \in Addrs : PeerAnswers(x) \/ PeerInitiates(x) \/ Lapses(x)
  BY <1>1, <1>6 DEF PeerAnswers, PeerInitiates, Lapses, sendVars
<1>7. CASE \E s \in Sends : \/ UploadFails(s) \/ SendsDirect(s) \/ SendsToGroup(s)
                            \/ FetchFails(s) \/ Encrypts(s) \/ EncryptRefused(s) \/ PutAnswered(s)
                            \/ PutFails(s) \/ NextMember(s) \/ GroupReturns(s) \/ Cancelled(s)
  BY <1>1, <1>7 DEF UploadFails, SendsDirect, SendsToGroup, FetchFails, Encrypts, EncryptRefused,
                    PutAnswered, PutFails, NextMember, GroupReturns, Cancelled
<1>8. CASE UNCHANGED vars
  BY <1>1, <1>8 DEF vars, sendVars
<1> QED
  BY <1>2, <1>3, <1>4, <1>5, <1>6, <1>7, <1>8 DEF Next, SendStep

THEOREM SeenInvariant == Spec => [](SInv /\ FitsInv /\ SeenInv)
<1>1. Init => SeenInv
  BY SeenInit
<1>2. SInv /\ SeenInv /\ [Next]_vars => SeenInv'
  BY SeenNext
<1> QED
  BY <1>1, <1>2, FitsInvariant, PTL DEF Spec

-----------------------------------------------------------------------------
(* What the server's verdict shows.                                         *)

\* A send asks for no device the recipient does not have, and leaves none out,
\* unless they changed since it fetched the bundles.
LEMMA UnchangedSuitsServer ==
  ASSUME SInv, FitsInv, NEW s \in Sends, pc[s] = "putting",
         \A x \in Of(Current(s)) : bundle[s][x] = device[x]
  PROVE  Verdict(s) = "accepted"
<1> DEFINE required == {x \in Of(Current(s)) : device[x] # None /\ x # Us}
<1>1. /\ {m.addr : m \in msgs[s]} = Targets(s)
      /\ \A m \in msgs[s] : m.reg = bundle[s][m.addr].reg
      /\ \A x \in Addrs : bundle[s][x] # None => x[1] = Current(s)
  BY DEF FitsInv, Fits, PutFits, BundleFits
<1>2. Targets(s) = required
  BY <1>1 DEF Targets, Of
<1>3. \A m \in msgs[s] : m.addr \in Of(Current(s))
  BY <1>1, <1>2
<1>4. \A m \in msgs[s] : m.reg = device[m.addr].reg
  BY <1>1, <1>3
<1>5. {m.addr : m \in msgs[s]} = required
  BY <1>1, <1>2
<1> QED
  BY <1>4, <1>5 DEF Verdict

\* Devices are refused only to a send during which they changed.
THEOREM RefusalsMeanChange == Spec => RefusedOnlyByChange
<1>1. ASSUME SInv, FitsInv, Next, NEW s \in Sends, NEW a \in Accounts,
             result'[s][a] # result[s][a], result'[s][a] \in {"mismatched", "stale"}
      PROVE  \E x \in Of(a) : bundle[s][x] # device[x]
  <2>1. ASSUME NEW t \in Sends, NEW outcome, Finish(t, outcome)
        PROVE  t = s /\ a = Current(s) /\ outcome = result'[s][a]
    <3>1. result' = [result EXCEPT ![t][Current(t)] = outcome]
      BY <2>1 DEF Finish
    <3>2. result \in [Sends -> [Accounts -> {"none", "accepted", "failed", "mismatched",
                                             "stale", "untrusted"}]]
      BY <1>1 DEF SInv, SendTypeOK
    <3> QED
      BY <1>1, <3>1, <3>2
  <2>2. PutAnswered(s) /\ a = Current(s) /\ Verdict(s) # "accepted"
    <3>1. CASE \E t \in Sends : FetchFails(t) \/ PutFails(t)
      BY <1>1, <2>1, <3>1 DEF FetchFails, PutFails
    <3>2. CASE \E t \in Sends : EncryptRefused(t)
      BY <1>1, <2>1, <3>2 DEF EncryptRefused
    <3>3. CASE \E t \in Sends : PutAnswered(t)
      BY <1>1, <2>1, <3>3 DEF PutAnswered
    <3>4. CASE \/ \E b \in Accounts : Reinstalls(b)
               \/ \E x \in Addrs : \/ Links(x) \/ Unlinks(x)
                                   \/ PeerAnswers(x) \/ PeerInitiates(x) \/ Lapses(x)
      BY <1>1, <3>4 DEF Reinstalls, Links, Unlinks, PeerAnswers, PeerInitiates, Lapses, sendVars
    <3>5. CASE \E t \in Sends : \/ UploadFails(t) \/ SendsDirect(t) \/ SendsToGroup(t)
                                \/ ServerGivesBundles(t) \/ Encrypts(t) \/ NextMember(t)
                                \/ GroupReturns(t) \/ Cancelled(t)
      BY <1>1, <3>5 DEF UploadFails, SendsDirect, SendsToGroup, ServerGivesBundles, Encrypts,
                        NextMember, GroupReturns, Cancelled
    <3> QED
      BY <1>1, <3>1, <3>2, <3>3, <3>4, <3>5 DEF Next, SendStep
  <2> QED
    BY <1>1, <2>2, UnchangedSuitsServer DEF PutAnswered
<1>2. SInv /\ FitsInv /\ [Next]_vars =>
        [\A s \in Sends, a \in Accounts :
           result'[s][a] # result[s][a] /\ result'[s][a] \in {"mismatched", "stale"} =>
             \E x \in Of(a) : bundle[s][x] # device[x]]_vars
  BY <1>1
<1> QED
  BY <1>2, FitsInvariant, PTL DEF Spec, RefusedOnlyByChange

\* A message on a session made for it is accepted only if the device at its
\* address can read it.
THEOREM NewSessionsAreReadable == Spec => NewSessionsReadable
<1>1. ASSUME SInv, FitsInv, SeenInv, Next, NEW m \in accepted' \ accepted, m.fresh
      PROVE  m.with = device[m.addr]
  <2>1. PICK s \in Sends : pc[s] = "putting" /\ Verdict(s) = "accepted" /\ m \in msgs[s]
    <3>1. CASE \E s \in Sends : SendAction(s)
      <4>1. PICK s \in Sends : SendAction(s)
        BY <3>1
      <4>2. CASE PutAnswered(s) \/ PutFails(s) \/ Cancelled(s)
        BY <1>1, <4>2 DEF PutAnswered, PutFails, Cancelled, Arrives
      <4>3. CASE \/ UploadFails(s) \/ SendsDirect(s) \/ SendsToGroup(s) \/ ServerGivesBundles(s)
                 \/ FetchFails(s) \/ Encrypts(s) \/ EncryptRefused(s) \/ NextMember(s)
                 \/ GroupReturns(s)
        BY <1>1, <4>3 DEF UploadFails, SendsDirect, SendsToGroup, ServerGivesBundles, FetchFails,
                          Encrypts, EncryptRefused, NextMember, GroupReturns
      <4> QED
        BY <4>1, <4>2, <4>3 DEF SendAction, SendStep
    <3>2. CASE \/ \E b \in Accounts : Reinstalls(b)
               \/ \E x \in Addrs : \/ Links(x) \/ Unlinks(x)
                                   \/ PeerAnswers(x) \/ PeerInitiates(x) \/ Lapses(x)
      BY <1>1, <3>2 DEF Reinstalls, Links, Unlinks, PeerAnswers, PeerInitiates, Lapses
    <3> QED
      BY <1>1, <3>1, <3>2 DEF Next, SendAction
  <2>2. /\ m.addr \in Targets(s) /\ m.reg = bundle[s][m.addr].reg
        /\ m.with = bundle[s][m.addr]
    <3>1. /\ {n.addr : n \in msgs[s]} = Targets(s)
          /\ \A n \in msgs[s] : /\ n.by = s /\ n.reg = bundle[s][n.addr].reg
                                /\ n.fresh => n.with = bundle[s][n.addr]
      BY <1>1, <2>1, Zenon DEF FitsInv, Fits, PutFits
    <3> QED
      BY <1>1, <2>1, <3>1, Zenon
  <2>3. m.reg = device[m.addr].reg
    BY <2>1 DEF Verdict
  <2>4. bundle[s][m.addr] \in Seen /\ device[m.addr] \in Seen
    BY <2>2, SeenMembers DEF Targets
  <2> QED
    BY <1>1, <2>2, <2>3, <2>4 DEF SeenInv
<1>2. SInv /\ FitsInv /\ SeenInv /\ [Next]_vars =>
        [\A m \in accepted' \ accepted : m.fresh => m.with = device[m.addr]]_vars
  BY <1>1
<1> QED
  BY <1>2, SeenInvariant, PTL DEF Spec, NewSessionsReadable
=============================================================================
