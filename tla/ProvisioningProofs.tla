-------------------------- MODULE ProvisioningProofs --------------------------
(* Safety of Provisioning for every number of link commands, sockets and    *)
(* scans and for every timeout.                                             *)
EXTENDS Provisioning, SequenceTheorems, TLAPS

USE ProvisioningBounds

Waits == {"dial", "get", "url", "close"}

\* The conjuncts of the type invariant, by what changes together.
FlowType ==
  /\ call \in 0..MaxCalls /\ ended \in [Calls -> Causes]
  /\ pc \in {"idle", "dial", "get", "url", "close", "put", "save", "done", "failed"}
  /\ now \in Nat /\ due \in Nat /\ budget \in 0..AttemptTimeout
  /\ then \in {"return", "retry", "expired", "callback"} /\ ackedEnv \in SUBSET Calls
SocketType ==
  /\ sock \in Nat /\ line \in {"none", "silent", "open", "dropped", "ended"}
  /\ inbox \in Seq(Pushes) /\ keepalive \in BOOLEAN
  /\ uuid \in 0..sock /\ shown \in Seq(1..sock) /\ held \in Pushes
  /\ drops \in 0..MaxDrops /\ scans \in 0..MaxScans
ServerType ==
  /\ request \in [Calls -> Accepted \cup {"none", "sent", "refused"}]
  /\ devices \in Seq(LinkBodies)

\* A socket is only there while an attempt is at work.
LineInv == line # "none" => pc \in {"get", "url", "close"}

\* Until the address is taken no URL names this socket, so nothing but the
\* address can be in its inbox; afterwards the last URL does, and whatever
\* comes was sent to it.
AddressInv ==
  /\ \A i \in 1..Len(shown) : shown[i] <= sock
  /\ line # "none" =>
       /\ sock > 0
       /\ line = "silent" => uuid = 0 /\ inbox = <<>>
       /\ uuid = 0 => /\ \A i \in 1..Len(shown) : shown[i] # sock
                      /\ Len(inbox) <= 1
                      /\ \A i \in 1..Len(inbox) : inbox[i].uuid = sock
       /\ uuid # 0 => /\ uuid = sock /\ shown # <<>> /\ shown[Len(shown)] = sock
                      /\ \A i \in 1..Len(inbox) :
                           inbox[i].uuid = sock /\ inbox[i].kind # "address"

\* Only an attempt that returns has an envelope in hand.
HeldInv == held # NoPush => pc \notin {"idle", "dial", "get", "url"} /\ then = "return"

\* An acknowledged envelope belongs to a command so far, and an attempt that
\* has acknowledged one is on its way out with it.
AckedInv ==
  /\ \A c \in ackedEnv : c <= call
  /\ call \in ackedEnv => pc \notin {"idle", "dial", "get", "url"}
                          /\ (pc = "close" => then = "return")

\* What each wait may still take of the deadline.
TimeInv ==
  /\ pc \in Waits => now <= due
  /\ pc = "dial" => due + budget <= Timeout + IoTimeout
  /\ pc \in {"get", "url"} => due <= Timeout + IoTimeout
  /\ pc = "close" => due <= Timeout + 2 * IoTimeout

\* The server has a device exactly for the requests it has accepted.
DevicesInv ==
  /\ \A c \in Calls : request[c] \in Accepted => \E i \in 1..Len(devices) : devices[i].call = c
  /\ \A i \in 1..Len(devices) :
       /\ devices[i].call \in Calls /\ devices[i] = LinkBody(devices[i].call)
       /\ request[devices[i].call] \in Accepted

\* A request is sent once, after the waiting, and most failures come before it.
LeavesNone == Causes \ {"open", "done", "lost", "answer", "crash", "save"}
RequestInv ==
  /\ \A c \in Calls : c > call => request[c] = "none" /\ ended[c] = "open"
  /\ pc \in Waits => request[call] = "none"
  /\ \A c \in Calls : ended[c] \in LeavesNone => request[c] \in {"none", "refused"}

\* A session is that of a device, with its number if the answer gave it.
IdOf(i) == IF request[devices[i].call] = "unnamed" THEN PrimaryDeviceId ELSE i + 1
IsSession(s) ==
  s = NoSession \/ \E i \in 1..Len(devices) : s = Linked(devices[i].call, IdOf(i))
SessionInv == IsSession(session) /\ IsSession(saved)

\* Commands are counted while they run.
CallInv == (pc = "idle" <=> call = 0) /\ (Running => ended[call] = "open")

IInv == /\ ProvisioningTypeOK /\ CallInv /\ LineInv /\ AddressInv /\ HeldInv /\ AckedInv
        /\ EnvelopeForLastUrl
        /\ TimeInv /\ DevicesInv /\ RequestInv /\ SessionInv
-----------------------------------------------------------------------------
LEMMA OneElement ==
  ASSUME NEW S, NEW s \in Seq(S), s # <<>>, Len(s) <= 1
  PROVE  Len(s) = 1 /\ Head(s) = s[1] /\ Len(Tail(s)) = 0
<1>1. Len(s) = 1
  <2>1. Len(s) \in Nat \ {0}
    BY EmptySeq, Zenon
  <2>2. \A n \in Nat \ {0} : n <= 1 => n = 1
    OBVIOUS
  <2> QED
    BY <2>1, <2>2, Zenon
<1>2. Len(Tail(s)) = 0
  BY <1>1, HeadTailProperties
<1> QED
  BY <1>1, <1>2

LEMMA AppendBounded ==
  ASSUME NEW n \in Nat, NEW s \in Seq(1..n), \A i \in 1..Len(s) : s[i] <= n
  PROVE  /\ Append(s, n) # <<>> /\ Append(s, n)[Len(Append(s, n))] = n
         /\ \A i \in 1..Len(Append(s, n)) : Append(s, n)[i] <= n
<1>1. Len(Append(s, n)) = Len(s) + 1 /\ Len(s) \in Nat
  OBVIOUS
<1>2. \A i \in 1..Len(s) : Append(s, n)[i] = s[i]
  OBVIOUS
<1>3. Append(s, n)[Len(s) + 1] = n
  OBVIOUS
<1> QED
  BY <1>1, <1>2, <1>3

LEMMA IInvInit == Init => IInv
<1> SUFFICES ASSUME Init PROVE IInv
  OBVIOUS
<1> USE DEF Init, NoPush, NoSession
<1>1. ProvisioningTypeOK
  BY DEF ProvisioningTypeOK, Pushes, Causes, Calls, IsStored
<1>2. CallInv /\ LineInv /\ HeldInv /\ AckedInv /\ TimeInv
  BY DEF CallInv, LineInv, HeldInv, AckedInv, TimeInv, Running, Waits
<1>3. AddressInv /\ EnvelopeForLastUrl
  BY DEF AddressInv, EnvelopeForLastUrl
<1>4. DevicesInv /\ RequestInv
  BY DEF DevicesInv, RequestInv, Waits, Calls, LeavesNone, Accepted
<1>5. SessionInv
  BY DEF SessionInv, IsSession
<1> QED
  BY <1>1, <1>2, <1>3, <1>4, <1>5 DEF IInv

-----------------------------------------------------------------------------
LEMMA TimeNext == ASSUME IInv, Next PROVE TimeInv'
<1> USE DEF IInv, ProvisioningTypeOK, TimeInv, Waits, Waiting, Ends, Leave, attempt, server
<1>1. CASE Start
  BY <1>1 DEF Start, Budget, Least
<1>2. CASE Dialled
  BY <1>2 DEF Dialled
<1>3. CASE DialFails
  BY <1>3 DEF DialFails
<1>4. CASE UrlReturns \/ UrlRaises
  BY <1>4 DEF UrlReturns, UrlRaises
<1>5. CASE GetAddress \/ GetEnvelope
  <2>1. CASE GetAddress
    BY <2>1 DEF GetAddress
  <2>2. CASE GetEnvelope
    BY <2>2 DEF GetEnvelope
  <2> QED
    BY <1>5, <2>1, <2>2
<1>6. CASE AckRaises \/ AttemptExpires \/ AttemptTimesOut
  BY <1>6 DEF AckRaises, AttemptExpires, AttemptTimesOut
<1>7. CASE CloseRaises \/ CloseThenRaises \/ CloseThenLinks \/ CloseThenRejects
  BY <1>7 DEF CloseRaises, CloseThenRaises, CloseThenLinks, CloseThenRejects
<1>8. CASE CloseThenRetries
  BY <1>8 DEF CloseThenRetries, NextAttempt, Budget, Least
<1>9. CASE LinkStep
  BY <1>9 DEF LinkStep, PutAnswered, PutAnswerRaises, PutRefused, PutFails, Save
<1>10. CASE Crash
  BY <1>10 DEF Crash
<1>11. CASE External
  BY <1>11 DEF External, ServerAssigns, SocketDrops, KeepaliveDies, ReadEnds, Scan, ServerLinks,
              ServerRefuses
<1>12. CASE Tick
  BY <1>12 DEF Tick
<1> QED
  BY <1>1, <1>2, <1>3, <1>4, <1>5, <1>6, <1>7, <1>8, <1>9, <1>10, <1>11, <1>12
     DEF Next, DialStep, AttemptStep
LEMMA CallNext == ASSUME IInv, Next PROVE CallInv'
<1> USE DEF IInv, ProvisioningTypeOK, CallInv, Running, Waiting, Ends, Leave, attempt, server
<1>1. CASE Start
  BY <1>1 DEF Start, RequestInv, Calls
<1>2. CASE Dialled
  BY <1>2 DEF Dialled, AttemptBegins
<1>3. CASE DialFails
  BY <1>3 DEF DialFails
<1>4. CASE UrlReturns
  BY <1>4 DEF UrlReturns
<1>5. CASE UrlRaises
  BY <1>5 DEF UrlRaises
<1>6. CASE GetAddress
  BY <1>6 DEF GetAddress
<1>7. CASE GetEnvelope
  BY <1>7 DEF GetEnvelope
<1>8. CASE AckRaises
  BY <1>8 DEF AckRaises
<1>9. CASE AttemptExpires
  BY <1>9 DEF AttemptExpires
<1>10. CASE AttemptTimesOut
  BY <1>10 DEF AttemptTimesOut
<1>11. CASE CloseRaises \/ CloseThenRaises \/ CloseThenRejects
  BY <1>11 DEF CloseRaises, CloseThenRaises, CloseThenRejects
<1>12. CASE CloseThenLinks
  BY <1>12 DEF CloseThenLinks
<1>13. CASE CloseThenRetries
  BY <1>13 DEF CloseThenRetries, NextAttempt
<1>14. CASE PutAnswered \/ PutAnswerRaises
  BY <1>14 DEF PutAnswered, PutAnswerRaises
<1>15. CASE PutRefused \/ PutFails
  BY <1>15 DEF PutRefused, PutFails
<1>16. CASE Save
  BY <1>16 DEF Save
<1>17. CASE Crash
  BY <1>17 DEF Crash
<1>18. CASE ServerAssigns
  BY <1>18 DEF ServerAssigns
<1>19. CASE \E kind \in {"envelope", "garbled", "incomplete", "longKey"} : Scan(kind)
  BY <1>19 DEF Scan
<1>20. CASE SocketDrops
  BY <1>20 DEF SocketDrops
<1>21. CASE KeepaliveDies \/ ReadEnds
  BY <1>21 DEF KeepaliveDies, ReadEnds
<1>22. CASE \E c \in Calls : ServerLinks(c)
  BY <1>22 DEF ServerLinks
<1>23. CASE \E c \in Calls : ServerRefuses(c)
  BY <1>23 DEF ServerRefuses
<1>24. CASE Tick
  BY <1>24 DEF Tick
<1> QED
  BY <1>1, <1>2, <1>3, <1>4, <1>5, <1>6, <1>7, <1>8, <1>9, <1>10, <1>11,
     <1>12, <1>13, <1>14, <1>15, <1>16, <1>17, <1>18, <1>19, <1>20, <1>21, <1>22, <1>23, <1>24
     DEF Next, DialStep, AttemptStep, LinkStep, External

LEMMA LineNext == ASSUME IInv, Next PROVE LineInv'
<1> USE DEF IInv, LineInv, Running, Waiting, Ends, Leave, attempt, server
<1>1. CASE Start
  BY <1>1 DEF Start
<1>2. CASE Dialled
  BY <1>2 DEF Dialled, AttemptBegins
<1>3. CASE DialFails
  BY <1>3 DEF DialFails
<1>4. CASE UrlReturns
  BY <1>4 DEF UrlReturns
<1>5. CASE UrlRaises
  BY <1>5 DEF UrlRaises
<1>6. CASE GetAddress
  BY <1>6 DEF GetAddress
<1>7. CASE GetEnvelope
  BY <1>7 DEF GetEnvelope
<1>8. CASE AckRaises
  BY <1>8 DEF AckRaises
<1>9. CASE AttemptExpires
  BY <1>9 DEF AttemptExpires
<1>10. CASE AttemptTimesOut
  BY <1>10 DEF AttemptTimesOut
<1>11. CASE CloseRaises \/ CloseThenRaises \/ CloseThenRejects
  BY <1>11 DEF CloseRaises, CloseThenRaises, CloseThenRejects
<1>12. CASE CloseThenLinks
  BY <1>12 DEF CloseThenLinks
<1>13. CASE CloseThenRetries
  BY <1>13 DEF CloseThenRetries, NextAttempt
<1>14. CASE PutAnswered \/ PutAnswerRaises
  BY <1>14 DEF PutAnswered, PutAnswerRaises
<1>15. CASE PutRefused \/ PutFails
  BY <1>15 DEF PutRefused, PutFails
<1>16. CASE Save
  BY <1>16 DEF Save
<1>17. CASE Crash
  BY <1>17 DEF Crash
<1>18. CASE ServerAssigns
  BY <1>18 DEF ServerAssigns
<1>19. CASE \E kind \in {"envelope", "garbled", "incomplete", "longKey"} : Scan(kind)
  BY <1>19 DEF Scan
<1>20. CASE SocketDrops
  BY <1>20 DEF SocketDrops, Live
<1>21. CASE KeepaliveDies \/ ReadEnds
  BY <1>21 DEF KeepaliveDies, ReadEnds
<1>22. CASE \E c \in Calls : ServerLinks(c)
  BY <1>22 DEF ServerLinks
<1>23. CASE \E c \in Calls : ServerRefuses(c)
  BY <1>23 DEF ServerRefuses
<1>24. CASE Tick
  BY <1>24 DEF Tick
<1> QED
  BY <1>1, <1>2, <1>3, <1>4, <1>5, <1>6, <1>7, <1>8, <1>9, <1>10, <1>11,
     <1>12, <1>13, <1>14, <1>15, <1>16, <1>17, <1>18, <1>19, <1>20, <1>21, <1>22, <1>23, <1>24
     DEF Next, DialStep, AttemptStep, LinkStep, External

LEMMA HeldNext == ASSUME IInv, Next PROVE HeldInv'
<1> USE DEF IInv, HeldInv, Waiting, Ends, Leave, attempt, server
<1>1. CASE Start
  BY <1>1 DEF Start
<1>2. CASE Dialled
  BY <1>2 DEF Dialled, AttemptBegins
<1>3. CASE DialFails
  BY <1>3 DEF DialFails
<1>4. CASE UrlReturns
  BY <1>4 DEF UrlReturns
<1>5. CASE UrlRaises
  BY <1>5 DEF UrlRaises
<1>6. CASE GetAddress
  BY <1>6 DEF GetAddress
<1>7. CASE GetEnvelope
  BY <1>7 DEF GetEnvelope
<1>8. CASE AckRaises
  BY <1>8 DEF AckRaises
<1>9. CASE AttemptExpires
  BY <1>9 DEF AttemptExpires
<1>10. CASE AttemptTimesOut
  BY <1>10 DEF AttemptTimesOut
<1>11. CASE CloseRaises \/ CloseThenRaises \/ CloseThenRejects
  BY <1>11 DEF CloseRaises, CloseThenRaises, CloseThenRejects
<1>12. CASE CloseThenLinks
  BY <1>12 DEF CloseThenLinks
<1>13. CASE CloseThenRetries
  BY <1>13 DEF CloseThenRetries, NextAttempt
<1>14. CASE PutAnswered \/ PutAnswerRaises
  BY <1>14 DEF PutAnswered, PutAnswerRaises
<1>15. CASE PutRefused \/ PutFails
  BY <1>15 DEF PutRefused, PutFails
<1>16. CASE Save
  BY <1>16 DEF Save
<1>17. CASE Crash
  BY <1>17 DEF Crash
<1>18. CASE ServerAssigns
  BY <1>18 DEF ServerAssigns
<1>19. CASE \E kind \in {"envelope", "garbled", "incomplete", "longKey"} : Scan(kind)
  BY <1>19 DEF Scan
<1>20. CASE SocketDrops
  BY <1>20 DEF SocketDrops
<1>21. CASE KeepaliveDies \/ ReadEnds
  BY <1>21 DEF KeepaliveDies, ReadEnds
<1>22. CASE \E c \in Calls : ServerLinks(c)
  BY <1>22 DEF ServerLinks
<1>23. CASE \E c \in Calls : ServerRefuses(c)
  BY <1>23 DEF ServerRefuses
<1>24. CASE Tick
  BY <1>24 DEF Tick
<1> QED
  BY <1>1, <1>2, <1>3, <1>4, <1>5, <1>6, <1>7, <1>8, <1>9, <1>10, <1>11,
     <1>12, <1>13, <1>14, <1>15, <1>16, <1>17, <1>18, <1>19, <1>20, <1>21, <1>22, <1>23, <1>24
     DEF Next, DialStep, AttemptStep, LinkStep, External

LEMMA AckedNext == ASSUME IInv, Next PROVE AckedInv'
<1> USE DEF IInv, ProvisioningTypeOK, CallInv, AckedInv, Running, Waiting, Ends, Leave, attempt, server
<1>1. CASE Start
  BY <1>1 DEF Start, Calls
<1>2. CASE Dialled
  BY <1>2 DEF Dialled, AttemptBegins
<1>3. CASE DialFails
  BY <1>3 DEF DialFails
<1>4. CASE UrlReturns
  BY <1>4 DEF UrlReturns
<1>5. CASE UrlRaises
  BY <1>5 DEF UrlRaises
<1>6. CASE GetAddress
  BY <1>6 DEF GetAddress
<1>7. CASE GetEnvelope
  BY <1>7 DEF GetEnvelope
<1>8. CASE AckRaises
  BY <1>8 DEF AckRaises
<1>9. CASE AttemptExpires
  BY <1>9 DEF AttemptExpires
<1>10. CASE AttemptTimesOut
  BY <1>10 DEF AttemptTimesOut
<1>11. CASE CloseRaises \/ CloseThenRaises \/ CloseThenRejects
  BY <1>11 DEF CloseRaises, CloseThenRaises, CloseThenRejects
<1>12. CASE CloseThenLinks
  BY <1>12 DEF CloseThenLinks
<1>13. CASE CloseThenRetries
  BY <1>13 DEF CloseThenRetries, NextAttempt
<1>14. CASE PutAnswered \/ PutAnswerRaises
  BY <1>14 DEF PutAnswered, PutAnswerRaises
<1>15. CASE PutRefused \/ PutFails
  BY <1>15 DEF PutRefused, PutFails
<1>16. CASE Save
  BY <1>16 DEF Save
<1>17. CASE Crash
  BY <1>17 DEF Crash
<1>18. CASE ServerAssigns
  BY <1>18 DEF ServerAssigns
<1>19. CASE \E kind \in {"envelope", "garbled", "incomplete", "longKey"} : Scan(kind)
  BY <1>19 DEF Scan
<1>20. CASE SocketDrops
  BY <1>20 DEF SocketDrops
<1>21. CASE KeepaliveDies \/ ReadEnds
  BY <1>21 DEF KeepaliveDies, ReadEnds
<1>22. CASE \E c \in Calls : ServerLinks(c)
  BY <1>22 DEF ServerLinks
<1>23. CASE \E c \in Calls : ServerRefuses(c)
  BY <1>23 DEF ServerRefuses
<1>24. CASE Tick
  BY <1>24 DEF Tick
<1> QED
  BY <1>1, <1>2, <1>3, <1>4, <1>5, <1>6, <1>7, <1>8, <1>9, <1>10, <1>11,
     <1>12, <1>13, <1>14, <1>15, <1>16, <1>17, <1>18, <1>19, <1>20, <1>21, <1>22, <1>23, <1>24
     DEF Next, DialStep, AttemptStep, LinkStep, External

LEMMA AddressNext == ASSUME IInv, Next PROVE AddressInv'
<1> USE DEF IInv, ProvisioningTypeOK, AddressInv, LineInv, Running, Waiting, Ends, Leave, Live, attempt, server
<1>1. CASE Start
  BY <1>1 DEF Start
<1>2. CASE Dialled
  BY <1>2 DEF Dialled, AttemptBegins
<1>3. CASE DialFails
  BY <1>3 DEF DialFails
<1>4. CASE UrlReturns
  BY <1>4 DEF UrlReturns
<1>5. CASE UrlRaises
  BY <1>5 DEF UrlRaises
<1>6. CASE GetAddress
  <2>1. sock > 0 /\ line' # "none" /\ line' # "silent"
    BY <1>6 DEF GetAddress
  <2>2. Len(inbox) = 1 /\ Head(inbox).uuid = sock
    <3>1. /\ inbox \in Seq(Pushes) /\ inbox # <<>> /\ Len(inbox) <= 1
          /\ \A i \in 1..Len(inbox) : inbox[i].uuid = sock
      BY <1>6 DEF GetAddress
    <3> QED
      BY <3>1, OneElement
  <2>3. sock' = sock /\ uuid' = sock /\ Len(inbox') = 0
    BY <1>6, <2>2 DEF GetAddress
  <2>4. shown' = Append(shown, sock)
    BY <1>6, <2>2 DEF GetAddress
  <2>5. /\ shown \in Seq(1..sock)
        /\ \A i \in 1..Len(shown) : shown[i] <= sock
    BY DEF AddressInv
  <2>6. /\ shown' # <<>> /\ shown'[Len(shown')] = sock
        /\ \A i \in 1..Len(shown') : shown'[i] <= sock
    BY <2>1, <2>4, <2>5, AppendBounded
  <2> QED
    BY <2>1, <2>3, <2>6
<1>7. CASE GetEnvelope
  BY <1>7 DEF GetEnvelope
<1>8. CASE AckRaises
  BY <1>8 DEF AckRaises
<1>9. CASE AttemptExpires
  BY <1>9 DEF AttemptExpires
<1>10. CASE AttemptTimesOut
  BY <1>10 DEF AttemptTimesOut
<1>11. CASE CloseRaises \/ CloseThenRaises \/ CloseThenRejects
  BY <1>11 DEF CloseRaises, CloseThenRaises, CloseThenRejects
<1>12. CASE CloseThenLinks
  BY <1>12 DEF CloseThenLinks
<1>13. CASE CloseThenRetries
  BY <1>13 DEF CloseThenRetries, NextAttempt
<1>14. CASE PutAnswered \/ PutAnswerRaises
  BY <1>14 DEF PutAnswered, PutAnswerRaises
<1>15. CASE PutRefused \/ PutFails
  BY <1>15 DEF PutRefused, PutFails
<1>16. CASE Save
  BY <1>16 DEF Save
<1>17. CASE Crash
  BY <1>17 DEF Crash
<1>18. CASE ServerAssigns
  BY <1>18 DEF ServerAssigns
<1>19. CASE \E kind \in {"envelope", "garbled", "incomplete", "longKey"} : Scan(kind)
  BY <1>19 DEF Scan
<1>20. CASE SocketDrops
  BY <1>20 DEF SocketDrops
<1>21. CASE KeepaliveDies \/ ReadEnds
  BY <1>21 DEF KeepaliveDies, ReadEnds
<1>22. CASE \E c \in Calls : ServerLinks(c)
  BY <1>22 DEF ServerLinks
<1>23. CASE \E c \in Calls : ServerRefuses(c)
  BY <1>23 DEF ServerRefuses
<1>24. CASE Tick
  BY <1>24 DEF Tick
<1> QED
  BY <1>1, <1>2, <1>3, <1>4, <1>5, <1>6, <1>7, <1>8, <1>9, <1>10, <1>11,
     <1>12, <1>13, <1>14, <1>15, <1>16, <1>17, <1>18, <1>19, <1>20, <1>21, <1>22, <1>23, <1>24
     DEF Next, DialStep, AttemptStep, LinkStep, External

LEMMA EnvelopeNext == ASSUME IInv, Next PROVE EnvelopeForLastUrl'
<1> USE DEF IInv, ProvisioningTypeOK, AddressInv, LineInv, HeldInv, EnvelopeForLastUrl, Waiting, Ends, Leave, Live, attempt, server
<1>1. CASE Start
  BY <1>1 DEF Start
<1>2. CASE Dialled
  BY <1>2 DEF Dialled, AttemptBegins
<1>3. CASE DialFails
  BY <1>3 DEF DialFails
<1>4. CASE UrlReturns
  BY <1>4 DEF UrlReturns
<1>5. CASE UrlRaises
  BY <1>5 DEF UrlRaises
<1>6. CASE GetAddress
  BY <1>6 DEF GetAddress
<1>7. CASE GetEnvelope
  BY <1>7 DEF GetEnvelope
<1>8. CASE AckRaises
  BY <1>8 DEF AckRaises
<1>9. CASE AttemptExpires
  BY <1>9 DEF AttemptExpires
<1>10. CASE AttemptTimesOut
  BY <1>10 DEF AttemptTimesOut
<1>11. CASE CloseRaises \/ CloseThenRaises \/ CloseThenRejects
  BY <1>11 DEF CloseRaises, CloseThenRaises, CloseThenRejects
<1>12. CASE CloseThenLinks
  BY <1>12 DEF CloseThenLinks
<1>13. CASE CloseThenRetries
  BY <1>13 DEF CloseThenRetries, NextAttempt
<1>14. CASE PutAnswered \/ PutAnswerRaises
  BY <1>14 DEF PutAnswered, PutAnswerRaises
<1>15. CASE PutRefused \/ PutFails
  BY <1>15 DEF PutRefused, PutFails
<1>16. CASE Save
  BY <1>16 DEF Save
<1>17. CASE Crash
  BY <1>17 DEF Crash
<1>18. CASE ServerAssigns
  BY <1>18 DEF ServerAssigns
<1>19. CASE \E kind \in {"envelope", "garbled", "incomplete", "longKey"} : Scan(kind)
  BY <1>19 DEF Scan
<1>20. CASE SocketDrops
  BY <1>20 DEF SocketDrops
<1>21. CASE KeepaliveDies \/ ReadEnds
  BY <1>21 DEF KeepaliveDies, ReadEnds
<1>22. CASE \E c \in Calls : ServerLinks(c)
  BY <1>22 DEF ServerLinks
<1>23. CASE \E c \in Calls : ServerRefuses(c)
  BY <1>23 DEF ServerRefuses
<1>24. CASE Tick
  BY <1>24 DEF Tick
<1> QED
  BY <1>1, <1>2, <1>3, <1>4, <1>5, <1>6, <1>7, <1>8, <1>9, <1>10, <1>11,
     <1>12, <1>13, <1>14, <1>15, <1>16, <1>17, <1>18, <1>19, <1>20, <1>21, <1>22, <1>23, <1>24
     DEF Next, DialStep, AttemptStep, LinkStep, External

LEMMA LinkedDevices ==
  ASSUME IInv, NEW c \in Calls, ServerLinks(c)
  PROVE  /\ devices' \in Seq(LinkBodies) /\ Len(devices) \in Nat
         /\ Len(devices') = Len(devices) + 1 /\ devices'[Len(devices) + 1] = LinkBody(c)
         /\ \A i \in 1..Len(devices) : devices'[i] = devices[i]
<1>1. LinkBody(c) \in LinkBodies
  BY DEF LinkBodies
<1>2. devices \in Seq(LinkBodies) /\ devices' = Append(devices, LinkBody(c))
  BY DEF IInv, ProvisioningTypeOK, ServerLinks
<1> QED
  BY <1>1, <1>2, AppendProperties, LenProperties

LEMMA DevicesNext == ASSUME IInv, Next PROVE DevicesInv' /\ ServerType'
<1> USE DEF IInv
<1>1. ASSUME NEW c \in Calls, ServerLinks(c) PROVE DevicesInv' /\ ServerType'
  <2>1. PICK answer \in Accepted :
        /\ request \in [Calls -> Accepted \cup {"none", "sent", "refused"}]
        /\ request' = [request EXCEPT ![c] = answer] /\ request[c] = "sent"
    BY <1>1 DEF ServerLinks, ProvisioningTypeOK
  <2>2. LinkBody(c).call = c
    BY DEF LinkBody
  <2>3. \A i \in 1..Len(devices') :
          /\ devices'[i].call \in Calls /\ devices'[i] = LinkBody(devices'[i].call)
          /\ request'[devices'[i].call] \in Accepted
    BY <1>1, <2>1, <2>2, LinkedDevices DEF DevicesInv
  <2>4. ASSUME NEW d \in Calls, request'[d] \in Accepted
        PROVE  \E i \in 1..Len(devices') : devices'[i].call = d
    BY <1>1, <2>1, <2>2, <2>4, LinkedDevices DEF DevicesInv
  <2>5. ServerType'
    BY <1>1, <2>1, LinkedDevices DEF ServerType
  <2> QED
    BY <2>3, <2>4, <2>5 DEF DevicesInv
<1>2. ASSUME NEW c \in Calls, ServerRefuses(c) PROVE DevicesInv' /\ ServerType'
  BY <1>2 DEF ServerRefuses, DevicesInv, ServerType, ProvisioningTypeOK, Accepted
<1>3. CASE CloseThenLinks
  BY <1>3 DEF CloseThenLinks, DevicesInv, RequestInv, Waits, ServerType, ProvisioningTypeOK, Accepted
<1>4. CASE UNCHANGED server
  BY <1>4 DEF server, DevicesInv, ServerType, ProvisioningTypeOK
<1>5. CloseThenLinks \/ UNCHANGED server \/ \E c \in Calls : ServerLinks(c) \/ ServerRefuses(c)
  BY DEF server, Next, DialStep, AttemptStep, LinkStep, External, Start, Dialled, DialFails, UrlReturns,
         UrlRaises, GetAddress, GetEnvelope, AckRaises, AttemptExpires, AttemptTimesOut, CloseRaises,
         CloseThenRaises, CloseThenRejects, CloseThenRetries, PutRefused, PutFails, PutAnswered, PutAnswerRaises,
         Save, Crash,
         ServerAssigns, Scan, SocketDrops, KeepaliveDies, ReadEnds, ServerRefuses, ServerLinks, CloseThenLinks, Tick
<1> QED
  BY <1>1, <1>2, <1>3, <1>4, <1>5

\* An answer is final.
LEMMA AnswersStay ==
  ASSUME IInv, Next, NEW c \in Calls, request[c] \in Accepted
  PROVE  request'[c] = request[c]
<1>1. ASSUME NEW d \in Calls, ServerLinks(d) \/ ServerRefuses(d) PROVE request'[c] = request[c]
  BY <1>1 DEF IInv, ProvisioningTypeOK, ServerLinks, ServerRefuses, Accepted
<1>2. CASE CloseThenLinks
  BY <1>2 DEF IInv, ProvisioningTypeOK, CloseThenLinks, RequestInv, Waits, Accepted
<1>3. CASE UNCHANGED server
  BY <1>3 DEF server
<1>4. CloseThenLinks \/ UNCHANGED server \/ \E d \in Calls : ServerLinks(d) \/ ServerRefuses(d)
  BY DEF server, Next, DialStep, AttemptStep, LinkStep, External, Start, Dialled, DialFails, UrlReturns,
         UrlRaises, GetAddress, GetEnvelope, AckRaises, AttemptExpires, AttemptTimesOut, CloseRaises,
         CloseThenRaises, CloseThenRejects, CloseThenRetries, PutRefused, PutFails, PutAnswered, PutAnswerRaises,
         Save, Crash,
         ServerAssigns, Scan, SocketDrops, KeepaliveDies, ReadEnds, ServerRefuses, ServerLinks, CloseThenLinks, Tick
<1> QED
  BY <1>1, <1>2, <1>3, <1>4

\* So a session stays that of its device, whatever else happens.
LEMMA SessionsStay == ASSUME IInv, Next, NEW s, IsSession(s) PROVE
  s = NoSession \/ \E i \in 1..Len(devices') : s = Linked(devices'[i].call, IdOf(i)')
<1> SUFFICES ASSUME s # NoSession
             PROVE  \E i \in 1..Len(devices') : s = Linked(devices'[i].call, IdOf(i)')
  OBVIOUS
<1>1. PICK i \in 1..Len(devices) : s = Linked(devices[i].call, IdOf(i))
  BY DEF IsSession
<1>2. devices[i].call \in Calls /\ request'[devices[i].call] = request[devices[i].call]
  BY AnswersStay DEF IInv, DevicesInv
<1>3. i \in 1..Len(devices') /\ devices'[i] = devices[i]
  <2>1. CASE \E c \in Calls : ServerLinks(c)
    BY <2>1, LinkedDevices
  <2>2. CASE UNCHANGED devices
    BY <2>2
  <2>3. UNCHANGED devices \/ \E c \in Calls : ServerLinks(c)
    BY DEF server, Next, DialStep, AttemptStep, LinkStep, External, Start, Dialled, DialFails, UrlReturns,
           UrlRaises, GetAddress, GetEnvelope, AckRaises, AttemptExpires, AttemptTimesOut, CloseRaises,
           CloseThenRaises, CloseThenRejects, CloseThenRetries, PutRefused, PutFails, PutAnswered,
           PutAnswerRaises, Save, Crash,
           ServerAssigns, Scan, SocketDrops, KeepaliveDies, ReadEnds, ServerRefuses, CloseThenLinks, Tick
  <2> QED
    BY <2>1, <2>2, <2>3
<1>4. IdOf(i)' = IdOf(i)
  BY <1>2, <1>3 DEF IdOf
<1> QED
  BY <1>1, <1>3, <1>4

LEMMA SessionNext == ASSUME IInv, Next PROVE SessionInv'
<1>1. ASSUME NEW s, IsSession(s)
      PROVE  s = NoSession \/ \E i \in 1..Len(devices') : s = Linked(devices'[i].call, IdOf(i)')
  BY <1>1, SessionsStay
<1>2. IsSession(session) /\ IsSession(saved) /\ IsSession(NoSession)
  BY DEF IInv, SessionInv, IsSession
<1>3. session' \in {session, saved, NoSession} /\ saved' \in {session, saved} => SessionInv'
  BY <1>1, <1>2 DEF SessionInv, IsSession
<1>4. CASE PutAnswered
  <2>1. call \in Calls /\ request[call] \in {"linked", "unnamed"}
    BY <1>4 DEF PutAnswered, IsUsable, IInv, ProvisioningTypeOK, CallInv, Calls
  <2>2. PICK i \in 1..Len(devices) : devices[i].call = call
    BY <2>1 DEF IInv, DevicesInv, Accepted
  <2>3. DOMAIN devices = 1..Len(devices)
    BY LenProperties DEF IInv, ProvisioningTypeOK
  <2>4. DeviceOf(call) \in 1..Len(devices) /\ devices[DeviceOf(call)].call = call
    BY <2>2, <2>3 DEF DeviceOf
  <2>5. /\ session' = Linked(call, AnsweredId(call)) /\ saved' = saved
        /\ devices' = devices /\ request' = request
    BY <1>4 DEF PutAnswered, server
  <2>6. AnsweredId(call) = IdOf(DeviceOf(call))
    BY <2>4 DEF AnsweredId, IdOf
  <2>7. IsSession(Linked(call, AnsweredId(call)))
    BY <2>4, <2>6 DEF IsSession
  <2> QED
    BY <1>1, <1>2, <2>5, <2>7 DEF SessionInv, IsSession
<1>5. CASE Save
  BY <1>3, <1>5 DEF Save
<1>6. PutAnswered \/ Save \/ (session' \in {session, NoSession} /\ saved' = saved)
  BY DEF server, Next, DialStep, AttemptStep, LinkStep, External, Start, Dialled, DialFails, UrlReturns,
         UrlRaises, GetAddress, GetEnvelope, AckRaises, AttemptExpires, AttemptTimesOut, CloseRaises,
         CloseThenRaises, CloseThenRejects, CloseThenRetries, PutRefused, PutFails, PutAnswerRaises, Crash,
         ServerAssigns, Scan, SocketDrops, KeepaliveDies, ReadEnds, ServerRefuses, ServerLinks, CloseThenLinks, Tick
<1> QED
  BY <1>3, <1>4, <1>5, <1>6

\* A command that ends leaves its request as it is.
LEMMA RequestEnds ==
  ASSUME IInv, Running, NEW how, Ends(how), UNCHANGED <<call, request>>,
         how \in LeavesNone => request[call] \in {"none", "refused"}
  PROVE  RequestInv'
<1>1. /\ ended \in [Calls -> Causes] /\ call \in Calls
  BY DEF IInv, ProvisioningTypeOK, CallInv, Running, Calls
<1>2. \A c \in Calls : ended'[c] = IF c = call THEN how ELSE ended[c]
  BY <1>1 DEF Ends
<1>3. \A c \in Calls : c > call => c # call
  BY <1>1 DEF Calls
<1>4. pc' \notin Waits
  BY DEF Ends, Waits
<1>5. RequestInv
  BY DEF IInv
<1> QED
  BY <1>2, <1>3, <1>4, <1>5 DEF RequestInv

LEMMA RequestNext == ASSUME IInv, Next PROVE RequestInv'
<1> USE DEF IInv, ProvisioningTypeOK, CallInv, RequestInv, Running, Waiting, Waits, Calls, Ends, Leave, LeavesNone,
            Causes, Accepted, attempt, server
<1>1. CASE Start
  BY <1>1 DEF Start
<1>2. CASE Dialled
  BY <1>2 DEF Dialled, AttemptBegins
<1>3. CASE DialFails
  BY <1>3 DEF DialFails
<1>4. CASE UrlReturns
  BY <1>4 DEF UrlReturns
<1>5. CASE UrlRaises
  BY <1>5 DEF UrlRaises
<1>6. CASE GetAddress
  BY <1>6 DEF GetAddress
<1>7. CASE GetEnvelope
  BY <1>7 DEF GetEnvelope
<1>8. CASE AckRaises
  BY <1>8 DEF AckRaises
<1>9. CASE AttemptExpires
  BY <1>9 DEF AttemptExpires
<1>10. CASE AttemptTimesOut
  BY <1>10 DEF AttemptTimesOut
<1>11. CASE CloseRaises \/ CloseThenRaises \/ CloseThenRejects
  <2>1. PICK how : Running /\ Ends(how) /\ UNCHANGED <<call, request>> /\ request[call] = "none"
    BY <1>11 DEF CloseRaises, CloseThenRaises, CloseThenRejects
  <2> QED
    BY <2>1, RequestEnds
<1>12. CASE CloseThenLinks
  BY <1>12 DEF CloseThenLinks
<1>13. CASE CloseThenRetries
  BY <1>13 DEF CloseThenRetries, NextAttempt
<1>14. CASE PutAnswered \/ PutAnswerRaises
  BY <1>14 DEF PutAnswered, PutAnswerRaises
<1>15. CASE PutRefused \/ PutFails
  <2>1. PICK how : /\ Running /\ Ends(how) /\ UNCHANGED <<call, request>>
                   /\ how = "lost" \/ request[call] = "refused"
    BY <1>15 DEF PutRefused, PutFails
  <2> QED
    BY <2>1, RequestEnds
<1>16. CASE Save
  <2>1. PICK how \in {"done", "save"} : Running /\ Ends(how) /\ UNCHANGED <<call, request>>
    BY <1>16 DEF Save
  <2> QED
    BY <2>1, RequestEnds
<1>17. CASE Crash
  BY <1>17 DEF Crash
<1>18. CASE ServerAssigns
  BY <1>18 DEF ServerAssigns
<1>19. CASE \E kind \in {"envelope", "garbled", "incomplete", "longKey"} : Scan(kind)
  BY <1>19 DEF Scan
<1>20. CASE SocketDrops
  BY <1>20 DEF SocketDrops
<1>21. CASE KeepaliveDies \/ ReadEnds
  BY <1>21 DEF KeepaliveDies, ReadEnds
<1>22. CASE \E c \in Calls : ServerLinks(c)
  BY <1>22 DEF ServerLinks
<1>23. CASE \E c \in Calls : ServerRefuses(c)
  BY <1>23 DEF ServerRefuses
<1>24. CASE Tick
  BY <1>24 DEF Tick
<1> QED
  BY <1>1, <1>2, <1>3, <1>4, <1>5, <1>6, <1>7, <1>8, <1>9, <1>10, <1>11,
     <1>12, <1>13, <1>14, <1>15, <1>16, <1>17, <1>18, <1>19, <1>20, <1>21, <1>22, <1>23, <1>24
     DEF Next, DialStep, AttemptStep, LinkStep, External

LEMMA FlowTypeNext == ASSUME IInv, Next PROVE FlowType'
<1> USE DEF IInv, ProvisioningTypeOK, FlowType, CallInv, Running, Waiting, Ends, Leave, Causes, Calls, attempt, server
<1>1. CASE Start
  BY <1>1 DEF Start, Budget, Least
<1>2. CASE Dialled
  BY <1>2 DEF Dialled, AttemptBegins
<1>3. CASE DialFails
  BY <1>3 DEF DialFails
<1>4. CASE UrlReturns
  BY <1>4 DEF UrlReturns
<1>5. CASE UrlRaises
  BY <1>5 DEF UrlRaises
<1>6. CASE GetAddress
  BY <1>6 DEF GetAddress
<1>7. CASE GetEnvelope
  BY <1>7 DEF GetEnvelope
<1>8. CASE AckRaises
  BY <1>8 DEF AckRaises
<1>9. CASE AttemptExpires
  BY <1>9 DEF AttemptExpires
<1>10. CASE AttemptTimesOut
  BY <1>10 DEF AttemptTimesOut
<1>11. CASE CloseRaises \/ CloseThenRaises \/ CloseThenRejects
  BY <1>11 DEF CloseRaises, CloseThenRaises, CloseThenRejects
<1>12. CASE CloseThenLinks
  BY <1>12 DEF CloseThenLinks
<1>13. CASE CloseThenRetries
  BY <1>13 DEF CloseThenRetries, NextAttempt, Budget, Least
<1>14. CASE PutAnswered \/ PutAnswerRaises
  BY <1>14 DEF PutAnswered, PutAnswerRaises
<1>15. CASE PutRefused \/ PutFails
  BY <1>15 DEF PutRefused, PutFails
<1>16. CASE Save
  BY <1>16 DEF Save
<1>17. CASE Crash
  BY <1>17 DEF Crash
<1>18. CASE ServerAssigns
  BY <1>18 DEF ServerAssigns
<1>19. CASE \E kind \in {"envelope", "garbled", "incomplete", "longKey"} : Scan(kind)
  BY <1>19 DEF Scan
<1>20. CASE SocketDrops
  BY <1>20 DEF SocketDrops
<1>21. CASE KeepaliveDies \/ ReadEnds
  BY <1>21 DEF KeepaliveDies, ReadEnds
<1>22. CASE \E c \in Calls : ServerLinks(c)
  BY <1>22 DEF ServerLinks
<1>23. CASE \E c \in Calls : ServerRefuses(c)
  BY <1>23 DEF ServerRefuses
<1>24. CASE Tick
  BY <1>24 DEF Tick
<1> QED
  BY <1>1, <1>2, <1>3, <1>4, <1>5, <1>6, <1>7, <1>8, <1>9, <1>10, <1>11,
     <1>12, <1>13, <1>14, <1>15, <1>16, <1>17, <1>18, <1>19, <1>20, <1>21, <1>22, <1>23, <1>24
     DEF Next, DialStep, AttemptStep, LinkStep, External

LEMMA SocketTypeNext == ASSUME IInv, Next PROVE SocketType'
<1> USE DEF IInv, ProvisioningTypeOK, SocketType, AddressInv, LineInv, Waiting, Ends, Leave, Live, attempt, server
<1>1. CASE Start
  BY <1>1 DEF Start, NoPush, Pushes
<1>2. CASE Dialled
  BY <1>2 DEF Dialled, AttemptBegins
<1>3. CASE DialFails
  BY <1>3 DEF DialFails
<1>4. CASE UrlReturns
  BY <1>4 DEF UrlReturns
<1>5. CASE UrlRaises
  BY <1>5 DEF UrlRaises
<1>6. CASE GetAddress
  BY <1>6 DEF GetAddress
<1>7. CASE GetEnvelope
  BY <1>7 DEF GetEnvelope
<1>8. CASE AckRaises
  BY <1>8 DEF AckRaises
<1>9. CASE AttemptExpires
  BY <1>9 DEF AttemptExpires
<1>10. CASE AttemptTimesOut
  BY <1>10 DEF AttemptTimesOut
<1>11. CASE CloseRaises \/ CloseThenRaises \/ CloseThenRejects
  BY <1>11 DEF CloseRaises, CloseThenRaises, CloseThenRejects
<1>12. CASE CloseThenLinks
  BY <1>12 DEF CloseThenLinks
<1>13. CASE CloseThenRetries
  BY <1>13 DEF CloseThenRetries, NextAttempt
<1>14. CASE PutAnswered \/ PutAnswerRaises
  BY <1>14 DEF PutAnswered, PutAnswerRaises
<1>15. CASE PutRefused \/ PutFails
  BY <1>15 DEF PutRefused, PutFails
<1>16. CASE Save
  BY <1>16 DEF Save
<1>17. CASE Crash
  BY <1>17 DEF Crash
<1>18. CASE ServerAssigns
  BY <1>18 DEF ServerAssigns, Pushes
<1>19. CASE \E kind \in {"envelope", "garbled", "incomplete", "longKey"} : Scan(kind)
  BY <1>19 DEF Scan, Pushes
<1>20. CASE SocketDrops
  BY <1>20 DEF SocketDrops
<1>21. CASE KeepaliveDies \/ ReadEnds
  BY <1>21 DEF KeepaliveDies, ReadEnds
<1>22. CASE \E c \in Calls : ServerLinks(c)
  BY <1>22 DEF ServerLinks
<1>23. CASE \E c \in Calls : ServerRefuses(c)
  BY <1>23 DEF ServerRefuses
<1>24. CASE Tick
  BY <1>24 DEF Tick
<1> QED
  BY <1>1, <1>2, <1>3, <1>4, <1>5, <1>6, <1>7, <1>8, <1>9, <1>10, <1>11,
     <1>12, <1>13, <1>14, <1>15, <1>16, <1>17, <1>18, <1>19, <1>20, <1>21, <1>22, <1>23, <1>24
     DEF Next, DialStep, AttemptStep, LinkStep, External

LEMMA SessionsStored ==
  ASSUME NEW devs, NEW req, \A i \in 1..Len(devs) : devs[i].call \in Calls, Len(devs) \in Nat,
         NEW s, s = NoSession \/ \E i \in 1..Len(devs) :
           s = Linked(devs[i].call, IF req[devs[i].call] = "unnamed" THEN PrimaryDeviceId ELSE i + 1)
  PROVE  s = NoSession \/ \E c \in Calls : s = Linked(c, s.device)
                                           /\ (s.device >= 2 \/ req[c] = "unnamed")
<1>1. CASE s = NoSession
  BY <1>1
<1>2. CASE s # NoSession
  <2>1. PICK i \in 1..Len(devs) :
          s = Linked(devs[i].call, IF req[devs[i].call] = "unnamed" THEN PrimaryDeviceId ELSE i + 1)
    BY <1>2
  <2>2. s.device = IF req[devs[i].call] = "unnamed" THEN PrimaryDeviceId ELSE i + 1
    BY <2>1 DEF Linked, Fresh
  <2>3. i + 1 >= 2
    OBVIOUS
  <2> QED
    BY <2>1, <2>2, <2>3
<1> QED
  BY <1>1, <1>2

LEMMA TypeNext == ASSUME IInv, Next PROVE ProvisioningTypeOK'
<1>1. FlowType'
  BY FlowTypeNext
<1>2. SocketType'
  BY SocketTypeNext
<1>3. ServerType' /\ DevicesInv' /\ SessionInv'
  BY DevicesNext, SessionNext
<1>4. Len(devices') \in Nat /\ \A i \in 1..Len(devices') : devices'[i].call \in Calls
  BY <1>3, LenProperties DEF ServerType, DevicesInv
<1>5. ASSUME NEW s, s = NoSession \/ \E i \in 1..Len(devices') : s = Linked(devices'[i].call, IdOf(i)')
      PROVE  s = NoSession \/ \E c \in Calls : s = Linked(c, s.device)
                                               /\ (s.device >= 2 \/ request'[c] = "unnamed")
  BY <1>4, <1>5, SessionsStored DEF IdOf
<1>7. IsStored(session)' /\ IsStored(saved)'
  BY <1>3, <1>5 DEF SessionInv, IsSession, IsStored
<1> QED
  BY <1>1, <1>2, <1>3, <1>7 DEF ProvisioningTypeOK, FlowType, SocketType, ServerType

LEMMA IInvStutters == ASSUME IInv, UNCHANGED vars PROVE IInv'
<1> USE DEF IInv, vars, attempt, server
<1>1. ProvisioningTypeOK'
  BY DEF ProvisioningTypeOK, IsStored
<1>2. CallInv' /\ LineInv' /\ HeldInv' /\ AckedInv' /\ TimeInv'
  BY DEF CallInv, LineInv, HeldInv, AckedInv, TimeInv, Running, Waits
<1>3. AddressInv' /\ EnvelopeForLastUrl'
  BY DEF AddressInv, EnvelopeForLastUrl
<1>4. DevicesInv' /\ RequestInv'
  BY DEF DevicesInv, RequestInv, Waits
<1>5. SessionInv'
  BY DEF SessionInv, IsSession, IdOf
<1> QED
  BY <1>1, <1>2, <1>3, <1>4, <1>5

THEOREM Invariance == Spec => []IInv
<1>1. Init => IInv
  BY IInvInit
<1>2. IInv /\ [Next]_vars => IInv'
  <2> SUFFICES ASSUME IInv, [Next]_vars PROVE IInv'
    OBVIOUS
  <2>1. CASE Next
    BY <2>1, TypeNext, CallNext, LineNext, HeldNext, AckedNext, TimeNext, AddressNext, EnvelopeNext,
       DevicesNext, RequestNext, SessionNext DEF IInv
  <2>2. CASE UNCHANGED vars
    BY <2>2, IInvStutters
  <2> QED
    BY <2>1, <2>2
<1> QED
  BY <1>1, <1>2, PTL DEF Spec

-----------------------------------------------------------------------------
(* Type correctness of the linking flow: whatever the timers, the sockets   *)
(* and the primary do, a session is that of a device above the primary's,   *)
(* unless the server's answer named no device.                              *)
THEOREM ProvisioningTypes == Spec => []ProvisioningTypeOK
<1>1. IInv => ProvisioningTypeOK
  BY DEF IInv
<1> QED
  BY <1>1, Invariance, PTL

(* The wait for the primary overruns its deadline by one dial and one close *)
(* at most, for every deadline, attempt time-out and number of attempts:    *)
(* the budget taken before a dial and the dial's own limit add up.          *)
THEOREM WaitsEndInTime == Spec => []WaitEndsInTime
<1>1. IInv => WaitEndsInTime
  BY DEF IInv, ProvisioningTypeOK, TimeInv, Waits, WaitEndsInTime
<1> QED
  BY <1>1, Invariance, PTL

(* An envelope acknowledged to the server is never thrown away for another  *)
(* attempt, wherever the attempt's timer fires.                             *)
THEOREM EnvelopesKept == Spec => []EnvelopeNotDiscarded
<1>1. IInv => EnvelopeNotDiscarded
  BY DEF IInv, AckedInv, EnvelopeNotDiscarded
<1> QED
  BY <1>1, Invariance, PTL

(* What link_device decrypts was sent to the address it showed last.        *)
THEOREM EnvelopesForLastUrl == Spec => []EnvelopeForLastUrl
<1>1. IInv => EnvelopeForLastUrl
  BY DEF IInv
<1> QED
  BY <1>1, Invariance, PTL

(* A linking that fails leaves a device with the server only if the answer  *)
(* was lost or no use, the process died or the session was not written.     *)
THEOREM FailuresLeaveNoDevice == Spec => []FailureLeavesNoDevice
<1>1. IInv => FailureLeavesNoDevice
  <2> SUFFICES ASSUME IInv, NEW i \in DOMAIN devices
               PROVE  ended[devices[i].call] \in {"open", "done", "lost", "answer", "crash", "save"}
    BY DEF FailureLeavesNoDevice
  <2>1. DOMAIN devices = 1..Len(devices)
    BY LenProperties DEF IInv, ProvisioningTypeOK
  <2>2. devices[i].call \in Calls /\ request[devices[i].call] \in Accepted
    BY <2>1 DEF IInv, DevicesInv
  <2>3. ended[devices[i].call] \in Causes \ LeavesNone
    BY <2>2 DEF IInv, ProvisioningTypeOK, RequestInv, Accepted
  <2> QED
    BY <2>3 DEF LeavesNone
<1> QED
  BY <1>1, Invariance, PTL

(* Every session file is that of a device the server has, with its          *)
(* password, the private half of its prekeys and, unless the answer named   *)
(* none, its number.                                                        *)
THEOREM SavedSessionsAreLinked == Spec => []SavedSessionIsLinked
<1>1. IInv => SavedSessionIsLinked
  <2> SUFFICES ASSUME IInv, saved.device # 0 PROVE SavedSessionIsLinked
    BY DEF SavedSessionIsLinked
  <2>1. PICK i \in 1..Len(devices) : saved = Linked(devices[i].call, IdOf(i))
    BY DEF IInv, SessionInv, IsSession, NoSession
  <2>2. i \in DOMAIN devices /\ devices[i] = LinkBody(devices[i].call)
    BY LenProperties DEF IInv, ProvisioningTypeOK, DevicesInv
  <2> DEFINE c == devices[i].call
  <2>3. /\ saved.device = IdOf(i) /\ saved.password = Key(c, "password")
        /\ saved.aci = AciStore(c)
    BY <2>1 DEF Linked, Fresh
  <2>4. /\ saved.aci.registrationId = Key(c, "aciRegistration")
        /\ saved.aci.signed = {PreKey(c, "aciSigned")} /\ saved.aci.kyber = {PreKey(c, "aciKyber")}
    BY <2>3 DEF AciStore, EmptyAciStore
  <2>5. /\ devices[i].password = Key(c, "password")
        /\ devices[i].attributes.registrationId = Key(c, "aciRegistration")
        /\ devices[i].aciSigned = PreKey(c, "aciSigned")
        /\ devices[i].aciKyber = PreKey(c, "aciKyber")
    BY <2>2 DEF LinkBody, Attributes
  <2> HIDE DEF c
  <2>6. /\ devices[i].password = saved.password
        /\ devices[i].attributes.registrationId = saved.aci.registrationId
        /\ devices[i].aciSigned \in saved.aci.signed /\ devices[i].aciKyber \in saved.aci.kyber
    BY <2>3, <2>4, <2>5
  <2> QED
    BY <2>2, <2>3, <2>6 DEF SavedSessionIsLinked, IdOf
<1> QED
  BY <1>1, Invariance, PTL
=============================================================================
