--------------------------- MODULE HandlersProofs ---------------------------
(* The handler registry, for every set of handlers and all registrations:   *)
(* the sequence work of Matching and Unregister, and what each step of a     *)
(* dispatch keeps, whoever makes it (Delivery).                              *)
EXTENDS Handlers, SequenceTheorems, FiniteSetTheorems, WellFoundedInduction, TLAPS

-----------------------------------------------------------------------------
(* Sequences.                                                               *)

LEMMA SequenceOfLength ==
  ASSUME NEW S, NEW n \in Nat, NEW f \in [1..n -> S]
  PROVE  f \in Seq(S) /\ Len(f) = n
<1>1. f \in Seq(S)
  BY SeqDef
<1> QED
  BY <1>1, LenProperties

\* Flattening two sequences puts one after the other.
LEMMA FlattenTwo ==
  ASSUME NEW S, NEW s \in Seq(S), NEW t \in Seq(S), NEW f, f = [i \in 1..2 |-> IF i = 1 THEN s ELSE t]
  PROVE  FlattenSeq(f) = s \o t
<1>1. Len(f) = 2 /\ f[1] = s /\ f[2] = t
  BY LenProperties, SeqDef
<1> DEFINE body(g) == [i \in 1..2 |-> IF i = 1 THEN f[i] ELSE g[i - 1] \o f[i]]
           both == [i \in 1..2 |-> IF i = 1 THEN s ELSE s \o t]
           flat == CHOOSE h : h = body(h)
<1>2. both = body(both)
  BY <1>1
<1>3. flat = body(flat)
  BY <1>2, Zenon
<1>4. FlattenSeq(f) = flat[2]
  BY <1>1 DEF FlattenSeq
<1> HIDE DEF flat
<1>5. \A i \in 1..2 : flat[i] = IF i = 1 THEN f[i] ELSE flat[i - 1] \o f[i]
  BY <1>3
<1>6. flat[1] = s /\ flat[2] = flat[2 - 1] \o t
  BY <1>1, <1>5
<1>7. 2 - 1 = 1
  OBVIOUS
<1> QED
  BY <1>4, <1>6, <1>7

LEMMA LeastElement ==
  ASSUME NEW I, I \subseteq Nat, I # {} PROVE Min(I) \in I
<1>1. PICK x \in I : \A y \in I : ~(<<y, x>> \in OpToRel(<, Nat))
  BY NatLessThanWellFounded, WFMin
<1>2. ASSUME NEW y \in I PROVE ~(y < x)
  BY <1>1 DEF OpToRel
<1>3. \A y \in I : x <= y
  BY <1>2
<1> QED
  BY <1>3 DEF Min

LEMMA RemoveFirstType ==
  ASSUME NEW S, NEW s \in Seq(S), NEW e, Contains(s, e) PROVE RemoveFirst(s, e) \in Seq(S)
<1> DEFINE I == {i \in 1..Len(s) : s[i] = e}
           m == Min(I)
           before == SubSeq(s, 1, m - 1)
           after == SubSeq(s, m + 1, Len(s))
<1>1. Len(s) \in Nat /\ I # {} /\ I \subseteq 1..Len(s) /\ \A i \in 1..Len(s) : s[i] \in S
  BY LenProperties, ElementOfSeq DEF Contains
<1>2. RemoveFirst(s, e) = before \o after
  BY <1>1 DEF RemoveFirst, SelectInSeq, RemoveAt, Contains
<1>3. m \in 1..Len(s)
  <2>1. I \subseteq Nat /\ I # {}
    BY <1>1
  <2> HIDE DEF I
  <2> QED
    BY <1>1, <2>1, LeastElement
<1> HIDE DEF m
<1>4. before \in Seq(S) /\ after \in Seq(S)
  <2>1. /\ \A i \in 1..(m - 1) : s[i] \in S
        /\ \A i \in (m + 1)..Len(s) : s[i] \in S
    BY <1>1, <1>3
  <2> QED
    BY <1>1, <1>3, <2>1, SubSeqProperties
<1> QED
  BY <1>2, <1>4, ConcatProperties

\* How often e occurs in s.
Times(s, e) == Cardinality({i \in 1..Len(s) : s[i] = e})

LEMMA TimesType ==
  ASSUME NEW S, NEW s \in Seq(S), NEW e
  PROVE  IsFiniteSet({i \in 1..Len(s) : s[i] = e}) /\ Times(s, e) \in Nat
<1>1. IsFiniteSet(1..Len(s))
  BY LenProperties, FS_Interval
<1>2. IsFiniteSet({i \in 1..Len(s) : s[i] = e})
  BY <1>1, FS_Subset
<1> QED
  BY <1>2, FS_CardinalityType DEF Times

LEMMA TimesConcat ==
  ASSUME NEW S, NEW s \in Seq(S), NEW t \in Seq(S), NEW e
  PROVE  Times(s \o t, e) = Times(s, e) + Times(t, e)
<1> DEFINE I == {i \in 1..Len(s) : s[i] = e}
           J == {j \in 1..Len(t) : t[j] = e}
           K == {Len(s) + j : j \in J}
           f == [j \in J |-> Len(s) + j]
<1>1. Len(s) \in Nat /\ Len(t) \in Nat
  BY LenProperties
<1>2. IsFiniteSet(I) /\ IsFiniteSet(J)
  BY TimesType
<1>3. Len(s \o t) = Len(s) + Len(t) /\ \A i \in 1..(Len(s) + Len(t)) :
        (s \o t)[i] = IF i <= Len(s) THEN s[i] ELSE t[i - Len(s)]
  BY ConcatProperties
<1>4. {i \in 1..Len(s \o t) : (s \o t)[i] = e} = I \cup K
  <2>1. ASSUME NEW i \in 1..Len(s \o t), (s \o t)[i] = e PROVE i \in I \cup K
    <3>1. CASE i <= Len(s)
      BY <1>1, <1>3, <2>1, <3>1
    <3>2. CASE ~(i <= Len(s))
      <4>1. i - Len(s) \in J
        BY <1>1, <1>3, <2>1, <3>2
      <4>2. i = Len(s) + (i - Len(s))
        BY <1>1, <1>3
      <4> QED
        BY <4>1, <4>2
    <3> QED
      BY <3>1, <3>2
  <2>2. ASSUME NEW i \in I PROVE i \in 1..Len(s \o t) /\ (s \o t)[i] = e
    BY <1>1, <1>3
  <2>3. ASSUME NEW j \in J PROVE Len(s) + j \in 1..Len(s \o t) /\ (s \o t)[Len(s) + j] = e
    <3>1. /\ j \in 1..Len(t) /\ t[j] = e /\ Len(s) + j \in 1..(Len(s) + Len(t))
          /\ ~(Len(s) + j <= Len(s)) /\ (Len(s) + j) - Len(s) = j
      BY <1>1
    <3> QED
      BY <1>3, <3>1
  <2> QED
    BY <2>1, <2>2, <2>3
<1>5. I \cap K = {}
  BY <1>1
<1>6. IsFiniteSet(K) /\ Cardinality(K) = Cardinality(J)
  <2>1. f \in Bijection(J, K)
    BY <1>1 DEF Bijection, Injection, Surjection, IsInjective
  <2>2. ExistsBijection(J, K)
    BY <2>1 DEF ExistsBijection
  <2> QED
    BY <1>2, <2>2, FS_Bijection
<1> HIDE DEF I, J, K
<1>7. Cardinality(I \cup K) = Cardinality(I) + Cardinality(K) - Cardinality(I \cap K)
  BY <1>2, <1>6, FS_Union
<1>8. Cardinality(I) \in Nat /\ Cardinality(K) \in Nat /\ Cardinality(I \cap K) = 0
  BY <1>2, <1>5, <1>6, FS_CardinalityType, FS_EmptySet
<1>9. Times(s \o t, e) = Cardinality(I) + Cardinality(K)
  <2>1. Times(s \o t, e) = Cardinality(I \cup K)
    BY <1>4, Zenon DEF Times
  <2> QED
    BY <1>7, <1>8, <2>1
<1> QED
  BY <1>6, <1>9 DEF Times, I, J

-----------------------------------------------------------------------------
(* The registry.                                                            *)

\* The registrations that cover an event are those of its class, then those of
\* the base class.
LEMMA MatchingIs ==
  ASSUME byType \in [Classes -> Seq(Handler)], NEW c \in EventClass
  PROVE  /\ Matching(c) = byType[c] \o byType["Event"]
         /\ Matching(c) \in Seq(Handler)
<1>1. c \in Classes /\ "Event" \in Classes
  BY DEF Classes
<1> DEFINE s == byType[c]
           t == byType["Event"]
           f == [i \in 1..Len(Mro(c)) |-> byType[Mro(c)[i]]]
<1>2. s \in Seq(Handler) /\ t \in Seq(Handler)
  BY <1>1
<1>3. f = [i \in 1..2 |-> IF i = 1 THEN s ELSE t]
  BY DEF Mro
<1>4. Matching(c) = FlattenSeq(f)
  BY DEF Matching
<1> HIDE DEF f, s, t
<1>5. FlattenSeq(f) = s \o t
  BY <1>2, <1>3, FlattenTwo
<1> QED
  BY <1>2, <1>4, <1>5, ConcatProperties DEF s, t

\* dispatch calls each handler once for each registration that covers the event.
THEOREM MatchingCoversRegistrations ==
  ASSUME byType \in [Classes -> Seq(Handler)], NEW c \in EventClass, NEW h
  PROVE  Times(Matching(c), h) = DueFor(c, h) /\ DueFor(c, h) \in Nat
<1>1. byType[c] \in Seq(Handler) /\ byType["Event"] \in Seq(Handler)
  BY DEF Classes
<1>2. DueFor(c, h) = Times(byType[c], h) + Times(byType["Event"], h)
  BY DEF DueFor, Times
<1>3. Times(byType[c] \o byType["Event"], h) = Times(byType[c], h) + Times(byType["Event"], h)
  BY <1>1, TimesConcat
<1> QED
  BY <1>1, <1>2, <1>3, MatchingIs, TimesType

-----------------------------------------------------------------------------
(* A dispatch.  From its first step to its last its tasks are those the      *)
(* event was due, and only a cancelled one skips any of them.                *)

CalledInv == current # Idle =>
  \A h \in Handler : Cardinality({i \in 1..Len(tasks) : tasks[i].handler = h}) = due[h]

SkippedInv ==
  /\ ~interrupted => \A i \in 1..Len(tasks) : tasks[i].state # "skipped"
  /\ interrupted => current # Idle

HandlersInv == HandlersTypeOK /\ CalledInv /\ SkippedInv

States == {"ready", "running", "ended", "skipped"}
Tasks  == [handler : Handler, state : States]

LEMMA HandlersInitInv == HandlersInit => HandlersInv
<1> SUFFICES ASSUME HandlersInit PROVE HandlersInv
  OBVIOUS
<1>1. <<>> \in Seq(Tasks) /\ Len(<<>>) = 0
  BY EmptySeq
<1>2. HandlersTypeOK
  <2>1. byType \in [Classes -> Seq(Handler)] /\ patience \in 0..Patience
    BY HandlersConstants DEF HandlersInit
  <2>2. tasks \in Seq(Tasks)
    BY <1>1 DEF HandlersInit
  <2> QED
    BY <2>1, <2>2 DEF HandlersInit, HandlersTypeOK, Idle, Tasks, States
<1> QED
  BY <1>1, <1>2 DEF HandlersInit, HandlersInv, CalledInv, SkippedInv

\* Nobody is called twice or left out when registrations change meanwhile.
LEMMA RegisterInv ==
  ASSUME HandlersInv, NEW c \in Classes, NEW h \in Handler, Register(c, h) \/ Unregister(c, h)
  PROVE  HandlersInv'
<1>1. byType[c] \in Seq(Handler) /\ UNCHANGED <<current, tasks, interrupted, due>>
  BY DEF HandlersInv, HandlersTypeOK, Register, Unregister
<1>2. patience' \in 0..Patience
  BY HandlersConstants DEF HandlersInv, HandlersTypeOK, Register, Unregister
<1>3. byType' \in [Classes -> Seq(Handler)]
  <2>1. CASE Register(c, h)
    <3>1. Append(byType[c], h) \in Seq(Handler)
      BY <1>1, AppendProperties
    <3> QED
      BY <2>1, <3>1 DEF Register, HandlersInv, HandlersTypeOK
  <2>2. CASE Unregister(c, h)
    <3> DEFINE kept == IF Contains(byType[c], h) THEN RemoveFirst(byType[c], h) ELSE byType[c]
    <3>1. kept \in Seq(Handler)
      BY <1>1, RemoveFirstType
    <3>2. byType' = [byType EXCEPT ![c] = kept]
      BY <2>2 DEF Unregister
    <3> HIDE DEF kept
    <3> QED
      BY <3>1, <3>2 DEF HandlersInv, HandlersTypeOK
  <2> QED
    BY <2>1, <2>2
<1> QED
  BY <1>1, <1>2, <1>3 DEF HandlersInv, HandlersTypeOK, CalledInv, SkippedInv

\* A task that moves on stays the task it was.
LEMMA TaskInv ==
  ASSUME HandlersInv, NEW i \in 1..Len(tasks), NEW s \in States, s = "skipped" => interrupted,
         tasks' = [tasks EXCEPT ![i].state = s],
         UNCHANGED <<byType, current, interrupted, due, patience>>
  PROVE  HandlersInv'
<1>1. tasks \in Seq(Tasks) /\ Len(tasks) \in Nat
  BY LenProperties DEF HandlersInv, HandlersTypeOK, Tasks, States
<1>2. \A j \in 1..Len(tasks) : tasks[j] \in Tasks
  BY <1>1, ElementOfSeq
<1>3. tasks' \in Seq(Tasks) /\ Len(tasks') = Len(tasks)
  <2>1. tasks \in [1..Len(tasks) -> Tasks]
    BY <1>1, LenProperties
  <2>2. [tasks[i] EXCEPT !.state = s] \in Tasks
    BY <1>2 DEF Tasks
  <2>3. tasks' \in [1..Len(tasks) -> Tasks]
    BY <2>1, <2>2
  <2> QED
    BY <1>1, <2>3, SequenceOfLength
<1>4. \A j \in 1..Len(tasks) : /\ tasks'[j].handler = tasks[j].handler
                               /\ tasks'[j].state = IF j = i THEN s ELSE tasks[j].state
  <2>1. tasks \in [1..Len(tasks) -> Tasks]
    BY <1>1, LenProperties
  <2> QED
    BY <1>2, <2>1 DEF Tasks
<1>5. HandlersTypeOK'
  BY <1>3 DEF HandlersInv, HandlersTypeOK, Tasks, States
<1>6. CalledInv'
  <2>1. ASSUME NEW h \in Handler
        PROVE  {j \in 1..Len(tasks') : tasks'[j].handler = h}
                 = {j \in 1..Len(tasks) : tasks[j].handler = h}
    BY <1>3, <1>4
  <2> QED
    BY <2>1 DEF HandlersInv, CalledInv
<1>7. SkippedInv'
  BY <1>3, <1>4 DEF HandlersInv, SkippedInv
<1> QED
  BY <1>5, <1>6, <1>7 DEF HandlersInv

LEMMA TaskStepInv == ASSUME HandlersInv, TaskStarts \/ TaskEnds PROVE HandlersInv'
<1>1. CASE TaskStarts
  <2>1. PICK i \in 1..Len(tasks) : \E s \in IF interrupted THEN {"skipped"} ELSE {"running", "ended"} :
          /\ tasks' = [tasks EXCEPT ![i].state = s]
          /\ UNCHANGED <<byType, current, interrupted, due, patience>>
    BY <1>1 DEF TaskStarts
  <2>2. PICK s \in IF interrupted THEN {"skipped"} ELSE {"running", "ended"} :
          /\ tasks' = [tasks EXCEPT ![i].state = s]
          /\ UNCHANGED <<byType, current, interrupted, due, patience>>
    BY <2>1
  <2>3. s \in States /\ (s = "skipped" => interrupted)
    BY <2>2 DEF States
  <2> QED
    BY <2>2, <2>3, TaskInv
<1>2. CASE TaskEnds
  <2>1. PICK i \in 1..Len(tasks) :
          /\ tasks' = [tasks EXCEPT ![i].state = "ended"]
          /\ UNCHANGED <<byType, current, interrupted, due, patience>>
    BY <1>2 DEF TaskEnds
  <2>2. "ended" \in States /\ ("ended" = "skipped" => interrupted)
    BY DEF States
  <2> QED
    BY <2>1, <2>2, TaskInv
<1> QED
  BY <1>1, <1>2

\* The copy of the list made when the event comes is what the event is due.
LEMMA StartDispatchInv ==
  ASSUME HandlersInv, ~interrupted, NEW c \in EventClass, NEW left \in Nat, StartDispatch(c, left)
  PROVE  HandlersInv'
<1> DEFINE list == Matching(c)
<1>1. byType \in [Classes -> Seq(Handler)]
  BY DEF HandlersInv, HandlersTypeOK
<1>2. list \in Seq(Handler) /\ \A h : Times(list, h) = DueFor(c, h) /\ DueFor(c, h) \in Nat
  BY <1>1, MatchingIs, MatchingCoversRegistrations
<1>3. /\ current' = [class |-> c, left |-> left] /\ UNCHANGED <<byType, interrupted, patience>>
      /\ tasks' = [i \in 1..Len(list) |-> [handler |-> list[i], state |-> "ready"]]
      /\ due' = [h \in Handler |-> DueFor(c, h)]
  BY DEF StartDispatch
<1> HIDE DEF list
<1>4. Len(list) \in Nat /\ \A i \in 1..Len(list) : list[i] \in Handler
  BY <1>2, LenProperties, ElementOfSeq
<1>5. tasks' \in Seq(Tasks) /\ Len(tasks') = Len(list)
  <2>1. tasks' \in [1..Len(list) -> Tasks]
    BY <1>3, <1>4 DEF Tasks, States
  <2> QED
    BY <1>4, <2>1, SequenceOfLength
<1>6. \A i \in 1..Len(list) : tasks'[i].handler = list[i] /\ tasks'[i].state = "ready"
  BY <1>3
<1>7. HandlersTypeOK'
  <2>1. due' \in [Handler -> Nat]
    BY <1>2, <1>3
  <2> QED
    BY <1>3, <1>5, <2>1 DEF HandlersInv, HandlersTypeOK, Tasks, States
<1>8. CalledInv'
  <2>1. ASSUME NEW h \in Handler
        PROVE  {i \in 1..Len(tasks') : tasks'[i].handler = h} = {i \in 1..Len(list) : list[i] = h}
    BY <1>5, <1>6
  <2> QED
    BY <1>2, <1>3, <2>1 DEF CalledInv, Times
<1>9. SkippedInv'
  BY <1>3, <1>5, <1>6 DEF SkippedInv
<1> QED
  BY <1>7, <1>8, <1>9 DEF HandlersInv

LEMMA EndDispatchInv == ASSUME HandlersInv, EndDispatch \/ ForgetHandlers PROVE HandlersInv'
<1>1. /\ current' = Idle /\ tasks' = <<>> /\ interrupted' = FALSE
      /\ due' = [h \in Handler |-> 0] /\ patience' \in {patience, Patience}
      /\ byType' \in {byType, Registered}
  BY DEF EndDispatch, ForgetHandlers
<1>2. <<>> \in Seq(Tasks) /\ Len(<<>>) = 0
  BY EmptySeq
<1>3. patience' \in 0..Patience
  BY <1>1, HandlersConstants DEF HandlersInv, HandlersTypeOK
<1>4. HandlersTypeOK'
  BY <1>1, <1>2, <1>3, HandlersConstants DEF HandlersInv, HandlersTypeOK, Idle, Tasks, States
<1> QED
  BY <1>1, <1>2, <1>4 DEF HandlersInv, CalledInv, SkippedInv

LEMMA InterruptInv == ASSUME HandlersInv, Interrupt PROVE HandlersInv'
<1>1. UNCHANGED <<byType, current, tasks, due, patience>> /\ interrupted' = (current # Idle)
  BY DEF Interrupt
<1>2. HandlersTypeOK' /\ CalledInv'
  BY <1>1 DEF HandlersInv, HandlersTypeOK, CalledInv
<1>3. SkippedInv'
  BY <1>1 DEF HandlersInv, SkippedInv
<1> QED
  BY <1>2, <1>3 DEF HandlersInv

\* When gather is done and nobody cancelled it, every handler that was due has
\* been called to its end, as often as it was due.
LEMMA GatheredIsComplete ==
  ASSUME HandlersInv, current # Idle, Gathered, ~interrupted, NEW h \in Handler
  PROVE  Cardinality({i \in 1..Len(tasks) : tasks[i].handler = h /\ tasks[i].state = "ended"}) = due[h]
<1>1. \A i \in 1..Len(tasks) : tasks[i].state = "ended"
  BY DEF HandlersInv, SkippedInv, Gathered, TaskEnded
<1>2. {i \in 1..Len(tasks) : tasks[i].handler = h /\ tasks[i].state = "ended"}
        = {i \in 1..Len(tasks) : tasks[i].handler = h}
  BY <1>1
<1> QED
  BY <1>2 DEF HandlersInv, CalledInv
=============================================================================
