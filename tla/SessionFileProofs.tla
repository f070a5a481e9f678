-------------------------- MODULE SessionFileProofs --------------------------
(* SessionFile for every set of processes, snapshots of any length and any  *)
(* number of kills: its types; that only saves that overlap can spoil the   *)
(* file; when one process runs at a time, that a save is one atomic step.   *)
EXTENDS SessionFile, SequenceTheorems, FiniteSetTheorems, TLAPS

USE SessionFileAssumption

LEMMA SequenceOfLength ==
  ASSUME NEW S, NEW n \in Nat, NEW f \in [1..n -> S]
  PROVE  f \in Seq(S) /\ Len(f) = n
<1>1. f \in Seq(S)
  BY SeqDef
<1> QED
  BY <1>1, LenProperties

LEMMA HoleIsNoSnapshot == Hole \notin Snapshots
BY DEF Hole, Snapshots

LEMMA SnapshotParts ==
  ASSUME NEW s \in Snapshots
  PROVE  s.size \in 1..MaxChunks /\ s.next \in 0..(MaxKey + 1) /\ s \in Chunk /\ s # Hole
BY HoleIsNoSnapshot DEF Snapshots, Chunk

LEMMA ChunkParts == ASSUME NEW c \in Chunk PROVE c.next \in 0..(MaxKey + 1)
BY DEF Snapshots, Chunk, Hole

\* The text of a snapshot, from which from_json gives it back.
LEMMA WholeType ==
  ASSUME NEW s \in Snapshots
  PROVE  /\ Whole(s) \in Seq(Chunk) /\ Len(Whole(s)) = s.size
         /\ \A i \in 1..s.size : Whole(s)[i] = s
         /\ Complete(Whole(s)) /\ Whole(s)[1] = s
<1>1. s.size \in 1..MaxChunks /\ s \in Chunk /\ s # Hole
  BY SnapshotParts
<1>2. Whole(s) \in [1..s.size -> Chunk]
  BY <1>1 DEF Whole
<1>3. s.size \in Nat /\ 1 \in 1..s.size
  BY <1>1
<1>4. Whole(s) \in Seq(Chunk) /\ Len(Whole(s)) = s.size
  BY <1>2, <1>3, SequenceOfLength, Zenon
<1>5. \A i \in 1..s.size : Whole(s)[i] = s
  BY DEF Whole
<1>6. Whole(s)[1] = s
  BY <1>3, <1>5
<1>7. Whole(s) # <<>>
  BY <1>1, <1>4, EmptySeq
<1> QED
  BY <1>1, <1>4, <1>5, <1>6, <1>7 DEF Complete

\* A write puts its piece where the descriptor stands and keeps the rest.
LEMMA WriteAtType ==
  ASSUME NEW content \in Seq(Chunk), Len(content) <= MaxChunks, NEW n \in 1..MaxChunks, NEW chunk \in Chunk
  PROVE  /\ WriteAt(content, n, chunk) \in Seq(Chunk)
         /\ Len(WriteAt(content, n, chunk)) = IF Len(content) < n THEN n ELSE Len(content)
         /\ WriteAt(content, n, chunk)[n] = chunk
         /\ \A i \in 1..Len(content) : i # n => WriteAt(content, n, chunk)[i] = content[i]
<1> DEFINE m == IF Len(content) < n THEN n ELSE Len(content)
           w == WriteAt(content, n, chunk)
<1>1. Len(content) \in Nat /\ \A i \in 1..Len(content) : content[i] \in Chunk
  BY LenProperties, ElementOfSeq
<1>2. m \in Nat /\ n <= m /\ Len(content) <= m
  BY <1>1
<1>3. Hole \in Chunk
  BY DEF Chunk
<1>4. w = [i \in 1..m |-> IF i = n THEN chunk ELSE IF i <= Len(content) THEN content[i] ELSE Hole]
  BY DEF WriteAt
<1> HIDE DEF m, w
<1>5. w \in [1..m -> Chunk]
  BY <1>1, <1>3, <1>4
<1>6. w \in Seq(Chunk) /\ Len(w) = m
  BY <1>2, <1>5, SequenceOfLength
<1>7. w[n] = chunk /\ \A i \in 1..Len(content) : i # n => w[i] = content[i]
  BY <1>1, <1>2, <1>4
<1> QED
  BY <1>6, <1>7 DEF m, w

\* So a file that holds pieces of one snapshot, written at its end, holds one
\* piece more.
LEMMA WriteAtEnd ==
  ASSUME NEW content \in Seq(Chunk), NEW n \in 1..MaxChunks, NEW chunk \in Chunk,
         n = Len(content) + 1, \A k \in 1..Len(content) : content[k] = chunk
  PROVE  Len(WriteAt(content, n, chunk)) = n /\ \A k \in 1..n : WriteAt(content, n, chunk)[k] = chunk
<1> DEFINE w == WriteAt(content, n, chunk)
<1>1. Len(content) \in Nat /\ Len(content) <= MaxChunks
  BY LenProperties
<1>2. /\ Len(w) = IF Len(content) < n THEN n ELSE Len(content)
      /\ w[n] = chunk /\ \A k \in 1..Len(content) : k # n => w[k] = content[k]
  BY <1>1, WriteAtType, Zenon
<1> HIDE DEF w
<1> QED
  BY <1>1, <1>2 DEF w

-----------------------------------------------------------------------------
LEMMA FirstSnapshot ==
  ASSUME Init
  PROVE  \E s \in Snapshots : s.next = 1 /\ last = Whole(s) /\ data[path] = last
<1>1. PICK n \in 1..MaxChunks : last = Whole([by |-> "link", next |-> 1, size |-> n])
  BY DEF Init
<1>2. [by |-> "link", next |-> 1, size |-> n] \in Snapshots
  BY DEF Snapshots
<1>3. data[path] = last
  BY FS_CardinalityType DEF Init, Inodes
<1> QED
  BY <1>1, <1>2, <1>3

LEMMA TypeInit == Init => SessionTypeOK
<1> SUFFICES ASSUME Init PROVE SessionTypeOK
  OBVIOUS
<1>1. Cardinality(Procs) \in Nat
  BY FS_CardinalityType
<1>2. last \in Seq(Chunk) /\ Len(last) <= MaxChunks
  <2>1. PICK s \in Snapshots : last = Whole(s)
    BY FirstSnapshot
  <2>2. Whole(s) \in Seq(Chunk) /\ Len(Whole(s)) = s.size
    BY WholeType
  <2>3. s.size \in 1..MaxChunks
    BY SnapshotParts
  <2> QED
    BY <2>1, <2>2, <2>3
<1>3. <<>> \in Seq(Chunk) /\ Len(<<>>) = 0
  BY EmptySeq
<1>4. data \in [Inodes -> Seq(Chunk)] /\ \A i \in Inodes : Len(data[i]) <= MaxChunks
  BY <1>2, <1>3 DEF Init
<1>5. 0 \in Inodes
  BY <1>1 DEF Inodes
<1>6. text \in [Procs -> Chunk] /\ \A p \in Procs : ~Saving(p)
  BY DEF Init, Chunk, Saving
<1> QED
  BY <1>1, <1>2, <1>4, <1>5, <1>6 DEF Init, SessionTypeOK, Keys

LEMMA TypeNext == ASSUME SessionTypeOK, [Next]_vars PROVE SessionTypeOK'
<1> USE DEF SessionTypeOK, Saving
<1>0. Cardinality(Procs) \in Nat
  BY FS_CardinalityType
<1>1. ASSUME NEW p \in Procs, Load(p) PROVE SessionTypeOK'
  <2>1. data[path][1] \in Chunk
    <3>1. data[path] \in Seq(Chunk) /\ data[path] # <<>>
      BY <1>1 DEF Load, Complete
    <3>2. Len(data[path]) \in Nat /\ Len(data[path]) # 0
      BY <3>1, LenProperties, EmptySeq
    <3> QED
      BY <3>1, <3>2, ElementOfSeq
  <2>2. data[path][1].next \in 0..(MaxKey + 1)
    BY <2>1, ChunkParts
  <2>3. mem' \in [Procs -> 0..(MaxKey + 1)]
    BY <1>1, <2>2 DEF Load
  <2> QED
    BY <1>1, <2>3 DEF Load, files
<1>2. ASSUME NEW p \in Procs, LoadFails(p) PROVE SessionTypeOK'
  BY <1>2 DEF LoadFails, files
<1>3. ASSUME NEW p \in Procs, Encrypt(p) PROVE SessionTypeOK'
  <2>1. mem' \in [Procs -> 0..(MaxKey + 1)]
    BY <1>3 DEF Encrypt
  <2>2. used' \in [Keys -> 0..MaxUse]
    <3>1. CASE mem[p] \in Keys
      <4>1. used[mem[p]] + 1 \in 0..MaxUse
        BY <1>3, <3>1 DEF Encrypt
      <4> QED
        BY <1>3, <4>1 DEF Encrypt
    <3>2. CASE mem[p] \notin Keys
      BY <1>3, <3>2 DEF Encrypt
    <3> QED
      BY <3>1, <3>2
  <2> QED
    BY <1>3, <2>1, <2>2 DEF Encrypt, files
<1>4. ASSUME NEW p \in Procs, SaveOpen(p) PROVE SessionTypeOK'
  <2>1. <<>> \in Seq(Chunk) /\ Len(<<>>) = 0
    BY EmptySeq
  <2>2. PICK i \in Inodes : Opens(p, i) /\ data' = [data EXCEPT ![i] = <<>>]
    BY <1>4 DEF SaveOpen
  <2>3. data' \in [Inodes -> Seq(Chunk)] /\ \A j \in Inodes : Len(data'[j]) <= MaxChunks
    BY <2>1, <2>2
  <2>4. PICK n \in 1..MaxChunks : text' = [text EXCEPT ![p] = [by |-> p, next |-> mem[p], size |-> n]]
    BY <1>4 DEF SaveOpen
  <2>5. [by |-> p, next |-> mem[p], size |-> n] \in Snapshots
    BY DEF Snapshots
  <2> DEFINE s == [by |-> p, next |-> mem[p], size |-> n]
  <2>6. s \in Chunk /\ s # Hole
    BY <2>5, SnapshotParts
  <2> HIDE DEF s
  <2>7. pc' = [pc EXCEPT ![p] = "writing"] /\ text' = [text EXCEPT ![p] = s]
    BY <2>2, <2>4 DEF Opens, s
  <2>8. text' \in [Procs -> Chunk] /\ \A q \in Procs : Saving(q)' => text'[q] # Hole
    BY <2>6, <2>7
  <2>9. met' \subseteq Procs
    BY <2>2 DEF Opens, Others
  <2>10. fd' \in [Procs -> Inodes \cup {None}] /\ written' \in [Procs -> 0..MaxChunks] /\ tmp' \in Inodes
    BY <2>2 DEF Opens
  <2>11. /\ pc' \in [Procs -> {"off", "running", "writing", "replacing", "saved", "failed"}]
         /\ UNCHANGED <<mem, path, used, last, lone, crashes>>
    BY <2>2 DEF Opens
  <2> QED
    BY <2>3, <2>8, <2>9, <2>10, <2>11
<1>5. ASSUME NEW p \in Procs, SaveWrite(p) PROVE SessionTypeOK'
  <2>0. text[p] \in Chunk /\ written[p] + 1 \in 1..MaxChunks
    <3>1. text[p] \in Snapshots
      BY <1>5 DEF SaveWrite, Chunk
    <3>2. text[p].size \in 1..MaxChunks
      BY <3>1, SnapshotParts
    <3> QED
      BY <1>5, <3>2 DEF SaveWrite
  <2>1. data' \in [Inodes -> Seq(Chunk)] /\ \A i \in Inodes : Len(data'[i]) <= MaxChunks
    <3> DEFINE w == WriteAt(data[fd[p]], written[p] + 1, text[p])
    <3>1. data' = [data EXCEPT ![fd[p]] = w]
      BY <1>5 DEF SaveWrite
    <3>2. CASE fd[p] \in Inodes
      <4>2. data[fd[p]] \in Seq(Chunk) /\ Len(data[fd[p]]) <= MaxChunks /\ Len(data[fd[p]]) \in Nat
        BY <3>2, LenProperties
      <4> DEFINE content == data[fd[p]]
                 n == written[p] + 1
                 chunk == text[p]
      <4>3. /\ content \in Seq(Chunk) /\ Len(content) <= MaxChunks
            /\ n \in 1..MaxChunks /\ chunk \in Chunk
        BY <2>0, <4>2
      <4>4. w = WriteAt(content, n, chunk)
        OBVIOUS
      <4> HIDE DEF w, content, n, chunk
      <4>5. w \in Seq(Chunk) /\ Len(w) = IF Len(content) < n THEN n ELSE Len(content)
        BY <4>3, <4>4, WriteAtType, Zenon
      <4>6. Len(w) <= MaxChunks
        BY <4>3, <4>5
      <4> QED
        BY <3>1, <4>5, <4>6
    <3>3. CASE fd[p] \notin Inodes
      <4> HIDE DEF w
      <4> QED
        BY <3>1, <3>3
    <3> QED
      BY <3>2, <3>3
  <2>2. written' \in [Procs -> 0..MaxChunks]
    BY <1>5, <2>0 DEF SaveWrite
  <2> QED
    BY <1>5, <2>1, <2>2 DEF SaveWrite
<1>6. ASSUME NEW p \in Procs, SaveClose(p) PROVE SessionTypeOK'
  BY <1>6 DEF SaveClose
<1>7. ASSUME NEW p \in Procs, SaveReplace(p) PROVE SessionTypeOK'
  <2>1. text[p] \in Snapshots
    BY <1>7 DEF SaveReplace, Chunk
  <2>2. Whole(text[p]) \in Seq(Chunk)
    BY <2>1, WholeType
  <2>3. text' \in [Procs -> Chunk] /\ \A q \in Procs : Saving(q)' => text'[q] # Hole
    BY <1>7 DEF SaveReplace, Chunk
  <2> QED
    BY <1>7, <2>2, <2>3 DEF SaveReplace
<1>8. ASSUME NEW p \in Procs, SaveLosesTmp(p) PROVE SessionTypeOK'
  <2>1. text' \in [Procs -> Chunk] /\ \A q \in Procs : Saving(q)' => text'[q] # Hole
    BY <1>8 DEF SaveLosesTmp, Chunk
  <2> QED
    BY <1>8, <2>1 DEF SaveLosesTmp, files
<1>9. ASSUME NEW p \in Procs, Continue(p) \/ Exit(p) PROVE SessionTypeOK'
  BY <1>9 DEF Continue, Exit, files
<1>10. ASSUME NEW p \in Procs, Crash(p) PROVE SessionTypeOK'
  <2>1. text' \in [Procs -> Chunk] /\ \A q \in Procs : Saving(q)' => text'[q] # Hole
    BY <1>10 DEF Crash, Chunk
  <2> QED
    BY <1>10, <2>1 DEF Crash
<1>11. CASE UNCHANGED vars
  BY <1>11 DEF vars, files
<1> QED
  BY <1>1, <1>2, <1>3, <1>4, <1>5, <1>6, <1>7, <1>8, <1>9, <1>10, <1>11 DEF Next, Save

\* SessionFile's state always has its types, however many processes share the
\* file and however many of them are killed.
THEOREM SessionTypes == Spec => []SessionTypeOK
BY TypeInit, TypeNext, PTL DEF Spec

-----------------------------------------------------------------------------
(* Several processes at a time.  A save that overlaps no other has the .tmp *)
(* file to itself: what is in it is exactly what it has written so far.     *)
(* And nobody has the file open that such a save has put in place.          *)

FdInv   == \A p \in Procs : fd[p] # None => pc[p] = "writing"
PathInv == path # tmp

FileInv == lone =>
  /\ data[path] = last /\ \A p \in Procs : fd[p] # path
  /\ \E s \in Snapshots : last = Whole(s)

OwnTmpInv == \A p \in Procs : Saving(p) /\ p \notin met =>
  /\ Others(p) = {} /\ tmp \in Inodes
  /\ pc[p] = "writing" =>
       /\ fd[p] = tmp /\ Len(data[tmp]) = written[p] /\ written[p] <= text[p].size
       /\ \A i \in 1..written[p] : data[tmp][i] = text[p]
  /\ pc[p] = "replacing" => data[tmp] = Whole(text[p])

SharedInv == SessionTypeOK /\ FdInv /\ PathInv /\ FileInv /\ OwnTmpInv

LEMMA NoneIsNoInode == None \notin Inodes
BY FS_CardinalityType DEF None, Inodes

LEMMA SharedInit == Init => SharedInv
<1> SUFFICES ASSUME Init PROVE SharedInv
  OBVIOUS
<1>1. SessionTypeOK
  BY TypeInit
<1>2. 0 \in Inodes /\ None # 0
  BY FS_CardinalityType DEF Inodes, None
<1>3. FileInv
  <2>1. data[path] = last /\ \E s \in Snapshots : last = Whole(s)
    BY FirstSnapshot
  <2>2. \A p \in Procs : fd[p] # path
    BY <1>2 DEF Init
  <2> QED
    BY <2>1, <2>2 DEF FileInv
<1>4. FdInv /\ PathInv /\ OwnTmpInv
  BY <1>2 DEF Init, FdInv, PathInv, OwnTmpInv, Saving
<1> QED
  BY <1>1, <1>3, <1>4 DEF SharedInv

\* Steps that leave the files, and what is being saved, as they are.
LEMMA SharedQuiet ==
  ASSUME SharedInv, SessionTypeOK', NEW p \in Procs,
         Load(p) \/ LoadFails(p) \/ Encrypt(p) \/ Continue(p) \/ Exit(p)
  PROVE  SharedInv'
<1> USE DEF SharedInv, SessionTypeOK
<1>1. UNCHANGED <<text, fd, written, data, path, tmp, last, met, lone>>
  BY DEF Load, LoadFails, Encrypt, Continue, Exit, files
<1>2. ~Saving(p) /\ ~Saving(p)' /\ \A q \in Procs : q # p => pc'[q] = pc[q]
  BY DEF Load, LoadFails, Encrypt, Continue, Exit, Saving
<1>3. \A q \in Procs : (Saving(q)' <=> Saving(q)) /\ (Saving(q) => pc'[q] = pc[q])
  BY <1>2 DEF Saving
<1>4. \A q \in Procs : Others(q)' = Others(q)
  BY <1>3 DEF Others
<1>5. FdInv'
  BY <1>1, <1>3 DEF FdInv, Saving
<1>6. PathInv' /\ FileInv'
  BY <1>1 DEF PathInv, FileInv
<1>7. OwnTmpInv'
  BY <1>1, <1>3, <1>4 DEF OwnTmpInv
<1> QED
  BY <1>5, <1>6, <1>7

\* A save begins: it is in the way of every save under way, and they of it.
LEMMA SharedSaveOpen ==
  ASSUME SharedInv, SessionTypeOK', NEW p \in Procs, SaveOpen(p)
  PROVE  SharedInv'
<1> USE DEF SharedInv, SessionTypeOK
<1>1. PICK i \in Inodes : Opened(i) /\ Opens(p, i) /\ data' = [data EXCEPT ![i] = <<>>]
  BY DEF SaveOpen
<1>2. i # path
  BY <1>1 DEF Opened, InUse, PathInv
<1>3. /\ tmp' = i /\ fd' = [fd EXCEPT ![p] = i] /\ written' = [written EXCEPT ![p] = 0]
      /\ pc' = [pc EXCEPT ![p] = "writing"]
      /\ UNCHANGED <<mem, path, last, lone>>
      /\ met' = IF Others(p) = {} THEN met \ {p} ELSE met \cup {p} \cup Others(p)
  BY <1>1 DEF Opens
<1>4. PICK n \in 1..MaxChunks : text' = [text EXCEPT ![p] = [by |-> p, next |-> mem[p], size |-> n]]
  BY DEF SaveOpen
<1>5. FdInv' /\ PathInv'
  BY <1>2, <1>3 DEF FdInv, PathInv
<1>6. FileInv'
  BY <1>1, <1>2, <1>3 DEF FileInv
<1>7. OwnTmpInv'
  <2> SUFFICES ASSUME NEW q \in Procs, Saving(q)', q \notin met'
               PROVE  /\ Others(q)' = {} /\ tmp' \in Inodes /\ pc'[q] = "writing"
                      /\ fd'[q] = tmp' /\ Len(data'[tmp']) = written'[q] /\ written'[q] <= text'[q].size
                      /\ \A k \in 1..written'[q] : data'[tmp'][k] = text'[q]
    BY DEF OwnTmpInv
  <2>1. q = p /\ Others(p) = {}
    BY <1>3 DEF Others, Saving
  <2>2. Others(q)' = {}
    BY <1>3, <2>1 DEF Others, Saving
  <2>3. data'[tmp'] = <<>> /\ written'[q] = 0 /\ fd'[q] = tmp' /\ pc'[q] = "writing"
    BY <1>1, <1>3, <2>1
  <2>4. text'[q].size = n
    BY <1>4, <2>1
  <2>5. Len(data'[tmp']) = 0
    BY <2>3, EmptySeq
  <2> QED
    BY <1>3, <2>2, <2>3, <2>4, <2>5
<1> QED
  BY <1>5, <1>6, <1>7

LEMMA SharedSaveWrite ==
  ASSUME SharedInv, SessionTypeOK', NEW p \in Procs, SaveWrite(p)
  PROVE  SharedInv'
<1> USE DEF SharedInv, SessionTypeOK
<1> DEFINE n == written[p] + 1
<1>1. /\ pc[p] = "writing" /\ written[p] < text[p].size /\ written' = [written EXCEPT ![p] = n]
      /\ data' = [data EXCEPT ![fd[p]] = WriteAt(data[fd[p]], n, text[p])]
      /\ UNCHANGED <<pc, mem, text, fd, path, tmp, last, met, lone>>
  BY DEF SaveWrite
<1>2. FdInv' /\ PathInv'
  BY <1>1 DEF FdInv, PathInv
<1>3. FileInv'
  BY <1>1 DEF FileInv
<1>4. \A q \in Procs : (Saving(q)' <=> Saving(q)) /\ Others(q)' = Others(q)
  BY <1>1 DEF Saving, Others
<1>5. OwnTmpInv'
  <2> SUFFICES ASSUME NEW q \in Procs, Saving(q), q \notin met
               PROVE  /\ Others(q) = {} /\ tmp \in Inodes /\ pc[q] = "writing"
                      /\ fd[q] = tmp /\ Len(data'[tmp]) = written'[q] /\ written'[q] <= text[q].size
                      /\ \A k \in 1..written'[q] : data'[tmp][k] = text[q]
    BY <1>1, <1>4 DEF OwnTmpInv
  <2>1. q = p
    BY <1>1 DEF OwnTmpInv, Others, Saving
  <2>2. /\ Others(p) = {} /\ tmp \in Inodes /\ fd[p] = tmp /\ Len(data[tmp]) = written[p]
        /\ \A k \in 1..written[p] : data[tmp][k] = text[p]
    BY <1>1, <2>1 DEF OwnTmpInv
  <2>3. text[p] \in Snapshots
    BY <1>1 DEF Chunk, Saving
  <2>4. text[p].size \in 1..MaxChunks /\ text[p] \in Chunk
    BY <2>3, SnapshotParts
  <2>5. n \in 1..MaxChunks /\ n <= text[p].size /\ written[p] \in Nat /\ written'[p] = n
    BY <1>1, <2>4
  <2>6. data[tmp] \in Seq(Chunk)
    BY <2>2
  <2> DEFINE w == WriteAt(data[tmp], n, text[p])
  <2>7. data'[tmp] = w
    BY <1>1, <2>2
  <2>8. Len(w) = n /\ \A k \in 1..n : w[k] = text[p]
    <3>1. n = Len(data[tmp]) + 1 /\ \A k \in 1..Len(data[tmp]) : data[tmp][k] = text[p]
      BY <2>2, <2>5
    <3> HIDE DEF SharedInv, SessionTypeOK, n
    <3> QED
      BY <2>4, <2>5, <2>6, <3>1, WriteAtEnd
  <2> HIDE DEF w
  <2> QED
    BY <1>1, <2>1, <2>2, <2>5, <2>7, <2>8
<1> QED
  BY <1>2, <1>3, <1>5

LEMMA SharedSaveClose ==
  ASSUME SharedInv, SessionTypeOK', NEW p \in Procs, SaveClose(p)
  PROVE  SharedInv'
<1> USE DEF SharedInv, SessionTypeOK
<1>1. /\ pc[p] = "writing" /\ written[p] = text[p].size /\ pc' = [pc EXCEPT ![p] = "replacing"]
      /\ fd' = [fd EXCEPT ![p] = None]
      /\ UNCHANGED <<mem, text, data, path, tmp, last, met, lone>>
  BY DEF SaveClose
<1>2. FdInv' /\ PathInv'
  BY <1>1 DEF FdInv, PathInv
<1>3. FileInv'
  BY <1>1, NoneIsNoInode DEF FileInv
<1>4. \A q \in Procs : (Saving(q)' <=> Saving(q))
  BY <1>1 DEF Saving
<1>5. \A q \in Procs : Others(q)' = Others(q)
  BY <1>4 DEF Others
<1>6. OwnTmpInv'
  <2> SUFFICES ASSUME NEW q \in Procs, Saving(q), q \notin met
               PROVE  /\ Others(q) = {} /\ tmp \in Inodes /\ pc'[q] = "replacing"
                      /\ data[tmp] = Whole(text[q])
    BY <1>1, <1>4, <1>5 DEF OwnTmpInv
  <2>1. q = p
    BY <1>1 DEF OwnTmpInv, Others, Saving
  <2>2. /\ Others(p) = {} /\ tmp \in Inodes /\ Len(data[tmp]) = text[p].size
        /\ \A k \in 1..text[p].size : data[tmp][k] = text[p]
    BY <1>1, <2>1 DEF OwnTmpInv
  <2>3. text[p] \in Snapshots
    BY <1>1 DEF Chunk, Saving
  <2>4. /\ Whole(text[p]) \in Seq(Chunk) /\ Len(Whole(text[p])) = text[p].size
        /\ \A k \in 1..text[p].size : Whole(text[p])[k] = text[p]
    BY <2>3, WholeType
  <2>5. data[tmp] \in Seq(Chunk)
    BY <2>2
  <2>6. data[tmp] = Whole(text[p])
    <3> HIDE DEF SharedInv, SessionTypeOK
    <3> DEFINE a == data[tmp]
               b == Whole(text[p])
    <3>1. a \in Seq(Chunk) /\ b \in Seq(Chunk) /\ Len(a) = Len(b) /\ \A k \in 1..Len(a) : a[k] = b[k]
      BY <2>2, <2>4, <2>5
    <3> HIDE DEF a, b
    <3>2. a = b
      BY <3>1, SeqEqual
    <3> QED
      BY <3>2 DEF a, b
  <2> QED
    BY <1>1, <2>1, <2>2, <2>6
<1> QED
  BY <1>2, <1>3, <1>6

\* The rename: a save that met no other is then the only one that had the file
\* open.
LEMMA SharedSaveReplace ==
  ASSUME SharedInv, SessionTypeOK', NEW p \in Procs, SaveReplace(p)
  PROVE  SharedInv'
<1> USE DEF SharedInv, SessionTypeOK
<1>1. /\ pc[p] = "replacing" /\ tmp # None /\ path' = tmp /\ tmp' = None
      /\ last' = Whole(text[p]) /\ lone' = (p \notin met) /\ met' = met \ {p}
      /\ pc' = [pc EXCEPT ![p] = "saved"]
      /\ UNCHANGED <<mem, fd, written, data>>
  BY DEF SaveReplace
<1>2. FdInv' /\ PathInv'
  BY <1>1 DEF FdInv, PathInv
<1>3. FileInv'
  <2> SUFFICES ASSUME p \notin met
               PROVE  /\ data[tmp] = Whole(text[p]) /\ \A q \in Procs : fd[q] # tmp
                      /\ text[p] \in Snapshots
    BY <1>1 DEF FileInv
  <2>1. Others(p) = {} /\ data[tmp] = Whole(text[p])
    BY <1>1 DEF OwnTmpInv, Saving
  <2>2. \A q \in Procs : pc[q] # "writing"
    BY <1>1, <2>1 DEF Others, Saving
  <2>3. \A q \in Procs : fd[q] = None
    BY <2>2 DEF FdInv
  <2>4. text[p] \in Snapshots
    BY <1>1 DEF Chunk, Saving
  <2> QED
    BY <1>1, <2>1, <2>3, <2>4
<1>4. OwnTmpInv'
  <2> SUFFICES ASSUME NEW q \in Procs, Saving(q)', q \notin met' PROVE FALSE
    BY DEF OwnTmpInv
  <2>1. q # p /\ Saving(q) /\ q \notin met
    BY <1>1 DEF Saving
  <2> QED
    BY <1>1, <2>1 DEF OwnTmpInv, Others, Saving
<1> QED
  BY <1>2, <1>3, <1>4

LEMMA SharedSaveLosesTmp ==
  ASSUME SharedInv, SessionTypeOK', NEW p \in Procs, SaveLosesTmp(p)
  PROVE  SharedInv'
<1> USE DEF SharedInv, SessionTypeOK
<1>1. /\ pc[p] = "replacing" /\ met' = met \ {p} /\ pc' = [pc EXCEPT ![p] = "failed"]
      /\ UNCHANGED <<fd, written, data, path, tmp, last, lone>>
  BY DEF SaveLosesTmp, files
<1>2. FdInv' /\ PathInv' /\ FileInv'
  BY <1>1 DEF FdInv, PathInv, FileInv
<1>3. OwnTmpInv'
  <2> SUFFICES ASSUME NEW q \in Procs, Saving(q)', q \notin met' PROVE FALSE
    BY DEF OwnTmpInv
  <2>1. q # p /\ Saving(q) /\ q \notin met
    BY <1>1 DEF Saving
  <2> QED
    BY <1>1, <2>1 DEF OwnTmpInv, Others, Saving
<1> QED
  BY <1>2, <1>3

LEMMA SharedCrash ==
  ASSUME SharedInv, SessionTypeOK', NEW p \in Procs, Crash(p)
  PROVE  SharedInv'
<1> USE DEF SharedInv, SessionTypeOK
<1>1. /\ pc' = [pc EXCEPT ![p] = "off"] /\ fd' = [fd EXCEPT ![p] = None] /\ met' = met \ {p}
      /\ text' = [text EXCEPT ![p] = Hole]
      /\ UNCHANGED <<written, data, path, tmp, last, lone>>
  BY DEF Crash
<1>2. FdInv' /\ PathInv'
  BY <1>1 DEF FdInv, PathInv
<1>3. FileInv'
  BY <1>1, NoneIsNoInode DEF FileInv
<1>4. OwnTmpInv'
  <2> SUFFICES ASSUME NEW q \in Procs, q # p, Saving(q), q \notin met
               PROVE  /\ Others(q)' = {} /\ tmp \in Inodes
                      /\ pc[q] = "writing" =>
                           /\ fd[q] = tmp /\ Len(data[tmp]) = written[q] /\ written[q] <= text[q].size
                           /\ \A i \in 1..written[q] : data[tmp][i] = text[q]
                      /\ pc[q] = "replacing" => data[tmp] = Whole(text[q])
    <3>1. \A q \in Procs : Saving(q)' => q # p /\ Saving(q)
      BY <1>1 DEF Saving
    <3>2. \A q \in Procs : q # p =>
            pc'[q] = pc[q] /\ fd'[q] = fd[q] /\ text'[q] = text[q] /\ (q \notin met' <=> q \notin met)
      BY <1>1
    <3> QED
      BY <1>1, <3>1, <3>2 DEF OwnTmpInv
  <2>1. Others(q)' \subseteq Others(q)
    BY <1>1 DEF Others, Saving
  <2> QED
    BY <2>1 DEF OwnTmpInv
<1> QED
  BY <1>2, <1>3, <1>4

LEMMA SharedNext == ASSUME SharedInv, [Next]_vars PROVE SharedInv'
<1>1. SessionTypeOK'
  BY TypeNext DEF SharedInv
<1>2. ASSUME NEW p \in Procs,
             Load(p) \/ LoadFails(p) \/ Encrypt(p) \/ Save(p) \/ Continue(p) \/ Exit(p) \/ Crash(p)
      PROVE  SharedInv'
  BY <1>1, <1>2, SharedQuiet, SharedSaveOpen, SharedSaveWrite, SharedSaveClose, SharedSaveReplace,
     SharedSaveLosesTmp, SharedCrash DEF Save
<1>3. CASE UNCHANGED vars
  BY <1>1, <1>3 DEF vars, files, SharedInv, FdInv, PathInv, FileInv, OwnTmpInv, Saving, Others
<1> QED
  BY <1>2, <1>3 DEF Next

LEMMA SharedInvariance == Spec => []SharedInv
BY SharedInit, SharedNext, PTL DEF Spec

\* Only saves that overlap can spoil the file: however many processes share
\* it, however long their snapshots are and whoever is killed, once the save
\* that ended last met no other, the file is one whole snapshot: its own.
THEOREM LoneSavesWhole == Spec => []LoneSavesAreWhole
<1>1. ASSUME SharedInv PROVE LoneSavesAreWhole
  <2> SUFFICES ASSUME lone PROVE Complete(data[path]) /\ data[path] = last
    BY DEF LoneSavesAreWhole
  <2>1. PICK s \in Snapshots : last = Whole(s)
    BY <1>1 DEF SharedInv, FileInv
  <2>2. Complete(Whole(s))
    BY WholeType
  <2> QED
    BY <1>1, <2>1, <2>2 DEF SharedInv, FileInv
<1> QED
  BY <1>1, SharedInvariance, PTL

-----------------------------------------------------------------------------
(* One process at a time: then every save meets no other, and what a load   *)
(* finds is what the save before it recorded.                               *)

stored == data[path][1].next

AloneInv == \A p, q \in Procs : pc[p] # "off" /\ pc[q] # "off" => p = q

HeldInv == \A p \in Procs :
  /\ pc[p] # "failed" /\ (pc[p] # "off" => mem[p] \in 1..(MaxKey + 1))
  /\ Saving(p) => text[p].next = mem[p]

RecordedInv == lone /\ met = {} /\ stored \in 1..(MaxKey + 1)

\* Whoever runs next encrypts with keys nobody has used.
KeysInv == crashes = 0 =>
  /\ \A k \in Keys : used[k] <= 1
  /\ \A p \in Procs : pc[p] # "off" => \A k \in Keys : k >= mem[p] => used[k] = 0
  /\ \A p \in Procs : pc[p] = "saved" => stored = mem[p]
  /\ (\A p \in Procs : pc[p] = "off") => \A k \in Keys : k >= stored => used[k] = 0

SoleInv == SharedInv /\ AloneInv /\ HeldInv /\ RecordedInv /\ KeysInv

LEMMA StoredIsWhole == ASSUME SoleInv PROVE Complete(data[path]) /\ data[path] = last
<1>1. PICK s \in Snapshots : last = Whole(s)
  BY DEF SoleInv, SharedInv, FileInv, RecordedInv
<1>2. Complete(Whole(s))
  BY WholeType
<1> QED
  BY <1>1, <1>2 DEF SoleInv, SharedInv, FileInv, RecordedInv

LEMMA FirstStored == ASSUME Init PROVE stored = 1
<1>1. PICK s \in Snapshots : s.next = 1 /\ last = Whole(s) /\ data[path] = last
  BY FirstSnapshot
<1>2. Whole(s)[1] = s
  BY WholeType
<1> QED
  BY <1>1, <1>2 DEF stored

LEMMA SoleInit == Init => SoleInv
<1> SUFFICES ASSUME Init PROVE SoleInv
  OBVIOUS
<1>1. SharedInv
  BY SharedInit
<1>2. RecordedInv
  BY FirstStored DEF Init, RecordedInv
<1> QED
  BY <1>1, <1>2 DEF Init, SoleInv, AloneInv, HeldInv, KeysInv, Saving

LEMMA SoleLoad ==
  ASSUME SoleInv, Exclusive, NEW p \in Procs, Load(p), SharedInv'
  PROVE  SoleInv'
<1> USE DEF SoleInv, SharedInv, SessionTypeOK
<1>1. stored \in 1..(MaxKey + 1)
  BY DEF RecordedInv
<1>2. AloneInv'
  BY DEF Load, AloneInv
<1>3. HeldInv'
  BY <1>1 DEF Load, HeldInv, stored, Saving
<1>4. RecordedInv'
  BY DEF Load, files, RecordedInv, stored
<1>5. KeysInv'
  BY DEF Load, files, KeysInv, stored
<1> QED
  BY <1>2, <1>3, <1>4, <1>5

LEMMA SoleEncrypt ==
  ASSUME SoleInv, Exclusive, NEW p \in Procs, Encrypt(p), SharedInv'
  PROVE  SoleInv'
<1> USE DEF SoleInv, SharedInv, SessionTypeOK
<1>1. mem[p] \in Keys /\ \A q \in Procs : q # p => pc[q] = "off"
  BY DEF Encrypt, HeldInv, AloneInv, Keys
<1>2. AloneInv'
  BY DEF Encrypt, AloneInv
<1>3. HeldInv'
  <2>1. \A q \in Procs : pc'[q] # "off" => q = p
    BY <1>1 DEF Encrypt
  <2>2. pc'[p] = "running" /\ mem'[p] = mem[p] + 1
    BY DEF Encrypt
  <2>3. \A q \in Procs : pc'[q] # "failed" /\ ~Saving(q)'
    BY <2>1, <2>2 DEF Saving
  <2> QED
    BY <1>1, <2>1, <2>2, <2>3 DEF HeldInv, Keys
<1>4. RecordedInv'
  BY DEF Encrypt, files, RecordedInv, stored
<1>5. KeysInv'
  <2> SUFFICES ASSUME crashes = 0 PROVE KeysInv'
    BY DEF Encrypt, KeysInv
  <2> HIDE DEF SessionTypeOK
  <2>0. pc[p] = "running" /\ KeysInv
    BY DEF Encrypt
  <2>1. \A k \in Keys : used[k] <= 1 /\ (k >= mem[p] => used[k] = 0)
    BY <2>0 DEF KeysInv
  <2>2. used[mem[p]] = 0
    BY <1>1, <2>1 DEF Keys
  <2>3. \A k \in Keys : used'[k] = IF k = mem[p] THEN 1 ELSE used[k]
    BY <1>1, <2>2 DEF Encrypt, SessionTypeOK
  <2>4. mem'[p] = mem[p] + 1 /\ pc'[p] = "running"
    BY DEF Encrypt, SessionTypeOK
  <2>5. \A k \in Keys : used'[k] <= 1
    BY <2>1, <2>3
  <2>6. \A k \in Keys : k >= mem'[p] => used'[k] = 0
    BY <1>1, <2>1, <2>3, <2>4 DEF Keys
  <2>7. \A q \in Procs : pc'[q] # "off" => q = p
    BY <1>1 DEF Encrypt
  <2> QED
    BY <2>4, <2>5, <2>6, <2>7 DEF KeysInv
<1> QED
  BY <1>2, <1>3, <1>4, <1>5

\* The steps of a save before the rename leave the stored session alone.
LEMMA SoleSaveOpen ==
  ASSUME SoleInv, Exclusive, NEW p \in Procs, SaveOpen(p), SharedInv'
  PROVE  SoleInv' /\ UNCHANGED stored
<1> USE DEF SoleInv, SharedInv, SessionTypeOK
<1>1. \A q \in Procs : q # p => pc[q] = "off"
  BY DEF SaveOpen, AloneInv
<1>2. PICK i \in Inodes : Opened(i) /\ Opens(p, i) /\ data' = [data EXCEPT ![i] = <<>>]
  BY DEF SaveOpen
<1>3. i # path
  BY <1>2 DEF Opened, InUse, PathInv
<1>4. UNCHANGED stored
  BY <1>2, <1>3 DEF Opens, stored
<1>5. pc[p] = "running" /\ pc' = [pc EXCEPT ![p] = "writing"] /\ UNCHANGED <<mem, used, lone, crashes>>
  BY <1>2 DEF SaveOpen, Opens
<1>6. PICK n \in 1..MaxChunks : text' = [text EXCEPT ![p] = [by |-> p, next |-> mem[p], size |-> n]]
  BY DEF SaveOpen
<1>7. met' = {}
  <2>1. Others(p) = {}
    BY <1>1 DEF Others, Saving
  <2> QED
    BY <1>2, <2>1 DEF Opens, RecordedInv
<1>8. AloneInv'
  <2>1. \A q \in Procs : q # p => pc'[q] = "off"
    BY <1>1, <1>5
  <2> QED
    BY <2>1, Zenon DEF AloneInv
<1>9. HeldInv'
  <2>1. text'[p].next = mem[p] /\ pc'[p] = "writing" /\ mem[p] \in 1..(MaxKey + 1)
    BY <1>5, <1>6 DEF HeldInv
  <2>2. \A q \in Procs : q # p => pc'[q] = "off"
    BY <1>1, <1>5
  <2> HIDE DEF SessionTypeOK
  <2> QED
    BY <1>5, <2>1, <2>2 DEF HeldInv, Saving
<1>10. RecordedInv'
  BY <1>4, <1>5, <1>7 DEF RecordedInv
<1>11. KeysInv'
  <2>1. crashes = 0 => /\ \A k \in Keys : used[k] <= 1
                       /\ \A k \in Keys : k >= mem[p] => used[k] = 0
    BY <1>5 DEF KeysInv
  <2>2. pc'[p] = "writing" /\ \A q \in Procs : q # p => pc'[q] = "off"
    BY <1>1, <1>5
  <2> HIDE DEF SessionTypeOK, SharedInv, SoleInv
  <2> QED
    BY <1>5, <2>1, <2>2 DEF KeysInv
<1> QED
  BY <1>4, <1>8, <1>9, <1>10, <1>11

LEMMA SoleSaveWriteClose ==
  ASSUME SoleInv, Exclusive, NEW p \in Procs, SaveWrite(p) \/ SaveClose(p), SharedInv'
  PROVE  SoleInv' /\ UNCHANGED stored
<1> USE DEF SoleInv, SharedInv, SessionTypeOK
<1>1. pc[p] = "writing" /\ \A q \in Procs : q # p => pc[q] = "off"
  BY DEF SaveWrite, SaveClose, AloneInv
<1>2. /\ UNCHANGED <<mem, text, path, used, last, met, lone, crashes>>
      /\ pc' = pc \/ pc' = [pc EXCEPT ![p] = "replacing"]
      /\ data' = data \/ data' = [data EXCEPT ![fd[p]] = WriteAt(@, written[p] + 1, text[p])]
  BY DEF SaveWrite, SaveClose
<1>3. fd[p] # path
  BY DEF FileInv, RecordedInv
<1>4. UNCHANGED stored
  BY <1>2, <1>3 DEF stored
<1>5. /\ \A q \in Procs : q # p => pc'[q] = "off"
      /\ pc'[p] \in {"writing", "replacing"}
  BY <1>1, <1>2
<1>6. AloneInv'
  BY <1>5 DEF AloneInv
<1>7. HeldInv'
  <2>1. text[p].next = mem[p] /\ mem[p] \in 1..(MaxKey + 1)
    BY <1>1 DEF HeldInv, Saving
  <2> HIDE DEF SessionTypeOK
  <2> QED
    BY <1>2, <1>5, <2>1 DEF HeldInv, Saving
<1>8. RecordedInv'
  BY <1>2, <1>4 DEF RecordedInv
<1>9. KeysInv'
  BY <1>1, <1>2, <1>4, <1>5 DEF KeysInv
<1> QED
  BY <1>4, <1>6, <1>7, <1>8, <1>9

LEMMA SoleSaveReplace ==
  ASSUME SoleInv, Exclusive, NEW p \in Procs, SaveReplace(p), SharedInv'
  PROVE  SoleInv' /\ stored' = mem[p]
<1> USE DEF SoleInv, SharedInv, SessionTypeOK
<1>1. pc[p] = "replacing" /\ \A q \in Procs : q # p => pc[q] = "off"
  BY DEF SaveReplace, AloneInv
<1>2. /\ path' = tmp /\ last' = Whole(text[p]) /\ lone' = (p \notin met) /\ met' = met \ {p}
      /\ pc' = [pc EXCEPT ![p] = "saved"] /\ UNCHANGED <<mem, data, used, crashes>>
  BY DEF SaveReplace
<1>3. text[p] \in Snapshots /\ text[p].next = mem[p] /\ mem[p] \in 1..(MaxKey + 1)
  BY <1>1 DEF Chunk, Saving, HeldInv
<1>4. Whole(text[p])[1] = text[p]
  BY <1>3, WholeType
<1>5. p \notin met /\ data[tmp] = Whole(text[p])
  BY <1>1 DEF OwnTmpInv, RecordedInv, Saving
<1>6. stored' = mem[p]
  BY <1>2, <1>3, <1>4, <1>5 DEF stored
<1>7. pc'[p] = "saved" /\ \A q \in Procs : pc'[q] # "off" => q = p
  BY <1>1, <1>2
<1>8. AloneInv'
  BY <1>7 DEF AloneInv
<1>9. HeldInv'
  <2>1. \A q \in Procs : pc'[q] # "failed" /\ ~Saving(q)'
    BY <1>7 DEF Saving
  <2> HIDE DEF SessionTypeOK
  <2> QED
    BY <1>2, <1>3, <1>7, <2>1 DEF HeldInv
<1>10. RecordedInv'
  BY <1>2, <1>3, <1>5, <1>6 DEF RecordedInv
<1>11. KeysInv'
  <2> HIDE DEF SessionTypeOK
  <2>1. KeysInv
    OBVIOUS
  <2> HIDE DEF SoleInv
  <2> QED
    BY <1>1, <1>2, <1>6, <1>7, <2>1 DEF KeysInv
<1> QED
  BY <1>6, <1>8, <1>9, <1>10, <1>11

LEMMA SoleLeave ==
  ASSUME SoleInv, NEW p \in Procs, Continue(p) \/ Exit(p) \/ Crash(p), SharedInv'
  PROVE  SoleInv' /\ UNCHANGED stored
<1> USE DEF SoleInv, SharedInv, SessionTypeOK
<1>1. \A q \in Procs : q # p => pc'[q] = pc[q]
  BY DEF Continue, Exit, Crash
<1>2. (pc'[p] = "running" /\ pc[p] = "saved") \/ pc'[p] = "off"
  BY DEF Continue, Exit, Crash
<1>3. /\ UNCHANGED <<mem, data, path, used, last, lone>>
      /\ \A q \in Procs : q # p => text'[q] = text[q]
      /\ met' \subseteq met
  BY DEF Continue, Exit, Crash, files
<1>4. UNCHANGED stored
  BY <1>3 DEF stored
<1>5. AloneInv'
  BY <1>1, <1>2 DEF AloneInv
<1>6. HeldInv'
  <2>1. \A q \in Procs : Saving(q)' => q # p /\ Saving(q)
    BY <1>1, <1>2 DEF Saving
  <2>2. \A q \in Procs : pc'[q] # "failed" /\ (pc'[q] # "off" => pc[q] # "off")
    BY <1>1, <1>2 DEF HeldInv
  <2> HIDE DEF SessionTypeOK
  <2> QED
    BY <1>3, <2>1, <2>2 DEF HeldInv
<1>7. RecordedInv'
  BY <1>3, <1>4 DEF RecordedInv
<1>8. KeysInv'
  <2> SUFFICES ASSUME crashes' = 0 PROVE KeysInv'
    BY DEF KeysInv
  <2>1. crashes = 0 /\ pc[p] = "saved"
    BY DEF Continue, Exit, Crash, HeldInv
  <2> HIDE DEF SessionTypeOK
  <2>2. stored = mem[p] /\ \A q \in Procs : q # p => pc[q] = "off"
    BY <2>1 DEF KeysInv, AloneInv
  <2>3. \A k \in Keys : used[k] <= 1 /\ (k >= mem[p] => used[k] = 0)
    BY <2>1 DEF KeysInv
  <2> HIDE DEF SoleInv
  <2> QED
    BY <1>1, <1>2, <1>3, <1>4, <2>2, <2>3 DEF KeysInv
<1> QED
  BY <1>4, <1>5, <1>6, <1>7, <1>8

\* No load meets a spoilt file, and no save finds its .tmp file gone.
LEMMA NothingFails ==
  ASSUME SoleInv, NEW p \in Procs PROVE ~LoadFails(p) /\ ~SaveLosesTmp(p)
<1>1. ~LoadFails(p)
  BY StoredIsWhole DEF LoadFails
<1>2. ~SaveLosesTmp(p)
  BY NoneIsNoInode DEF SoleInv, SharedInv, RecordedInv, OwnTmpInv, SaveLosesTmp, Saving
<1> QED
  BY <1>1, <1>2

LEMMA SoleNext == ASSUME SoleInv, Exclusive, [Next]_vars PROVE SoleInv'
<1>1. SharedInv'
  BY SharedNext DEF SoleInv
<1>2. ASSUME NEW p \in Procs,
             Load(p) \/ LoadFails(p) \/ Encrypt(p) \/ Save(p) \/ Continue(p) \/ Exit(p) \/ Crash(p)
      PROVE  SoleInv'
  BY <1>1, <1>2, NothingFails, SoleLoad, SoleEncrypt, SoleSaveOpen, SoleSaveWriteClose,
     SoleSaveReplace, SoleLeave DEF Save
<1>3. CASE UNCHANGED vars
  BY <1>1, <1>3 DEF vars, files, SoleInv, AloneInv, HeldInv, RecordedInv, KeysInv, stored, Saving
<1> QED
  BY <1>2, <1>3 DEF Next

LEMMA SoleInvariance == ASSUME Exclusive PROVE Spec => []SoleInv
<1>1. SoleInv /\ [Next]_vars => SoleInv'
  BY SoleNext
<1> QED
  BY <1>1, SoleInit, PTL DEF Spec

-----------------------------------------------------------------------------
\* When one process runs at a time, then whenever it is killed, and however
\* often, the session path names the one whole snapshot that the last
\* completed save wrote.
THEOREM SavesAtomic == ASSUME Exclusive PROVE Spec => []SavesAreAtomic
<1>1. SoleInv => SavesAreAtomic
  BY StoredIsWhole DEF SavesAreAtomic
<1> QED
  BY <1>1, SoleInvariance, PTL

\* Then also, as long as nobody is killed, no key encrypts two messages.
THEOREM KeysUsedOnce == ASSUME Exclusive PROVE Spec => []NoKeyReused
<1>1. SoleInv => NoKeyReused
  BY DEF SoleInv, KeysInv, NoKeyReused
<1> QED
  BY <1>1, SoleInvariance, PTL

-----------------------------------------------------------------------------
(* The refinement: the rename is the atomic save, and the steps before it   *)
(* change nothing that is stored.                                           *)

LEMMA InitIsAtomic == Init => Atomic!AInit
BY FirstStored DEF Init, Atomic!AInit, Keys, Saving, stored

LEMMA StepIsAtomic ==
  ASSUME SoleInv, Exclusive, [Next]_vars PROVE [Atomic!ANext]_(Atomic!avars)
<1> DEFINE st == [p \in Procs |-> IF Saving(p) THEN "running" ELSE pc[p]]
<1> USE DEF SoleInv, SharedInv, SessionTypeOK
<1>0. SharedInv'
  BY SharedNext
<1>1. ASSUME NEW p \in Procs, Load(p) PROVE Atomic!ALoad(p)
  BY <1>1 DEF Load, files, Saving, Atomic!ALoad
<1>2. ASSUME NEW p \in Procs, Encrypt(p) PROVE Atomic!AEncrypt(p)
  BY <1>2 DEF Encrypt, files, Saving, Atomic!AEncrypt
<1>3. ASSUME NEW p \in Procs, SaveOpen(p) PROVE UNCHANGED Atomic!avars
  <2>1. UNCHANGED stored
    BY <1>0, <1>3, SoleSaveOpen
  <2>2. pc[p] = "running" /\ pc' = [pc EXCEPT ![p] = "writing"] /\ UNCHANGED <<mem, used>>
    BY <1>3 DEF SaveOpen, Opens
  <2>3. st' = st
    BY <2>2 DEF Saving
  <2> QED
    BY <2>1, <2>2, <2>3 DEF Atomic!avars, stored
<1>4. ASSUME NEW p \in Procs, SaveWrite(p) \/ SaveClose(p) PROVE UNCHANGED Atomic!avars
  <2>1. UNCHANGED stored
    BY <1>0, <1>4, SoleSaveWriteClose
  <2>2. UNCHANGED <<mem, used>> /\ pc[p] = "writing" /\ (pc' = pc \/ pc' = [pc EXCEPT ![p] = "replacing"])
    BY <1>4 DEF SaveWrite, SaveClose
  <2>3. st' = st
    BY <2>2 DEF Saving
  <2> QED
    BY <2>1, <2>2, <2>3 DEF Atomic!avars, stored
<1>5. ASSUME NEW p \in Procs, SaveReplace(p) PROVE Atomic!ASave(p)
  <2>1. stored' = mem[p]
    BY <1>0, <1>5, SoleSaveReplace
  <2>2. st[p] = "running" /\ st' = [st EXCEPT ![p] = "saved"]
    BY <1>5 DEF SaveReplace, Saving
  <2> QED
    BY <1>5, <2>1, <2>2 DEF SaveReplace, Atomic!ASave, stored
<1>6. ASSUME NEW p \in Procs, Continue(p) PROVE Atomic!AContinue(p)
  BY <1>6 DEF Continue, files, Saving, Atomic!AContinue
<1>7. ASSUME NEW p \in Procs, Exit(p) \/ Crash(p) PROVE Atomic!ALeave(p)
  <2>1. /\ pc[p] # "off" /\ pc' = [pc EXCEPT ![p] = "off"]
        /\ UNCHANGED <<mem, data, path, used>>
    BY <1>7 DEF Exit, Crash, files
  <2>2. st[p] # "off" /\ st' = [st EXCEPT ![p] = "off"]
    BY <2>1 DEF Saving
  <2> QED
    BY <2>1, <2>2 DEF Atomic!ALeave
<1>8. CASE UNCHANGED vars
  BY <1>8 DEF vars, files, Saving, Atomic!avars
<1> QED
  BY <1>1, <1>2, <1>3, <1>4, <1>5, <1>6, <1>7, <1>8, NothingFails DEF Next, Save, Atomic!ANext

\* When one process runs at a time, a save is one atomic replacement of the
\* stored session, a load finds what was stored last, and a kill stores
\* nothing: SessionFile implements AtomicSession.
THEOREM SessionIsAtomic == ASSUME Exclusive PROVE Spec => ImplementsAtomicSession
<1>1. SoleInv /\ [Next]_vars => [Atomic!ANext]_(Atomic!avars)
  BY StepIsAtomic
<1> QED
  BY <1>1, InitIsAtomic, SoleInvariance, PTL DEF Spec, ImplementsAtomicSession, Atomic!ASpec
=============================================================================
