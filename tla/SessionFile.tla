---------------------------- MODULE SessionFile ----------------------------
(***************************************************************************)
(* The session file of session/store.py and the processes that live off    *)
(* it: each command of cli.py loads the file, lets the in-memory store     *)
(* advance, and saves a snapshot before it exits.                          *)
(*                                                                         *)
(* save_session_file writes `<path>.tmp', then renames it over <path>.  It *)
(* never awaits, so saves of one process do not interleave; two processes  *)
(* share both names, and a process can be killed between any two steps.    *)
(*                                                                         *)
(* All that a session holds is abstracted to the next key of one sending   *)
(* ratchet: encrypting uses it up, a restart resumes at what was saved.    *)
(* External, modelled from its use: the file system.  A file is an inode,  *)
(* a descriptor stays on its inode when the name moves, and write_text     *)
(* truncates first and then writes at its own offset, piece by piece: as   *)
(* many pieces as the snapshot is long, and no two need be equally long.   *)
(***************************************************************************)
EXTENDS Naturals, FiniteSets, Sequences

CONSTANTS Procs,      \* the processes started on this session file
          Exclusive,  \* whether the user runs one of them at a time
          MaxChunks,  \* bound: how many writes the longest snapshot takes
          MaxKey,     \* bound: the keys of the ratchet
          MaxUse,     \* bound: how often one key encrypts
          MaxCrash    \* bound: processes killed

ASSUME SessionFileAssumption ==
  /\ Exclusive \in BOOLEAN /\ MaxChunks \in Nat \ {0}
  /\ MaxKey \in Nat /\ MaxUse \in Nat /\ MaxCrash \in Nat /\ IsFiniteSet(Procs)

VARIABLES
  pc,       \* "off", "running", "writing", "replacing", "saved", "failed"
  mem,      \* the next key in each process's store
  text,     \* the snapshot each process is saving, or Hole
  fd,       \* the inode each process is writing
  written,  \* how many chunks it has written
  data,     \* the content of each inode: piece by piece, of which snapshot
  path,     \* the inode the session path names
  tmp,      \* the inode the .tmp name names, or None
  used,     \* history: how often each key encrypted a message
  last,     \* history: what the save that ended last had to write
  met,      \* history: who is in a save that overlapped another one
  lone,     \* history: whether the save that ended last overlapped none
  crashes   \* history: how many processes were killed

files == <<fd, written, data, path, tmp>>
vars  == <<pc, mem, text, files, used, last, met, lone, crashes>>

Keys   == 1..MaxKey
Inodes == 0..(Cardinality(Procs) + 1)
None   == Cardinality(Procs) + 2
Hole   == [by |-> "none", next |-> 0, size |-> 0]      \* bytes never written

\* A snapshot: whose store it is of, the key it resumes at, how long its text is.
Snapshots == [by : Procs \cup {"link"}, next : 0..(MaxKey + 1), size : 1..MaxChunks]
Chunk     == Snapshots \cup {Hole}

Whole(snapshot) == [i \in 1..snapshot.size |-> snapshot]

\* What a file must be for from_json to give back a session that was saved.
Complete(content) ==
  content # <<>> /\ content[1] # Hole /\ content = Whole(content[1])

Init ==
  /\ pc = [p \in Procs |-> "off"] /\ mem = [p \in Procs |-> 0]
  /\ text = [p \in Procs |-> Hole]
  /\ fd = [p \in Procs |-> None] /\ written = [p \in Procs |-> 0]
  /\ path = 0 /\ tmp = None
  /\ \E n \in 1..MaxChunks : last = Whole([by |-> "link", next |-> 1, size |-> n])
  /\ data = [i \in Inodes |-> IF i = 0 THEN last ELSE <<>>]
  /\ used = [k \in Keys |-> 0] /\ met = {} /\ lone = TRUE /\ crashes = 0

-----------------------------------------------------------------------------
\* load_session: read_text, from_json, SignalStore.deserialize.
Load(p) ==
  /\ pc[p] = "off" /\ (Exclusive => \A q \in Procs : pc[q] = "off")
  /\ Complete(data[path])
  /\ mem' = [mem EXCEPT ![p] = data[path][1].next]
  /\ pc' = [pc EXCEPT ![p] = "running"]
  /\ UNCHANGED <<text, files, used, last, met, lone, crashes>>

\* from_json fails on what is not one whole snapshot: the command dies.
LoadFails(p) ==
  /\ pc[p] = "off" /\ (Exclusive => \A q \in Procs : pc[q] = "off")
  /\ ~Complete(data[path])
  /\ pc' = [pc EXCEPT ![p] = "failed"]
  /\ UNCHANGED <<mem, text, files, used, last, met, lone, crashes>>

Encrypt(p) ==
  /\ pc[p] = "running" /\ mem[p] <= MaxKey /\ used[mem[p]] < MaxUse
  /\ used' = [used EXCEPT ![mem[p]] = @ + 1]
  /\ mem' = [mem EXCEPT ![p] = @ + 1]
  /\ UNCHANGED <<pc, text, files, last, met, lone, crashes>>

InUse     == {path, tmp} \cup {fd[q] : q \in Procs}
Saving(p) == pc[p] \in {"writing", "replacing"}
Others(p) == {q \in Procs \ {p} : Saving(q)}

\* What open(tmp, "w") gives: the file of that name, or the first free inode.
Opened(i) == IF tmp # None THEN i = tmp ELSE i \notin InUse /\ \A j \in Inodes \ InUse : i <= j

\* The rest of SaveOpen: p writes to inode i, and whose saves overlap.
Opens(p, i) ==
  /\ tmp' = i
  /\ fd' = [fd EXCEPT ![p] = i] /\ written' = [written EXCEPT ![p] = 0]
  /\ pc' = [pc EXCEPT ![p] = "writing"]
  /\ met' = IF Others(p) = {} THEN met \ {p} ELSE met \cup {p} \cup Others(p)
  /\ UNCHANGED <<mem, path, used, last, lone, crashes>>

\* Fault: the store blob that was loaded is saved, not a fresh snapshot.
SaveOpenStale(p) ==
  /\ pc[p] = "running"
  /\ \E n \in 1..MaxChunks :
       text' = [text EXCEPT ![p] = [by |-> p, next |-> data[path][1].next, size |-> n]]
  /\ \E i \in Inodes : Opened(i) /\ Opens(p, i) /\ data' = [data EXCEPT ![i] = <<>>]

\* Fault: a .tmp file that is there is not truncated.
SaveOpenKeeping(p) ==
  /\ pc[p] = "running"
  /\ \E n \in 1..MaxChunks : text' = [text EXCEPT ![p] = [by |-> p, next |-> mem[p], size |-> n]]
  /\ \E i \in Inodes : Opened(i) /\ Opens(p, i)
                       /\ data' = [data EXCEPT ![i] = IF tmp = None THEN <<>> ELSE @]

\* save_session takes its snapshot, of any length; then open(tmp, "w").
SaveOpen(p) ==
  /\ pc[p] = "running"
  /\ \E n \in 1..MaxChunks : text' = [text EXCEPT ![p] = [by |-> p, next |-> mem[p], size |-> n]]
  /\ \E i \in Inodes : Opened(i) /\ Opens(p, i) /\ data' = [data EXCEPT ![i] = <<>>]

\* Fault: the offset is one piece too far.
WriteAtNext(content, n, chunk) ==
  [i \in 1..(n + 1) |-> IF i = n + 1 THEN chunk
                        ELSE IF i <= Len(content) THEN content[i] ELSE Hole]

\* One write at the descriptor's own offset; a gap before it reads as a hole.
WriteAt(content, n, chunk) ==
  [i \in 1..(IF Len(content) < n THEN n ELSE Len(content)) |->
     IF i = n THEN chunk ELSE IF i <= Len(content) THEN content[i] ELSE Hole]

SaveWrite(p) ==
  /\ pc[p] = "writing" /\ written[p] < text[p].size
  /\ data' = [data EXCEPT ![fd[p]] = WriteAt(@, written[p] + 1, text[p])]
  /\ written' = [written EXCEPT ![p] = @ + 1]
  /\ UNCHANGED <<pc, mem, text, fd, path, tmp, used, last, met, lone, crashes>>

\* Fault: the file is renamed before all of it was written.
SaveCloseEarly(p) ==
  /\ pc[p] = "writing"
  /\ fd' = [fd EXCEPT ![p] = None] /\ written' = [written EXCEPT ![p] = 0]
  /\ pc' = [pc EXCEPT ![p] = "replacing"]
  /\ UNCHANGED <<mem, text, data, path, tmp, used, last, met, lone, crashes>>

SaveClose(p) ==
  /\ pc[p] = "writing" /\ written[p] = text[p].size
  /\ fd' = [fd EXCEPT ![p] = None] /\ written' = [written EXCEPT ![p] = 0]
  /\ pc' = [pc EXCEPT ![p] = "replacing"]
  /\ UNCHANGED <<mem, text, data, path, tmp, used, last, met, lone, crashes>>

SaveReplace(p) ==
  /\ pc[p] = "replacing" /\ tmp # None
  /\ path' = tmp /\ tmp' = None
  /\ last' = Whole(text[p]) /\ lone' = (p \notin met)
  /\ pc' = [pc EXCEPT ![p] = "saved"]
  /\ text' = [text EXCEPT ![p] = Hole] /\ met' = met \ {p}
  /\ UNCHANGED <<mem, fd, written, data, used, crashes>>

\* chmod or replace finds no .tmp: another process has renamed it.
SaveLosesTmp(p) ==
  /\ pc[p] = "replacing" /\ tmp = None
  /\ pc' = [pc EXCEPT ![p] = "failed"]
  /\ text' = [text EXCEPT ![p] = Hole] /\ met' = met \ {p}
  /\ UNCHANGED <<mem, files, used, last, lone, crashes>>

\* The command goes on (an API user saves as often as he likes) or exits.
Continue(p) ==
  /\ pc[p] = "saved" /\ pc' = [pc EXCEPT ![p] = "running"]
  /\ UNCHANGED <<mem, text, files, used, last, met, lone, crashes>>

\* Fault: a command exits without saving.
ExitUnsaved(p) ==
  /\ pc[p] \in {"running", "saved", "failed"} /\ pc' = [pc EXCEPT ![p] = "off"]
  /\ UNCHANGED <<mem, text, files, used, last, met, lone, crashes>>

Exit(p) ==
  /\ pc[p] \in {"saved", "failed"} /\ pc' = [pc EXCEPT ![p] = "off"]
  /\ UNCHANGED <<mem, text, files, used, last, met, lone, crashes>>

Crash(p) ==
  /\ pc[p] # "off" /\ crashes < MaxCrash
  /\ crashes' = crashes + 1
  /\ pc' = [pc EXCEPT ![p] = "off"] /\ fd' = [fd EXCEPT ![p] = None]
  /\ text' = [text EXCEPT ![p] = Hole] /\ met' = met \ {p}
  /\ UNCHANGED <<mem, written, data, path, tmp, used, last, lone>>

Save(p) == SaveOpen(p) \/ SaveWrite(p) \/ SaveClose(p) \/ SaveReplace(p) \/ SaveLosesTmp(p)

Next == \E p \in Procs : \/ Load(p) \/ LoadFails(p) \/ Encrypt(p) \/ Save(p)
                         \/ Continue(p) \/ Exit(p) \/ Crash(p)

Spec == Init /\ [][Next]_vars

-----------------------------------------------------------------------------
(* Properties.                                                              *)

SessionTypeOK ==
  /\ pc \in [Procs -> {"off", "running", "writing", "replacing", "saved", "failed"}]
  /\ mem \in [Procs -> 0..(MaxKey + 1)]
  /\ text \in [Procs -> Chunk] /\ \A p \in Procs : Saving(p) => text[p] # Hole
  /\ fd \in [Procs -> Inodes \cup {None}] /\ written \in [Procs -> 0..MaxChunks]
  /\ data \in [Inodes -> Seq(Chunk)] /\ \A i \in Inodes : Len(data[i]) <= MaxChunks
  /\ path \in Inodes /\ tmp \in Inodes \cup {None}
  /\ used \in [Keys -> 0..MaxUse] /\ last \in Seq(Chunk) /\ crashes \in 0..MaxCrash
  /\ met \subseteq Procs /\ lone \in BOOLEAN

\* docs/ARCHITECTURE.md: "save_session_file writes atomically (.tmp + rename)".
\* Whenever a process is killed, and however often, the session path names one
\* whole snapshot: the one the last completed save wrote.
SavesAreAtomic == Complete(data[path]) /\ data[path] = last

\* Saves that overlap, of two processes, can mix their snapshots: a shorter one
\* leaves a hole or a foreign tail in a longer one, and it stays there.  Only
\* such saves can, whatever else runs and is killed meanwhile: once the save
\* that ended last overlapped no other, the file is again the snapshot it wrote.
LoneSavesAreWhole == lone => Complete(data[path]) /\ data[path] = last

\* As long as nobody is killed, a restart never goes back: no key of the
\* ratchet encrypts two messages.
NoKeyReused == crashes = 0 => \A k \in Keys : used[k] <= 1

\* The steps of a save are together one atomic step, at the rename.  With
\* SavesAreAtomic: a kill costs at most what was not saved, and a key that a
\* completed save recorded as used up never encrypts again.
Atomic == INSTANCE AtomicSession
            WITH stage  <- [p \in Procs |-> IF Saving(p) THEN "running" ELSE pc[p]],
                 stored <- data[path][1].next
ImplementsAtomicSession == Atomic!ASpec
=============================================================================
