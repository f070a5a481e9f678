--------------------------- MODULE AtomicSession ---------------------------
(***************************************************************************)
(* What the session file promises: a save replaces the stored session in   *)
(* one step, a load finds the session that was stored last, and a process  *)
(* that is killed changes nothing stored.  SessionFile implements this     *)
(* when one process runs at a time.                                        *)
(***************************************************************************)
EXTENDS Naturals

CONSTANTS Procs, MaxKey

VARIABLES stage,   \* "off", "running" or "saved", for each process
          mem,     \* the next key in each process's store
          stored,  \* the next key in the stored session
          used     \* history: how often each key encrypted a message

avars == <<stage, mem, stored, used>>

AInit == /\ stage = [p \in Procs |-> "off"] /\ mem = [p \in Procs |-> 0]
         /\ stored = 1 /\ used = [k \in 1..MaxKey |-> 0]

ALoad(p) ==
  /\ \A q \in Procs : stage[q] = "off"
  /\ stage' = [stage EXCEPT ![p] = "running"] /\ mem' = [mem EXCEPT ![p] = stored]
  /\ UNCHANGED <<stored, used>>

AEncrypt(p) ==
  /\ stage[p] = "running" /\ mem[p] <= MaxKey
  /\ used' = [used EXCEPT ![mem[p]] = @ + 1] /\ mem' = [mem EXCEPT ![p] = @ + 1]
  /\ UNCHANGED <<stage, stored>>

ASave(p) ==
  /\ stage[p] = "running" /\ stage' = [stage EXCEPT ![p] = "saved"]
  /\ stored' = mem[p]
  /\ UNCHANGED <<mem, used>>

AContinue(p) ==
  /\ stage[p] = "saved" /\ stage' = [stage EXCEPT ![p] = "running"]
  /\ UNCHANGED <<mem, stored, used>>

\* Exits and kills alike.
ALeave(p) ==
  /\ stage[p] # "off" /\ stage' = [stage EXCEPT ![p] = "off"]
  /\ UNCHANGED <<mem, stored, used>>

ANext == \E p \in Procs : ALoad(p) \/ AEncrypt(p) \/ ASave(p) \/ AContinue(p) \/ ALeave(p)

ASpec == AInit /\ [][ANext]_avars
=============================================================================
