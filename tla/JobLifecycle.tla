---------------------------- MODULE JobLifecycle ----------------------------
(***************************************************************************)
(* What the grid promises about a job, without coordinator, files, workers *)
(* or network: a job waits, at most one attempt ever owns it, and an owned *)
(* job ends once and for good.  A job may also leave the queue unowned, by *)
(* a cancellation or by a final report whose claim never arrived; such a   *)
(* stray job is never owned.  Only a job that nobody was told about may be *)
(* lost.                                                                   *)
(***************************************************************************)
CONSTANTS JobId, Attempt, NoAttempt

VARIABLES
  life,   \* where each job stands, and the attempt that owns it
  kept    \* the jobs a client has been answered about

vars == <<life, kept>>

Phase == {"absent", "waiting", "owned", "done", "stray", "lost"}

Unowned(phase) == [phase |-> phase, owner |-> NoAttempt]

Init ==
  /\ life = [j \in JobId |-> Unowned("absent")]
  /\ kept = {}

In(j, phase) == life[j].phase = phase

Move(S, v) == life' = [j \in JobId |-> IF j \in S THEN v ELSE life[j]]

\* Clients may be told about jobs that are not lost.
Confirm(S) == kept' = kept \/ kept' = kept \cup S

Post(S) ==
  /\ \A j \in S : In(j, "absent")
  /\ Move(S, Unowned("waiting")) /\ Confirm(S)

Claim(j, a) ==
  /\ In(j, "waiting")
  /\ Move({j}, [phase |-> "owned", owner |-> a]) /\ Confirm({j})

Finish(j) ==
  /\ In(j, "owned")
  /\ Move({j}, [phase |-> "done", owner |-> life[j].owner]) /\ Confirm({j})

Stray(j) ==
  /\ In(j, "waiting")
  /\ Move({j}, Unowned("stray")) /\ Confirm({j})

\* A request that changes nothing here is answered.
Repeat(j) ==
  /\ life[j].phase \in {"owned", "done", "stray"}
  /\ UNCHANGED life /\ Confirm({j})

Lose(S) ==
  /\ \A j \in S : j \notin kept /\ (In(j, "waiting") \/ In(j, "absent"))
  /\ Move(S, Unowned("lost")) /\ UNCHANGED kept

Next ==
  \/ \E S \in SUBSET JobId : Post(S) \/ Lose(S)
  \/ \E j \in JobId :
       Finish(j) \/ Stray(j) \/ Repeat(j) \/ \E a \in Attempt : Claim(j, a)

Spec == Init /\ [][Next]_vars
=============================================================================
