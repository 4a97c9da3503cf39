------------------------------- MODULE Grid --------------------------------
(***************************************************************************)
(* The grid at work: the coordinator of Coordinator.tla, the worker        *)
(* processes of internal/worker and the network between them.              *)
(*                                                                         *)
(* A worker polls for its pending jobs, starts one goroutine per job that  *)
(* is not in activeJobs, and each goroutine reports "running", executes,   *)
(* and reports how it ended.  updateJobStatus ignores both errors and the  *)
(* answer, so the goroutine goes on whatever became of its report.         *)
(*                                                                         *)
(* Pairing is over: every worker holds credentials the coordinator knows   *)
(* (Enlist.tla shows that they stay good).                                 *)
(* handleListJobs offers a worker its pending jobs only, so the branch of  *)
(* pollJobs that calls cancelJob for a cancelled job cannot be taken, no   *)
(* context is ever cancelled, and no worker ever reports "cancelled".      *)
(***************************************************************************)
EXTENDS Coordinator

CONSTANT NetFaults   \* which failures the network and the workers may have;
                     \* "largeLogs": commands print more than 64 KiB

ASSUME GridAssumption ==
  /\ NetFaults \subseteq {"loss", "timeout", "workerCrash", "largeLogs"}
  /\ MaxCert # 0   \* workers pair with a coordinator that has a certificate

VARIABLES
  wup,      \* the worker process runs
  polled,   \* per worker: jobs of the last poll not looked at yet, with their task
  active,   \* per worker: the keys of activeJobs
  execs,    \* the executeJob goroutines, by the attempt id each one made up
  minted,   \* attempt ids made up so far
  net       \* status updates on their way to the coordinator

workerVars == <<wup, polled, active, execs, minted, net>>
gridVars == <<vars, workerVars>>

PC == {"spawned", "announcing", "executing", "reporting"}

\* large: the logs make the request exceed the 65536 bytes handleJobAction reads
Message ==
  [job : JobId, attempt : Attempt, status : Status, result : Result, large : BOOLEAN]

\* The map without the keys K
Without(f, K) == [x \in DOMAIN f \ K |-> f[x]]

-----------------------------------------------------------------------------
(* The state pairing leaves behind: each worker used a code of its own.     *)

PairedState(issueOf, osOf) ==
  LET c  == [EmptyCfg EXCEPT !.cert = 1, !.issue = MaxIssue, !.expiry = PairingTTL]
      ws == [w \in WorkerId |-> [os |-> osOf[w], lastSeen |-> 0, status |-> "online",
                                 issue |-> issueOf[w]]]
  IN /\ up = TRUE /\ cfg = c /\ workers = ws /\ jobs = EmptyMap
     /\ disk = [cfg |-> c, workers |-> ws, jobs |-> EmptyMap]
     /\ now = 0
     /\ drawn = [workers |-> WorkerId, jobs |-> {}, issues |-> MaxIssue, certs |-> 1]
     /\ seen = [told |-> [w \in WorkerId |-> 1], acked |-> EmptyMap,
                wrong |-> [i \in 1..MaxIssue |-> 0]]

GridInit ==
  /\ \E issueOf \in [WorkerId -> 1..MaxIssue], osOf \in [WorkerId -> OS] :
       /\ \A v, w \in WorkerId : issueOf[v] = issueOf[w] => v = w
       /\ PairedState(issueOf, osOf)
  /\ wup = [w \in WorkerId |-> TRUE]
  /\ polled = [w \in WorkerId |-> EmptyMap]
  /\ active = [w \in WorkerId |-> {}]
  /\ execs = EmptyMap
  /\ minted = {}
  /\ net = {}

-----------------------------------------------------------------------------
(* pollJobs.                                                                *)

Offered(w) == {j \in DOMAIN jobs : jobs[j].worker = w /\ jobs[j].status = "pending"}

\* The request: the coordinator's answer is a snapshot the worker then works
\* through.  An unknown worker is answered 401 and a coordinator that is down
\* not at all; pollJobs returns in both cases.
Poll(w) ==
  /\ wup[w] /\ up /\ w \in DOMAIN workers
  /\ polled[w] = EmptyMap
  /\ Offered(w) # {}
  /\ polled' = [polled EXCEPT ![w] = [j \in Offered(w) |-> jobs[j].task]]
  /\ UNCHANGED <<vars, wup, active, execs, minted, net>>

\* The next job of the snapshot is not in activeJobs: go executeJob(job).
\* activeJobs is unlocked again before the goroutine runs.
Spawn(w, j, a) ==
  /\ wup[w]
  /\ j \in DOMAIN polled[w] /\ j \notin active[w]
  /\ a \notin minted
  /\ minted' = minted \cup {a}
  /\ execs' = Put(execs, a, [worker |-> w, job |-> j, task |-> polled[w][j], pc |-> "spawned"])
  /\ polled' = [polled EXCEPT ![w] = Without(@, {j})]
  /\ UNCHANGED <<vars, wup, active, net>>

\* The next job of the snapshot is in activeJobs already.
Skip(w, j) ==
  /\ wup[w]
  /\ j \in DOMAIN polled[w] /\ j \in active[w]
  /\ polled' = [polled EXCEPT ![w] = Without(@, {j})]
  /\ UNCHANGED <<vars, wup, active, execs, minted, net>>

-----------------------------------------------------------------------------
(* executeJob.                                                              *)

At(a, pc) == a \in DOMAIN execs /\ execs[a].pc = pc
Goto(a, pc) == execs' = [execs EXCEPT ![a].pc = pc]

Update(a, status, result, large) ==
  [job |-> execs[a].job, attempt |-> a, status |-> status, result |-> result, large |-> large]

\* The call of updateJobStatus made by attempt a has returned: the request
\* was answered or failed, or the client's ten seconds are over while the
\* request is still on its way.
CallReturned(a) == "timeout" \in NetFaults \/ \A m \in net : m.attempt # a

\* Mutant: executeJob does not wait for the answer to "running".
AnnounceNoWait(a) ==
  /\ At(a, "spawned")
  /\ LET w == execs[a].worker IN
       active' = [active EXCEPT ![w] = @ \cup {execs[a].job}]
  /\ net' = net \cup {Update(a, "running", "none", FALSE)}
  /\ Goto(a, "executing")
  /\ UNCHANGED <<vars, wup, polled, minted>>

\* Registers the goroutine in activeJobs and sends "running".
Announce(a) ==
  /\ At(a, "spawned")
  /\ LET w == execs[a].worker IN
       active' = [active EXCEPT ![w] = @ \cup {execs[a].job}]
  /\ net' = net \cup {Update(a, "running", "none", FALSE)}
  /\ Goto(a, "announcing")
  /\ UNCHANGED <<vars, wup, polled, minted>>

Execute(a) ==
  /\ At(a, "announcing") /\ CallReturned(a)
  /\ Goto(a, "executing")
  /\ UNCHANGED <<vars, wup, polled, active, minted, net>>

\* How an execution can end: a test job hashes its challenge; a command exits
\* with zero or not, times out, or has no usable profile or workspace.
Outcome(task) ==
  IF task = "test" THEN {<<"completed", "hash">>}
                   ELSE {<<"completed", "other">>, <<"failed", "other">>}

\* The executor keeps up to 2000 lines of a command, of any length.
LogsLarge(task) == IF task # "test" /\ "largeLogs" \in NetFaults THEN BOOLEAN ELSE {FALSE}

\* Mutant: a command that cannot be run is given up without a report.
ConcludeUnreported(a) ==
  /\ At(a, "executing")
  /\ \/ \E o \in Outcome(execs[a].task), large \in LogsLarge(execs[a].task) :
          net' = net \cup {Update(a, o[1], o[2], large)}
     \/ execs[a].task # "test" /\ net' = net
  /\ Goto(a, "reporting")
  /\ UNCHANGED <<vars, wup, polled, active, minted>>

\* The job's own work is done and its outcome sent.
Conclude(a) ==
  /\ At(a, "executing")
  /\ \E o \in Outcome(execs[a].task), large \in LogsLarge(execs[a].task) :
       net' = net \cup {Update(a, o[1], o[2], large)}
  /\ Goto(a, "reporting")
  /\ UNCHANGED <<vars, wup, polled, active, minted>>

\* executeJob returns; its deferred function removes the job's key from
\* activeJobs, whichever goroutine's entry that is by now.
Return(a) ==
  /\ At(a, "reporting") /\ CallReturned(a)
  /\ LET w == execs[a].worker IN
       active' = [active EXCEPT ![w] = @ \ {execs[a].job}]
  /\ execs' = Without(execs, {a})
  /\ UNCHANGED <<vars, wup, polled, minted, net>>

-----------------------------------------------------------------------------
(* The network.                                                             *)

Accepted(m) ==
  /\ m.job \in DOMAIN jobs
  /\ jobs[m.job].worker \in DOMAIN workers
  /\ ~m.large
  /\ AttemptAccepted(jobs[m.job], m.attempt)

\* The coordinator handles an update; it may die doing so.
Deliver(m) ==
  /\ Accepted(m)
  /\ UpdateJob(m.job, m.attempt, m.status, m.result)
  /\ net' = net \ {m}
  /\ UNCHANGED <<wup, polled, active, execs, minted>>

\* The coordinator answers 404, 409, or 400 to a request that is too large.
Refuse(m) ==
  /\ up /\ ~Accepted(m)
  /\ net' = net \ {m}
  /\ UNCHANGED <<vars, wup, polled, active, execs, minted>>

\* The request never arrives: nobody listens, or the network loses it.
Lose(m) ==
  /\ ~up \/ "loss" \in NetFaults
  /\ net' = net \ {m}
  /\ UNCHANGED <<vars, wup, polled, active, execs, minted>>

-----------------------------------------------------------------------------
(* Worker processes.                                                        *)

\* sendHeartbeat.  (A 401 would end the process; see DurableAnswers.)
Beat(w) == wup[w] /\ Heartbeat(w) /\ UNCHANGED workerVars

\* Mutant: the goroutines are not part of the process.
WorkerCrashKeepsGoroutines(w) ==
  /\ "workerCrash" \in NetFaults
  /\ wup[w]
  /\ wup' = [wup EXCEPT ![w] = FALSE]
  /\ polled' = [polled EXCEPT ![w] = EmptyMap]
  /\ active' = [active EXCEPT ![w] = {}]
  /\ UNCHANGED <<vars, execs, minted, net>>

\* The process ends: goroutines and activeJobs are gone, sent updates are not.
WorkerCrash(w) ==
  /\ "workerCrash" \in NetFaults
  /\ wup[w]
  /\ wup' = [wup EXCEPT ![w] = FALSE]
  /\ polled' = [polled EXCEPT ![w] = EmptyMap]
  /\ active' = [active EXCEPT ![w] = {}]
  /\ execs' = Without(execs, {a \in DOMAIN execs : execs[a].worker = w})
  /\ UNCHANGED <<vars, minted, net>>

\* A new process finds the saved credentials (LoadCreds) and starts its loops.
WorkerRestart(w) ==
  /\ ~wup[w]
  /\ wup' = [wup EXCEPT ![w] = TRUE]
  /\ UNCHANGED <<vars, polled, active, execs, minted, net>>

-----------------------------------------------------------------------------
\* What the operator, the coordinator's own loop and its host do meanwhile.
CoordinatorStep ==
  /\ \/ Restart \/ Crash \/ Tick \/ CheckWorkerStatus
     \/ \E j \in JobId : CancelJob(j) \/ \E w \in WorkerId : TestJob(j, w)
     \/ \E T \in SUBSET Task :
          ManifestDispatched(T) \/ \E S \in SUBSET T : ManifestRefused(T, S)
  /\ UNCHANGED workerVars

ExecStep(a) == Announce(a) \/ Execute(a) \/ Conclude(a) \/ Return(a)

PollStep(w) ==
  Poll(w) \/ \E j \in JobId : Skip(w, j) \/ \E a \in Attempt : Spawn(w, j, a)

GridNext ==
  \/ CoordinatorStep
  \/ \E w \in WorkerId : PollStep(w) \/ Beat(w) \/ WorkerCrash(w) \/ WorkerRestart(w)
  \/ \E a \in Attempt : ExecStep(a)
  \/ \E m \in net : Deliver(m) \/ Refuse(m) \/ Lose(m)

GridSpec == GridInit /\ [][GridNext]_gridVars

\* The loops of a worker never end, the Go scheduler runs every goroutine, a
\* request that is not lost is served, and a stopped process is started again.
Fairness ==
  /\ \A w \in WorkerId : WF_gridVars(PollStep(w)) /\ WF_gridVars(WorkerRestart(w))
  /\ \A a \in Attempt : WF_gridVars(ExecStep(a))
  /\ WF_gridVars(\E m \in net : Deliver(m) \/ Refuse(m))
  /\ WF_gridVars(Restart /\ UNCHANGED workerVars)
  /\ WF_gridVars(CheckWorkerStatus /\ UNCHANGED workerVars)
  /\ WF_gridVars(Tick /\ UNCHANGED workerVars)

FairGridSpec == GridSpec /\ Fairness

-----------------------------------------------------------------------------
(* Properties.                                                              *)

Ended == {"completed", "failed", "cancelled"}

\* Every worker-side variable stays in its type, and no goroutine outlives its
\* process.
GridTypeOK ==
  /\ wup \in [WorkerId -> BOOLEAN]
  /\ polled \in [WorkerId -> Maps(JobId, Task \cup {"test"})]
  /\ active \in [WorkerId -> SUBSET JobId]
  /\ execs \in Maps(Attempt, [worker : WorkerId, job : JobId,
                              task : Task \cup {"test"}, pc : PC])
  /\ \A a \in DOMAIN execs : wup[execs[a].worker]
  /\ minted \subseteq Attempt
  /\ net \subseteq Message

\* Jobs of js that are owned and have ended are in ks, and have ended there.
EndKept(js, ks) ==
  \A j \in DOMAIN js :
    js[j].attempt # NoAttempt /\ js[j].status \in Ended =>
      j \in DOMAIN ks /\ ks[j].status \in Ended

\* A job that an attempt owns and that has ended never runs again: not for a
\* late or repeated update of any attempt, after a lost answer, or after a
\* crash of either side.  The coordinator has no guard for this; it follows
\* from the order in which an attempt sends its updates and from the conflict
\* check against every other attempt.
OwnedEndIsFinal ==
  [][ EndKept(disk.jobs, disk.jobs') /\ (up /\ up' => EndKept(jobs, jobs')) ]_gridVars

\* Without failures every job ends for good: the updates of two goroutines
\* started for one job, or a cancellation at any moment, never leave it
\* running.
JobsEnd == \A j \in JobId :
  j \in DOMAIN jobs ~> [](j \in DOMAIN jobs /\ jobs[j].status \in Ended)

\* The end of job j is still to come from attempt a: its goroutine has not sent
\* it, or the message is on its way, and the job belongs to a or to nobody.
EndToCome(j, a) ==
  /\ execs[a].job = j
  /\ jobs[j].attempt \in {NoAttempt, a}
  /\ At(a, "reporting") => \E m \in net : m.attempt = a

\* Without failures no job runs unattended, also one that two goroutines were
\* started for, or that was cancelled before or between their reports: the
\* coordinator may refuse a report only of a job whose end comes from another
\* attempt.  (What JobsEnd rests on besides fairness.)
RunningAttended ==
  \A j \in DOMAIN jobs : jobs[j].status = "running" =>
    \E a \in DOMAIN execs : EndToCome(j, a)

\* A job that was cancelled stays cancelled.
CancelIsFinal ==
  [][ \A j \in DOMAIN jobs : up /\ up' /\ jobs[j].status = "cancelled" =>
        jobs'[j].status = "cancelled" ]_gridVars

\* j runs for an attempt whose goroutine has died with its worker, or gave up
\* on its reports, and nothing of which is on its way any more.
Orphaned(j) ==
  /\ up /\ j \in DOMAIN jobs /\ jobs[j].status = "running"
  /\ jobs[j].attempt \in minted \ DOMAIN execs
  /\ \A m \in net : m.attempt # jobs[j].attempt

\* A job whose worker died in the middle of it is not left running for ever once
\* the coordinator has noticed (checkWorkerStatus): it is ended or queued again.
OrphansSettled ==
  \A j \in JobId :
    Orphaned(j) /\ workers[jobs[j].worker].status = "offline" ~> ~Orphaned(j)

-----------------------------------------------------------------------------
(* The abstract view.                                                       *)

\* The jobs in memory while the coordinator serves, those in the files while
\* it does not.
Board == IF up THEN jobs ELSE disk.jobs

\* Where j stands when the jobs are js and the ids have been drawn.
Phase(js, ids, j) ==
  IF j \notin DOMAIN js THEN IF j \in ids THEN "lost" ELSE "absent"
  ELSE IF js[j].attempt # NoAttempt
         THEN IF js[j].status \in Ended THEN "done" ELSE "owned"
         ELSE IF js[j].status = "pending" THEN "waiting" ELSE "stray"

View(js, ids) ==
  [j \in JobId |-> [phase |-> Phase(js, ids, j),
                    owner |-> IF j \in DOMAIN js THEN js[j].attempt ELSE NoAttempt]]

Lifecycle == INSTANCE JobLifecycle WITH
  life <- View(Board, drawn.jobs), kept <- DOMAIN seen.acked

\* Whatever is lost, late or killed, every job goes through the life that
\* JobLifecycle allows: one owner at most, one end, and nothing a client was
\* told about is taken back.  (Save must not fail.)
JobsRefine == Lifecycle!Spec
=============================================================================
