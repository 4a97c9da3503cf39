---------------------------- MODULE Coordinator ----------------------------
(***************************************************************************)
(* The ForgeGrid coordinator: the HTTP handlers of internal/coordinator,   *)
(* the JSON store behind them (internal/store) and the manifest dispatcher *)
(* (internal/director).                                                    *)
(*                                                                         *)
(* Every handler holds Store.Mu from its first read to the end of Save, so *)
(* one request is one step.  What is not atomic is Save: it renames        *)
(* coordinator.json, workers.json and jobs.json one after the other, stops *)
(* at the first error, and no handler looks at the error it returns.  A    *)
(* step therefore has three outcomes: all files are written, a prefix of   *)
(* them is written and the handler answers all the same, or the process    *)
(* dies with a prefix of them written and nobody is answered.              *)
(*                                                                         *)
(* A Go map is a function whose DOMAIN is the set of present keys.         *)
(***************************************************************************)
EXTENDS Integers

CONSTANTS
  WorkerId,      \* the ids handlePair can draw
  JobId,         \* the ids handleTestJob and SubmitManifest can draw
  Attempt,       \* the attempt ids workers make up
  NoAttempt,     \* the empty AttemptID
  Code,          \* six-digit pairing codes
  NoCode,        \* the empty PairingCode
  OS,            \* operating systems a worker can report
  AnyOS,         \* the empty requirements.os of a manifest task
  Task,          \* manifest tasks
  TaskOS,        \* requirements.os of a task
  MaxFailures,   \* wrong codes tolerated: 5 in handlePair
  PairingTTL,    \* lifetime of a code: 5 minutes
  OfflineAfter,  \* silence after which a worker is offline: 15 seconds
  Faults,        \* which failures the environment may inject
  MaxNow,        \* bound on the clock
  MaxIssue,      \* bound on the codes generated
  MaxCert        \* bound on the certificates generated

ASSUME ConstantsAssumption ==
  /\ NoAttempt \notin Attempt
  /\ NoCode \notin Code
  /\ AnyOS \notin OS
  /\ TaskOS \in [Task -> OS \cup {AnyOS}]
  /\ "test" \notin Task
  /\ MaxFailures \in Nat
  /\ PairingTTL \in Nat
  /\ OfflineAfter \in Nat
  /\ Faults \subseteq {"crash", "saveError"}
  /\ MaxNow \in Nat
  /\ MaxIssue \in Nat
  /\ MaxCert \in Nat

VARIABLES
  up,       \* the coordinator process is serving
  cfg,      \* Store.CoordinatorCfg
  workers,  \* Store.Workers
  jobs,     \* Store.Jobs
  disk,     \* the three files of the data directory
  now,      \* the clock
  drawn,    \* what the random sources have produced so far
  seen      \* ghost: what clients have been answered

vars == <<up, cfg, workers, jobs, disk, now, drawn, seen>>
memory == <<up, cfg, workers, jobs>>

-----------------------------------------------------------------------------
(* Types.  "issue" fields are ghosts: they number the generated codes, so   *)
(* that two codes with equal digits are told apart.  "author" is the ghost  *)
(* attempt whose update wrote the result.  Log lines, timestamps of jobs    *)
(* and hardware figures nobody reads are left out.                          *)

Status == {"pending", "running", "completed", "failed", "cancelled"}

\* A result string is empty, the SHA-256 of the job's challenge, the
\* coordinator's verdict on a challenge, or any other text.
Result == {"none", "hash", "success", "rejected", "other"}

CoordinatorState ==
  [code : Code \cup {NoCode}, issue : 0..MaxIssue,
   expiry : 0..(MaxNow + PairingTTL), failures : 0..(MaxFailures + 1),
   cert : 0..MaxCert]

WorkerState ==
  [os : OS, lastSeen : 0..MaxNow, status : {"online", "offline"},
   issue : 1..MaxIssue]

Job ==
  [worker : WorkerId, task : Task \cup {"test"}, status : Status,
   attempt : Attempt \cup {NoAttempt}, result : Result,
   author : Attempt \cup {NoAttempt}]

\* The Go maps with keys in D and values in R
Maps(D, R) == UNION {[K -> R] : K \in SUBSET D}

\* f[k] = v, and f[k] = g[k] for every k of g
Put(f, k, v) == [x \in DOMAIN f \cup {k} |-> IF x = k THEN v ELSE f[x]]
Merge(f, g) ==
  [x \in DOMAIN f \cup DOMAIN g |-> IF x \in DOMAIN g THEN g[x] ELSE f[x]]

EmptyMap == [x \in {} |-> x]
EmptyCfg == [code |-> NoCode, issue |-> 0, expiry |-> 0, failures |-> 0, cert |-> 0]

\* The updates the handler is sent: one of the statuses a worker uses, with a
\* result or without.  (executeJob itself sends "running" without one and a final
\* status with one; the handler does not look at that.)
Report == {"running", "completed", "failed", "cancelled"} \X {"none", "hash", "other"}

-----------------------------------------------------------------------------
(* Saving and dying.                                                        *)

\* Mutant: workers.json is written before coordinator.json.
SavedWorkersFirst(k, c, ws, js) ==
  [cfg     |-> IF k >= 2 THEN c  ELSE disk.cfg,
   workers |-> IF k >= 1 THEN ws ELSE disk.workers,
   jobs    |-> IF k >= 3 THEN js ELSE disk.jobs]

\* Mutant: jobs.json is written before workers.json.
SavedJobsFirst(k, c, ws, js) ==
  [cfg     |-> IF k >= 1 THEN c  ELSE disk.cfg,
   workers |-> IF k >= 3 THEN ws ELSE disk.workers,
   jobs    |-> IF k >= 2 THEN js ELSE disk.jobs]

\* The data directory once Save has renamed its first k files.
Saved(k, c, ws, js) ==
  [cfg     |-> IF k >= 1 THEN c  ELSE disk.cfg,
   workers |-> IF k >= 2 THEN ws ELSE disk.workers,
   jobs    |-> IF k >= 3 THEN js ELSE disk.jobs]

\* The handler finishes: memory is updated, Save got as far as it could, and
\* the client sees s.
Answer(c, ws, js, s) ==
  /\ up' = TRUE /\ cfg' = c /\ workers' = ws /\ jobs' = js /\ seen' = s
  /\ \E k \in IF "saveError" \in Faults THEN 0..3 ELSE {3} :
       disk' = Saved(k, c, ws, js)

\* The process dies inside Save: memory is gone and nobody is answered.
Die(c, ws, js) ==
  /\ "crash" \in Faults
  /\ up' = FALSE /\ cfg' = EmptyCfg /\ workers' = EmptyMap /\ jobs' = EmptyMap
  /\ \E k \in 0..3 : disk' = Saved(k, c, ws, js)
  /\ UNCHANGED seen

Commit(c, ws, js, s) == Answer(c, ws, js, s) \/ Die(c, ws, js)

-----------------------------------------------------------------------------
(* Starting: store.NewStore loads what files there are, Coordinator.Start   *)
(* makes a certificate when none was loaded.                                *)

Init ==
  /\ up = FALSE
  /\ cfg = EmptyCfg /\ workers = EmptyMap /\ jobs = EmptyMap
  /\ disk = [cfg |-> EmptyCfg, workers |-> EmptyMap, jobs |-> EmptyMap]
  /\ now = 0
  /\ drawn = [workers |-> {}, jobs |-> {}, issues |-> 0, certs |-> 0]
  /\ seen = [told |-> EmptyMap, acked |-> EmptyMap, wrong |-> [i \in 1..MaxIssue |-> 0]]

\* Mutant: a certificate is made on every start.
StartFreshAlways ==
  /\ ~up
  /\ drawn.certs < MaxCert
  /\ drawn' = [drawn EXCEPT !.certs = @ + 1]
  /\ Commit([disk.cfg EXCEPT !.cert = drawn.certs + 1], disk.workers, disk.jobs, seen)
  /\ UNCHANGED now

StartFresh ==
  /\ ~up
  /\ disk.cfg.cert = 0
  /\ drawn.certs < MaxCert
  /\ drawn' = [drawn EXCEPT !.certs = @ + 1]
  /\ Commit([disk.cfg EXCEPT !.cert = drawn.certs + 1], disk.workers, disk.jobs, seen)
  /\ UNCHANGED now

\* Mutant: a restart offers the running jobs again.
RestartRequeue ==
  /\ ~up
  /\ disk.cfg.cert # 0
  /\ up' = TRUE
  /\ cfg' = disk.cfg /\ workers' = disk.workers
  /\ jobs' = [j \in DOMAIN disk.jobs |->
                IF disk.jobs[j].status = "running"
                  THEN [disk.jobs[j] EXCEPT !.status = "pending", !.attempt = NoAttempt]
                  ELSE disk.jobs[j]]
  /\ UNCHANGED <<disk, now, drawn, seen>>

Restart ==
  /\ ~up
  /\ disk.cfg.cert # 0
  /\ up' = TRUE
  /\ cfg' = disk.cfg /\ workers' = disk.workers /\ jobs' = disk.jobs
  /\ UNCHANGED <<disk, now, drawn, seen>>

-----------------------------------------------------------------------------
(* Pairing.                                                                 *)

\* Mutant: the count of wrong codes outlives the code.
GenerateCodeKeepsCount(code) ==
  /\ up
  /\ drawn.issues < MaxIssue
  /\ drawn' = [drawn EXCEPT !.issues = @ + 1]
  /\ Commit([cfg EXCEPT !.code = code, !.issue = drawn.issues + 1,
                        !.expiry = now + PairingTTL],
            workers, jobs, seen)
  /\ UNCHANGED now

\* handleGenerateCode: a new code replaces the old one and clears the count.
GenerateCode(code) ==
  /\ up
  /\ drawn.issues < MaxIssue
  /\ drawn' = [drawn EXCEPT !.issues = @ + 1]
  /\ Commit([cfg EXCEPT !.code = code, !.issue = drawn.issues + 1,
                        !.expiry = now + PairingTTL, !.failures = 0],
            workers, jobs, seen)
  /\ UNCHANGED now

\* Mutant: one failure more is tolerated.
PairingOpenOneMore == cfg.failures <= MaxFailures + 1

\* handlePair answers RATE_LIMIT without a change once this is false.
PairingOpen == cfg.failures <= MaxFailures

CodeAccepted(code) ==
  cfg.code # NoCode /\ cfg.code = code /\ now <= cfg.expiry

\* Ghost: one more wrong guess answered against the current code.
CountWrong(code) ==
  IF cfg.code # NoCode /\ code # cfg.code
    THEN [seen EXCEPT !.wrong[cfg.issue] = @ + 1] ELSE seen

\* Mutant: the failure is counted in memory only.
PairRejectedUnsaved(code) ==
  /\ up /\ PairingOpen
  /\ ~CodeAccepted(code)
  /\ cfg' = [cfg EXCEPT !.failures = @ + 1]
  /\ seen' = CountWrong(code)
  /\ UNCHANGED <<up, workers, jobs, disk, now, drawn>>

\* handlePair with an unknown, used or expired code.
PairRejected(code) ==
  /\ up /\ PairingOpen
  /\ ~CodeAccepted(code)
  /\ Commit([cfg EXCEPT !.failures = @ + 1], workers, jobs, CountWrong(code))
  /\ UNCHANGED <<now, drawn>>

\* Mutant: the worker is recorded in memory only.
PairUnsaved(w, code, os) ==
  /\ up /\ PairingOpen
  /\ CodeAccepted(code)
  /\ w \notin drawn.workers
  /\ drawn' = [drawn EXCEPT !.workers = @ \cup {w}]
  /\ cfg' = [cfg EXCEPT !.code = NoCode, !.failures = 0]
  /\ workers' = Put(workers, w, [os |-> os, lastSeen |-> now,
                                 status |-> "online", issue |-> cfg.issue])
  /\ seen' = [seen EXCEPT !.told = Put(@, w, cfg.cert)]
  /\ UNCHANGED <<up, jobs, disk, now>>

\* handlePair with the right code: the code is spent and the worker recorded
\* before the id and token go out.  The worker pins the certificate it
\* paired under.
Pair(w, code, os) ==
  /\ up /\ PairingOpen
  /\ CodeAccepted(code)
  /\ w \notin drawn.workers
  /\ drawn' = [drawn EXCEPT !.workers = @ \cup {w}]
  /\ Commit([cfg EXCEPT !.code = NoCode, !.failures = 0],
            Put(workers, w, [os |-> os, lastSeen |-> now,
                             status |-> "online", issue |-> cfg.issue]),
            jobs,
            [seen EXCEPT !.told = Put(@, w, cfg.cert)])
  /\ UNCHANGED now

-----------------------------------------------------------------------------
(* Worker presence.                                                         *)

\* handleHeartbeat of a worker the store knows (any other is answered 401).
Heartbeat(w) ==
  /\ up
  /\ w \in DOMAIN workers
  /\ Commit(cfg, [workers EXCEPT ![w].lastSeen = now, ![w].status = "online"], jobs, seen)
  /\ UNCHANGED <<now, drawn>>

Silent(w) == workers[w].status = "online" /\ now - workers[w].lastSeen > OfflineAfter

\* One round of the checkWorkerStatus loop that finds something to change.
CheckWorkerStatus ==
  /\ up
  /\ \E w \in DOMAIN workers : Silent(w)
  /\ Commit(cfg,
            [w \in DOMAIN workers |->
               IF Silent(w) THEN [workers[w] EXCEPT !.status = "offline"] ELSE workers[w]],
            jobs, seen)
  /\ UNCHANGED <<now, drawn>>

-----------------------------------------------------------------------------
(* Creating jobs.                                                           *)

NewJob(w, task) ==
  [worker |-> w, task |-> task, status |-> "pending", attempt |-> NoAttempt,
   result |-> "none", author |-> NoAttempt]

\* Ghost: the attempts of jobs js as the client has now been told.
Told(js) == [seen EXCEPT !.acked = Merge(@, [j \in DOMAIN js |-> js[j].attempt])]

\* handleTestJob: only the worker's existence is checked, not its status.
TestJob(j, w) ==
  /\ up
  /\ w \in DOMAIN workers
  /\ j \notin drawn.jobs
  /\ drawn' = [drawn EXCEPT !.jobs = @ \cup {j}]
  /\ LET new == Put(EmptyMap, j, NewJob(w, "test"))
     IN Commit(cfg, workers, Merge(jobs, new), Told(new))
  /\ UNCHANGED now

\* SubmitManifest wants a worker that is online and has the operating system;
\* the memory and the cores a task asks for are compared with nothing.
Eligible(w, t) ==
  /\ workers[w].status = "online"
  /\ TaskOS[t] = AnyOS \/ workers[w].os = TaskOS[t]

Dispatchable(t) == \E w \in DOMAIN workers : Eligible(w, t)

\* The jobs made when the ids ids go to tasks by task and to workers by home.
Dispatched(ids, task, home) == [j \in ids |-> NewJob(home[j], task[j])]

\* ids name the tasks T one to one and every job has an eligible home.
Assignment(ids, T, task, home) ==
  /\ {task[j] : j \in ids} = T
  /\ \A i, j \in ids : task[i] = task[j] => i = j
  /\ \A j \in ids : Eligible(home[j], task[j])

\* SubmitManifest of the tasks T when each finds a worker.
ManifestDispatched(T) ==
  /\ up
  /\ T # {} /\ \A t \in T : Dispatchable(t)
  /\ \E ids \in SUBSET (JobId \ drawn.jobs) :
     \E task \in [ids -> T], home \in [ids -> DOMAIN workers] :
       /\ Assignment(ids, T, task, home)
       /\ drawn' = [drawn EXCEPT !.jobs = @ \cup ids]
       /\ LET new == Dispatched(ids, task, home)
          IN Commit(cfg, workers, Merge(jobs, new), Told(new))
  /\ UNCHANGED now

\* SubmitManifest when some task finds none: the tasks S the map iteration
\* met first are already in Store.Jobs, and it returns before Save.
ManifestRefused(T, S) ==
  /\ up
  /\ S \subseteq T /\ \A t \in S : Dispatchable(t)
  /\ \E t \in T \ S : ~Dispatchable(t)
  /\ \E ids \in SUBSET (JobId \ drawn.jobs) :
     \E task \in [ids -> S], home \in [ids -> DOMAIN workers] :
       /\ Assignment(ids, S, task, home)
       /\ drawn' = [drawn EXCEPT !.jobs = @ \cup ids]
       /\ jobs' = Merge(jobs, Dispatched(ids, task, home))
  /\ UNCHANGED <<up, cfg, workers, disk, now, seen>>

-----------------------------------------------------------------------------
(* handleJobAction.                                                         *)

\* POST /api/jobs/{id}/cancel, whatever the job's status.
CancelJob(j) ==
  /\ up
  /\ j \in DOMAIN jobs
  /\ LET js == [jobs EXCEPT ![j].status = "cancelled"]
     IN Commit(cfg, workers, js, Told([i \in {j} |-> js[i]]))
  /\ UNCHANGED <<now, drawn>>

\* Mutant: no conflict check.
AttemptAcceptedAlways(job, a) == TRUE

\* Mutant: "running" claims a job in any status.
ClaimedAnyStatus(job, a, status) ==
  IF status = "running" /\ job.attempt = NoAttempt THEN a ELSE job.attempt

\* A set AttemptID must be matched; an unset one admits every attempt.
AttemptAccepted(job, a) == job.attempt = NoAttempt \/ job.attempt = a

\* The attempt of a job is fixed by the update that takes it from pending to
\* running.
Claimed(job, a, status) ==
  IF job.status = "pending" /\ status = "running" /\ job.attempt = NoAttempt
    THEN a ELSE job.attempt

\* The challenge of a test job is verified when the update says "completed" and
\* has a result; see Updated.
WrongAnswer(job, status, result) ==
  job.task = "test" /\ status = "completed" /\ result # "hash"

StoredResult(job, status, result) ==
  IF job.task = "test" /\ status = "completed"
    THEN IF result = "hash" THEN "success" ELSE "rejected"
    ELSE result

Updated(job, a, status, result) ==
  IF result = "none"
    THEN [job EXCEPT !.attempt = Claimed(job, a, status), !.status = status]
    ELSE [job EXCEPT !.attempt = Claimed(job, a, status),
                     !.status  = IF WrongAnswer(job, status, result) THEN "failed" ELSE status,
                     !.result  = StoredResult(job, status, result),
                     !.author  = a]

\* Mutant: a status update is not saved.
UpdateJobUnsaved(j, a, status, result) ==
  /\ up
  /\ j \in DOMAIN jobs
  /\ jobs[j].worker \in DOMAIN workers
  /\ AttemptAccepted(jobs[j], a)
  /\ LET js == [jobs EXCEPT ![j] = Updated(jobs[j], a, status, result)]
     IN jobs' = js /\ seen' = Told([i \in {j} |-> js[i]])
  /\ UNCHANGED <<up, cfg, workers, disk, now, drawn>>

\* A status update by the job's own worker (any other is answered 401, an
\* attempt that is not accepted 409).
UpdateJob(j, a, status, result) ==
  /\ up
  /\ j \in DOMAIN jobs
  /\ jobs[j].worker \in DOMAIN workers
  /\ AttemptAccepted(jobs[j], a)
  /\ LET js == [jobs EXCEPT ![j] = Updated(jobs[j], a, status, result)]
     IN Commit(cfg, workers, js, Told([i \in {j} |-> js[i]]))
  /\ UNCHANGED <<now, drawn>>

-----------------------------------------------------------------------------
(* The environment.                                                         *)

Tick ==
  /\ now < MaxNow
  /\ now' = now + 1
  /\ UNCHANGED <<up, cfg, workers, jobs, disk, drawn, seen>>

\* The process is stopped between two requests.
Crash ==
  /\ up /\ "crash" \in Faults
  /\ up' = FALSE /\ cfg' = EmptyCfg /\ workers' = EmptyMap /\ jobs' = EmptyMap
  /\ UNCHANGED <<disk, now, drawn, seen>>

Next ==
  \/ StartFresh \/ Restart \/ Tick \/ Crash \/ CheckWorkerStatus
  \/ \E code \in Code :
       \/ GenerateCode(code) \/ PairRejected(code)
       \/ \E w \in WorkerId, os \in OS : Pair(w, code, os)
  \/ \E w \in WorkerId : Heartbeat(w) \/ \E j \in JobId : TestJob(j, w)
  \/ \E T \in SUBSET Task :
       ManifestDispatched(T) \/ \E S \in SUBSET T : ManifestRefused(T, S)
  \/ \E j \in JobId :
       CancelJob(j) \/ \E a \in Attempt, r \in Report : UpdateJob(j, a, r[1], r[2])

Spec == Init /\ [][Next]_vars

-----------------------------------------------------------------------------
(* Properties.                                                              *)

\* Every variable stays in its type; in particular PairingFailures never
\* passes MaxFailures + 1, where handlePair stops counting.
TypeOK ==
  /\ up \in BOOLEAN
  /\ cfg \in CoordinatorState
  /\ workers \in Maps(WorkerId, WorkerState)
  /\ jobs \in Maps(JobId, Job)
  /\ disk \in [cfg : CoordinatorState, workers : Maps(WorkerId, WorkerState),
               jobs : Maps(JobId, Job)]
  /\ now \in 0..MaxNow
  /\ drawn \in [workers : SUBSET WorkerId, jobs : SUBSET JobId,
                issues : 0..MaxIssue, certs : 0..MaxCert]
  /\ seen \in [told : Maps(WorkerId, 0..MaxCert),
               acked : Maps(JobId, Attempt \cup {NoAttempt}),
               wrong : [1..MaxIssue -> Nat]]

\* Every job names a worker of the same store.
RefersTo(js, ws) == \A j \in DOMAIN js : js[j].worker \in DOMAIN ws

\* A job never outlives its worker, in memory or in the files, wherever Save
\* stops and whenever the process is restarted from what it wrote.  (A job of
\* an unknown worker can be neither listed nor updated by anyone.)
RefInt == RefersTo(jobs, workers) /\ RefersTo(disk.jobs, disk.workers)

OneWorkerPerIssue(ws) ==
  \A v, w \in DOMAIN ws : ws[v].issue = ws[w].issue => v = w

\* A pairing code admits at most one worker the coordinator knows, although
\* the spent code and the new worker reach two files and the process may die,
\* or Save give up, between them.
CodeSingleUse == OneWorkerPerIssue(workers) /\ OneWorkerPerIssue(disk.workers)

\* No code is tried, with an answer, more than MaxFailures + 1 times in vain,
\* however often the process is restarted in between.  (Save must not fail:
\* then the count is as durable as the answer.)
GuessBound == \A i \in 1..MaxIssue : seen.wrong[i] <= MaxFailures + 1

\* What was answered is on disk: a worker that was given an id and a token, a
\* job that was acknowledged, and the attempt that was told it owns a job.
DurableAnswers ==
  /\ DOMAIN seen.told \subseteq DOMAIN disk.workers
  /\ \A j \in DOMAIN seen.acked :
       /\ j \in DOMAIN disk.jobs
       /\ seen.acked[j] # NoAttempt => disk.jobs[j].attempt = seen.acked[j]

\* The certificate a worker pinned when it paired is the one every later
\* coordinator process serves.
PinnedCertificate ==
  up => \A w \in DOMAIN seen.told : seen.told[w] = cfg.cert

\* Attempts fixed in js are fixed in ks.
AttemptsKept(js, ks) ==
  \A j \in DOMAIN js : js[j].attempt # NoAttempt =>
     j \in DOMAIN ks /\ ks[j].attempt = js[j].attempt

\* No step changes the attempt that owns a job: not in the files, whatever
\* fails, and not in memory while the process lives.
AttemptStable ==
  [][ /\ AttemptsKept(disk.jobs, disk.jobs')
      /\ up /\ up' => AttemptsKept(jobs, jobs') ]_vars

WrittenByOwner(js) ==
  \A j \in DOMAIN js :
    /\ js[j].status = "pending" => js[j].attempt = NoAttempt /\ js[j].result = "none"
    /\ js[j].attempt # NoAttempt /\ js[j].result # "none" => js[j].author = js[j].attempt

\* Once a job is owned, its result was written by its owner, even when updates
\* of other attempts arrived before the claim; and a pending job is offered
\* to workers without an owner or a result.
ResultFromOwner == WrittenByOwner(jobs) /\ WrittenByOwner(disk.jobs)
=============================================================================
