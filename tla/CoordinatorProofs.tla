------------------------- MODULE CoordinatorProofs -------------------------
(***************************************************************************)
(* Proofs about Coordinator: type correctness, and that the safety         *)
(* properties of the store and of its jobs hold for any number of workers, *)
(* jobs, attempts and codes, wherever Save stops and whenever the process  *)
(* dies.                                                                   *)
(***************************************************************************)
EXTENDS Coordinator, TLAPS

-----------------------------------------------------------------------------
(* Go maps.                                                                 *)

\* A map is known by its keys and values.
LEMMA MapsDef ==
  ASSUME NEW D, NEW R, NEW f
  PROVE  f \in Maps(D, R) <=> DOMAIN f \subseteq D /\ f \in [DOMAIN f -> R]
<1>1. ASSUME f \in Maps(D, R)
      PROVE  DOMAIN f \subseteq D /\ f \in [DOMAIN f -> R]
  <2>1. PICK K \in SUBSET D : f \in [K -> R]
    BY <1>1 DEF Maps
  <2> QED
    BY <2>1
<1>2. ASSUME DOMAIN f \subseteq D, f \in [DOMAIN f -> R]
      PROVE  f \in Maps(D, R)
  BY <1>2 DEF Maps
<1> QED
  BY <1>1, <1>2

\* The empty map has every map type and no key.
LEMMA EmptyMapType ==
  ASSUME NEW D, NEW R
  PROVE  EmptyMap \in Maps(D, R) /\ DOMAIN EmptyMap = {}
BY MapsDef DEF EmptyMap

\* Assignment to a key of a map.
LEMMA PutType ==
  ASSUME NEW D, NEW R, NEW f \in Maps(D, R), NEW k \in D, NEW v \in R
  PROVE  Put(f, k, v) \in Maps(D, R)
<1>1. DOMAIN f \subseteq D /\ f \in [DOMAIN f -> R]
  BY MapsDef
<1>2. /\ DOMAIN Put(f, k, v) = DOMAIN f \cup {k}
      /\ Put(f, k, v) \in [DOMAIN f \cup {k} -> R]
  BY <1>1 DEF Put
<1> QED
  BY <1>1, <1>2, MapsDef

\* Assignment of all keys of another map.
LEMMA MergeType ==
  ASSUME NEW D, NEW R, NEW f \in Maps(D, R), NEW g \in Maps(D, R)
  PROVE  Merge(f, g) \in Maps(D, R)
<1>1. /\ DOMAIN f \subseteq D /\ f \in [DOMAIN f -> R]
      /\ DOMAIN g \subseteq D /\ g \in [DOMAIN g -> R]
  BY MapsDef
<1>2. /\ DOMAIN Merge(f, g) = DOMAIN f \cup DOMAIN g
      /\ Merge(f, g) \in [DOMAIN f \cup DOMAIN g -> R]
  BY <1>1 DEF Merge
<1> QED
  BY <1>1, <1>2, MapsDef

\* Replacing the value of a present key.
LEMMA ReplaceType ==
  ASSUME NEW D, NEW R, NEW f \in Maps(D, R), NEW k, NEW v \in R
  PROVE  [f EXCEPT ![k] = v] \in Maps(D, R)
<1>1. DOMAIN f \subseteq D /\ f \in [DOMAIN f -> R]
  BY MapsDef
<1>2. /\ DOMAIN [f EXCEPT ![k] = v] = DOMAIN f
      /\ [f EXCEPT ![k] = v] \in [DOMAIN f -> R]
  BY <1>1
<1> QED
  BY <1>1, <1>2, MapsDef

-----------------------------------------------------------------------------
(* Type correctness.  A worker remembers the number of the code it paired  *)
(* with, so the invariant that carries TypeOK also says that a code that   *)
(* is set has a number.                                                    *)

SeenType ==
  [told : Maps(WorkerId, 0..MaxCert), acked : Maps(JobId, Attempt \cup {NoAttempt}),
   wrong : [1..MaxIssue -> Nat]]

Numbered(c) == c.code # NoCode => c.issue \in 1..MaxIssue

TypeInv == TypeOK /\ Numbered(cfg) /\ Numbered(disk.cfg)

\* Saving well-typed data, wherever Save stops, keeps the types of all that
\* Save and the answer touch.
LEMMA CommitType ==
  ASSUME TypeInv,
         NEW c \in CoordinatorState, Numbered(c),
         NEW ws \in Maps(WorkerId, WorkerState),
         NEW js \in Maps(JobId, Job),
         NEW s \in SeenType,
         Commit(c, ws, js, s)
  PROVE  /\ up' \in BOOLEAN
         /\ cfg' \in CoordinatorState
         /\ workers' \in Maps(WorkerId, WorkerState)
         /\ jobs' \in Maps(JobId, Job)
         /\ disk' \in [cfg : CoordinatorState, workers : Maps(WorkerId, WorkerState),
                       jobs : Maps(JobId, Job)]
         /\ seen' \in SeenType
         /\ Numbered(cfg') /\ Numbered(disk'.cfg)
<1>1. EmptyCfg \in CoordinatorState /\ Numbered(EmptyCfg)
  BY ConstantsAssumption DEF EmptyCfg, CoordinatorState, Numbered
<1>2. /\ EmptyMap \in Maps(WorkerId, WorkerState)
      /\ EmptyMap \in Maps(JobId, Job)
  BY EmptyMapType
<1>3. seen \in SeenType
  BY DEF TypeInv, TypeOK, SeenType
<1>4. PICK k \in 0..3 : disk' = Saved(k, c, ws, js)
  BY DEF Commit, Answer, Die
<1>5. /\ disk' \in [cfg : CoordinatorState, workers : Maps(WorkerId, WorkerState),
                    jobs : Maps(JobId, Job)]
      /\ Numbered(disk'.cfg)
  BY <1>4 DEF Saved, TypeInv, TypeOK, Numbered
<1>6. CASE Answer(c, ws, js, s)
  BY <1>5, <1>6 DEF Answer
<1>7. CASE Die(c, ws, js)
  BY <1>1, <1>2, <1>3, <1>5, <1>7 DEF Die
<1> QED
  BY <1>6, <1>7 DEF Commit

\* Telling clients about well-typed jobs.
LEMMA ToldType ==
  ASSUME TypeInv, NEW js \in Maps(JobId, Job)
  PROVE  Told(js) \in SeenType
<1> DEFINE at == [j \in DOMAIN js |-> js[j].attempt]
<1>1. DOMAIN js \subseteq JobId /\ js \in [DOMAIN js -> Job]
  BY MapsDef
<1>2. DOMAIN at \subseteq JobId /\ at \in [DOMAIN at -> Attempt \cup {NoAttempt}]
  BY <1>1 DEF Job
<1>3. at \in Maps(JobId, Attempt \cup {NoAttempt})
  <2> HIDE DEF at
  <2> QED
    BY <1>2, MapsDef
<1>4. seen \in SeenType
  BY DEF TypeInv, TypeOK, SeenType
<1>5. Merge(seen.acked, at) \in Maps(JobId, Attempt \cup {NoAttempt})
  BY <1>3, <1>4, MergeType DEF SeenType
<1> QED
  BY <1>4, <1>5 DEF Told, SeenType

\* Jobs made by SubmitManifest.
LEMMA DispatchedType ==
  ASSUME TypeInv, NEW ids \in SUBSET JobId, NEW T \in SUBSET Task,
         NEW task \in [ids -> T], NEW home \in [ids -> DOMAIN workers]
  PROVE  Dispatched(ids, task, home) \in Maps(JobId, Job)
<1>1. DOMAIN workers \subseteq WorkerId
  BY MapsDef DEF TypeInv, TypeOK
<1>2. \A j \in ids : NewJob(home[j], task[j]) \in Job
  BY <1>1 DEF NewJob, Job, Status, Result
<1>3. /\ DOMAIN Dispatched(ids, task, home) = ids
      /\ Dispatched(ids, task, home) \in [ids -> Job]
  BY <1>2 DEF Dispatched
<1> QED
  BY <1>3, MapsDef

\* A status update of a well-typed job.
LEMMA UpdatedType ==
  ASSUME NEW job \in Job, NEW a \in Attempt, NEW r \in Report
  PROVE  Updated(job, a, r[1], r[2]) \in Job
<1>1. r[1] \in Status /\ r[2] \in Result
  BY DEF Report, Status, Result
<1>2. Claimed(job, a, r[1]) \in Attempt \cup {NoAttempt}
  BY DEF Claimed, Job
<1>3. StoredResult(job, r[1], r[2]) \in Result
  BY <1>1 DEF StoredResult, Result
<1>4. "failed" \in Status
  BY DEF Status
<1> QED
  BY <1>1, <1>2, <1>3, <1>4 DEF Updated, Job

LEMMA TypeInit == Init => TypeInv
<1> SUFFICES ASSUME Init PROVE TypeInv
  OBVIOUS
<1>1. EmptyCfg \in CoordinatorState /\ Numbered(EmptyCfg)
  BY ConstantsAssumption DEF EmptyCfg, CoordinatorState, Numbered
<1>2. /\ EmptyMap \in Maps(WorkerId, WorkerState) /\ EmptyMap \in Maps(JobId, Job)
      /\ EmptyMap \in Maps(WorkerId, 0..MaxCert)
      /\ EmptyMap \in Maps(JobId, Attempt \cup {NoAttempt})
  BY EmptyMapType
<1>3. /\ up \in BOOLEAN /\ now \in 0..MaxNow
      /\ drawn \in [workers : SUBSET WorkerId, jobs : SUBSET JobId,
                    issues : 0..MaxIssue, certs : 0..MaxCert]
  <2>1. 0 \in 0..MaxNow /\ 0 \in 0..MaxIssue /\ 0 \in 0..MaxCert
    BY ConstantsAssumption
  <2>2. up \in BOOLEAN
    BY Zenon DEF Init
  <2> QED
    BY <2>1, <2>2 DEF Init
<1>4. seen \in SeenType
  <2>1. [i \in 1..MaxIssue |-> 0] \in [1..MaxIssue -> Nat]
    OBVIOUS
  <2> QED
    BY <1>2, <2>1 DEF Init, SeenType
<1>5. /\ disk \in [cfg : CoordinatorState, workers : Maps(WorkerId, WorkerState),
                   jobs : Maps(JobId, Job)]
      /\ disk.cfg = EmptyCfg
  BY <1>1, <1>2 DEF Init
<1>6. /\ cfg \in CoordinatorState /\ Numbered(cfg) /\ Numbered(disk.cfg)
      /\ workers \in Maps(WorkerId, WorkerState) /\ jobs \in Maps(JobId, Job)
  BY <1>1, <1>2, <1>5 DEF Init
<1> QED
  BY <1>3, <1>4, <1>5, <1>6 DEF TypeInv, TypeOK, SeenType

LEMMA TypeStep == TypeInv /\ [Next]_vars => TypeInv'
<1> SUFFICES ASSUME TypeInv, [Next]_vars PROVE TypeInv'
  OBVIOUS
<1> USE ConstantsAssumption
<1>a. /\ cfg \in CoordinatorState /\ Numbered(cfg)
      /\ workers \in Maps(WorkerId, WorkerState) /\ jobs \in Maps(JobId, Job)
      /\ DOMAIN workers \subseteq WorkerId /\ workers \in [DOMAIN workers -> WorkerState]
      /\ DOMAIN jobs \subseteq JobId /\ jobs \in [DOMAIN jobs -> Job]
      /\ disk.cfg \in CoordinatorState /\ Numbered(disk.cfg)
      /\ disk.workers \in Maps(WorkerId, WorkerState) /\ disk.jobs \in Maps(JobId, Job)
      /\ seen \in SeenType
  BY MapsDef DEF TypeInv, TypeOK, SeenType
<1>b. /\ now \in 0..MaxNow
      /\ drawn \in [workers : SUBSET WorkerId, jobs : SUBSET JobId,
                    issues : 0..MaxIssue, certs : 0..MaxCert]
  BY DEF TypeInv, TypeOK
\* A committing step is well typed when what it commits, the clock and the
\* random sources are.
<1>c. ASSUME NEW c \in CoordinatorState, Numbered(c),
             NEW ws \in Maps(WorkerId, WorkerState), NEW js \in Maps(JobId, Job),
             NEW s \in SeenType, Commit(c, ws, js, s),
             now' \in 0..MaxNow,
             drawn' \in [workers : SUBSET WorkerId, jobs : SUBSET JobId,
                         issues : 0..MaxIssue, certs : 0..MaxCert]
      PROVE  TypeInv'
  BY <1>c, CommitType DEF TypeInv, TypeOK, SeenType, Numbered
<1>1. CASE StartFresh
  <2> DEFINE c == [disk.cfg EXCEPT !.cert = drawn.certs + 1]
  <2>1. c \in CoordinatorState /\ Numbered(c)
    BY <1>1, <1>a, <1>b DEF StartFresh, CoordinatorState, Numbered
  <2>2. /\ drawn' \in [workers : SUBSET WorkerId, jobs : SUBSET JobId,
                       issues : 0..MaxIssue, certs : 0..MaxCert]
        /\ now' \in 0..MaxNow
    BY <1>1, <1>b DEF StartFresh
  <2>3. Commit(c, disk.workers, disk.jobs, seen)
    BY <1>1 DEF StartFresh
  <2> HIDE DEF c
  <2> QED
    BY <1>a, <1>c, <2>1, <2>2, <2>3
<1>2. CASE Restart
  BY <1>2, <1>a, <1>b DEF Restart, TypeInv, TypeOK, Numbered
<1>3. CASE Tick
  BY <1>3, <1>b DEF Tick, TypeInv, TypeOK, Numbered
<1>4. CASE Crash
  <2>1. EmptyCfg \in CoordinatorState /\ Numbered(EmptyCfg)
    BY DEF EmptyCfg, CoordinatorState, Numbered
  <2>2. EmptyMap \in Maps(WorkerId, WorkerState) /\ EmptyMap \in Maps(JobId, Job)
    BY EmptyMapType
  <2> QED
    BY <1>4, <2>1, <2>2 DEF Crash, TypeInv, TypeOK, Numbered
<1>5. CASE CheckWorkerStatus
  <2> DEFINE ws == [w \in DOMAIN workers |->
               IF Silent(w) THEN [workers[w] EXCEPT !.status = "offline"] ELSE workers[w]]
  <2>1. DOMAIN ws \subseteq WorkerId /\ ws \in [DOMAIN ws -> WorkerState]
    BY <1>a DEF WorkerState
  <2>2. Commit(cfg, ws, jobs, seen) /\ now' = now /\ drawn' = drawn
    BY <1>5 DEF CheckWorkerStatus
  <2> HIDE DEF ws
  <2>3. ws \in Maps(WorkerId, WorkerState)
    BY <2>1, MapsDef
  <2> QED
    BY <1>a, <1>b, <1>c, <2>2, <2>3
<1>6. ASSUME NEW code \in Code, GenerateCode(code) PROVE TypeInv'
  <2> DEFINE c == [cfg EXCEPT !.code = code, !.issue = drawn.issues + 1,
                              !.expiry = now + PairingTTL, !.failures = 0]
  <2>1. c \in CoordinatorState /\ Numbered(c)
    <3>1. /\ drawn.issues + 1 \in 1..MaxIssue /\ drawn.issues + 1 \in 0..MaxIssue
          /\ now + PairingTTL \in 0..(MaxNow + PairingTTL)
          /\ 0 \in 0..(MaxFailures + 1)
      BY <1>6, <1>b DEF GenerateCode
    <3>2. c \in CoordinatorState /\ c.issue = drawn.issues + 1
      BY <3>1, <1>a DEF CoordinatorState
    <3> QED
      BY <3>1, <3>2 DEF Numbered
  <2>2. /\ drawn' \in [workers : SUBSET WorkerId, jobs : SUBSET JobId,
                       issues : 0..MaxIssue, certs : 0..MaxCert]
        /\ now' \in 0..MaxNow
    BY <1>6, <1>b DEF GenerateCode
  <2>3. Commit(c, workers, jobs, seen)
    BY <1>6 DEF GenerateCode
  <2> HIDE DEF c
  <2> QED
    BY <1>a, <1>c, <2>1, <2>2, <2>3
<1>7. ASSUME NEW code \in Code, PairRejected(code) PROVE TypeInv'
  <2> DEFINE c == [cfg EXCEPT !.failures = @ + 1]
  <2>1. c \in CoordinatorState /\ Numbered(c)
    BY <1>7, <1>a DEF PairRejected, PairingOpen, CoordinatorState, Numbered
  <2>2. CountWrong(code) \in SeenType
    <3>1. [seen.wrong EXCEPT ![cfg.issue] = @ + 1] \in [1..MaxIssue -> Nat]
      <4>1. seen.wrong \in [1..MaxIssue -> Nat]
        BY <1>a DEF SeenType
      <4>2. CASE cfg.issue \in 1..MaxIssue
        BY <4>1, <4>2
      <4>3. CASE cfg.issue \notin 1..MaxIssue
        <5>1. [seen.wrong EXCEPT ![cfg.issue] = @ + 1] = seen.wrong
          BY <4>1, <4>3
        <5> QED
          BY <4>1, <5>1
      <4> QED
        BY <4>2, <4>3
    <3> QED
      BY <3>1, <1>a DEF CountWrong, SeenType
  <2>3. Commit(c, workers, jobs, CountWrong(code)) /\ now' = now /\ drawn' = drawn
    BY <1>7 DEF PairRejected
  <2> HIDE DEF c
  <2> QED
    BY <1>a, <1>b, <1>c, <2>1, <2>2, <2>3
<1>8. ASSUME NEW code \in Code, NEW w \in WorkerId, NEW os \in OS,
             Pair(w, code, os)
      PROVE  TypeInv'
  <2> DEFINE c == [cfg EXCEPT !.code = NoCode, !.failures = 0]
             new == [os |-> os, lastSeen |-> now,
                     status |-> "online", issue |-> cfg.issue]
             ws == Put(workers, w, new)
             s == [seen EXCEPT !.told = Put(@, w, cfg.cert)]
  <2>1. c \in CoordinatorState /\ Numbered(c)
    <3>1. 0 \in 0..(MaxFailures + 1)
      OBVIOUS
    <3>2. c \in CoordinatorState /\ c.code = NoCode
      BY <3>1, <1>a DEF CoordinatorState
    <3> QED
      BY <3>2 DEF Numbered
  <2>2. new \in WorkerState
    BY <1>8, <1>a, <1>b DEF Pair, CodeAccepted, Numbered, WorkerState
  <2>3. s \in SeenType
    <3>1. Put(seen.told, w, cfg.cert) \in Maps(WorkerId, 0..MaxCert)
      BY <1>a, PutType DEF SeenType, CoordinatorState
    <3> QED
      BY <3>1, <1>a DEF SeenType
  <2>4. /\ drawn' \in [workers : SUBSET WorkerId, jobs : SUBSET JobId,
                       issues : 0..MaxIssue, certs : 0..MaxCert]
        /\ now' \in 0..MaxNow
    BY <1>8, <1>b DEF Pair
  <2>5. Commit(c, ws, jobs, s)
    BY <1>8 DEF Pair
  <2> HIDE DEF c, new, s
  <2>6. ws \in Maps(WorkerId, WorkerState)
    BY <1>a, <2>2, PutType
  <2> HIDE DEF ws
  <2> QED
    BY <1>a, <1>c, <2>1, <2>3, <2>4, <2>5, <2>6
<1>9. ASSUME NEW w \in WorkerId, Heartbeat(w) PROVE TypeInv'
  <2> DEFINE ws == [workers EXCEPT ![w].lastSeen = now, ![w].status = "online"]
  <2>1. DOMAIN ws \subseteq WorkerId /\ ws \in [DOMAIN ws -> WorkerState]
    BY <1>9, <1>a, <1>b DEF Heartbeat, WorkerState
  <2>2. Commit(cfg, ws, jobs, seen) /\ now' = now /\ drawn' = drawn
    BY <1>9 DEF Heartbeat
  <2> HIDE DEF ws
  <2>3. ws \in Maps(WorkerId, WorkerState)
    BY <2>1, MapsDef
  <2> QED
    BY <1>a, <1>b, <1>c, <2>2, <2>3
<1>10. ASSUME NEW w \in WorkerId, NEW j \in JobId, TestJob(j, w) PROVE TypeInv'
  <2> DEFINE new == Put(EmptyMap, j, NewJob(w, "test"))
  <2>1. NewJob(w, "test") \in Job
    BY DEF NewJob, Job, Status, Result
  <2>2. new \in Maps(JobId, Job)
    BY <2>1, EmptyMapType, PutType
  <2>3. /\ drawn' \in [workers : SUBSET WorkerId, jobs : SUBSET JobId,
                       issues : 0..MaxIssue, certs : 0..MaxCert]
        /\ now' \in 0..MaxNow
    BY <1>10, <1>b DEF TestJob
  <2>4. Commit(cfg, workers, Merge(jobs, new), Told(new))
    BY <1>10 DEF TestJob
  <2> HIDE DEF new
  <2>5. Merge(jobs, new) \in Maps(JobId, Job) /\ Told(new) \in SeenType
    BY <1>a, <2>2, MergeType, ToldType
  <2> QED
    BY <1>a, <1>c, <2>3, <2>4, <2>5
<1>11. ASSUME NEW T \in SUBSET Task, ManifestDispatched(T) PROVE TypeInv'
  <2>1. PICK ids \in SUBSET (JobId \ drawn.jobs) :
        \E task \in [ids -> T], home \in [ids -> DOMAIN workers] :
          /\ drawn' = [drawn EXCEPT !.jobs = @ \cup ids]
          /\ Commit(cfg, workers, Merge(jobs, Dispatched(ids, task, home)),
                    Told(Dispatched(ids, task, home)))
    BY <1>11 DEF ManifestDispatched
  <2>2. PICK task \in [ids -> T], home \in [ids -> DOMAIN workers] :
          /\ drawn' = [drawn EXCEPT !.jobs = @ \cup ids]
          /\ Commit(cfg, workers, Merge(jobs, Dispatched(ids, task, home)),
                    Told(Dispatched(ids, task, home)))
    BY <2>1
  <2>3. Dispatched(ids, task, home) \in Maps(JobId, Job)
    BY DispatchedType
  <2>4. /\ Merge(jobs, Dispatched(ids, task, home)) \in Maps(JobId, Job)
        /\ Told(Dispatched(ids, task, home)) \in SeenType
    BY <1>a, <2>3, MergeType, ToldType
  <2>5. /\ drawn' \in [workers : SUBSET WorkerId, jobs : SUBSET JobId,
                       issues : 0..MaxIssue, certs : 0..MaxCert]
        /\ now' \in 0..MaxNow
    BY <1>11, <2>2, <1>b DEF ManifestDispatched
  <2> QED
    BY <1>a, <1>c, <2>2, <2>4, <2>5
<1>12. ASSUME NEW T \in SUBSET Task, NEW S \in SUBSET T, ManifestRefused(T, S)
       PROVE  TypeInv'
  <2>1. PICK ids \in SUBSET (JobId \ drawn.jobs) :
        \E task \in [ids -> S], home \in [ids -> DOMAIN workers] :
          /\ drawn' = [drawn EXCEPT !.jobs = @ \cup ids]
          /\ jobs' = Merge(jobs, Dispatched(ids, task, home))
    BY <1>12 DEF ManifestRefused
  <2>2. PICK task \in [ids -> S], home \in [ids -> DOMAIN workers] :
          /\ drawn' = [drawn EXCEPT !.jobs = @ \cup ids]
          /\ jobs' = Merge(jobs, Dispatched(ids, task, home))
    BY <2>1
  <2>3. Dispatched(ids, task, home) \in Maps(JobId, Job)
    BY DispatchedType
  <2>4. jobs' \in Maps(JobId, Job)
    BY <1>a, <2>2, <2>3, MergeType
  <2> QED
    BY <1>12, <1>b, <2>2, <2>4 DEF ManifestRefused, TypeInv, TypeOK, Numbered
<1>13. ASSUME NEW j \in JobId, CancelJob(j) PROVE TypeInv'
  <2> DEFINE v == [jobs[j] EXCEPT !.status = "cancelled"]
             js == [jobs EXCEPT ![j] = v]
             new == [i \in {j} |-> js[i]]
  <2>1. v \in Job
    BY <1>13, <1>a DEF CancelJob, Job, Status
  <2>2. Commit(cfg, workers, js, Told(new)) /\ now' = now /\ drawn' = drawn
    BY <1>13 DEF CancelJob
  <2> HIDE DEF v
  <2>3. js \in Maps(JobId, Job)
    BY <1>a, <2>1, ReplaceType
  <2>4. DOMAIN new \subseteq JobId /\ new \in [DOMAIN new -> Job]
    BY <1>13, <1>a, <2>1 DEF CancelJob
  <2> HIDE DEF new, js
  <2>5. Told(new) \in SeenType
    BY <2>4, MapsDef, ToldType
  <2> QED
    BY <1>a, <1>b, <1>c, <2>2, <2>3, <2>5
<1>14. ASSUME NEW j \in JobId, NEW a \in Attempt, NEW r \in Report,
              UpdateJob(j, a, r[1], r[2])
       PROVE  TypeInv'
  <2> DEFINE v == Updated(jobs[j], a, r[1], r[2])
             js == [jobs EXCEPT ![j] = v]
             new == [i \in {j} |-> js[i]]
  <2>1. v \in Job
    BY <1>14, <1>a, UpdatedType DEF UpdateJob
  <2>2. Commit(cfg, workers, js, Told(new)) /\ now' = now /\ drawn' = drawn
    BY <1>14 DEF UpdateJob
  <2> HIDE DEF v
  <2>3. js \in Maps(JobId, Job)
    BY <1>a, <2>1, ReplaceType
  <2>4. DOMAIN new \subseteq JobId /\ new \in [DOMAIN new -> Job]
    BY <1>14, <1>a, <2>1 DEF UpdateJob
  <2> HIDE DEF new, js
  <2>5. Told(new) \in SeenType
    BY <2>4, MapsDef, ToldType
  <2> QED
    BY <1>a, <1>b, <1>c, <2>2, <2>3, <2>5
<1>15. CASE UNCHANGED vars
  BY <1>15 DEF vars, TypeInv, TypeOK, Numbered
<1> QED
  BY <1>1, <1>2, <1>3, <1>4, <1>5, <1>6, <1>7, <1>8, <1>9, <1>10, <1>11, <1>12,
     <1>13, <1>14, <1>15 DEF Next

\* Every reachable state of the coordinator is well typed; in particular the
\* failure count never passes MaxFailures + 1, and a code that is set has a
\* number.
THEOREM TypeCorrect == Spec => []TypeInv
<1> QED
  BY TypeInit, TypeStep, PTL DEF Spec

\* TypeOK is an invariant.
THEOREM TypeSafety == Spec => []TypeOK
<1>1. TypeInv => TypeOK
  BY DEF TypeInv
<1> QED
  BY <1>1, TypeCorrect, PTL

-----------------------------------------------------------------------------
(* The store.  Neither RefInt nor CodeSingleUse is inductive: a crash       *)
(* brings back whatever Save had written, so the same must hold of the      *)
(* files, and of every mixture of old and new files Save can leave behind.  *)
(* Two facts make the mixtures harmless.  The files never know a worker or  *)
(* an owner that memory does not know, so new configuration next to old     *)
(* workers, and new workers next to old jobs, still fit together; and the   *)
(* number of a code that is still valid belongs to no worker.               *)

\* No worker of ws was admitted by the code that is valid in c.
CodeUnused(c, ws) == c.code # NoCode => \A w \in DOMAIN ws : ws[w].issue # c.issue

\* Everything in a store was drawn from the random sources before.
Within(c, ws, js, d) ==
  /\ c.issue <= d.issues
  /\ \A w \in DOMAIN ws : ws[w].issue <= d.issues
  /\ DOMAIN ws \subseteq d.workers
  /\ DOMAIN js \subseteq d.jobs

Coherent(c, ws, js) ==
  CodeUnused(c, ws) /\ OneWorkerPerIssue(ws) /\ RefersTo(js, ws)

\* ws knows all workers of vs, with the codes they used.
WorkersKept(vs, ws) ==
  DOMAIN vs \subseteq DOMAIN ws /\ \A w \in DOMAIN vs : ws[w].issue = vs[w].issue

StoreInv ==
  /\ Coherent(cfg, workers, jobs)
  /\ Within(cfg, workers, jobs, drawn)
  /\ Coherent(disk.cfg, disk.workers, disk.jobs)
  /\ Within(disk.cfg, disk.workers, disk.jobs, drawn)
  /\ up => WorkersKept(disk.workers, workers) /\ AttemptsKept(disk.jobs, jobs)

\* The step form of AttemptStable.
AttemptsKeptNow ==
  /\ AttemptsKept(disk.jobs, disk.jobs')
  /\ up /\ up' => AttemptsKept(jobs, jobs')

\* A handler that commits coherent data which forgets nothing the files know
\* leaves a coherent store behind, wherever Save stops and whether or not the
\* process survives.
LEMMA CommitStore ==
  ASSUME StoreInv,
         NEW c, NEW ws, NEW js, NEW s,
         Coherent(c, ws, js),
         Within(c, ws, js, drawn'),
         Within(disk.cfg, disk.workers, disk.jobs, drawn'),
         0 <= drawn'.issues,
         WorkersKept(disk.workers, ws), AttemptsKept(disk.jobs, js),
         up => AttemptsKept(jobs, js),
         Commit(c, ws, js, s)
  PROVE  StoreInv' /\ AttemptsKeptNow
<1>1. PICK k \in 0..3 : disk' = Saved(k, c, ws, js)
  BY DEF Commit, Answer, Die
<1>2. /\ CodeUnused(c, disk.workers)
      /\ RefersTo(disk.jobs, ws)
  BY DEF Coherent, CodeUnused, RefersTo, WorkersKept, StoreInv
<1>3. \/ disk'.cfg = disk.cfg /\ disk'.workers = disk.workers /\ disk'.jobs = disk.jobs
      \/ disk'.cfg = c /\ disk'.workers = disk.workers /\ disk'.jobs = disk.jobs
      \/ disk'.cfg = c /\ disk'.workers = ws /\ disk'.jobs = disk.jobs
      \/ disk'.cfg = c /\ disk'.workers = ws /\ disk'.jobs = js
  BY <1>1 DEF Saved
<1>4. Coherent(disk'.cfg, disk'.workers, disk'.jobs)
  BY <1>2, <1>3 DEF Coherent, StoreInv
<1>5. Within(disk'.cfg, disk'.workers, disk'.jobs, drawn')
  BY <1>3 DEF Within
<1>6. /\ WorkersKept(disk'.workers, ws)
      /\ AttemptsKept(disk'.jobs, js)
  BY <1>3 DEF WorkersKept, AttemptsKept
<1>7. AttemptsKept(disk.jobs, disk'.jobs)
  BY <1>3 DEF AttemptsKept
<1>8. CASE Answer(c, ws, js, s)
  BY <1>4, <1>5, <1>6, <1>7, <1>8 DEF Answer, StoreInv, AttemptsKeptNow
<1>9. CASE Die(c, ws, js)
  <2>1. ~up' /\ cfg' = EmptyCfg /\ workers' = EmptyMap /\ jobs' = EmptyMap
    BY <1>9 DEF Die
  <2>2. DOMAIN EmptyMap = {}
    BY DEF EmptyMap
  <2>3. Coherent(cfg', workers', jobs') /\ Within(cfg', workers', jobs', drawn')
    BY <2>1, <2>2 DEF Coherent, CodeUnused, OneWorkerPerIssue, RefersTo, Within, EmptyCfg
  <2> QED
    BY <1>4, <1>5, <1>7, <2>1, <2>3 DEF StoreInv, AttemptsKeptNow
<1> QED
  BY <1>8, <1>9 DEF Commit

\* The same for a serving coordinator, told by what the handler adds to
\* memory: no worker and no owner is forgotten.
LEMMA CommitServing ==
  ASSUME StoreInv, up,
         NEW c, NEW ws, NEW js, NEW s,
         Coherent(c, ws, js),
         Within(c, ws, js, drawn'),
         Within(disk.cfg, disk.workers, disk.jobs, drawn'),
         0 <= drawn'.issues,
         WorkersKept(workers, ws), AttemptsKept(jobs, js),
         Commit(c, ws, js, s)
  PROVE  StoreInv' /\ AttemptsKeptNow
<1>1. WorkersKept(disk.workers, ws)
  BY DEF StoreInv, WorkersKept
<1>2. AttemptsKept(disk.jobs, js)
  BY DEF StoreInv, AttemptsKept
<1> QED
  BY <1>1, <1>2, CommitStore

\* Jobs with fresh ids and known workers, merged into Store.Jobs, leave every
\* job there alone.
LEMMA MergeJobs ==
  ASSUME StoreInv, NEW new,
         \A j \in DOMAIN new : j \notin drawn.jobs /\ new[j].worker \in DOMAIN workers
  PROVE  /\ AttemptsKept(jobs, Merge(jobs, new))
         /\ RefersTo(Merge(jobs, new), workers)
         /\ DOMAIN Merge(jobs, new) = DOMAIN jobs \cup DOMAIN new
<1>1. DOMAIN Merge(jobs, new) = DOMAIN jobs \cup DOMAIN new
  BY DEF Merge
<1>2. \A j \in DOMAIN jobs : j \notin DOMAIN new /\ Merge(jobs, new)[j] = jobs[j]
  BY <1>1 DEF Merge, StoreInv, Within
<1>3. \A j \in DOMAIN new : Merge(jobs, new)[j] = new[j]
  BY <1>1 DEF Merge
<1> QED
  BY <1>1, <1>2, <1>3 DEF AttemptsKept, RefersTo, StoreInv, Coherent

\* A job replaced by one of the same worker that keeps its owner.
LEMMA ReplaceJob ==
  ASSUME TypeInv, StoreInv, NEW j \in DOMAIN jobs, NEW v,
         v.worker = jobs[j].worker,
         jobs[j].attempt # NoAttempt => v.attempt = jobs[j].attempt
  PROVE  /\ AttemptsKept(jobs, [jobs EXCEPT ![j] = v])
         /\ RefersTo([jobs EXCEPT ![j] = v], workers)
         /\ DOMAIN [jobs EXCEPT ![j] = v] = DOMAIN jobs
<1>1. jobs \in [DOMAIN jobs -> Job]
  BY MapsDef DEF TypeInv, TypeOK
<1> QED
  BY <1>1 DEF AttemptsKept, RefersTo, StoreInv, Coherent

LEMMA StoreInit == Init => StoreInv
<1> SUFFICES ASSUME Init PROVE StoreInv
  OBVIOUS
<1>1. DOMAIN EmptyMap = {}
  BY DEF EmptyMap
<1> QED
  BY <1>1 DEF Init, EmptyCfg, StoreInv, Coherent, CodeUnused, OneWorkerPerIssue,
     RefersTo, Within, WorkersKept, AttemptsKept

LEMMA StoreStep == TypeInv /\ StoreInv /\ [Next]_vars => StoreInv' /\ AttemptsKeptNow
<1> SUFFICES ASSUME TypeInv, StoreInv, [Next]_vars PROVE StoreInv' /\ AttemptsKeptNow
  OBVIOUS
<1>a. /\ cfg \in CoordinatorState /\ disk.cfg \in CoordinatorState
      /\ cfg.issue \in Nat /\ disk.cfg.issue \in Nat
      /\ workers \in [DOMAIN workers -> WorkerState]
      /\ jobs \in [DOMAIN jobs -> Job]
      /\ disk.workers \in [DOMAIN disk.workers -> WorkerState]
      /\ drawn \in [workers : SUBSET WorkerId, jobs : SUBSET JobId,
                    issues : 0..MaxIssue, certs : 0..MaxCert]
      /\ drawn.issues \in Nat
  <2>1. /\ workers \in [DOMAIN workers -> WorkerState]
        /\ jobs \in [DOMAIN jobs -> Job]
        /\ disk.workers \in Maps(WorkerId, WorkerState)
        /\ disk.cfg \in CoordinatorState
    BY MapsDef DEF TypeInv, TypeOK
  <2>2. disk.workers \in [DOMAIN disk.workers -> WorkerState]
    BY <2>1, MapsDef
  <2>3. \A c \in CoordinatorState : c.issue \in Nat
    BY ConstantsAssumption DEF CoordinatorState
  <2> QED
    BY <2>1, <2>2, <2>3, ConstantsAssumption DEF TypeInv, TypeOK
<1>b. /\ \A w \in DOMAIN workers : workers[w].issue \in Nat
      /\ \A w \in DOMAIN disk.workers : disk.workers[w].issue \in Nat
  BY <1>a, ConstantsAssumption DEF WorkerState
<1>c. /\ WorkersKept(workers, workers) /\ AttemptsKept(jobs, jobs)
      /\ AttemptsKept(disk.jobs, disk.jobs)
  BY DEF WorkersKept, AttemptsKept
\* Drawing more from the random sources invalidates nothing.
<1>d. ASSUME drawn.issues <= drawn'.issues, drawn'.issues \in Nat,
             drawn.workers \subseteq drawn'.workers, drawn.jobs \subseteq drawn'.jobs
      PROVE  /\ Within(disk.cfg, disk.workers, disk.jobs, drawn')
             /\ Within(cfg, workers, jobs, drawn')
             /\ 0 <= drawn'.issues
  BY <1>a, <1>b, <1>d DEF StoreInv, Within
<1>1. CASE StartFresh
  <2> DEFINE c == [disk.cfg EXCEPT !.cert = drawn.certs + 1]
  <2>1. c.code = disk.cfg.code /\ c.issue = disk.cfg.issue
    BY <1>a DEF CoordinatorState
  <2>2. Commit(c, disk.workers, disk.jobs, seen) /\ ~up
    BY <1>1 DEF StartFresh
  <2>3. /\ drawn'.issues = drawn.issues /\ drawn'.workers = drawn.workers
        /\ drawn'.jobs = drawn.jobs
    BY <1>1, <1>a DEF StartFresh
  <2> HIDE DEF c
  <2>4. Within(disk.cfg, disk.workers, disk.jobs, drawn') /\ 0 <= drawn'.issues
    BY <1>a, <1>d, <2>3
  <2>5. /\ Coherent(c, disk.workers, disk.jobs)
        /\ Within(c, disk.workers, disk.jobs, drawn')
    BY <2>1, <2>4 DEF StoreInv, Coherent, CodeUnused, Within
  <2>6. WorkersKept(disk.workers, disk.workers) /\ AttemptsKept(disk.jobs, disk.jobs)
    BY DEF WorkersKept, AttemptsKept
  <2> QED
    BY <2>2, <2>4, <2>5, <2>6, CommitStore
<1>2. CASE Restart
  <2>1. WorkersKept(disk.workers, disk.workers)
    BY DEF WorkersKept
  <2> QED
    BY <1>2, <1>c, <2>1 DEF Restart, StoreInv, AttemptsKeptNow
<1>3. CASE Tick
  BY <1>3, <1>c DEF Tick, StoreInv, AttemptsKeptNow
<1>4. CASE Crash
  <2>1. DOMAIN EmptyMap = {}
    BY DEF EmptyMap
  <2>2. Coherent(EmptyCfg, EmptyMap, EmptyMap) /\ Within(EmptyCfg, EmptyMap, EmptyMap, drawn)
    BY <1>a, <2>1 DEF Coherent, CodeUnused, OneWorkerPerIssue, RefersTo, Within, EmptyCfg
  <2> QED
    BY <1>4, <1>c, <2>2 DEF Crash, StoreInv, AttemptsKeptNow
<1>5. CASE CheckWorkerStatus
  <2> DEFINE ws == [w \in DOMAIN workers |->
               IF Silent(w) THEN [workers[w] EXCEPT !.status = "offline"] ELSE workers[w]]
  <2>1. /\ DOMAIN ws = DOMAIN workers
        /\ \A w \in DOMAIN workers : ws[w].issue = workers[w].issue
    BY <1>a DEF WorkerState
  <2>2. up /\ Commit(cfg, ws, jobs, seen) /\ drawn' = drawn
    BY <1>5 DEF CheckWorkerStatus
  <2> HIDE DEF ws
  <2>3. /\ Coherent(cfg, ws, jobs) /\ WorkersKept(workers, ws)
        /\ Within(cfg, ws, jobs, drawn')
    BY <2>1, <2>2 DEF StoreInv, Coherent, CodeUnused, OneWorkerPerIssue, RefersTo,
       WorkersKept, Within
  <2> QED
    BY <1>a, <1>c, <1>d, <2>2, <2>3, CommitServing
<1>6. ASSUME NEW code \in Code, GenerateCode(code) PROVE StoreInv' /\ AttemptsKeptNow
  <2> DEFINE c == [cfg EXCEPT !.code = code, !.issue = drawn.issues + 1,
                              !.expiry = now + PairingTTL, !.failures = 0]
  <2>1. c.issue = drawn.issues + 1
    BY <1>a DEF CoordinatorState
  <2>2. up /\ Commit(c, workers, jobs, seen)
    BY <1>6 DEF GenerateCode
  <2>3. /\ drawn'.issues = drawn.issues + 1 /\ drawn'.workers = drawn.workers
        /\ drawn'.jobs = drawn.jobs
    BY <1>6, <1>a DEF GenerateCode
  <2> HIDE DEF c
  <2>4. Coherent(c, workers, jobs)
    BY <1>a, <1>b, <2>1 DEF StoreInv, Coherent, CodeUnused, Within
  <2>5. Within(c, workers, jobs, drawn')
    BY <1>a, <1>b, <2>1, <2>3 DEF StoreInv, Within
  <2>6. Within(disk.cfg, disk.workers, disk.jobs, drawn') /\ 0 <= drawn'.issues
    BY <1>a, <1>d, <2>3
  <2> QED
    BY <1>c, <2>2, <2>4, <2>5, <2>6, CommitServing
<1>7. ASSUME NEW code \in Code, PairRejected(code) PROVE StoreInv' /\ AttemptsKeptNow
  <2> DEFINE c == [cfg EXCEPT !.failures = @ + 1]
  <2>1. c.code = cfg.code /\ c.issue = cfg.issue
    BY <1>a DEF CoordinatorState
  <2>2. up /\ Commit(c, workers, jobs, CountWrong(code)) /\ drawn' = drawn
    BY <1>7 DEF PairRejected
  <2> HIDE DEF c
  <2>3. Coherent(c, workers, jobs) /\ Within(c, workers, jobs, drawn')
    BY <2>1, <2>2 DEF StoreInv, Coherent, CodeUnused, Within
  <2> QED
    BY <1>a, <1>c, <1>d, <2>2, <2>3, CommitServing
<1>8. ASSUME NEW code \in Code, NEW w \in WorkerId, NEW os \in OS,
             Pair(w, code, os)
      PROVE  StoreInv' /\ AttemptsKeptNow
  <2> DEFINE c == [cfg EXCEPT !.code = NoCode, !.failures = 0]
             new == [os |-> os, lastSeen |-> now,
                     status |-> "online", issue |-> cfg.issue]
             ws == Put(workers, w, new)
             s == [seen EXCEPT !.told = Put(@, w, cfg.cert)]
  <2>1. c.code = NoCode /\ c.issue = cfg.issue /\ new.issue = cfg.issue
    BY <1>a DEF CoordinatorState
  <2>2. up /\ Commit(c, ws, jobs, s)
    BY <1>8 DEF Pair
  <2>3. /\ drawn'.issues = drawn.issues /\ drawn'.workers = drawn.workers \cup {w}
        /\ drawn'.jobs = drawn.jobs
    BY <1>8, <1>a DEF Pair
  <2>4. w \notin DOMAIN workers
    BY <1>8 DEF Pair, StoreInv, Within
  <2>5. \A v \in DOMAIN workers : workers[v].issue # cfg.issue
    BY <1>8 DEF Pair, CodeAccepted, StoreInv, Coherent, CodeUnused
  <2> HIDE DEF c, new, s
  <2>6. /\ DOMAIN ws = DOMAIN workers \cup {w} /\ ws[w] = new
        /\ \A v \in DOMAIN workers : ws[v] = workers[v]
    BY <2>4 DEF Put
  <2> HIDE DEF ws
  <2>7. Coherent(c, ws, jobs)
    BY <2>1, <2>5, <2>6 DEF StoreInv, Coherent, CodeUnused, OneWorkerPerIssue, RefersTo
  <2>8. Within(c, ws, jobs, drawn')
    BY <2>1, <2>3, <2>6 DEF StoreInv, Within
  <2>9. WorkersKept(workers, ws)
    BY <2>6 DEF WorkersKept
  <2>10. Within(disk.cfg, disk.workers, disk.jobs, drawn') /\ 0 <= drawn'.issues
    BY <1>a, <1>d, <2>3
  <2> QED
    BY <1>c, <2>2, <2>7, <2>8, <2>9, <2>10, CommitServing
<1>9. ASSUME NEW w \in WorkerId, Heartbeat(w) PROVE StoreInv' /\ AttemptsKeptNow
  <2> DEFINE ws == [workers EXCEPT ![w].lastSeen = now, ![w].status = "online"]
  <2>1. /\ DOMAIN ws = DOMAIN workers
        /\ \A v \in DOMAIN workers : ws[v].issue = workers[v].issue
    BY <1>a DEF WorkerState
  <2>2. up /\ Commit(cfg, ws, jobs, seen) /\ drawn' = drawn
    BY <1>9 DEF Heartbeat
  <2> HIDE DEF ws
  <2>3. /\ Coherent(cfg, ws, jobs) /\ WorkersKept(workers, ws)
        /\ Within(cfg, ws, jobs, drawn')
    BY <2>1, <2>2 DEF StoreInv, Coherent, CodeUnused, OneWorkerPerIssue, RefersTo,
       WorkersKept, Within
  <2> QED
    BY <1>a, <1>c, <1>d, <2>2, <2>3, CommitServing
\* Creating jobs with fresh ids for known workers.
<1>e. ASSUME NEW new, NEW s, up, Commit(cfg, workers, Merge(jobs, new), s),
             \A j \in DOMAIN new : j \notin drawn.jobs /\ new[j].worker \in DOMAIN workers,
             drawn'.issues = drawn.issues, drawn'.workers = drawn.workers,
             drawn'.jobs = drawn.jobs \cup DOMAIN new
      PROVE  StoreInv' /\ AttemptsKeptNow
  <2>1. /\ AttemptsKept(jobs, Merge(jobs, new))
        /\ RefersTo(Merge(jobs, new), workers)
        /\ DOMAIN Merge(jobs, new) = DOMAIN jobs \cup DOMAIN new
    BY <1>e, MergeJobs
  <2>2. Coherent(cfg, workers, Merge(jobs, new))
    BY <2>1 DEF StoreInv, Coherent
  <2>3. Within(cfg, workers, Merge(jobs, new), drawn')
    BY <1>e, <2>1 DEF StoreInv, Within
  <2>4. Within(disk.cfg, disk.workers, disk.jobs, drawn') /\ 0 <= drawn'.issues
    BY <1>a, <1>d, <1>e
  <2> QED
    BY <1>c, <1>e, <2>1, <2>2, <2>3, <2>4, CommitServing
<1>10. ASSUME NEW w \in WorkerId, NEW j \in JobId, TestJob(j, w)
       PROVE  StoreInv' /\ AttemptsKeptNow
  <2> DEFINE new == Put(EmptyMap, j, NewJob(w, "test"))
  <2>1. DOMAIN new = {j} /\ new[j].worker = w
    BY DEF Put, EmptyMap, NewJob
  <2>2. /\ up /\ Commit(cfg, workers, Merge(jobs, new), Told(new))
        /\ w \in DOMAIN workers /\ j \notin drawn.jobs
    BY <1>10 DEF TestJob
  <2>3. /\ drawn'.issues = drawn.issues /\ drawn'.workers = drawn.workers
        /\ drawn'.jobs = drawn.jobs \cup {j}
    BY <1>10, <1>a DEF TestJob
  <2> HIDE DEF new
  <2> QED
    BY <1>e, <2>1, <2>2, <2>3
<1>11. ASSUME NEW T \in SUBSET Task, ManifestDispatched(T) PROVE StoreInv' /\ AttemptsKeptNow
  <2>1. PICK ids \in SUBSET (JobId \ drawn.jobs) :
        \E task \in [ids -> T], home \in [ids -> DOMAIN workers] :
          /\ drawn' = [drawn EXCEPT !.jobs = @ \cup ids]
          /\ Commit(cfg, workers, Merge(jobs, Dispatched(ids, task, home)),
                    Told(Dispatched(ids, task, home)))
    BY <1>11 DEF ManifestDispatched
  <2>2. PICK task \in [ids -> T], home \in [ids -> DOMAIN workers] :
          /\ drawn' = [drawn EXCEPT !.jobs = @ \cup ids]
          /\ Commit(cfg, workers, Merge(jobs, Dispatched(ids, task, home)),
                    Told(Dispatched(ids, task, home)))
    BY <2>1
  <2> DEFINE new == Dispatched(ids, task, home)
  <2>3. DOMAIN new = ids /\ \A j \in ids : new[j].worker \in DOMAIN workers
    BY DEF Dispatched, NewJob
  <2>4. /\ drawn'.issues = drawn.issues /\ drawn'.workers = drawn.workers
        /\ drawn'.jobs = drawn.jobs \cup ids
    BY <2>2, <1>a
  <2>5. up
    BY <1>11 DEF ManifestDispatched
  <2>6. Commit(cfg, workers, Merge(jobs, new), Told(new))
    BY <2>2
  <2> HIDE DEF new
  <2> QED
    BY <1>e, <2>3, <2>4, <2>5, <2>6
<1>12. ASSUME NEW T \in SUBSET Task, NEW S \in SUBSET T, ManifestRefused(T, S)
       PROVE  StoreInv' /\ AttemptsKeptNow
  <2>1. PICK ids \in SUBSET (JobId \ drawn.jobs) :
        \E task \in [ids -> S], home \in [ids -> DOMAIN workers] :
          /\ drawn' = [drawn EXCEPT !.jobs = @ \cup ids]
          /\ jobs' = Merge(jobs, Dispatched(ids, task, home))
    BY <1>12 DEF ManifestRefused
  <2>2. PICK task \in [ids -> S], home \in [ids -> DOMAIN workers] :
          /\ drawn' = [drawn EXCEPT !.jobs = @ \cup ids]
          /\ jobs' = Merge(jobs, Dispatched(ids, task, home))
    BY <2>1
  <2> DEFINE new == Dispatched(ids, task, home)
  <2>3. DOMAIN new = ids /\ \A j \in ids : new[j].worker \in DOMAIN workers
    BY DEF Dispatched, NewJob
  <2>4. /\ drawn'.issues = drawn.issues /\ drawn'.workers = drawn.workers
        /\ drawn'.jobs = drawn.jobs \cup ids
    BY <2>2, <1>a
  <2>5. up /\ up' = up /\ cfg' = cfg /\ workers' = workers /\ disk' = disk
    BY <1>12 DEF ManifestRefused
  <2>6. jobs' = Merge(jobs, new)
    BY <2>2
  <2> HIDE DEF new
  <2>7. /\ AttemptsKept(jobs, jobs') /\ RefersTo(jobs', workers)
        /\ DOMAIN jobs' = DOMAIN jobs \cup ids
    BY <2>3, <2>6, MergeJobs
  <2>8. /\ Within(disk.cfg, disk.workers, disk.jobs, drawn')
        /\ Within(cfg, workers, jobs, drawn')
    BY <1>a, <1>d, <2>4
  <2>9. Within(cfg, workers, jobs', drawn')
    BY <2>4, <2>7, <2>8 DEF Within
  <2>10. Coherent(cfg, workers, jobs')
    BY <2>7 DEF StoreInv, Coherent
  <2>11. AttemptsKept(disk.jobs, jobs')
    BY <2>5, <2>7 DEF StoreInv, AttemptsKept
  <2> QED
    BY <1>c, <2>5, <2>7, <2>8, <2>9, <2>10, <2>11 DEF StoreInv, AttemptsKeptNow
\* Replacing one job by a version with the same worker and owner.
<1>f. ASSUME NEW j \in DOMAIN jobs, NEW v, NEW s, up, drawn' = drawn,
             v.worker = jobs[j].worker,
             jobs[j].attempt # NoAttempt => v.attempt = jobs[j].attempt,
             Commit(cfg, workers, [jobs EXCEPT ![j] = v], s)
      PROVE  StoreInv' /\ AttemptsKeptNow
  <2> DEFINE js == [jobs EXCEPT ![j] = v]
  <2>1. /\ AttemptsKept(jobs, js) /\ RefersTo(js, workers) /\ DOMAIN js = DOMAIN jobs
    BY <1>f, ReplaceJob
  <2>2. Commit(cfg, workers, js, s)
    BY <1>f
  <2> HIDE DEF js
  <2>3. Coherent(cfg, workers, js) /\ Within(cfg, workers, js, drawn')
    BY <1>f, <2>1 DEF StoreInv, Coherent, Within
  <2> QED
    BY <1>a, <1>c, <1>d, <1>f, <2>1, <2>2, <2>3, CommitServing
<1>13. ASSUME NEW j \in JobId, CancelJob(j) PROVE StoreInv' /\ AttemptsKeptNow
  <2> DEFINE v == [jobs[j] EXCEPT !.status = "cancelled"]
             s == Told([i \in {j} |-> [jobs EXCEPT ![j] = v][i]])
  <2>1. j \in DOMAIN jobs /\ up /\ drawn' = drawn
    BY <1>13 DEF CancelJob
  <2>2. v.worker = jobs[j].worker /\ v.attempt = jobs[j].attempt
    BY <1>a, <2>1 DEF Job
  <2>3. Commit(cfg, workers, [jobs EXCEPT ![j] = v], s)
    BY <1>13 DEF CancelJob
  <2> HIDE DEF v, s
  <2> QED
    BY <1>f, <2>1, <2>2, <2>3
<1>14. ASSUME NEW j \in JobId, NEW a \in Attempt, NEW r \in Report,
              UpdateJob(j, a, r[1], r[2])
       PROVE  StoreInv' /\ AttemptsKeptNow
  <2> DEFINE v == Updated(jobs[j], a, r[1], r[2])
             s == Told([i \in {j} |-> [jobs EXCEPT ![j] = v][i]])
  <2>1. j \in DOMAIN jobs /\ up /\ drawn' = drawn
    BY <1>14 DEF UpdateJob
  <2>2. jobs[j] \in Job
    BY <1>a, <2>1
  <2>3. /\ v.worker = jobs[j].worker
        /\ jobs[j].attempt # NoAttempt => v.attempt = jobs[j].attempt
    BY <2>2 DEF Updated, Claimed, Job
  <2>4. Commit(cfg, workers, [jobs EXCEPT ![j] = v], s)
    BY <1>14 DEF UpdateJob
  <2> HIDE DEF v, s
  <2> QED
    BY <1>f, <2>1, <2>3, <2>4
<1>15. CASE UNCHANGED vars
  BY <1>15, <1>c DEF vars, StoreInv, AttemptsKeptNow
<1> QED
  BY <1>1, <1>2, <1>3, <1>4, <1>5, <1>6, <1>7, <1>8, <1>9, <1>10, <1>11, <1>12,
     <1>13, <1>14, <1>15 DEF Next

\* The store stays coherent: in memory, in the files, and across every crash.
THEOREM StoreCoherent == Spec => []StoreInv
<1>1. TypeInv /\ StoreInv /\ [Next]_vars => StoreInv'
  BY StoreStep
<1> QED
  BY <1>1, StoreInit, TypeCorrect, PTL DEF Spec

\* No job ever names a worker its store does not know.
THEOREM ReferentialIntegrity == Spec => []RefInt
<1>1. StoreInv => RefInt
  BY DEF StoreInv, Coherent, RefInt
<1> QED
  BY <1>1, StoreCoherent, PTL

\* No pairing code ever admits two workers the coordinator knows.
THEOREM SingleUse == Spec => []CodeSingleUse
<1>1. StoreInv => CodeSingleUse
  BY DEF StoreInv, Coherent, CodeSingleUse
<1> QED
  BY <1>1, StoreCoherent, PTL

\* No step moves a job to another attempt once one owns it.
THEOREM AttemptOwnership == Spec => AttemptStable
<1>1. TypeInv /\ StoreInv /\ [Next]_vars
        => [AttemptsKept(disk.jobs, disk.jobs')
            /\ (up /\ up' => AttemptsKept(jobs, jobs'))]_vars
  BY StoreStep DEF AttemptsKeptNow
<1> QED
  BY <1>1, StoreCoherent, TypeCorrect, PTL DEF Spec, AttemptStable

-----------------------------------------------------------------------------
(* The jobs.  Seen from them, the many handlers make few kinds of steps.    *)

\* Jobs no one has seen before, waiting for workers the store knows.
Fresh(new) ==
  \A j \in DOMAIN new :
    /\ j \in JobId /\ j \notin drawn.jobs
    /\ new[j].worker \in DOMAIN workers
    /\ new[j].status = "pending" /\ new[j].attempt = NoAttempt /\ new[j].result = "none"

\* A job after a cancellation, or after an update of an accepted attempt.
CancelledOf(job) == [job EXCEPT !.status = "cancelled"]

UpdateOf(job, v) ==
  \E a \in Attempt, r \in Report :
    AttemptAccepted(job, a) /\ v = Updated(job, a, r[1], r[2])

Changed(job, v) == v = CancelledOf(job) \/ UpdateOf(job, v)

NoJobStep == UNCHANGED <<up, jobs, disk, seen>> /\ drawn' = drawn

KeepJobs ==
  /\ up /\ drawn'.jobs = drawn.jobs
  /\ \E c, ws, s : s.acked = seen.acked /\ Commit(c, ws, jobs, s)

MakeJobs(new) ==
  /\ up /\ drawn'.jobs = drawn.jobs \cup DOMAIN new
  /\ Commit(cfg, workers, Merge(jobs, new), Told(new))

DraftJobs(new) ==
  /\ up /\ up' = up /\ drawn'.jobs = drawn.jobs \cup DOMAIN new
  /\ jobs' = Merge(jobs, new) /\ disk' = disk /\ seen' = seen

ChangeJob(j, v) ==
  /\ up /\ drawn' = drawn
  /\ Commit(cfg, workers, [jobs EXCEPT ![j] = v],
            Told([i \in {j} |-> [jobs EXCEPT ![j] = v][i]]))

JobStep ==
  \/ StartFresh \/ Restart \/ Crash \/ NoJobStep \/ KeepJobs
  \/ \E new : Fresh(new) /\ (MakeJobs(new) \/ DraftJobs(new))
  \/ \E j \in DOMAIN jobs : \E v : Changed(jobs[j], v) /\ ChangeJob(j, v)

\* Cancelling is a change of one job.
LEMMA CancelShape ==
  ASSUME NEW j, CancelJob(j)
  PROVE  j \in DOMAIN jobs /\ ChangeJob(j, CancelledOf(jobs[j]))
BY DEF CancelJob, ChangeJob, CancelledOf

\* So is an update.
LEMMA UpdateShape ==
  ASSUME NEW j, NEW a \in Attempt, NEW r \in Report, UpdateJob(j, a, r[1], r[2])
  PROVE  /\ j \in DOMAIN jobs /\ AttemptAccepted(jobs[j], a)
         /\ ChangeJob(j, Updated(jobs[j], a, r[1], r[2]))
BY DEF UpdateJob, ChangeJob

\* A job made by hand.
LEMMA TestShape ==
  ASSUME TypeInv, NEW j \in JobId, NEW w, TestJob(j, w)
  PROVE  \E new : Fresh(new) /\ MakeJobs(new)
<1> DEFINE new == Put(EmptyMap, j, NewJob(w, "test"))
<1>1. DOMAIN new = {j} /\ new[j] = NewJob(w, "test")
  BY DEF Put, EmptyMap
<1>2. Fresh(new)
  BY <1>1 DEF Fresh, TestJob, NewJob
<1>3. MakeJobs(new)
  BY <1>1 DEF TestJob, MakeJobs, TypeInv, TypeOK
<1> QED
  BY <1>2, <1>3

\* Jobs made by a manifest, saved or not.
LEMMA DispatchedFresh ==
  ASSUME NEW ids \in SUBSET (JobId \ drawn.jobs), NEW T,
         NEW task \in [ids -> T], NEW home \in [ids -> DOMAIN workers]
  PROVE  /\ Fresh(Dispatched(ids, task, home))
         /\ DOMAIN Dispatched(ids, task, home) = ids
BY DEF Dispatched, Fresh, NewJob

LEMMA DispatchShape ==
  ASSUME TypeInv, NEW T, ManifestDispatched(T)
  PROVE  \E new : Fresh(new) /\ MakeJobs(new)
<1>1. PICK ids \in SUBSET (JobId \ drawn.jobs) :
      \E task \in [ids -> T], home \in [ids -> DOMAIN workers] :
        /\ drawn' = [drawn EXCEPT !.jobs = @ \cup ids]
        /\ Commit(cfg, workers, Merge(jobs, Dispatched(ids, task, home)),
                  Told(Dispatched(ids, task, home)))
  BY DEF ManifestDispatched
<1>2. PICK task \in [ids -> T], home \in [ids -> DOMAIN workers] :
        /\ drawn' = [drawn EXCEPT !.jobs = @ \cup ids]
        /\ Commit(cfg, workers, Merge(jobs, Dispatched(ids, task, home)),
                  Told(Dispatched(ids, task, home)))
  BY <1>1
<1> DEFINE new == Dispatched(ids, task, home)
<1>3. Fresh(new) /\ DOMAIN new = ids
  BY DispatchedFresh
<1>4. MakeJobs(new)
  <2>1. up /\ drawn'.jobs = drawn.jobs \cup ids
    BY <1>2 DEF ManifestDispatched, TypeInv, TypeOK
  <2> QED
    BY <1>2, <1>3, <2>1 DEF MakeJobs
<1> QED
  BY <1>3, <1>4

LEMMA RefusedShape ==
  ASSUME TypeInv, NEW T, NEW S, ManifestRefused(T, S)
  PROVE  \E new : Fresh(new) /\ DraftJobs(new)
<1>1. PICK ids \in SUBSET (JobId \ drawn.jobs) :
      \E task \in [ids -> S], home \in [ids -> DOMAIN workers] :
        /\ drawn' = [drawn EXCEPT !.jobs = @ \cup ids]
        /\ jobs' = Merge(jobs, Dispatched(ids, task, home))
  BY DEF ManifestRefused
<1>2. PICK task \in [ids -> S], home \in [ids -> DOMAIN workers] :
        /\ drawn' = [drawn EXCEPT !.jobs = @ \cup ids]
        /\ jobs' = Merge(jobs, Dispatched(ids, task, home))
  BY <1>1
<1> DEFINE new == Dispatched(ids, task, home)
<1>3. Fresh(new) /\ DOMAIN new = ids
  BY DispatchedFresh
<1>4. DraftJobs(new)
  <2>1. /\ up /\ up' = up /\ disk' = disk /\ seen' = seen
        /\ drawn'.jobs = drawn.jobs \cup ids
    BY <1>2 DEF ManifestRefused, TypeInv, TypeOK
  <2> QED
    BY <1>2, <1>3, <2>1 DEF DraftJobs
<1> QED
  BY <1>3, <1>4

\* Every step of the coordinator is of one of these kinds.
LEMMA JobShapes == TypeInv /\ [Next]_vars => JobStep
<1> SUFFICES ASSUME TypeInv, [Next]_vars PROVE JobStep
  OBVIOUS
<1>a. /\ seen \in SeenType
      /\ drawn \in [workers : SUBSET WorkerId, jobs : SUBSET JobId,
                    issues : 0..MaxIssue, certs : 0..MaxCert]
  BY DEF TypeInv, TypeOK, SeenType
\* A commit that leaves the jobs alone.
<1>b. ASSUME NEW c, NEW ws, NEW s, up, s.acked = seen.acked, drawn'.jobs = drawn.jobs,
             Commit(c, ws, jobs, s)
      PROVE  KeepJobs
  BY <1>b DEF KeepJobs
<1>1. CASE StartFresh \/ Restart \/ Crash
  BY <1>1 DEF JobStep
<1>2. CASE Tick
  BY <1>2 DEF Tick, NoJobStep, JobStep
<1>3. CASE UNCHANGED vars
  BY <1>3 DEF vars, NoJobStep, JobStep
<1>4. CASE CheckWorkerStatus
  BY <1>4, <1>b DEF CheckWorkerStatus, JobStep
<1>5. ASSUME NEW code, GenerateCode(code) PROVE JobStep
  <2>1. drawn'.jobs = drawn.jobs
    BY <1>a, <1>5 DEF GenerateCode
  <2> QED
    BY <1>5, <1>b, <2>1 DEF GenerateCode, JobStep
<1>6. ASSUME NEW code, PairRejected(code) PROVE JobStep
  <2>1. CountWrong(code).acked = seen.acked
    BY <1>a DEF CountWrong, SeenType
  <2> QED
    BY <1>6, <1>b, <2>1 DEF PairRejected, JobStep
<1>7. ASSUME NEW w, NEW code, NEW os, Pair(w, code, os) PROVE JobStep
  <2> DEFINE s == [seen EXCEPT !.told = Put(@, w, cfg.cert)]
  <2>1. drawn'.jobs = drawn.jobs /\ s.acked = seen.acked
    BY <1>a, <1>7 DEF Pair, SeenType
  <2>2. \E c, ws : Commit(c, ws, jobs, s)
    BY <1>7 DEF Pair
  <2>3. up
    BY <1>7 DEF Pair
  <2> HIDE DEF s
  <2> QED
    BY <1>b, <2>1, <2>2, <2>3 DEF JobStep
<1>8. ASSUME NEW w, Heartbeat(w) PROVE JobStep
  BY <1>8, <1>b DEF Heartbeat, JobStep
<1>9. ASSUME NEW j \in JobId, NEW w, TestJob(j, w) PROVE JobStep
  BY <1>9, TestShape DEF JobStep
<1>10. ASSUME NEW T, ManifestDispatched(T) PROVE JobStep
  BY <1>10, DispatchShape DEF JobStep
<1>11. ASSUME NEW T, NEW S, ManifestRefused(T, S) PROVE JobStep
  BY <1>11, RefusedShape DEF JobStep
<1>12. ASSUME NEW j, CancelJob(j) PROVE JobStep
  BY <1>12, CancelShape DEF JobStep, Changed
<1>13. ASSUME NEW j, NEW a \in Attempt, NEW r \in Report, UpdateJob(j, a, r[1], r[2])
       PROVE  JobStep
  BY <1>13, UpdateShape DEF JobStep, Changed, UpdateOf
<1> QED
  BY <1>1, <1>2, <1>3, <1>4, <1>5, <1>6, <1>7, <1>8, <1>9, <1>10, <1>11, <1>12, <1>13
     DEF Next
-----------------------------------------------------------------------------
(* The results.  The files come back after a crash, so what is shown of the  *)
(* jobs in memory is shown of those in the files as well.                    *)

ResultInv ==
  WrittenByOwner(jobs) /\ WrittenByOwner(disk.jobs)

\* Fresh jobs have no result yet.
LEMMA FreshResults ==
  ASSUME NEW js, WrittenByOwner(js), NEW new, Fresh(new)
  PROVE  WrittenByOwner(Merge(js, new))
<1>1. /\ DOMAIN Merge(js, new) = DOMAIN js \cup DOMAIN new
      /\ \A j \in DOMAIN js \cup DOMAIN new :
           Merge(js, new)[j] = IF j \in DOMAIN new THEN new[j] ELSE js[j]
  BY DEF Merge
<1>2. /\ \A j \in DOMAIN new : new[j].status = "pending"
      /\ \A j \in DOMAIN new : new[j].attempt = NoAttempt
      /\ \A j \in DOMAIN new : new[j].result = "none"
  BY DEF Fresh
<1> HIDE DEF Merge
<1> QED
  BY <1>1, <1>2 DEF WrittenByOwner

\* An update or a cancellation leaves results where they belong: a result is
\* stored together with its author, and only for an accepted attempt.
LEMMA ChangedResult ==
  ASSUME NEW job \in Job, NEW v, Changed(job, v),
         job.status = "pending" => job.attempt = NoAttempt /\ job.result = "none",
         job.attempt # NoAttempt /\ job.result # "none" => job.author = job.attempt
  PROVE  /\ v.status # "pending"
         /\ v.attempt # NoAttempt /\ v.result # "none" => v.author = v.attempt
<1>1. CASE v = CancelledOf(job)
  BY <1>1 DEF CancelledOf, Job
<1>2. CASE UpdateOf(job, v)
  <2>1. PICK a \in Attempt, r \in Report :
          AttemptAccepted(job, a) /\ v = Updated(job, a, r[1], r[2])
    BY <1>2 DEF UpdateOf
  <2>2. /\ v.attempt = Claimed(job, a, r[1])
        /\ v.status = IF r[2] # "none" /\ WrongAnswer(job, r[1], r[2]) THEN "failed" ELSE r[1]
        /\ r[2] = "none" => v.result = job.result /\ v.author = job.author
        /\ r[2] # "none" => v.author = a
    BY <2>1 DEF Updated, Job
  <2>3. v.attempt # NoAttempt =>
          v.attempt = a \/ (v.attempt = job.attempt /\ job.attempt = a)
    BY <2>1, <2>2 DEF AttemptAccepted, Claimed
  <2>4. v.status # "pending"
    BY <2>2 DEF Report
  <2>5. v.attempt # job.attempt => job.status = "pending"
    BY <2>2 DEF Claimed
  <2> QED
    BY <2>2, <2>3, <2>4, <2>5
<1> QED
  BY <1>1, <1>2 DEF Changed

\* Whatever Save leaves behind is the old or the new jobs.
LEMMA CommitResults ==
  ASSUME ResultInv, NEW c, NEW ws, NEW js, NEW s, Commit(c, ws, js, s), WrittenByOwner(js)
  PROVE  ResultInv'
<1>1. disk'.jobs = disk.jobs \/ disk'.jobs = js
  BY DEF Commit, Answer, Die, Saved
<1>2. jobs' = js \/ jobs' = EmptyMap
  BY DEF Commit, Answer, Die
<1>3. WrittenByOwner(EmptyMap)
  BY DEF EmptyMap, WrittenByOwner
<1> QED
  BY <1>1, <1>2, <1>3 DEF ResultInv

LEMMA ResultInit == Init => ResultInv
BY DEF Init, EmptyMap, ResultInv, WrittenByOwner

LEMMA ResultStep == TypeInv /\ ResultInv /\ [Next]_vars => ResultInv'
<1> SUFFICES ASSUME TypeInv, ResultInv, JobStep PROVE ResultInv'
  BY JobShapes
<1>1. CASE StartFresh
  BY <1>1, CommitResults DEF StartFresh, ResultInv
<1>2. CASE Restart
  BY <1>2 DEF Restart, ResultInv
<1>3. CASE Crash
  BY <1>3 DEF Crash, ResultInv, EmptyMap, WrittenByOwner
<1>4. CASE NoJobStep
  BY <1>4 DEF NoJobStep, ResultInv
<1>5. CASE KeepJobs
  BY <1>5, CommitResults DEF KeepJobs, ResultInv
<1>6. ASSUME NEW new, Fresh(new), MakeJobs(new) \/ DraftJobs(new) PROVE ResultInv'
  <2>1. WrittenByOwner(Merge(jobs, new))
    BY <1>6, FreshResults DEF ResultInv
  <2>2. CASE MakeJobs(new)
    BY <2>1, <2>2, CommitResults DEF MakeJobs
  <2>3. CASE DraftJobs(new)
    BY <2>1, <2>3 DEF DraftJobs, ResultInv
  <2> QED
    BY <1>6, <2>2, <2>3
<1>7. ASSUME NEW j \in DOMAIN jobs, NEW v, Changed(jobs[j], v), ChangeJob(j, v)
      PROVE  ResultInv'
  <2> DEFINE js == [jobs EXCEPT ![j] = v]
  <2>1. jobs \in [DOMAIN jobs -> Job]
    BY MapsDef DEF TypeInv, TypeOK
  <2>2. /\ v.status # "pending"
        /\ v.attempt # NoAttempt /\ v.result # "none" => v.author = v.attempt
    <3>1. jobs[j] \in Job
      BY <2>1
    <3> QED
      BY <1>7, <3>1, ChangedResult DEF ResultInv, WrittenByOwner
  <2>3. /\ DOMAIN js = DOMAIN jobs /\ js[j] = v
        /\ \A i \in DOMAIN jobs : i # j => js[i] = jobs[i]
    BY <2>1
  <2>4. \E s : Commit(cfg, workers, js, s)
    BY <1>7 DEF ChangeJob
  <2> HIDE DEF js
  <2>5. WrittenByOwner(js)
    BY <2>2, <2>3 DEF ResultInv, WrittenByOwner
  <2> QED
    BY <2>4, <2>5, CommitResults
<1> QED
  BY <1>1, <1>2, <1>3, <1>4, <1>5, <1>6, <1>7 DEF JobStep

\* The result of an owned job was written by its owner, and a pending job is
\* offered without owner or result: for every order of updates,
\* cancellations, failing saves and crashes.
THEOREM OwnerWroteResult == Spec => []ResultFromOwner
<1>1. ResultInv => ResultFromOwner
  BY DEF ResultInv, ResultFromOwner
<1> QED
  BY <1>1, ResultInit, ResultStep, TypeCorrect, PTL DEF Spec
=============================================================================
