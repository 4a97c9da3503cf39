----------------------------- MODULE GridProofs -----------------------------
(***************************************************************************)
(* Proofs about the grid: the coordinator's invariants hold beside any     *)
(* workers and network, an owned job that has ended never runs again, and  *)
(* the grid implements JobLifecycle.                                       *)
(***************************************************************************)
EXTENDS Grid, CoordinatorDurability

-----------------------------------------------------------------------------
(* Types.                                                                   *)

Exec == [worker : WorkerId, job : JobId, task : Task \cup {"test"}, pc : PC]

\* Updates on their way are such as executeJob sends.
NetOK == \A m \in net : <<m.status, m.result>> \in Report

TypedGrid == TypeInv /\ StoreInv /\ GridTypeOK /\ NetOK

\* A map without some of its keys.
LEMMA WithoutType ==
  ASSUME NEW D, NEW R, NEW f \in Maps(D, R), NEW K
  PROVE  /\ Without(f, K) \in Maps(D, R)
         /\ DOMAIN Without(f, K) = DOMAIN f \ K
         /\ \A x \in DOMAIN f \ K : Without(f, K)[x] = f[x]
<1>1. DOMAIN f \subseteq D /\ f \in [DOMAIN f -> R]
  BY MapsDef
<1>2. /\ DOMAIN Without(f, K) = DOMAIN f \ K
      /\ Without(f, K) \in [DOMAIN f \ K -> R]
      /\ \A x \in DOMAIN f \ K : Without(f, K)[x] = f[x]
  BY <1>1 DEF Without
<1> QED
  BY <1>1, <1>2, MapsDef

\* A step of the grid is a step of the coordinator or leaves it alone.
LEMMA Projection ==
  ASSUME GridTypeOK, NetOK, [GridNext]_gridVars
  PROVE  [Next]_vars
<1>1. CASE CoordinatorStep
  BY <1>1 DEF CoordinatorStep, Next
<1>2. ASSUME NEW w \in WorkerId,
             PollStep(w) \/ Beat(w) \/ WorkerCrash(w) \/ WorkerRestart(w)
      PROVE  [Next]_vars
  BY <1>2 DEF PollStep, Poll, Skip, Spawn, Beat, WorkerCrash, WorkerRestart, Next
<1>3. ASSUME NEW a \in Attempt, ExecStep(a) PROVE [Next]_vars
  BY <1>3 DEF ExecStep, Announce, Execute, Conclude, Return
<1>4. ASSUME NEW m \in net, Deliver(m) PROVE [Next]_vars
  <2>1. m.job \in JobId /\ m.attempt \in Attempt
    BY <1>4 DEF GridTypeOK, Message
  <2>2. \E r \in Report : UpdateJob(m.job, m.attempt, r[1], r[2])
    BY <1>4 DEF Deliver, NetOK
  <2> QED
    BY <2>1, <2>2 DEF Next
<1>5. ASSUME NEW m \in net, Refuse(m) \/ Lose(m) PROVE [Next]_vars
  BY <1>5 DEF Refuse, Lose
<1>6. CASE UNCHANGED gridVars
  BY <1>6 DEF gridVars
<1> QED
  BY <1>1, <1>2, <1>3, <1>4, <1>5, <1>6 DEF GridNext

LEMMA GridTypeInit == GridInit => TypedGrid
<1> SUFFICES ASSUME GridInit PROVE TypedGrid
  OBVIOUS
<1> USE ConstantsAssumption, GridAssumption
<1>1. PICK issueOf \in [WorkerId -> 1..MaxIssue], osOf \in [WorkerId -> OS] :
        /\ \A v, w \in WorkerId : issueOf[v] = issueOf[w] => v = w
        /\ PairedState(issueOf, osOf)
  BY DEF GridInit
<1> DEFINE c == [EmptyCfg EXCEPT !.cert = 1, !.issue = MaxIssue, !.expiry = PairingTTL]
           ws == [w \in WorkerId |-> [os |-> osOf[w], lastSeen |-> 0, status |-> "online",
                                      issue |-> issueOf[w]]]
<1>2. /\ up = TRUE /\ cfg = c /\ workers = ws /\ jobs = EmptyMap
      /\ disk = [cfg |-> c, workers |-> ws, jobs |-> EmptyMap]
      /\ now = 0
      /\ drawn = [workers |-> WorkerId, jobs |-> {}, issues |-> MaxIssue, certs |-> 1]
      /\ seen = [told |-> [w \in WorkerId |-> 1], acked |-> EmptyMap,
                 wrong |-> [i \in 1..MaxIssue |-> 0]]
  BY <1>1 DEF PairedState
<1>3. c \in CoordinatorState /\ Numbered(c) /\ c.code = NoCode /\ c.issue = MaxIssue
  <2>1. /\ 1 \in 0..MaxCert /\ MaxIssue \in 0..MaxIssue
        /\ PairingTTL \in 0..(MaxNow + PairingTTL) /\ 0 \in 0..(MaxFailures + 1)
    OBVIOUS
  <2>2. EmptyCfg \in CoordinatorState /\ EmptyCfg.code = NoCode
    BY DEF EmptyCfg, CoordinatorState
  <2> QED
    BY <2>1, <2>2 DEF CoordinatorState, Numbered
<1>4. /\ DOMAIN ws = WorkerId /\ ws \in [WorkerId -> WorkerState]
      /\ \A w \in WorkerId : ws[w].issue = issueOf[w]
  BY DEF WorkerState
<1> HIDE DEF c, ws
<1>5. ws \in Maps(WorkerId, WorkerState)
  BY <1>4, MapsDef
<1>6. EmptyMap \in Maps(JobId, Job) /\ EmptyMap \in Maps(JobId, Attempt \cup {NoAttempt})
  BY EmptyMapType
<1>7. [w \in WorkerId |-> 1] \in Maps(WorkerId, 0..MaxCert)
  BY MapsDef
<1>8. TypeInv
  <2>1. seen \in SeenType
    BY <1>2, <1>6, <1>7 DEF SeenType
  <2>2. drawn \in [workers : SUBSET WorkerId, jobs : SUBSET JobId,
                   issues : 0..MaxIssue, certs : 0..MaxCert]
    BY <1>2
  <2>3. up \in BOOLEAN
    BY Zenon, <1>2
  <2>4. now \in 0..MaxNow
    BY <1>2
  <2> QED
    BY <1>2, <1>3, <1>5, <1>6, <2>1, <2>2, <2>3, <2>4 DEF TypeInv, TypeOK, SeenType
<1>9. StoreInv
  <2>1. Coherent(c, ws, EmptyMap)
    BY <1>1, <1>3, <1>4 DEF Coherent, CodeUnused, OneWorkerPerIssue, RefersTo, EmptyMap
  <2>2. Within(c, ws, EmptyMap, drawn)
    BY <1>2, <1>3, <1>4 DEF Within, EmptyMap
  <2>3. WorkersKept(ws, ws) /\ AttemptsKept(EmptyMap, EmptyMap)
    BY DEF WorkersKept, AttemptsKept
  <2> QED
    BY <1>2, <2>1, <2>2, <2>3 DEF StoreInv
<1>10. GridTypeOK /\ NetOK
  <2>1. /\ EmptyMap \in Maps(JobId, Task \cup {"test"})
        /\ EmptyMap \in Maps(Attempt, Exec)
        /\ DOMAIN EmptyMap = {}
    BY EmptyMapType
  <2>2. /\ wup \in [WorkerId -> BOOLEAN] /\ active \in [WorkerId -> SUBSET JobId]
        /\ minted \subseteq Attempt /\ net \subseteq Message /\ NetOK
    BY DEF GridInit, NetOK
  <2>3. polled \in [WorkerId -> Maps(JobId, Task \cup {"test"})]
    BY <2>1 DEF GridInit
  <2>4. execs \in Maps(Attempt, Exec) /\ \A a \in DOMAIN execs : wup[execs[a].worker]
    BY <2>1 DEF GridInit
  <2> QED
    BY <2>2, <2>3, <2>4 DEF GridTypeOK, Exec
<1> QED
  BY <1>8, <1>9, <1>10 DEF TypedGrid

LEMMA GridTypeStep == TypedGrid /\ [GridNext]_gridVars => TypedGrid'
<1> SUFFICES ASSUME TypedGrid, [GridNext]_gridVars PROVE TypedGrid'
  OBVIOUS
<1>a. TypeInv' /\ StoreInv'
  BY Projection, TypeStep, StoreStep DEF TypedGrid
<1>b. /\ wup \in [WorkerId -> BOOLEAN]
      /\ polled \in [WorkerId -> Maps(JobId, Task \cup {"test"})]
      /\ active \in [WorkerId -> SUBSET JobId]
      /\ execs \in Maps(Attempt, Exec)
      /\ DOMAIN execs \subseteq Attempt /\ execs \in [DOMAIN execs -> Exec]
      /\ \A a \in DOMAIN execs : wup[execs[a].worker]
      /\ minted \subseteq Attempt
      /\ net \subseteq Message /\ NetOK
      /\ jobs \in [DOMAIN jobs -> Job] /\ DOMAIN jobs \subseteq JobId
  <2>1. /\ wup \in [WorkerId -> BOOLEAN]
        /\ polled \in [WorkerId -> Maps(JobId, Task \cup {"test"})]
        /\ active \in [WorkerId -> SUBSET JobId]
        /\ execs \in Maps(Attempt, Exec)
        /\ \A a \in DOMAIN execs : wup[execs[a].worker]
        /\ minted \subseteq Attempt
        /\ net \subseteq Message /\ NetOK
    BY Zenon DEF TypedGrid, GridTypeOK, Exec
  <2>2. DOMAIN execs \subseteq Attempt /\ execs \in [DOMAIN execs -> Exec]
    BY <2>1, MapsDef
  <2>3. jobs \in [DOMAIN jobs -> Job] /\ DOMAIN jobs \subseteq JobId
    BY MapsDef DEF TypedGrid, TypeInv, TypeOK
  <2> QED
    BY <2>1, <2>2, <2>3
<1>e. execs \in Maps(Attempt, Exec)
  BY <1>b
<1> SUFFICES GridTypeOK' /\ NetOK'
  BY <1>a DEF TypedGrid
<1> USE DEF GridTypeOK, NetOK
\* Steps that move only goroutines and messages.
<1>c. ASSUME wup' = wup, polled' = polled,
             active' \in [WorkerId -> SUBSET JobId],
             execs' \in Maps(Attempt, Exec), \A a \in DOMAIN execs' : wup[(execs')[a].worker],
             minted' = minted, net' \subseteq Message,
             \A m \in net' : <<m.status, m.result>> \in Report
      PROVE  GridTypeOK' /\ NetOK'
  BY <1>b, <1>c DEF Exec
\* A goroutine moves on and keeps its job and worker.
<1>d. ASSUME NEW a \in DOMAIN execs, NEW pc \in PC, Goto(a, pc)
      PROVE  execs' \in Maps(Attempt, Exec) /\ \A b \in DOMAIN execs' : wup[(execs')[b].worker]
  <2>1. /\ DOMAIN execs' = DOMAIN execs /\ execs' \in [DOMAIN execs' -> Exec]
        /\ \A b \in DOMAIN execs : (execs')[b].worker = execs[b].worker
    BY <1>b, <1>d DEF Goto, Exec
  <2>2. DOMAIN execs' \subseteq Attempt
    BY <1>b, <2>1
  <2> QED
    BY <1>b, <2>1, <2>2, MapsDef
<1>1. CASE CoordinatorStep \/ UNCHANGED gridVars
  BY <1>1, <1>b DEF CoordinatorStep, workerVars, gridVars, Exec
<1>2. ASSUME NEW w \in WorkerId, Poll(w) PROVE GridTypeOK' /\ NetOK'
  <2> DEFINE p == [j \in Offered(w) |-> jobs[j].task]
  <2>1. DOMAIN p \subseteq JobId /\ p \in [DOMAIN p -> Task \cup {"test"}]
    BY <1>b DEF Offered, Job
  <2>2. /\ polled' = [polled EXCEPT ![w] = p]
        /\ UNCHANGED <<wup, active, execs, minted, net>>
    BY <1>2 DEF Poll
  <2> HIDE DEF p
  <2>3. p \in Maps(JobId, Task \cup {"test"})
    BY <2>1, MapsDef
  <2> QED
    BY <1>b, <2>2, <2>3 DEF Exec
<1>3. ASSUME NEW w \in WorkerId, NEW j \in JobId, Skip(w, j) PROVE GridTypeOK' /\ NetOK'
  <2>1. Without(polled[w], {j}) \in Maps(JobId, Task \cup {"test"})
    BY <1>b, WithoutType
  <2>2. /\ polled' = [polled EXCEPT ![w] = Without(polled[w], {j})]
        /\ UNCHANGED <<wup, active, execs, minted, net>>
    BY <1>3 DEF Skip
  <2> QED
    BY <1>b, <2>1, <2>2 DEF Exec
<1>4. ASSUME NEW w \in WorkerId, NEW j \in JobId, NEW a \in Attempt, Spawn(w, j, a)
      PROVE  GridTypeOK' /\ NetOK'
  <2> DEFINE e == [worker |-> w, job |-> j, task |-> polled[w][j], pc |-> "spawned"]
  <2>1. Without(polled[w], {j}) \in Maps(JobId, Task \cup {"test"})
    BY <1>b, WithoutType
  <2>2. e \in Exec
    <3>1. polled[w] \in [DOMAIN polled[w] -> Task \cup {"test"}] /\ j \in DOMAIN polled[w]
      BY <1>4, <1>b, MapsDef DEF Spawn
    <3>2. polled[w][j] \in Task \cup {"test"}
      BY <3>1
    <3> QED
      BY <3>2 DEF Exec, PC
  <2>3. /\ polled' = [polled EXCEPT ![w] = Without(polled[w], {j})]
        /\ execs' = Put(execs, a, e) /\ minted' = minted \cup {a}
        /\ wup[w] /\ UNCHANGED <<wup, active, net>>
    BY <1>4 DEF Spawn
  <2>4. e.worker = w
    OBVIOUS
  <2> HIDE DEF e
  <2>5. execs' \in Maps(Attempt, Exec)
    BY <1>b, <2>2, <2>3, PutType
  <2>6. \A b \in DOMAIN execs' : wup[(execs')[b].worker]
    BY <1>b, <2>3, <2>4 DEF Put
  <2> QED
    BY <1>b, <2>1, <2>3, <2>5, <2>6 DEF Exec
<1>5. ASSUME NEW w \in WorkerId, Beat(w) PROVE GridTypeOK' /\ NetOK'
  BY <1>5, <1>b DEF Beat, workerVars, Exec
<1>6. ASSUME NEW w \in WorkerId, WorkerCrash(w) PROVE GridTypeOK' /\ NetOK'
  <2> DEFINE K == {a \in DOMAIN execs : execs[a].worker = w}
  <2>1. /\ Without(execs, K) \in Maps(Attempt, Exec)
        /\ DOMAIN Without(execs, K) = DOMAIN execs \ K
        /\ \A x \in DOMAIN execs \ K : Without(execs, K)[x] = execs[x]
    <3> HIDE DEF K
    <3> QED
      BY <1>e, WithoutType
  <2>2. /\ wup' = [wup EXCEPT ![w] = FALSE] /\ polled' = [polled EXCEPT ![w] = EmptyMap]
        /\ active' = [active EXCEPT ![w] = {}] /\ execs' = Without(execs, K)
        /\ minted' = minted /\ net' = net
    BY <1>6 DEF WorkerCrash
  <2>3. \A a \in DOMAIN execs' : (wup')[(execs')[a].worker]
    BY <1>b, <2>1, <2>2 DEF Exec
  <2>4. EmptyMap \in Maps(JobId, Task \cup {"test"})
    BY EmptyMapType
  <2>5. wup' \in [WorkerId -> BOOLEAN]
    BY <1>b, <2>2
  <2>6. polled' \in [WorkerId -> Maps(JobId, Task \cup {"test"})]
    BY <1>b, <2>2, <2>4
  <2>7. active' \in [WorkerId -> SUBSET JobId]
    BY <1>b, <2>2
  <2> QED
    BY <1>b, <2>1, <2>2, <2>3, <2>5, <2>6, <2>7 DEF Exec
<1>7. ASSUME NEW w \in WorkerId, WorkerRestart(w) PROVE GridTypeOK' /\ NetOK'
  <2>1. /\ wup' = [wup EXCEPT ![w] = TRUE]
        /\ UNCHANGED <<polled, active, execs, minted, net>>
    BY <1>7 DEF WorkerRestart
  <2>2. wup' \in [WorkerId -> BOOLEAN]
    BY <1>b, <2>1
  <2>3. \A a \in DOMAIN execs : (wup')[execs[a].worker]
    BY <1>b, <2>1 DEF Exec
  <2> QED
    BY <1>b, <2>1, <2>2, <2>3 DEF Exec
<1>8. ASSUME NEW a \in Attempt, Announce(a) PROVE GridTypeOK' /\ NetOK'
  <2>1. a \in DOMAIN execs /\ execs[a].worker \in WorkerId /\ execs[a].job \in JobId
    BY <1>8, <1>b DEF Announce, At, Exec
  <2>2. active' \in [WorkerId -> SUBSET JobId]
    BY <1>8, <1>b, <2>1 DEF Announce
  <2> DEFINE u == Update(a, "running", "none", FALSE)
  <2>3. u \in Message /\ u.status = "running" /\ u.result = "none"
    BY <2>1 DEF Update, Message, Status, Result
  <2> HIDE DEF u
  <2>4. \A m \in net' : m \in Message /\ <<m.status, m.result>> \in Report
    <3>1. <<u.status, u.result>> \in Report
      BY <2>3 DEF Report
    <3>2. net' = net \cup {u}
      BY <1>8 DEF Announce, u
    <3> QED
      BY <1>b, <2>3, <3>1, <3>2
  <2>5. "announcing" \in PC
    BY DEF PC
  <2> QED
    BY <1>8, <1>c, <1>d, <2>1, <2>2, <2>4, <2>5 DEF Announce
<1>9. ASSUME NEW a \in Attempt, Execute(a) PROVE GridTypeOK' /\ NetOK'
  <2>1. a \in DOMAIN execs /\ "executing" \in PC
    BY <1>9 DEF Execute, At, PC
  <2> QED
    BY <1>9, <1>b, <1>c, <1>d, <2>1 DEF Execute
<1>10. ASSUME NEW a \in Attempt, Conclude(a) PROVE GridTypeOK' /\ NetOK'
  <2>1. a \in DOMAIN execs /\ "reporting" \in PC /\ execs[a].job \in JobId
    BY <1>10, <1>b DEF Conclude, At, PC, Exec
  <2>2. PICK o \in Outcome(execs[a].task), large \in LogsLarge(execs[a].task) :
          net' = net \cup {Update(a, o[1], o[2], large)}
    BY <1>10 DEF Conclude
  <2>3. /\ o \in ({"completed", "failed"} \X {"hash", "other"})
        /\ large \in BOOLEAN
    <3>1. o \in ({"completed", "failed"} \X {"hash", "other"})
      BY DEF Outcome
    <3>2. large \in BOOLEAN
      BY Zenon DEF LogsLarge
    <3> QED
      BY <3>1, <3>2
  <2> DEFINE u == Update(a, o[1], o[2], large)
  <2>4. u \in Message /\ u.status = o[1] /\ u.result = o[2]
    BY <2>1, <2>3 DEF Update, Message, Status, Result
  <2>6. net' = net \cup {u}
    BY <2>2
  <2> HIDE DEF u
  <2>5. \A m \in net' : m \in Message /\ <<m.status, m.result>> \in Report
    <3>1. <<u.status, u.result>> \in Report
      BY <2>3, <2>4 DEF Report
    <3> QED
      BY <1>b, <2>4, <2>6, <3>1
  <2> QED
    BY <1>10, <1>b, <1>c, <1>d, <2>1, <2>5 DEF Conclude
<1>11. ASSUME NEW a \in Attempt, Return(a) PROVE GridTypeOK' /\ NetOK'
  <2>1. a \in DOMAIN execs /\ execs[a].worker \in WorkerId
    BY <1>11, <1>b DEF Return, At, Exec
  <2>2. active' \in [WorkerId -> SUBSET JobId]
    BY <1>11, <1>b, <2>1 DEF Return
  <2>3. /\ Without(execs, {a}) \in Maps(Attempt, Exec)
        /\ \A b \in DOMAIN Without(execs, {a}) :
             b \in DOMAIN execs /\ Without(execs, {a})[b] = execs[b]
    <3>1. /\ Without(execs, {a}) \in Maps(Attempt, Exec)
          /\ DOMAIN Without(execs, {a}) = DOMAIN execs \ {a}
          /\ \A x \in DOMAIN execs \ {a} : Without(execs, {a})[x] = execs[x]
      BY <1>e, WithoutType
    <3> QED
      BY <3>1
  <2> QED
    BY <1>11, <1>b, <1>c, <2>2, <2>3 DEF Return
<1>12. ASSUME NEW m \in net, Deliver(m) \/ Refuse(m) \/ Lose(m) PROVE GridTypeOK' /\ NetOK'
  BY <1>12, <1>b, <1>c DEF Deliver, Refuse, Lose
<1> QED
  BY <1>1, <1>2, <1>3, <1>4, <1>5, <1>6, <1>7, <1>8, <1>9, <1>10, <1>11, <1>12
     DEF GridNext, PollStep, ExecStep

\* Whatever the workers and the network do, the coordinator's types and the
\* coherence of its store hold, and no goroutine outlives its process.
THEOREM GridTyped == GridSpec => []TypedGrid
<1> QED
  BY GridTypeInit, GridTypeStep, PTL DEF GridSpec

THEOREM GridTypeSafety == GridSpec => []GridTypeOK
<1>1. TypedGrid => GridTypeOK
  BY DEF TypedGrid
<1> QED
  BY <1>1, GridTyped, PTL

-----------------------------------------------------------------------------
(* What the coordinator promises, it keeps beside workers that are at work,  *)
(* from the state that pairing left behind.                                  *)

LEMMA PairedKept == GridInit => ResultInv /\ DurableInv
<1> SUFFICES ASSUME GridInit PROVE ResultInv /\ DurableInv
  OBVIOUS
<1>1. PICK issueOf \in [WorkerId -> 1..MaxIssue], osOf \in [WorkerId -> OS] :
        PairedState(issueOf, osOf)
  BY DEF GridInit
<1>2. /\ up /\ jobs = EmptyMap /\ disk.jobs = EmptyMap /\ seen.acked = EmptyMap
      /\ cfg = disk.cfg /\ workers = disk.workers /\ disk.cfg.cert = 1
      /\ disk.cfg.code = NoCode /\ DOMAIN disk.workers = WorkerId
      /\ seen.told = [w \in WorkerId |-> 1]
      /\ \A i \in 1..MaxIssue : seen.wrong[i] = 0
  BY <1>1 DEF PairedState, EmptyCfg
<1>3. DOMAIN EmptyMap = {}
  BY DEF EmptyMap
<1>4. ResultInv
  BY <1>2, <1>3 DEF ResultInv, WrittenByOwner
<1>5. JobsDurable
  BY <1>2, <1>3 DEF JobsDurable, Drafted, Acks
<1>6. ConfigDurable
  BY <1>2, ConstantsAssumption DEF ConfigDurable, Pins, Guessed, Bounded
<1> QED
  BY <1>4, <1>5, <1>6 DEF DurableInv

\* Jobs refer to workers the coordinator knows, keep their owner, and have the
\* result their owner wrote, whatever polls, goroutines and late updates there are.
THEOREM GridKeepsJobs ==
  GridSpec => [](RefInt /\ ResultFromOwner) /\ AttemptStable
<1>1. GridInit => ResultInv
  BY PairedKept
<1>2. TypedGrid /\ ResultInv /\ [GridNext]_gridVars =>
        ResultInv' /\ [AttemptsKeptNow]_vars
  BY Projection, ResultStep, StoreStep DEF TypedGrid
<1>3. TypedGrid /\ ResultInv => RefInt /\ ResultFromOwner
  BY DEF TypedGrid, StoreInv, Coherent, RefInt, ResultInv, ResultFromOwner
<1> QED
  BY <1>1, <1>2, <1>3, GridTyped, PTL DEF GridSpec, AttemptStable, AttemptsKeptNow

\* Unless Save fails, whatever a client or a worker of the grid was answered
\* about jobs and certificates is in the files wherever the process dies.
THEOREM GridAnswersDurable ==
  "saveError" \notin Faults => (GridSpec => [](DurableAnswers /\ PinnedCertificate))
<1> SUFFICES ASSUME "saveError" \notin Faults
             PROVE  GridSpec => [](DurableAnswers /\ PinnedCertificate)
  OBVIOUS
<1>1. GridInit => DurableInv
  BY PairedKept
<1>2. TypedGrid /\ DurableInv /\ [GridNext]_gridVars => DurableInv'
  BY Projection, JobsDurableStep, ConfigStep DEF TypedGrid, DurableInv
<1>3. DurableInv => DurableAnswers /\ PinnedCertificate
  BY DEF DurableInv, JobsDurable, ConfigDurable, Acks, Pins, DurableAnswers, PinnedCertificate
<1> QED
  BY <1>1, <1>2, <1>3, GridTyped, PTL DEF GridSpec

-----------------------------------------------------------------------------
(* What becomes of a job in the grid: an owned job that has ended never    *)
(* runs again, and the grid implements JobLifecycle.                       *)
(*                                                                         *)
(* The coordinator itself would let "running" follow "completed" when the  *)
(* same attempt sends it.  That this cannot happen is a fact about the     *)
(* workers: an attempt sends "running" once, before all else, and owns a   *)
(* job only after that one message has been delivered.                     *)

-----------------------------------------------------------------------------
(* What attempts have sent.                                                 *)

\* Only attempts that have announced themselves have messages under way, and
\* at most one of those says "running".
Sent ==
  /\ DOMAIN execs \subseteq minted
  /\ \A m \in net : m.attempt \in minted /\ ~At(m.attempt, "spawned")
  /\ \A m, n \in net :
       m.attempt = n.attempt /\ m.status = "running" /\ n.status = "running" => m = n

\* The attempts whose "running" was sent and is no longer under way.
Announced ==
  {a \in minted : ~At(a, "spawned") /\ \A m \in net : m.attempt = a => m.status # "running"}

LEMMA SentStep ==
  ASSUME TypedGrid, Sent, [GridNext]_gridVars
  PROVE  Sent' /\ Announced \subseteq Announced'
<1>a. /\ execs \in [DOMAIN execs -> Exec] /\ net \subseteq Message
      /\ \A m \in net : m.attempt \in minted /\ ~At(m.attempt, "spawned")
      /\ DOMAIN execs \subseteq minted
  <2>1. execs \in Maps(Attempt, Exec)
    BY Zenon DEF TypedGrid, GridTypeOK, Exec
  <2> QED
    BY <2>1, MapsDef DEF TypedGrid, GridTypeOK, Sent
\* Steps that leave the goroutines alone and send nothing.
<1>b. ASSUME execs' = execs, minted' = minted, net' \subseteq net
      PROVE  Sent' /\ Announced \subseteq Announced'
  BY <1>b DEF Sent, Announced, At
\* A goroutine that does not stand at "spawned" moves on, or is gone.
<1>c. ASSUME minted' = minted, net' \subseteq net,
             DOMAIN execs' \subseteq DOMAIN execs,
             \A b \in DOMAIN execs' : (execs')[b].pc = "spawned" => execs[b].pc = "spawned"
      PROVE  Sent' /\ Announced \subseteq Announced'
  BY <1>c DEF Sent, Announced, At
\* The same with a message sent.
<1>d. ASSUME NEW a \in Attempt, a \in DOMAIN execs, NEW pc, pc # "spawned", Goto(a, pc)
      PROVE  /\ DOMAIN execs' = DOMAIN execs
             /\ ~At(a, "spawned")'
             /\ \A b \in DOMAIN execs : b # a => (execs')[b] = execs[b]
             /\ \A b \in DOMAIN execs' : (execs')[b].pc = "spawned" => execs[b].pc = "spawned"
  BY <1>a, <1>d DEF Goto, Exec, At
<1>1. CASE CoordinatorStep \/ UNCHANGED gridVars
  BY <1>1, <1>b DEF CoordinatorStep, workerVars, gridVars
<1>2. ASSUME NEW w \in WorkerId, Poll(w) \/ Beat(w) \/ WorkerRestart(w)
             \/ \E j \in JobId : Skip(w, j)
      PROVE  Sent' /\ Announced \subseteq Announced'
  BY <1>2, <1>b DEF Poll, Beat, WorkerRestart, Skip, workerVars
<1>3. ASSUME NEW w \in WorkerId, NEW j \in JobId, NEW a \in Attempt, Spawn(w, j, a)
      PROVE  Sent' /\ Announced \subseteq Announced'
  <2>1. /\ a \notin minted /\ minted' = minted \cup {a} /\ net' = net
        /\ \E e : execs' = Put(execs, a, e)
    BY <1>3 DEF Spawn
  <2>2. /\ DOMAIN execs' = DOMAIN execs \cup {a}
        /\ \A b \in DOMAIN execs : b # a => (execs')[b] = execs[b]
    BY <2>1 DEF Put
  <2>3. \A b \in minted : At(b, "spawned")' => At(b, "spawned")
    BY <1>a, <2>1, <2>2 DEF At
  <2> QED
    BY <1>a, <2>1, <2>2, <2>3 DEF Sent, Announced
<1>4. ASSUME NEW w \in WorkerId, WorkerCrash(w) PROVE Sent' /\ Announced \subseteq Announced'
  <2> DEFINE K == {a \in DOMAIN execs : execs[a].worker = w}
  <2>1. execs' = Without(execs, K) /\ minted' = minted /\ net' = net
    BY <1>4 DEF WorkerCrash
  <2> HIDE DEF K
  <2>2. /\ DOMAIN execs' \subseteq DOMAIN execs
        /\ \A b \in DOMAIN execs' : (execs')[b] = execs[b]
    BY <2>1 DEF Without
  <2> QED
    BY <1>c, <2>1, <2>2
<1>5. ASSUME NEW a \in Attempt, Announce(a) PROVE Sent' /\ Announced \subseteq Announced'
  <2> DEFINE u == Update(a, "running", "none", FALSE)
  <2>1. At(a, "spawned") /\ a \in DOMAIN execs /\ minted' = minted /\ net' = net \cup {u}
        /\ Goto(a, "announcing")
    BY <1>5 DEF Announce, At
  <2>2. u.attempt = a /\ u.status = "running"
    BY DEF Update
  <2> HIDE DEF u
  <2>3. /\ DOMAIN execs' = DOMAIN execs
        /\ ~At(a, "spawned")'
        /\ \A b \in DOMAIN execs' : (execs')[b].pc = "spawned" => execs[b].pc = "spawned"
    BY <1>d, <2>1
  <2>4. \A b : At(b, "spawned")' => At(b, "spawned")
    BY <2>3 DEF At
  <2>5. \A m \in net : m.attempt # a
    BY <1>a, <2>1
  <2> QED
    BY <1>a, <2>1, <2>2, <2>3, <2>4, <2>5 DEF Sent, Announced
<1>6. ASSUME NEW a \in Attempt, Execute(a) PROVE Sent' /\ Announced \subseteq Announced'
  <2>1. a \in DOMAIN execs /\ Goto(a, "executing") /\ minted' = minted /\ net' = net
    BY <1>6 DEF Execute, At
  <2> QED
    BY <1>c, <1>d, <2>1
<1>7. ASSUME NEW a \in Attempt, Conclude(a) PROVE Sent' /\ Announced \subseteq Announced'
  <2>1. PICK o \in Outcome(execs[a].task), large \in LogsLarge(execs[a].task) :
          net' = net \cup {Update(a, o[1], o[2], large)}
    BY <1>7 DEF Conclude
  <2> DEFINE u == Update(a, o[1], o[2], large)
  <2>2. u.attempt = a /\ u.status # "running"
    BY DEF Update, Outcome
  <2>3. net' = net \cup {u}
    BY <2>1
  <2> HIDE DEF u
  <2>4. a \in DOMAIN execs /\ Goto(a, "reporting") /\ minted' = minted
    BY <1>7 DEF Conclude, At
  <2>5. /\ DOMAIN execs' = DOMAIN execs
        /\ ~At(a, "spawned")'
        /\ \A b \in DOMAIN execs' : (execs')[b].pc = "spawned" => execs[b].pc = "spawned"
    BY <1>d, <2>4
  <2>6. \A b : At(b, "spawned")' => At(b, "spawned")
    BY <2>5 DEF At
  <2> QED
    BY <1>a, <2>2, <2>3, <2>4, <2>5, <2>6 DEF Sent, Announced
<1>8. ASSUME NEW a \in Attempt, Return(a) PROVE Sent' /\ Announced \subseteq Announced'
  <2>1. execs' = Without(execs, {a}) /\ minted' = minted /\ net' = net
    BY <1>8 DEF Return
  <2>2. /\ DOMAIN execs' \subseteq DOMAIN execs
        /\ \A b \in DOMAIN execs' : (execs')[b] = execs[b]
    BY <2>1 DEF Without
  <2> QED
    BY <1>c, <2>1, <2>2
<1>9. ASSUME NEW m \in net, Deliver(m) \/ Refuse(m) \/ Lose(m)
      PROVE  Sent' /\ Announced \subseteq Announced'
  BY <1>9, <1>b DEF Deliver, Refuse, Lose
<1> QED
  BY <1>1, <1>2, <1>3, <1>4, <1>5, <1>6, <1>7, <1>8, <1>9
     DEF GridNext, PollStep, ExecStep

-----------------------------------------------------------------------------
(* Seen from the jobs, a step of the grid other than a delivery can make,    *)
(* cancel or lose jobs.                                                      *)

QuietStep ==
  \/ Restart \/ Crash \/ NoJobStep \/ KeepJobs
  \/ \E new : Fresh(new) /\ (MakeJobs(new) \/ DraftJobs(new))
  \/ \E j \in DOMAIN jobs : CancelJob(j) /\ ChangeJob(j, CancelledOf(jobs[j]))

LEMMA GridShapes ==
  ASSUME TypedGrid, [GridNext]_gridVars
  PROVE  QuietStep \/ \E m \in net : Deliver(m)
<1>a. TypeInv
  BY DEF TypedGrid
<1>1. CASE UNCHANGED vars
  BY <1>1 DEF vars, NoJobStep, QuietStep
<1>2. CASE CoordinatorStep
  <2>1. CASE Restart \/ Crash
    BY <2>1 DEF QuietStep
  <2>2. CASE Tick
    BY <2>2 DEF Tick, NoJobStep, QuietStep
  <2>3. CASE CheckWorkerStatus
    BY <2>3 DEF CheckWorkerStatus, KeepJobs, QuietStep
  <2>4. ASSUME NEW j \in JobId, CancelJob(j) PROVE QuietStep
    BY <2>4, CancelShape DEF QuietStep
  <2>5. ASSUME NEW j \in JobId, NEW w \in WorkerId, TestJob(j, w) PROVE QuietStep
    BY <1>a, <2>5, TestShape DEF QuietStep
  <2>6. ASSUME NEW T, ManifestDispatched(T) PROVE QuietStep
    BY <1>a, <2>6, DispatchShape DEF QuietStep
  <2>7. ASSUME NEW T, NEW S, ManifestRefused(T, S) PROVE QuietStep
    BY <1>a, <2>7, RefusedShape DEF QuietStep
  <2> QED
    BY <1>2, <2>1, <2>2, <2>3, <2>4, <2>5, <2>6, <2>7 DEF CoordinatorStep
<1>3. ASSUME NEW w \in WorkerId, Beat(w) PROVE QuietStep
  BY <1>3 DEF Beat, Heartbeat, KeepJobs, QuietStep
<1>4. ASSUME NEW w \in WorkerId, PollStep(w) \/ WorkerCrash(w) \/ WorkerRestart(w)
      PROVE  QuietStep
  BY <1>1, <1>4 DEF PollStep, Poll, Skip, Spawn, WorkerCrash, WorkerRestart, vars,
     NoJobStep, QuietStep
<1>5. ASSUME NEW a \in Attempt, ExecStep(a) PROVE QuietStep
  BY <1>5 DEF ExecStep, Announce, Execute, Conclude, Return, vars, NoJobStep, QuietStep
<1>6. ASSUME NEW m \in net, Refuse(m) \/ Lose(m) PROVE QuietStep
  BY <1>6 DEF Refuse, Lose, vars, NoJobStep, QuietStep
<1> QED
  BY <1>1, <1>2, <1>3, <1>4, <1>5, <1>6 DEF GridNext, gridVars, vars
-----------------------------------------------------------------------------
(* Finality.                                                                *)

\* Every job of js that is owned is owned by an attempt in A.
OwnedBy(js, A) == \A j \in DOMAIN js : js[j].attempt # NoAttempt => js[j].attempt \in A

\* Owners have announced themselves, so whatever an owner still sends ends its
\* job.  The files are never further than memory.
FinalInv ==
  /\ Sent
  /\ OwnedBy(jobs, Announced) /\ OwnedBy(disk.jobs, Announced)
  /\ up => EndKept(disk.jobs, jobs)

\* What OwnedEndIsFinal says of a step.
EndKeptNow == EndKept(disk.jobs, disk.jobs') /\ (up /\ up' => EndKept(jobs, jobs'))

\* The jobs part of FinalInv in the next state.
FinalJobs ==
  /\ OwnedBy(jobs, Announced) /\ OwnedBy(disk.jobs, Announced)
  /\ up => EndKept(disk.jobs, jobs)

LEMMA EndKeptTrans ==
  ASSUME NEW js, NEW ks, NEW ls, EndKept(js, ks), AttemptsKept(js, ks), EndKept(ks, ls)
  PROVE  EndKept(js, ls)
BY DEF EndKept, AttemptsKept

\* Committing jobs of announced owners, and ending no job's end.
LEMMA CommitFinal ==
  ASSUME StoreInv, FinalInv, up, Announced \subseteq Announced',
         NEW c, NEW ws, NEW js, NEW s, Commit(c, ws, js, s),
         OwnedBy(js, Announced'), EndKept(jobs, js)
  PROVE  FinalJobs' /\ EndKeptNow
<1>1. disk'.jobs = disk.jobs \/ disk'.jobs = js
  BY DEF Commit, Answer, Die, Saved
<1>2. (jobs' = js /\ up') \/ (jobs' = EmptyMap /\ ~up')
  BY DEF Commit, Answer, Die
<1>3. EndKept(disk.jobs, js)
  <2>1. AttemptsKept(disk.jobs, jobs) /\ EndKept(disk.jobs, jobs)
    BY DEF StoreInv, FinalInv
  <2> QED
    BY <2>1, EndKeptTrans
<1>4. EndKept(js, js) /\ EndKept(disk.jobs, disk.jobs)
  BY DEF EndKept
<1>5. OwnedBy(disk.jobs, Announced') /\ OwnedBy(EmptyMap, Announced')
  BY DEF FinalInv, OwnedBy, EmptyMap
<1>6. OwnedBy(disk'.jobs, Announced')
  BY <1>1, <1>5
<1>7. OwnedBy(jobs', Announced')
  BY <1>2, <1>5
<1>8. up' => EndKept(disk'.jobs, jobs')
  BY <1>1, <1>2, <1>3, <1>4
<1>9. EndKept(disk.jobs, disk'.jobs) /\ (up' => EndKept(jobs, jobs'))
  BY <1>1, <1>2, <1>3, <1>4
<1> QED
  BY <1>6, <1>7, <1>8, <1>9 DEF FinalJobs, EndKeptNow

LEMMA QuietFinal ==
  ASSUME TypedGrid, FinalInv, Announced \subseteq Announced', QuietStep
  PROVE  FinalJobs' /\ EndKeptNow
<1>a. StoreInv /\ jobs \in [DOMAIN jobs -> Job]
  BY MapsDef DEF TypedGrid, TypeInv, TypeOK
<1>b. OwnedBy(jobs, Announced') /\ OwnedBy(disk.jobs, Announced')
  BY DEF FinalInv, OwnedBy
<1>c. EndKept(jobs, jobs) /\ EndKept(disk.jobs, disk.jobs)
  BY DEF EndKept
<1>1. CASE Restart
  <2>1. /\ jobs' = disk.jobs /\ disk' = disk /\ ~up /\ up'
    BY <1>1 DEF Restart
  <2> QED
    BY <1>b, <1>c, <2>1 DEF FinalJobs, EndKeptNow
<1>2. CASE Crash
  <2>1. jobs' = EmptyMap /\ disk' = disk /\ ~up'
    BY <1>2 DEF Crash
  <2>2. OwnedBy(EmptyMap, Announced')
    BY DEF OwnedBy, EmptyMap
  <2> QED
    BY <1>b, <1>c, <2>1, <2>2 DEF FinalJobs, EndKeptNow
<1>3. CASE NoJobStep
  <2>1. jobs' = jobs /\ disk' = disk /\ up' = up
    BY <1>3 DEF NoJobStep
  <2> QED
    BY <1>b, <1>c, <2>1 DEF FinalJobs, FinalInv, EndKeptNow
<1>4. CASE KeepJobs
  BY <1>4, <1>a, <1>b, <1>c, CommitFinal DEF KeepJobs
<1>5. ASSUME NEW new, Fresh(new), MakeJobs(new) \/ DraftJobs(new)
      PROVE  FinalJobs' /\ EndKeptNow
  <2> DEFINE js == Merge(jobs, new)
  <2>1. /\ DOMAIN js = DOMAIN jobs \cup DOMAIN new
        /\ \A j \in DOMAIN new : js[j] = new[j] /\ new[j].attempt = NoAttempt
        /\ \A j \in DOMAIN jobs : j \notin DOMAIN new /\ js[j] = jobs[j]
    BY <1>a, <1>5 DEF Merge, Fresh, StoreInv, Within
  <2>2. up
    BY <1>5 DEF MakeJobs, DraftJobs
  <2>3. CASE MakeJobs(new)
    <3>1. \E s : Commit(cfg, workers, js, s)
      BY <2>3 DEF MakeJobs
    <3> HIDE DEF js
    <3>2. OwnedBy(js, Announced') /\ EndKept(jobs, js)
      BY <1>b, <2>1 DEF OwnedBy, EndKept
    <3> QED
      BY <1>a, <2>2, <3>1, <3>2, CommitFinal
  <2>4. CASE DraftJobs(new)
    <3>1. jobs' = js /\ disk' = disk /\ up'
      BY <2>4 DEF DraftJobs
    <3> HIDE DEF js
    <3>2. OwnedBy(js, Announced') /\ EndKept(jobs, js)
      BY <1>b, <2>1 DEF OwnedBy, EndKept
    <3>3. EndKept(disk.jobs, js)
      BY <1>a, <2>2, <3>2, EndKeptTrans DEF StoreInv, FinalInv
    <3> QED
      BY <1>b, <1>c, <3>1, <3>2, <3>3 DEF FinalJobs, EndKeptNow
  <2> QED
    BY <1>5, <2>3, <2>4
<1>6. ASSUME NEW j \in DOMAIN jobs, ChangeJob(j, CancelledOf(jobs[j]))
      PROVE  FinalJobs' /\ EndKeptNow
  <2> DEFINE js == [jobs EXCEPT ![j] = CancelledOf(jobs[j])]
  <2>1. up /\ \E s : Commit(cfg, workers, js, s)
    BY <1>6 DEF ChangeJob
  <2>2. /\ DOMAIN js = DOMAIN jobs
        /\ \A i \in DOMAIN jobs : /\ js[i].attempt = jobs[i].attempt
                                  /\ js[i].status \in {jobs[i].status, "cancelled"}
    BY <1>a DEF CancelledOf, Job
  <2> HIDE DEF js
  <2>3. OwnedBy(js, Announced') /\ EndKept(jobs, js)
    BY <1>b, <2>2 DEF OwnedBy, EndKept, Ended
  <2> QED
    BY <1>a, <2>1, <2>3, CommitFinal
<1> QED
  BY <1>1, <1>2, <1>3, <1>4, <1>5, <1>6 DEF QuietStep

\* An update of an announced owner does not say "running"; one that does, and
\* claims the job, was the last of its attempt.
LEMMA DeliverFinal ==
  ASSUME TypedGrid, FinalInv, Announced \subseteq Announced', NEW m \in net, Deliver(m)
  PROVE  FinalJobs' /\ EndKeptNow
<1> DEFINE j == m.job
           v == Updated(jobs[j], m.attempt, m.status, m.result)
           js == [jobs EXCEPT ![j] = v]
<1>a. StoreInv /\ jobs \in [DOMAIN jobs -> Job]
  BY MapsDef DEF TypedGrid, TypeInv, TypeOK
<1>b. OwnedBy(jobs, Announced')
  BY DEF FinalInv, OwnedBy
<1>1. /\ up /\ j \in DOMAIN jobs /\ AttemptAccepted(jobs[j], m.attempt)
      /\ \E s : Commit(cfg, workers, js, s)
  BY DEF Deliver, UpdateJob
<1>2. <<m.status, m.result>> \in Report /\ m.attempt \in Attempt
  BY DEF TypedGrid, NetOK, GridTypeOK, Message
<1>3. m.attempt = jobs[j].attempt => m.status # "running"
  BY <1>1, <1>2, ConstantsAssumption DEF FinalInv, OwnedBy, Announced
<1>4. m.status = "running" => m.attempt \in Announced'
  <2>1. /\ minted' = minted /\ execs' = execs /\ net' = net \ {m}
        /\ m.attempt \in minted /\ ~At(m.attempt, "spawned")
    BY DEF Deliver, FinalInv, Sent
  <2>2. m.status = "running" => \A n \in net \ {m} : n.attempt = m.attempt => n.status # "running"
    BY DEF FinalInv, Sent
  <2> QED
    BY <2>1, <2>2 DEF Announced, At
<1>5. /\ v.attempt = jobs[j].attempt \/ (v.attempt = m.attempt /\ m.status = "running")
      /\ m.status # "running" => v.status \in Ended
  <2>1. jobs[j] \in Job
    BY <1>a, <1>1
  <2>2. m.status # "running" =>
          m.status \in {"completed", "failed", "cancelled"} /\ m.result \in {"none", "hash", "other"}
    BY <1>2 DEF Report
  <2>3. v.attempt = Claimed(jobs[j], m.attempt, m.status)
    BY <2>1 DEF Updated, Job
  <2>4. m.status # "running" => v.status \in Ended
    BY <2>1, <2>2 DEF Updated, Job, Ended
  <2> QED
    BY <2>3, <2>4 DEF Claimed
<1>6. /\ DOMAIN js = DOMAIN jobs /\ js[j] = v
      /\ \A i \in DOMAIN jobs : i # j => js[i] = jobs[i]
  <2> HIDE DEF j, v
  <2> QED
    BY <1>a, <1>1
<1> HIDE DEF j, v, js
<1>7. OwnedBy(js, Announced')
  BY <1>b, <1>1, <1>4, <1>5, <1>6 DEF OwnedBy
<1>8. EndKept(jobs, js)
  <2>1. jobs[j].attempt # NoAttempt => v.status \in Ended
    BY <1>1, <1>3, <1>5 DEF AttemptAccepted
  <2> QED
    BY <1>6, <2>1 DEF EndKept
<1> QED
  BY <1>a, <1>1, <1>7, <1>8, CommitFinal

LEMMA FinalInit == GridInit => FinalInv
<1> SUFFICES ASSUME GridInit PROVE FinalInv
  OBVIOUS
<1>1. execs = EmptyMap /\ net = {} /\ jobs = EmptyMap /\ disk.jobs = EmptyMap
  BY DEF GridInit, PairedState
<1> QED
  BY <1>1 DEF EmptyMap, FinalInv, Sent, OwnedBy, EndKept

LEMMA FinalStep == TypedGrid /\ FinalInv /\ [GridNext]_gridVars => FinalInv' /\ EndKeptNow
<1> SUFFICES ASSUME TypedGrid, FinalInv, [GridNext]_gridVars PROVE FinalInv' /\ EndKeptNow
  OBVIOUS
<1>1. Sent' /\ Announced \subseteq Announced'
  BY SentStep DEF FinalInv
<1>2. FinalJobs' /\ EndKeptNow
  BY <1>1, GridShapes, QuietFinal, DeliverFinal
<1> QED
  BY <1>1, <1>2 DEF FinalInv, FinalJobs

\* A job that an attempt owns and that has ended never runs again, whatever is
\* lost, late or killed, and even when Save fails.
THEOREM EndIsFinal == GridSpec => OwnedEndIsFinal
<1>1. EndKeptNow => [ EndKept(disk.jobs, disk.jobs')
                      /\ (up /\ up' => EndKept(jobs, jobs')) ]_gridVars
  BY DEF EndKeptNow
<1> QED
  BY <1>1, FinalInit, FinalStep, GridTyped, PTL DEF GridSpec, OwnedEndIsFinal

-----------------------------------------------------------------------------
(* Without failures a job that runs has a goroutine that will report its end. *)

\* The coordinator serves, and every update on its way is small and comes from
\* a goroutine that waits for it.
Waiting ==
  /\ up
  /\ \A m \in net :
       /\ m.attempt \in DOMAIN execs /\ execs[m.attempt].job = m.job /\ ~m.large
       /\ m.status = "running" => At(m.attempt, "announcing")

AttendInv == Waiting /\ RunningAttended

\* What a commit that the process survives leaves in memory.
LEMMA CommitAnswered ==
  ASSUME "crash" \notin Faults, NEW c, NEW ws, NEW js, NEW s, Commit(c, ws, js, s)
  PROVE  up' /\ jobs' = js
BY DEF Commit, Answer, Die

\* A step that changes no goroutine and no message, and starts no job.
LEMMA QuietAttended ==
  ASSUME "crash" \notin Faults, TypedGrid, AttendInv, QuietStep, UNCHANGED <<execs, net>>
  PROVE  AttendInv'
<1>a. up /\ jobs \in [DOMAIN jobs -> Job]
  BY MapsDef DEF TypedGrid, TypeInv, TypeOK, AttendInv, Waiting
<1>1. /\ up'
      /\ \A j \in DOMAIN jobs' : (jobs')[j].status = "running" =>
           j \in DOMAIN jobs /\ (jobs')[j] = jobs[j]
  <2>1. CASE Restart \/ Crash
    BY <1>a, <2>1 DEF Restart, Crash
  <2>2. CASE NoJobStep \/ KeepJobs
    BY <1>a, <2>2, CommitAnswered DEF NoJobStep, KeepJobs
  <2>3. ASSUME NEW new, Fresh(new), MakeJobs(new) \/ DraftJobs(new)
        PROVE  /\ up'
               /\ \A j \in DOMAIN jobs' : (jobs')[j].status = "running" =>
                    j \in DOMAIN jobs /\ (jobs')[j] = jobs[j]
    <3>1. up' /\ jobs' = Merge(jobs, new)
      BY <1>a, <2>3, CommitAnswered DEF MakeJobs, DraftJobs
    <3>2. \A j \in DOMAIN new : new[j].status # "running"
      BY <2>3 DEF Fresh
    <3> QED
      BY <3>1, <3>2 DEF Merge
  <2>4. ASSUME NEW i \in DOMAIN jobs, ChangeJob(i, CancelledOf(jobs[i]))
        PROVE  /\ up'
               /\ \A j \in DOMAIN jobs' : (jobs')[j].status = "running" =>
                    j \in DOMAIN jobs /\ (jobs')[j] = jobs[j]
    <3>1. up' /\ jobs' = [jobs EXCEPT ![i] = CancelledOf(jobs[i])]
      BY <2>4, CommitAnswered DEF ChangeJob
    <3>2. CancelledOf(jobs[i]).status # "running"
      BY <1>a DEF CancelledOf, Job
    <3> QED
      BY <1>a, <3>1, <3>2
  <2> QED
    BY <2>1, <2>2, <2>3, <2>4 DEF QuietStep
<1> QED
  BY <1>1 DEF AttendInv, Waiting, RunningAttended, EndToCome, At

\* An update that is handled ends the job, or the goroutine that sent it has
\* still to report the end.
LEMMA DeliverAttended ==
  ASSUME "crash" \notin Faults, TypedGrid, AttendInv, NEW m \in net, Deliver(m)
  PROVE  AttendInv'
<1> DEFINE j == m.job
           a == m.attempt
           v == Updated(jobs[j], a, m.status, m.result)
<1>a. up /\ jobs \in [DOMAIN jobs -> Job]
  BY MapsDef DEF TypedGrid, TypeInv, TypeOK, AttendInv, Waiting
<1>1. /\ j \in DOMAIN jobs /\ AttemptAccepted(jobs[j], a)
      /\ up' /\ jobs' = [jobs EXCEPT ![j] = v]
      /\ execs' = execs /\ net' = net \ {m}
  BY CommitAnswered DEF Deliver, UpdateJob
<1>2. /\ a \in DOMAIN execs /\ execs[a].job = j
      /\ m.status = "running" => At(a, "announcing")
  BY DEF AttendInv, Waiting
<1>3. Waiting'
  BY <1>1 DEF AttendInv, Waiting, At
<1>4. /\ v.attempt \in {jobs[j].attempt, a}
      /\ m.status # "running" => v.status # "running"
  <2>1. jobs[j] \in Job
    BY <1>a, <1>1
  <2>2. <<m.status, m.result>> \in Report
    BY DEF TypedGrid, NetOK
  <2>3. m.status # "running" =>
          m.status \in {"completed", "failed", "cancelled"} /\ m.result \in {"none", "hash", "other"}
    BY <2>2 DEF Report
  <2>4. v.attempt = Claimed(jobs[j], a, m.status)
    BY <2>1 DEF Updated, Job
  <2>5. m.status # "running" => v.status # "running"
    BY <2>1, <2>3 DEF Updated, Job
  <2> QED
    BY <2>4, <2>5 DEF Claimed
<1> HIDE DEF j, a, v
<1>5. ASSUME NEW i \in DOMAIN jobs', (jobs')[i].status = "running"
      PROVE  \E b \in DOMAIN execs' : EndToCome(i, b)'
  <2>1. CASE i = j
    <3>1. (jobs')[i] = v /\ m.status = "running" /\ At(a, "announcing")
      BY <1>1, <1>2, <1>4, <1>5, <1>a, <2>1
    <3>2. (jobs')[i].attempt \in {NoAttempt, a}
      BY <1>1, <1>4, <2>1, <3>1 DEF AttemptAccepted
    <3> QED
      BY <1>1, <1>2, <2>1, <3>1, <3>2 DEF EndToCome, At
  <2>2. CASE i # j
    <3>1. i \in DOMAIN jobs /\ (jobs')[i] = jobs[i]
      BY <1>1, <1>a, <2>2
    <3>2. PICK b \in DOMAIN execs : EndToCome(i, b)
      BY <1>5, <3>1 DEF AttendInv, RunningAttended
    <3>3. b # a
      BY <1>2, <2>2, <3>2 DEF EndToCome
    <3> QED
      BY <1>1, <3>1, <3>2, <3>3 DEF EndToCome, At, a
  <2> QED
    BY <2>1, <2>2
<1> QED
  BY <1>3, <1>5 DEF AttendInv, RunningAttended

\* What is refused was sent by a goroutine that its job does not wait for.
LEMMA RefuseAttended ==
  ASSUME TypedGrid, AttendInv, NEW m \in net, Refuse(m)
  PROVE  AttendInv'
<1>1. UNCHANGED <<up, jobs, execs>> /\ net' = net \ {m} /\ ~Accepted(m)
  BY DEF Refuse, vars
<1>2. Waiting'
  BY <1>1 DEF AttendInv, Waiting, At
<1>3. ASSUME NEW j \in DOMAIN jobs, jobs[j].status = "running"
      PROVE  \E a \in DOMAIN execs : EndToCome(j, a)'
  <2>1. PICK a \in DOMAIN execs : EndToCome(j, a)
    BY <1>3 DEF AttendInv, RunningAttended
  <2>2. m.attempt # a
    <3>1. SUFFICES ASSUME m.attempt = a PROVE Accepted(m)
      BY <1>1
    <3>2. m.job = j /\ ~m.large
      BY <2>1, <3>1 DEF AttendInv, Waiting, EndToCome
    <3>3. jobs[j].worker \in DOMAIN workers
      BY DEF TypedGrid, StoreInv, Coherent, RefersTo
    <3> QED
      BY <2>1, <3>1, <3>2, <3>3 DEF Accepted, AttemptAccepted, EndToCome
  <2> QED
    BY <1>1, <2>1, <2>2 DEF EndToCome, At
<1> QED
  BY <1>1, <1>2, <1>3 DEF AttendInv, RunningAttended

\* One goroutine moves on from pc to qc, and may send an update.
LEMMA MoveAttended ==
  ASSUME AttendInv, execs \in [DOMAIN execs -> Exec], UNCHANGED <<up, jobs>>,
         NEW a \in DOMAIN execs, NEW qc, Goto(a, qc), NEW U, net' = net \cup U,
         \A u \in U : /\ u.attempt = a /\ execs[a].job = u.job /\ ~u.large
                      /\ u.status = "running" => qc = "announcing",
         At(a, "announcing") => \A m \in net : m.attempt # a,
         qc = "reporting" => U # {}
  PROVE  AttendInv'
<1>1. /\ DOMAIN execs' = DOMAIN execs /\ (execs')[a].job = execs[a].job
      /\ (execs')[a].pc = qc
      /\ \A b \in DOMAIN execs : b # a => (execs')[b] = execs[b]
  BY DEF Goto, Exec
<1>2. Waiting'
  BY <1>1 DEF AttendInv, Waiting, At
<1>3. ASSUME NEW j \in DOMAIN jobs, NEW b \in DOMAIN execs, EndToCome(j, b)
      PROVE  EndToCome(j, b)'
  BY <1>1, <1>3 DEF EndToCome, At
<1> QED
  BY <1>1, <1>2, <1>3 DEF AttendInv, RunningAttended

LEMMA ExecAttended ==
  ASSUME NetFaults = {}, TypedGrid, AttendInv, NEW a \in Attempt, ExecStep(a)
  PROVE  AttendInv'
<1>a. execs \in [DOMAIN execs -> Exec]
  <2>1. execs \in Maps(Attempt, Exec)
    BY Zenon DEF TypedGrid, GridTypeOK, Exec
  <2> QED
    BY <2>1, MapsDef
<1>b. CallReturned(a) => \A m \in net : m.attempt # a
  BY DEF CallReturned
<1>1. CASE Announce(a)
  <2> DEFINE u == Update(a, "running", "none", FALSE)
  <2>1. /\ a \in DOMAIN execs /\ At(a, "spawned") /\ Goto(a, "announcing")
        /\ net' = net \cup {u} /\ UNCHANGED <<up, jobs>>
    BY <1>1 DEF Announce, At, vars
  <2>2. u.attempt = a /\ execs[a].job = u.job /\ ~u.large
    BY DEF Update
  <2> DEFINE U == {u}
  <2>3. /\ net' = net \cup U /\ U # {}
        /\ \A x \in U : x.attempt = a /\ execs[a].job = x.job /\ ~x.large
    BY <2>1, <2>2
  <2>4. ~At(a, "announcing")
    BY <2>1 DEF At
  <2> HIDE DEF u, U
  <2> QED
    BY <1>a, <2>1, <2>3, <2>4, MoveAttended
<1>2. CASE Execute(a)
  <2>1. /\ a \in DOMAIN execs /\ Goto(a, "executing") /\ net' = net \cup {}
        /\ UNCHANGED <<up, jobs>> /\ CallReturned(a)
    BY <1>2 DEF Execute, At, vars
  <2> QED
    BY <1>a, <1>b, <2>1, MoveAttended
<1>3. CASE Conclude(a)
  <2>1. PICK o \in Outcome(execs[a].task), large \in LogsLarge(execs[a].task) :
          net' = net \cup {Update(a, o[1], o[2], large)}
    BY <1>3 DEF Conclude
  <2> DEFINE u == Update(a, o[1], o[2], large)
  <2>2. u.attempt = a /\ execs[a].job = u.job /\ ~u.large /\ u.status # "running"
    BY DEF Update, Outcome, LogsLarge
  <2>3. /\ a \in DOMAIN execs /\ At(a, "executing") /\ Goto(a, "reporting")
        /\ net' = net \cup {u} /\ UNCHANGED <<up, jobs>>
    BY <1>3, <2>1 DEF Conclude, At, vars
  <2> DEFINE U == {u}
  <2>4. /\ net' = net \cup U /\ U # {}
        /\ \A x \in U : /\ x.attempt = a /\ execs[a].job = x.job /\ ~x.large
                        /\ x.status # "running"
    BY <2>2, <2>3
  <2>5. ~At(a, "announcing")
    BY <2>3 DEF At
  <2> HIDE DEF u, U
  <2> QED
    BY <1>a, <2>3, <2>4, <2>5, MoveAttended
<1>4. CASE Return(a)
  <2>1. /\ At(a, "reporting") /\ \A m \in net : m.attempt # a
        /\ execs' = Without(execs, {a}) /\ net' = net /\ UNCHANGED <<up, jobs>>
    BY <1>4, <1>b DEF Return, vars
  <2>2. /\ DOMAIN execs' = DOMAIN execs \ {a}
        /\ \A b \in DOMAIN execs' : (execs')[b] = execs[b]
    BY <2>1 DEF Without
  <2>3. Waiting'
    BY <2>1, <2>2 DEF AttendInv, Waiting, At
  <2>4. ASSUME NEW j \in DOMAIN jobs, NEW b \in DOMAIN execs, EndToCome(j, b)
        PROVE  b \in DOMAIN execs' /\ EndToCome(j, b)'
    BY <2>1, <2>2, <2>4 DEF EndToCome, At
  <2> QED
    BY <2>1, <2>3, <2>4 DEF AttendInv, RunningAttended
<1> QED
  BY <1>1, <1>2, <1>3, <1>4 DEF ExecStep

LEMMA AttendStep ==
  ASSUME "crash" \notin Faults, NetFaults = {}, TypedGrid, Sent, AttendInv,
         [GridNext]_gridVars
  PROVE  AttendInv'
<1>1. ASSUME UNCHANGED <<execs, net>> PROVE AttendInv'
  <2>1. CASE QuietStep
    BY <1>1, <2>1, QuietAttended
  <2>2. ASSUME NEW m \in net, Deliver(m) PROVE AttendInv'
    BY <2>2, DeliverAttended
  <2> QED
    BY <2>1, <2>2, GridShapes
<1>2. CASE CoordinatorStep \/ UNCHANGED gridVars
  BY <1>1, <1>2 DEF CoordinatorStep, workerVars, gridVars
<1>3. ASSUME NEW w \in WorkerId, Poll(w) \/ Beat(w) \/ WorkerRestart(w)
             \/ \E j \in JobId : Skip(w, j)
      PROVE  AttendInv'
  BY <1>1, <1>3 DEF Poll, Beat, WorkerRestart, Skip, workerVars
<1>4. ASSUME NEW w \in WorkerId, NEW j \in JobId, NEW a \in Attempt, Spawn(w, j, a)
      PROVE  AttendInv'
  <2>1. /\ a \notin DOMAIN execs /\ net' = net /\ UNCHANGED <<up, jobs>>
        /\ \E e : execs' = Put(execs, a, e)
    BY <1>4 DEF Spawn, Sent, vars
  <2>2. /\ DOMAIN execs \subseteq DOMAIN execs'
        /\ \A b \in DOMAIN execs : (execs')[b] = execs[b]
    BY <2>1 DEF Put
  <2>3. Waiting'
    BY <2>1, <2>2 DEF AttendInv, Waiting, At
  <2>4. ASSUME NEW i \in DOMAIN jobs, NEW b \in DOMAIN execs, EndToCome(i, b)
        PROVE  EndToCome(i, b)'
    BY <2>1, <2>2, <2>4 DEF EndToCome, At
  <2> QED
    BY <2>1, <2>2, <2>3, <2>4 DEF AttendInv, RunningAttended
<1>5. ASSUME NEW w \in WorkerId, WorkerCrash(w) PROVE AttendInv'
  BY <1>5 DEF WorkerCrash
<1>6. ASSUME NEW m \in net, Lose(m) PROVE AttendInv'
  BY <1>6 DEF Lose, AttendInv, Waiting
<1> QED
  BY <1>2, <1>3, <1>4, <1>5, <1>6, ExecAttended, DeliverAttended, RefuseAttended
     DEF GridNext, PollStep

\* Without failures, however many goroutines were started for a job and
\* whenever it is cancelled, a job that runs has one that will report its end:
\* with a scheduler that is fair to it, the job ends.
THEOREM NoneUnattended ==
  "crash" \notin Faults /\ NetFaults = {} => (GridSpec => []RunningAttended)
<1> SUFFICES ASSUME "crash" \notin Faults, NetFaults = {}
             PROVE  GridSpec => []RunningAttended
  OBVIOUS
<1>1. GridInit => AttendInv
  BY DEF GridInit, PairedState, AttendInv, Waiting, RunningAttended, EmptyMap
<1>2. TypedGrid /\ FinalInv /\ AttendInv /\ [GridNext]_gridVars => AttendInv'
  BY AttendStep DEF FinalInv
<1>3. AttendInv => RunningAttended
  BY DEF AttendInv
<1> QED
  BY <1>1, <1>2, <1>3, GridTyped, FinalInit, FinalStep, PTL DEF GridSpec

-----------------------------------------------------------------------------
(* The grid implements JobLifecycle, provided Save does not fail: then what  *)
(* a client was told about is in the files.                                  *)

RefineInv == TypedGrid /\ FinalInv /\ ResultInv /\ JobsDurable

Before == View(Board, drawn.jobs)
Kept == DOMAIN seen.acked

LEMMA RefineInit == GridInit => RefineInv /\ Lifecycle!Init
<1> SUFFICES ASSUME GridInit PROVE RefineInv /\ Lifecycle!Init
  OBVIOUS
<1>1. Board = EmptyMap /\ seen.acked = EmptyMap /\ drawn.jobs = {}
  BY DEF GridInit, PairedState, Board
<1>2. Lifecycle!Init
  BY <1>1 DEF EmptyMap, Lifecycle!Init, Lifecycle!Unowned, View, Phase
<1> QED
  BY <1>2, GridTypeInit, FinalInit, PairedKept DEF RefineInv, DurableInv

LEMMA RefineInvStep ==
  ASSUME "saveError" \notin Faults, RefineInv, [GridNext]_gridVars
  PROVE  RefineInv'
<1>1. TypedGrid' /\ FinalInv'
  BY GridTypeStep, FinalStep DEF RefineInv
<1>2. [Next]_vars
  BY Projection DEF RefineInv, TypedGrid
<1>3. JobsDurable' /\ ResultInv'
  BY <1>2, JobsDurableStep, ResultStep DEF RefineInv, TypedGrid
<1> QED
  BY <1>1, <1>3 DEF RefineInv

\* Jobs that nobody saw coming are posted.
LEMMA PostView ==
  ASSUME NEW js, NEW new, NEW ids, DOMAIN js \subseteq ids,
         \A j \in DOMAIN new : /\ j \in JobId /\ j \notin ids
                               /\ new[j].status = "pending" /\ new[j].attempt = NoAttempt
  PROVE  /\ \A j \in DOMAIN new : View(js, ids)[j].phase = "absent"
         /\ View(Merge(js, new), ids \cup DOMAIN new) =
              [j \in JobId |-> IF j \in DOMAIN new
                                 THEN [phase |-> "waiting", owner |-> NoAttempt]
                                 ELSE View(js, ids)[j]]
<1>1. /\ DOMAIN Merge(js, new) = DOMAIN js \cup DOMAIN new
      /\ \A j \in DOMAIN new : Merge(js, new)[j] = new[j]
      /\ \A j \in DOMAIN js : j \notin DOMAIN new /\ Merge(js, new)[j] = js[j]
  BY DEF Merge
<1> HIDE DEF Merge
<1>2. \A j \in DOMAIN new : Phase(Merge(js, new), ids \cup DOMAIN new, j) = "waiting"
  BY <1>1 DEF Phase
<1>3. \A j \in JobId \ DOMAIN new :
        Phase(Merge(js, new), ids \cup DOMAIN new, j) = Phase(js, ids, j)
  BY <1>1 DEF Phase
<1>4. \A j \in DOMAIN new : Phase(js, ids, j) = "absent"
  BY DEF Phase
<1> HIDE DEF Phase
<1> QED
  BY <1>1, <1>2, <1>3, <1>4 DEF View

\* When the process dies and the files are still ds, the drafts of js are lost,
\* and with them the ids drawn for nothing.
LEMMA LoseView ==
  ASSUME NEW ds, NEW js, Drafted(ds, js), NEW ids, NEW jds,
         DOMAIN js \subseteq ids, ids \subseteq jds, jds \subseteq JobId
  PROVE  \E S \in SUBSET JobId :
           /\ S \cap DOMAIN ds = {}
           /\ \A j \in S : View(js, ids)[j].phase \in {"waiting", "absent"}
           /\ View(ds, jds) =
                [j \in JobId |-> IF j \in S THEN [phase |-> "lost", owner |-> NoAttempt]
                                            ELSE View(js, ids)[j]]
<1> DEFINE S == (DOMAIN js \ DOMAIN ds) \cup (jds \ ids)
<1>1. S \in SUBSET JobId /\ S \cap DOMAIN ds = {}
  BY DEF Drafted
<1>2. \A j \in S : Phase(js, ids, j) \in {"waiting", "absent"}
  BY DEF Drafted, Phase
<1>3. \A j \in S : Phase(ds, jds, j) = "lost" /\ j \notin DOMAIN ds
  BY DEF Drafted, Phase
<1>4. \A j \in JobId \ S :
        /\ Phase(ds, jds, j) = Phase(js, ids, j)
        /\ j \in DOMAIN ds <=> j \in DOMAIN js
        /\ j \in DOMAIN ds => ds[j] = js[j]
  BY DEF Drafted, Phase
<1> HIDE DEF S, Phase
<1>5. \A j \in S : View(js, ids)[j].phase \in {"waiting", "absent"}
  BY <1>1, <1>2 DEF View
<1>6. View(ds, jds) =
        [j \in JobId |-> IF j \in S THEN [phase |-> "lost", owner |-> NoAttempt]
                                    ELSE View(js, ids)[j]]
  BY <1>3, <1>4 DEF View
<1> QED
  BY <1>1, <1>5, <1>6

\* A change of one job, in the abstract: the life of j moves on, or stays.
ViewMove(js, ids, j, v) ==
  LET before == View(js, ids)
      after(phase, owner) ==
        View([js EXCEPT ![j] = v], ids) =
          [i \in JobId |-> IF i \in {j} THEN [phase |-> phase, owner |-> owner] ELSE before[i]]
      stays == View([js EXCEPT ![j] = v], ids) = before
  IN \/ before[j].phase = "waiting" /\ \E a \in Attempt : after("owned", a)
     \/ before[j].phase = "owned" /\ after("done", before[j].owner)
     \/ before[j].phase = "waiting" /\ after("stray", NoAttempt)
     \/ before[j].phase \in {"owned", "done", "stray"} /\ stays

LEMMA ChangeView ==
  ASSUME NEW js \in Maps(JobId, Job), NEW ids, NEW j \in DOMAIN js,
         NEW v, Changed(js[j], v),
         js[j].attempt # NoAttempt /\ js[j].status \in Ended => v.status \in Ended,
         js[j].status = "pending" => js[j].attempt = NoAttempt
  PROVE  ViewMove(js, ids, j, v)
<1> DEFINE ks == [js EXCEPT ![j] = v]
           old == js[j]
<1>a. js \in [DOMAIN js -> Job] /\ j \in JobId
  BY MapsDef
<1>1. /\ DOMAIN ks = DOMAIN js /\ ks[j] = v
      /\ \A i \in DOMAIN js : i # j => ks[i] = js[i]
  BY <1>a
<1>2. old \in Job
  BY <1>a
<1>3. /\ v.status # "pending"
      /\ v.status \in Ended \cup {"running"}
      /\ \/ v.attempt = old.attempt
         \/ v.attempt \in Attempt /\ old.status = "pending" /\ v.status = "running"
      /\ old.status = "pending" /\ v.attempt = NoAttempt => v.status \in Ended
  <2>1. CASE v = CancelledOf(old)
    BY <1>2, <2>1 DEF CancelledOf, Job, Ended
  <2>2. CASE UpdateOf(old, v)
    <3>1. PICK a \in Attempt, r \in Report : v = Updated(old, a, r[1], r[2])
      BY <2>2 DEF UpdateOf
    <3> HIDE DEF old
    <3>2. CASE r[1] = "running"
      <4>1. ~WrongAnswer(old, "running", r[2])
        BY DEF WrongAnswer
      <4>2. v.status = "running" /\ v.attempt = Claimed(old, a, "running")
        BY <1>2, <3>1, <3>2, <4>1 DEF Updated, Job
      <4> QED
        BY <4>2, ConstantsAssumption DEF Claimed
    <3>3. CASE r[1] \in {"completed", "failed", "cancelled"}
      BY <1>2, <3>1, <3>3 DEF Updated, Claimed, Job, Ended
    <3> QED
      BY <3>2, <3>3 DEF Report
  <2> QED
    BY <2>1, <2>2 DEF Changed
<1> HIDE DEF ks
<1>4. \A i \in JobId : i # j => View(ks, ids)[i] = View(js, ids)[i]
  BY <1>1 DEF View, Phase
<1>5. /\ View(js, ids)[j] = [phase |-> Phase(js, ids, j), owner |-> old.attempt]
      /\ View(ks, ids)[j] = [phase |-> Phase(ks, ids, j), owner |-> v.attempt]
  BY <1>a, <1>1 DEF View
<1>6. ASSUME NEW p, NEW o, View(ks, ids)[j] = [phase |-> p, owner |-> o]
      PROVE  View(ks, ids) =
               [i \in JobId |-> IF i \in {j} THEN [phase |-> p, owner |-> o]
                                             ELSE View(js, ids)[i]]
  BY <1>a, <1>4, <1>6 DEF View
<1>7. View(ks, ids)[j] = View(js, ids)[j] => View(ks, ids) = View(js, ids)
  BY <1>a, <1>4 DEF View
<1>8. CASE old.attempt = NoAttempt /\ old.status = "pending"
  <2>1. Phase(js, ids, j) = "waiting"
    BY <1>8 DEF Phase
  <2>2. CASE v.attempt = NoAttempt
    <3>1. Phase(ks, ids, j) = "stray"
      BY <1>1, <1>3, <2>2 DEF Phase
    <3>2. View(ks, ids) =
            [i \in JobId |-> IF i \in {j} THEN [phase |-> "stray", owner |-> NoAttempt]
                                          ELSE View(js, ids)[i]]
      BY <1>5, <1>6, <2>2, <3>1
    <3>3. View(js, ids)[j].phase = "waiting"
      BY <1>5, <2>1
    <3> HIDE DEF View
    <3> QED
      BY <3>2, <3>3 DEF ViewMove, ks
  <2>3. CASE v.attempt # NoAttempt
    <3>1. Phase(ks, ids, j) = "owned" /\ v.attempt \in Attempt
      BY <1>1, <1>3, <1>8, <2>3 DEF Phase, Ended
    <3>2. View(ks, ids) =
            [i \in JobId |-> IF i \in {j} THEN [phase |-> "owned", owner |-> v.attempt]
                                          ELSE View(js, ids)[i]]
      BY <1>5, <1>6, <3>1
    <3>3. View(js, ids)[j].phase = "waiting"
      BY <1>5, <2>1
    <3> HIDE DEF View
    <3> QED
      BY <3>1, <3>2, <3>3 DEF ViewMove, ks
  <2> QED
    BY <2>2, <2>3
<1>9. CASE old.attempt = NoAttempt /\ old.status # "pending"
  <2>1. Phase(js, ids, j) = "stray" /\ v.attempt = NoAttempt
    BY <1>3, <1>9 DEF Phase
  <2>2. Phase(ks, ids, j) = "stray"
    BY <1>1, <1>3, <2>1 DEF Phase
  <2>3. View(ks, ids) = View(js, ids) /\ View(js, ids)[j].phase = "stray"
    BY <1>5, <1>7, <1>9, <2>1, <2>2
  <2> HIDE DEF View
  <2> QED
    BY <2>3 DEF ViewMove, ks
<1>10. CASE old.attempt # NoAttempt
  <2>1. v.attempt = old.attempt
    BY <1>3, <1>10
  <2>2. CASE old.status \in Ended
    <3>1. Phase(js, ids, j) = "done" /\ Phase(ks, ids, j) = "done"
      BY <1>1, <1>10, <2>1, <2>2 DEF Phase
    <3>2. View(ks, ids) = View(js, ids) /\ View(js, ids)[j].phase = "done"
      BY <1>5, <1>7, <2>1, <3>1
    <3> HIDE DEF View
    <3> QED
      BY <3>2 DEF ViewMove, ks
  <2>3. CASE old.status \notin Ended /\ v.status \in Ended
    <3>1. Phase(js, ids, j) = "owned" /\ Phase(ks, ids, j) = "done"
      BY <1>1, <1>10, <2>1, <2>3 DEF Phase
    <3>2. View(js, ids)[j].phase = "owned" /\ View(js, ids)[j].owner = v.attempt
      BY <1>5, <2>1, <3>1
    <3>3. View(ks, ids) =
            [i \in JobId |-> IF i \in {j} THEN [phase |-> "done", owner |-> v.attempt]
                                          ELSE View(js, ids)[i]]
      BY <1>5, <1>6, <3>1
    <3> HIDE DEF View
    <3> QED
      BY <3>2, <3>3 DEF ViewMove, ks
  <2>4. CASE old.status \notin Ended /\ v.status \notin Ended
    <3>1. Phase(js, ids, j) = "owned" /\ Phase(ks, ids, j) = "owned"
      BY <1>1, <1>10, <2>1, <2>4 DEF Phase
    <3>2. View(ks, ids) = View(js, ids) /\ View(js, ids)[j].phase = "owned"
      BY <1>5, <1>7, <2>1, <3>1
    <3> HIDE DEF View
    <3> QED
      BY <3>2 DEF ViewMove, ks
  <2> QED
    BY <2>2, <2>3, <2>4
<1> QED
  BY <1>8, <1>9, <1>10


LEMMA LoseStep ==
  ASSUME RefineInv, up, Board' = disk.jobs, seen' = seen,
         drawn.jobs \subseteq drawn'.jobs, drawn'.jobs \subseteq JobId
  PROVE  Lifecycle!Next
<1>1. /\ Drafted(disk.jobs, jobs) /\ DOMAIN seen.acked \subseteq DOMAIN disk.jobs
      /\ DOMAIN jobs \subseteq drawn.jobs
      /\ Board = jobs
  BY DEF RefineInv, JobsDurable, Acks, TypedGrid, StoreInv, Within, Board
<1>2. PICK S \in SUBSET JobId :
        /\ S \cap DOMAIN disk.jobs = {}
        /\ \A j \in S : View(jobs, drawn.jobs)[j].phase \in {"waiting", "absent"}
        /\ View(disk.jobs, drawn'.jobs) =
             [j \in JobId |-> IF j \in S THEN [phase |-> "lost", owner |-> NoAttempt]
                                         ELSE View(jobs, drawn.jobs)[j]]
  <2> DEFINE ds == disk.jobs
             ids == drawn.jobs
             jds == drawn'.jobs
  <2>1. /\ Drafted(ds, jobs) /\ DOMAIN jobs \subseteq ids
        /\ ids \subseteq jds /\ jds \subseteq JobId
    BY <1>1
  <2> HIDE DEF ds, ids, jds
  <2>2. \E S \in SUBSET JobId :
          /\ S \cap DOMAIN ds = {}
          /\ \A j \in S : View(jobs, ids)[j].phase \in {"waiting", "absent"}
          /\ View(ds, jds) =
               [j \in JobId |-> IF j \in S THEN [phase |-> "lost", owner |-> NoAttempt]
                                           ELSE View(jobs, ids)[j]]
    BY <2>1, LoseView
  <2> QED
    BY <2>2 DEF ds, ids, jds
<1>3. Lifecycle!Lose(S)
  BY <1>1, <1>2 DEF Lifecycle!Lose, Lifecycle!Move, Lifecycle!In, Lifecycle!Unowned
<1> QED
  BY <1>3 DEF Lifecycle!Next

\* Where a commit leaves the board.
LEMMA CommitBoard ==
  ASSUME "saveError" \notin Faults, up, NEW c, NEW ws, NEW js, NEW s, Commit(c, ws, js, s)
  PROVE  \/ Board' = js /\ (seen' = s \/ seen' = seen)
         \/ Board' = disk.jobs /\ seen' = seen
<1>1. CASE Answer(c, ws, js, s)
  BY <1>1 DEF Answer, Board
<1>2. CASE Die(c, ws, js)
  <2>1. ~up' /\ seen' = seen /\ (disk'.jobs = disk.jobs \/ disk'.jobs = js)
    BY <1>2 DEF Die, Saved
  <2> QED
    BY <2>1 DEF Board
<1> QED
  BY <1>1, <1>2 DEF Commit

LEMMA RefineStep ==
  ASSUME "saveError" \notin Faults, RefineInv, [GridNext]_gridVars
  PROVE  [Lifecycle!Next]_(Lifecycle!vars)
<1>a. /\ TypeInv /\ jobs \in Maps(JobId, Job) /\ DOMAIN jobs \subseteq JobId
      /\ drawn.jobs \subseteq JobId /\ DOMAIN jobs \subseteq drawn.jobs
      /\ DOMAIN disk.jobs \subseteq drawn.jobs
      /\ jobs \in [DOMAIN jobs -> Job]
  BY MapsDef DEF RefineInv, TypedGrid, TypeInv, TypeOK, StoreInv, Within
<1>b. drawn'.jobs \subseteq JobId
  <2>1. TypeInv'
    BY GridTypeStep DEF RefineInv, TypedGrid
  <2> QED
    BY <2>1 DEF TypeInv, TypeOK
<1>c. up => Board = jobs
  BY DEF Board
<1>d. ASSUME Board' = Board, drawn'.jobs = drawn.jobs, seen'.acked = seen.acked
      PROVE  UNCHANGED Lifecycle!vars
  BY <1>d DEF Lifecycle!vars
<1>1. CASE Restart
  <2>1. Board' = Board /\ drawn' = drawn /\ seen' = seen
    BY <1>1 DEF Restart, Board
  <2> QED
    BY <1>d, <2>1
<1>2. CASE Crash
  BY <1>2, <1>b, LoseStep DEF Crash, Board
<1>3. CASE NoJobStep
  BY <1>3, <1>d DEF NoJobStep, Board
<1>4. CASE KeepJobs
  <2>1. PICK c, ws, s : up /\ s.acked = seen.acked /\ Commit(c, ws, jobs, s)
    BY <1>4 DEF KeepJobs
  <2>2. drawn'.jobs = drawn.jobs
    BY <1>4 DEF KeepJobs
  <2>3. CASE Board' = jobs /\ (seen' = s \/ seen' = seen)
    BY <1>c, <1>d, <2>1, <2>2, <2>3
  <2>4. CASE Board' = disk.jobs /\ seen' = seen
    BY <1>a, <2>1, <2>2, <2>4, LoseStep
  <2> QED
    BY <2>1, <2>3, <2>4, CommitBoard
<1>5. ASSUME NEW new, Fresh(new), MakeJobs(new) \/ DraftJobs(new)
      PROVE  Lifecycle!Next
  <2>1. up /\ drawn'.jobs = drawn.jobs \cup DOMAIN new
    BY <1>5 DEF MakeJobs, DraftJobs
  <2>2. CASE Board' = Merge(jobs, new) /\ (seen' = Told(new) \/ seen' = seen)
    <3>1. /\ \A j \in DOMAIN new : View(jobs, drawn.jobs)[j].phase = "absent"
          /\ View(Merge(jobs, new), drawn.jobs \cup DOMAIN new) =
               [j \in JobId |-> IF j \in DOMAIN new
                                  THEN [phase |-> "waiting", owner |-> NoAttempt]
                                  ELSE View(jobs, drawn.jobs)[j]]
      <4> DEFINE ids == drawn.jobs
      <4>1. /\ DOMAIN jobs \subseteq ids
            /\ \A j \in DOMAIN new : /\ j \in JobId /\ j \notin ids
                                     /\ new[j].status = "pending"
                                     /\ new[j].attempt = NoAttempt
        BY <1>5, <1>a DEF Fresh
      <4> HIDE DEF ids
      <4>2. /\ \A j \in DOMAIN new : View(jobs, ids)[j].phase = "absent"
            /\ View(Merge(jobs, new), ids \cup DOMAIN new) =
                 [j \in JobId |-> IF j \in DOMAIN new
                                    THEN [phase |-> "waiting", owner |-> NoAttempt]
                                    ELSE View(jobs, ids)[j]]
        BY <4>1, PostView
      <4> QED
        BY <4>2 DEF ids
    <3>2. DOMAIN new \subseteq JobId
      BY <1>5 DEF Fresh
    <3>3. Lifecycle!Confirm(DOMAIN new)
      <4>1. DOMAIN Told(new).acked = DOMAIN seen.acked \cup DOMAIN new
        BY <1>a DEF Told, Merge, TypeInv, TypeOK
      <4> QED
        BY <2>2, <4>1 DEF Lifecycle!Confirm
    <3>4. Lifecycle!Post(DOMAIN new)
      BY <1>c, <2>1, <2>2, <3>1, <3>3 DEF Lifecycle!Post, Lifecycle!Move, Lifecycle!In,
         Lifecycle!Unowned
    <3> QED
      BY <3>2, <3>4 DEF Lifecycle!Next
  <2>3. CASE Board' = disk.jobs /\ seen' = seen
    BY <1>b, <2>1, <2>3, LoseStep
  <2>4. CASE MakeJobs(new)
    BY <2>1, <2>2, <2>3, <2>4, CommitBoard DEF MakeJobs
  <2>5. CASE DraftJobs(new)
    BY <2>2, <2>5 DEF DraftJobs, Board
  <2> QED
    BY <1>5, <2>4, <2>5
<1>6. ASSUME NEW j \in DOMAIN jobs, NEW v, Changed(jobs[j], v), ChangeJob(j, v),
             jobs[j].attempt # NoAttempt /\ jobs[j].status \in Ended => v.status \in Ended
      PROVE  Lifecycle!Next
  <2> DEFINE js == [jobs EXCEPT ![j] = v]
             new == [i \in {j} |-> js[i]]
  <2>1. up /\ drawn' = drawn /\ Commit(cfg, workers, js, Told(new))
    BY <1>6 DEF ChangeJob
  <2>2. j \in JobId
    BY <1>a
  <2>3. CASE Board' = js /\ (seen' = Told(new) \/ seen' = seen)
    <3>1. ViewMove(jobs, drawn.jobs, j, v)
      <4>1. jobs[j].status = "pending" => jobs[j].attempt = NoAttempt
        BY <1>6 DEF RefineInv, ResultInv, WrittenByOwner
      <4> QED
        BY <1>a, <1>6, <4>1, ChangeView
    <3>2. Lifecycle!Confirm({j})
      <4>1. DOMAIN Told(new).acked = DOMAIN seen.acked \cup {j}
        BY <1>a DEF Told, Merge, TypeInv, TypeOK
      <4> QED
        BY <2>3, <4>1 DEF Lifecycle!Confirm
    <3>3. Board = jobs /\ Board' = [jobs EXCEPT ![j] = v] /\ drawn' = drawn
      BY <1>c, <2>1, <2>3
    <3> HIDE DEF js, new
    <3>4. \/ \E a \in Attempt : Lifecycle!Claim(j, a)
          \/ Lifecycle!Finish(j) \/ Lifecycle!Stray(j) \/ Lifecycle!Repeat(j)
      BY <3>1, <3>2, <3>3 DEF ViewMove, Lifecycle!Claim, Lifecycle!Finish, Lifecycle!Stray,
         Lifecycle!Repeat, Lifecycle!Move, Lifecycle!In, Lifecycle!Unowned
    <3> QED
      BY <2>2, <3>4 DEF Lifecycle!Next
  <2>4. CASE Board' = disk.jobs /\ seen' = seen
    BY <1>a, <2>1, <2>4, LoseStep
  <2> HIDE DEF js, new
  <2> QED
    BY <2>1, <2>3, <2>4, CommitBoard
<1>7. ASSUME NEW j \in DOMAIN jobs, ChangeJob(j, CancelledOf(jobs[j]))
      PROVE  Lifecycle!Next
  <2>1. CancelledOf(jobs[j]).status \in Ended
    BY <1>a DEF CancelledOf, Ended, Job
  <2> QED
    BY <1>6, <1>7, <2>1 DEF Changed
<1>8. ASSUME NEW m \in net, Deliver(m) PROVE Lifecycle!Next
  <2> DEFINE j == m.job
             v == Updated(jobs[j], m.attempt, m.status, m.result)
  <2>1. m.attempt \in Attempt /\ <<m.status, m.result>> \in Report
    BY DEF RefineInv, TypedGrid, NetOK, GridTypeOK, Message
  <2>2. PICK r \in Report : r[1] = m.status /\ r[2] = m.result
    BY <2>1
  <2>3. /\ j \in DOMAIN jobs /\ AttemptAccepted(jobs[j], m.attempt)
        /\ ChangeJob(j, v)
    <3>1. UpdateJob(j, m.attempt, r[1], r[2])
      BY <1>8, <2>2 DEF Deliver
    <3> QED
      BY <2>1, <2>2, <3>1, UpdateShape
  <2>4. Changed(jobs[j], v)
    BY <2>1, <2>2, <2>3 DEF Changed, UpdateOf
  <2>5. jobs[j].attempt # NoAttempt => v.status \in Ended
    <3>1. jobs[j].attempt # NoAttempt => m.status # "running"
      BY <2>3 DEF RefineInv, FinalInv, OwnedBy, Announced, AttemptAccepted
    <3>2. m.status # "running" =>
            m.status \in {"completed", "failed", "cancelled"} /\ m.result \in {"none", "hash", "other"}
      BY <2>1 DEF Report
    <3>3. jobs[j] \in Job
      BY <1>a, <2>3
    <3> QED
      BY <3>1, <3>2, <3>3 DEF Updated, Job, Ended
  <2> HIDE DEF j, v
  <2> QED
    BY <1>6, <2>3, <2>4, <2>5
<1> QED
  <2>1. QuietStep \/ \E m \in net : Deliver(m)
    BY GridShapes DEF RefineInv
  <2>2. CASE QuietStep
    BY <1>1, <1>2, <1>3, <1>4, <1>5, <1>7, <2>2 DEF QuietStep
  <2> QED
    BY <1>8, <2>1, <2>2

\* Whatever is lost, late or killed, but with a Save that does not fail, every
\* job lives one of the lives JobLifecycle allows.
THEOREM Refinement == "saveError" \notin Faults => (GridSpec => JobsRefine)
<1> SUFFICES ASSUME "saveError" \notin Faults PROVE GridSpec => JobsRefine
  OBVIOUS
<1>1. GridInit => RefineInv /\ Lifecycle!Init
  BY RefineInit
<1>2. RefineInv /\ [GridNext]_gridVars => RefineInv'
  BY RefineInvStep
<1>3. RefineInv /\ [GridNext]_gridVars => [Lifecycle!Next]_(Lifecycle!vars)
  BY RefineStep
<1> QED
  BY <1>1, <1>2, <1>3, PTL DEF GridSpec, JobsRefine, Lifecycle!Spec
=============================================================================
