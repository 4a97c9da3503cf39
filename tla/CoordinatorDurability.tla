----------------------- MODULE CoordinatorDurability -----------------------
(***************************************************************************)
(* What survives when the process may die anywhere but Save does not fail: *)
(* everything that was answered.  Then memory and files agree whenever the *)
(* coordinator serves, except for the jobs a refused manifest left in      *)
(* memory.                                                                 *)
(***************************************************************************)
EXTENDS CoordinatorProofs

-----------------------------------------------------------------------------
(* The jobs.                                                                *)

\* ks holds the jobs js and otherwise only jobs that wait unowned.
Drafted(js, ks) ==
  /\ DOMAIN js \subseteq DOMAIN ks
  /\ \A j \in DOMAIN js : ks[j] = js[j]
  /\ \A j \in DOMAIN ks \ DOMAIN js : ks[j].status = "pending" /\ ks[j].attempt = NoAttempt

\* The files js have every job that was answered, with the owner named then.
Acks(js, s) ==
  \A j \in DOMAIN s.acked :
    j \in DOMAIN js /\ (s.acked[j] # NoAttempt => js[j].attempt = s.acked[j])

JobsDurable == (up => Drafted(disk.jobs, jobs)) /\ Acks(disk.jobs, seen)

\* The jobs a serving coordinator works on are those of the files, and more.
LEMMA DraftedKept ==
  ASSUME NEW js, NEW ks, Drafted(js, ks)
  PROVE  DOMAIN js \subseteq DOMAIN ks /\ AttemptsKept(js, ks)
BY DEF Drafted, AttemptsKept

\* Answers about the jobs new, given out when the files become js.
LEMMA ToldAcks ==
  ASSUME TypeInv, NEW js, NEW new,
         Acks(disk.jobs, seen), AttemptsKept(disk.jobs, js), DOMAIN disk.jobs \subseteq DOMAIN js,
         \A j \in DOMAIN new : j \in DOMAIN js /\ js[j] = new[j]
  PROVE  Acks(js, Told(new))
<1> DEFINE at == [j \in DOMAIN new |-> new[j].attempt]
<1>1. Told(new).acked = Merge(seen.acked, at)
  BY DEF Told, TypeInv, TypeOK
<1>2. /\ DOMAIN Merge(seen.acked, at) = DOMAIN seen.acked \cup DOMAIN new
      /\ \A j \in DOMAIN new : Merge(seen.acked, at)[j] = new[j].attempt
      /\ \A j \in DOMAIN seen.acked \ DOMAIN new : Merge(seen.acked, at)[j] = seen.acked[j]
  BY DEF Merge
<1> HIDE DEF at
<1>3. ASSUME NEW j \in DOMAIN seen.acked
      PROVE  j \in DOMAIN js /\ (seen.acked[j] # NoAttempt => js[j].attempt = seen.acked[j])
  BY <1>3 DEF Acks, AttemptsKept
<1> QED
  BY <1>1, <1>2, <1>3 DEF Acks

\* Committing jobs js that take nothing back, with answers that js bears out.
LEMMA CommitJobs ==
  ASSUME "saveError" \notin Faults, Acks(disk.jobs, seen),
         NEW c, NEW ws, NEW js, NEW s, Commit(c, ws, js, s),
         AttemptsKept(disk.jobs, js), DOMAIN disk.jobs \subseteq DOMAIN js, Acks(js, s)
  PROVE  JobsDurable'
<1>1. CASE Answer(c, ws, js, s)
  <2>1. jobs' = js /\ disk'.jobs = js /\ seen' = s
    BY <1>1 DEF Answer, Saved
  <2> QED
    BY <2>1 DEF JobsDurable, Drafted
<1>2. CASE Die(c, ws, js)
  <2>1. ~up' /\ seen' = seen /\ (disk'.jobs = disk.jobs \/ disk'.jobs = js)
    BY <1>2 DEF Die, Saved
  <2>2. Acks(js, seen)
    BY DEF Acks, AttemptsKept
  <2> QED
    BY <2>1, <2>2 DEF JobsDurable
<1> QED
  BY <1>1, <1>2 DEF Commit

LEMMA JobsDurableInit == Init => JobsDurable
BY DEF Init, EmptyMap, JobsDurable, Acks

LEMMA JobsDurableStep ==
  ASSUME "saveError" \notin Faults, TypeInv, StoreInv, JobsDurable, [Next]_vars
  PROVE  JobsDurable'
<1> USE DEF JobsDurable
<1>a. JobStep
  BY JobShapes
<1>b. AttemptsKept(disk.jobs, disk.jobs)
  BY DEF AttemptsKept
<1>c. jobs \in [DOMAIN jobs -> Job]
  BY MapsDef DEF TypeInv, TypeOK
<1>1. CASE StartFresh
  BY <1>1, <1>b, CommitJobs DEF StartFresh
<1>2. CASE Restart
  BY <1>2 DEF Restart, Drafted
<1>3. CASE Crash
  BY <1>3 DEF Crash
<1>4. CASE NoJobStep
  BY <1>4 DEF NoJobStep
<1>5. CASE KeepJobs
  <2>1. PICK c, ws, s : up /\ s.acked = seen.acked /\ Commit(c, ws, jobs, s)
    BY <1>5 DEF KeepJobs
  <2>2. Acks(jobs, s)
    BY <2>1 DEF Acks, Drafted
  <2> QED
    BY <2>1, <2>2, DraftedKept, CommitJobs
<1>6. ASSUME NEW new, Fresh(new), MakeJobs(new) \/ DraftJobs(new) PROVE JobsDurable'
  <2> DEFINE js == Merge(jobs, new)
  <2>1. up
    BY <1>6 DEF MakeJobs, DraftJobs
  <2>2. /\ DOMAIN js = DOMAIN jobs \cup DOMAIN new
        /\ \A j \in DOMAIN new : js[j] = new[j]
        /\ \A j \in DOMAIN jobs \ DOMAIN new : js[j] = jobs[j]
    BY DEF Merge
  <2>3. \A j \in DOMAIN new : j \notin DOMAIN jobs
    BY <1>6 DEF Fresh, StoreInv, Within
  <2> HIDE DEF js
  <2>4. Drafted(disk.jobs, js)
    BY <1>6, <2>1, <2>2, <2>3 DEF Drafted, Fresh
  <2>5. CASE MakeJobs(new)
    <3>1. Acks(js, Told(new))
      BY <2>2, <2>4, DraftedKept, ToldAcks
    <3> QED
      BY <2>4, <2>5, <3>1, DraftedKept, CommitJobs DEF MakeJobs, js
  <2>6. CASE DraftJobs(new)
    BY <2>4, <2>6 DEF DraftJobs, js
  <2> QED
    BY <1>6, <2>5, <2>6
<1>7. ASSUME NEW j \in DOMAIN jobs, NEW v, Changed(jobs[j], v), ChangeJob(j, v)
      PROVE  JobsDurable'
  <2> DEFINE js == [jobs EXCEPT ![j] = v]
             new == [i \in {j} |-> js[i]]
  <2>1. up /\ Commit(cfg, workers, js, Told(new))
    BY <1>7 DEF ChangeJob
  <2>2. jobs[j].attempt # NoAttempt => v.attempt = jobs[j].attempt
    BY <1>7, <1>c DEF Changed, CancelledOf, UpdateOf, Updated, Claimed, Job
  <2>3. /\ DOMAIN js = DOMAIN jobs /\ js[j] = v
        /\ \A i \in DOMAIN jobs : i # j => js[i] = jobs[i]
        /\ DOMAIN new = {j} /\ new[j] = js[j]
    BY <1>c
  <2> HIDE DEF js, new
  <2>4. DOMAIN disk.jobs \subseteq DOMAIN js /\ AttemptsKept(disk.jobs, js)
    BY <2>1, <2>2, <2>3 DEF Drafted, AttemptsKept
  <2>5. Acks(js, Told(new))
    BY <2>3, <2>4, ToldAcks
  <2> QED
    BY <2>1, <2>4, <2>5, CommitJobs
<1> QED
  BY <1>a, <1>1, <1>2, <1>3, <1>4, <1>5, <1>6, <1>7 DEF JobStep
-----------------------------------------------------------------------------
(* Configuration and workers.                                               *)

\* Workers that were answered are in ws, and pinned the certificate of c.
Pins(c, ws, s) ==
  \A w \in DOMAIN s.told : w \in DOMAIN ws /\ s.told[w] = c.cert /\ c.cert # 0

\* The failure count of c covers the wrong guesses answered for its code.
Guessed(c, s) == c.code # NoCode => s.wrong[c.issue] <= c.failures

\* GuessBound, and a code not yet generated has not been guessed at.
Bounded(s, d) ==
  \A i \in 1..MaxIssue :
    s.wrong[i] <= MaxFailures + 1 /\ (i > d.issues => s.wrong[i] = 0)

ConfigDurable ==
  /\ up => cfg = disk.cfg /\ workers = disk.workers /\ cfg.cert # 0
  /\ Pins(disk.cfg, disk.workers, seen)
  /\ Guessed(disk.cfg, seen)
  /\ Bounded(seen, drawn)

\* Committing a configuration that honours what was answered so far and what
\* is being answered.
LEMMA CommitConfig ==
  ASSUME "saveError" \notin Faults, ConfigDurable,
         NEW c, NEW ws, NEW js, NEW s, Commit(c, ws, js, s), c.cert # 0,
         DOMAIN disk.workers \subseteq DOMAIN ws,
         Pins(c, disk.workers, seen), Pins(c, ws, s),
         Guessed(c, seen), Guessed(c, s),
         Bounded(seen, drawn'), Bounded(s, drawn')
  PROVE  ConfigDurable'
<1>1. CASE Answer(c, ws, js, s)
  <2>1. cfg' = c /\ workers' = ws /\ disk'.cfg = c /\ disk'.workers = ws /\ seen' = s
    BY <1>1 DEF Answer, Saved
  <2> QED
    BY <2>1 DEF ConfigDurable
<1>2. CASE Die(c, ws, js)
  <2>1. /\ ~up' /\ seen' = seen
        /\ \/ disk'.cfg = disk.cfg /\ disk'.workers = disk.workers
           \/ disk'.cfg = c /\ disk'.workers = disk.workers
           \/ disk'.cfg = c /\ disk'.workers = ws
    BY <1>2 DEF Die, Saved
  <2>2. Pins(c, ws, seen)
    BY DEF Pins
  <2> QED
    BY <2>1, <2>2 DEF ConfigDurable
<1> QED
  BY <1>1, <1>2 DEF Commit

\* The same for a handler of a serving coordinator that leaves the
\* configuration and the answers to pairing alone.
LEMMA CommitSameConfig ==
  ASSUME "saveError" \notin Faults, ConfigDurable, up,
         NEW ws, NEW js, NEW s, Commit(cfg, ws, js, s),
         DOMAIN ws = DOMAIN workers, s.told = seen.told, s.wrong = seen.wrong,
         drawn'.issues = drawn.issues
  PROVE  ConfigDurable'
<1>1. Pins(cfg, disk.workers, seen) /\ Pins(cfg, ws, s)
  BY DEF ConfigDurable, Pins
<1>2. Guessed(cfg, seen) /\ Guessed(cfg, s)
  BY DEF ConfigDurable, Guessed
<1>3. Bounded(seen, drawn') /\ Bounded(s, drawn')
  BY DEF ConfigDurable, Bounded
<1>4. cfg.cert # 0 /\ DOMAIN disk.workers \subseteq DOMAIN ws
  BY DEF ConfigDurable
<1> QED
  BY <1>1, <1>2, <1>3, <1>4, CommitConfig

\* Answers about jobs say nothing about pairing.
LEMMA ToldSame ==
  ASSUME TypeInv, NEW new
  PROVE  Told(new).told = seen.told /\ Told(new).wrong = seen.wrong
BY DEF Told, TypeInv, TypeOK

LEMMA ConfigInit == Init => ConfigDurable
<1> SUFFICES ASSUME Init PROVE ConfigDurable
  OBVIOUS
<1>1. /\ ~up /\ disk.cfg = EmptyCfg /\ seen.told = EmptyMap
      /\ \A i \in 1..MaxIssue : seen.wrong[i] = 0
  BY DEF Init
<1>2. Pins(disk.cfg, disk.workers, seen) /\ Guessed(disk.cfg, seen)
  BY <1>1 DEF EmptyMap, EmptyCfg, Pins, Guessed
<1>3. Bounded(seen, drawn)
  BY <1>1, ConstantsAssumption DEF Bounded
<1> QED
  BY <1>1, <1>2, <1>3 DEF ConfigDurable

LEMMA ConfigStep ==
  ASSUME "saveError" \notin Faults, TypeInv, StoreInv, ConfigDurable, [Next]_vars
  PROVE  ConfigDurable'
<1>a. /\ seen \in SeenType /\ seen.wrong \in [1..MaxIssue -> Nat]
      /\ cfg \in CoordinatorState /\ disk.cfg \in CoordinatorState
      /\ drawn \in [workers : SUBSET WorkerId, jobs : SUBSET JobId,
                    issues : 0..MaxIssue, certs : 0..MaxCert]
      /\ drawn.issues \in 0..MaxIssue /\ drawn.certs \in 0..MaxCert
      /\ Numbered(cfg)
  BY DEF TypeInv, TypeOK, SeenType
\* Making, changing and keeping jobs.
<1>b. ASSUME NEW ws, NEW js, NEW s, up, Commit(cfg, ws, js, s),
             DOMAIN ws = DOMAIN workers, s = seen \/ \E new : s = Told(new),
             drawn'.issues = drawn.issues
      PROVE  ConfigDurable'
  BY <1>b, ToldSame, CommitSameConfig
<1>1. CASE StartFresh
  <2> DEFINE c == [disk.cfg EXCEPT !.cert = drawn.certs + 1]
  <2>1. /\ c.code = disk.cfg.code /\ c.issue = disk.cfg.issue
        /\ c.failures = disk.cfg.failures /\ c.cert = drawn.certs + 1
    BY <1>a DEF CoordinatorState
  <2>2. /\ Commit(c, disk.workers, disk.jobs, seen) /\ ~up
        /\ disk.cfg.cert = 0 /\ drawn'.issues = drawn.issues
    BY <1>1, <1>a DEF StartFresh
  <2>3. c.cert # 0
    BY <1>a, <2>1, ConstantsAssumption
  <2> HIDE DEF c
  <2>4. DOMAIN seen.told = {}
    BY <2>2 DEF ConfigDurable, Pins
  <2>5. Pins(c, disk.workers, seen)
    BY <2>4 DEF Pins
  <2>6. Guessed(c, seen) /\ Bounded(seen, drawn')
    BY <2>1, <2>2 DEF ConfigDurable, Guessed, Bounded
  <2> QED
    BY <2>2, <2>3, <2>5, <2>6, CommitConfig
<1>2. CASE Restart
  BY <1>2 DEF Restart, ConfigDurable
<1>3. CASE Tick \/ Crash \/ UNCHANGED vars
  BY <1>3 DEF Tick, Crash, vars, ConfigDurable
<1>4. CASE CheckWorkerStatus
  BY <1>4, <1>b DEF CheckWorkerStatus
<1>5. ASSUME NEW code \in Code, GenerateCode(code) PROVE ConfigDurable'
  <2> DEFINE n == drawn.issues + 1
             c == [cfg EXCEPT !.code = code, !.issue = n,
                              !.expiry = now + PairingTTL, !.failures = 0]
  <2>1. c.cert = cfg.cert /\ c.issue = n /\ c.failures = 0
    BY <1>a DEF CoordinatorState
  <2>2. /\ up /\ Commit(c, workers, jobs, seen)
        /\ n \in 1..MaxIssue /\ drawn'.issues = n
    BY <1>5, <1>a, ConstantsAssumption DEF GenerateCode
  <2> HIDE DEF c
  <2>3. seen.wrong[n] = 0
    BY <1>a, <2>2 DEF ConfigDurable, Bounded, n
  <2>4. Guessed(c, seen)
    BY <2>1, <2>3 DEF Guessed
  <2>5. Bounded(seen, drawn')
    BY <1>a, <2>2, ConstantsAssumption DEF ConfigDurable, Bounded, n
  <2>6. c.cert # 0 /\ Pins(c, disk.workers, seen)
    BY <2>1, <2>2 DEF ConfigDurable, Pins
  <2> QED
    BY <2>2, <2>4, <2>5, <2>6, CommitConfig DEF ConfigDurable
<1>6. ASSUME NEW code \in Code, PairRejected(code) PROVE ConfigDurable'
  <2> DEFINE c == [cfg EXCEPT !.failures = @ + 1]
             s == CountWrong(code)
  <2>1. /\ c.cert = cfg.cert /\ c.issue = cfg.issue /\ c.code = cfg.code
        /\ c.failures = cfg.failures + 1 /\ cfg.failures \in Nat
        /\ cfg.failures <= MaxFailures
    BY <1>6, <1>a, ConstantsAssumption DEF PairRejected, PairingOpen, CoordinatorState
  <2>2. up /\ Commit(c, workers, jobs, s) /\ drawn' = drawn
    BY <1>6 DEF PairRejected
  <2>3. Guessed(cfg, seen)
    BY <2>2 DEF ConfigDurable
  <2>4. /\ s.told = seen.told
        /\ \/ s.wrong = seen.wrong
           \/ cfg.code # NoCode /\ s.wrong = [seen.wrong EXCEPT ![cfg.issue] = @ + 1]
    BY <1>a DEF CountWrong, SeenType
  <2> HIDE DEF c, s
  <2>5. Guessed(c, seen)
    <3>1. cfg.code # NoCode => seen.wrong[cfg.issue] \in Nat
      BY <1>a DEF Numbered
    <3> QED
      BY <2>1, <2>3, <3>1, ConstantsAssumption DEF Guessed
  <2>6. CASE s.wrong = seen.wrong
    <3>1. Guessed(c, s) /\ Bounded(s, drawn')
      BY <2>2, <2>5, <2>6 DEF Guessed, Bounded, ConfigDurable
    <3>2. c.cert # 0 /\ Pins(c, disk.workers, seen) /\ Pins(c, workers, s)
      BY <2>1, <2>2, <2>4 DEF ConfigDurable, Pins
    <3> QED
      BY <2>2, <2>5, <3>1, <3>2, CommitConfig DEF ConfigDurable
  <2>7. CASE cfg.code # NoCode /\ s.wrong = [seen.wrong EXCEPT ![cfg.issue] = @ + 1]
    <3>1. /\ cfg.issue \in 1..MaxIssue /\ cfg.issue <= drawn.issues
          /\ seen.wrong[cfg.issue] <= cfg.failures
      BY <1>a, <2>3, <2>7 DEF Numbered, StoreInv, Within, Guessed
    <3>2. /\ s.wrong[cfg.issue] = seen.wrong[cfg.issue] + 1
          /\ \A i \in 1..MaxIssue : i # cfg.issue => s.wrong[i] = seen.wrong[i]
          /\ \A i \in 1..MaxIssue : seen.wrong[i] \in Nat
      BY <1>a, <2>7, <3>1
    <3>3. Guessed(c, s)
      BY <2>1, <3>1, <3>2 DEF Guessed
    <3>4. Bounded(s, drawn')
      <4>1. s.wrong[cfg.issue] <= MaxFailures + 1
        BY <2>1, <3>1, <3>2, ConstantsAssumption
      <4>2. ~(cfg.issue > drawn.issues)
        BY <1>a, <3>1, ConstantsAssumption
      <4> QED
        BY <2>2, <3>2, <4>1, <4>2 DEF Bounded, ConfigDurable
    <3>5. c.cert # 0 /\ Pins(c, disk.workers, seen) /\ Pins(c, workers, s)
      BY <2>1, <2>2, <2>4 DEF ConfigDurable, Pins
    <3> QED
      BY <2>2, <2>5, <3>3, <3>4, <3>5, CommitConfig DEF ConfigDurable
  <2> QED
    BY <2>4, <2>6, <2>7
<1>7. ASSUME NEW w \in WorkerId, NEW code \in Code, NEW os \in OS, Pair(w, code, os)
      PROVE  ConfigDurable'
  <2> DEFINE c == [cfg EXCEPT !.code = NoCode, !.failures = 0]
             ws == Put(workers, w, [os |-> os, lastSeen |-> now,
                                    status |-> "online", issue |-> cfg.issue])
             s == [seen EXCEPT !.told = Put(@, w, cfg.cert)]
  <2>1. c.cert = cfg.cert /\ c.code = NoCode
    BY <1>a DEF CoordinatorState
  <2>2. up /\ Commit(c, ws, jobs, s) /\ drawn'.issues = drawn.issues
    BY <1>7, <1>a DEF Pair
  <2>3. s.told = Put(seen.told, w, cfg.cert) /\ s.wrong = seen.wrong
    BY <1>a DEF SeenType
  <2>4. DOMAIN ws = DOMAIN workers \cup {w}
    BY DEF Put
  <2> HIDE DEF c, ws, s
  <2>5. /\ DOMAIN s.told = DOMAIN seen.told \cup {w}
        /\ \A v \in DOMAIN s.told : s.told[v] = IF v = w THEN cfg.cert ELSE seen.told[v]
    BY <2>3 DEF Put
  <2>6. Pins(c, disk.workers, seen) /\ Pins(c, ws, s) /\ c.cert # 0
    BY <2>1, <2>2, <2>4, <2>5 DEF ConfigDurable, Pins
  <2>7. Guessed(c, seen) /\ Guessed(c, s)
    BY <2>1 DEF Guessed
  <2>8. Bounded(seen, drawn') /\ Bounded(s, drawn')
    BY <2>2, <2>3 DEF ConfigDurable, Bounded
  <2> QED
    BY <2>2, <2>4, <2>6, <2>7, <2>8, CommitConfig DEF ConfigDurable
<1>8. ASSUME NEW w \in WorkerId, Heartbeat(w) PROVE ConfigDurable'
  <2> DEFINE ws == [workers EXCEPT ![w].lastSeen = now, ![w].status = "online"]
  <2>1. up /\ Commit(cfg, ws, jobs, seen) /\ drawn' = drawn
    BY <1>8 DEF Heartbeat
  <2>2. DOMAIN ws = DOMAIN workers
    BY MapsDef DEF TypeInv, TypeOK
  <2> HIDE DEF ws
  <2> QED
    BY <1>b, <2>1, <2>2
<1>9. ASSUME NEW j \in JobId, NEW w \in WorkerId, TestJob(j, w) PROVE ConfigDurable'
  <2>1. up /\ drawn'.issues = drawn.issues
    BY <1>9, <1>a DEF TestJob
  <2> QED
    BY <1>9, <1>b, <2>1 DEF TestJob
<1>10. ASSUME NEW T \in SUBSET Task, ManifestDispatched(T) PROVE ConfigDurable'
  <2>1. up /\ drawn'.issues = drawn.issues
    BY <1>10, <1>a DEF ManifestDispatched
  <2>2. \E js, new : Commit(cfg, workers, js, Told(new))
    BY <1>10 DEF ManifestDispatched
  <2> QED
    BY <1>b, <2>1, <2>2
<1>11. ASSUME NEW T \in SUBSET Task, NEW S \in SUBSET T, ManifestRefused(T, S)
       PROVE  ConfigDurable'
  <2>1. drawn'.issues = drawn.issues
    BY <1>11, <1>a DEF ManifestRefused
  <2>2. /\ up' = up /\ cfg' = cfg /\ workers' = workers /\ disk' = disk /\ seen' = seen
    BY <1>11 DEF ManifestRefused
  <2> QED
    BY <2>1, <2>2 DEF ConfigDurable, Bounded
<1>12. ASSUME NEW j \in JobId, CancelJob(j) PROVE ConfigDurable'
  BY <1>12, <1>b DEF CancelJob
<1>13. ASSUME NEW j \in JobId, NEW a \in Attempt, NEW r \in Report,
              UpdateJob(j, a, r[1], r[2])
       PROVE  ConfigDurable'
  BY <1>13, <1>b DEF UpdateJob
<1> QED
  BY <1>1, <1>2, <1>3, <1>4, <1>5, <1>6, <1>7, <1>8, <1>9, <1>10, <1>11, <1>12, <1>13
     DEF Next

-----------------------------------------------------------------------------
DurableInv == JobsDurable /\ ConfigDurable

\* Unless Save fails, memory and files agree while the coordinator serves, and
\* whatever was answered is in the files.
THEOREM Durable == "saveError" \notin Faults => (Spec => []DurableInv)
<1> SUFFICES ASSUME "saveError" \notin Faults PROVE Spec => []DurableInv
  OBVIOUS
<1>1. Init => DurableInv
  BY JobsDurableInit, ConfigInit DEF DurableInv
<1>2. TypeInv /\ StoreInv /\ DurableInv /\ [Next]_vars => DurableInv'
  BY JobsDurableStep, ConfigStep DEF DurableInv
<1> QED
  BY <1>1, <1>2, TypeCorrect, StoreCoherent, PTL DEF Spec

\* A worker that was given credentials, a job that was acknowledged and the
\* owner it was acknowledged for are in the files, wherever the process dies.
THEOREM AnswersDurable == "saveError" \notin Faults => (Spec => []DurableAnswers)
<1> SUFFICES ASSUME "saveError" \notin Faults PROVE Spec => []DurableAnswers
  OBVIOUS
<1>1. DurableInv => DurableAnswers
  BY DEF DurableInv, JobsDurable, ConfigDurable, Acks, Pins, DurableAnswers
<1> QED
  BY <1>1, Durable, PTL

\* The certificate a worker pinned is the one every later process serves.
THEOREM CertificatePinned == "saveError" \notin Faults => (Spec => []PinnedCertificate)
<1> SUFFICES ASSUME "saveError" \notin Faults PROVE Spec => []PinnedCertificate
  OBVIOUS
<1>1. DurableInv => PinnedCertificate
  BY DEF DurableInv, ConfigDurable, Pins, PinnedCertificate
<1> QED
  BY <1>1, Durable, PTL

\* No restart gives a pairing code more guesses than MaxFailures + 1.
THEOREM GuessesBounded == "saveError" \notin Faults => (Spec => []GuessBound)
<1> SUFFICES ASSUME "saveError" \notin Faults PROVE Spec => []GuessBound
  OBVIOUS
<1>1. DurableInv => GuessBound
  BY DEF DurableInv, ConfigDurable, Bounded, GuessBound
<1> QED
  BY <1>1, Durable, PTL
=============================================================================
