---------------------------- MODULE EnlistProofs ----------------------------
(***************************************************************************)
(* Proofs about joining the grid: a step of the hosts is a step of the     *)
(* coordinator or leaves it alone, and credentials that were handed out    *)
(* are honoured wherever they are kept.                                    *)
(***************************************************************************)
EXTENDS Enlist, CoordinatorDurability

-----------------------------------------------------------------------------
(* Types.                                                                   *)

\* A process has an identity exactly when it has been answered, and a code of
\* the right form when it asks for one.
GoodProcess ==
  {r \in Process : /\ r.id # NoWorker <=> r.pc \in Holding
                   /\ r.pc \in {"dialing", "waiting"} => r.code \in Code}

\* Text that parses names a worker.
GoodFile == {f \in File : f.has = "all" => f.id \in WorkerId}

\* Every stray is the work of a failure of its own.
HostType ==
  /\ proc \in [Proc -> GoodProcess]
  /\ creds \in [Host -> GoodFile] /\ tmp \in [Host -> GoodFile]
  /\ mishaps \in 0..MaxMishaps
  /\ stray \in [Code -> Nat] /\ \A c \in Code : stray[c] <= mishaps

LEMMA Blanks ==
  /\ Off \in GoodProcess
  /\ \A has \in {"nothing", "empty", "torn"} : Blank(has) \in GoodFile
BY EnlistAssumption, ConstantsAssumption
   DEF Off, Nameless, GoodProcess, Process, PC, Holding, Blank, GoodFile, File

LEMMA HostTypeInit == EnlistInit => HostType
BY Blanks, EnlistAssumption DEF EnlistInit, HostType

LEMMA Spending ==
  ASSUME HostType, NEW n \in Nat, Spend(n)
  PROVE  mishaps' \in 0..MaxMishaps /\ mishaps' = mishaps + n
BY EnlistAssumption DEF HostType, Spend

\* What the coordinator leaves behind: processes P that are well typed stay so.
LEMMA Carried ==
  ASSUME HostType, NEW P \in [Proc -> GoodProcess], NEW S \in [Code -> Nat],
         \A c \in Code : S[c] <= mishaps,
         NEW cost \in {0, 1}, Carry(P, S, cost)
  PROVE  HostType'
<1>1. Cut \in [Proc -> GoodProcess]
  BY Blanks DEF Cut, HostType
<1>2. proc' \in [Proc -> GoodProcess]
  BY <1>1 DEF Carry
<1>3. mishaps' \in 0..MaxMishaps /\ mishaps' >= mishaps
  BY EnlistAssumption DEF Carry, Spend, HostType
<1>4. stray' \in [Code -> Nat] /\ \A c \in Code : stray'[c] <= mishaps'
  <2>1. CASE up'
    BY <1>3, <2>1 DEF Carry, HostType
  <2>2. CASE ~up'
    BY <1>3, <2>2 DEF Carry, HostType
  <2> QED
    BY <2>1, <2>2
<1> QED
  BY <1>2, <1>3, <1>4 DEF Carry, HostType

\* How processes without and with an identity are built.
LEMMA NamelessType ==
  ASSUME NEW code \in Code, NEW pin \in 0..MaxCert
  PROVE  Nameless("dialing", code, pin) \in GoodProcess
BY EnlistAssumption DEF Nameless, GoodProcess, Process, PC, Holding

LEMMA NamedType ==
  ASSUME NEW pc \in Holding, NEW id \in WorkerId, NEW pin \in 0..MaxCert,
         NEW fd \in {"none", "tmp", "creds", "gone"}
  PROVE  Named(pc, id, pin, fd) \in GoodProcess
BY EnlistAssumption DEF Named, GoodProcess, Process, PC, Holding

LEMMA Holder ==
  ASSUME HostType, NEW p \in Proc, proc[p].pc \in Holding
  PROVE  proc[p].id \in WorkerId /\ proc[p].pin \in 0..MaxCert
BY DEF HostType, GoodProcess, Process

LEMMA HoldType ==
  ASSUME HostType, NEW p \in Proc, proc[p].pc \in Holding,
         NEW pc \in Holding, NEW fd \in {"none", "tmp", "creds", "gone"},
         Hold(p, pc, fd)
  PROVE  proc' \in [Proc -> GoodProcess]
BY Holder, NamedType DEF HostType, Hold, Become

\* A process may become any well-typed one.
LEMMA Becoming ==
  ASSUME HostType, NEW p \in Proc, NEW r \in GoodProcess, Become(p, r)
  PROVE  proc' \in [Proc -> GoodProcess]
BY DEF HostType, Become

LEMMA StrayCount ==
  ASSUME HostType, NEW p \in Proc, mishaps' = mishaps + 1, stray' = StrayOf(p)
  PROVE  stray' \in [Code -> Nat] /\ \A c \in Code : stray'[c] <= mishaps'
<1>1. CASE At(p, "waiting")
  <2>1. proc[p].code \in Code
    BY <1>1 DEF At, HostType, GoodProcess
  <2> QED
    BY <1>1, <2>1 DEF StrayOf, HostType
<1>2. CASE ~At(p, "waiting")
  BY <1>2 DEF StrayOf, HostType
<1> QED
  BY <1>1, <1>2

LEMMA HostTypeStep == HostType /\ [EnlistNext]_enlistVars => HostType'
<1> SUFFICES ASSUME HostType, [EnlistNext]_enlistVars PROVE HostType'
  OBVIOUS
<1> USE EnlistAssumption, ConstantsAssumption
<1>a. /\ proc \in [Proc -> GoodProcess] /\ stray \in [Code -> Nat]
      /\ \A c \in Code : stray[c] <= mishaps
      /\ creds \in [Host -> GoodFile] /\ tmp \in [Host -> GoodFile]
      /\ mishaps \in 0..MaxMishaps
  BY DEF HostType
<1>1. CASE CoordinatorRuns
  BY <1>1, <1>a, Carried DEF CoordinatorRuns
<1>2. CASE TimePasses
  BY <1>2 DEF TimePasses, hostVars, HostType
<1>3. ASSUME NEW c \in Code, IssueCode(c) PROVE HostType'
  BY <1>3, <1>a, Carried DEF IssueCode
<1>4. ASSUME NEW c \in Code, StrayHandled(c) PROVE HostType'
  <2>1. /\ [stray EXCEPT ![c] = @ - 1] \in [Code -> Nat]
        /\ \A d \in Code : [stray EXCEPT ![c] = @ - 1][d] <= mishaps
    BY <1>4, <1>a DEF StrayHandled
  <2> QED
    BY <1>4, <1>a, <2>1, Carried DEF StrayHandled
<1>5. ASSUME NEW p \in Proc, LaunchSaved(p) PROVE HostType'
  <2> DEFINE f == creds[HomeOf[p]]
  <2>1. f.id \in WorkerId /\ f.pin \in 0..MaxCert
    BY <1>5, <1>a DEF LaunchSaved, Loadable, GoodFile, File
  <2>2. Become(p, Named("serving", f.id, f.pin, "none")) /\ UNCHANGED <<creds, tmp, stray, mishaps>>
    BY <1>5 DEF LaunchSaved
  <2> HIDE DEF f
  <2>3. Named("serving", f.id, f.pin, "none") \in GoodProcess
    BY <2>1, NamedType DEF Holding
  <2>4. proc' \in [Proc -> GoodProcess]
    BY <2>2, <2>3, Becoming
  <2> QED
    BY <2>2, <2>4 DEF HostType
<1>6. ASSUME NEW p \in Proc, NEW c \in Code, NEW pin \in 1..MaxCert, LaunchPairing(p, c, pin)
      PROVE  HostType'
  <2>1. pin \in 0..MaxCert
    OBVIOUS
  <2>2. proc' \in [Proc -> GoodProcess]
    BY <1>6, <2>1, NamelessType, Becoming DEF LaunchPairing
  <2>3. mishaps' \in 0..MaxMishaps /\ mishaps' >= mishaps
    BY <1>6, <1>a DEF LaunchPairing, Mishap, Spend
  <2> QED
    BY <1>6, <1>a, <2>2, <2>3 DEF LaunchPairing, HostType
<1>7. ASSUME NEW p \in Proc, Connect(p) PROVE HostType'
  <2>1. [proc[p] EXCEPT !.pc = "waiting"] \in GoodProcess
    BY <1>7, <1>a DEF Connect, At, GoodProcess, Process, PC, Holding
  <2> QED
    BY <1>7, <1>a, <2>1, Becoming DEF Connect, Goto, HostType
<1>8. ASSUME NEW p \in Proc, DialFails(p) \/ Locked(p) \/ Rejected(p) \/ Stop(p)
      PROVE  HostType'
  BY <1>8, <1>a, Blanks, Becoming DEF DialFails, Locked, Rejected, Stop, HostType
<1>9. ASSUME NEW p \in Proc, NEW w \in WorkerId, NEW os \in OS, Answered(p, w, os)
      PROVE  HostType'
  <2>1. proc[p].pin \in 0..MaxCert
    BY <1>a DEF GoodProcess, Process
  <2>2. Named("answered", w, proc[p].pin, "none") \in GoodProcess
    BY <2>1, NamedType DEF Holding
  <2>3. [proc EXCEPT ![p] = Named("answered", w, proc[p].pin, "none")] \in [Proc -> GoodProcess]
    BY <1>a, <2>2
  <2> QED
    BY <1>9, <1>a, <2>3, Carried DEF Answered
<1>10. ASSUME NEW p \in Proc, Refused(p) PROVE HostType'
  <2>1. [proc EXCEPT ![p] = Off] \in [Proc -> GoodProcess]
    BY <1>a, Blanks
  <2> QED
    BY <1>10, <1>a, <2>1, Carried DEF Refused
<1>11. ASSUME NEW p \in Proc, GiveUp(p) \/ Kill(p) PROVE HostType'
  <2>1. mishaps' \in 0..MaxMishaps /\ mishaps' = mishaps + 1
    BY <1>11, <1>a DEF GiveUp, Kill, Mishap, Spend
  <2>2. stray' \in [Code -> Nat] /\ \A c \in Code : stray'[c] <= mishaps'
    BY <1>11, <2>1, StrayCount DEF GiveUp, Kill
  <2>3. proc' \in [Proc -> GoodProcess]
    BY <1>11, Blanks, Becoming DEF GiveUp, Kill
  <2> QED
    BY <1>11, <1>a, <2>1, <2>2, <2>3 DEF GiveUp, Kill, HostType
<1>12. ASSUME NEW p \in Proc, OpenTmp(p) PROVE HostType'
  <2>1. proc' \in [Proc -> GoodProcess]
    BY <1>12, HoldType DEF OpenTmp, At, Holding
  <2>2. tmp' \in [Host -> GoodFile]
    BY <1>12, <1>a, Blanks DEF OpenTmp
  <2> QED
    BY <1>12, <1>a, <2>1, <2>2 DEF OpenTmp, HostType
<1>b. ASSUME NEW p \in Proc, NEW f \in GoodFile, Store(p, f)
      PROVE  creds' \in [Host -> GoodFile] /\ tmp' \in [Host -> GoodFile]
  BY <1>b, <1>a DEF Store
<1>13. ASSUME NEW p \in Proc, WriteTmp(p) PROVE HostType'
  <2>1. proc' \in [Proc -> GoodProcess]
    BY <1>13, HoldType DEF WriteTmp, At, Holding
  <2>2. Cred(p) \in GoodFile
    BY <1>13, Holder DEF WriteTmp, At, Holding, Cred, GoodFile, File
  <2>3. Landed(p) \subseteq GoodFile
    BY <2>2, Blanks DEF Landed
  <2>4. creds' \in [Host -> GoodFile] /\ tmp' \in [Host -> GoodFile]
    BY <1>13, <1>b, <2>3 DEF WriteTmp
  <2> QED
    BY <1>13, <1>a, <2>1, <2>4 DEF WriteTmp, HostType
<1>14. ASSUME NEW p \in Proc, WriteFails(p) PROVE HostType'
  <2>1. proc' \in [Proc -> GoodProcess]
    BY <1>14, HoldType DEF WriteFails, At, Holding
  <2>2. creds' \in [Host -> GoodFile] /\ tmp' \in [Host -> GoodFile]
    BY <1>14, <1>a, <1>b, Blanks DEF WriteFails
  <2>3. mishaps' \in 0..MaxMishaps /\ mishaps' = mishaps + 1
    BY <1>14, <1>a DEF WriteFails, Mishap, Spend
  <2> QED
    BY <1>14, <1>a, <2>1, <2>2, <2>3 DEF WriteFails, HostType
<1>15. ASSUME NEW p \in Proc, RenameTmp(p) PROVE HostType'
  <2>1. Named("serving", proc[p].id, proc[p].pin, "none") \in GoodProcess
    BY <1>15, Holder, NamedType DEF RenameTmp, At, Holding
  <2>2. ASSUME NEW q \in Proc
        PROVE  [proc[q] EXCEPT !.fd = Renamed(@)] \in GoodProcess
    BY <1>a DEF Renamed, GoodProcess, Process
  <2>3. proc' \in [Proc -> GoodProcess]
    BY <1>15, <1>a, <2>1, <2>2 DEF RenameTmp
  <2>4. creds' \in [Host -> GoodFile] /\ tmp' \in [Host -> GoodFile]
    BY <1>15, <1>a, Blanks DEF RenameTmp
  <2> QED
    BY <1>15, <1>a, <2>3, <2>4 DEF RenameTmp, HostType
<1>16. ASSUME NEW p \in Proc, RenameFails(p) PROVE HostType'
  <2>1. proc' \in [Proc -> GoodProcess]
    BY <1>16, HoldType DEF RenameFails, At, Holding
  <2> QED
    BY <1>16, <1>a, <2>1 DEF RenameFails, HostType
<1>17. ASSUME NEW p \in Proc, Beat(p) PROVE HostType'
  BY <1>17, <1>a, Carried DEF Beat
<1>18. ASSUME NEW h \in Host, Reset(h) \/ ResetAsked(h) PROVE HostType'
  <2>1. \A p \in Proc : [proc[p] EXCEPT !.fd = "gone"] \in GoodProcess
    BY <1>a DEF GoodProcess, Process
  <2>a. RemoveCreds(h)
    BY <1>18 DEF Reset, ResetAsked
  <2>2. proc' \in [Proc -> GoodProcess]
    BY <2>a, <1>a, <2>1 DEF RemoveCreds
  <2>3. creds' \in [Host -> GoodFile]
    BY <2>a, <1>a, Blanks DEF RemoveCreds
  <2>4. mishaps' \in 0..MaxMishaps /\ mishaps' >= mishaps
    BY <1>18, <1>a DEF Reset, ResetAsked, Mishap, Spend
  <2>5. \A c \in Code : stray'[c] <= mishaps'
    BY <2>a, <1>a, <2>4 DEF RemoveCreds
  <2> QED
    BY <2>a, <1>a, <2>2, <2>3, <2>4, <2>5 DEF RemoveCreds, HostType
<1>19. CASE UNCHANGED enlistVars
  BY <1>19 DEF enlistVars, HostType
<1> QED
  BY <1>1, <1>2, <1>3, <1>4, <1>5, <1>6, <1>7, <1>8, <1>9, <1>10, <1>11, <1>12, <1>13,
     <1>14, <1>15, <1>16, <1>17, <1>18, <1>19 DEF EnlistNext, ProcStep

THEOREM HostTyped == EnlistSpec => []HostType
BY HostTypeInit, HostTypeStep, PTL DEF EnlistSpec

\* Whatever the coordinator and the other processes do, the processes and the
\* files of every host stay in their types.
THEOREM EnlistTypeSafety == EnlistSpec => []EnlistTypeOK
<1>1. HostType => EnlistTypeOK
  BY EnlistAssumption DEF HostType, EnlistTypeOK, GoodProcess, GoodFile
<1> QED
  BY <1>1, HostTyped, PTL

-----------------------------------------------------------------------------
(* The coordinator below.                                                   *)

\* The steps of the coordinator that hosts take part in.
HostStep ==
  \/ StartFresh \/ Restart \/ Crash \/ Tick \/ CheckWorkerStatus \/ UNCHANGED vars
  \/ \E w \in WorkerId : Heartbeat(w)
  \/ \E c \in Code : GenerateCode(c) \/ PairRejected(c)
  \/ \E c \in Code, w \in WorkerId, os \in OS : Pair(w, c, os)

\* A step of the hosts is a step of the coordinator or leaves it alone.
LEMMA HostSteps ==
  ASSUME HostType, [EnlistNext]_enlistVars
  PROVE  HostStep
<1>1. CASE CoordinatorRuns \/ TimePasses
  BY <1>1 DEF CoordinatorRuns, TimePasses, HostStep
<1>2. ASSUME NEW c \in Code, IssueCode(c) \/ StrayHandled(c) PROVE HostStep
  BY <1>2 DEF IssueCode, StrayHandled, HostStep
<1>3. ASSUME NEW p \in Proc, NEW w \in WorkerId, NEW os \in OS, Answered(p, w, os)
      PROVE  HostStep
  <2>1. proc[p].code \in Code
    BY <1>3 DEF Answered, At, HostType, GoodProcess
  <2> QED
    BY <1>3, <2>1 DEF Answered, HostStep
<1>4. ASSUME NEW p \in Proc, Refused(p) PROVE HostStep
  <2>1. proc[p].code \in Code
    BY <1>4 DEF Refused, At, HostType, GoodProcess
  <2> QED
    BY <1>4, <2>1 DEF Refused, HostStep
<1>5. ASSUME NEW p \in Proc, Beat(p) PROVE HostStep
  <2>1. proc[p].id \in WorkerId
    BY <1>5, Holder DEF Beat, At, Holding
  <2> QED
    BY <1>5, <2>1 DEF Beat, HostStep
<1>6. ASSUME NEW p \in Proc,
             \/ LaunchSaved(p) \/ Connect(p) \/ DialFails(p) \/ Locked(p) \/ GiveUp(p)
             \/ OpenTmp(p) \/ WriteTmp(p) \/ WriteFails(p) \/ RenameTmp(p) \/ RenameFails(p)
             \/ Rejected(p) \/ Kill(p) \/ Stop(p)
             \/ \E c \in Code, pin \in 1..MaxCert : LaunchPairing(p, c, pin)
      PROVE  UNCHANGED vars
  BY <1>6 DEF LaunchSaved, LaunchPairing, Connect, DialFails, Locked, GiveUp, OpenTmp,
     WriteTmp, WriteFails, RenameTmp, RenameFails, Rejected, Kill, Stop
<1>7. ASSUME NEW h \in Host, Reset(h) \/ ResetAsked(h) PROVE UNCHANGED vars
  BY <1>7 DEF Reset, ResetAsked, RemoveCreds
<1>8. CASE UNCHANGED enlistVars
  BY <1>8 DEF enlistVars, HostStep
<1> QED
  BY <1>1, <1>2, <1>3, <1>4, <1>5, <1>6, <1>7, <1>8 DEF EnlistNext, ProcStep, HostStep

LEMMA HostProjection == HostType /\ [EnlistNext]_enlistVars => [Next]_vars
<1>1. HostStep => [Next]_vars
  BY DEF HostStep, Next
<1> QED
  BY <1>1, HostSteps

\* So everything that is true of the coordinator is true of it here.
THEOREM HostsImplementCoordinator == EnlistSpec => Spec
<1>1. EnlistInit => Init
  BY DEF EnlistInit
<1> QED
  BY <1>1, HostProjection, HostTyped, PTL DEF EnlistSpec, Spec

-----------------------------------------------------------------------------
(* Credentials.                                                             *)

\* Worker id was handed out by a coordinator with certificate pin.
Vouched(id, pin, s) == id \in DOMAIN s.told /\ s.told[id] = pin

VouchedProcesses ==
  \A p \in Proc : proc[p].pc \in Holding => Vouched(proc[p].id, proc[p].pin, seen)

VouchedFiles ==
  \A h \in Host :
    /\ creds[h].has = "all" => Vouched(creds[h].id, creds[h].pin, seen)
    /\ tmp[h].has = "all" => Vouched(tmp[h].id, tmp[h].pin, seen)

\* A request is on a connection to a coordinator with the pinned certificate.
PinnedRequests ==
  \A p \in Proc : proc[p].pc = "waiting" => up /\ proc[p].pin = cfg.cert

CredsInv == VouchedProcesses /\ VouchedFiles /\ PinnedRequests

\* What was handed out stays so, and a serving coordinator keeps its certificate.
Steady ==
  /\ \A w \in DOMAIN seen.told : w \in DOMAIN seen'.told /\ seen'.told[w] = seen.told[w]
  /\ up /\ up' => cfg'.cert = cfg.cert

LEMMA CommitSteady ==
  ASSUME NEW c, NEW ws, NEW js, NEW s, Commit(c, ws, js, s), up => c.cert = cfg.cert,
         \A w \in DOMAIN seen.told : w \in DOMAIN s.told /\ s.told[w] = seen.told[w]
  PROVE  Steady
BY DEF Commit, Answer, Die, Steady

\* An admitted worker was not known before, so nobody's certificate changes.
LEMMA PairSteady ==
  ASSUME TypeInv, StoreInv, ConfigDurable,
         NEW code \in Code, NEW w \in WorkerId, NEW os \in OS, Pair(w, code, os)
  PROVE  /\ Steady
         /\ up' => Vouched(w, cfg.cert, seen')
<1> DEFINE c == [cfg EXCEPT !.code = NoCode, !.failures = 0]
           ws == Put(workers, w, [os |-> os, lastSeen |-> now,
                                  status |-> "online", issue |-> cfg.issue])
           s == [seen EXCEPT !.told = Put(@, w, cfg.cert)]
<1>a. /\ cfg \in CoordinatorState /\ seen \in SeenType
  BY DEF TypeInv, TypeOK, SeenType
<1>1. c.cert = cfg.cert
  BY <1>a DEF CoordinatorState
<1>2. s.told = Put(seen.told, w, cfg.cert)
  BY <1>a DEF SeenType
<1>3. Commit(c, ws, jobs, s) /\ w \notin drawn.workers
  BY DEF Pair
<1> HIDE DEF c, ws, s
<1>4. w \notin DOMAIN seen.told
  BY <1>3 DEF ConfigDurable, Pins, StoreInv, Within
<1>5. /\ DOMAIN s.told = DOMAIN seen.told \cup {w} /\ s.told[w] = cfg.cert
      /\ \A v \in DOMAIN seen.told : s.told[v] = seen.told[v]
  BY <1>2, <1>4 DEF Put
<1>6. Steady
  BY <1>1, <1>3, <1>5, CommitSteady
<1>7. up' => seen' = s
  BY <1>3 DEF Commit, Answer, Die
<1> QED
  BY <1>5, <1>6, <1>7 DEF Vouched

LEMMA StepSteady ==
  ASSUME TypeInv, StoreInv, ConfigDurable, HostStep
  PROVE  Steady
<1>a. /\ cfg \in CoordinatorState /\ seen \in SeenType
  BY DEF TypeInv, TypeOK, SeenType
<1>1. CASE StartFresh
  BY <1>1, CommitSteady DEF StartFresh
<1>2. CASE Restart \/ Crash \/ Tick \/ UNCHANGED vars
  BY <1>2 DEF Restart, Crash, Tick, vars, Steady
<1>3. CASE CheckWorkerStatus
  BY <1>3, CommitSteady DEF CheckWorkerStatus
<1>4. ASSUME NEW w \in WorkerId, Heartbeat(w) PROVE Steady
  BY <1>4, CommitSteady DEF Heartbeat
<1>5. ASSUME NEW code \in Code, GenerateCode(code) PROVE Steady
  <2> DEFINE c == [cfg EXCEPT !.code = code, !.issue = drawn.issues + 1,
                              !.expiry = now + PairingTTL, !.failures = 0]
  <2>1. c.cert = cfg.cert
    BY <1>a DEF CoordinatorState
  <2>2. Commit(c, workers, jobs, seen)
    BY <1>5 DEF GenerateCode
  <2> HIDE DEF c
  <2> QED
    BY <2>1, <2>2, CommitSteady
<1>6. ASSUME NEW code \in Code, PairRejected(code) PROVE Steady
  <2> DEFINE c == [cfg EXCEPT !.failures = @ + 1]
             s == CountWrong(code)
  <2>1. c.cert = cfg.cert
    BY <1>a DEF CoordinatorState
  <2>2. s.told = seen.told
    BY <1>a DEF CountWrong, SeenType
  <2>3. Commit(c, workers, jobs, s)
    BY <1>6 DEF PairRejected
  <2> HIDE DEF c, s
  <2> QED
    BY <2>1, <2>2, <2>3, CommitSteady
<1>7. ASSUME NEW code \in Code, NEW w \in WorkerId, NEW os \in OS, Pair(w, code, os)
      PROVE  Steady
  BY <1>7, <1>a, PairSteady
<1> QED
  BY <1>1, <1>2, <1>3, <1>4, <1>5, <1>6, <1>7 DEF HostStep

LEMMA CredsInit == EnlistInit => CredsInv
BY DEF EnlistInit, CredsInv, VouchedProcesses, VouchedFiles, PinnedRequests, Off, Nameless,
   Holding, Blank

\* A step of the coordinator, after which processes are P unless it has died.
LEMMA CarriedCreds ==
  ASSUME HostType, CredsInv, Steady, NEW P \in [Proc -> GoodProcess], NEW S, NEW cost,
         Carry(P, S, cost),
         up' => \A p \in Proc :
                  /\ P[p].pc \in Holding => Vouched(P[p].id, P[p].pin, seen')
                  /\ P[p].pc = "waiting" => P[p] = proc[p]
  PROVE  CredsInv'
<1>1. \A id, pin : Vouched(id, pin, seen) => Vouched(id, pin, seen')
  BY DEF Steady, Vouched
<1>2. VouchedFiles'
  BY <1>1 DEF Carry, CredsInv, VouchedFiles
<1>3. CASE up'
  <2>1. proc' = P
    BY <1>3 DEF Carry
  <2>2. VouchedProcesses'
    BY <1>3, <2>1 DEF VouchedProcesses
  <2>3. PinnedRequests'
    BY <1>3, <2>1 DEF PinnedRequests, CredsInv, Steady
  <2> QED
    BY <1>2, <2>2, <2>3 DEF CredsInv
<1>4. CASE ~up'
  <2>1. proc' = Cut
    BY <1>4 DEF Carry
  <2>2. \A p \in Proc : proc'[p].pc \in Holding => proc'[p] = proc[p]
    BY <2>1 DEF Cut, Off, Nameless, Holding
  <2>3. \A p \in Proc : proc'[p].pc # "waiting"
    BY <2>1 DEF Cut, Off, Nameless, At
  <2>4. VouchedProcesses'
    BY <1>1, <2>2 DEF VouchedProcesses, CredsInv
  <2>5. PinnedRequests'
    BY <2>3 DEF PinnedRequests
  <2> QED
    BY <1>2, <2>4, <2>5 DEF CredsInv
<1> QED
  BY <1>3, <1>4

\* A step of processes and files alone.
LEMMA LocalCreds ==
  ASSUME CredsInv, UNCHANGED vars,
         \A p \in Proc :
           /\ proc'[p].pc \in Holding => Vouched(proc'[p].id, proc'[p].pin, seen)
           /\ proc'[p].pc = "waiting" => proc'[p].pc = proc[p].pc /\ proc'[p].pin = proc[p].pin,
         \A h \in Host :
           /\ creds'[h].has = "all" => Vouched(creds'[h].id, creds'[h].pin, seen)
           /\ tmp'[h].has = "all" => Vouched(tmp'[h].id, tmp'[h].pin, seen)
  PROVE  CredsInv'
BY DEF CredsInv, VouchedProcesses, VouchedFiles, PinnedRequests, vars

\* One process becomes r and the files stay.
LEMMA BecomingCreds ==
  ASSUME HostType, CredsInv, UNCHANGED <<vars, creds, tmp>>, NEW p \in Proc, NEW r, Become(p, r),
         r.pc \in Holding => Vouched(r.id, r.pin, seen),
         r.pc # "waiting"
  PROVE  CredsInv'
<1>1. /\ proc'[p] = r
      /\ \A q \in Proc : q # p => proc'[q] = proc[q]
  BY DEF Become, HostType
<1>2. \A q \in Proc :
        /\ proc'[q].pc \in Holding => Vouched(proc'[q].id, proc'[q].pin, seen)
        /\ proc'[q].pc = "waiting" => proc'[q].pc = proc[q].pc /\ proc'[q].pin = proc[q].pin
  BY <1>1 DEF CredsInv, VouchedProcesses
<1>3. UNCHANGED vars
  OBVIOUS
<1>4. \A h \in Host :
        /\ creds'[h].has = "all" => Vouched(creds'[h].id, creds'[h].pin, seen)
        /\ tmp'[h].has = "all" => Vouched(tmp'[h].id, tmp'[h].pin, seen)
  BY DEF CredsInv, VouchedFiles
<1> QED
  BY <1>2, <1>3, <1>4, LocalCreds

\* A file stays as it is, or becomes one without credentials or with those of a
\* process that has them.
LEMMA StoredCreds ==
  ASSUME HostType, CredsInv, NEW p \in Proc, proc[p].pc \in Holding, NEW f,
         f = Cred(p) \/ f = Blank("torn"), Store(p, f)
  PROVE  \A h \in Host :
           /\ creds'[h].has = "all" => Vouched(creds'[h].id, creds'[h].pin, seen)
           /\ tmp'[h].has = "all" => Vouched(tmp'[h].id, tmp'[h].pin, seen)
<1>1. f.has = "all" => Vouched(f.id, f.pin, seen)
  BY DEF Cred, Blank, CredsInv, VouchedProcesses
<1>2. \A h \in Host : creds'[h] \in {creds[h], f} /\ tmp'[h] \in {tmp[h], f}
  BY DEF Store, HostType
<1> QED
  BY <1>1, <1>2 DEF CredsInv, VouchedFiles

LEMMA CredsStep ==
  ASSUME TypeInv, StoreInv, ConfigDurable, HostType, CredsInv, [EnlistNext]_enlistVars
  PROVE  CredsInv'
<1>a. Steady
  BY HostSteps, StepSteady
<1>b. /\ proc \in [Proc -> GoodProcess]
      /\ \A p \in Proc : proc[p].pc \in Holding => Vouched(proc[p].id, proc[p].pin, seen)
      /\ \A p \in Proc : proc[p].pc \in Holding => Vouched(proc[p].id, proc[p].pin, seen')
  BY <1>a DEF HostType, CredsInv, VouchedProcesses, Steady, Vouched
<1>c. Off.pc = "off"
  BY DEF Off, Nameless
<1>d. ASSUME NEW p \in Proc, NEW pc \in Holding, NEW fd, proc[p].pc \in Holding
      PROVE  LET r == Named(pc, proc[p].id, proc[p].pin, fd)
             IN r.pc \in Holding /\ r.pc # "waiting" /\ Vouched(r.id, r.pin, seen)
  BY <1>b, <1>d DEF Named, Holding
<1>1. CASE CoordinatorRuns
  BY <1>1, <1>a, <1>b, CarriedCreds DEF CoordinatorRuns
<1>2. CASE TimePasses \/ UNCHANGED enlistVars
  BY <1>2 DEF TimePasses, Tick, hostVars, enlistVars, vars, CredsInv, VouchedProcesses,
     VouchedFiles, PinnedRequests
<1>3. ASSUME NEW c \in Code, IssueCode(c) PROVE CredsInv'
  BY <1>3, <1>a, <1>b, CarriedCreds DEF IssueCode
<1>4. ASSUME NEW c \in Code, StrayHandled(c) PROVE CredsInv'
  BY <1>4, <1>a, <1>b, CarriedCreds DEF StrayHandled
<1>5. ASSUME NEW p \in Proc, LaunchSaved(p) PROVE CredsInv'
  <2> DEFINE f == creds[HomeOf[p]]
             r == Named("serving", f.id, f.pin, "none")
  <2>1. Vouched(f.id, f.pin, seen)
    BY <1>5, EnlistAssumption DEF LaunchSaved, Loadable, CredsInv, VouchedFiles
  <2>2. Become(p, r) /\ UNCHANGED <<vars, creds, tmp>>
    BY <1>5 DEF LaunchSaved
  <2>3. r.pc = "serving" /\ r.id = f.id /\ r.pin = f.pin
    BY DEF Named
  <2> HIDE DEF f, r
  <2> QED
    BY <2>1, <2>2, <2>3, BecomingCreds
<1>6. ASSUME NEW p \in Proc, NEW c \in Code, NEW pin \in 1..MaxCert, LaunchPairing(p, c, pin)
      PROVE  CredsInv'
  <2> DEFINE r == Nameless("dialing", c, pin)
  <2>1. Become(p, r) /\ UNCHANGED <<vars, creds, tmp>>
    BY <1>6 DEF LaunchPairing
  <2>2. r.pc = "dialing"
    BY DEF Nameless
  <2> HIDE DEF r
  <2> QED
    BY <2>1, <2>2, BecomingCreds DEF Holding
<1>7. ASSUME NEW p \in Proc, Connect(p) PROVE CredsInv'
  <2>1. /\ up /\ proc[p].pin = cfg.cert /\ UNCHANGED <<vars, creds, tmp>>
        /\ proc'[p].pc = "waiting" /\ proc'[p].pin = proc[p].pin
        /\ \A q \in Proc : q # p => proc'[q] = proc[q]
    BY <1>7, <1>b DEF Connect, Goto, Become, GoodProcess, Process
  <2>2. VouchedProcesses'
    BY <2>1, <1>b DEF VouchedProcesses, vars, Holding
  <2>3. VouchedFiles' /\ PinnedRequests'
    BY <2>1 DEF CredsInv, VouchedFiles, PinnedRequests, vars
  <2> QED
    BY <2>2, <2>3 DEF CredsInv
<1>8. ASSUME NEW p \in Proc,
             DialFails(p) \/ Locked(p) \/ Rejected(p) \/ GiveUp(p) \/ Kill(p) \/ Stop(p)
      PROVE  CredsInv'
  <2>1. Become(p, Off) /\ UNCHANGED <<vars, creds, tmp>>
    BY <1>8 DEF DialFails, Locked, Rejected, GiveUp, Kill, Stop
  <2> QED
    BY <2>1, <1>c, BecomingCreds DEF Holding
<1>9. ASSUME NEW p \in Proc, NEW w \in WorkerId, NEW os \in OS, Answered(p, w, os)
      PROVE  CredsInv'
  <2> DEFINE r == Named("answered", w, proc[p].pin, "none")
             P == [proc EXCEPT ![p] = r]
  <2>1. proc[p].code \in Code /\ proc[p].pin \in 0..MaxCert /\ proc[p].pin = cfg.cert
    BY <1>9, <1>b DEF Answered, At, GoodProcess, Process, CredsInv, PinnedRequests
  <2>2. up' => Vouched(w, proc[p].pin, seen')
    BY <1>9, <2>1, PairSteady DEF Answered
  <2>3. r \in GoodProcess /\ r.pc = "answered" /\ r.id = w /\ r.pin = proc[p].pin
    BY <2>1, NamedType DEF Holding, Named
  <2>4. Carry(P, stray, 0)
    BY <1>9 DEF Answered
  <2> HIDE DEF r
  <2>5. /\ P \in [Proc -> GoodProcess] /\ P[p] = r
        /\ \A q \in Proc : q # p => P[q] = proc[q]
    BY <1>b, <2>3
  <2> HIDE DEF P
  <2>6. up' => \A q \in Proc :
                  /\ P[q].pc \in Holding => Vouched(P[q].id, P[q].pin, seen')
                  /\ P[q].pc = "waiting" => P[q] = proc[q]
    BY <1>b, <2>2, <2>3, <2>5
  <2> QED
    BY <1>a, <2>4, <2>5, <2>6, CarriedCreds
<1>10. ASSUME NEW p \in Proc, Refused(p) PROVE CredsInv'
  <2> DEFINE P == [proc EXCEPT ![p] = Off]
  <2>1. Carry(P, stray, 0)
    BY <1>10 DEF Refused
  <2>2. /\ P \in [Proc -> GoodProcess] /\ P[p] = Off
        /\ \A q \in Proc : q # p => P[q] = proc[q]
    BY <1>b, Blanks
  <2> HIDE DEF P
  <2>3. \A q \in Proc : /\ P[q].pc \in Holding => Vouched(P[q].id, P[q].pin, seen')
                        /\ P[q].pc = "waiting" => P[q] = proc[q]
    BY <1>b, <1>c, <2>2 DEF Holding
  <2> QED
    BY <1>a, <2>1, <2>2, <2>3, CarriedCreds
<1>11. ASSUME NEW p \in Proc, Beat(p) PROVE CredsInv'
  BY <1>11, <1>a, <1>b, CarriedCreds DEF Beat
<1>e. ASSUME NEW p \in Proc, NEW pc \in Holding, NEW fd, proc[p].pc \in Holding, Hold(p, pc, fd)
      PROVE  \A q \in Proc :
               /\ proc'[q].pc \in Holding => Vouched(proc'[q].id, proc'[q].pin, seen)
               /\ proc'[q].pc = "waiting" => proc'[q].pc = proc[q].pc /\ proc'[q].pin = proc[q].pin
  <2> DEFINE r == Named(pc, proc[p].id, proc[p].pin, fd)
  <2>1. r.pc # "waiting" /\ Vouched(r.id, r.pin, seen)
    BY <1>d, <1>e
  <2>2. proc' = [proc EXCEPT ![p] = r]
    BY <1>e DEF Hold, Become
  <2> HIDE DEF r
  <2>3. proc'[p] = r /\ \A q \in Proc : q # p => proc'[q] = proc[q]
    BY <2>2, <1>b
  <2> QED
    BY <1>b, <2>1, <2>3
<1>12. ASSUME NEW p \in Proc, OpenTmp(p) PROVE CredsInv'
  <2>1. \A h \in Host : creds'[h] = creds[h] /\ tmp'[h] \in {tmp[h], Blank("empty")}
    BY <1>12 DEF OpenTmp, HostType
  <2>2. \A h \in Host :
          /\ creds'[h].has = "all" => Vouched(creds'[h].id, creds'[h].pin, seen)
          /\ tmp'[h].has = "all" => Vouched(tmp'[h].id, tmp'[h].pin, seen)
    BY <2>1 DEF Blank, CredsInv, VouchedFiles
  <2> QED
    BY <1>12, <1>e, <2>2, LocalCreds DEF OpenTmp, At, Holding
<1>13. ASSUME NEW p \in Proc, WriteTmp(p) PROVE CredsInv'
  <2>1. proc[p].pc \in Holding /\ \E f \in {Cred(p), Blank("torn")} : Store(p, f)
    BY <1>13 DEF WriteTmp, At, Holding, Landed
  <2> QED
    BY <1>13, <1>e, <2>1, StoredCreds, LocalCreds DEF WriteTmp, Holding
<1>14. ASSUME NEW p \in Proc, WriteFails(p) PROVE CredsInv'
  <2>1. proc[p].pc \in Holding /\ (Store(p, Blank("torn")) \/ UNCHANGED <<creds, tmp>>)
    BY <1>14 DEF WriteFails, At, Holding
  <2>2. \A h \in Host :
          /\ creds'[h].has = "all" => Vouched(creds'[h].id, creds'[h].pin, seen)
          /\ tmp'[h].has = "all" => Vouched(tmp'[h].id, tmp'[h].pin, seen)
    BY <2>1, StoredCreds DEF CredsInv, VouchedFiles
  <2> QED
    BY <1>14, <1>e, <2>1, <2>2, LocalCreds DEF WriteFails, Holding
<1>15. ASSUME NEW p \in Proc, RenameTmp(p) PROVE CredsInv'
  <2> DEFINE r == Named("serving", proc[p].id, proc[p].pin, "none")
  <2>1. proc[p].pc \in Holding
    BY <1>15 DEF RenameTmp, At, Holding
  <2>2. r.pc # "waiting" /\ Vouched(r.id, r.pin, seen)
    BY <1>d, <2>1 DEF Holding
  <2>3. proc'[p] = r
    BY <1>15 DEF RenameTmp
  <2> HIDE DEF r
  <2>4. ASSUME NEW q \in Proc, q # p
        PROVE  proc'[q].pc = proc[q].pc /\ proc'[q].id = proc[q].id /\ proc'[q].pin = proc[q].pin
    BY <1>15, <1>b, <2>4 DEF RenameTmp, GoodProcess, Process
  <2>5. \A q \in Proc :
          /\ proc'[q].pc \in Holding => Vouched(proc'[q].id, proc'[q].pin, seen)
          /\ proc'[q].pc = "waiting" => proc'[q].pc = proc[q].pc /\ proc'[q].pin = proc[q].pin
    BY <1>b, <2>2, <2>3, <2>4
  <2>6. \A h \in Host : /\ creds'[h] \in {creds[h], tmp[h]}
                        /\ tmp'[h] \in {tmp[h], Blank("nothing")}
    BY <1>15 DEF RenameTmp, HostType
  <2>7. \A h \in Host :
          /\ creds'[h].has = "all" => Vouched(creds'[h].id, creds'[h].pin, seen)
          /\ tmp'[h].has = "all" => Vouched(tmp'[h].id, tmp'[h].pin, seen)
    BY <2>6 DEF Blank, CredsInv, VouchedFiles
  <2> QED
    BY <1>15, <2>5, <2>7, LocalCreds DEF RenameTmp
<1>16. ASSUME NEW p \in Proc, RenameFails(p) PROVE CredsInv'
  <2>1. proc[p].pc \in Holding /\ UNCHANGED <<vars, creds, tmp>>
    BY <1>16 DEF RenameFails, At, Holding
  <2> QED
    BY <1>16, <1>e, <2>1, LocalCreds DEF RenameFails, Holding, CredsInv, VouchedFiles
<1>17. ASSUME NEW h \in Host, Reset(h) \/ ResetAsked(h) PROVE CredsInv'
  <2>a. RemoveCreds(h)
    BY <1>17 DEF Reset, ResetAsked
  <2>1. ASSUME NEW q \in Proc
        PROVE  proc'[q].pc = proc[q].pc /\ proc'[q].id = proc[q].id /\ proc'[q].pin = proc[q].pin
    BY <2>a, <1>b DEF RemoveCreds, GoodProcess, Process
  <2>2. \A g \in Host : tmp'[g] = tmp[g] /\ creds'[g] \in {creds[g], Blank("nothing")}
    BY <2>a DEF RemoveCreds, HostType
  <2>3. \A g \in Host :
          /\ creds'[g].has = "all" => Vouched(creds'[g].id, creds'[g].pin, seen)
          /\ tmp'[g].has = "all" => Vouched(tmp'[g].id, tmp'[g].pin, seen)
    BY <2>2 DEF Blank, CredsInv, VouchedFiles
  <2> QED
    BY <2>a, <1>b, <2>1, <2>3, LocalCreds DEF RemoveCreds
<1> QED
  BY <1>1, <1>2, <1>3, <1>4, <1>5, <1>6, <1>7, <1>8, <1>9, <1>10, <1>11, <1>12, <1>13,
     <1>14, <1>15, <1>16, <1>17 DEF EnlistNext, ProcStep

\* Credentials are honoured for ever, in memory and in files, for any number of
\* hosts and of processes on each of them, whoever dies where.
THEOREM CredentialsHonoured == "saveError" \notin Faults => (EnlistSpec => []CredsHonoured)
<1> SUFFICES ASSUME "saveError" \notin Faults PROVE EnlistSpec => []CredsHonoured
  OBVIOUS
<1>1. EnlistSpec => [](TypeInv /\ StoreInv /\ DurableInv)
  BY HostsImplementCoordinator, TypeCorrect, StoreCoherent, Durable, PTL
<1>2. DurableInv => ConfigDurable
  BY DEF DurableInv
<1>3. EnlistSpec => []CredsInv
  BY <1>1, <1>2, HostTyped, CredsInit, CredsStep, PTL DEF EnlistSpec
<1>4. ConfigDurable /\ CredsInv => CredsHonoured
  BY DEF ConfigDurable, CredsInv, VouchedProcesses, VouchedFiles, Vouched, Pins,
     CredsHonoured, Honoured
<1> QED
  BY <1>1, <1>2, <1>3, <1>4, PTL

-----------------------------------------------------------------------------
(* A process that has its host for itself.                                  *)

CredOf(r) == [has |-> "all", id |-> r.id, pin |-> r.pin]

\* How the files c and t of a host go with the state r of its only process.
Fits(r, c, t) ==
  /\ r.pc = "writing" => r.fd = "tmp" /\ t.has = "empty"
  /\ r.pc = "written" => t = CredOf(r)
  /\ r.pc = "serving" => c = CredOf(r)

SoloInv == \A p \in Proc : Fits(proc[p], creds[HomeOf[p]], tmp[HomeOf[p]])

Solo ==
  /\ \A p, q \in Proc : HomeOf[p] = HomeOf[q] => p = q
  /\ HostFaults \cap {"diskFull", "reset"} = {}

\* One process moves and touches the files of its own host at most.
LEMMA SoloMove ==
  ASSUME Solo, SoloInv, NEW p \in Proc,
         \A q \in Proc : q # p => proc'[q] = proc[q],
         \A h \in Host : h # HomeOf[p] => creds'[h] = creds[h] /\ tmp'[h] = tmp[h],
         Fits(proc'[p], creds'[HomeOf[p]], tmp'[HomeOf[p]])
  PROVE  SoloInv'
<1>1. ASSUME NEW q \in Proc, q # p
      PROVE  Fits(proc'[q], creds'[HomeOf[q]], tmp'[HomeOf[q]])
  <2>1. HomeOf[q] \in Host /\ HomeOf[q] # HomeOf[p]
    BY <1>1, EnlistAssumption DEF Solo
  <2> QED
    BY <1>1, <2>1 DEF SoloInv
<1> QED
  BY <1>1 DEF SoloInv

\* A process that is neither writing nor serving fits any files.
LEMMA SoloBecomes ==
  ASSUME Solo, SoloInv, HostType, NEW p \in Proc, NEW r, Become(p, r),
         r.pc \notin {"writing", "written", "serving"},
         UNCHANGED <<creds, tmp>>
  PROVE  SoloInv'
<1>1. proc'[p] = r /\ \A q \in Proc : q # p => proc'[q] = proc[q]
  BY DEF HostType, Become
<1>2. Fits(proc'[p], creds'[HomeOf[p]], tmp'[HomeOf[p]])
  BY <1>1 DEF Fits
<1> QED
  BY <1>1, <1>2, SoloMove

LEMMA SoloCarried ==
  ASSUME SoloInv, HostType, NEW P, NEW S, NEW cost, Carry(P, S, cost),
         \A p \in Proc : P[p] = proc[p] \/ P[p].pc \notin {"writing", "written", "serving"}
  PROVE  SoloInv'
<1>1. \A p \in Proc : \/ proc'[p] = proc[p]
                      \/ proc'[p].pc \notin {"writing", "written", "serving"}
  BY DEF Carry, Cut, Off, Nameless
<1>2. UNCHANGED <<creds, tmp>>
  BY DEF Carry
<1> QED
  BY <1>1, <1>2 DEF SoloInv, Fits

LEMMA SoloStep ==
  ASSUME Solo, SoloInv, HostType, [EnlistNext]_enlistVars
  PROVE  SoloInv'
<1>a. proc \in [Proc -> GoodProcess] /\ creds \in [Host -> GoodFile] /\ tmp \in [Host -> GoodFile]
  BY DEF HostType
<1>b. \A p \in Proc : HomeOf[p] \in Host /\ Others(p) = {}
  BY EnlistAssumption DEF Others, Solo
<1>c. Off.pc = "off"
  BY DEF Off, Nameless
<1>d. ASSUME NEW p \in Proc, NEW pc, NEW fd, Hold(p, pc, fd)
      PROVE  /\ proc'[p].pc = pc /\ proc'[p].fd = fd
             /\ CredOf(proc'[p]) = CredOf(proc[p]) /\ CredOf(proc[p]) = Cred(p)
             /\ \A q \in Proc : q # p => proc'[q] = proc[q]
  BY <1>a, <1>d DEF Hold, Become, Named, CredOf, Cred
<1>1. ASSUME \/ CoordinatorRuns
             \/ \E c \in Code : IssueCode(c) \/ StrayHandled(c)
             \/ \E p \in Proc : Beat(p)
      PROVE  SoloInv'
  <2>1. \E S, cost : Carry(proc, S, cost)
    BY <1>1 DEF CoordinatorRuns, IssueCode, StrayHandled, Beat
  <2> QED
    BY <2>1, SoloCarried
<1>2. CASE TimePasses \/ UNCHANGED enlistVars
  BY <1>2 DEF TimePasses, hostVars, enlistVars, SoloInv
<1>3. ASSUME NEW p \in Proc, LaunchSaved(p) PROVE SoloInv'
  <2> DEFINE f == creds[HomeOf[p]]
             r == Named("serving", f.id, f.pin, "none")
  <2>1. f \in File /\ f.has = "all"
    BY <1>3, <1>a, <1>b DEF LaunchSaved, Loadable, GoodFile
  <2>2. f = CredOf(r) /\ r.pc = "serving"
    BY <2>1 DEF CredOf, Named, File
  <2>3. Become(p, r) /\ UNCHANGED <<creds, tmp>>
    BY <1>3 DEF LaunchSaved
  <2>4. proc'[p] = r /\ \A q \in Proc : q # p => proc'[q] = proc[q]
    BY <2>3, <1>a DEF Become
  <2>5. Fits(proc'[p], creds'[HomeOf[p]], tmp'[HomeOf[p]])
    BY <2>2, <2>3, <2>4 DEF Fits
  <2> QED
    BY <2>3, <2>4, <2>5, SoloMove
<1>4. ASSUME NEW p \in Proc, NEW c \in Code, NEW pin \in 1..MaxCert, LaunchPairing(p, c, pin)
      PROVE  SoloInv'
  <2>1. Nameless("dialing", c, pin).pc = "dialing"
    BY DEF Nameless
  <2> QED
    BY <1>4, <2>1, SoloBecomes DEF LaunchPairing
<1>5. ASSUME NEW p \in Proc, Connect(p) PROVE SoloInv'
  <2>1. [proc[p] EXCEPT !.pc = "waiting"].pc = "waiting"
    BY <1>a DEF GoodProcess, Process
  <2> QED
    BY <1>5, <2>1, SoloBecomes DEF Connect, Goto
<1>6. ASSUME NEW p \in Proc,
             DialFails(p) \/ Locked(p) \/ Rejected(p) \/ GiveUp(p) \/ Kill(p) \/ Stop(p)
      PROVE  SoloInv'
  <2>1. Become(p, Off) /\ UNCHANGED <<creds, tmp>>
    BY <1>6 DEF DialFails, Locked, Rejected, GiveUp, Kill, Stop
  <2> QED
    BY <2>1, <1>c, SoloBecomes
<1>7. ASSUME NEW p \in Proc, NEW w \in WorkerId, NEW os \in OS, Answered(p, w, os)
      PROVE  SoloInv'
  <2> DEFINE r == Named("answered", w, proc[p].pin, "none")
             P == [proc EXCEPT ![p] = r]
  <2>1. Carry(P, stray, 0) /\ r.pc = "answered"
    BY <1>7 DEF Answered, Named
  <2> HIDE DEF r
  <2>2. \A q \in Proc : P[q] = IF q = p THEN r ELSE proc[q]
    BY <1>a
  <2> HIDE DEF P
  <2> QED
    BY <2>1, <2>2, SoloCarried
<1>8. ASSUME NEW p \in Proc, Refused(p) PROVE SoloInv'
  <2> DEFINE P == [proc EXCEPT ![p] = Off]
  <2>1. Carry(P, stray, 0)
    BY <1>8 DEF Refused
  <2>2. \A q \in Proc : P[q] = IF q = p THEN Off ELSE proc[q]
    BY <1>a
  <2> HIDE DEF P
  <2> QED
    BY <2>1, <2>2, <1>c, SoloCarried
<1>9. ASSUME NEW p \in Proc, OpenTmp(p) PROVE SoloInv'
  <2>1. /\ tmp'[HomeOf[p]].has = "empty" /\ UNCHANGED creds
        /\ \A h \in Host : h # HomeOf[p] => tmp'[h] = tmp[h]
    BY <1>9, <1>a, <1>b DEF OpenTmp, Blank
  <2>2. /\ proc'[p].pc = "writing" /\ proc'[p].fd = "tmp"
        /\ \A q \in Proc : q # p => proc'[q] = proc[q]
    BY <1>9, <1>d DEF OpenTmp
  <2> QED
    BY <2>1, <2>2, SoloMove DEF Fits
<1>10. ASSUME NEW p \in Proc, WriteTmp(p) PROVE SoloInv'
  <2>1. proc[p].fd = "tmp" /\ tmp[HomeOf[p]].has = "empty"
    BY <1>10 DEF WriteTmp, At, SoloInv, Fits
  <2>2. Store(p, Cred(p))
    BY <1>10, <2>1 DEF WriteTmp, Landed, Opened
  <2>3. /\ tmp'[HomeOf[p]] = Cred(p) /\ UNCHANGED creds
        /\ \A h \in Host : h # HomeOf[p] => tmp'[h] = tmp[h]
    BY <2>1, <2>2, <1>a, <1>b DEF Store
  <2>4. /\ proc'[p].pc = "written" /\ CredOf(proc'[p]) = Cred(p)
        /\ \A q \in Proc : q # p => proc'[q] = proc[q]
    BY <1>10, <1>d DEF WriteTmp
  <2> QED
    BY <2>3, <2>4, SoloMove DEF Fits
<1>11. ASSUME NEW p \in Proc, WriteFails(p) PROVE FALSE
  BY <1>11 DEF WriteFails, Mishap, Solo
<1>12. ASSUME NEW p \in Proc, RenameTmp(p) PROVE SoloInv'
  <2> DEFINE r == Named("serving", proc[p].id, proc[p].pin, "none")
  <2>1. tmp[HomeOf[p]] = CredOf(proc[p]) /\ CredOf(proc[p]) = CredOf(r) /\ r.pc = "serving"
    BY <1>12 DEF RenameTmp, At, SoloInv, Fits, CredOf, Named
  <2>2. proc'[p] = r /\ \A q \in Proc : q # p => proc'[q] = proc[q]
    BY <1>12, <1>b DEF RenameTmp
  <2> HIDE DEF r
  <2>3. /\ creds'[HomeOf[p]] = CredOf(r)
        /\ \A h \in Host : h # HomeOf[p] => creds'[h] = creds[h] /\ tmp'[h] = tmp[h]
    BY <1>12, <1>a, <1>b, <2>1 DEF RenameTmp
  <2> QED
    BY <2>1, <2>2, <2>3, SoloMove DEF Fits
<1>13. ASSUME NEW p \in Proc, RenameFails(p) PROVE FALSE
  <2>1. proc[p].pc = "written"
    BY <1>13 DEF RenameFails, At
  <2>2. tmp[HomeOf[p]] = CredOf(proc[p])
    BY <2>1 DEF SoloInv, Fits
  <2>3. tmp[HomeOf[p]].has = "all"
    BY <2>2 DEF CredOf
  <2> QED
    BY <1>13, <1>b, <2>3 DEF RenameFails
<1>14. ASSUME NEW h \in Host, Reset(h) PROVE FALSE
  BY <1>14 DEF Reset, Mishap, Solo
<1>15. ASSUME NEW h \in Host, ResetAsked(h) PROVE SoloInv'
  <2>1. /\ \A p \in Proc : HomeOf[p] = h => proc[p].pc = "off"
        /\ RemoveCreds(h)
    BY <1>15 DEF ResetAsked, At
  <2>2. ASSUME NEW p \in Proc, HomeOf[p] = h
        PROVE  proc'[p].pc = "off"
    BY <2>1, <2>2, <1>a DEF RemoveCreds, GoodProcess, Process
  <2>3. ASSUME NEW p \in Proc, HomeOf[p] # h
        PROVE  /\ proc'[p] = proc[p]
               /\ creds'[HomeOf[p]] = creds[HomeOf[p]] /\ tmp'[HomeOf[p]] = tmp[HomeOf[p]]
    BY <2>1, <2>3, <1>a, <1>b DEF RemoveCreds
  <2>4. ASSUME NEW p \in Proc
        PROVE  Fits(proc'[p], creds'[HomeOf[p]], tmp'[HomeOf[p]])
    <3>1. CASE HomeOf[p] = h
      BY <3>1, <2>2 DEF Fits
    <3>2. CASE HomeOf[p] # h
      BY <3>2, <2>3 DEF SoloInv
    <3> QED
      BY <3>1, <3>2
  <2> QED
    BY <2>4 DEF SoloInv
<1> QED
  BY <1>1, <1>2, <1>3, <1>4, <1>5, <1>6, <1>7, <1>8, <1>9, <1>10, <1>11, <1>12, <1>13,
     <1>14, <1>15 DEF EnlistNext, ProcStep

\* Unless the disk fails or somebody resets it, a worker that is alone on its
\* host and serves can be restarted without a code, whatever dies.
THEOREM RestartNeedsNoCode == Solo => (EnlistSpec => []ServingSaved)
<1> SUFFICES ASSUME Solo PROVE EnlistSpec => []ServingSaved
  OBVIOUS
<1>1. EnlistInit => SoloInv
  BY DEF EnlistInit, SoloInv, Fits, Off, Nameless
<1>2. EnlistSpec => []SoloInv
  BY <1>1, SoloStep, HostTyped, PTL DEF EnlistSpec
<1>3. SoloInv => ServingSaved
  BY DEF SoloInv, Fits, CredOf, ServingSaved, At, Loadable, Cred
<1> QED
  BY <1>2, <1>3, PTL
=============================================================================
