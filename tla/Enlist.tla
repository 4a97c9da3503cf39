------------------------------- MODULE Enlist -------------------------------
(***************************************************************************)
(* How a machine joins the grid: the worker processes of main.go and       *)
(* internal/worker (LoadCreds, Pair, sendHeartbeat, ResetCredentials), the *)
(* credentials file of each host, and the coordinator of Coordinator.tla.  *)
(*                                                                         *)
(* A process that finds credentials serves at once.  Any other is given a  *)
(* code and the fingerprint of a certificate, asks the coordinator, writes *)
(* worker_creds.json.tmp, renames it and serves, whether or not the file   *)
(* was written.  Every process of a host uses the same two paths.          *)
(*                                                                         *)
(* The coordinator speaks TLS; with -insecure nothing is pinned.           *)
(***************************************************************************)
EXTENDS Coordinator

CONSTANTS
  Proc,        \* worker processes
  Host,        \* machines
  HomeOf,      \* the machine a process runs on
  NoWorker,    \* the empty WorkerID
  HostFaults,  \* what may go wrong outside the coordinator
  MaxMishaps   \* bound on failures and on needless acts of the operator

ASSUME EnlistAssumption ==
  /\ HomeOf \in [Proc -> Host]
  /\ NoWorker \notin WorkerId
  /\ HostFaults \subseteq {"kill", "timeout", "typo", "diskFull", "reset"}
  /\ MaxMishaps \in Nat

VARIABLES
  proc,     \* the processes
  creds,    \* worker_creds.json of each host
  tmp,      \* worker_creds.json.tmp of each host
  stray,    \* pairing requests on their way whose sender is gone, by code
  mishaps   \* failures so far

enlistVars == <<vars, proc, creds, tmp, stray, mishaps>>
hostVars == <<proc, creds, tmp>>

-----------------------------------------------------------------------------
(* A file holds nothing, the credentials of a worker, or text LoadCreds     *)
(* cannot parse: "empty" after O_TRUNC, "torn" when two writers or a full   *)
(* disk left a mixture.  fd is the name the inode a process has open for    *)
(* writing goes by: renaming a file does not close it.                      *)

File ==
  [has : {"nothing", "empty", "torn", "all"},
   id : WorkerId \cup {NoWorker}, pin : 0..MaxCert]

Blank(has) == [has |-> has, id |-> NoWorker, pin |-> 0]

PC == {"off", "dialing", "waiting", "answered", "writing", "written", "serving"}

Process ==
  [pc : PC, code : Code \cup {NoCode}, pin : 0..MaxCert,
   id : WorkerId \cup {NoWorker}, fd : {"none", "tmp", "creds", "gone"}]

\* A process without an identity, and one that has its own.
Nameless(pc, code, pin) ==
  [pc |-> pc, code |-> code, pin |-> pin, id |-> NoWorker, fd |-> "none"]
Named(pc, id, pin, fd) ==
  [pc |-> pc, code |-> NoCode, pin |-> pin, id |-> id, fd |-> fd]

Off == Nameless("off", NoCode, 0)

EnlistInit ==
  /\ Init
  /\ proc = [p \in Proc |-> Off]
  /\ creds = [h \in Host |-> Blank("nothing")]
  /\ tmp = [h \in Host |-> Blank("nothing")]
  /\ stray = [c \in Code |-> 0]
  /\ mishaps = 0

At(p, pc) == proc[p].pc = pc
Become(p, state) == proc' = [proc EXCEPT ![p] = state]
Goto(p, pc) == Become(p, [proc[p] EXCEPT !.pc = pc])
Hold(p, pc, fd) == Become(p, Named(pc, proc[p].id, proc[p].pin, fd))

\* The step costs n failures.
Spend(n) == mishaps' = mishaps + n /\ mishaps' <= MaxMishaps

\* A failure of this kind happens in the step.
Mishap(kind) == kind \in HostFaults /\ Spend(1)

\* A coordinator that ends takes the requests in progress with it; Pair returns
\* the error and the process exits.
Cut == [p \in Proc |-> IF At(p, "waiting") THEN Off ELSE proc[p]]

\* The rest of a step of the coordinator: if it lives, processes become P and
\* the strays S.
Carry(P, S, cost) ==
  /\ proc'  = IF up' THEN P ELSE Cut
  /\ stray' = IF up' THEN S ELSE [c \in Code |-> 0]
  /\ Spend(cost + IF up' THEN 0 ELSE 1)
  /\ UNCHANGED <<creds, tmp>>

-----------------------------------------------------------------------------
(* The coordinator and its operator.                                        *)

CoordinatorRuns ==
  /\ StartFresh \/ Restart \/ Crash \/ CheckWorkerStatus
  /\ Carry(proc, stray, 0)

NeedsCode == cfg.code = NoCode \/ ~PairingOpen \/ now > cfg.expiry

IssueCode(code) ==
  /\ GenerateCode(code)
  /\ Carry(proc, stray, IF NeedsCode THEN 0 ELSE 1)

TimePasses == Tick /\ UNCHANGED <<hostVars, stray, mishaps>>

-----------------------------------------------------------------------------
(* Starting a worker.                                                       *)

\* LoadCreds finds a file and can parse it.
Loadable(h) == creds[h].has = "all"

\* The saved identity is used, whatever flags there are.
LaunchSaved(p) ==
  LET f == creds[HomeOf[p]] IN
  /\ At(p, "off") /\ Loadable(HomeOf[p])
  /\ Become(p, Named("serving", f.id, f.pin, "none"))
  /\ UNCHANGED <<vars, creds, tmp, stray, mishaps>>

\* The flags are what the running coordinator shows, and the code is good.
Current(code, pin) == up /\ ~NeedsCode /\ code = cfg.code /\ pin = cfg.cert

\* Without credentials -code and -fingerprint are wanted.
LaunchPairing(p, code, pin) ==
  /\ At(p, "off") /\ ~Loadable(HomeOf[p])
  /\ IF Current(code, pin) THEN UNCHANGED mishaps ELSE Mishap("typo")
  /\ Become(p, Nameless("dialing", code, pin))
  /\ UNCHANGED <<vars, creds, tmp, stray>>

\* MUTANT: VerifyConnection accepts every certificate.
ConnectUnpinned(p) ==
  /\ At(p, "dialing") /\ up
  /\ Goto(p, "waiting")
  /\ UNCHANGED <<vars, creds, tmp, stray, mishaps>>

\* The handshake succeeds with the pinned certificate only; the request is sent.
Connect(p) ==
  /\ At(p, "dialing") /\ up /\ proc[p].pin = cfg.cert
  /\ Goto(p, "waiting")
  /\ UNCHANGED <<vars, creds, tmp, stray, mishaps>>

\* Nobody listens, or the certificate is another: the process exits.
DialFails(p) ==
  /\ At(p, "dialing") /\ ~(up /\ proc[p].pin = cfg.cert)
  /\ Become(p, Off)
  /\ UNCHANGED <<vars, creds, tmp, stray, mishaps>>

-----------------------------------------------------------------------------
(* Pairing.                                                                 *)

\* MUTANT: the process serves before it has saved anything.
AnsweredServes(p, w, os) ==
  /\ At(p, "waiting")
  /\ Pair(w, proc[p].code, os)
  /\ Carry([proc EXCEPT ![p] = Named("serving", w, proc[p].pin, "none")], stray, 0)

\* The code is right: id and token arrive.
Answered(p, w, os) ==
  /\ At(p, "waiting")
  /\ Pair(w, proc[p].code, os)
  /\ Carry([proc EXCEPT ![p] = Named("answered", w, proc[p].pin, "none")], stray, 0)

\* It is wrong, spent or expired: the process exits.
Refused(p) ==
  /\ At(p, "waiting")
  /\ PairRejected(proc[p].code)
  /\ Carry([proc EXCEPT ![p] = Off], stray, 0)

\* Too many codes were wrong; the coordinator changes nothing.
Locked(p) ==
  /\ At(p, "waiting") /\ up /\ ~PairingOpen
  /\ Become(p, Off)
  /\ UNCHANGED <<vars, creds, tmp, stray, mishaps>>

\* The request of p, if it is still on its way, is not called back.
StrayOf(p) ==
  IF At(p, "waiting") THEN [stray EXCEPT ![proc[p].code] = @ + 1] ELSE stray

\* The client gives up after ten seconds: the process exits.
GiveUp(p) ==
  /\ Mishap("timeout")
  /\ At(p, "waiting")
  /\ Become(p, Off)
  /\ stray' = StrayOf(p)
  /\ UNCHANGED <<vars, creds, tmp>>

\* The coordinator handles a request nobody waits for.  A code it takes is
\* spent, and the worker it admits is never heard of.
StrayHandled(c) ==
  /\ stray[c] > 0
  /\ \/ \E w \in WorkerId, os \in OS : Pair(w, c, os)
     \/ PairRejected(c)
     \/ up /\ ~PairingOpen /\ UNCHANGED vars
  /\ Carry(proc, [stray EXCEPT ![c] = @ - 1], 0)

-----------------------------------------------------------------------------
(* Saving the credentials: os.WriteFile(tmp) and, when it returned no error, *)
(* os.Rename(tmp, path), whose error is ignored.                             *)

Cred(p) == [has |-> "all", id |-> proc[p].id, pin |-> proc[p].pin]

\* WriteFile opens the temporary file with O_CREATE and O_TRUNC.
OpenTmp(p) ==
  /\ At(p, "answered")
  /\ Hold(p, "writing", "tmp")
  /\ tmp' = [tmp EXCEPT ![HomeOf[p]] = Blank("empty")]
  /\ UNCHANGED <<vars, creds, stray, mishaps>>

\* The inode p has open becomes f.
Store(p, f) ==
  /\ tmp'   = IF proc[p].fd = "tmp" THEN [tmp EXCEPT ![HomeOf[p]] = f] ELSE tmp
  /\ creds' = IF proc[p].fd = "creds" THEN [creds EXCEPT ![HomeOf[p]] = f] ELSE creds

Opened(p) == IF proc[p].fd = "creds" THEN creds[HomeOf[p]] ELSE tmp[HomeOf[p]]

\* What a write over the text of another process leaves: the new text, unless
\* the old one is longer.
Landed(p) ==
  IF Opened(p).has \in {"torn", "all"} THEN {Cred(p), Blank("torn")} ELSE {Cred(p)}

WriteTmp(p) ==
  /\ At(p, "writing")
  /\ \E f \in Landed(p) : Store(p, f)
  /\ Hold(p, "written", "none")
  /\ UNCHANGED <<vars, stray, mishaps>>

\* WriteFile cannot open or write the file: Pair reports success all the same.
WriteFails(p) ==
  /\ Mishap("diskFull")
  /\ \/ At(p, "answered") /\ UNCHANGED <<creds, tmp>>
     \/ At(p, "writing") /\ (Store(p, Blank("torn")) \/ UNCHANGED <<creds, tmp>>)
  /\ Hold(p, "serving", "none")
  /\ UNCHANGED <<vars, stray>>

\* The other processes of p's host.
Others(p) == {q \in Proc \ {p} : HomeOf[q] = HomeOf[p]}

\* An inode that was known as tmp is called creds now, and that one nothing.
Renamed(fd) == IF fd = "tmp" THEN "creds" ELSE IF fd = "creds" THEN "gone" ELSE fd

RenameTmp(p) ==
  LET h == HomeOf[p] IN
  /\ At(p, "written") /\ tmp[h].has # "nothing"
  /\ creds' = [creds EXCEPT ![h] = tmp[h]]
  /\ tmp' = [tmp EXCEPT ![h] = Blank("nothing")]
  /\ proc' = [q \in Proc |->
                IF q = p THEN Named("serving", proc[p].id, proc[p].pin, "none")
                ELSE IF q \in Others(p) THEN [proc[q] EXCEPT !.fd = Renamed(@)]
                ELSE proc[q]]
  /\ UNCHANGED <<vars, stray, mishaps>>

\* Another process has renamed the file away or, on Windows, has one of the
\* two open.
RenameFails(p) ==
  /\ At(p, "written")
  /\ \/ tmp[HomeOf[p]].has = "nothing"
     \/ \E q \in Others(p) : proc[q].fd \in {"tmp", "creds"}
  /\ Hold(p, "serving", "none")
  /\ UNCHANGED <<vars, creds, tmp, stray, mishaps>>

-----------------------------------------------------------------------------
(* Serving, and the end of a process.                                       *)

\* The process reaches a coordinator with the certificate it pinned.
Reaches(p) == up /\ proc[p].pin = cfg.cert

Beat(p) ==
  /\ At(p, "serving") /\ Reaches(p)
  /\ Heartbeat(proc[p].id)
  /\ Carry(proc, stray, 0)

\* sendHeartbeat is answered 401: the process exits.
Rejected(p) ==
  /\ At(p, "serving") /\ Reaches(p)
  /\ proc[p].id \notin DOMAIN workers
  /\ Become(p, Off)
  /\ UNCHANGED <<vars, creds, tmp, stray, mishaps>>

\* MUTANT: an exit leaves the identity behind.
KillKeepsIdentity(p) ==
  /\ Mishap("kill")
  /\ ~At(p, "off")
  /\ Goto(p, "off")
  /\ stray' = StrayOf(p)
  /\ UNCHANGED <<vars, creds, tmp>>

\* The process is stopped; a request it has sent is still handled.
Kill(p) ==
  /\ Mishap("kill")
  /\ ~At(p, "off")
  /\ Become(p, Off)
  /\ stray' = StrayOf(p)
  /\ UNCHANGED <<vars, creds, tmp>>

\* The operator stops a worker whose heartbeats fail on another certificate.
Stop(p) ==
  /\ At(p, "serving") /\ up /\ proc[p].pin # cfg.cert
  /\ Become(p, Off)
  /\ UNCHANGED <<vars, creds, tmp, stray, mishaps>>

\* --reset-worker: ResetCredentials removes the file; processes that serve go
\* on with what they have in memory.
RemoveCreds(h) ==
  /\ creds[h].has # "nothing"
  /\ creds' = [creds EXCEPT ![h] = Blank("nothing")]
  /\ proc' = [p \in Proc |->
                IF HomeOf[p] = h /\ proc[p].fd = "creds"
                  THEN [proc[p] EXCEPT !.fd = "gone"] ELSE proc[p]]
  /\ UNCHANGED <<vars, tmp, stray>>

\* Nobody asked for it.
Reset(h) == Mishap("reset") /\ RemoveCreds(h)

\* A worker that is turned away asks for it: the coordinator has lost it, or
\* its own certificate, because a save failed.
ResetAsked(h) ==
  /\ \A p \in Proc : HomeOf[p] = h => At(p, "off")
  /\ up /\ Loadable(h)
  /\ creds[h].id \notin DOMAIN workers \/ creds[h].pin # cfg.cert
  /\ RemoveCreds(h) /\ UNCHANGED mishaps

-----------------------------------------------------------------------------

\* What a process does by itself and the coordinator's answers to it.
ProcStep(p) ==
  \/ Connect(p) \/ DialFails(p) \/ Refused(p) \/ Locked(p)
  \/ \E w \in WorkerId, os \in OS : Answered(p, w, os)
  \/ OpenTmp(p) \/ WriteTmp(p) \/ RenameTmp(p) \/ RenameFails(p)

EnlistNext ==
  \/ CoordinatorRuns \/ TimePasses
  \/ \E c \in Code : IssueCode(c) \/ StrayHandled(c)
  \/ \E p \in Proc :
       \/ LaunchSaved(p) \/ \E c \in Code, pin \in 1..MaxCert : LaunchPairing(p, c, pin)
       \/ ProcStep(p) \/ GiveUp(p) \/ WriteFails(p)
       \/ Beat(p) \/ Rejected(p) \/ Kill(p) \/ Stop(p)
  \/ \E h \in Host : Reset(h) \/ ResetAsked(h)

EnlistSpec == EnlistInit /\ [][EnlistNext]_enlistVars

\* The operator starts what is down, gives out a code when one is needed, and
\* starts a worker with the code and the fingerprint the coordinator shows;
\* a worker that is turned away is reset at last, though it may be started
\* again and again before.  Processes run, and requests are answered.
EnlistFairness ==
  /\ WF_enlistVars((StartFresh \/ Restart) /\ Carry(proc, stray, 0))
  /\ WF_enlistVars(NeedsCode /\ \E c \in Code : IssueCode(c))
  /\ \A p \in Proc :
       /\ WF_enlistVars(LaunchSaved(p))
       /\ WF_enlistVars(~NeedsCode /\ LaunchPairing(p, cfg.code, cfg.cert))
       /\ WF_enlistVars(ProcStep(p)) /\ WF_enlistVars(Rejected(p) \/ Stop(p))
  /\ \A h \in Host : SF_enlistVars(ResetAsked(h))

FairEnlistSpec == EnlistSpec /\ EnlistFairness

-----------------------------------------------------------------------------
(* Properties.                                                              *)

Holding == {"answered", "writing", "written", "serving"}

\* Every variable of the hosts stays in its type, and only a process that has
\* been answered has an identity.
EnlistTypeOK ==
  /\ proc \in [Proc -> Process]
  /\ \A p \in Proc : proc[p].id # NoWorker <=> proc[p].pc \in Holding
  /\ creds \in [Host -> File] /\ tmp \in [Host -> File]
  /\ stray \in [Code -> 0..MaxMishaps]
  /\ mishaps \in 0..MaxMishaps

\* The coordinator knows worker id, and a client that pinned pin reaches it.
Honoured(id, pin) ==
  /\ id \in DOMAIN disk.workers
  /\ up => id \in DOMAIN workers /\ cfg.cert = pin

\* Credentials are good for ever: those a process has in memory and those in a
\* file that can be parsed are honoured by every later coordinator, whichever
\* process died where and however many processes wrote the file.  So nobody is
\* turned away for good.  (Save must not fail.)
CredsHonoured ==
  /\ \A p \in Proc : proc[p].pc \in Holding => Honoured(proc[p].id, proc[p].pin)
  /\ \A h \in Host : \A f \in {creds[h], tmp[h]} :
       f.has = "all" => Honoured(f.id, f.pin)

\* A process that serves has left its identity where the next one on its host
\* finds it, so that a restart needs no code.
ServingSaved ==
  \A p \in Proc : At(p, "serving") => Loadable(HomeOf[p]) /\ creds[HomeOf[p]] = Cred(p)

\* When failures have ceased every process serves in the end, and a coordinator
\* that knows it: no crash, failed save, timeout or lost answer leaves a machine
\* that cannot join, or one that was forgotten and cannot join again.
Enlists == \A p \in Proc : <>[](At(p, "serving") /\ Reaches(p) /\ proc[p].id \in DOMAIN workers)
=============================================================================
