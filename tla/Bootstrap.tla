----------------------------- MODULE Bootstrap -----------------------------
(***************************************************************************)
(* Applying a bootstrap bundle: bootstrap-crypto decrypt-and-apply (and    *)
(* decrypt-protected-and-apply, which differs in how it reads the private  *)
(* key), the replay store that lets a bundle be applied once, and          *)
(* configure-client, the child process that writes agentclient.json.       *)
(*                                                                         *)
(* Every access to the replay store is one call of update, which holds an  *)
(* advisory file lock from load to save; it is one step here.  What is not *)
(* under the lock is everything between Reserve and Commit or Release.     *)
(*                                                                         *)
(* Signatures, ciphers and keys are left out: a bundle that fails any of   *)
(* those checks is a fault, before Reserve it changes nothing.             *)
(***************************************************************************)
EXTENDS Integers

CONSTANTS
  Process,    \* runs of bootstrap-crypto that can be under way at once
  Bundle,     \* bundles, by bootstrap_id
  NoBundle,   \* none of them
  StaleAge,   \* age from which a reservation is stale: 15 minutes
  Faults,     \* which failures may happen
  MaxFaults   \* bound on the number of failures

ASSUME BootstrapAssumption ==
  /\ NoBundle \notin Bundle
  /\ StaleAge \in Nat \ {0}
  /\ Faults \subseteq {"crash", "childCrash", "error", "lockError", "stall",
                    "finalCheck"}
  /\ MaxFaults \in Nat

VARIABLES
  store,     \* replay-state.json; of a time only its age matters, up to StaleAge
  present,   \* the bundles whose file and private key have not been deleted
  apply,     \* the bootstrap-crypto processes
  child,     \* the configure-client process each of them started last
  tmp,       \* agentclient.json.tmp exists
  config,    \* the bundle agentclient.json was written from
  expired,   \* the bundles whose time to be applied is over
  faults,    \* failures so far
  installed, \* ghost: bundles that have been in agentclient.json
  successes, \* ghost: per bundle, how many processes committed it
  wipes      \* ghost: how often a failed save removed the replay store

files == <<present, tmp, config, expired>>
ghosts == <<installed, successes, wipes>>
vars == <<store, apply, child, files, faults, ghosts>>

-----------------------------------------------------------------------------

ReplayState == [status : {"reserved", "consumed"}, age : 0..StaleAge]

IsMap(m, D, R) == DOMAIN m \subseteq D /\ m \in [DOMAIN m -> R]
Put(f, k, v) == [x \in DOMAIN f \cup {k} |-> IF x = k THEN v ELSE f[x]]
Without(f, K) == [x \in DOMAIN f \ K |-> f[x]]
EmptyMap == [x \in {} |-> x]

ApplyPC == {"idle", "loaded", "reserved", "configuring", "committing", "cleaning",
            "releasing"}
ChildPC == {"none", "started", "writing", "done", "failed"}

Idle == [pc |-> "idle", bundle |-> NoBundle]

Init ==
  /\ store = EmptyMap /\ present = Bundle
  /\ apply = [p \in Process |-> Idle]
  /\ child = [p \in Process |-> [pc |-> "none", bundle |-> NoBundle]]
  /\ tmp = FALSE /\ config = NoBundle /\ expired = {} /\ faults = 0
  /\ installed = {} /\ successes = [b \in Bundle |-> 0] /\ wipes = 0

\* A failure of this kind happens in the step.
Fault(kind) == kind \in Faults /\ faults < MaxFaults /\ faults' = faults + 1

At(p, pc) == apply[p].pc = pc
Goto(p, pc) == apply' = [apply EXCEPT ![p].pc = pc]
Exit(p) == apply' = [apply EXCEPT ![p] = Idle]
Live(pc) == pc \in {"started", "writing"}

-----------------------------------------------------------------------------
(* The functions handed to update.                                          *)

Is(b, status) == b \in DOMAIN store /\ store[b].status = status

\* Mutant: a reservation never gets stale.
ReservableOnce(b) == b \notin DOMAIN store

\* Reserve: not consumed, and not reserved less than StaleAge ago.
Reservable(b) == b \in DOMAIN store => Is(b, "reserved") /\ store[b].age >= StaleAge

WithReserved(b) == Put(store, b, [status |-> "reserved", age |-> 0])

\* Mutant: any entry is turned into a consumed one.
CommittableAny(b) == b \in DOMAIN store

Committable(b) == Is(b, "reserved")

WithConsumed(b) == Put(store, b, [status |-> "consumed", age |-> 0])

\* Mutant: Release deletes the entry whatever its status.
ReleasedAny(b) == Without(store, {b})

\* Release deletes a reservation, whoever made it.
Released(b) == IF Is(b, "reserved") THEN Without(store, {b}) ELSE store

\* On Windows save checks the access rights of replay-state.json once more
\* after it has replaced it, and removes it when that fails.  A store without
\* its file is an empty one.
RemovedBySave ==
  /\ Fault("finalCheck")
  /\ store' = EmptyMap /\ wipes' = wipes + 1

\* The store cannot be locked, read or written.
NotSaved == Fault("lockError") /\ UNCHANGED <<store, wipes>>

-----------------------------------------------------------------------------
(* decrypt-and-apply.                                                       *)

\* The bundle and the keys are read and checked.
Load(p, b) ==
  /\ At(p, "idle") /\ ~Live(child[p].pc)
  /\ b \in present
  /\ apply' = [apply EXCEPT ![p] = [pc |-> "loaded", bundle |-> b]]
  /\ UNCHANGED <<store, child, files, faults, ghosts>>

Reserve(p) ==
  /\ At(p, "loaded")
  /\ LET b == apply[p].bundle IN
       /\ Reservable(b)
       /\ store' = WithReserved(b)
  /\ Goto(p, "reserved")
  /\ UNCHANGED <<child, files, faults, ghosts>>

\* Reserve saved the reservation but failed to unlock: it reports an error,
\* and ValidateBootstrapBundle returns before it arranges for a Release.
ReserveUnlockFails(p) ==
  /\ At(p, "loaded")
  /\ Fault("lockError")
  /\ LET b == apply[p].bundle IN
       /\ Reservable(b)
       /\ store' = WithReserved(b)
  /\ Exit(p)
  /\ UNCHANGED <<child, files, ghosts>>

\* The id is consumed or freshly reserved, or the reservation is not saved.
ReserveRefused(p) ==
  /\ At(p, "loaded")
  /\ \/ ~Reservable(apply[p].bundle) /\ UNCHANGED <<store, faults, wipes>>
     \/ NotSaved
     \/ Reservable(apply[p].bundle) /\ RemovedBySave
  /\ Exit(p)
  /\ UNCHANGED <<child, files, installed, successes>>

\* The bundle is decrypted, valid and not expired; configure-client is started
\* and given the token.
StartChild(p) ==
  /\ At(p, "reserved")
  /\ apply[p].bundle \notin expired
  /\ child' = [child EXCEPT ![p] = [pc |-> "started", bundle |-> apply[p].bundle]]
  /\ Goto(p, "configuring")
  /\ UNCHANGED <<store, files, faults, ghosts>>

\* An error after Reserve: what is left is the deferred Release.
GiveUp(p) ==
  /\ Goto(p, "releasing")
  /\ UNCHANGED <<child, files, installed, successes>>

\* The bundle has expired or is invalid, or configure-client cannot be started.
ValidationFails(p) ==
  /\ At(p, "reserved")
  /\ \/ apply[p].bundle \in expired /\ UNCHANGED faults
     \/ Fault("error")
  /\ GiveUp(p) /\ UNCHANGED <<store, wipes>>

\* configure-client was successful and agentclient.json holds what it was
\* told to write.
Verify(p) ==
  /\ At(p, "configuring") /\ child[p].pc = "done"
  /\ config = apply[p].bundle
  /\ Goto(p, "committing")
  /\ UNCHANGED <<store, child, files, faults, ghosts>>

VerifyFails(p) ==
  /\ At(p, "configuring")
  /\ \/ child[p].pc = "failed"
     \/ child[p].pc = "done" /\ config # apply[p].bundle
  /\ GiveUp(p) /\ UNCHANGED <<store, faults, wipes>>

Commit(p) ==
  /\ At(p, "committing")
  /\ LET b == apply[p].bundle IN
       /\ Committable(b)
       /\ store' = WithConsumed(b)
       /\ successes' = [successes EXCEPT ![b] = @ + 1]
  /\ Goto(p, "cleaning")
  /\ UNCHANGED <<child, files, faults, installed, wipes>>

\* Commit saved the entry but failed to unlock: an error is reported, and
\* Release finds nothing to release.
CommitUnlockFails(p) ==
  /\ At(p, "committing")
  /\ Fault("lockError")
  /\ Committable(apply[p].bundle)
  /\ store' = WithConsumed(apply[p].bundle)
  /\ GiveUp(p) /\ UNCHANGED wipes

\* Mutant: the error of Commit is ignored.
CommitRefusedIgnored(p) ==
  /\ At(p, "committing")
  /\ ~Committable(apply[p].bundle)
  /\ Goto(p, "cleaning")
  /\ UNCHANGED <<store, child, files, faults, ghosts>>

\* The id is no longer reserved, or the entry is not saved.
CommitRefused(p) ==
  /\ At(p, "committing")
  /\ \/ ~Committable(apply[p].bundle) /\ UNCHANGED <<store, faults, wipes>>
     \/ NotSaved
     \/ Committable(apply[p].bundle) /\ RemovedBySave
  /\ GiveUp(p)

\* The deferred Release, which saves the store also when it found no
\* reservation.  Its error is not looked at.
Release(p) ==
  /\ At(p, "releasing")
  /\ \/ store' = Released(apply[p].bundle) /\ UNCHANGED <<faults, wipes>>
     \/ NotSaved
     \/ RemovedBySave
  /\ Exit(p)
  /\ UNCHANGED <<child, files, installed, successes>>

\* Bundle and private key are deleted, which may fail with a warning.
Cleanup(p) ==
  /\ At(p, "cleaning")
  /\ \/ present' = present \ {apply[p].bundle} /\ UNCHANGED faults
     \/ Fault("error") /\ UNCHANGED present
  /\ Exit(p)
  /\ UNCHANGED <<store, child, tmp, config, expired, ghosts>>

\* The process is killed; a child that has its token goes on.
Crash(p) ==
  /\ ~At(p, "idle")
  /\ Fault("crash")
  /\ Exit(p)
  /\ UNCHANGED <<store, child, files, ghosts>>

-----------------------------------------------------------------------------
(* configure-client: writeSecureConfig.                                     *)

ChildGoto(p, pc) == child' = [child EXCEPT ![p].pc = pc]

\* Mutant: the temporary file is opened without O_EXCL.
CreateTmpShared(p) ==
  /\ child[p].pc = "started"
  /\ tmp' = TRUE /\ ChildGoto(p, "writing")
  /\ UNCHANGED <<store, present, apply, config, expired, faults, ghosts>>

\* The temporary file is created; O_EXCL fails when there is one.
CreateTmp(p) ==
  /\ child[p].pc = "started"
  /\ IF tmp THEN ChildGoto(p, "failed") /\ UNCHANGED tmp
            ELSE ChildGoto(p, "writing") /\ tmp' = TRUE
  /\ UNCHANGED <<store, present, apply, config, expired, faults, ghosts>>

\* It is written, synced and renamed to agentclient.json.
Install(p) ==
  /\ child[p].pc = "writing"
  /\ tmp' = FALSE /\ config' = child[p].bundle
  /\ installed' = installed \cup {child[p].bundle}
  /\ ChildGoto(p, "done")
  /\ UNCHANGED <<store, present, apply, expired, faults, successes, wipes>>

\* Writing it fails, and it is removed.
WriteFails(p) ==
  /\ child[p].pc = "writing"
  /\ Fault("error")
  /\ tmp' = FALSE /\ ChildGoto(p, "failed")
  /\ UNCHANGED <<store, present, apply, config, expired, ghosts>>

\* On Windows the new file's access rights are checked once more; if that
\* fails it is removed, and the old one is gone already.
FinalCheckFails(p) ==
  /\ child[p].pc = "writing"
  /\ Fault("finalCheck")
  /\ tmp' = FALSE /\ config' = NoBundle
  /\ ChildGoto(p, "failed")
  /\ UNCHANGED <<store, present, apply, expired, ghosts>>

\* The child is killed; what it created stays.
ChildCrash(p) ==
  /\ Live(child[p].pc)
  /\ Fault("childCrash")
  /\ ChildGoto(p, "failed")
  /\ UNCHANGED <<store, apply, files, ghosts>>

-----------------------------------------------------------------------------

Aging ==
  /\ \E b \in DOMAIN store : Is(b, "reserved") /\ store[b].age < StaleAge
  /\ store' = [b \in DOMAIN store |->
                 IF Is(b, "reserved") /\ store[b].age < StaleAge
                   THEN [store[b] EXCEPT !.age = @ + 1] ELSE store[b]]
  /\ UNCHANGED <<apply, child, files, ghosts>>

Resting == \A p \in Process : apply[p].pc \in {"idle", "loaded"}

\* Time passes; a process is done long before its own reservation gets stale,
Tick == Aging /\ Resting /\ UNCHANGED faults

\* unless it is held up.
Stall == Aging /\ ~Resting /\ Fault("stall")

\* The operator deletes agentclient.json.tmp, on which every configure-client
\* fails, when the one that made it was killed.
RemoveLeftover ==
  /\ tmp /\ \A p \in Process : child[p].pc # "writing"
  /\ tmp' = FALSE
  /\ UNCHANGED <<store, present, apply, child, config, expired, faults, ghosts>>

\* The expiry written into the bundle passes.
Expire(b) ==
  /\ b \notin expired
  /\ expired' = expired \cup {b}
  /\ UNCHANGED <<store, present, apply, child, tmp, config, faults, ghosts>>

ApplyStep(p) ==
  \/ Reserve(p) \/ ReserveRefused(p) \/ StartChild(p) \/ ValidationFails(p)
  \/ Verify(p) \/ VerifyFails(p) \/ Commit(p) \/ CommitRefused(p)
  \/ Cleanup(p) \/ Release(p)

ChildStep(p) == CreateTmp(p) \/ Install(p)

Failure(p) ==
  \/ ReserveUnlockFails(p) \/ CommitUnlockFails(p) \/ Crash(p)
  \/ WriteFails(p) \/ FinalCheckFails(p) \/ ChildCrash(p)

Next ==
  \/ Tick \/ Stall \/ RemoveLeftover
  \/ \E b \in Bundle : Expire(b)
  \/ \E p \in Process :
       ApplyStep(p) \/ ChildStep(p) \/ Failure(p) \/ \E b \in Bundle : Load(p, b)

Spec == Init /\ [][Next]_vars

\* Processes run, time passes, and the operator deletes what is in the way and
\* applies the bundle again while it is there and has not been consumed.
Fairness ==
  /\ WF_vars(Tick) /\ WF_vars(RemoveLeftover)
  /\ \A p \in Process :
       /\ WF_vars(ApplyStep(p)) /\ WF_vars(ChildStep(p))
       /\ \A b \in Bundle : WF_vars(Load(p, b))

\* In the end the operator starts no run before the others have ended.  Without
\* this two of them can keep each other from committing for ever, since Release
\* deletes a reservation whoever made it.
OneAtATime ==
  <>[][\A p \in Process, b \in Bundle :
         Load(p, b) => \A q \in Process : At(q, "idle")]_vars

FairSpec == Spec /\ Fairness /\ OneAtATime

-----------------------------------------------------------------------------
(* Properties.                                                              *)

\* Every variable stays in its type; in particular at most one
\* configure-client writes the temporary file, and then it exists.
TypeOK ==
  /\ IsMap(store, Bundle, ReplayState)
  /\ present \subseteq Bundle
  /\ apply \in [Process -> [pc : ApplyPC, bundle : Bundle \cup {NoBundle}]]
  /\ child \in [Process -> [pc : ChildPC, bundle : Bundle \cup {NoBundle}]]
  /\ tmp \in BOOLEAN
  /\ \A p, q \in Process :
       child[p].pc = "writing" => tmp /\ (child[q].pc = "writing" => p = q)
  /\ config \in Bundle \cup {NoBundle}
  /\ expired \subseteq Bundle
  /\ faults \in 0..MaxFaults
  /\ installed \subseteq Bundle
  /\ successes \in [Bundle -> Nat]
  /\ wipes \in Nat

\* A consumed bundle stays consumed, also when a process whose reservation
\* went stale releases it afterwards.  One thing alone takes it back: a save of
\* the store, by any process and for any bundle, that removes the file.
ConsumedForGood ==
  [][\A b \in Bundle : Is(b, "consumed") => Is(b, "consumed")' \/ wipes' > wipes]_vars

\* At most one process commits a bundle and reports success, even when a second
\* one took over its stale reservation and both went on to the end; and one
\* more, at most, for every time the store was removed by a failed save.
OneSuccess == \A b \in Bundle : successes[b] <= 1 + wipes

\* A bundle is spent only after its configuration was in place, and its file
\* and key are deleted only when a process committed it besides, whatever other
\* processes do to the store meanwhile.  A configure-client that comes later
\* may still replace that configuration, or remove it.
NothingLost ==
  /\ \A b \in Bundle : Is(b, "consumed") => b \in installed
  /\ \A b \in Bundle \ present : b \in installed /\ successes[b] # 0

\* A bundle that is tried again after every failure is applied in the end,
\* unless it expires first: reservations of dead processes get stale, and
\* nothing else is in the way but the temporary file of a configure-client that
\* was killed.  A bundle that is valid for less than the 15 minutes of StaleAge
\* has expired when the reservation of a dead process can be taken over.
BundleApplied == \A b \in Bundle : <>(Is(b, "consumed") \/ b \in expired)
=============================================================================
