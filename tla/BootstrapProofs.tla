-------------------------- MODULE BootstrapProofs --------------------------
(***************************************************************************)
(* Proofs about Bootstrap: type correctness, and that a bundle is applied  *)
(* once, spent for good and never spent unapplied, for any number of       *)
(* processes and bundles, any delay and any number of failures; a failed   *)
(* save that removes the replay store is counted, not left out.            *)
(***************************************************************************)
EXTENDS Bootstrap, TLAPS

-----------------------------------------------------------------------------
(* Type correctness.  TypeOK lets an idle process have any bundle or none;  *)
(* that a busy one has a bundle makes it inductive.                         *)

TypeInv ==
  /\ TypeOK
  /\ \A p \in Process :
       /\ apply[p].pc # "idle" => apply[p].bundle \in Bundle
       /\ child[p].pc # "none" => child[p].bundle \in Bundle

\* What the functions handed to update do to the type of the store.
LEMMA StoreType ==
  ASSUME IsMap(store, Bundle, ReplayState), NEW b \in Bundle
  PROVE  /\ IsMap(WithReserved(b), Bundle, ReplayState)
         /\ IsMap(WithConsumed(b), Bundle, ReplayState)
         /\ IsMap(Released(b), Bundle, ReplayState)
<1>1. 0 \in 0..StaleAge
  BY BootstrapAssumption
<1>2. /\ [status |-> "reserved", age |-> 0] \in ReplayState
      /\ [status |-> "consumed", age |-> 0] \in ReplayState
  BY <1>1 DEF ReplayState
<1>3. ASSUME NEW v \in ReplayState PROVE IsMap(Put(store, b, v), Bundle, ReplayState)
  BY <1>3 DEF IsMap, Put
<1>4. IsMap(Without(store, {b}), Bundle, ReplayState)
  BY DEF IsMap, Without
<1> QED
  BY <1>2, <1>3, <1>4 DEF WithReserved, WithConsumed, Released

LEMMA EmptyType == IsMap(EmptyMap, Bundle, ReplayState)
BY DEF IsMap, EmptyMap

LEMMA TypeInit == Init => TypeInv
<1> SUFFICES ASSUME Init PROVE TypeInv
  OBVIOUS
<1>2. /\ apply \in [Process -> [pc : ApplyPC, bundle : Bundle \cup {NoBundle}]]
      /\ child \in [Process -> [pc : ChildPC, bundle : Bundle \cup {NoBundle}]]
      /\ \A p \in Process : apply[p].pc = "idle" /\ child[p].pc = "none"
  BY DEF Init, Idle, ApplyPC, ChildPC
<1>3. faults \in 0..MaxFaults /\ successes \in [Bundle -> Nat] /\ wipes \in Nat
  BY BootstrapAssumption DEF Init
<1>6. tmp \in BOOLEAN
  BY DEF Init
<1>4. IsMap(store, Bundle, ReplayState)
  BY EmptyType DEF Init
<1>5. /\ present \subseteq Bundle /\ config \in Bundle \cup {NoBundle}
      /\ installed \subseteq Bundle /\ expired \subseteq Bundle
  BY DEF Init
<1> QED
  BY <1>2, <1>3, <1>6, <1>4, <1>5 DEF TypeInv, TypeOK

LEMMA TypeStep == TypeInv /\ [Next]_vars => TypeInv'
<1> SUFFICES ASSUME TypeInv, [Next]_vars PROVE TypeInv'
  OBVIOUS
<1> USE DEF TypeInv, TypeOK, files, ghosts, At
<1>f. ASSUME NEW kind, Fault(kind) PROVE faults' \in 0..MaxFaults
  BY <1>f, BootstrapAssumption DEF Fault
<1>i. Idle \in [pc : ApplyPC, bundle : Bundle \cup {NoBundle}] /\ Idle.pc = "idle"
  BY DEF Idle, ApplyPC
<1>e. ASSUME NEW p \in Process, Exit(p)
      PROVE  /\ apply' \in [Process -> [pc : ApplyPC, bundle : Bundle \cup {NoBundle}]]
             /\ \A q \in Process : apply'[q].pc # "idle" => apply'[q].bundle \in Bundle
  BY <1>e, <1>i DEF Exit
<1>g. ASSUME NEW p \in Process, apply[p].pc # "idle", NEW pc \in ApplyPC, Goto(p, pc)
      PROVE  /\ apply' \in [Process -> [pc : ApplyPC, bundle : Bundle \cup {NoBundle}]]
             /\ \A q \in Process : apply'[q].pc # "idle" => apply'[q].bundle \in Bundle
  BY <1>g DEF Goto
<1>c. ASSUME NEW p \in Process, child[p].pc # "none", NEW pc \in ChildPC, ChildGoto(p, pc)
      PROVE  /\ child' \in [Process -> [pc : ChildPC, bundle : Bundle \cup {NoBundle}]]
             /\ \A q \in Process : child'[q].pc # "none" => child'[q].bundle \in Bundle
             /\ child'[p].pc = pc
             /\ \A q \in Process \ {p} : child'[q] = child[q]
  BY <1>c DEF ChildGoto
<1>u. ASSUME NEW p \in Process, apply[p].pc # "idle", GiveUp(p),
             IsMap(store', Bundle, ReplayState), faults' \in 0..MaxFaults, wipes' \in Nat
      PROVE  TypeInv'
  <2>1. "releasing" \in ApplyPC
    BY DEF ApplyPC
  <2> QED
    BY <1>u, <2>1, <1>g DEF GiveUp
<1>w. ASSUME RemovedBySave
      PROVE  IsMap(store', Bundle, ReplayState) /\ faults' \in 0..MaxFaults /\ wipes' \in Nat
  BY <1>w, <1>f, EmptyType DEF RemovedBySave
<1>n. ASSUME NotSaved
      PROVE  IsMap(store', Bundle, ReplayState) /\ faults' \in 0..MaxFaults /\ wipes' \in Nat
  BY <1>n, <1>f DEF NotSaved
<1>1. CASE Tick \/ Stall
  <2>1. IsMap(store', Bundle, ReplayState)
    <3>1. store \in [DOMAIN store -> ReplayState] /\ DOMAIN store \subseteq Bundle
      BY DEF IsMap
    <3>2. \A b \in DOMAIN store :
             store[b].age < StaleAge => [store[b] EXCEPT !.age = @ + 1] \in ReplayState
      BY <3>1, BootstrapAssumption DEF ReplayState
    <3> QED
      BY <1>1, <3>1, <3>2 DEF Tick, Stall, Aging, IsMap
  <2>2. faults' \in 0..MaxFaults
    BY <1>1, BootstrapAssumption DEF Tick, Stall, Fault
  <2> QED
    BY <1>1, <2>1, <2>2 DEF Tick, Stall, Aging
<1>2. ASSUME NEW p \in Process, NEW b \in Bundle, Load(p, b) PROVE TypeInv'
  BY <1>2 DEF Load, ApplyPC
<1>3. ASSUME NEW p \in Process, Reserve(p) PROVE TypeInv'
  <2>1. apply[p].bundle \in Bundle /\ apply[p].pc # "idle" /\ "reserved" \in ApplyPC
    BY <1>3 DEF Reserve, ApplyPC
  <2>2. IsMap(store', Bundle, ReplayState)
    BY <1>3, <2>1, StoreType DEF Reserve
  <2> QED
    BY <1>3, <2>1, <2>2, <1>g DEF Reserve
<1>4. ASSUME NEW p \in Process, ReserveUnlockFails(p) PROVE TypeInv'
  <2>1. apply[p].bundle \in Bundle
    BY <1>4 DEF ReserveUnlockFails
  <2>2. IsMap(store', Bundle, ReplayState)
    BY <1>4, <2>1, StoreType DEF ReserveUnlockFails
  <2> QED
    BY <1>4, <2>2, <1>e, <1>f DEF ReserveUnlockFails
<1>5. ASSUME NEW p \in Process, ReserveRefused(p) PROVE TypeInv'
  <2>1. IsMap(store', Bundle, ReplayState) /\ faults' \in 0..MaxFaults /\ wipes' \in Nat
    BY <1>5, <1>w, <1>n DEF ReserveRefused
  <2> QED
    BY <1>5, <2>1, <1>e DEF ReserveRefused
<1>6. ASSUME NEW p \in Process, StartChild(p) PROVE TypeInv'
  <2>1. apply[p].bundle \in Bundle /\ apply[p].pc # "idle" /\ "configuring" \in ApplyPC
    BY <1>6 DEF StartChild, ApplyPC
  <2>2. /\ child' \in [Process -> [pc : ChildPC, bundle : Bundle \cup {NoBundle}]]
        /\ \A q \in Process : child'[q].pc # "none" => child'[q].bundle \in Bundle
        /\ child'[p].pc = "started" /\ \A q \in Process \ {p} : child'[q] = child[q]
    BY <1>6, <2>1 DEF StartChild, ChildPC
  <2> QED
    BY <1>6, <2>1, <2>2, <1>g DEF StartChild
<1>7. ASSUME NEW p \in Process, ValidationFails(p) PROVE TypeInv'
  <2>1. faults' \in 0..MaxFaults
    BY <1>7, <1>f DEF ValidationFails
  <2> QED
    BY <1>7, <2>1, <1>u DEF ValidationFails
<1>8. ASSUME NEW p \in Process, Verify(p) PROVE TypeInv'
  <2>1. apply[p].pc # "idle" /\ "committing" \in ApplyPC
    BY <1>8 DEF Verify, ApplyPC
  <2> QED
    BY <1>8, <2>1, <1>g DEF Verify
<1>9. ASSUME NEW p \in Process, VerifyFails(p) PROVE TypeInv'
  BY <1>9, <1>u DEF VerifyFails
<1>10. ASSUME NEW p \in Process, Commit(p) PROVE TypeInv'
  <2>1. apply[p].bundle \in Bundle /\ apply[p].pc # "idle" /\ "cleaning" \in ApplyPC
    BY <1>10 DEF Commit, ApplyPC
  <2>2. IsMap(store', Bundle, ReplayState)
    BY <1>10, <2>1, StoreType DEF Commit
  <2>3. successes' \in [Bundle -> Nat]
    BY <1>10, <2>1 DEF Commit
  <2> QED
    BY <1>10, <2>1, <2>2, <2>3, <1>g DEF Commit
<1>11. ASSUME NEW p \in Process, CommitUnlockFails(p) PROVE TypeInv'
  <2>1. apply[p].bundle \in Bundle
    BY <1>11 DEF CommitUnlockFails
  <2>2. IsMap(store', Bundle, ReplayState)
    BY <1>11, <2>1, StoreType DEF CommitUnlockFails
  <2> QED
    BY <1>11, <2>2, <1>u, <1>f DEF CommitUnlockFails
<1>12. ASSUME NEW p \in Process, CommitRefused(p) PROVE TypeInv'
  <2>1. IsMap(store', Bundle, ReplayState) /\ faults' \in 0..MaxFaults /\ wipes' \in Nat
    BY <1>12, <1>w, <1>n DEF CommitRefused
  <2> QED
    BY <1>12, <2>1, <1>u DEF CommitRefused
<1>13. ASSUME NEW p \in Process, Cleanup(p) PROVE TypeInv'
  <2>1. faults' \in 0..MaxFaults /\ present' \subseteq Bundle
    BY <1>13, <1>f DEF Cleanup
  <2> QED
    BY <1>13, <2>1, <1>e DEF Cleanup
<1>14. ASSUME NEW p \in Process, Crash(p) PROVE TypeInv'
  BY <1>14, <1>e, <1>f DEF Crash
<1>15. ASSUME NEW p \in Process, CreateTmp(p) PROVE TypeInv'
  <2>1. "failed" \in ChildPC /\ "writing" \in ChildPC
    BY DEF ChildPC
  <2>2. CASE tmp
    BY <1>15, <2>1, <2>2, <1>c DEF CreateTmp
  <2>3. CASE ~tmp
    BY <1>15, <2>1, <2>3, <1>c DEF CreateTmp
  <2> QED
    BY <2>2, <2>3
<1>16. ASSUME NEW p \in Process, Install(p) PROVE TypeInv'
  <2>1. "done" \in ChildPC /\ child[p].bundle \in Bundle
    BY <1>16 DEF Install, ChildPC
  <2> QED
    BY <1>16, <2>1, <1>c DEF Install
<1>17. ASSUME NEW p \in Process, WriteFails(p) PROVE TypeInv'
  <2>1. "failed" \in ChildPC
    BY DEF ChildPC
  <2> QED
    BY <1>17, <2>1, <1>c, <1>f DEF WriteFails
<1>18. ASSUME NEW p \in Process, FinalCheckFails(p) PROVE TypeInv'
  <2>1. "failed" \in ChildPC
    BY DEF ChildPC
  <2> QED
    BY <1>18, <2>1, <1>c, <1>f DEF FinalCheckFails
<1>19. ASSUME NEW p \in Process, ChildCrash(p) PROVE TypeInv'
  <2>1. "failed" \in ChildPC
    BY DEF ChildPC
  <2> QED
    BY <1>19, <2>1, <1>c, <1>f DEF ChildCrash, Live
<1>20. CASE UNCHANGED vars
  BY <1>20 DEF vars
<1>21. CASE RemoveLeftover
  BY <1>21 DEF RemoveLeftover
<1>22. ASSUME NEW p \in Process, Release(p) PROVE TypeInv'
  <2>1. apply[p].bundle \in Bundle
    BY <1>22 DEF Release
  <2>2. IsMap(store', Bundle, ReplayState) /\ faults' \in 0..MaxFaults /\ wipes' \in Nat
    BY <1>22, <2>1, <1>w, <1>n, StoreType DEF Release
  <2> QED
    BY <1>22, <2>2, <1>e DEF Release
<1>23. ASSUME NEW b \in Bundle, Expire(b) PROVE TypeInv'
  BY <1>23 DEF Expire
<1> QED
  BY <1>1, <1>2, <1>3, <1>4, <1>5, <1>6, <1>7, <1>8, <1>9, <1>10, <1>11, <1>12,
     <1>13, <1>14, <1>15, <1>16, <1>17, <1>18, <1>19, <1>20, <1>21, <1>22, <1>23
     DEF Next, ApplyStep, ChildStep, Failure

\* All variables keep their types, for any sets of processes and bundles; at
\* most one configure-client writes the temporary file.
THEOREM TypeCorrect == Spec => []TypeInv
BY TypeInit, TypeStep, PTL DEF Spec

THEOREM TypeSafety == Spec => []TypeOK
<1>1. TypeInv => TypeOK
  BY DEF TypeInv
<1> QED
  BY <1>1, TypeCorrect, PTL

-----------------------------------------------------------------------------
(* Safety.  What a process has seen lasts: once configure-client installed  *)
(* a bundle it stays in installed, so the check of Verify still counts when *)
(* Commit spends the bundle, although the lock was free in between.  A      *)
(* success turns a reserved entry into a consumed one, and only the loss of *)
(* the whole store undoes that: so each loss makes room for one success per *)
(* bundle, and no more.                                                     *)

Consumed(b) == Is(b, "consumed")

\* A bundle was configured and a process committed it.
Applied(b) == b \in installed /\ successes[b] # 0

SafeInv ==
  /\ config \in Bundle => config \in installed
  /\ \A p \in Process :
       /\ apply[p].pc = "committing" => apply[p].bundle \in installed
       /\ apply[p].pc = "cleaning" => Applied(apply[p].bundle)
  /\ \A b \in Bundle :
       /\ Consumed(b) => b \in installed
       /\ b \notin present => Applied(b)
       /\ successes[b] <= wipes + 1
       /\ successes[b] = wipes + 1 => Consumed(b)

\* The step form of ConsumedForGood.
ConsumedKept == \A b \in Bundle : Consumed(b) => Consumed(b)' \/ wipes' > wipes

\* Reserving, releasing and ageing change no consumed entry and make none.
LEMMA StoreKeeps ==
  ASSUME NEW b \in Bundle,
         \/ store' = store
         \/ Reservable(b) /\ store' = WithReserved(b)
         \/ store' = Released(b)
         \/ Aging
  PROVE  \A c \in Bundle : Consumed(c)' <=> Consumed(c)
<1>1. CASE store' = store
  BY <1>1 DEF Consumed, Is
<1>2. CASE Reservable(b) /\ store' = WithReserved(b)
  BY <1>2 DEF Consumed, Is, Reservable, WithReserved, Put
<1>3. CASE store' = Released(b)
  BY <1>3 DEF Consumed, Is, Released, Without
<1>4. CASE Aging
  <2>1. store' = [c \in DOMAIN store |->
                    IF Is(c, "reserved") /\ store[c].age < StaleAge
                      THEN [store[c] EXCEPT !.age = @ + 1] ELSE store[c]]
    BY <1>4 DEF Aging
  <2> SUFFICES ASSUME NEW c \in Bundle PROVE Consumed(c)' <=> Consumed(c)
    OBVIOUS
  <2>2. CASE Is(c, "reserved") /\ store[c].age < StaleAge
    <3>1. store'[c] = [store[c] EXCEPT !.age = @ + 1] /\ c \in DOMAIN store
      BY <2>1, <2>2 DEF Is
    <3> QED
      BY <2>1, <2>2, <3>1 DEF Consumed, Is
  <2>3. CASE ~(Is(c, "reserved") /\ store[c].age < StaleAge)
    BY <2>1, <2>3 DEF Consumed, Is
  <2> QED
    BY <2>2, <2>3
<1> QED
  BY <1>1, <1>2, <1>3, <1>4

\* Committing a reserved bundle makes that entry consumed, and no other.
LEMMA StoreCommits ==
  ASSUME NEW b \in Bundle, Committable(b), store' = WithConsumed(b)
  PROVE  /\ ~Consumed(b)
         /\ \A c \in Bundle : Consumed(c)' <=> Consumed(c) \/ c = b
BY DEF Consumed, Committable, Is, WithConsumed, Put

LEMMA SafeInit == Init => SafeInv
<1> SUFFICES ASSUME Init PROVE SafeInv
  OBVIOUS
<1>1. \A b : ~Consumed(b)
  BY DEF Init, Consumed, Is, EmptyMap
<1>2. \A b \in Bundle : successes[b] = 0 /\ wipes = 0
  BY DEF Init
<1> QED
  BY <1>1, <1>2, BootstrapAssumption DEF Init, SafeInv, Idle

\* What each step but Verify, Commit and Install leaves as it is.
Kept ==
  /\ UNCHANGED <<present, installed, successes>>
  /\ config' = config \/ config' \notin Bundle
  /\ \A p \in Process :
       apply'[p] = apply[p] \/ apply'[p].pc \notin {"committing", "cleaning"}

\* The step leaves the consumed entries as they are, or loses all of them.
StoreKept ==
  \/ wipes' = wipes /\ \A c \in Bundle : Consumed(c)' <=> Consumed(c)
  \/ wipes' = wipes + 1 /\ \A c \in Bundle : ~Consumed(c)'

LEMMA KeptSafe ==
  ASSUME TypeInv, SafeInv, Kept, StoreKept
  PROVE  SafeInv' /\ ConsumedKept
<1>1. /\ successes \in [Bundle -> Nat] /\ wipes \in Nat
      /\ \A p \in Process : apply[p].pc # "idle" => apply[p].bundle \in Bundle
  BY DEF TypeInv, TypeOK
<1>2. \A b : Applied(b)' <=> Applied(b)
  BY DEF Kept, Applied
<1>3. \A b \in Bundle : Consumed(b)' => Consumed(b)
  BY DEF StoreKept
<1>4. \A b \in Bundle : /\ successes'[b] <= wipes' + 1
                        /\ successes'[b] = wipes' + 1 => Consumed(b)'
  <2> SUFFICES ASSUME NEW b \in Bundle
               PROVE  /\ successes'[b] <= wipes' + 1
                      /\ successes'[b] = wipes' + 1 => Consumed(b)'
    OBVIOUS
  <2>1. successes'[b] = successes[b] /\ successes[b] \in Nat
    BY <1>1 DEF Kept
  <2>2. successes[b] <= wipes + 1 /\ (successes[b] = wipes + 1 => Consumed(b))
    BY DEF SafeInv
  <2>3. \/ wipes' = wipes /\ (Consumed(b)' <=> Consumed(b))
        \/ wipes' = wipes + 1
    BY DEF StoreKept
  <2> QED
    BY <1>1, <2>1, <2>2, <2>3
<1>5. \A p \in Process :
        /\ apply'[p].pc = "committing" => apply'[p].bundle \in installed'
        /\ apply'[p].pc = "cleaning" => Applied(apply[p].bundle)'
  BY <1>2 DEF SafeInv, Kept
<1>6. ConsumedKept
  BY <1>1 DEF ConsumedKept, StoreKept
<1>7. config' \in Bundle => config' \in installed'
  BY DEF SafeInv, Kept
<1>8. \A b \in Bundle : /\ Consumed(b)' => b \in installed'
                        /\ b \notin present' => Applied(b)'
  BY <1>2, <1>3 DEF SafeInv, Kept
<1> QED
  BY <1>4, <1>5, <1>6, <1>7, <1>8 DEF SafeInv, Applied

LEMMA SafeStep == TypeInv /\ SafeInv /\ [Next]_vars => SafeInv' /\ ConsumedKept
<1> SUFFICES ASSUME TypeInv, SafeInv, [Next]_vars PROVE SafeInv' /\ ConsumedKept
  OBVIOUS
<1> USE DEF files, ghosts, At
<1>t. /\ apply \in [Process -> [pc : ApplyPC, bundle : Bundle \cup {NoBundle}]]
      /\ child \in [Process -> [pc : ChildPC, bundle : Bundle \cup {NoBundle}]]
      /\ \A p \in Process :
           /\ apply[p].pc # "idle" => apply[p].bundle \in Bundle
           /\ child[p].pc # "none" => child[p].bundle \in Bundle
      /\ successes \in [Bundle -> Nat] /\ wipes \in Nat /\ present \subseteq Bundle
      /\ NoBundle \notin Bundle
  BY BootstrapAssumption DEF TypeInv, TypeOK
<1>e. ASSUME NEW p \in Process, Exit(p)
      PROVE  apply'[p].pc = "idle" /\ \A q \in Process \ {p} : apply'[q] = apply[q]
  BY <1>t, <1>e DEF Exit, Idle
<1>g. ASSUME NEW p \in Process, NEW pc, Goto(p, pc)
      PROVE  /\ apply'[p].pc = pc /\ apply'[p].bundle = apply[p].bundle
             /\ \A q \in Process \ {p} : apply'[q] = apply[q]
  BY <1>t, <1>g DEF Goto
<1>s. ASSUME store' = store, wipes' = wipes PROVE StoreKept
  BY <1>s DEF StoreKept, Consumed, Is
<1>w. ASSUME RemovedBySave PROVE StoreKept
  BY <1>w DEF RemovedBySave, StoreKept, Consumed, Is, EmptyMap
<1>n. ASSUME NotSaved PROVE StoreKept
  BY <1>n, <1>s DEF NotSaved
<1>u. ASSUME NEW p \in Process, GiveUp(p), StoreKept
      PROVE  SafeInv' /\ ConsumedKept
  <2>1. Kept
    BY <1>u, <1>g DEF GiveUp, Kept
  <2> QED
    BY <1>u, <2>1, KeptSafe
<1>c. ASSUME NEW p \in Process, Committable(apply[p].bundle), apply[p].pc = "committing",
             store' = WithConsumed(apply[p].bundle), wipes' = wipes,
             UNCHANGED <<present, config, installed>>
      PROVE  /\ apply[p].bundle \in Bundle /\ apply[p].bundle \in installed
             /\ ~Consumed(apply[p].bundle)
             /\ \A c \in Bundle : Consumed(c)' <=> Consumed(c) \/ c = apply[p].bundle
  <2>1. apply[p].bundle \in Bundle /\ apply[p].bundle \in installed
    BY <1>c, <1>t DEF SafeInv
  <2> QED
    BY <1>c, <2>1, StoreCommits
<1>1. CASE Tick \/ Stall
  <2>1. StoreKept
    BY <1>1, StoreKeeps DEF Tick, Stall, Aging, StoreKept
  <2>2. Kept
    BY <1>1 DEF Tick, Stall, Aging, Kept
  <2> QED
    BY <2>1, <2>2, KeptSafe
<1>2. ASSUME NEW p \in Process, NEW b \in Bundle, Load(p, b) PROVE SafeInv' /\ ConsumedKept
  <2>1. apply'[p].pc = "loaded" /\ \A q \in Process \ {p} : apply'[q] = apply[q]
    BY <1>2, <1>t DEF Load
  <2>2. Kept
    BY <1>2, <2>1 DEF Load, Kept
  <2> QED
    BY <1>2, <2>2, <1>s, KeptSafe DEF Load
<1>3. ASSUME NEW p \in Process, Reserve(p) PROVE SafeInv' /\ ConsumedKept
  <2>1. StoreKept
    BY <1>3, <1>t, StoreKeeps DEF Reserve, StoreKept
  <2>2. Kept
    BY <1>3, <1>g DEF Reserve, Kept
  <2> QED
    BY <2>1, <2>2, KeptSafe
<1>4. ASSUME NEW p \in Process, ReserveUnlockFails(p) PROVE SafeInv' /\ ConsumedKept
  <2>1. StoreKept
    BY <1>4, <1>t, StoreKeeps DEF ReserveUnlockFails, StoreKept
  <2>2. Kept
    BY <1>4, <1>e DEF ReserveUnlockFails, Kept
  <2> QED
    BY <2>1, <2>2, KeptSafe
<1>5. ASSUME NEW p \in Process, ReserveRefused(p) PROVE SafeInv' /\ ConsumedKept
  <2>1. StoreKept
    BY <1>5, <1>s, <1>w, <1>n DEF ReserveRefused
  <2>2. Kept
    BY <1>5, <1>e DEF ReserveRefused, Kept
  <2> QED
    BY <2>1, <2>2, KeptSafe
<1>6. ASSUME NEW p \in Process, StartChild(p) PROVE SafeInv' /\ ConsumedKept
  <2>1. Kept
    BY <1>6, <1>g DEF StartChild, Kept
  <2> QED
    BY <1>6, <2>1, <1>s, KeptSafe DEF StartChild
<1>7. ASSUME NEW p \in Process, ValidationFails(p) PROVE SafeInv' /\ ConsumedKept
  BY <1>7, <1>s, <1>u DEF ValidationFails
<1>8. ASSUME NEW p \in Process, Verify(p) PROVE SafeInv' /\ ConsumedKept
  <2>1. apply[p].bundle \in installed
    BY <1>8, <1>t DEF Verify, SafeInv
  <2>2. apply'[p].pc = "committing" /\ apply'[p].bundle = apply[p].bundle
    BY <1>8, <1>g DEF Verify
  <2>3. \A q \in Process \ {p} : apply'[q] = apply[q]
    BY <1>8, <1>g DEF Verify
  <2>4. UNCHANGED <<present, config, installed, successes, wipes>>
    BY <1>8 DEF Verify
  <2>5. \A c \in Bundle : Consumed(c)' <=> Consumed(c)
    BY <1>8 DEF Verify, Consumed, Is
  <2> QED
    BY <2>1, <2>2, <2>3, <2>4, <2>5, <1>t DEF SafeInv, ConsumedKept, Applied
<1>9. ASSUME NEW p \in Process, VerifyFails(p) PROVE SafeInv' /\ ConsumedKept
  BY <1>9, <1>s, <1>u DEF VerifyFails
<1>10. ASSUME NEW p \in Process, Commit(p) PROVE SafeInv' /\ ConsumedKept
  <2> DEFINE b == apply[p].bundle
  <2>1. b \in Bundle /\ b \in installed
    BY <1>10, <1>c DEF Commit
  <2>2. ~Consumed(b) /\ \A c \in Bundle : Consumed(c)' <=> Consumed(c) \/ c = b
    BY <1>10, <1>c DEF Commit
  <2>3. /\ successes'[b] = successes[b] + 1
        /\ \A c \in Bundle \ {b} : successes'[c] = successes[c]
    BY <1>10, <2>1, <1>t DEF Commit
  <2>4. /\ apply'[p].pc = "cleaning" /\ apply'[p].bundle = b
        /\ \A q \in Process \ {p} : apply'[q] = apply[q]
    BY <1>10, <1>g DEF Commit
  <2>5. UNCHANGED <<present, config, installed, wipes>>
    BY <1>10 DEF Commit
  <2> HIDE DEF b
  <2>6. \A c \in Bundle : c = b \/ Applied(c) => Applied(c)'
    <3>1. successes[b] \in Nat
      BY <2>1, <1>t
    <3>2. successes'[b] # 0
      BY <2>3, <3>1
    <3> QED
      BY <2>1, <2>3, <2>5, <3>2 DEF Applied
  <2>7. \A q \in Process :
          /\ apply'[q].pc = "committing" => apply'[q].bundle \in installed'
          /\ apply'[q].pc = "cleaning" => Applied(apply[q].bundle)'
    <3>1. ASSUME NEW q \in Process \ {p}
          PROVE  /\ apply'[q].pc = "committing" => apply'[q].bundle \in installed'
                 /\ apply'[q].pc = "cleaning" => Applied(apply[q].bundle)'
      <4>1. apply'[q] = apply[q] /\ (apply[q].pc # "idle" => apply[q].bundle \in Bundle)
        BY <2>4, <1>t
      <4> QED
        BY <2>5, <2>6, <4>1 DEF SafeInv, Applied
    <3>2. apply'[p].pc = "cleaning" /\ Applied(apply[p].bundle)'
      BY <2>1, <2>4, <2>6 DEF Applied
    <3> QED
      BY <3>1, <3>2
  <2>8. \A c \in Bundle : /\ successes'[c] <= wipes' + 1
                          /\ successes'[c] = wipes' + 1 => Consumed(c)'
    <3> SUFFICES ASSUME NEW c \in Bundle
                 PROVE  /\ successes'[c] <= wipes' + 1
                        /\ successes'[c] = wipes' + 1 => Consumed(c)'
      OBVIOUS
    <3>1. successes[c] <= wipes + 1 /\ (successes[c] = wipes + 1 => Consumed(c))
      BY DEF SafeInv
    <3>2. wipes' = wipes /\ wipes \in Nat /\ successes[c] \in Nat
      BY <2>5, <1>t
    <3>3. CASE c = b
      BY <2>2, <2>3, <3>1, <3>2, <3>3
    <3>4. CASE c # b
      BY <2>2, <2>3, <3>1, <3>2, <3>4
    <3> QED
      BY <3>3, <3>4
  <2>9. \A c \in Bundle : /\ Consumed(c)' => c \in installed'
                          /\ c \notin present' => Applied(c)'
    BY <2>1, <2>2, <2>5, <2>6 DEF SafeInv
  <2>10. ConsumedKept
    BY <2>2 DEF ConsumedKept
  <2>11. config' \in Bundle => config' \in installed'
    BY <2>5 DEF SafeInv
  <2> QED
    BY <2>7, <2>8, <2>9, <2>10, <2>11 DEF SafeInv, Applied
<1>11. ASSUME NEW p \in Process, CommitUnlockFails(p) PROVE SafeInv' /\ ConsumedKept
  <2> DEFINE b == apply[p].bundle
  <2>1. b \in Bundle /\ b \in installed
    BY <1>11, <1>c DEF CommitUnlockFails, GiveUp
  <2>2. \A c \in Bundle : Consumed(c)' <=> Consumed(c) \/ c = b
    BY <1>11, <1>c DEF CommitUnlockFails, GiveUp
  <2>3. /\ apply'[p].pc = "releasing"
        /\ \A q \in Process \ {p} : apply'[q] = apply[q]
    BY <1>11, <1>g DEF CommitUnlockFails, GiveUp
  <2>4. UNCHANGED <<present, config, installed, successes, wipes>>
    BY <1>11 DEF CommitUnlockFails, GiveUp
  <2> HIDE DEF b
  <2> QED
    BY <2>1, <2>2, <2>3, <2>4, <1>t DEF SafeInv, ConsumedKept, Applied
<1>12. ASSUME NEW p \in Process, CommitRefused(p) PROVE SafeInv' /\ ConsumedKept
  <2>1. StoreKept
    BY <1>12, <1>s, <1>w, <1>n DEF CommitRefused
  <2> QED
    BY <1>12, <2>1, <1>u DEF CommitRefused
<1>13. ASSUME NEW p \in Process, Cleanup(p) PROVE SafeInv' /\ ConsumedKept
  <2>1. Applied(apply[p].bundle)
    BY <1>13 DEF Cleanup, SafeInv
  <2>2. present' = present \/ present' = present \ {apply[p].bundle}
    BY <1>13 DEF Cleanup
  <2>3. \A c \in Bundle : Consumed(c)' <=> Consumed(c)
    BY <1>13 DEF Cleanup, Consumed, Is
  <2>4. apply'[p].pc = "idle" /\ \A q \in Process \ {p} : apply'[q] = apply[q]
    BY <1>13, <1>e DEF Cleanup
  <2>5. UNCHANGED <<config, installed, successes, wipes>>
    BY <1>13 DEF Cleanup
  <2> QED
    BY <2>1, <2>2, <2>3, <2>4, <2>5, <1>t DEF SafeInv, ConsumedKept, Applied
<1>14. ASSUME NEW p \in Process, Crash(p) PROVE SafeInv' /\ ConsumedKept
  <2>1. Kept
    BY <1>14, <1>e DEF Crash, Kept
  <2> QED
    BY <1>14, <2>1, <1>s, KeptSafe DEF Crash
<1>15. ASSUME NEW p \in Process, CreateTmp(p) PROVE SafeInv' /\ ConsumedKept
  BY <1>15, <1>s, KeptSafe DEF CreateTmp, Kept
<1>16. ASSUME NEW p \in Process, Install(p) PROVE SafeInv' /\ ConsumedKept
  <2>1. \A c \in Bundle : Consumed(c)' <=> Consumed(c)
    BY <1>16 DEF Install, Consumed, Is
  <2>2. installed' = installed \cup {config'}
    BY <1>16 DEF Install
  <2>3. UNCHANGED <<present, apply, successes, wipes>>
    BY <1>16 DEF Install
  <2> QED
    BY <2>1, <2>2, <2>3, <1>t DEF SafeInv, ConsumedKept, Applied
<1>17. ASSUME NEW p \in Process, WriteFails(p) PROVE SafeInv' /\ ConsumedKept
  BY <1>17, <1>s, KeptSafe DEF WriteFails, Kept
<1>18. ASSUME NEW p \in Process, FinalCheckFails(p) PROVE SafeInv' /\ ConsumedKept
  BY <1>18, <1>s, <1>t, KeptSafe DEF FinalCheckFails, Kept
<1>19. ASSUME NEW p \in Process, ChildCrash(p) PROVE SafeInv' /\ ConsumedKept
  BY <1>19, <1>s, KeptSafe DEF ChildCrash, Kept
<1>20. CASE UNCHANGED vars
  BY <1>20, <1>s, KeptSafe DEF vars, Kept
<1>21. CASE RemoveLeftover
  BY <1>21, <1>s, KeptSafe DEF RemoveLeftover, Kept
<1>22. ASSUME NEW p \in Process, Release(p) PROVE SafeInv' /\ ConsumedKept
  <2>1. StoreKept
    <3>1. CASE store' = Released(apply[p].bundle) /\ wipes' = wipes
      BY <1>22, <1>t, <3>1, StoreKeeps DEF Release, StoreKept
    <3> QED
      BY <1>22, <3>1, <1>w, <1>n DEF Release
  <2>2. Kept
    BY <1>22, <1>e DEF Release, Kept
  <2> QED
    BY <2>1, <2>2, KeptSafe
<1>23. ASSUME NEW b \in Bundle, Expire(b) PROVE SafeInv' /\ ConsumedKept
  BY <1>23, <1>s, KeptSafe DEF Expire, Kept
<1> QED
  BY <1>1, <1>2, <1>3, <1>4, <1>5, <1>6, <1>7, <1>8, <1>9, <1>10, <1>11, <1>12,
     <1>13, <1>14, <1>15, <1>16, <1>17, <1>18, <1>19, <1>20, <1>21, <1>22, <1>23
     DEF Next, ApplyStep, ChildStep, Failure

\* The inductive invariant behind the three theorems that follow: what a process
\* in its last steps has seen still holds when it acts on it, and the successes
\* of a bundle exceed the losses of the store by one at most, and then only
\* while its entry is consumed.
THEOREM Safety == Spec => []SafeInv
<1>1. Spec => []TypeInv
  BY TypeCorrect
<1> QED
  BY <1>1, SafeInit, SafeStep, PTL DEF Spec

\* At most one process commits a bundle and reports success, and one more for
\* every failed save that removed the store, however many processes try it and
\* however long they stall between Reserve and Commit.
THEOREM AppliedOnce == Spec => []OneSuccess
<1>1. TypeInv /\ SafeInv => OneSuccess
  BY DEF TypeInv, TypeOK, SafeInv, OneSuccess
<1> QED
  BY <1>1, TypeCorrect, Safety, PTL

\* A bundle is spent only after its configuration was in place, and deleted
\* only after a process committed it besides, also when the store is lost.
THEOREM NeverSpentUnapplied == Spec => []NothingLost
<1>1. SafeInv => NothingLost
  BY DEF SafeInv, NothingLost, Consumed, Applied
<1> QED
  BY <1>1, Safety, PTL

\* No step takes back that a bundle is consumed, but a save that removes the
\* store.
THEOREM SpentForGood == Spec => ConsumedForGood
<1>1. TypeInv /\ SafeInv /\ [Next]_vars
        => [\A b \in Bundle : Is(b, "consumed") => Is(b, "consumed")' \/ wipes' > wipes]_vars
  BY SafeStep DEF ConsumedKept, Consumed
<1> QED
  BY <1>1, TypeCorrect, Safety, PTL DEF Spec, ConsumedForGood
=============================================================================
