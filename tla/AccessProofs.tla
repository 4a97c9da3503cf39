---------------------------- MODULE AccessProofs ----------------------------
(***************************************************************************)
(* Safety of Access, for any number of agents, any limit and window, any   *)
(* table sizes and any number of upsets.                                   *)
(***************************************************************************)
EXTENDS Access, TLAPS

USE DEF None, Absent, Torn, NoReset

-----------------------------------------------------------------------------
(* Types.                                                                   *)

\* Clearing the tables, or sweeping them, leaves them in their types.
LEMMA TablesTyped ==
  ASSUME TypeOK, Cleared \/ ForgottenExpired
  PROVE  /\ rate' \in [Agent -> Nat] /\ left' \in [Agent -> NoReset..Window + 1]
         /\ others' \in Nat /\ \A a \in Agent : left'[a] # NoReset => rate'[a] > Limit
  <1>1. CASE Cleared
    BY <1>1, AccessAssumption DEF TypeOK, Cleared
  <1>2. CASE ForgottenExpired
    BY <1>2, AccessAssumption DEF TypeOK, ForgottenExpired
  <1> QED BY <1>1, <1>2

LEMMA TypeStep == TypeOK /\ [Next]_vars => TypeOK'
  <1> SUFFICES ASSUME TypeOK, [Next]_vars PROVE TypeOK'
    OBVIOUS
  <1> USE AccessAssumption
  <1>1. CASE ServeExisting
    BY <1>1 DEF TypeOK, ServeExisting, Readable, logins
  <1>2. CASE ServeNew
    BY <1>2 DEF TypeOK, ServeNew, HalfWritten, Pair, Upset, logins
  <1>3. CASE Rotate
    BY <1>3 DEF TypeOK, Rotate, Rotated, RotationDies, HalfWritten, Pair, Upset, logins
  <1>4. CASE Stop
    BY <1>4 DEF TypeOK, Stop, NoFlight, Upset
  <1>5. ASSUME NEW a \in Agent, Refused(a) PROVE TypeOK'
    BY <1>5 DEF TypeOK, Refused, Blocked, tls
  <1>6. ASSUME NEW a \in Agent, Admitted(a) PROVE TypeOK'
    <2>1. flying' \in [Agent -> [good : Nat, bad : Nat]]
      BY <1>6 DEF TypeOK, Admitted
    <2>2. rate' \in [Agent -> Nat] /\ left' \in [Agent -> NoReset..Window + 1]
      BY <1>6 DEF TypeOK, Admitted
    <2>3. \A b \in Agent : left'[b] # NoReset => rate'[b] > Limit
      BY <1>6 DEF TypeOK, Admitted
    <2> QED BY <1>6, <2>1, <2>2, <2>3 DEF TypeOK, Admitted, tls
  <1>7. ASSUME NEW a \in Agent, Rejected(a) PROVE TypeOK'
    <2>1. flying' \in [Agent -> [good : Nat, bad : Nat]]
      BY <1>7 DEF TypeOK, Rejected
    <2>2. \/ Cleared
          \/ rate' = [rate EXCEPT ![a] = @ + 1] /\ UNCHANGED <<left, others>>
      BY <1>7 DEF Rejected
    <2>3. /\ rate' \in [Agent -> Nat] /\ left' \in [Agent -> NoReset..Window + 1]
          /\ others' \in Nat /\ \A b \in Agent : left'[b] # NoReset => rate'[b] > Limit
      <3>1. CASE Cleared BY <3>1, TablesTyped
      <3>2. CASE rate' = [rate EXCEPT ![a] = @ + 1] /\ UNCHANGED <<left, others>>
        BY <3>2 DEF TypeOK
      <3> QED BY <2>2, <3>1, <3>2
    <2> QED BY <1>7, <2>1, <2>3 DEF TypeOK, Rejected, tls
  <1>8. ASSUME NEW a \in Agent, Authenticated(a) PROVE TypeOK'
    <2>1. flying' \in [Agent -> [good : Nat, bad : Nat]]
      BY <1>8 DEF TypeOK, Authenticated
    <2>2. /\ rate' \in [Agent -> Nat] /\ left' \in [Agent -> NoReset..Window + 1]
          /\ \A b \in Agent : left'[b] # NoReset => rate'[b] > Limit
      BY <1>8 DEF TypeOK, Authenticated
    <2> QED BY <1>8, <2>1, <2>2 DEF TypeOK, Authenticated, tls
  <1>9. ASSUME NEW a \in Agent, NEW good \in BOOLEAN, Configure(a, good) PROVE TypeOK'
    <2>1. cfg' \in [Agent -> [pin : Nat, good : BOOLEAN]]
      BY <1>9 DEF TypeOK, Configure
    <2> QED BY <1>9, <2>1 DEF TypeOK, Configure, tls, logins, Upset
  <1>10. CASE OtherFails
    <2>1. Cleared \/ (others' = others + 1 /\ UNCHANGED <<rate, left>>)
      BY <1>10 DEF OtherFails
    <2> QED BY <1>10, <2>1, TablesTyped DEF TypeOK, OtherFails, tls
  <1>11. CASE OtherForgotten
    BY <1>11 DEF TypeOK, OtherForgotten, tls
  <1>12. CASE Sweep
    <2>1. Cleared \/ ForgottenExpired
      BY <1>12 DEF Sweep
    <2> QED BY <1>12, <2>1, TablesTyped DEF TypeOK, Sweep, tls
  <1>13. CASE Tick
    BY <1>13 DEF TypeOK, Tick, tls
  <1>14. CASE UNCHANGED vars
    BY <1>14 DEF TypeOK, vars, tls, logins
  <1> QED
    BY <1>1, <1>2, <1>3, <1>4, <1>5, <1>6, <1>7, <1>8, <1>9, <1>10, <1>11, <1>12, <1>13, <1>14
       DEF Next, Attempt

\* All variables keep their types, and a minute of refusal runs only for an
\* address with more failures than the limit, whichever request, sweep or
\* overflow of the tables comes between.
THEOREM TypeSafety == Spec => []TypeOK
  <1>1. Init => TypeOK
    BY AccessAssumption DEF Init, TypeOK, Pair, NoFlight
  <1> QED BY <1>1, TypeStep, PTL DEF Spec

-----------------------------------------------------------------------------
(* Failed logins.                                                           *)

\* Requests between the two locks are few, and each of them may still fail.
BoundInv ==
  \A a \in Agent : LET n == flying[a].good + flying[a].bad IN
    n <= Parallel /\ rate[a] + n <= Limit + Parallel

LEMMA BoundStep == TypeOK /\ BoundInv /\ [Next]_vars => BoundInv'
  <1> SUFFICES ASSUME TypeOK, BoundInv, [Next]_vars PROVE BoundInv'
    OBVIOUS
  <1> USE AccessAssumption
  <1>1. CASE UNCHANGED <<rate, flying>>
    BY <1>1 DEF BoundInv
  <1>2. CASE Stop
    BY <1>2 DEF BoundInv, Stop, NoFlight
  <1>3. ASSUME NEW a \in Agent, Admitted(a) PROVE BoundInv'
    <2>1. rate'[a] <= Limit /\ rate'[a] \in Nat
      BY <1>3 DEF TypeOK, Admitted, Blocked
    <2>2. \A b \in Agent \ {a} : rate'[b] = rate[b] /\ flying'[b] = flying[b]
      BY <1>3 DEF TypeOK, Admitted
    <2>3. flying'[a].good + flying'[a].bad <= Parallel
      BY <1>3 DEF TypeOK, Admitted, Connected
    <2>4. flying'[a].good \in Nat /\ flying'[a].bad \in Nat
      BY <1>3 DEF TypeOK, Admitted
    <2> QED BY <2>1, <2>2, <2>3, <2>4 DEF BoundInv
  <1>4. ASSUME NEW a \in Agent, Rejected(a) PROVE BoundInv'
    <2>1. /\ \A b \in Agent \ {a} : flying'[b] = flying[b]
          /\ flying'[a].good = flying[a].good /\ flying'[a].bad = flying[a].bad - 1
      BY <1>4 DEF TypeOK, Rejected
    <2>2. \/ \A b \in Agent : rate'[b] = 0
          \/ rate'[a] = rate[a] + 1 /\ \A b \in Agent \ {a} : rate'[b] = rate[b]
      BY <1>4 DEF TypeOK, Rejected, Cleared
    <2>3. \A b \in Agent : flying[b].good \in Nat /\ flying[b].bad \in Nat /\ rate[b] \in Nat
      BY DEF TypeOK
    <2> QED BY <2>1, <2>2, <2>3 DEF BoundInv
  <1>5. ASSUME NEW a \in Agent, Authenticated(a) PROVE BoundInv'
    <2>1. /\ \A b \in Agent \ {a} : flying'[b] = flying[b] /\ rate'[b] = rate[b]
          /\ flying'[a].good = flying[a].good - 1 /\ flying'[a].bad = flying[a].bad
          /\ rate'[a] = 0
      BY <1>5 DEF TypeOK, Authenticated
    <2>2. \A b \in Agent : flying[b].good \in Nat /\ flying[b].bad \in Nat /\ rate[b] \in Nat
      BY DEF TypeOK
    <2> QED BY <2>1, <2>2 DEF BoundInv
  <1>6. ASSUME Cleared \/ ForgottenExpired, UNCHANGED flying PROVE BoundInv'
    <2>1. \A b \in Agent : rate'[b] \in {0, rate[b]}
      BY <1>6 DEF TypeOK, Cleared, ForgottenExpired
    <2>2. \A b \in Agent : flying[b].good \in Nat /\ flying[b].bad \in Nat /\ rate[b] \in Nat
      BY DEF TypeOK
    <2> QED BY <1>6, <2>1, <2>2 DEF BoundInv
  <1>7. CASE OtherFails
    BY <1>1, <1>6, <1>7 DEF OtherFails
  <1>8. CASE Sweep
    BY <1>6, <1>8 DEF Sweep
  <1>9. ASSUME ServeExisting \/ ServeNew \/ Rotate \/ OtherForgotten \/ Tick PROVE BoundInv'
    BY <1>1, <1>9 DEF ServeExisting, ServeNew, Rotate, OtherForgotten, Tick, logins
  <1>10. ASSUME NEW a \in Agent, Refused(a) \/ \E good \in BOOLEAN : Configure(a, good)
         PROVE BoundInv'
    BY <1>1, <1>10 DEF Refused, Configure, logins
  <1> QED
    BY <1>1, <1>2, <1>3, <1>4, <1>5, <1>7, <1>8, <1>9, <1>10 DEF Next, Attempt, vars, logins

\* However many requests pass the check together, the count exceeds the limit
\* by no more than their number.
THEOREM Bounded == Spec => []FailuresBounded
  <1>1. Init => BoundInv
    BY AccessAssumption DEF Init, BoundInv, NoFlight
  <1>2. TypeOK /\ BoundInv => FailuresBounded
    BY AccessAssumption DEF TypeOK, BoundInv, FailuresBounded
  <1> QED BY <1>1, <1>2, BoundStep, TypeSafety, PTL DEF Spec

-----------------------------------------------------------------------------
(* The fingerprint.                                                         *)

\* What was printed is what the files say, and serve will keep the files.
PrintedInv == printed # None => files.cert = printed /\ files.key # Absent

LEMMA PrintedStep == TypeOK /\ PrintedInv /\ [Next]_vars => PrintedInv'
  <1> SUFFICES ASSUME TypeOK, PrintedInv, [Next]_vars PROVE PrintedInv'
    OBVIOUS
  <1>1. CASE UNCHANGED <<files, printed>>
    BY <1>1 DEF PrintedInv
  <1>2. CASE ServeExisting
    BY <1>2 DEF PrintedInv, ServeExisting, Readable
  <1>3. CASE ServeNew
    BY <1>3 DEF TypeOK, PrintedInv, ServeNew, Readable, Pair
  <1>4. CASE Rotate
    BY <1>4 DEF TypeOK, PrintedInv, Rotate, Rotated, RotationDies, Pair
  <1> QED
    BY <1>1, <1>2, <1>3, <1>4
       DEF Next, Attempt, Stop, Refused, Admitted, Rejected, Authenticated, Configure,
           OtherFails, OtherForgotten, Sweep, Tick, vars, tls

LEMMA FingerprintStep ==
  TypeOK /\ PrintedInv /\ [Next]_vars =>
    /\ printed # None /\ printed' # printed => Rotate
    /\ relay = None /\ relay' # None => printed \in {None, relay'}
  <1> SUFFICES ASSUME TypeOK, PrintedInv, [Next]_vars
               PROVE  /\ printed # None /\ printed' # printed => Rotate
                      /\ relay = None /\ relay' # None => printed \in {None, relay'}
    OBVIOUS
  <1>1. CASE ServeExisting
    BY <1>1 DEF PrintedInv, ServeExisting
  <1>2. CASE ServeNew
    BY <1>2 DEF TypeOK, PrintedInv, ServeNew, Readable
  <1>3. CASE Rotate
    BY <1>3 DEF Rotate
  <1>4. CASE UNCHANGED printed /\ relay' \in {None, relay}
    BY <1>4
  <1> QED
    BY <1>1, <1>2, <1>3, <1>4
       DEF Next, Attempt, Stop, Refused, Admitted, Rejected, Authenticated, Configure,
           OtherFails, OtherForgotten, Sweep, Tick, vars, tls

\* A printed fingerprint stays the relay's until rotate-tls runs, wherever
\* serve or an earlier rotation was killed.
THEOREM PrintedStays == Spec => FingerprintStays
  <1>1. Init => PrintedInv
    BY DEF Init, PrintedInv
  <1>2. TypeOK /\ PrintedInv /\ [Next]_vars =>
          [ /\ printed # None /\ printed' # printed => Rotate
            /\ relay = None /\ relay' # None => printed \in {None, relay'} ]_vars
    BY FingerprintStep
  <1> QED BY <1>1, <1>2, PrintedStep, TypeSafety, PTL DEF Spec, FingerprintStays
=============================================================================
