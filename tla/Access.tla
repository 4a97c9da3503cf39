------------------------------- MODULE Access -------------------------------
(***************************************************************************)
(* What stands between an agent and the AgentBridge relay: the relay's     *)
(* certificate and key files (getTLSKeys, serve, rotate-tls), the          *)
(* fingerprint an agent is configured with and checks in the handshake     *)
(* (configure-client, PinTLSConfig), and the count of failed logins that   *)
(* the serving process keeps in memory for each address (authenticate,     *)
(* cleanupLoop).                                                           *)
(*                                                                         *)
(* Agents have an address each; all other addresses are a number of table  *)
(* entries.  serve and rotate-tls do not start at the same moment, but a   *)
(* relay may serve while its files are rotated.  Time is what is left of   *)
(* the minute an address is refused for.                                   *)
(***************************************************************************)
EXTENDS Integers, FiniteSets

CONSTANTS
  Agent,
  Limit,       \* failures that are still let in: 10 in authenticate
  Window,      \* ticks an address is refused for: one minute
  Parallel,    \* bound on the requests of an agent in authenticate at a time
  ResetAbove,  \* table size above which a failure clears it: 20000
  SweepAbove,  \* table size above which cleanupLoop clears it: 10000
  MaxUpsets    \* bound on crashes, wrong tokens and voluntary rotations

ASSUME AccessAssumption ==
  /\ Limit \in Nat /\ Window \in Nat /\ Parallel \in Nat \ {0}
  /\ ResetAbove \in Nat /\ SweepAbove \in Nat /\ MaxUpsets \in Nat

VARIABLES
  files,     \* cert.pem and key.pem
  drawn,     \* key pairs generated so far; the n-th is n
  relay,     \* the certificate the relay serves, or None
  printed,   \* the fingerprint printed last, unless a rotation began since
  cfg,       \* agentclient.json of each agent: fingerprint, and a valid token or not
  rate,      \* s.rates: failed logins; 0 is no entry
  left,      \* s.reset: ticks left; NoReset is no entry, 0 is expired
  flying,    \* requests between the two locks, with a valid token or not
  others,    \* entries of s.rates for other addresses
  upsets

tls == <<files, drawn, relay, printed>>
logins == <<rate, left, flying, others>>
vars == <<tls, cfg, logins, upsets>>

-----------------------------------------------------------------------------

None == 0
Absent == 0     \* the file does not exist
Torn == -1      \* it was truncated and not written to its end
NoReset == -1

Pair(c, k) == [cert |-> c, key |-> k]
NoFlight == [good |-> 0, bad |-> 0]

Init ==
  /\ files = Pair(Absent, Absent) /\ drawn = 0 /\ relay = None /\ printed = None
  /\ cfg = [a \in Agent |-> [pin |-> None, good |-> FALSE]]
  /\ rate = [a \in Agent |-> 0] /\ left = [a \in Agent |-> NoReset]
  /\ flying = [a \in Agent |-> NoFlight] /\ others = 0 /\ upsets = 0

Upset == upsets < MaxUpsets /\ upsets' = upsets + 1

-----------------------------------------------------------------------------
(* Certificate and key.                                                     *)

\* os.ReadFile succeeds for both.
Readable == files.cert # Absent /\ files.key # Absent

\* serve ends with an error whenever it is started.
Broken == Readable /\ (files.cert = Torn \/ files.key # files.cert)

\* What is left on disk when the process dies while it writes pair k over f.
HalfWritten(f, k) == {Pair(Torn, f.key), Pair(k, f.key), Pair(k, Torn)}

\* serve with files it can read: the fingerprint is printed before
\* ListenAndServeTLS finds out whether the key belongs to the certificate.
ServeExisting ==
  /\ relay = None /\ Readable /\ files.cert # Torn
  /\ printed' = files.cert
  /\ relay' = IF files.key = files.cert THEN files.cert ELSE None
  /\ UNCHANGED <<files, drawn, cfg, logins, upsets>>

\* Mutant: the fingerprint is printed before the files are written.
ServeNewPrintsFirst ==
  /\ relay = None /\ ~Readable
  /\ LET k == drawn + 1 IN
       /\ drawn' = k /\ printed' = k
       /\ \/ files' = Pair(k, k) /\ relay' = k /\ UNCHANGED upsets
          \/ Upset /\ files' \in HalfWritten(files, k) /\ UNCHANGED relay
  /\ UNCHANGED <<cfg, logins>>

\* serve makes a new pair; it may die doing so.
ServeNew ==
  /\ relay = None /\ ~Readable
  /\ LET k == drawn + 1 IN
       /\ drawn' = k
       /\ \/ files' = Pair(k, k) /\ printed' = k /\ relay' = k /\ UNCHANGED upsets
          \/ Upset /\ files' \in HalfWritten(files, k) /\ UNCHANGED <<printed, relay>>
  /\ UNCHANGED <<cfg, logins>>

\* Both files are removed and a new pair written and printed.
Rotated ==
  LET k == drawn + 1 IN drawn' = k /\ files' = Pair(k, k) /\ printed' = k

\* rotate-tls dies with the files removed or not, written or not.
RotationDies ==
  LET k == drawn + 1 IN
    /\ drawn' = k /\ printed' = None
    /\ files' \in {Pair(Absent, files.key), Pair(Absent, Absent)}
                    \cup HalfWritten(Pair(Absent, Absent), k)

\* By choice, or because the relay does not start any more.
Rotate ==
  /\ \/ Rotated /\ IF Broken /\ relay = None THEN UNCHANGED upsets ELSE Upset
     \/ RotationDies /\ Upset
  /\ UNCHANGED <<relay, cfg, logins>>

Repair == Broken /\ relay = None /\ Rotate

\* The serving process ends, and its memory with it: it is killed, or restarted
\* after a rotation.
Stop ==
  /\ relay # None
  /\ IF files.cert # relay THEN UNCHANGED upsets ELSE Upset
  /\ relay' = None
  /\ rate' = [a \in Agent |-> 0] /\ left' = [a \in Agent |-> NoReset]
  /\ flying' = [a \in Agent |-> NoFlight] /\ others' = 0
  /\ UNCHANGED <<files, drawn, printed, cfg>>

\* configure-client with the fingerprint printed last, and with the agent's
\* token or one that is not valid.
Configure(a, good) ==
  /\ printed # None /\ cfg[a] # [pin |-> printed, good |-> good]
  /\ cfg' = [cfg EXCEPT ![a] = [pin |-> printed, good |-> good]]
  /\ IF good THEN UNCHANGED upsets ELSE Upset
  /\ UNCHANGED <<tls, logins>>

-----------------------------------------------------------------------------
(* authenticate.                                                            *)

\* The handshake has shown the certificate the agent is configured for.
Connected(a) ==
  /\ relay # None /\ cfg[a].pin = relay
  /\ flying[a].good + flying[a].bad < Parallel

\* Mutant: one more failure is let in.
BlockedLate(a) == left[a] # 0 /\ rate[a] > Limit + 1

\* Too many failures, and no minute without an attempt since.
Blocked(a) == left[a] # 0 /\ rate[a] > Limit

\* Every refused attempt starts the minute again.
Refused(a) ==
  /\ Connected(a) /\ Blocked(a)
  /\ left' = [left EXCEPT ![a] = Window + 1]
  /\ UNCHANGED <<tls, cfg, rate, flying, others, upsets>>

\* Past the first lock, with the token of the configuration of now.
Admitted(a) ==
  /\ Connected(a) /\ ~Blocked(a)
  /\ rate' = [rate EXCEPT ![a] = IF left[a] = 0 THEN 0 ELSE @]
  /\ left' = [left EXCEPT ![a] = IF @ = 0 THEN NoReset ELSE @]
  /\ flying' = IF cfg[a].good THEN [flying EXCEPT ![a].good = @ + 1]
                              ELSE [flying EXCEPT ![a].bad = @ + 1]
  /\ UNCHANGED <<tls, cfg, others, upsets>>

Size(r, n) == Cardinality({a \in Agent : r[a] > 0}) + n

Cleared ==
  rate' = [a \in Agent |-> 0] /\ left' = [a \in Agent |-> NoReset] /\ others' = 0

\* fail: the count goes up, or the table has got too large.
Rejected(a) ==
  /\ flying[a].bad > 0
  /\ flying' = [flying EXCEPT ![a].bad = @ - 1]
  /\ LET r == [rate EXCEPT ![a] = @ + 1] IN
       IF Size(r, others) > ResetAbove THEN Cleared ELSE rate' = r /\ UNCHANGED <<left, others>>
  /\ UNCHANGED <<tls, cfg, upsets>>

\* Mutant: a success clears the count only.
AuthenticatedCountOnly(a) ==
  /\ flying[a].good > 0
  /\ flying' = [flying EXCEPT ![a].good = @ - 1]
  /\ rate' = [rate EXCEPT ![a] = 0]
  /\ UNCHANGED <<tls, cfg, left, others, upsets>>

\* The token is the agent's: its address starts anew.
Authenticated(a) ==
  /\ flying[a].good > 0
  /\ flying' = [flying EXCEPT ![a].good = @ - 1]
  /\ rate' = [rate EXCEPT ![a] = 0] /\ left' = [left EXCEPT ![a] = NoReset]
  /\ UNCHANGED <<tls, cfg, others, upsets>>

\* A login fails from an address that had no failures, or one is forgotten.
OtherFails ==
  /\ relay # None
  /\ IF Size(rate, others + 1) > ResetAbove THEN Cleared
                                            ELSE others' = others + 1 /\ UNCHANGED <<rate, left>>
  /\ UNCHANGED <<tls, cfg, flying, upsets>>

OtherForgotten ==
  /\ others > 0 /\ others' = others - 1
  /\ UNCHANGED <<tls, cfg, rate, left, flying, upsets>>

\* Mutant: expired entries leave s.reset only.
ForgottenExpiredReset ==
  /\ left' = [a \in Agent |-> IF left[a] = 0 THEN NoReset ELSE left[a]]
  /\ UNCHANGED <<rate, others>>

\* Expired entries leave both tables.
ForgottenExpired ==
  /\ rate' = [a \in Agent |-> IF left[a] = 0 THEN 0 ELSE rate[a]]
  /\ left' = [a \in Agent |-> IF left[a] = 0 THEN NoReset ELSE left[a]]
  /\ UNCHANGED others

\* cleanupLoop
Sweep ==
  /\ relay # None
  /\ IF Size(rate, others) > SweepAbove THEN Cleared ELSE ForgottenExpired
  /\ UNCHANGED <<tls, cfg, flying, upsets>>

Tick ==
  /\ \E a \in Agent : left[a] > 0
  /\ left' = [a \in Agent |-> IF left[a] > 0 THEN left[a] - 1 ELSE left[a]]
  /\ UNCHANGED <<tls, cfg, rate, flying, others, upsets>>

-----------------------------------------------------------------------------

Attempt(a) == Refused(a) \/ Admitted(a)

Next ==
  \/ ServeExisting \/ ServeNew \/ Rotate \/ Stop
  \/ \E a \in Agent :
       \/ Attempt(a) \/ Rejected(a) \/ Authenticated(a)
       \/ \E good \in BOOLEAN : Configure(a, good)
  \/ OtherFails \/ OtherForgotten \/ Sweep \/ Tick

Spec == Init /\ [][Next]_vars

\* The relay is started when it is down, rotated when it does not start, and
\* restarted after a rotation; agents are configured with what it prints and
\* their token, and try again and again; requests are answered.
Fairness ==
  /\ WF_vars(ServeExisting \/ ServeNew) /\ WF_vars(Repair)
  /\ WF_vars(files.cert # relay /\ Stop) /\ WF_vars(Tick)
  /\ \A a \in Agent :
       /\ WF_vars(Configure(a, TRUE)) /\ WF_vars(Attempt(a))
       /\ WF_vars(Rejected(a)) /\ WF_vars(Authenticated(a))

FairSpec == Spec /\ Fairness

-----------------------------------------------------------------------------
(* Properties.                                                              *)

\* Every variable stays in its type, and a minute of refusal runs only for an
\* address with too many failures, whoever else changes the tables.
TypeOK ==
  /\ drawn \in Nat /\ files \in [cert : Torn..drawn, key : Torn..drawn]
  /\ relay \in 0..drawn /\ printed \in 0..drawn
  /\ cfg \in [Agent -> [pin : Nat, good : BOOLEAN]]
  /\ rate \in [Agent -> Nat] /\ left \in [Agent -> NoReset..Window + 1]
  /\ flying \in [Agent -> [good : Nat, bad : Nat]]
  /\ others \in Nat /\ upsets \in 0..MaxUpsets
  /\ \A a \in Agent : left[a] # NoReset => rate[a] > Limit

\* The count is read under one lock and raised under another, but requests
\* that pass together exceed the limit by no more than their own number.
FailuresBounded ==
  \A a \in Agent : rate[a] + flying[a].bad <= Limit + Parallel

\* A fingerprint that was printed stays the one of the relay, across crashes
\* at any point and any number of restarts, until rotate-tls is run: agents
\* need not be configured again.
FingerprintStays ==
  [][ /\ printed # None /\ printed' # printed => Rotate
      /\ relay = None /\ relay' # None => printed \in {None, relay'} ]_vars

\* Whatever crashes, was rotated or misconfigured, and however many logins
\* failed, an agent gets through again and again, if only it does not try for
\* ever within the minute it is refused for.
AgentGetsThrough ==
  \A a \in Agent : []<>(left[a] <= 0) => []<><<Authenticated(a)>>_vars
=============================================================================
