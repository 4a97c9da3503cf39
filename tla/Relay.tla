------------------------------- MODULE Relay -------------------------------
(***************************************************************************)
(* The AgentBridge relay of internal/agentbridge: the message store, the   *)
(* HTTP handlers of "serve", and "register", which is a second process     *)
(* that loads and saves the same two files.                                *)
(*                                                                         *)
(* Each operation of Store holds its mutex to the end of save, which       *)
(* renames agents.json and then messages.json.  Unlike the coordinator's,  *)
(* these errors are reported to the client; but memory keeps the change.   *)
(* Tokens are numbered; a message body is left out.                        *)
(***************************************************************************)
EXTENDS Integers

CONSTANTS
  Agent,       \* agent names
  MsgId,       \* the ids GenerateID can draw
  Key, NoKey,  \* idempotency keys, and the empty one
  Outcome, NoOutcome,  \* results an agent can post, and none
  TTLs,        \* ttl_seconds clients ask for
  DefaultTTL,  \* 3600 in handleMessages
  MaxTTL,      \* 86400 * 7 in handleMessages
  Faults,      \* which failures may happen
  MaxNow,      \* bound on the clock
  MaxToken     \* bound on the tokens drawn

ASSUME RelayAssumption ==
  /\ NoKey \notin Key /\ NoOutcome \notin Outcome
  /\ TTLs \subseteq Int
  /\ DefaultTTL \in 1..MaxTTL /\ MaxTTL \in Nat
  /\ Faults \subseteq {"crash", "saveError", "overlap"}
  /\ MaxNow \in Nat /\ MaxToken \in Nat

VARIABLES
  up,        \* the relay is serving
  agents,    \* Store.agents of the relay: the token whose hash is kept
  messages,  \* Store.messages of the relay
  disk,      \* agents.json and messages.json
  cli,       \* the register process: its own Store and the agent it adds
  now,       \* the clock
  drawn,     \* message ids and tokens drawn so far
  seen       \* ghost: what clients have been answered

vars == <<up, agents, messages, disk, cli, now, drawn, seen>>

-----------------------------------------------------------------------------
(* Types.                                                                   *)

MessageStatus == {"pending", "acknowledged", "completed", "failed"}
Ended == {"completed", "failed"}

AgentMessage ==
  [sender : Agent, recipient : Agent, key : Key \cup {NoKey},
   expiresAt : 0..(MaxNow + MaxTTL), status : MessageStatus,
   result : Outcome \cup {NoOutcome}]

\* m is a Go map with keys in D and values in R.
IsMap(m, D, R) == DOMAIN m \subseteq D /\ m \in [DOMAIN m -> R]
Put(f, k, v) == [x \in DOMAIN f \cup {k} |-> IF x = k THEN v ELSE f[x]]
Without(f, K) == [x \in DOMAIN f \ K |-> f[x]]
EmptyMap == [x \in {} |-> x]

\* A copy of the two maps: the files, or the store of a process.
IsStore(s) ==
  IsMap(s.agents, Agent, 1..MaxToken) /\ IsMap(s.messages, MsgId, AgentMessage)

Idle == [name |-> "none"]

-----------------------------------------------------------------------------
(* Saving.                                                                  *)

\* Mutant: messages.json is not written.
SavedAgentsOnly(k, as, ms) ==
  [agents |-> IF k >= 1 THEN as ELSE disk.agents, messages |-> disk.messages]

\* The files after save has renamed the first k of them.
Saved(k, as, ms) ==
  [agents   |-> IF k >= 1 THEN as ELSE disk.agents,
   messages |-> IF k >= 2 THEN ms ELSE disk.messages]

\* save succeeds and the client is answered s.
Succeed(as, ms, s) ==
  /\ agents' = as /\ messages' = ms /\ disk' = Saved(2, as, ms) /\ seen' = s
  /\ UNCHANGED up

\* save fails: memory has changed all the same, the client is answered 500.
FailSave(as, ms) ==
  /\ "saveError" \in Faults
  /\ agents' = as /\ messages' = ms
  /\ \E k \in 0..1 : disk' = Saved(k, as, ms)
  /\ UNCHANGED <<up, seen>>

\* The relay dies inside save.
Die(as, ms) ==
  /\ "crash" \in Faults
  /\ up' = FALSE /\ agents' = EmptyMap /\ messages' = EmptyMap
  /\ \E k \in 0..2 : disk' = Saved(k, as, ms)
  /\ UNCHANGED seen

Save(as, ms, s) == Succeed(as, ms, s) \/ FailSave(as, ms) \/ Die(as, ms)

-----------------------------------------------------------------------------

Init ==
  /\ up = FALSE
  /\ agents = EmptyMap /\ messages = EmptyMap
  /\ disk = [agents |-> EmptyMap, messages |-> EmptyMap]
  /\ cli = Idle
  /\ now = 0
  /\ drawn = [ids |-> {}, tokens |-> 0]
  /\ seen = [told |-> EmptyMap, sent |-> {}, ended |-> EmptyMap]

\* serveCmd: NewStore loads both files.  The documentation registers the
\* agents first and then starts the relay; "overlap" lifts that order.
Serve ==
  /\ ~up
  /\ cli = Idle \/ "overlap" \in Faults
  /\ up' = TRUE /\ agents' = disk.agents /\ messages' = disk.messages
  /\ UNCHANGED <<disk, cli, now, drawn, seen>>

\* The relay process is stopped between two requests.
Stop ==
  /\ up
  /\ up' = FALSE /\ agents' = EmptyMap /\ messages' = EmptyMap
  /\ UNCHANGED <<disk, cli, now, drawn, seen>>

-----------------------------------------------------------------------------
(* register.                                                                *)

\* Mutant: the token of an agent that is registered already is kept.
RegisterLoadKeepsOld(a) ==
  /\ cli = Idle
  /\ ~up \/ "overlap" \in Faults
  /\ drawn.tokens < MaxToken
  /\ drawn' = [drawn EXCEPT !.tokens = @ + 1]
  /\ cli' = [name |-> a, token |-> drawn.tokens + 1,
             agents |-> IF a \in DOMAIN disk.agents THEN disk.agents
                        ELSE Put(disk.agents, a, drawn.tokens + 1),
             messages |-> disk.messages]
  /\ UNCHANGED <<up, agents, messages, disk, now, seen>>

\* Mutant: register does not load the messages it is going to save.
RegisterLoadBlank(a) ==
  /\ cli = Idle
  /\ ~up \/ "overlap" \in Faults
  /\ drawn.tokens < MaxToken
  /\ drawn' = [drawn EXCEPT !.tokens = @ + 1]
  /\ cli' = [name |-> a, token |-> drawn.tokens + 1,
             agents |-> Put(disk.agents, a, drawn.tokens + 1),
             messages |-> EmptyMap]
  /\ UNCHANGED <<up, agents, messages, disk, now, seen>>

\* registerCmd loads the files and draws a token.
RegisterLoad(a) ==
  /\ cli = Idle
  /\ ~up \/ "overlap" \in Faults
  /\ drawn.tokens < MaxToken
  /\ drawn' = [drawn EXCEPT !.tokens = @ + 1]
  /\ cli' = [name |-> a, token |-> drawn.tokens + 1,
             agents |-> Put(disk.agents, a, drawn.tokens + 1),
             messages |-> disk.messages]
  /\ UNCHANGED <<up, agents, messages, disk, now, seen>>

\* RegisterAgent saves its copies of both files and the token is printed.
RegisterSave ==
  /\ cli # Idle
  /\ disk' = Saved(2, cli.agents, cli.messages)
  /\ seen' = [seen EXCEPT !.told = Put(@, cli.name, cli.token)]
  /\ cli' = Idle
  /\ UNCHANGED <<up, agents, messages, now, drawn>>

\* registerCmd fails or is killed on the way: no token is printed, and the
\* old one of that agent, if any, can no longer be relied on.
RegisterFail ==
  /\ cli # Idle /\ Faults # {}
  /\ \E k \in 0..2 : disk' = Saved(k, cli.agents, cli.messages)
  /\ seen' = [seen EXCEPT !.told = Without(@, {cli.name})]
  /\ cli' = Idle
  /\ UNCHANGED <<up, agents, messages, now, drawn>>

-----------------------------------------------------------------------------
(* Requests.                                                                *)

\* authenticate: the hash kept for the agent is that of its token.
Authenticated(a) ==
  /\ up
  /\ a \in DOMAIN seen.told /\ a \in DOMAIN agents
  /\ agents[a] = seen.told[a]

\* Mutant: no cap.
LifetimeUncapped(ttl) == IF ttl <= 0 THEN DefaultTTL ELSE ttl

\* handleMessages: zero or less asks for the default, too much for the cap.
Lifetime(ttl) ==
  IF ttl <= 0 THEN DefaultTTL ELSE IF ttl > MaxTTL THEN MaxTTL ELSE ttl

\* Mutant: a message that has ended is no longer compared with.
EarlierLive(a, key) ==
  IF key = NoKey THEN {}
  ELSE {id \in DOMAIN messages : /\ messages[id].sender = a /\ messages[id].key = key
                                 /\ messages[id].status \notin Ended}

\* The messages AddMessage takes a repeated send for.  It is answered with one of
\* them, out of memory and without a save; that changes nothing.
Earlier(a, key) ==
  IF key = NoKey THEN {}
  ELSE {id \in DOMAIN messages : messages[id].sender = a /\ messages[id].key = key}

\* A send that is new: the message is stored under a fresh id.
SendNew(a, b, key, id, ttl) ==
  /\ Authenticated(a) /\ b \in DOMAIN agents
  /\ Earlier(a, key) = {}
  /\ id \notin drawn.ids
  /\ drawn' = [drawn EXCEPT !.ids = @ \cup {id}]
  /\ Save(agents,
          Put(messages, id, [sender |-> a, recipient |-> b, key |-> key,
                             expiresAt |-> now + Lifetime(ttl),
                             status |-> "pending", result |-> NoOutcome]),
          [seen EXCEPT !.sent = @ \cup {id}])
  /\ UNCHANGED <<cli, now>>

\* GetInbox: what an agent is offered.  It may act on any message, offered or not.
Inbox(a) ==
  {id \in DOMAIN messages :
     /\ messages[id].recipient = a
     /\ now < messages[id].expiresAt
     /\ messages[id].status \notin Ended}

\* TransitionMessage: acknowledging moves a pending message only, ending it
\* anything that has not ended; in any other status the call succeeds, saves
\* and changes nothing.
Acknowledged(m) ==
  IF m.status = "pending" THEN [m EXCEPT !.status = "acknowledged"] ELSE m

\* Mutant: the last report of an end wins.
ConcludedAlways(m, status, result) == [m EXCEPT !.status = status, !.result = result]

Concluded(m, status, result) ==
  IF m.status \in Ended THEN m
  ELSE [m EXCEPT !.status = status, !.result = result]

\* Ghost: the agent was answered that message id has ended as m says.
Reported(id, m) ==
  LET ends == IF id \in DOMAIN seen.ended THEN seen.ended[id] ELSE {}
  IN IF m.status \in Ended
       THEN [seen EXCEPT !.ended = Put(@, id, ends \cup {<<m.status, m.result>>})]
       ELSE seen

\* Mutant: the transition is answered without saving it.
TransitionUnsaved(a, id, m) ==
  /\ Authenticated(a)
  /\ messages[id].recipient = a
  /\ messages' = [messages EXCEPT ![id] = m]
  /\ seen' = Reported(id, m)
  /\ UNCHANGED <<up, agents, disk, cli, now, drawn>>

\* The recipient acts on a message, whether its inbox ever offered it or it has
\* expired since; a message the relay does not know, or addressed to another
\* agent, is answered 404 or 403.
Transition(a, id, m) ==
  /\ Authenticated(a)
  /\ messages[id].recipient = a
  /\ Save(agents, [messages EXCEPT ![id] = m], Reported(id, m))
  /\ UNCHANGED <<cli, now, drawn>>

Acknowledge(a, id) ==
  id \in DOMAIN messages /\ Transition(a, id, Acknowledged(messages[id]))

Conclude(a, id, status, result) ==
  id \in DOMAIN messages /\ Transition(a, id, Concluded(messages[id], status, result))

Tick ==
  /\ now < MaxNow
  /\ now' = now + 1
  /\ UNCHANGED <<up, agents, messages, disk, cli, drawn, seen>>

Next ==
  \/ Serve \/ Stop \/ Tick \/ RegisterSave \/ RegisterFail
  \/ \E a \in Agent :
       \/ RegisterLoad(a)
       \/ \E b \in Agent, key \in Key \cup {NoKey}, id \in MsgId, ttl \in TTLs :
            SendNew(a, b, key, id, ttl)
       \/ \E id \in MsgId :
            \/ Acknowledge(a, id)
            \/ \E status \in Ended, result \in Outcome : Conclude(a, id, status, result)

Spec == Init /\ [][Next]_vars

-----------------------------------------------------------------------------
(* Properties.                                                              *)

\* Every variable stays in its type; in particular no message lives longer
\* than MaxTTL.
TypeOK ==
  /\ up \in BOOLEAN
  /\ IsStore([agents |-> agents, messages |-> messages]) /\ IsStore(disk)
  /\ cli # Idle => IsStore(cli) /\ cli.name \in Agent /\ cli.token \in 1..MaxToken
  /\ now \in 0..MaxNow
  /\ drawn \in [ids : SUBSET MsgId, tokens : 0..MaxToken]
  /\ IsMap(seen.told, Agent, 1..MaxToken)
  /\ seen.sent \subseteq MsgId
  /\ IsMap(seen.ended, MsgId, SUBSET (Ended \X Outcome))

\* No two messages have one sender and one idempotency key, in memory or in
\* the files: a repeated send never makes a second message, not even after the
\* first has ended or a save of it failed.
OnePerKey(ms) ==
  \A i, j \in DOMAIN ms :
    /\ ms[i].key # NoKey /\ ms[i].key = ms[j].key
    /\ ms[i].sender = ms[j].sender
    => i = j

KeysUnique == OnePerKey(messages) /\ OnePerKey(disk.messages)

\* A message whose send was answered after it was saved is in the file, and in
\* every relay started later, for good: no save that fails or is cut short
\* afterwards, and no register in between, takes it out.  (A send that is
\* repeated after its save failed is answered without a save; it is not meant.)
SentDurable ==
  /\ seen.sent \subseteq DOMAIN disk.messages
  /\ up => seen.sent \subseteq DOMAIN messages

\* A message whose end was confirmed to its recipient has ended so for good:
\* every answer and the files say the same, whichever saves failed before or
\* after, and whichever other session of that agent reports another end.
ConfirmedEndDurable ==
  \A id \in DOMAIN seen.ended :
    /\ id \in DOMAIN disk.messages
    /\ seen.ended[id] = {<<disk.messages[id].status, disk.messages[id].result>>}

\* Once a message's end was confirmed, no relay started before or after
\* offers it again.
HandledOnce == up => \A a \in Agent : Inbox(a) \cap DOMAIN seen.ended = {}

\* A token that register printed stays accepted by every relay started later.
PrintedTokenAccepted ==
  up => \A a \in DOMAIN seen.told : a \in DOMAIN agents /\ agents[a] = seen.told[a]

-----------------------------------------------------------------------------
(* The abstract view.                                                       *)

\* The messages in memory while the relay serves, those in the file while it
\* does not.
Board == IF up THEN messages ELSE disk.messages

\* A message as the recipient sees it; acknowledged ones are open still.
Envelope(m) ==
  [phase |-> IF m.status \in Ended THEN "ended" ELSE "open",
   from |-> m.sender, to |-> m.recipient, key |-> m.key,
   end |-> IF m.status \in Ended THEN <<m.status, m.result>> ELSE <<>>]

View(ms, ids) ==
  [id \in MsgId |->
     IF id \in DOMAIN ms THEN Envelope(ms[id])
     ELSE [phase |-> IF id \in ids THEN "lost" ELSE "absent"]]

Answers(ended) == UNION {{<<id, e>> : e \in ended[id]} : id \in DOMAIN ended}

Mail == INSTANCE Mailbox WITH
  End <- Ended \X Outcome,
  mail <- View(Board, drawn.ids),
  stored <- DOMAIN disk.messages, answers <- Answers(seen.ended)

\* Whichever saves fail and wherever the relay dies, messages go the way that
\* Mailbox allows: unchanged in their address to one end, never back from an end that
\* was answered, and never out of the files.
MailRefines == Mail!Spec
=============================================================================
