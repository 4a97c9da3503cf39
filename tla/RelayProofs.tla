---------------------------- MODULE RelayProofs ----------------------------
(***************************************************************************)
(* Safety of Relay, for any agents, keys, lifetimes and any number of      *)
(* messages, tokens and restarts.  Types and unique keys hold whatever     *)
(* overlaps; what clients were told is kept if register and serve take     *)
(* turns.                                                                  *)
(***************************************************************************)
EXTENDS Relay, TLAPS

-----------------------------------------------------------------------------
(* Maps of messages.                                                        *)

\* Every message that ended says how, and keys are unique.
Sound(ms) ==
  /\ IsMap(ms, MsgId, AgentMessage)
  /\ \A id \in DOMAIN ms : ms[id].status \in Ended => ms[id].result \in Outcome
  /\ OnePerKey(ms)

\* m has the address of o, and its end if it has one.
Follows(m, o) ==
  /\ m.sender = o.sender /\ m.recipient = o.recipient /\ m.key = o.key
  /\ o.status \in Ended => m.status = o.status /\ m.result = o.result

\* ms has every message of os, to whom it was sent and ended as it ended.
Continues(ms, os) ==
  /\ DOMAIN os \subseteq DOMAIN ms
  /\ \A id \in DOMAIN os : Follows(ms[id], os[id])

\* What one request can make of the messages in memory.
NewMessage(a, b, key, ttl) ==
  [sender |-> a, recipient |-> b, key |-> key, expiresAt |-> now + Lifetime(ttl),
   status |-> "pending", result |-> NoOutcome]

Moved(id, m) ==
  m = Acknowledged(messages[id])
    \/ \E status \in Ended, result \in Outcome : m = Concluded(messages[id], status, result)

LEMMA PutIsMap ==
  ASSUME NEW D, NEW R, NEW f, IsMap(f, D, R), NEW k \in D, NEW v \in R
  PROVE  IsMap(Put(f, k, v), D, R)
  BY DEF IsMap, Put

LEMMA WithoutIsMap ==
  ASSUME NEW D, NEW R, NEW f, IsMap(f, D, R), NEW K
  PROVE  IsMap(Without(f, K), D, R)
  BY DEF IsMap, Without

LEMMA EmptyIsMap ==
  ASSUME NEW D, NEW R PROVE IsMap(EmptyMap, D, R)
  BY DEF IsMap, EmptyMap

LEMMA EmptySound == Sound(EmptyMap)
  BY EmptyIsMap DEF Sound, OnePerKey, EmptyMap

LEMMA LifetimeBound ==
  ASSUME NEW ttl \in TTLs PROVE Lifetime(ttl) \in 0..MaxTTL
  BY RelayAssumption DEF Lifetime

\* A new message under a key nobody used before leaves the map sound.
LEMMA SendSound ==
  ASSUME Sound(messages), now \in 0..MaxNow,
         NEW a \in Agent, NEW b \in Agent, NEW key \in Key \cup {NoKey},
         NEW id \in MsgId, NEW ttl \in TTLs, Earlier(a, key) = {}
  PROVE  Sound(Put(messages, id, NewMessage(a, b, key, ttl)))
  <1> DEFINE n == NewMessage(a, b, key, ttl)
             ms == Put(messages, id, n)
  <1>1. n \in AgentMessage
    BY LifetimeBound, RelayAssumption DEF NewMessage, AgentMessage, MessageStatus
  <1>2. n.status \notin Ended /\ n.key = key /\ n.sender = a
    BY DEF NewMessage, Ended
  <1>3. \A i \in DOMAIN messages : key # NoKey =>
          ~(messages[i].sender = a /\ messages[i].key = key)
    BY DEF Earlier
  <1> HIDE DEF n
  <1>4. /\ DOMAIN ms = DOMAIN messages \cup {id} /\ ms[id] = n
        /\ \A x \in DOMAIN messages : x # id => ms[x] = messages[x]
    BY DEF Put
  <1>5. IsMap(ms, MsgId, AgentMessage)
    <2>1. IsMap(messages, MsgId, AgentMessage)
      BY DEF Sound
    <2> QED BY <1>1, <2>1, PutIsMap
  <1> HIDE DEF ms
  <1>6. \A i \in DOMAIN ms : ms[i].status \in Ended => ms[i].result \in Outcome
    BY <1>2, <1>4 DEF Sound
  <1>7. OnePerKey(ms)
    <2> SUFFICES ASSUME NEW i \in DOMAIN ms, NEW j \in DOMAIN ms, ms[i].key # NoKey,
                        ms[i].key = ms[j].key, ms[i].sender = ms[j].sender
                 PROVE  i = j
      BY DEF OnePerKey
    <2>1. CASE i = id /\ j # id BY <2>1, <1>2, <1>3, <1>4
    <2>2. CASE i # id /\ j = id BY <2>2, <1>2, <1>3, <1>4
    <2>3. CASE i # id /\ j # id BY <2>3, <1>4 DEF Sound, OnePerKey
    <2> QED BY <2>1, <2>2, <2>3
  <1> QED BY <1>5, <1>6, <1>7 DEF Sound, ms, n

LEMMA SendContinues ==
  ASSUME NEW id, id \notin DOMAIN messages, NEW m, NEW os, Continues(messages, os)
  PROVE  Continues(Put(messages, id, m), os)
  <1> DEFINE ms == Put(messages, id, m)
  <1>1. DOMAIN ms = DOMAIN messages \cup {id} /\ \A x \in DOMAIN messages : ms[x] = messages[x]
    BY DEF Put
  <1> HIDE DEF ms
  <1>2. Continues(ms, os)
    BY <1>1 DEF Continues
  <1> QED BY <1>2 DEF ms

\* Acknowledging or ending a message keeps its address, and its end if it had
\* one.
LEMMA MovedFacts ==
  ASSUME Sound(messages), NEW id \in DOMAIN messages, NEW m, Moved(id, m)
  PROVE  /\ m \in AgentMessage /\ Follows(m, messages[id])
         /\ m.status \in Ended => m.result \in Outcome
  <1> DEFINE o == messages[id]
  <1>1. o \in AgentMessage /\ (o.status \in Ended => o.result \in Outcome)
    BY DEF Sound, IsMap
  <1> HIDE DEF o
  <1>2. CASE m = Acknowledged(o)
    BY <1>1, <1>2 DEF Acknowledged, AgentMessage, MessageStatus, Ended, Follows, o
  <1>3. ASSUME NEW status \in Ended, NEW result \in Outcome, m = Concluded(o, status, result)
        PROVE  /\ m \in AgentMessage /\ Follows(m, o)
               /\ m.status \in Ended => m.result \in Outcome
    BY <1>1, <1>3 DEF Concluded, AgentMessage, MessageStatus, Ended, Follows
  <1> QED BY <1>2, <1>3 DEF Moved, o

LEMMA MovedSound ==
  ASSUME Sound(messages), NEW id \in DOMAIN messages, NEW m, Moved(id, m)
  PROVE  /\ Sound([messages EXCEPT ![id] = m])
         /\ \A os : Continues(messages, os) => Continues([messages EXCEPT ![id] = m], os)
  <1> DEFINE ms == [messages EXCEPT ![id] = m]
  <1>1. DOMAIN ms = DOMAIN messages /\ ms[id] = m
        /\ \A x \in DOMAIN messages : x # id => ms[x] = messages[x]
    BY DEF Sound, IsMap
  <1>2. IsMap(ms, MsgId, AgentMessage)
    BY MovedFacts DEF Sound, IsMap
  <1> HIDE DEF ms
  <1>3. \A i \in DOMAIN ms : ms[i].status \in Ended => ms[i].result \in Outcome
    BY <1>1, MovedFacts DEF Sound
  <1>4. \A i \in DOMAIN ms : ms[i].key = messages[i].key /\ ms[i].sender = messages[i].sender
    BY <1>1, MovedFacts DEF Follows
  <1>5. OnePerKey(ms)
    BY <1>1, <1>4 DEF Sound, OnePerKey
  <1>6. \A os : Continues(messages, os) => Continues(ms, os)
    BY <1>1, MovedFacts DEF Continues, Follows
  <1> QED BY <1>2, <1>3, <1>5, <1>6 DEF Sound, ms
-----------------------------------------------------------------------------
(* Types and keys.                                                          *)

SeenOK(s) ==
  /\ s = [told |-> s.told, sent |-> s.sent, ended |-> s.ended]
  /\ IsMap(s.told, Agent, 1..MaxToken)
  /\ s.sent \subseteq MsgId
  /\ IsMap(s.ended, MsgId, SUBSET (Ended \X Outcome))

AgentsOK(as) == IsMap(as, Agent, 1..MaxToken)

LEMMA EmptyAgents == AgentsOK(EmptyMap)
  BY EmptyIsMap DEF AgentsOK

LEMMA EmptySeen ==
  SeenOK([told |-> EmptyMap, sent |-> {}, ended |-> EmptyMap])
  <1>1. /\ IsMap(EmptyMap, Agent, 1..MaxToken)
        /\ IsMap(EmptyMap, MsgId, SUBSET (Ended \X Outcome))
    BY EmptyIsMap
  <1> QED BY <1>1 DEF SeenOK

StoreInv ==
  /\ up \in BOOLEAN /\ now \in 0..MaxNow
  /\ drawn \in [ids : SUBSET MsgId, tokens : 0..MaxToken]
  /\ AgentsOK(agents) /\ Sound(messages)
  /\ AgentsOK(disk.agents) /\ Sound(disk.messages)
  /\ cli # Idle => /\ AgentsOK(cli.agents) /\ Sound(cli.messages)
                   /\ cli.name \in Agent /\ cli.token \in 1..MaxToken
  /\ SeenOK(seen)

\* What is recorded of a new message that was saved.
Posted(id) == [seen EXCEPT !.sent = @ \cup {id}]

LEMMA PostedOK ==
  ASSUME SeenOK(seen), NEW id \in MsgId
  PROVE  /\ SeenOK(Posted(id)) /\ Posted(id).sent = seen.sent \cup {id}
         /\ Posted(id).ended = seen.ended /\ Posted(id).told = seen.told
  <1> DEFINE sent == seen.sent \cup {id}
  <1>1. seen = [told |-> seen.told, sent |-> seen.sent, ended |-> seen.ended]
    BY DEF SeenOK
  <1>2. Posted(id) = [told |-> seen.told, sent |-> sent, ended |-> seen.ended]
    BY <1>1 DEF Posted
  <1>3. sent \subseteq MsgId
    BY DEF SeenOK
  <1> HIDE DEF sent
  <1>4. /\ Posted(id).sent = sent
        /\ Posted(id).ended = seen.ended /\ Posted(id).told = seen.told
    BY <1>2
  <1>5. SeenOK(Posted(id))
    BY <1>2, <1>3, <1>4 DEF SeenOK
  <1> QED BY <1>4, <1>5 DEF sent

LEMMA ReportedOK ==
  ASSUME SeenOK(seen), NEW id \in MsgId, NEW m, m.status \in Ended => m.result \in Outcome
  PROVE  /\ SeenOK(Reported(id, m)) /\ Reported(id, m).told = seen.told
         /\ Reported(id, m).sent = seen.sent
  <1>1. CASE m.status \notin Ended
    BY <1>1 DEF Reported
  <1>2. CASE m.status \in Ended
    <2> DEFINE ends == IF id \in DOMAIN seen.ended THEN seen.ended[id] ELSE {}
               ended == Put(seen.ended, id, ends \cup {<<m.status, m.result>>})
    <2>1. ends \in SUBSET (Ended \X Outcome)
      BY DEF SeenOK, IsMap
    <2>2. IsMap(ended, MsgId, SUBSET (Ended \X Outcome))
      <3>1. IsMap(seen.ended, MsgId, SUBSET (Ended \X Outcome))
        BY DEF SeenOK
      <3>2. ends \cup {<<m.status, m.result>>} \in SUBSET (Ended \X Outcome)
        BY <1>2, <2>1
      <3> HIDE DEF ends
      <3> QED BY <3>1, <3>2, PutIsMap
    <2>3. Reported(id, m) = [seen EXCEPT !.ended = ended]
      BY <1>2 DEF Reported
    <2> HIDE DEF ended
    <2> QED BY <2>2, <2>3 DEF SeenOK
  <1> QED BY <1>1, <1>2

\* A save that succeeds, fails or is cut short leaves sound maps everywhere.
LEMMA SaveStore ==
  ASSUME StoreInv, NEW ms, NEW s, Save(agents, ms, s), Sound(ms), SeenOK(s)
  PROVE  /\ up' \in BOOLEAN /\ AgentsOK(agents') /\ Sound(messages')
         /\ AgentsOK(disk'.agents) /\ Sound(disk'.messages) /\ SeenOK(seen')
  <1> USE DEF Saved, StoreInv
  <1>1. CASE Succeed(agents, ms, s)
    BY <1>1 DEF Succeed
  <1>2. CASE FailSave(agents, ms)
    BY <1>2 DEF FailSave
  <1>3. CASE Die(agents, ms)
    <2>1. AgentsOK(disk'.agents) /\ Sound(disk'.messages)
      BY <1>3 DEF Die
    <2>2. up' \in BOOLEAN /\ SeenOK(seen')
      BY <1>3 DEF Die
    <2>3. AgentsOK(agents')
      BY <1>3, EmptyAgents DEF Die
    <2>4. Sound(messages')
      BY <1>3, EmptySound DEF Die
    <2> QED BY <2>1, <2>2, <2>3, <2>4
  <1> QED BY <1>1, <1>2, <1>3 DEF Save

LEMMA StoreStep == StoreInv /\ [Next]_vars => StoreInv'
  <1> SUFFICES ASSUME StoreInv, [Next]_vars PROVE StoreInv'
    OBVIOUS
  <1>1. CASE Serve
    BY <1>1 DEF StoreInv, Serve
  <1>2. CASE Stop
    BY <1>2, EmptySound, EmptyAgents DEF StoreInv, Stop
  <1>3. CASE Tick
    BY <1>3, RelayAssumption DEF StoreInv, Tick
  <1>4. CASE RegisterSave
    <2>1. AgentsOK(disk'.agents) /\ Sound(disk'.messages)
      BY <1>4 DEF StoreInv, RegisterSave, Saved
    <2>2. SeenOK(seen')
      <3>1. IsMap(Put(seen.told, cli.name, cli.token), Agent, 1..MaxToken)
        BY <1>4, PutIsMap DEF StoreInv, RegisterSave, SeenOK
      <3> QED BY <1>4, <3>1 DEF StoreInv, RegisterSave, SeenOK
    <2> QED BY <1>4, <2>1, <2>2 DEF StoreInv, RegisterSave
  <1>5. CASE RegisterFail
    <2>1. AgentsOK(disk'.agents) /\ Sound(disk'.messages)
      BY <1>5 DEF StoreInv, RegisterFail, Saved
    <2>2. SeenOK(seen')
      <3>1. IsMap(Without(seen.told, {cli.name}), Agent, 1..MaxToken)
        BY <1>5, WithoutIsMap DEF StoreInv, RegisterFail, SeenOK
      <3> QED BY <1>5, <3>1 DEF StoreInv, RegisterFail, SeenOK
    <2> QED BY <1>5, <2>1, <2>2 DEF StoreInv, RegisterFail
  <1>6. ASSUME NEW a \in Agent, RegisterLoad(a) PROVE StoreInv'
    <2>1. drawn.tokens + 1 \in 1..MaxToken /\ drawn' \in [ids : SUBSET MsgId, tokens : 0..MaxToken]
      BY <1>6, RelayAssumption DEF StoreInv, RegisterLoad
    <2>2. AgentsOK(Put(disk.agents, a, drawn.tokens + 1))
      BY <2>1, PutIsMap DEF StoreInv, AgentsOK
    <2>3. cli'.name = a /\ cli'.token = drawn.tokens + 1
          /\ cli'.agents = Put(disk.agents, a, drawn.tokens + 1) /\ cli'.messages = disk.messages
      BY <1>6 DEF RegisterLoad
    <2> QED BY <1>6, <2>1, <2>2, <2>3 DEF StoreInv, RegisterLoad
  <1>8. ASSUME NEW a \in Agent, NEW b \in Agent, NEW key \in Key \cup {NoKey},
               NEW id \in MsgId, NEW ttl \in TTLs, SendNew(a, b, key, id, ttl)
        PROVE  StoreInv'
    <2> DEFINE ms == Put(messages, id, NewMessage(a, b, key, ttl))
    <2>1. Save(agents, ms, Posted(id))
      BY <1>8 DEF SendNew, NewMessage, Posted
    <2>2. Sound(ms)
      BY <1>8, SendSound DEF SendNew, StoreInv
    <2>3. SeenOK(Posted(id))
      BY PostedOK DEF StoreInv
    <2> HIDE DEF ms
    <2>4. /\ up' \in BOOLEAN /\ AgentsOK(agents') /\ Sound(messages')
          /\ AgentsOK(disk'.agents) /\ Sound(disk'.messages) /\ SeenOK(seen')
      BY <2>1, <2>2, <2>3, SaveStore
    <2>5. drawn' \in [ids : SUBSET MsgId, tokens : 0..MaxToken] /\ UNCHANGED <<cli, now>>
      BY <1>8 DEF SendNew, StoreInv
    <2> QED BY <2>4, <2>5 DEF StoreInv
  <1>10. ASSUME NEW a \in Agent, NEW id \in DOMAIN messages, NEW m, Moved(id, m),
                Transition(a, id, m)
         PROVE  StoreInv'
    <2> DEFINE ms == [messages EXCEPT ![id] = m]
    <2>1. Save(agents, ms, Reported(id, m))
      BY <1>10 DEF Transition
    <2>2. Sound(ms) /\ (m.status \in Ended => m.result \in Outcome)
      BY <1>10, MovedSound, MovedFacts DEF StoreInv
    <2>3. SeenOK(Reported(id, m))
      <3>1. id \in MsgId
        BY DEF StoreInv, Sound, IsMap
      <3> QED BY <2>2, <3>1, ReportedOK DEF StoreInv
    <2> HIDE DEF ms
    <2>4. /\ up' \in BOOLEAN /\ AgentsOK(agents') /\ Sound(messages')
          /\ AgentsOK(disk'.agents) /\ Sound(disk'.messages) /\ SeenOK(seen')
      BY <2>1, <2>2, <2>3, SaveStore
    <2> QED BY <1>10, <2>4 DEF StoreInv, Transition
  <1>11. ASSUME NEW a \in Agent, NEW id \in MsgId, Acknowledge(a, id) PROVE StoreInv'
    BY <1>10, <1>11 DEF Acknowledge, Moved
  <1>12. ASSUME NEW a \in Agent, NEW id \in MsgId, NEW status \in Ended,
                NEW result \in Outcome, Conclude(a, id, status, result)
         PROVE  StoreInv'
    BY <1>10, <1>12 DEF Conclude, Moved
  <1>13. CASE UNCHANGED vars
    BY <1>13 DEF StoreInv, vars
  <1> QED
    BY <1>1, <1>2, <1>3, <1>4, <1>5, <1>6, <1>8, <1>11, <1>12, <1>13
       DEF Next

LEMMA StoreSafety == Spec => []StoreInv
  <1>1. Init => StoreInv
    <2> SUFFICES ASSUME Init PROVE StoreInv
      OBVIOUS
    <2>0. up \in BOOLEAN
      BY DEF Init
    <2>1. now \in 0..MaxNow
      BY RelayAssumption DEF Init
    <2>2. drawn \in [ids : SUBSET MsgId, tokens : 0..MaxToken]
      BY RelayAssumption DEF Init
    <2>3. AgentsOK(agents) /\ AgentsOK(disk.agents)
      BY EmptyAgents DEF Init
    <2>4. Sound(messages) /\ Sound(disk.messages)
      BY EmptySound DEF Init
    <2>5. SeenOK(seen)
      <3> DEFINE empty == [told |-> EmptyMap, sent |-> {}, ended |-> EmptyMap]
      <3>1. seen = empty
        BY DEF Init
      <3>2. SeenOK(empty)
        BY EmptySeen
      <3> HIDE DEF empty
      <3> QED BY <3>1, <3>2
    <2>6. cli = Idle
      BY DEF Init
    <2> QED BY <2>0, <2>1, <2>2, <2>3, <2>4, <2>5, <2>6 DEF StoreInv
  <1> QED BY <1>1, StoreStep, PTL DEF Spec

\* Everything keeps its type, in memory, in the files and in the process of
\* register; no message lives longer than the cap.
THEOREM TypeSafety == Spec => []TypeOK
  <1>1. StoreInv => TypeOK
    BY DEF StoreInv, TypeOK, AgentsOK, Sound, SeenOK, IsStore
  <1> QED BY <1>1, StoreSafety, PTL

\* A repeated send never makes a second message, whatever save failed or was
\* cut short and whichever process wrote the files last.
THEOREM UniqueKeys == Spec => []KeysUnique
  <1>1. StoreInv => KeysUnique
    BY DEF StoreInv, KeysUnique, Sound
  <1> QED BY <1>1, StoreSafety, PTL
-----------------------------------------------------------------------------
(* What clients were told.                                                  *)

EndsIn(ended, ms) ==
  \A id \in DOMAIN ended :
    /\ id \in DOMAIN ms /\ ms[id].status \in Ended
    /\ ended[id] = {<<ms[id].status, ms[id].result>>}

\* register has loaded what the files still say, the relay's memory is ahead of
\* them, ids are fresh, and the files hold what was printed and confirmed.
ToldInv ==
  /\ cli # Idle => /\ ~up /\ cli.messages = disk.messages
                   /\ cli.agents = Put(disk.agents, cli.name, cli.token)
  /\ up => agents = disk.agents /\ Continues(messages, disk.messages)
  /\ DOMAIN messages \subseteq drawn.ids /\ DOMAIN disk.messages \subseteq drawn.ids
  /\ \A a \in DOMAIN seen.told : a \in DOMAIN disk.agents /\ disk.agents[a] = seen.told[a]
  /\ EndsIn(seen.ended, disk.messages)
  /\ seen.sent \subseteq DOMAIN disk.messages

LEMMA EndsContinue ==
  ASSUME NEW e, NEW os, NEW ms, EndsIn(e, os), Continues(ms, os)
  PROVE  EndsIn(e, ms)
  BY DEF EndsIn, Continues, Follows

LEMMA ContinuesItself ==
  ASSUME NEW ms PROVE Continues(ms, ms)
  BY DEF Continues, Follows

\* However far save gets, the files hold what was told, and what this request
\* tells is told only if it got to the end.
LEMMA SaveTold ==
  ASSUME ToldInv, up, NEW ms, NEW s, Save(agents, ms, s), UNCHANGED cli,
         Continues(ms, disk.messages), DOMAIN ms \subseteq drawn'.ids,
         drawn.ids \subseteq drawn'.ids, s.told = seen.told, EndsIn(s.ended, ms),
         s.sent \subseteq DOMAIN ms
  PROVE  ToldInv'
  <1> USE DEF Saved
  <1>1. cli' = Idle /\ agents = disk.agents
    BY DEF ToldInv
  <1>2. CASE Succeed(agents, ms, s)
    <2>1. /\ up' = up /\ agents' = agents /\ messages' = ms /\ seen' = s
          /\ disk'.agents = agents /\ disk'.messages = ms
      BY <1>2 DEF Succeed
    <2> QED BY <1>1, <2>1, ContinuesItself DEF ToldInv
  <1>3. CASE FailSave(agents, ms)
    <2>1. /\ up' = up /\ agents' = agents /\ messages' = ms /\ seen' = seen
          /\ disk'.agents = agents /\ disk'.messages = disk.messages
      BY <1>1, <1>3 DEF FailSave
    <2> QED BY <1>1, <2>1 DEF ToldInv
  <1>4. CASE Die(agents, ms)
    <2>1. /\ up' = FALSE /\ messages' = EmptyMap /\ seen' = seen
          /\ disk'.agents = agents /\ disk'.messages \in {disk.messages, ms}
      BY <1>1, <1>4 DEF Die
    <2>2. DOMAIN messages' = {}
      BY <2>1 DEF EmptyMap
    <2>3. EndsIn(seen.ended, disk'.messages)
      BY <2>1, EndsContinue DEF ToldInv
    <2>4. seen.sent \subseteq DOMAIN disk'.messages
      BY <2>1 DEF ToldInv, Continues
    <2> QED BY <1>1, <2>1, <2>2, <2>3, <2>4 DEF ToldInv
  <1> QED BY <1>2, <1>3, <1>4 DEF Save

\* A message that is reported to have ended has ended so in ms, and in every
\* earlier report.
LEMMA ReportedEnds ==
  ASSUME SeenOK(seen), NEW id, NEW m, NEW ms, EndsIn(seen.ended, ms), id \in DOMAIN ms, ms[id] = m
  PROVE  EndsIn(Reported(id, m).ended, ms)
  <1>1. CASE m.status \notin Ended
    BY <1>1 DEF Reported
  <1>2. CASE m.status \in Ended
    <2> DEFINE ends == IF id \in DOMAIN seen.ended THEN seen.ended[id] ELSE {}
               ended == Put(seen.ended, id, ends \cup {<<m.status, m.result>>})
    <2>1. Reported(id, m).ended = ended
      BY <1>2 DEF Reported, SeenOK
    <2>2. ends \cup {<<m.status, m.result>>} = {<<m.status, m.result>>}
      BY DEF EndsIn
    <2>3. EndsIn(ended, ms)
      <3> HIDE DEF ends
      <3>1. /\ DOMAIN ended = DOMAIN seen.ended \cup {id}
            /\ ended[id] = {<<m.status, m.result>>}
            /\ \A x \in DOMAIN seen.ended : x # id => ended[x] = seen.ended[x]
        BY <2>2 DEF Put
      <3> HIDE DEF ended
      <3> QED BY <1>2, <3>1 DEF EndsIn
    <2> QED BY <2>1, <2>3
  <1> QED BY <1>1, <1>2

LEMMA ToldStep ==
  ASSUME "overlap" \notin Faults, StoreInv, ToldInv, [Next]_vars
  PROVE  ToldInv'
  <1>1. CASE Serve
    BY <1>1, ContinuesItself DEF ToldInv, Serve
  <1>2. CASE Stop
    <2>1. DOMAIN messages' = {}
      BY <1>2 DEF Stop, EmptyMap
    <2> QED BY <1>2, <2>1 DEF ToldInv, Stop
  <1>3. CASE Tick
    BY <1>3 DEF ToldInv, Tick
  <1>4. ASSUME NEW a \in Agent, RegisterLoad(a) PROVE ToldInv'
    <2>1. /\ ~up' /\ drawn'.ids = drawn.ids
          /\ cli'.name = a /\ cli'.token = drawn.tokens + 1 /\ cli'.messages = disk.messages
          /\ cli'.agents = Put(disk.agents, a, drawn.tokens + 1)
          /\ UNCHANGED <<agents, messages, disk, seen>>
      BY <1>4 DEF RegisterLoad, StoreInv
    <2> QED BY <2>1 DEF ToldInv
  <1>5. CASE RegisterSave
    <2>1. /\ ~up /\ up' = up /\ cli' = Idle /\ UNCHANGED <<messages, drawn>>
          /\ disk'.messages = disk.messages /\ disk'.agents = Put(disk.agents, cli.name, cli.token)
      BY <1>5 DEF RegisterSave, Saved, ToldInv
    <2>2. seen'.told = Put(seen.told, cli.name, cli.token) /\ seen'.ended = seen.ended
          /\ seen'.sent = seen.sent
      BY <1>5 DEF RegisterSave, StoreInv, SeenOK
    <2>3. \A a \in DOMAIN seen'.told :
            a \in DOMAIN disk'.agents /\ disk'.agents[a] = seen'.told[a]
      BY <2>1, <2>2 DEF ToldInv, Put
    <2> QED BY <2>1, <2>2, <2>3 DEF ToldInv
  <1>6. CASE RegisterFail
    <2>1. /\ ~up /\ up' = up /\ cli' = Idle /\ UNCHANGED <<messages, drawn>>
          /\ disk'.messages = disk.messages
          /\ disk'.agents \in {disk.agents, Put(disk.agents, cli.name, cli.token)}
      BY <1>6 DEF RegisterFail, Saved, ToldInv
    <2>2. seen'.told = Without(seen.told, {cli.name}) /\ seen'.ended = seen.ended
          /\ seen'.sent = seen.sent
      BY <1>6 DEF RegisterFail, StoreInv, SeenOK
    <2>3. \A a \in DOMAIN seen'.told :
            a \in DOMAIN disk'.agents /\ disk'.agents[a] = seen'.told[a]
      BY <2>1, <2>2 DEF ToldInv, Put, Without
    <2> QED BY <2>1, <2>2, <2>3 DEF ToldInv
  <1>7. ASSUME NEW a \in Agent, NEW b \in Agent, NEW key \in Key \cup {NoKey},
               NEW id \in MsgId, NEW ttl \in TTLs, SendNew(a, b, key, id, ttl)
        PROVE  ToldInv'
    <2> DEFINE ms == Put(messages, id, NewMessage(a, b, key, ttl))
    <2>1. /\ Save(agents, ms, Posted(id)) /\ up /\ UNCHANGED cli
          /\ id \notin drawn.ids /\ drawn'.ids = drawn.ids \cup {id}
      BY <1>7 DEF SendNew, NewMessage, Authenticated, StoreInv, Posted
    <2>2. /\ Posted(id).told = seen.told /\ Posted(id).ended = seen.ended
          /\ Posted(id).sent = seen.sent \cup {id}
      BY PostedOK DEF StoreInv
    <2>3. Continues(ms, disk.messages)
      BY <2>1, SendContinues DEF ToldInv
    <2>4. DOMAIN ms \subseteq drawn'.ids /\ id \in DOMAIN ms
      BY <2>1 DEF ToldInv, Put
    <2> HIDE DEF ms
    <2>5. EndsIn(Posted(id).ended, ms)
      BY <2>2, <2>3, EndsContinue DEF ToldInv
    <2>6. Posted(id).sent \subseteq DOMAIN ms
      BY <2>2, <2>3, <2>4 DEF ToldInv, Continues
    <2> QED BY <2>1, <2>2, <2>3, <2>4, <2>5, <2>6, SaveTold
  <1>9. ASSUME NEW a \in Agent, NEW id \in DOMAIN messages, NEW m, Moved(id, m),
               Transition(a, id, m)
        PROVE  ToldInv'
    <2> DEFINE ms == [messages EXCEPT ![id] = m]
    <2>1. Save(agents, ms, Reported(id, m)) /\ up /\ UNCHANGED <<cli, drawn>>
      BY <1>9 DEF Transition, Authenticated
    <2>2. Continues(ms, disk.messages)
      BY <1>9, <2>1, MovedSound DEF ToldInv, StoreInv
    <2>3. DOMAIN ms = DOMAIN messages /\ ms[id] = m
      OBVIOUS
    <2> HIDE DEF ms
    <2>4. EndsIn(Reported(id, m).ended, ms)
      <3>1. EndsIn(seen.ended, ms)
        BY <2>2, EndsContinue DEF ToldInv
      <3> QED BY <2>3, <3>1, ReportedEnds DEF StoreInv
    <2>5. Reported(id, m).told = seen.told /\ Reported(id, m).sent = seen.sent
      <3>1. id \in MsgId /\ (m.status \in Ended => m.result \in Outcome)
        BY <1>9, MovedFacts DEF StoreInv, Sound, IsMap
      <3> QED BY <3>1, ReportedOK DEF StoreInv
    <2>6. Reported(id, m).sent \subseteq DOMAIN ms
      BY <2>2, <2>5 DEF ToldInv, Continues
    <2> QED BY <2>1, <2>2, <2>3, <2>4, <2>5, <2>6, SaveTold DEF ToldInv
  <1>10. ASSUME NEW a \in Agent, NEW id \in MsgId, Acknowledge(a, id) PROVE ToldInv'
    BY <1>9, <1>10 DEF Acknowledge, Moved
  <1>11. ASSUME NEW a \in Agent, NEW id \in MsgId, NEW status \in Ended,
                NEW result \in Outcome, Conclude(a, id, status, result)
         PROVE  ToldInv'
    BY <1>9, <1>11 DEF Conclude, Moved
  <1>12. CASE UNCHANGED vars
    BY <1>12 DEF ToldInv, vars
  <1> QED
    BY <1>1, <1>2, <1>3, <1>4, <1>5, <1>6, <1>7, <1>10, <1>11, <1>12 DEF Next

LEMMA ToldSafety == "overlap" \notin Faults => (Spec => []ToldInv)
  <1> SUFFICES ASSUME "overlap" \notin Faults PROVE Spec => []ToldInv
    OBVIOUS
  <1>1. Init => ToldInv
    BY DEF Init, ToldInv, EmptyMap, EndsIn
  <1>2. StoreInv /\ ToldInv /\ [Next]_vars => ToldInv'
    BY ToldStep
  <1> QED BY <1>1, <1>2, StoreSafety, PTL DEF Spec

\* If register and serve take turns, every confirmed end of a message is the
\* only one ever reported and is in the files, whichever saves fail.
THEOREM EndsDurable == "overlap" \notin Faults => (Spec => []ConfirmedEndDurable)
  <1>1. ToldInv => ConfirmedEndDurable
    BY DEF ToldInv, EndsIn, ConfirmedEndDurable
  <1> QED BY <1>1, ToldSafety, PTL

\* Under the same condition a message whose send was answered after it was saved
\* stays in the files and in every later relay, whichever saves fail.
THEOREM SendsDurable == "overlap" \notin Faults => (Spec => []SentDurable)
  <1>1. ToldInv => SentDurable
    BY DEF ToldInv, Continues, SentDurable
  <1> QED BY <1>1, ToldSafety, PTL

\* Under the same condition no relay offers a message again whose end it or an
\* earlier one confirmed.
THEOREM NotOfferedAgain == "overlap" \notin Faults => (Spec => []HandledOnce)
  <1>1. ToldInv => HandledOnce
    BY DEF ToldInv, EndsIn, Continues, Follows, HandledOnce, Inbox
  <1> QED BY <1>1, ToldSafety, PTL

\* Under the same condition a printed token is accepted by every later relay.
THEOREM TokensAccepted == "overlap" \notin Faults => (Spec => []PrintedTokenAccepted)
  <1>1. ToldInv => PrintedTokenAccepted
    BY DEF ToldInv, PrintedTokenAccepted
  <1> QED BY <1>1, ToldSafety, PTL
-----------------------------------------------------------------------------
(* The relay implements Mailbox if register and serve take turns: then the   *)
(* files fall behind memory, but never behind what was answered.             *)

RelayInv == StoreInv /\ ToldInv

Before == View(Board, drawn.ids)

\* Where a save leaves the messages, and what is answered then.
SavedAs(ms, s) ==
  /\ Board' = ms
  /\ DOMAIN disk'.messages \in {DOMAIN disk.messages, DOMAIN ms}
  /\ seen'.ended \in {seen.ended, s.ended}

\* The relay is gone and the files say what they said.
Cut ==
  /\ up /\ Board' = disk.messages /\ disk'.messages = disk.messages
  /\ seen' = seen

LEMMA SaveCases ==
  ASSUME RelayInv, up, NEW ms, NEW s, Save(agents, ms, s)
  PROVE  SavedAs(ms, s) \/ Cut
<1> USE DEF Saved, Board, SavedAs, Cut
<1>1. CASE Succeed(agents, ms, s)
  BY <1>1 DEF Succeed
<1>2. CASE FailSave(agents, ms)
  <2>1. up' = up /\ messages' = ms /\ seen' = seen /\ disk'.messages = disk.messages
    BY <1>2 DEF FailSave
  <2> QED BY <2>1
<1>3. CASE Die(agents, ms)
  <2>1. /\ up' = FALSE /\ seen' = seen
        /\ disk'.messages = disk.messages \/ disk'.messages = ms
    BY <1>3 DEF Die
  <2> QED BY <2>1
<1> QED BY <1>1, <1>2, <1>3 DEF Save

\* What the abstract view shows of one message.
LEMMA ViewOf ==
  ASSUME NEW ms, NEW ids, NEW id \in MsgId
  PROVE  /\ id \in DOMAIN ms => View(ms, ids)[id] = Envelope(ms[id])
         /\ id \notin DOMAIN ms /\ id \in ids => View(ms, ids)[id] = [phase |-> "lost"]
         /\ id \notin DOMAIN ms /\ id \notin ids => View(ms, ids)[id] = [phase |-> "absent"]
  BY DEF View

LEMMA EnvelopePhase ==
  ASSUME NEW m
  PROVE  /\ m.status \in Ended => /\ Envelope(m).phase = "ended"
                                  /\ Envelope(m).end = <<m.status, m.result>>
         /\ m.status \notin Ended => Envelope(m).phase = "open" /\ Envelope(m).end = <<>>
         /\ Envelope(m).phase \in {"open", "ended"}
         /\ Envelope(m).from = m.sender /\ Envelope(m).to = m.recipient
         /\ Envelope(m).key = m.key
  BY DEF Envelope

LEMMA ThereView ==
  ASSUME NEW ms, DOMAIN ms \subseteq MsgId, NEW ids
  PROVE  Mail!There(View(ms, ids)) = DOMAIN ms
<1>1. \A id \in MsgId : View(ms, ids)[id].phase \in {"open", "ended"} <=> id \in DOMAIN ms
  BY ViewOf, EnvelopePhase
<1> QED BY <1>1 DEF Mail!There

LEMMA AnsweredEnds ==
  ASSUME NEW e PROVE {r[1] : r \in Answers(e)} \subseteq DOMAIN e
  BY DEF Answers

\* A message that memory had and the files os have not is lost; one that ended
\* in memory only is open again; no other one changes.
Faded(os, id, v, w) ==
  \/ w = v
  \/ id \notin DOMAIN os /\ w = Mail!Missing("lost")
  \/ /\ v.phase = "ended" /\ ~(id \in DOMAIN os /\ os[id].status \in Ended)
     /\ w = Mail!Open(v.from, v.to, v.key)

LEMMA Fades ==
  ASSUME NEW ms, NEW os, Continues(ms, os), NEW ids, NEW jds,
         DOMAIN ms \subseteq ids, ids \subseteq jds, NEW id \in MsgId
  PROVE  Faded(os, id, View(ms, ids)[id], View(os, jds)[id])
<1>1. CASE id \notin DOMAIN os
  BY <1>1, ViewOf DEF Mail!Missing, Faded
<1>2. CASE id \in DOMAIN os
  <2> DEFINE v == Envelope(ms[id])
             w == Envelope(os[id])
  <2>1. /\ View(ms, ids)[id] = v /\ View(os, jds)[id] = w
        /\ Follows(ms[id], os[id])
    BY <1>2, ViewOf DEF Continues
  <2>2. CASE os[id].status \in Ended
    <3>1. w = v
      BY <2>1, <2>2 DEF Follows, Envelope
    <3> QED BY <2>1, <3>1 DEF Faded
  <2>3. CASE os[id].status \notin Ended /\ ms[id].status \notin Ended
    <3>1. w = v
      BY <2>1, <2>3 DEF Follows, Envelope
    <3> QED BY <2>1, <3>1 DEF Faded
  <2>4. CASE os[id].status \notin Ended /\ ms[id].status \in Ended
    <3>1. v.phase = "ended" /\ w = Mail!Open(v.from, v.to, v.key)
      BY <2>1, <2>4 DEF Follows, Envelope, Mail!Open
    <3> QED BY <2>1, <2>4, <3>1 DEF Faded
  <2> QED BY <2>2, <2>3, <2>4
<1> QED BY <1>1, <1>2

\* The relay is stopped, or dies before a save is through.
LEMMA CutForgets ==
  ASSUME RelayInv, Cut, drawn.ids \subseteq drawn'.ids
  PROVE  Mail!Forget
<1> DEFINE After == View(disk.messages, drawn'.ids)
<1>1. /\ Board = messages /\ Continues(messages, disk.messages)
      /\ DOMAIN messages \subseteq drawn.ids
      /\ EndsIn(seen.ended, disk.messages)
  BY DEF RelayInv, ToldInv, Cut, Board
<1>2. /\ View(Board, drawn.ids)' = After
      /\ DOMAIN disk'.messages = DOMAIN disk.messages
      /\ Answers(seen.ended)' = Answers(seen.ended)
  BY DEF Cut
<1>3. After = [id \in MsgId |-> After[id]]
  BY DEF View
<1>4. ASSUME NEW id \in MsgId
      PROVE  \/ After[id] = Before[id]
             \/ /\ id \notin Mail!Answered \cup DOMAIN disk.messages
                /\ After[id] = Mail!Missing("lost")
             \/ /\ id \notin Mail!Answered /\ Before[id].phase = "ended"
                /\ After[id] = Mail!Open(Before[id].from, Before[id].to, Before[id].key)
  <2>1. id \in Mail!Answered => id \in DOMAIN disk.messages /\ disk.messages[id].status \in Ended
    BY <1>1, AnsweredEnds DEF Mail!Answered, EndsIn
  <2>2. Before = View(messages, drawn.ids)
    BY <1>1 DEF Before
  <2> DEFINE v == View(messages, drawn.ids)[id]
             w == View(disk.messages, drawn'.ids)[id]
  <2>3. Faded(disk.messages, id, v, w)
    BY <1>1, Fades
  <2>4. After[id] = w /\ Before[id] = v
    BY <2>2
  <2> HIDE DEF After, v, w
  <2> QED BY <2>1, <2>3, <2>4 DEF Faded
<1> HIDE DEF After
<1> QED BY <1>2, <1>3, <1>4 DEF Mail!Forget, Mail!In, Before

\* Whatever a save leaves in the files, nothing stored gets lost by it.
LEMMA SavedKeeps ==
  ASSUME NEW ms, NEW s, SavedAs(ms, s),
         DOMAIN disk.messages \subseteq DOMAIN ms, DOMAIN ms \subseteq MsgId
  PROVE  Mail!Keep
<1>1. Mail!There(View(Board', drawn'.ids)) = DOMAIN ms
  BY ThereView DEF SavedAs
<1>2. /\ DOMAIN disk.messages \subseteq DOMAIN disk'.messages
      /\ DOMAIN disk'.messages \subseteq DOMAIN ms
  BY DEF SavedAs
<1> QED BY <1>1, <1>2 DEF Mail!Keep, Mail!There

LEMMA ReportedAnswers ==
  ASSUME SeenOK(seen), NEW id, NEW m
  PROVE  /\ m.status \notin Ended => Reported(id, m).ended = seen.ended
         /\ m.status \in Ended => Answers(Reported(id, m).ended) =
                                    Answers(seen.ended) \cup {<<id, <<m.status, m.result>>>>}
<1>1. CASE m.status \notin Ended
  BY <1>1 DEF Reported
<1>2. CASE m.status \in Ended
  <2> DEFINE ends == IF id \in DOMAIN seen.ended THEN seen.ended[id] ELSE {}
             e == <<m.status, m.result>>
             ended == Put(seen.ended, id, ends \cup {e})
  <2>1. Reported(id, m).ended = ended
    BY <1>2 DEF Reported, SeenOK
  <2>2. /\ DOMAIN ended = DOMAIN seen.ended \cup {id}
        /\ ended[id] = ends \cup {e}
        /\ \A x \in DOMAIN seen.ended : x # id => ended[x] = seen.ended[x]
    BY DEF Put
  <2>3. \A x \in ends : id \in DOMAIN seen.ended /\ x \in seen.ended[id]
    OBVIOUS
  <2>4. id \in DOMAIN seen.ended => seen.ended[id] = ends
    OBVIOUS
  <2> HIDE DEF ended, ends, e
  <2>5. Answers(ended) = Answers(seen.ended) \cup {<<id, e>>}
    BY <2>2, <2>3, <2>4 DEF Answers
  <2> QED BY <1>2, <2>1, <2>5 DEF e
<1> QED BY <1>1, <1>2

\* A new message goes the way of Mailbox, however far its save gets.
LEMMA PostStep ==
  ASSUME RelayInv, NEW a \in Agent, NEW b \in Agent, NEW key \in Key \cup {NoKey},
         NEW id \in MsgId, NEW ttl \in TTLs, SendNew(a, b, key, id, ttl)
  PROVE  Mail!Next
<1> DEFINE n == NewMessage(a, b, key, ttl)
           ms == Put(messages, id, n)
           s == Posted(id)
<1>1. /\ up /\ Save(agents, ms, s)
      /\ id \notin drawn.ids /\ drawn'.ids = drawn.ids \cup {id}
      /\ Earlier(a, key) = {}
  BY DEF SendNew, NewMessage, Authenticated, RelayInv, StoreInv, Posted
<1>2. s.ended = seen.ended
  BY PostedOK DEF RelayInv, StoreInv
<1>3. /\ Board = messages /\ DOMAIN messages \subseteq drawn.ids
      /\ DOMAIN messages \subseteq MsgId /\ DOMAIN disk.messages \subseteq DOMAIN messages
  BY <1>1 DEF Board, RelayInv, StoreInv, ToldInv, Sound, IsMap, Continues
<1>4. Envelope(n) = Mail!Open(a, b, key)
  BY DEF NewMessage, Envelope, Mail!Open, Ended
<1> HIDE DEF n
<1>5. /\ DOMAIN ms = DOMAIN messages \cup {id} /\ ms[id] = n
      /\ \A x \in DOMAIN messages : ms[x] = messages[x]
  BY <1>1, <1>3 DEF Put
<1> HIDE DEF ms, s
<1>6. CASE Cut
  BY <1>1, <1>6, CutForgets DEF Mail!Next
<1>7. CASE SavedAs(ms, s)
  <2>1. Mail!Keep
    BY <1>3, <1>5, <1>7, SavedKeeps
  <2>2. Before[id].phase = "absent"
    BY <1>1, <1>3, ViewOf DEF Before
  <2>3. View(Board', drawn'.ids) = [Before EXCEPT ![id] = Mail!Open(a, b, key)]
    <3>1. Board' = ms /\ drawn'.ids = drawn.ids \cup {id} /\ Before = View(messages, drawn.ids)
      BY <1>1, <1>3, <1>7 DEF SavedAs, Before
    <3> QED BY <1>1, <1>3, <1>4, <1>5, <3>1 DEF View
  <2>4. ASSUME key # NoKey, NEW other \in Mail!There(Before)
        PROVE  Before[other].from # a \/ Before[other].key # key
    <3>1. other \in DOMAIN messages /\ Before[other] = Envelope(messages[other])
      BY <1>3, ThereView, ViewOf DEF Before
    <3>2. messages[other].sender # a \/ messages[other].key # key
      BY <1>1, <2>4, <3>1 DEF Earlier
    <3> QED BY <3>1, <3>2, EnvelopePhase
  <2>5. Answers(seen.ended)' = Answers(seen.ended)
    BY <1>2, <1>7 DEF SavedAs
  <2>6. Mail!Post(id, a, b, key)
    BY <1>1, <2>1, <2>2, <2>3, <2>4, <2>5
       DEF Mail!Post, Mail!In, Mail!There, Before
  <2> QED BY <2>6 DEF Mail!Next
<1> QED BY <1>1, <1>6, <1>7, SaveCases

\* What becomes of a message m, as the recipient sees it: nothing, or its end.
LEMMA MovedEnvelope ==
  ASSUME RelayInv, NEW id \in DOMAIN messages, NEW m, Moved(id, m)
  PROVE  \/ Envelope(m) = Envelope(messages[id])
         \/ /\ messages[id].status \notin Ended /\ m.status \in Ended
            /\ <<m.status, m.result>> \in Ended \X Outcome
            /\ Envelope(m) = Mail!Closed(Envelope(messages[id]), <<m.status, m.result>>)
<1>1. /\ Follows(m, messages[id]) /\ m \in AgentMessage
      /\ m.status \in Ended => m.result \in Outcome
  BY MovedFacts DEF RelayInv, StoreInv
<1>2. CASE messages[id].status \in Ended \/ m.status \notin Ended
  BY <1>1, <1>2 DEF Envelope, Follows
<1>3. CASE messages[id].status \notin Ended /\ m.status \in Ended
  BY <1>1, <1>3 DEF Envelope, Follows, Mail!Closed
<1> QED BY <1>2, <1>3

\* Acknowledging or ending a message goes the way of Mailbox, however far its
\* save gets.
LEMMA MoveStep ==
  ASSUME RelayInv, NEW a \in Agent, NEW id \in DOMAIN messages, NEW m,
         Moved(id, m), Transition(a, id, m)
  PROVE  Mail!Next
<1> DEFINE o == messages[id]
           ms == [messages EXCEPT ![id] = m]
           s == Reported(id, m)
           e == <<m.status, m.result>>
<1>1. /\ up /\ Save(agents, ms, s) /\ drawn' = drawn
  BY DEF Transition, Authenticated
<1>2. /\ Board = messages /\ DOMAIN messages \subseteq MsgId
      /\ DOMAIN disk.messages \subseteq DOMAIN messages
      /\ SeenOK(seen)
  BY <1>1 DEF Board, RelayInv, StoreInv, ToldInv, Sound, IsMap, Continues
<1>3. /\ DOMAIN ms = DOMAIN messages /\ ms[id] = m
      /\ \A x \in DOMAIN messages : x # id => ms[x] = messages[x]
  BY DEF RelayInv, StoreInv, Sound, IsMap
<1>4. /\ m.status \notin Ended => s.ended = seen.ended
      /\ m.status \in Ended => Answers(s.ended) = Answers(seen.ended) \cup {<<id, e>>}
  BY <1>2, ReportedAnswers
<1> HIDE DEF ms, s
<1>5. CASE Cut
  BY <1>1, <1>5, CutForgets DEF Mail!Next
<1>6. CASE SavedAs(ms, s)
  <2>1. Mail!Keep
    BY <1>2, <1>3, <1>6, SavedKeeps
  <2>2. Before[id] = Envelope(o)
    BY <1>2, ViewOf DEF Before
  <2>3. View(Board', drawn'.ids) = [Before EXCEPT ![id] = Envelope(m)]
    <3>1. Board' = ms /\ drawn' = drawn /\ Before = View(messages, drawn.ids)
      BY <1>1, <1>2, <1>6 DEF SavedAs, Before
    <3> QED BY <1>2, <1>3, <3>1 DEF View
  <2>4. Answers(seen.ended)' = Answers(seen.ended) \/ Answers(seen.ended)' = Answers(s.ended)
    BY <1>6 DEF SavedAs
  <2>5. CASE Envelope(m) = Envelope(o)
    <3>1. View(Board', drawn'.ids) = Before
      BY <2>2, <2>3, <2>5 DEF Before, View
    <3>2. CASE Answers(seen.ended)' = Answers(seen.ended)
      <4>1. Mail!Store
        BY <1>1, <2>1, <3>1, <3>2 DEF Mail!Store, Before
      <4> QED BY <4>1 DEF Mail!Next
    <3>3. CASE Answers(seen.ended)' = Answers(s.ended) /\ m.status \in Ended
      <4>1. Before[id].phase = "ended" /\ Before[id].end = e
        BY <2>2, <2>5, <3>3, EnvelopePhase
      <4>2. Mail!Repeat(id)
        BY <1>1, <1>4, <2>1, <3>1, <3>3, <4>1 DEF Mail!Repeat, Mail!In, Before
      <4> QED BY <1>2, <4>2 DEF Mail!Next
    <3> QED BY <1>4, <2>4, <3>2, <3>3
  <2>6. CASE /\ o.status \notin Ended /\ m.status \in Ended /\ e \in Ended \X Outcome
             /\ Envelope(m) = Mail!Closed(Envelope(o), e)
    <3>1. Before[id].phase = "open"
      BY <2>2, <2>6, EnvelopePhase
    <3>2. View(Board', drawn'.ids) = [Before EXCEPT ![id] = Mail!Closed(Before[id], e)]
      BY <2>2, <2>3, <2>6
    <3>3. Mail!Conclude(id, e)
      BY <1>1, <1>4, <2>1, <2>4, <2>6, <3>1, <3>2 DEF Mail!Conclude, Mail!In, Before
    <3> QED BY <1>2, <2>6, <3>3 DEF Mail!Next
  <2> QED BY <2>5, <2>6, MovedEnvelope
<1> QED BY <1>1, <1>5, <1>6, SaveCases

LEMMA MailStep ==
  ASSUME "overlap" \notin Faults, RelayInv, [Next]_vars
  PROVE  [Mail!Next]_(Mail!vars)
<1>1. ASSUME Board' = Board, drawn'.ids = drawn.ids,
             disk'.messages = disk.messages, seen'.ended = seen.ended
      PROVE  UNCHANGED Mail!vars
  BY <1>1 DEF Mail!vars
<1>2. CASE Serve \/ Tick \/ UNCHANGED vars
  BY <1>1, <1>2 DEF Serve, Tick, vars, Board
<1>3. CASE Stop
  <2>1. Cut /\ drawn' = drawn
    BY <1>3 DEF Stop, Cut, Board
  <2> QED BY <2>1, CutForgets DEF Mail!Next
<1>4. CASE RegisterSave \/ RegisterFail
  <2>1. /\ ~up /\ up' = up /\ cli.messages = disk.messages
        /\ UNCHANGED drawn
    BY <1>4 DEF RegisterSave, RegisterFail, RelayInv, ToldInv
  <2>2. disk'.messages = disk.messages
    BY <1>4, <2>1 DEF RegisterSave, RegisterFail, Saved
  <2>3. seen'.ended = seen.ended
    BY <1>4 DEF RegisterSave, RegisterFail, RelayInv, StoreInv, SeenOK
  <2>4. Board' = Board
    BY <2>1, <2>2 DEF Board
  <2> QED BY <1>1, <2>1, <2>2, <2>3, <2>4
<1>5. ASSUME NEW a \in Agent, RegisterLoad(a) PROVE UNCHANGED Mail!vars
  <2>1. drawn'.ids = drawn.ids /\ UNCHANGED <<up, messages, disk, seen>>
    BY <1>5 DEF RegisterLoad, RelayInv, StoreInv
  <2> QED BY <1>1, <2>1 DEF Board
<1>7. ASSUME NEW a \in Agent, NEW id \in MsgId, Acknowledge(a, id) PROVE Mail!Next
  <2>1. id \in DOMAIN messages /\ Moved(id, Acknowledged(messages[id]))
    BY <1>7 DEF Acknowledge, Moved
  <2> QED BY <1>7, <2>1, MoveStep DEF Acknowledge
<1>8. ASSUME NEW a \in Agent, NEW id \in MsgId, NEW status \in Ended,
             NEW result \in Outcome, Conclude(a, id, status, result)
      PROVE  Mail!Next
  <2>1. /\ id \in DOMAIN messages
        /\ Moved(id, Concluded(messages[id], status, result))
    BY <1>8 DEF Conclude, Moved
  <2> QED BY <1>8, <2>1, MoveStep DEF Conclude
<1> QED
  BY <1>2, <1>3, <1>4, <1>5, <1>7, <1>8, PostStep DEF Next

\* If register and serve take turns, then whichever saves fail and wherever the
\* relay dies, messages go the way Mailbox allows: their address unchanged, to
\* one end, never back from an end that was answered and never out of the files.
THEOREM MailboxImplemented == "overlap" \notin Faults => (Spec => MailRefines)
<1> SUFFICES ASSUME "overlap" \notin Faults PROVE Spec => MailRefines
  OBVIOUS
<1>1. Init => Mail!Init
  <2> SUFFICES ASSUME Init PROVE Mail!Init
    OBVIOUS
  <2>1. DOMAIN EmptyMap = {}
    BY DEF EmptyMap
  <2>2. Board = EmptyMap /\ drawn.ids = {} /\ disk.messages = EmptyMap /\ seen.ended = EmptyMap
    BY DEF Init, Board
  <2>3. View(Board, drawn.ids) = [id \in MsgId |-> Mail!Missing("absent")]
    BY <2>1, <2>2 DEF View, Mail!Missing
  <2>4. Answers(seen.ended) = {}
    BY <2>1, <2>2 DEF Answers
  <2> QED BY <2>1, <2>2, <2>3, <2>4 DEF Init, Mail!Init
<1>2. RelayInv /\ [Next]_vars => [Mail!Next]_(Mail!vars)
  BY MailStep
<1>3. Spec => []RelayInv
  BY StoreSafety, ToldSafety, PTL DEF RelayInv
<1> QED
  BY <1>1, <1>2, <1>3, PTL DEF Spec, MailRefines, Mail!Spec
=============================================================================
