------------------------------ MODULE Mailbox ------------------------------
(***************************************************************************)
(* What the relay promises about messages, without files, tokens or        *)
(* restarts.  A message keeps its sender, recipient and key and is ended   *)
(* once.  Trouble may open an ended message again or lose it, but never    *)
(* one whose end was answered, and it never loses one that is stored.  Of  *)
(* the messages that are there no two share a sender and a key.            *)
(***************************************************************************)
CONSTANTS Agent, MsgId, Key, NoKey, End

VARIABLES
  mail,     \* every message: absent, open, ended or lost
  stored,   \* the messages that are never lost
  answers   \* pairs of a message and its end, as answered to the recipient

vars == <<mail, stored, answers>>

Missing(phase) == [phase |-> phase]
Open(a, b, key) == [phase |-> "open", from |-> a, to |-> b, key |-> key, end |-> <<>>]
Closed(m, end) == [phase |-> "ended", from |-> m.from, to |-> m.to, key |-> m.key, end |-> end]

In(id, phase) == mail[id].phase = phase
There(ms) == {id \in MsgId : ms[id].phase \in {"open", "ended"}}
Answered == {r[1] : r \in answers}

\* Messages that are there may be stored on any occasion, and stay so.
Keep == stored \subseteq stored' /\ stored' \subseteq There(mail')

Init ==
  /\ mail = [id \in MsgId |-> Missing("absent")]
  /\ stored = {} /\ answers = {}

Post(id, a, b, key) ==
  /\ UNCHANGED answers /\ In(id, "absent")
  /\ key # NoKey => \A other \in There(mail) : mail[other].from # a \/ mail[other].key # key
  /\ mail' = [mail EXCEPT ![id] = Open(a, b, key)]
  /\ Keep

Conclude(id, end) ==
  /\ In(id, "open")
  /\ mail' = [mail EXCEPT ![id] = Closed(mail[id], end)]
  /\ answers' = answers \/ answers' = answers \cup {<<id, end>>}
  /\ Keep

\* A repeated report is answered with the end the message had.
Repeat(id) ==
  /\ In(id, "ended")
  /\ answers' = answers \cup {<<id, mail[id].end>>}
  /\ Keep /\ UNCHANGED mail

Store == UNCHANGED <<answers, mail>> /\ Keep

\* Trouble: messages are lost, or their ends are forgotten.
Forget ==
  /\ UNCHANGED <<stored, answers>>
  /\ mail' = [id \in MsgId |-> mail'[id]]
  /\ \A id \in MsgId :
       \/ mail'[id] = mail[id]
       \/ id \notin Answered \cup stored /\ mail'[id] = Missing("lost")
       \/ /\ id \notin Answered /\ In(id, "ended")
          /\ mail'[id] = Open(mail[id].from, mail[id].to, mail[id].key)

Next ==
  \/ Store \/ Forget
  \/ \E id \in MsgId :
       \/ Repeat(id)
       \/ \E end \in End : Conclude(id, end)
       \/ \E a, b \in Agent, key \in Key \cup {NoKey} : Post(id, a, b, key)

Spec == Init /\ [][Next]_vars
=============================================================================
