--------------------------- MODULE ExecutorProofs ---------------------------
(***************************************************************************)
(* Safety of Executor, on either platform, for any number of processes the *)
(* command starts, any size of pipe and any limit of the logs.             *)
(***************************************************************************)
EXTENDS Executor, SequenceTheorems, TLAPS

-----------------------------------------------------------------------------
(* Types.                                                                   *)

LEMMA EntryFacts ==
  /\ Truncated \in Entry
  /\ \A s \in Stream, n \in 1..MaxLines :
       /\ [stream |-> s, line |-> n] \in Entry
       /\ [stream |-> s, line |-> n] # Truncated
  /\ \A e \in Entry : e # Truncated => e.stream \in Stream /\ e.line \in 1..MaxLines
<1>1. \A s \in Stream, n \in 1..MaxLines : [stream |-> s, line |-> n] # Truncated
  <2> SUFFICES ASSUME NEW s \in Stream, NEW n \in 1..MaxLines,
                      [stream |-> s, line |-> n] = Truncated
               PROVE  FALSE
    OBVIOUS
  <2>1. [stream |-> s, line |-> n].stream = Truncated.stream
    OBVIOUS
  <2> QED
    BY <2>1 DEF Truncated, Stream
<1> QED
  BY <1>1 DEF Entry, Line

\* addLog keeps a sequence of entries and its bound.
LEMMA AddedType ==
  ASSUME NEW ls \in Seq(Entry), Len(ls) <= LogLimit + 1, NEW line \in Entry
  PROVE  /\ Added(ls, line) \in Seq(Entry)
         /\ Len(Added(ls, line)) <= LogLimit + 1
BY EntryFacts, ExecutorAssumption, LenProperties DEF Added

\* The stream of one scanner moves on, and the others stay.
LEMMA StreamMoves ==
  ASSUME TypeOK, NEW s \in Stream, NEW t \in Scanned,
         t.added <= t.read, t.read <= t.written, t.long <= t.written,
         stream' = [stream EXCEPT ![s] = t]
  PROVE  /\ stream' \in [Stream -> Scanned]
         /\ \A x \in Stream : LET u == stream'[x] IN
              u.added <= u.read /\ u.read <= u.written /\ u.long <= u.written
         /\ stream'[s] = t /\ \A x \in Stream \ {s} : stream'[x] = stream[x]
BY DEF TypeOK

LEMMA WriteMoves ==
  ASSUME TypeOK, NEW s \in Stream, NEW long \in BOOLEAN, Write(s, long)
  PROVE  \E t \in Scanned :
           /\ stream' = [stream EXCEPT ![s] = t]
           /\ t.added = stream[s].added /\ t.read = stream[s].read
           /\ t.read <= t.written /\ t.long <= t.written
<1> DEFINE o == stream[s]
           l == IF long /\ o.long = 0 THEN o.written + 1 ELSE o.long
           w == [o EXCEPT !.written = @ + 1]
           t == [w EXCEPT !.long = l]
<1>1. o \in Scanned /\ o.read <= o.written /\ o.long <= o.written /\ o.written < MaxLines
  BY DEF TypeOK, Write
<1>2. stream' = [stream EXCEPT ![s] = t]
  BY DEF Write, TypeOK, Scanned
<1>3. l \in {o.written + 1, o.long}
  OBVIOUS
<1> HIDE DEF l
<1>4. /\ w \in Scanned /\ w.written = o.written + 1 /\ w.added = o.added
      /\ w.read = o.read /\ w.long = o.long
  BY <1>1, ExecutorAssumption DEF Scanned
<1> HIDE DEF w
<1>5. t \in Scanned /\ t.written = w.written /\ t.added = w.added /\ t.read = w.read /\ t.long = l
  BY <1>1, <1>3, <1>4, ExecutorAssumption DEF Scanned
<1> HIDE DEF t
<1>6. t.read <= t.written /\ t.long <= t.written
  BY <1>1, <1>3, <1>4, <1>5 DEF Scanned
<1> QED
  BY <1>2, <1>4, <1>5, <1>6

\* A scanner reads lines that were written and not read.
LEMMA ReadMoves ==
  ASSUME TypeOK, NEW s \in Stream, Read(s)
  PROVE  \E t \in Scanned :
           /\ stream' = [stream EXCEPT ![s] = t]
           /\ t.added = stream[s].added /\ t.added <= t.read
           /\ t.read <= t.written /\ t.long <= t.written
<1> DEFINE o == stream[s]
<1>1. PICK n \in o.read + 1 .. o.written : stream' = [stream EXCEPT ![s].read = n]
  BY DEF Read
<1> DEFINE t == [o EXCEPT !.read = n]
<1>2. o \in Scanned /\ o.added <= o.read /\ o.read <= o.written /\ o.long <= o.written
  BY DEF TypeOK
<1>3. n \in 0..MaxLines /\ o.read < n /\ n <= o.written
  BY <1>2, ExecutorAssumption DEF Scanned
<1>4. t \in Scanned /\ t.added = o.added /\ t.read = n /\ t.written = o.written /\ t.long = o.long
  BY <1>2, <1>3 DEF Scanned
<1>5. stream' = [stream EXCEPT ![s] = t]
  BY <1>1 DEF TypeOK
<1>6. o.added <= n /\ o.long <= o.written
  BY <1>2, <1>3 DEF Scanned
<1> HIDE DEF t
<1> QED
  BY <1>3, <1>4, <1>5, <1>6

\* A scanner gives up, or adds the next of the lines it has read.
LEMMA ScanMoves ==
  ASSUME TypeOK, NEW s \in Stream, Scan(s)
  PROVE  \E t \in Scanned :
           /\ stream' = [stream EXCEPT ![s] = t]
           /\ t.added <= t.read /\ t.read <= t.written /\ t.long <= t.written
           /\ \/ t.added = stream[s].added /\ logs' = logs
              \/ /\ t.added = stream[s].added + 1 /\ t.added \in 1..MaxLines
                 /\ logs' = Added(logs, [stream |-> s, line |-> t.added])
<1> DEFINE o == stream[s]
           t1 == [o EXCEPT !.gaveUp = TRUE]
           t2 == [o EXCEPT !.added = @ + 1]
<1>1. /\ o \in Scanned /\ o.added <= o.read /\ o.read <= o.written /\ o.long <= o.written
      /\ o.added < o.read
  BY DEF TypeOK, Scan
<1>2. CASE o.added + 1 = o.long
  <2>1. stream' = [stream EXCEPT ![s] = t1] /\ logs' = logs
    BY <1>2 DEF Scan, TypeOK
  <2>2. /\ t1 \in Scanned /\ t1.added = o.added /\ t1.read = o.read
        /\ t1.written = o.written /\ t1.long = o.long
    BY <1>1 DEF Scanned
  <2> QED
    BY <1>1, <2>1, <2>2
<1>3. CASE o.added + 1 # o.long
  <2>1. /\ stream' = [stream EXCEPT ![s] = t2]
        /\ logs' = Added(logs, [stream |-> s, line |-> o.added + 1])
    BY <1>3 DEF Scan, TypeOK
  <2>2. o.added + 1 \in 1..MaxLines /\ o.added + 1 <= o.read
    BY <1>1, ExecutorAssumption DEF Scanned
  <2>3. /\ t2 \in Scanned /\ t2.added = o.added + 1 /\ t2.read = o.read
        /\ t2.written = o.written /\ t2.long = o.long
    BY <1>1, <2>2, ExecutorAssumption DEF Scanned
  <2> HIDE DEF t2
  <2> QED
    BY <1>1, <2>1, <2>2, <2>3
<1> QED
  BY <1>2, <1>3

LEMMA InitType == Init => TypeOK
<1> SUFFICES ASSUME Init PROVE TypeOK
  OBVIOUS
<1>1. stream \in [Stream -> Scanned]
  BY ExecutorAssumption DEF Init, Scanned
<1>2. \A s \in Stream : LET t == stream[s] IN
        t.added <= t.read /\ t.read <= t.written /\ t.long <= t.written
  BY DEF Init
<1>3. logs \in Seq(Entry) /\ Len(logs) <= LogLimit + 1
  BY EmptySeq, ExecutorAssumption DEF Init
<1> QED
  BY <1>1, <1>2, <1>3 DEF Init, TypeOK, PC

\* What Run returns was either the error of a command that did not start or
\* what the command's process had come to.
TypeInv == TypeOK /\ (pc = "reaped" => proc \notin {"none", "alive"})

LEMMA TypeStep == TypeInv /\ [Next]_vars => TypeInv'
<1> SUFFICES ASSUME TypeInv, [Next]_vars PROVE TypeInv'
  OBVIOUS
<1> USE DEF TypeInv
<1>1. ASSUME NEW s \in Stream, NEW long \in BOOLEAN, Write(s, long) PROVE TypeInv'
  <2>1. PICK t \in Scanned :
          /\ stream' = [stream EXCEPT ![s] = t] /\ t.added = stream[s].added /\ t.read = stream[s].read
          /\ t.read <= t.written /\ t.long <= t.written
    BY <1>1, WriteMoves
  <2>2. t.added <= t.read
    BY <2>1 DEF TypeOK
  <2>3. /\ stream' \in [Stream -> Scanned]
        /\ \A x \in Stream : LET u == stream'[x] IN
             u.added <= u.read /\ u.read <= u.written /\ u.long <= u.written
    BY <2>1, <2>2, StreamMoves
  <2> QED
    BY <1>1, <2>3 DEF TypeOK, Write
<1>2. ASSUME NEW s \in Stream, Read(s) PROVE TypeInv'
  <2>1. /\ stream' \in [Stream -> Scanned]
        /\ \A x \in Stream : LET u == stream'[x] IN
             u.added <= u.read /\ u.read <= u.written /\ u.long <= u.written
    BY <1>2, ReadMoves, StreamMoves
  <2> QED
    BY <1>2, <2>1 DEF TypeOK, Read
<1>3. ASSUME NEW s \in Stream, Scan(s) PROVE TypeInv'
  <2>1. /\ stream' \in [Stream -> Scanned]
        /\ \A x \in Stream : LET u == stream'[x] IN
             u.added <= u.read /\ u.read <= u.written /\ u.long <= u.written
    BY <1>3, ScanMoves, StreamMoves
  <2>2. logs' \in Seq(Entry) /\ Len(logs') <= LogLimit + 1
    <3>1. \/ logs' = logs
          \/ \E n \in 1..MaxLines : logs' = Added(logs, [stream |-> s, line |-> n])
      BY <1>3, ScanMoves
    <3>2. \A n \in 1..MaxLines : [stream |-> s, line |-> n] \in Entry
      BY EntryFacts
    <3> QED
      BY <3>1, <3>2, AddedType DEF TypeOK
  <2> QED
    BY <1>3, <2>1, <2>2 DEF TypeOK, Scan
<1>4. ASSUME NEW k \in Kid, StartKid(k) \/ KidExits(k) PROVE TypeInv'
  BY <1>4 DEF TypeOK, StartKid, KidExits
<1>5. ASSUME NEW how \in {"succeeded", "failed"}, Exit(how) PROVE TypeInv'
  BY <1>5 DEF TypeOK, Exit
<1>6. CASE Start \/ Manage \/ Reap \/ Report
  BY <1>6 DEF TypeOK, Start, Manage, Reap, WaitOver, Report, PC
<1>7. CASE StartFails
  BY <1>7 DEF TypeOK, StartFails, PC
<1>8. CASE Return
  <2>1. pc = "reaped" /\ result' = [exit |-> proc, logs |-> logs]
    BY <1>8 DEF Return
  <2> QED
    BY <1>8, <2>1 DEF TypeOK, Return, PC
<1>9. CASE Deadline \/ KillCommand \/ ManagerParks
  BY <1>9 DEF TypeOK, Deadline, KillCommand, ManagerParks
<1>10. CASE ManagerKills \/ ManagerEnds
  BY <1>10 DEF TypeOK, ManagerKills, ManagerEnds, KillReached
<1>11. CASE UNCHANGED vars
  BY <1>11 DEF TypeOK, vars
<1> QED
  BY <1>1, <1>2, <1>3, <1>4, <1>5, <1>6, <1>7, <1>8, <1>9, <1>10, <1>11
     DEF Next, CommandStep, RunStep

\* All variables keep their types, whatever the command, the scanners, the
\* manager and the deadline do to each other.
THEOREM TypeSafety == Spec => []TypeOK
<1>1. Init => TypeInv
  BY InitType DEF Init, TypeInv
<1>2. TypeInv => TypeOK
  BY DEF TypeInv
<1> QED
  BY <1>1, <1>2, TypeStep, PTL DEF Spec

-----------------------------------------------------------------------------
(* The logs.                                                                *)

\* No line of ls lies beyond what the scanners have added, and up to the limit
\* no line they have added is missing.
Bounded(ls, st) ==
  \A i \in DOMAIN ls : ls[i] # Truncated => ls[i].line <= st[ls[i].stream].added

Complete(ls, st) ==
  Len(ls) <= LogLimit =>
    \A s \in Stream : \A n \in 1..st[s].added :
      \E i \in DOMAIN ls : ls[i] = [stream |-> s, line |-> n]

LogInv ==
  /\ NoGaps(logs) /\ Bounded(logs, stream) /\ Complete(logs, stream)
  /\ LogsHaveNoGaps

\* The next line of a stream goes to the end of logs that are not full.
LEMMA AppendLine ==
  ASSUME TypeOK, LogInv, Len(logs) < LogLimit, NEW s \in Stream,
         NEW n \in 1..MaxLines, n = stream[s].added + 1
  PROVE  LET ls == Append(logs, [stream |-> s, line |-> n]) IN
         /\ NoGaps(ls)
         /\ \A st : st[s].added = n /\ (\A x \in Stream \ {s} : st[x].added = stream[x].added)
                => Bounded(ls, st) /\ Complete(ls, st)
<1> DEFINE e == [stream |-> s, line |-> n]
           ls == Append(logs, e)
           last == Len(logs) + 1
<1>1. e \in Entry /\ e # Truncated /\ e.stream = s /\ e.line = n
  BY EntryFacts
<1>2. logs \in Seq(Entry) /\ Len(logs) \in Nat /\ DOMAIN logs = 1..Len(logs)
  BY LenProperties DEF TypeOK
<1>3. /\ ls \in Seq(Entry) /\ Len(ls) = last /\ DOMAIN ls = 1..last /\ ls[last] = e
      /\ \A i \in DOMAIN logs : ls[i] = logs[i]
  BY <1>1, <1>2
<1>4. \A i \in DOMAIN logs : logs[i] \in Entry /\ (logs[i] # Truncated =>
           logs[i].stream \in Stream /\ logs[i].line \in 1..MaxLines)
  BY <1>2, EntryFacts, ElementOfSeq
<1>5. \A x \in Stream : stream[x].added \in Nat
  BY ExecutorAssumption DEF TypeOK, Scanned
<1> HIDE DEF e, ls
<1>6. \A m \in 1..n : m < n <=> \E j \in 1..last - 1 : ls[j] = [stream |-> s, line |-> m]
  <2> SUFFICES ASSUME NEW m \in 1..n
               PROVE  m < n <=> \E j \in 1..last - 1 : ls[j] = [stream |-> s, line |-> m]
    OBVIOUS
  <2>1. ASSUME m < n PROVE \E j \in 1..last - 1 : ls[j] = [stream |-> s, line |-> m]
    <3>1. m \in 1..stream[s].added
      BY <1>5, <2>1
    <3>2. PICK i \in DOMAIN logs : logs[i] = [stream |-> s, line |-> m]
      BY <3>1, <1>2, ExecutorAssumption DEF LogInv, Complete
    <3> QED
      BY <1>2, <1>3, <3>2
  <2>2. ASSUME NEW j \in 1..last - 1, ls[j] = [stream |-> s, line |-> m] PROVE m < n
    <3>1. j \in DOMAIN logs /\ logs[j] = [stream |-> s, line |-> m]
      BY <1>2, <1>3, <2>2
    <3>2. logs[j] # Truncated
      <4>1. m \in 1..MaxLines
        BY ExecutorAssumption
      <4> QED
        BY <3>1, <4>1, EntryFacts
    <3>3. logs[j].line <= stream[logs[j].stream].added
      BY <3>1, <3>2 DEF LogInv, Bounded
    <3> QED
      BY <1>5, <3>1, <3>3
  <2> QED
    BY <2>1, <2>2
<1>7. NoGaps(ls)
  <2> SUFFICES ASSUME NEW i \in 1..last
               PROVE  /\ ls[i] = Truncated <=> i = LogLimit + 1
                      /\ ls[i] # Truncated => \A m \in 1..ls[i].line :
                           m < ls[i].line
                             <=> \E j \in 1..i - 1 : ls[j] = [stream |-> ls[i].stream, line |-> m]
    BY <1>3 DEF NoGaps
  <2>1. CASE i = last
    BY <2>1, <1>1, <1>2, <1>3, <1>6, ExecutorAssumption
  <2>2. CASE i # last
    <3>1. i \in DOMAIN logs /\ ls[i] = logs[i] /\ \A j \in 1..i - 1 : ls[j] = logs[j]
      BY <2>2, <1>2, <1>3
    <3>2. NoGaps(logs)
      BY DEF LogInv
    <3>3. /\ logs[i] = Truncated <=> i = LogLimit + 1
          /\ logs[i] # Truncated => \A m \in 1..logs[i].line :
               m < logs[i].line
                 <=> \E j \in 1..i - 1 : logs[j] = [stream |-> logs[i].stream, line |-> m]
      BY <3>1, <3>2, Zenon DEF NoGaps
    <3>4. ASSUME NEW m
          PROVE  (\E j \in 1..i - 1 : logs[j] = [stream |-> logs[i].stream, line |-> m])
             <=> (\E j \in 1..i - 1 : ls[j] = [stream |-> ls[i].stream, line |-> m])
      BY <3>1, Zenon
    <3> HIDE DEF Truncated
    <3> QED
      BY <3>1, <3>3, <3>4, Zenon
  <2> QED
    BY <2>1, <2>2
<1>8. ASSUME NEW st, st[s].added = n, \A x \in Stream \ {s} : st[x].added = stream[x].added
      PROVE  Bounded(ls, st) /\ Complete(ls, st)
  <2>0. \A x \in Stream : stream[x].added <= st[x].added
    BY <1>5, <1>8
  <2>1. Bounded(ls, st)
    <3> SUFFICES ASSUME NEW i \in 1..last, ls[i] # Truncated
                 PROVE  ls[i].line <= st[ls[i].stream].added
      BY <1>3 DEF Bounded
    <3>1. CASE i = last
      BY <3>1, <1>1, <1>3, <1>8
    <3>2. CASE i # last
      <4>1. i \in DOMAIN logs /\ ls[i] = logs[i]
        BY <3>2, <1>2, <1>3
      <4>2. logs[i].line <= stream[logs[i].stream].added
        BY <4>1 DEF LogInv, Bounded
      <4>3. logs[i].stream \in Stream /\ logs[i].line \in Int
        BY <4>1, <1>4
      <4>4. st[logs[i].stream].added \in Int
        BY <4>3, <1>5, <1>8
      <4> QED
        BY <4>1, <4>2, <4>3, <4>4, <1>5, <2>0
    <3> QED
      BY <3>1, <3>2
  <2>2. Complete(ls, st)
    <3> SUFFICES ASSUME NEW x \in Stream, NEW m \in 1..st[x].added
                 PROVE  \E i \in DOMAIN ls : ls[i] = [stream |-> x, line |-> m]
      BY DEF Complete
    <3>1. CASE x = s /\ m = n
      BY <3>1, <1>2, <1>3 DEF e
    <3>2. CASE ~(x = s /\ m = n)
      <4>1. m \in 1..stream[x].added
        BY <3>2, <1>5, <1>8
      <4>2. PICK i \in DOMAIN logs : logs[i] = [stream |-> x, line |-> m]
        BY <4>1, <1>2, ExecutorAssumption DEF LogInv, Complete
      <4> QED
        BY <4>2, <1>2, <1>3
    <3> QED
      BY <3>1, <3>2
  <2> QED
    BY <2>1, <2>2
<1> QED
  BY <1>7, <1>8 DEF ls, e

\* Logs that are full get the mark, once.
LEMMA AppendMark ==
  ASSUME TypeOK, LogInv, Len(logs) = LogLimit
  PROVE  LET ls == Append(logs, Truncated) IN
         /\ NoGaps(ls) /\ Len(ls) = LogLimit + 1
         /\ \A st : (\A x \in Stream : stream[x].added <= st[x].added /\ st[x].added \in Nat)
                => Bounded(ls, st)
<1> DEFINE ls == Append(logs, Truncated)
<1>1. logs \in Seq(Entry) /\ Len(logs) = LogLimit /\ DOMAIN logs = 1..LogLimit
  BY LenProperties DEF TypeOK
<1>2. /\ Len(ls) = LogLimit + 1 /\ DOMAIN ls = 1..LogLimit + 1
      /\ ls[LogLimit + 1] = Truncated /\ \A i \in 1..LogLimit : ls[i] = logs[i]
  BY <1>1, EntryFacts, ExecutorAssumption
<1>3. \A i \in DOMAIN logs : logs[i] # Truncated =>
           logs[i].stream \in Stream /\ logs[i].line \in 1..MaxLines
  BY <1>1, EntryFacts, ElementOfSeq
<1> HIDE DEF ls
<1>4. NoGaps(ls)
  <2> SUFFICES ASSUME NEW i \in 1..LogLimit + 1
               PROVE  /\ ls[i] = Truncated <=> i = LogLimit + 1
                      /\ ls[i] # Truncated => \A m \in 1..ls[i].line :
                           m < ls[i].line
                             <=> \E j \in 1..i - 1 : ls[j] = [stream |-> ls[i].stream, line |-> m]
    BY <1>2 DEF NoGaps
  <2>1. CASE i = LogLimit + 1
    BY <2>1, <1>2
  <2>2. CASE i # LogLimit + 1
    <3>1. i \in DOMAIN logs /\ ls[i] = logs[i] /\ \A j \in 1..i - 1 : ls[j] = logs[j]
      BY <2>2, <1>1, <1>2, ExecutorAssumption
    <3> QED
      BY <3>1 DEF LogInv, NoGaps
  <2> QED
    BY <2>1, <2>2
<1>5. ASSUME NEW st, \A x \in Stream : stream[x].added <= st[x].added /\ st[x].added \in Nat
      PROVE  Bounded(ls, st)
  <2> SUFFICES ASSUME NEW i \in 1..LogLimit + 1, ls[i] # Truncated
               PROVE  ls[i].line <= st[ls[i].stream].added
    BY <1>2 DEF Bounded
  <2>1. i \in DOMAIN logs /\ ls[i] = logs[i]
    BY <1>1, <1>2, ExecutorAssumption
  <2>2. logs[i].line <= stream[logs[i].stream].added
    BY <2>1 DEF LogInv, Bounded
  <2>3. stream[logs[i].stream].added \in Int
    BY <2>1, <1>3, ExecutorAssumption DEF TypeOK, Scanned
  <2> QED
    BY <2>1, <2>2, <2>3, <1>3, <1>5
<1> QED
  BY <1>2, <1>4, <1>5 DEF ls

LEMMA LogStep == TypeInv /\ LogInv /\ [Next]_vars => LogInv'
<1> SUFFICES ASSUME TypeOK, LogInv, [Next]_vars PROVE LogInv'
  BY DEF TypeInv
<1>1. ASSUME NEW s \in Stream, NEW t, stream' = [stream EXCEPT ![s] = t],
             t.added = stream[s].added, UNCHANGED <<logs, result>>
      PROVE  LogInv'
  <2>1. \A x \in Stream : stream'[x].added = stream[x].added
    BY <1>1 DEF TypeOK
  <2>2. \A i \in DOMAIN logs : logs[i] # Truncated => logs[i].stream \in Stream
    BY EntryFacts, ElementOfSeq, LenProperties DEF TypeOK
  <2>3. Bounded(logs, stream')
    BY <2>1, <2>2 DEF LogInv, Bounded
  <2>4. Complete(logs, stream')
    BY <2>1 DEF LogInv, Complete
  <2> QED
    BY <1>1, <2>3, <2>4 DEF LogInv, LogsHaveNoGaps
<1>2. ASSUME NEW s \in Stream, Write(s, TRUE) \/ Write(s, FALSE) \/ Read(s) PROVE LogInv'
  <2>1. \E t : stream' = [stream EXCEPT ![s] = t] /\ t.added = stream[s].added
    BY <1>2, WriteMoves, ReadMoves
  <2>2. UNCHANGED <<logs, result>>
    BY <1>2 DEF Write, Read
  <2> QED
    BY <1>1, <2>1, <2>2
<1>3. ASSUME NEW s \in Stream, Scan(s) PROVE LogInv'
  <2>1. PICK t \in Scanned :
          /\ stream' = [stream EXCEPT ![s] = t]
          /\ \/ t.added = stream[s].added /\ logs' = logs
             \/ /\ t.added = stream[s].added + 1 /\ t.added \in 1..MaxLines
                /\ logs' = Added(logs, [stream |-> s, line |-> t.added])
    BY <1>3, ScanMoves
  <2>2. result' = result
    BY <1>3 DEF Scan
  <2>3. CASE t.added = stream[s].added /\ logs' = logs
    BY <1>1, <2>1, <2>2, <2>3
  <2>4. CASE /\ t.added = stream[s].added + 1 /\ t.added \in 1..MaxLines
             /\ logs' = Added(logs, [stream |-> s, line |-> t.added])
    <3>1. stream'[s] = t /\ \A x \in Stream \ {s} : stream'[x] = stream[x]
      BY <2>1 DEF TypeOK
    <3>2. \A x \in Stream : stream[x].added \in Nat /\ stream[x].added <= stream'[x].added
                            /\ stream'[x].added \in Nat
      <4>1. \A x \in Stream : stream[x].added \in Nat
        BY ExecutorAssumption DEF TypeOK, Scanned
      <4> QED
        BY <2>4, <3>1, <4>1, ExecutorAssumption
    <3>3. logs \in Seq(Entry) /\ Len(logs) \in Nat
      BY LenProperties DEF TypeOK
    <3>4. NoGaps(logs') /\ Bounded(logs', stream') /\ Complete(logs', stream')
      <4>1. CASE Len(logs) < LogLimit
        <5>1. logs' = Append(logs, [stream |-> s, line |-> t.added])
          BY <2>4, <4>1 DEF Added
        <5>2. stream'[s].added = t.added /\ \A x \in Stream \ {s} : stream'[x].added = stream[x].added
          BY <3>1
        <5> DEFINE ls == Append(logs, [stream |-> s, line |-> t.added])
        <5>3. /\ NoGaps(ls)
              /\ \A st : st[s].added = t.added
                          /\ (\A x \in Stream \ {s} : st[x].added = stream[x].added)
                     => Bounded(ls, st) /\ Complete(ls, st)
          BY <2>4, <4>1, AppendLine
        <5> HIDE DEF ls
        <5> QED
          BY <5>1, <5>2, <5>3 DEF ls
      <4>2. CASE Len(logs) = LogLimit
        <5>1. logs' = Append(logs, Truncated)
          BY <2>4, <4>2, ExecutorAssumption DEF Added
        <5>2. NoGaps(logs') /\ Bounded(logs', stream') /\ Len(logs') = LogLimit + 1
          BY <3>2, <4>2, <5>1, AppendMark
        <5> QED
          BY <5>2, ExecutorAssumption DEF Complete
      <4>3. CASE Len(logs) > LogLimit
        <5>1. logs' = logs
          BY <2>4, <3>3, <4>3, ExecutorAssumption DEF Added
        <5>2. Complete(logs', stream')
          BY <3>3, <4>3, <5>1, ExecutorAssumption DEF Complete
        <5>3. \A i \in DOMAIN logs : logs[i] # Truncated =>
                logs[i].stream \in Stream /\ logs[i].line \in 1..MaxLines
          BY <3>3, EntryFacts, ElementOfSeq, LenProperties
        <5>4. Bounded(logs, stream')
          BY <3>2, <5>3 DEF LogInv, Bounded
        <5> QED
          BY <5>1, <5>2, <5>4 DEF LogInv
      <4> QED
        BY <3>3, <4>1, <4>2, <4>3, ExecutorAssumption
    <3> QED
      BY <2>2, <3>4 DEF LogInv, LogsHaveNoGaps
  <2> QED
    BY <2>1, <2>3, <2>4
<1>4. ASSUME UNCHANGED <<stream, logs>>,
             result' = result \/ result'.logs = logs
      PROVE  LogInv'
  BY <1>4 DEF LogInv, LogsHaveNoGaps
<1>5. CASE StartFails \/ Return
  BY <1>4, <1>5 DEF StartFails, Return
<1>6. CASE Start \/ Manage \/ Reap \/ Report \/ Deadline \/ KillCommand
           \/ ManagerParks \/ ManagerKills \/ ManagerEnds
  BY <1>4, <1>6 DEF Start, Manage, Reap, Report, Deadline, KillCommand,
                    ManagerParks, ManagerKills, ManagerEnds
<1>7. CASE \E k \in Kid : StartKid(k) \/ KidExits(k)
  BY <1>4, <1>7 DEF StartKid, KidExits
<1>8. CASE \E how \in {"succeeded", "failed"} : Exit(how)
  BY <1>4, <1>8 DEF Exit
<1>9. CASE UNCHANGED vars
  BY <1>4, <1>9 DEF vars
<1> QED
  BY <1>2, <1>3, <1>5, <1>6, <1>7, <1>8, <1>9 DEF Next, CommandStep, RunStep

\* The logs that Run returns have no gaps, although the scanners may be
\* anywhere when it returns and Wait closes the pipes they read.
THEOREM GapFree == Spec => []LogsHaveNoGaps
<1>1. Init => LogInv
  <2> SUFFICES ASSUME Init PROVE LogInv
    OBVIOUS
  <2>1. DOMAIN logs = {} /\ result = NoResult /\ \A s \in Stream : stream[s].added = 0
    BY DEF Init
  <2> QED
    BY <2>1 DEF LogInv, NoGaps, Bounded, Complete, LogsHaveNoGaps
<1>2. LogInv => LogsHaveNoGaps
  BY DEF LogInv
<1>3. Init => TypeInv
  BY InitType DEF Init, TypeInv
<1> QED
  BY <1>1, <1>2, <1>3, TypeStep, LogStep, PTL DEF Spec

-----------------------------------------------------------------------------
(* What survives the run.                                                   *)

\* On Windows a process is reached only if it was started in the job object.
\* The manager parks only under a live context, which never kills a command, so
\* a manager woken by the end of Run has seen a command that ended by itself.  A
\* manager that has ended leaves nobody who starts what it could reach.
CleanInv ==
  /\ jobbed => platform = "windows"
  /\ platform = "windows" /\ ~jobbed => NoneReached
  /\ proc = "none" => NoneReached
  /\ pc = "starting" => proc = "none"
  /\ pc \in {"starting", "started"} => manager = "none" /\ ~jobbed
  /\ pc \in {"reaped", "returned", "reported"} => proc # "alive"
  /\ pc \in {"started", "waiting", "reaped"} => proc # "none"
  /\ manager = "parked" => ctx = "live" /\ pc \in {"waiting", "reaped"}
  /\ manager = "end" => proc \in {"succeeded", "failed"}
  /\ ctx = "live" => manager # "kill" /\ proc # "killed"
  /\ manager = "ended" => proc # "alive" \/ (platform = "windows" /\ ~jobbed)

\* The signal of the manager, where it reaches anything.
LEMMA Killed ==
  ASSUME TypeOK, KillReached
  PROVE  /\ NoneReached'
         /\ proc' = proc \/ (proc = "alive" /\ proc' = "killed")
         /\ platform = "unix" \/ jobbed => proc' # "alive"
BY DEF TypeOK, KillReached, NoneReached

LEMMA CleanStep == TypeOK /\ CleanInv /\ [Next]_vars => CleanInv'
<1> SUFFICES ASSUME TypeOK, CleanInv, [Next]_vars PROVE CleanInv'
  OBVIOUS
<1> USE DEF CleanInv
<1>0. platform \in {"unix", "windows"}
  BY ExecutorAssumption DEF TypeOK
<1>1. ASSUME NEW s \in Stream, Write(s, TRUE) \/ Write(s, FALSE) \/ Read(s) \/ Scan(s)
      PROVE  CleanInv'
  BY <1>1 DEF Write, Read, Scan, NoneReached
<1>2. ASSUME NEW k \in Kid, StartKid(k) PROVE CleanInv'
  <2>1. platform = "windows" /\ ~jobbed => NoneReached'
    BY <1>2 DEF StartKid, NoneReached, TypeOK
  <2> QED
    BY <1>2, <2>1 DEF StartKid
<1>3. ASSUME NEW k \in Kid, KidExits(k) PROVE CleanInv'
  <2>1. NoneReached => NoneReached'
    BY <1>3 DEF KidExits, NoneReached, TypeOK
  <2> QED
    BY <1>3, <2>1 DEF KidExits
<1>4. CASE \E how \in {"succeeded", "failed"} : Exit(how)
  BY <1>4 DEF Exit, NoneReached
<1>5. CASE Start \/ StartFails
  BY <1>5 DEF Start, StartFails, NoneReached
<1>6. CASE Manage
  <2>1. proc = "none" \/ platform # "windows" \/ NoneReached
    BY <1>6 DEF Manage
  <2> QED
    BY <1>6, <2>1, <1>0 DEF Manage, NoneReached
<1>7. CASE Reap \/ Report
  BY <1>7 DEF Reap, WaitOver, Report, NoneReached
<1>12. CASE Return
  <2>1. /\ pc = "reaped" /\ pc' = "returned" /\ UNCHANGED <<platform, proc, jobbed, kids, ctx>>
        /\ manager = "parked" => manager' = "end"
        /\ manager # "parked" => manager' = manager
    BY <1>12 DEF Return
  <2>2. manager' = "end" => proc \in {"succeeded", "failed"}
    BY <2>1 DEF TypeOK
  <2> QED
    BY <2>1, <2>2 DEF NoneReached
<1>8. CASE KillCommand \/ ManagerParks
  BY <1>8 DEF KillCommand, ManagerParks, NoneReached
<1>13. CASE Deadline
  <2>1. /\ ctx' = "deadline" /\ UNCHANGED <<platform, pc, proc, jobbed, kids>>
        /\ manager = "parked" => manager' = "kill"
        /\ manager # "parked" => manager' = manager
    BY <1>13 DEF Deadline
  <2> QED
    BY <2>1 DEF NoneReached
<1>9. CASE ManagerKills
  BY <1>9, <1>0, Killed DEF ManagerKills
<1>10. CASE ManagerEnds
  <2>1. CASE platform = "windows"
    BY <1>10, <2>1, Killed DEF ManagerEnds, DoneSeen
  <2>2. CASE platform # "windows"
    BY <1>10, <2>2 DEF ManagerEnds, DoneSeen, NoneReached
  <2> QED
    BY <2>1, <2>2
<1>11. CASE UNCHANGED vars
  BY <1>11 DEF vars, NoneReached
<1> QED
  BY <1>1, <1>2, <1>3, <1>4, <1>5, <1>6, <1>7, <1>8, <1>9, <1>10, <1>11, <1>12, <1>13
     DEF Next, CommandStep, RunStep

\* A process that the manager reaches has a parent it reaches; once the manager
\* has ended there is none.
LEMMA NoneComesLater ==
  ASSUME TypeOK, CleanInv, Next, manager = "ended", NoneReached
  PROVE  NoneReached'
<1>1. ASSUME NEW k \in Kid, StartKid(k) PROVE NoneReached'
  <2>1. platform # "unix" /\ ~jobbed
    BY <1>1 DEF StartKid, CleanInv
  <2> QED
    BY <1>1, <2>1 DEF StartKid, NoneReached, TypeOK
<1>2. ASSUME NEW k \in Kid, KidExits(k) PROVE NoneReached'
  BY <1>2 DEF KidExits, NoneReached, TypeOK
<1>3. kids' = kids \/ \E k \in Kid : StartKid(k) \/ KidExits(k)
  <2>1. ~ManagerKills /\ ~ManagerEnds
    BY DEF ManagerKills, ManagerEnds, DoneSeen
  <2> QED
    BY <2>1 DEF Next, CommandStep, RunStep, Write, Exit, Start, StartFails, Manage, Reap,
                Return, Report, Read, Scan, Deadline, KillCommand, ManagerParks
<1> QED
  BY <1>1, <1>2, <1>3 DEF NoneReached

\* When the manager has ended, no process it could reach is left and none comes
\* later, except after a command on Unix that ended by itself or that Run had
\* done with before the manager looked.
THEOREM CleanUp == Spec => CleanedForGood
<1>1. Init => CleanInv
  BY DEF Init, CleanInv, NoneReached
<1>2. TypeOK /\ CleanInv /\ [Next]_vars =>
        [manager' = "ended" =>
          IF manager = "ended" THEN NoneReached => NoneReached'
          ELSE \/ NoneReached'
               \/ /\ platform = "unix"
                  /\ \/ proc \in {"succeeded", "failed"}
                     \/ manager = "spawned" /\ pc \in {"returned", "reported"}]_vars
  <2> SUFFICES ASSUME TypeOK, CleanInv, Next, manager' = "ended"
               PROVE  IF manager = "ended" THEN NoneReached => NoneReached'
                      ELSE \/ NoneReached'
                           \/ /\ platform = "unix"
                              /\ \/ proc \in {"succeeded", "failed"}
                                 \/ manager = "spawned" /\ pc \in {"returned", "reported"}
    OBVIOUS
  <2>1. CASE manager = "ended"
    BY <2>1, NoneComesLater
  <2>2. CASE manager # "ended"
    <3>1. ManagerKills \/ ManagerEnds
      BY <2>2 DEF Next, CommandStep, RunStep, Write, StartKid, KidExits, Exit, Start, StartFails,
                  Manage, Reap, Return, Report, Read, Scan, Deadline, KillCommand, ManagerParks
    <3>2. CASE ManagerKills
      BY <2>2, <3>2, Killed DEF ManagerKills
    <3>3. CASE ManagerEnds /\ platform = "windows"
      BY <2>2, <3>3, Killed DEF ManagerEnds
    <3>4. CASE ManagerEnds /\ platform # "windows"
      BY <2>2, <3>4, ExecutorAssumption DEF ManagerEnds, DoneSeen, CleanInv, TypeOK
    <3> QED
      BY <3>1, <3>2, <3>3, <3>4
  <2> QED
    BY <2>1, <2>2
<1> QED
  BY <1>1, <1>2, CleanStep, TypeSafety, PTL DEF Spec, CleanedForGood

=============================================================================
