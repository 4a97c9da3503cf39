------------------------------ MODULE Executor ------------------------------
(***************************************************************************)
(* One command run by a worker: Executor.Run of internal/execution with    *)
(* the goroutines around it, and the part of executeJob that calls it.     *)
(*                                                                         *)
(* Run starts a scanner per output stream, starts the command, hands it to *)
(* manageProcess and waits.  Four goroutines and the command itself then   *)
(* race: os/exec kills the command when the context ends, the manager      *)
(* kills the whole process group (Unix) or closes the job object           *)
(* (Windows), Wait closes the pipes the scanners are reading, and the      *)
(* manager is told through "done" that Run is over.  Lines are numbered    *)
(* per stream.                                                             *)
(***************************************************************************)
EXTENDS Integers, Sequences

CONSTANTS
  Platforms,  \* of "unix" and "windows": where the worker may run
  Kid,        \* processes the command can start
  PipeCap,    \* lines a pipe holds before a writer blocks
  LogLimit,   \* lines kept: 2000 in NewExecutor
  MaxLines    \* bound on the lines written to a stream

ASSUME ExecutorAssumption ==
  /\ Platforms \subseteq {"unix", "windows"}
  /\ PipeCap \in Nat \ {0} /\ LogLimit \in Nat /\ MaxLines \in Nat

VARIABLES
  platform,  \* where this worker runs
  pc,        \* where Run stands
  proc,      \* the command's process
  jobbed,    \* the command was assigned to the job object
  kids,      \* processes the command started: reached by the group or job, or not
  stream,    \* per stream: lines written, read by the scanner, added to the logs,
             \* the first line beyond the scanner's 64 KiB, and whether it gave up
  logs,      \* the lines kept so far, with the mark that follows the last
  ctx,       \* the context: live, past its deadline, or cancelled by executeJob
  manager,   \* the goroutine of manageProcess: spawned, parked in its select, woken
             \* there by the context ("kill") or by "done" ("end"), or ended
  result     \* what Run returned

vars == <<platform, pc, proc, jobbed, kids, stream, logs, ctx, manager, result>>

-----------------------------------------------------------------------------

Stream == {"stdout", "stderr"}
Line == [stream : Stream, line : 1..MaxLines]
Truncated == [stream |-> "none"]   \* the line "... [logs truncated]"
NoResult == [exit |-> "none"]

PC == {"starting", "started", "waiting", "reaped", "returned", "reported"}

Init ==
  /\ platform \in Platforms
  /\ pc = "starting" /\ proc = "none" /\ jobbed = FALSE
  /\ kids = [k \in Kid |-> "none"]
  /\ stream = [s \in Stream |-> [written |-> 0, read |-> 0, added |-> 0,
                                 long |-> 0, gaveUp |-> FALSE]]
  /\ logs = <<>> /\ ctx = "live" /\ manager = "none" /\ result = NoResult

Alive == proc = "alive" \/ \E k \in Kid : kids[k] \in {"reached", "free"}

\* Mutant: kill(pid) for kill(-pid).
KillLeader ==
  /\ proc' = IF proc = "alive" /\ (platform = "unix" \/ jobbed) THEN "killed" ELSE proc
  /\ UNCHANGED kids

\* What the manager's signal reaches dies.
KillReached ==
  /\ proc' = IF proc = "alive" /\ (platform = "unix" \/ jobbed) THEN "killed" ELSE proc
  /\ kids' = [k \in Kid |-> IF kids[k] = "reached" THEN "dead" ELSE kids[k]]

-----------------------------------------------------------------------------
(* The command: it prints, starts processes and exits as it likes.          *)

\* A line is written while the pipe has room; once Wait has closed the pipe
\* there is nobody to write to.
Write(s, long) ==
  /\ Alive /\ pc \in {"started", "waiting"}
  /\ stream[s].written < MaxLines
  /\ stream[s].written - stream[s].read < PipeCap
  /\ stream' = [stream EXCEPT ![s].written = @ + 1,
                              ![s].long = IF long /\ @ = 0 THEN stream[s].written + 1 ELSE @]
  /\ UNCHANGED <<platform, pc, proc, jobbed, kids, logs, ctx, manager, result>>

\* On Unix it joins the process group.  On Windows it joins the job object if
\* its parent is in it by now.
StartKid(k) ==
  /\ proc = "alive" /\ kids[k] = "none"
  /\ kids' = [kids EXCEPT ![k] = IF platform = "unix" \/ jobbed THEN "reached" ELSE "free"]
  /\ UNCHANGED <<platform, pc, proc, jobbed, stream, logs, ctx, manager, result>>

KidExits(k) ==
  /\ kids[k] \in {"reached", "free"}
  /\ kids' = [kids EXCEPT ![k] = "dead"]
  /\ UNCHANGED <<platform, pc, proc, jobbed, stream, logs, ctx, manager, result>>

Exit(how) ==
  /\ proc = "alive"
  /\ proc' = how
  /\ UNCHANGED <<platform, pc, jobbed, kids, stream, logs, ctx, manager, result>>

-----------------------------------------------------------------------------
(* The scanners.                                                            *)

\* The scanner has used up what it has and reads what the pipe has.
Read(s) ==
  /\ pc \in {"started", "waiting"}
  /\ ~stream[s].gaveUp /\ stream[s].added = stream[s].read
  /\ \E n \in stream[s].read + 1 .. stream[s].written : stream' = [stream EXCEPT ![s].read = n]
  /\ UNCHANGED <<platform, pc, proc, jobbed, kids, logs, ctx, manager, result>>

\* Mutant: the oldest line makes room for the newest.
AddedLatest(ls, line) == IF Len(ls) < LogLimit THEN Append(ls, line) ELSE Append(Tail(ls), line)

\* Mutant: the limit is not looked at.
AddedAlways(ls, line) == Append(ls, line)

\* addLog
Added(ls, line) ==
  IF Len(ls) < LogLimit THEN Append(ls, line)
  ELSE IF Len(ls) = LogLimit THEN Append(ls, Truncated) ELSE ls

\* The next line goes to the logs, also when the pipe is closed by now, and
\* when Run has returned.  A line that is too long ends the scanner.
Scan(s) ==
  /\ ~stream[s].gaveUp /\ stream[s].added < stream[s].read
  /\ IF stream[s].added + 1 = stream[s].long
       THEN stream' = [stream EXCEPT ![s].gaveUp = TRUE] /\ UNCHANGED logs
       ELSE /\ stream' = [stream EXCEPT ![s].added = @ + 1]
            /\ logs' = Added(logs, [stream |-> s, line |-> stream[s].added + 1])
  /\ UNCHANGED <<platform, pc, proc, jobbed, kids, ctx, manager, result>>

-----------------------------------------------------------------------------
(* Run.                                                                     *)

Start ==
  /\ pc = "starting" /\ ctx = "live"
  /\ pc' = "started" /\ proc' = "alive"
  /\ UNCHANGED <<platform, jobbed, kids, stream, logs, ctx, manager, result>>

\* The command cannot be started, or the context has ended.
StartFails ==
  /\ pc = "starting"
  /\ pc' = "returned" /\ result' = [exit |-> "error", logs |-> logs]
  /\ UNCHANGED <<platform, proc, jobbed, kids, stream, logs, ctx, manager>>

\* manageProcess.  On Windows the job object may not be created, and the
\* process may not be opened or may be gone.
Manage ==
  /\ pc = "started"
  /\ pc' = "waiting"
  /\ \/ manager' = "spawned" /\ jobbed' = FALSE
     \/ platform = "windows" /\ proc = "alive" /\ manager' = "spawned" /\ jobbed' = TRUE
     \/ platform = "windows" /\ manager' = "none" /\ jobbed' = FALSE
  /\ UNCHANGED <<platform, proc, kids, stream, logs, ctx, result>>

\* Mutant: Run waits for the scanners before it calls Wait.
WaitOverAfterScanners ==
  /\ proc \notin {"none", "alive"}
  /\ \A s \in Stream : stream[s].gaveUp \/ (~Alive /\ stream[s].added = stream[s].written)

\* cmd.Wait does not wait for whoever else holds the pipes.
WaitOver == proc \notin {"none", "alive"}

\* Wait returns and has closed the pipes, read out or not.
Reap ==
  /\ pc = "waiting" /\ WaitOver
  /\ pc' = "reaped"
  /\ UNCHANGED <<platform, proc, jobbed, kids, stream, logs, ctx, manager, result>>

\* The logs of this moment are returned and "done" is closed.
Return ==
  /\ pc = "reaped"
  /\ pc' = "returned" /\ result' = [exit |-> proc, logs |-> logs]
  /\ manager' = IF manager = "parked" THEN "end" ELSE manager
  /\ UNCHANGED <<platform, proc, jobbed, kids, stream, logs, ctx>>

\* executeJob reports and ends the context.
Report ==
  /\ pc = "returned"
  /\ pc' = "reported" /\ ctx' = IF ctx = "live" THEN "cancelled" ELSE ctx
  /\ UNCHANGED <<platform, proc, jobbed, kids, stream, logs, manager, result>>

-----------------------------------------------------------------------------
(* The context and those who wait for it.                                   *)

\* Five minutes, unless the job says otherwise.
Deadline ==
  /\ ctx = "live"
  /\ ctx' = "deadline" /\ manager' = IF manager = "parked" THEN "kill" ELSE manager
  /\ UNCHANGED <<platform, pc, proc, jobbed, kids, stream, logs, result>>

\* exec.CommandContext kills the command, and nothing else.
KillCommand ==
  /\ ctx = "deadline" /\ proc = "alive"
  /\ proc' = "killed"
  /\ UNCHANGED <<platform, pc, jobbed, kids, stream, logs, ctx, manager, result>>

\* The manager's goroutine reaches its select and finds neither ready.
ManagerParks ==
  /\ manager = "spawned" /\ ctx = "live" /\ pc = "waiting"
  /\ manager' = "parked"
  /\ UNCHANGED <<platform, pc, proc, jobbed, kids, stream, logs, ctx, result>>

\* ctx.Done woke it, or was ready when it came.
ManagerKills ==
  /\ manager = "kill" \/ (manager = "spawned" /\ ctx # "live")
  /\ manager' = "ended" /\ KillReached
  /\ UNCHANGED <<platform, pc, jobbed, stream, logs, ctx, result>>

DoneSeen == manager = "end" \/ (manager = "spawned" /\ pc \in {"returned", "reported"})

\* Mutant: the handle of the job object is not closed when all went well.
ManagerEndsLeaking ==
  /\ DoneSeen
  /\ manager' = "ended" /\ UNCHANGED <<proc, kids>>
  /\ UNCHANGED <<platform, pc, jobbed, stream, logs, ctx, result>>

\* "done" woke it, or was ready when it came; when ctx.Done was ready as well,
\* select picks either.  On Windows the job object is closed here too.
ManagerEnds ==
  /\ DoneSeen
  /\ manager' = "ended"
  /\ IF platform = "windows" THEN KillReached ELSE UNCHANGED <<proc, kids>>
  /\ UNCHANGED <<platform, pc, jobbed, stream, logs, ctx, result>>

-----------------------------------------------------------------------------

CommandStep ==
  \/ \E s \in Stream, long \in BOOLEAN : Write(s, long)
  \/ \E k \in Kid : StartKid(k) \/ KidExits(k)
  \/ \E how \in {"succeeded", "failed"} : Exit(how)

RunStep == Start \/ StartFails \/ Manage \/ Reap \/ Return \/ Report

Next ==
  \/ CommandStep \/ RunStep
  \/ \E s \in Stream : Read(s) \/ Scan(s)
  \/ Deadline \/ KillCommand \/ ManagerParks \/ ManagerKills \/ ManagerEnds

Spec == Init /\ [][Next]_vars

\* The runtime runs every goroutine and timers fire; the command may do
\* nothing for ever.
Fairness ==
  /\ WF_vars(RunStep) /\ WF_vars(Deadline) /\ WF_vars(KillCommand)
  /\ WF_vars(ManagerParks \/ ManagerKills \/ ManagerEnds)
  /\ \A s \in Stream : WF_vars(Read(s) \/ Scan(s))

FairSpec == Spec /\ Fairness

-----------------------------------------------------------------------------
(* Properties.                                                              *)

Entry == Line \cup {Truncated}

Scanned ==
  [written : 0..MaxLines, read : 0..MaxLines, added : 0..MaxLines, long : 0..MaxLines,
   gaveUp : BOOLEAN]

\* Every variable stays in its type; in particular the logs never grow beyond
\* the limit and its mark.
TypeOK ==
  /\ platform \in Platforms /\ pc \in PC
  /\ proc \in {"none", "alive", "succeeded", "failed", "killed"}
  /\ jobbed \in BOOLEAN
  /\ kids \in [Kid -> {"none", "reached", "free", "dead"}]
  /\ stream \in [Stream -> Scanned]
  /\ \A s \in Stream : LET t == stream[s] IN
       t.added <= t.read /\ t.read <= t.written /\ t.long <= t.written
  /\ logs \in Seq(Entry) /\ Len(logs) <= LogLimit + 1
  /\ ctx \in {"live", "deadline", "cancelled"}
  /\ manager \in {"none", "spawned", "parked", "kill", "end", "ended"}
  /\ result # NoResult =>
       result.exit \in {"error", "succeeded", "failed", "killed"} /\ result.logs \in Seq(Entry)

\* Before a line stand exactly the earlier lines of its stream, and the mark
\* stands at the limit and nowhere else.
NoGaps(ls) ==
  \A i \in DOMAIN ls :
    /\ ls[i] = Truncated <=> i = LogLimit + 1
    /\ ls[i] # Truncated => \A n \in 1..ls[i].line :
         n < ls[i].line <=> \E j \in 1..i - 1 : ls[j] = [stream |-> ls[i].stream, line |-> n]

\* The logs Run returns have no gaps: of either stream they hold the first
\* lines in their order, and lines are missing in silence only at the end;
\* whatever the scanners do at the time, and although both share the limit.
\* (Lines are whole here; the last one of a pipe that is closed may be cut off.)
LogsHaveNoGaps == result # NoResult => NoGaps(result.logs)

NoneReached == \A k \in Kid : kids[k] # "reached"

\* A manager that has woken up or been overtaken leaves no process of the
\* command within its reach, unless, on Unix, the command had ended by itself
\* or Run had returned before the manager's select; and none that could come
\* within its reach is started after it.
CleanedForGood ==
  [][ manager' = "ended" =>
        IF manager = "ended" THEN NoneReached => NoneReached'
        ELSE \/ NoneReached'
             \/ /\ platform = "unix"
                /\ \/ proc \in {"succeeded", "failed"}
                   \/ manager = "spawned" /\ pc \in {"returned", "reported"} ]_vars

\* Run returns, whatever the command does: also when a line of more than
\* 64 KiB has ended the scanner and the command blocks on a full pipe, or when
\* a process it started keeps the pipes open.
Returns == <>(pc = "reported")

\* On Windows nothing that is in the job object survives the run for long,
\* whether it ended by itself or at the deadline.
JobEmptied ==
  platform = "windows" /\ pc = "waiting" ~> \A k \in Kid : kids[k] # "reached"

\* On Unix, once the manager waits in its select, a command that does not exit
\* by itself takes its whole process group with it.
GroupKilled ==
  platform = "unix" /\ manager = "parked"
    ~> result.exit \in {"succeeded", "failed"} \/ \A k \in Kid : kids[k] # "reached"
=============================================================================
