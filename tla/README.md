# ForgeGrid: specifications, model checking and proofs

ForgeGrid is a small build grid written in Go. A *coordinator* keeps jobs in
JSON files and hands them to *workers*, which poll for them over HTTP. Beside it
the repository holds *AgentBridge*, a relay for messages between agents, and
the *bootstrap* tools that bring an agent's configuration to a new machine. The
programs are short. What is hard in them is state spread over several files that
are saved one after the other, processes that die between two of those files,
requests that are lost or late, and goroutines and processes that share files.

## 1. Inventory

| part | state | operations | hard behaviour |
|---|---|---|---|
| coordinator handlers (`internal/coordinator`) | `Store` | code generation, pairing, heartbeat, test jobs, job list, cancel, status update, manifest; the `checkWorkerStatus` loop | one lock per request, but every error of `Save` is ignored; the rules for who owns a job |
| store (`internal/store`, `internal/models`) | three maps in memory, three files | `load`, `Save` | `Save` renames three files one by one |
| director (`internal/director`) | none | `SubmitManifest` | returns half way, with the first jobs already in memory |
| worker (`internal/worker`, worker mode of `main.go`) | credentials file, `activeJobs`, goroutines | `LoadCreds`, `Pair`, `ResetCredentials`, `pollJobs`, `executeJob`, `updateJobStatus`, heartbeats | the code is spent before the credentials are saved; all workers of a user share one file; check and insertion in `activeJobs` are apart; errors and answers are ignored |
| executor (`internal/execution`) | pipes, process group or job object of one command | `Run`, `manageProcess` | scanners race with `Wait`; deadline and end of the command race for the manager's `select` |
| manifest parser, UI | none | decode, serve files | none |
| TLS (`internal/network`) | certificate, pin | generate, pin | the certificate must be durable before anybody pins it |
| AgentBridge store and server (`internal/agentbridge`) | agents, messages, two files, failed logins | send, inbox, acknowledge, complete, fail, status; `authenticate`, `cleanupLoop` | memory keeps a change whose save failed; repeats of a send; logins are counted under two locks |
| AgentBridge command line | the same files, key files | `serve`, `register`, `configure-client`, `rotate-tls` | `register` is a second process on the same files; certificate and key are two files, written one after the other |
| bootstrap bundles (`bootstrap.go`, `bootstrap-crypto/main.go`) | replay store, bundle, `agentclient.json` | generate, decrypt-and-apply, reserve, commit, release | the lock is free between reserve and commit; a child writes the configuration |
| secure files, locks, DPAPI | temporary file, lock file | `writeSecureConfig`, `lockFile` | a temporary file that outlives its writer |

Interaction. Workers call the coordinator's handlers over HTTPS; the handlers,
the director and the status loop share `Store` under one mutex. Agents call the
relay's handlers, `register` shares only its files. `bootstrap-crypto` shares
the replay file (under an advisory lock) with other instances of itself, and
starts `agentbridge configure-client`, which shares `agentclient.json.tmp`
with other instances of *it* (under no lock).

What makes the parts correct:

- *Coordinator and store*: no file ever refers to what another file does not have;
  a pairing code admits one worker; wrong codes are bounded across restarts;
  what was answered is durable; the certificate a worker pinned is served
  for good; a job's owner never changes, and its result is the owner's.
- *Pairing*: credentials in memory or in a file are honoured for ever; a worker that
  serves can be restarted without a code; no failure leaves a machine that cannot join.
- *Grid*: without failures every job ends; an owned job that has ended never
  runs again, whatever is lost, late or restarted; a job has one owner at most.
- *Executor*: `Run` returns whatever the command does; its logs have no gaps;
  no process of a killed command is left over.
- *Relay*: a repeated send makes no second message; a message that was saved is not lost; an end that was confirmed
  is the only one and is durable; a printed token is accepted.
- *Access to the relay*: failed logins are bounded although requests run in
  parallel; nobody is refused for ever; a printed fingerprint stays.
- *Bootstrap*: a bundle is applied once as long as the replay store is not lost, never spent
  without its configuration in place, and, tried again, applied in the end unless it expires.

## 2. Modules

| module | models | variables and the state they stand for |
|---|---|---|
| `Coordinator` | handlers, store, director | `cfg`, `workers`, `jobs`: the maps in memory; `disk`: the three files; `up`: the process runs; `drawn`: random values used so far; `now`; `seen`: ghost, what clients were answered |
| `Grid` | `EXTENDS Coordinator` with the worker processes and the network | `polled`: the rest of a poll's answer; `active`: `activeJobs`; `execs`: the `executeJob` goroutines and where they are; `net`: updates under way; `wup`; `minted` |
| `Enlist` | `EXTENDS Coordinator` with the worker processes up to and after pairing, and the credentials file of each host | `proc`: where each process stands, its flags or identity, and the file it has open; `creds`, `tmp`: `worker_creds.json` and its temporary file; `stray`: pairing requests whose sender is gone; `mishaps`: failures so far |
| `JobLifecycle` | the abstract specification of a job | `life`: where a job stands and who owns it; `kept`: jobs a client was told about |
| `Executor` | `Executor.Run`, `manageProcess` on Unix and Windows, the part of `executeJob` around them | `pc`: where `Run` stands; `stream`: what is written, read and logged; `logs`, `result`; `ctx`; `manager`: the goroutine of `manageProcess`; `proc`, `kids`, `jobbed`: processes |
| `Relay` | AgentBridge store, server, `serve`, `register` | `agents`, `messages`, `disk`, `cli`: the store of a `register` process; `seen` |
| `Mailbox` | the abstract specification of the relay's messages | `mail`: each message absent, open, ended or lost; `stored`: what is never lost; `answers`: the ends recipients were told |
| `Access` | key files and fingerprint (`getTLSKeys`, `rotate-tls`, `configure-client`, `PinTLSConfig`), `authenticate`, `cleanupLoop` | `files`, `relay`, `printed`; `cfg`: `agentclient.json`; `rate`, `left`: the two maps; `flying`: requests between the two locks; `others`: the rest of the table |
| `Bootstrap` | `decrypt-and-apply`, the replay store, `configure-client` | `store`: the replay file; `apply`: program counters of the processes; `child`: of their children; `tmp`, `config`, `present`: files; `expired`; ghosts `installed`, `successes`, `wipes` |
| `CoordinatorProofs`, `CoordinatorDurability` | theorems about `Coordinator` | |
| `GridProofs`, `EnlistProofs` | theorems about `Grid` and `Enlist` | |
| `ExecutorProofs`, `RelayProofs`, `AccessProofs`, `BootstrapProofs` | theorems about the module of that name | |
| `MC*` | instances for TLC, symmetry sets (`Executor` and `Access` need none) | |

A map in Go is a function whose DOMAIN is the set of keys present. A request
that holds the mutex from its first read to the end of `Save` is one action. Its
outcome is one of three (`Commit`, `Save`): every file is written and the
client answered; the save fails after a prefix of the files (`"saveError"`); the
process dies after a prefix (`"crash"`), memory is gone and nobody is answered.
The coordinator answers success after a failed save because no handler looks
at the error; the relay answers 500. After a crash `Restart` and `Serve` load
whatever mixture of files there is.

In `Grid`, `updateJobStatus` is split where the code waits: the update is put
on `net`, `Deliver` runs the whole handler of `Coordinator` on it, and the
goroutine goes on when its update has left `net` or, with `"timeout"`, at any
time. In `Bootstrap` one call of `update` (lock, load, change, save, unlock) is
one action, with separate actions for the outcomes in which unlocking fails
after the save was made. Its error has three outcomes in the files: the store as it was
(`NotSaved`), saved all the same, or gone (`RemovedBySave`: on Windows the last check of
`writeSecureBlob` deletes the file it refuses, and a missing file is an empty store). Between an
error after `Reserve` and the deferred `Release` the lock is free, so they are two actions.

`Grid` begins when pairing is over; `Enlist` is the part before it, and the file that
outlives a process. A pairing request is two steps: it is sent (`Connect`, which
compares the certificate with the pin), and the coordinator's `Pair` handles it together with what
its answer does to the process (`Answered`), unless the sender is gone
(`StrayHandled`). `Carry` says what a step of the coordinator does to the hosts, also
when it dies in the middle. Saving is three steps, because other processes see them: open
with truncation, write, rename. A file keeps the inode a process has open when it is
renamed, so a late write can land in `worker_creds.json` itself (`fd`, `Renamed`).

`Grid` instantiates `JobLifecycle` with a refinement mapping (`Lifecycle`): the
abstract life of a job is read off the jobs in memory while the coordinator
serves, and off `jobs.json` while it does not (`Board`, `Phase`, `View`). A step
of the coordinator that dies inside `Save` is then a step of the life, or
loses jobs nobody was told about, or is a stutter.

`Relay` instantiates `Mailbox` (`Mail`) in the same way: a message is what the
relay's memory says while it serves and what `messages.json` says while it is
stopped (`Board`, `Envelope`, `View`), a message that was drawn and is in neither
is lost, and the answers are the pairs in the ghost `seen` (`Answers`). The mailbox
knows no tokens, clock or files. Its step `Forget` is all that trouble may do: open an ended message
again, or lose one, but none whose end was answered or that is stored.

In `Executor` every goroutine of a run is a set of actions. What the code leaves
to the runtime is a choice: how much of a pipe a scanner reads at once, whether
the manager is already in its `select` when the command ends, and which of two
ready channels that `select` takes. In `Access` a request is two steps, because `authenticate` gives up
its lock between reading the count and raising it.

Each module that names a `Faults` or `NetFaults` constant takes from it the
failures that may happen, so one specification serves the runs with and
without them.

Abstractions: message bodies, log lines (except whether they exceed the size of a
request), names, timestamps nobody compares, hardware figures, signatures and
ciphers are left out. `now` counts units of the timeouts. Random values
are fresh by `drawn`, that is, collisions of 128-bit values are left out, but
those of six-digit pairing codes are not (`Code` is a small set and a code can be
drawn twice; the ghost `issue` tells two draws apart).

## 3. Runs

| run | bounds | shows |
|---|---|---|
| `pairing` | `Enlist`: 2 processes on 1 host, 3 workers, 2 codes, 4 draws, 2 certificates, no tolerated wrong code, any 3 failures of hosts and coordinator | `CredsHonoured`, `CodeSingleUse`, `GuessBound`, `DurableAnswers`, `PinnedCertificate`, `TypeOK`, `EnlistTypeOK` |
| `enlist_live` | `Enlist`: 1 process, 1 code, clock to 1 (codes expire), any 2 crashes, kills or timeouts, any number of failed saves | `Enlists`, `ServingSaved` |
| `jobs` | `Coordinator` and any client that reports one of a worker's statuses, with a result or without: 1 worker, 1 job, 2 attempts, 2 tasks, clock to 1, 1 certificate, crashes and failed saves | `RefInt`, `ResultFromOwner`, `AttemptStable` |
| `grid_faults` | 1 worker process, 1 job, 2 attempts, 2 tasks, losses, client timeouts, crashes on both sides | `OwnedEndIsFinal`, `JobsRefine`, `GridTypeOK` |
| `grid_live` | 1 worker, 1 job, 3 attempts, no failures | `JobsEnd`, `RunningAttended` |
| `relay` | 2 agents, 2 messages, 1 key, clock to 1, crashes and failed saves | `KeysUnique`, `SentDurable`, `ConfirmedEndDurable`, `HandledOnce`, `PrintedTokenAccepted`, `MailRefines`, `TypeOK` |
| `bootstrap` | 3 processes, 1 bundle, stale after 2 units, expires at any time or never, any 3 failures, stalls and losses of the store among them | `OneSuccess`, `NothingLost`, `ConsumedForGood`, `BundleApplied`, `TypeOK` |
| `executor` | both platforms, 1 started process, 2 lines per stream, pipes of 1 line, 2 lines kept | `LogsHaveNoGaps`, `CleanedForGood`, `Returns`, `JobEmptied`, `GroupKilled`, `TypeOK` |
| `access` | 2 agents, 1 tolerated failure, 2 parallel requests, tables of 1 and 2 entries, any 3 crashes, rotations or wrong tokens | `FailuresBounded`, `FingerprintStays`, `AgentGetsThrough`, `TypeOK` |
| `cancel`, `large_logs`, `disconnect` | the smallest instance that shows it | section 4 |

Why the bounds are enough. Two of a kind are what the properties compare: two
workers for one code, two attempts for one job, two messages for one key, two
processes for one file. Jobs do not influence each other in the handlers, so
one is enough beside the proofs for any number; `grid_live` has three attempts
because two goroutines can race and a third can start after the deferred
delete. Prefixes of saves have at most three files and all are tried. The clock
passes every timeout at least once. `MaxFailures` is 5 in the code; the
comparison, both resets and the overrun by one already occur at 0 and 1, and the
theorem is for any value. The sizes `MaxIssue`, `MaxCert`, `MaxToken`,
`MaxFaults`, `MaxUpsets`, `MaxLines` and `MaxNow` bound how often something is drawn,
fails, is written or ticks; they appear as guards and in no property except as ranges.
In `executor` a pipe of one line is full while the command still writes, both
streams together exceed the limit, and a line may be too long at either place; in
`access` the limits 10, 10000 and 20000 of the code become 1, 1 and 2, so that
both ways of clearing the tables happen with two agents.

In `enlist_live` every worker id, code and certificate beyond the first costs a failure or a tick of the
clock (a crash two codes at most), so that the supplies of fresh ones do not run out
before the process has joined. Two processes are what the shared file of a host needs; hosts share
nothing but the coordinator. Three processes on one bundle are a chain of two takeovers; with two
bundles the assumed operator could go on trying the one that is spent.

Deadlock is not checked: the clock and the supplies of fresh ids are bounded,
so every instance stops somewhere.

### Fairness

- `FairGridSpec`: `jobLoop` and the goroutines never stop by themselves (weak
  fairness of `PollStep` and `ExecStep`), a request that reached a serving
  coordinator is handled (of `Deliver` or `Refuse` of some request: the set of
  attempts is finite, so none is passed over for ever), processes are restarted, the
  clock and `checkWorkerStatus` go on. Nothing is assumed of operators (tests,
  manifests, cancellations), of losses or of crashes.
- `FairEnlistSpec`: a coordinator that is down is started, a code is generated when there
  is none that can be used, and a worker that is down is started, with a good code and the fingerprint
  the coordinator shows if it has no credentials (the operator's part, which the messages of
  `main.go` ask for); processes run, and requests of processes that wait are answered. A
  worker whose heartbeats fail on the certificate is stopped, and one that was turned away is reset with
  `--reset-worker`, as its message asks: strong fairness, because the operator may first start it
  again and again. Crashes, kills, timeouts, wrong flags and needless codes are bounded by
  `MaxMishaps`; saves may fail for ever.
- `FairSpec` of `Bootstrap`: processes run, reservations age while no process holds one (a
  process works for seconds, a reservation gets stale after 15 minutes; `Stall` is the
  exception and counts as a failure), an operator who sees an error tries the bundle
  again, and deletes an `agentclient.json.tmp` that nobody writes. In the end the operator starts no
  run before the others have ended (`OneAtATime`); safety is checked and proved for any
  number at once. Nothing is assumed of the expiry of a bundle.
- `FairSpec` of `Executor`: the runtime runs `Run`, the scanners and the manager,
  and timers fire. Nothing is assumed of the command: it need not print, exit or
  end what it started.
- `FairSpec` of `Access`: the relay is started when it is down, its keys are rotated
  when it does not start and it is restarted after a rotation (the operator's part, which the
  warnings of `rotate-tls` ask for); agents are given the printed fingerprint and their
  token in the end and request the inbox again and again, as running `agentbridge-poll.ps1` repeatedly does; requests are
  answered. No crash, wrong token, overflow or sweep is assumed or excluded.

## 4. What the runs found

- **`cancel`** (`CancelIsFinal`): the handler stores any status over any
  other, and a worker is never shown its cancelled jobs (`handleListJobs` returns
  pending ones), so the command runs on and its report replaces `cancelled`.
- **`large_logs`** (`JobsEnd`): a command with more than 64 KiB of kept output makes a final
  update that `handleJobAction` cannot read; the job stays `running` for ever
  although nothing failed.
- **`disconnect`** (`OrphansSettled`): ACCEPTANCE_TESTS.md:20 expects that the job of a worker
  that disconnects is failed or retried. `checkWorkerStatus` marks the worker offline and touches no
  job, and a worker that comes back is offered pending jobs only, so the job stays `running` for ever.

Seen while modelling, with no run of their own because one schedule shows each:

- A test job that is reported `completed` without a result is stored as completed and its
  challenge is not looked at (handlers.go:322-323). No worker sends that, and no property is
  stated of the challenge.
- `AttemptID` is set only by a `running` update that finds the job pending, so a job whose
  claim was lost ends without an owner, and another attempt may write its result again (a
  `Stray` job of `JobLifecycle`; handlers.go:315).
- `min_ram_gb` and `min_cores` of a task are compared with nothing (ACCEPTANCE_TESTS.md:16).
- `Pair` drops the errors of `os.WriteFile` and `os.Rename` (worker.go:240), reports success and
  serves, so that a worker whose file could not be written needs a new code after a restart
  (with `"diskFull"` in `HostFaults` `ServingSaved` fails). Two workers of one user have the same
  effect without any failure, because they share the file and the last rename wins;
  `ServingSaved` is stated of one per host, `CredsHonoured` of any number.
- A send whose save failed is answered from memory when it is repeated, as if it were stored,
  and a restart forgets the message (store.go:125). `SentDurable` and `KeysUnique` say what is
  guaranteed.
- A save of the replay store that fails in its last check on Windows deletes the file, the
  consumed entries of all bundles with it (acl_windows.go:229 of `bootstrap-crypto`). The tests
  expect them to last ("Consumed IDs survive restart", main_test.go:117), which they do when no
  save fails. A process that still has the bundle can apply it once more; `OneSuccess` and
  `ConsumedForGood` count such losses.
- The bundles of the tests are valid for 5 or 15 minutes (main_test.go:265, bootstrap_test.go:80).
  When a process dies after `Reserve` such a bundle has expired before the reservation can be
  taken over, and another one must be issued; `BundleApplied` excepts expired bundles.
- `Release` does not ask who made the reservation it deletes (main.go:369), which harms no safety
  property of `Bootstrap`. But two processes that retry for ever may keep deleting each other's
  reservations, since every error is followed by a `Release` (without `OneAtATime` `BundleApplied`
  fails).
- `configure-client`, killed while `agentclient.json.tmp` exists, makes every later attempt fail on
  that file until somebody deletes it (without fairness of `RemoveLeftover` `BundleApplied` fails).
- A process started on Windows before `AssignProcessToJobObject`, or by a command that exits
  by itself on Unix, survives the run (`free` in `Executor`), which is why `JobEmptied` and
  `GroupKilled` are stated as they are.
- `PrintedTokenAccepted` needs the documented order, register first and serve then; with
`"overlap"` in `Faults` it fails.

## 5. Proofs

Eight modules hold the theorems. All hold for every value of the constants that
satisfies the module's named assumption; the sets may be infinite, and
every fault may happen at any time unless a theorem excludes it in its
statement.

### Coordinator

`CoordinatorProofs` (from `ConstantsAssumption`):

- `TypeSafety` (`TypeOK`). `TypeOK` is not inductive: pairing stores the number
  of the current code in the worker, so `TypeInv` adds that a code that is set,
  in memory or in its file, has a number (`Numbered`). `CommitType` says once
  what saving does to the types, wherever it stops; every action then needs only
  that what it computes is well typed.
- `StoreCoherent` (`StoreInv`), the invariant behind the others. `RefInt` and
  `CodeSingleUse` each speak of memory and of files, and neither is inductive: what
  a crash leaves is a mixture of old and new files. `StoreInv` says that
  memory and files are coherent, each for itself (`Coherent`), that no id or code
  number is in them before it is drawn (`Within`), and that memory knows every
  worker and every owner the files know (`WorkersKept`, `AttemptsKept`). `CommitStore` shows that every prefix of a save keeps it,
  because `coordinator.json` is written before `workers.json` and that before
  `jobs.json`: a spent code before the worker it admitted, a worker before
  its jobs. Swapping two files in `Saved` breaks it, as two mutants show.
- `ReferentialIntegrity` (`RefInt`) and `SingleUse` (`CodeSingleUse`) follow
  from it; `AttemptOwnership` (`AttemptStable`) from the step lemma `StoreStep`,
  which shows beside the invariant that no step loses or changes an owner.

Its second part is about the jobs alone. It first sorts the steps by what they do to them (`JobStep`:
make, draft, change one, keep, load, lose; the `...Shape` lemmas), so that what follows has one case per
kind instead of one per handler. `OwnerWroteResult` (`ResultFromOwner`) rests on
`ResultInv`: the same for memory and for the file, and that a pending job has neither owner nor result.

`CoordinatorDurability` assumes `"saveError" \notin Faults` in each theorem: no
handler looks at the error of `Save`, and with failed saves the statements are
false. `Durable` is the invariant (`DurableInv`): the file of jobs holds what
memory holds except for drafts of refused manifests (`Drafted`), it has every
job and owner a client was told about (`Acks`), and the same of the configuration
and the workers. `AnswersDurable`, `CertificatePinned` and `GuessesBounded` follow.
The runs that check these properties allow crashes inside every save.

### Grid

`GridProofs` shows that a step of the grid is a step of the coordinator or leaves
it alone (`Projection`), so all the above holds beside any workers and network
(`GridTyped`), and `GridTypeSafety` (`GridTypeOK`). The grid starts with its workers paired (`PairedState`), not
where `Coordinator` does, so the coordinator's invariants have to hold there too
(`PairedKept`); their step lemmas then carry over by `Projection`. This gives `GridKeepsJobs` (the
facts `RefInt`, `ResultFromOwner` and `AttemptStable` of `Coordinator`) and,
under `"saveError" \notin Faults`, `GridAnswersDurable` (`DurableAnswers`, `PinnedCertificate`).
Its second part is about jobs:

- `EndIsFinal` (`OwnedEndIsFinal`), also with failed saves. The coordinator alone
  would let `running` follow `completed` of the same attempt. `FinalInv` says
  why that does not happen: an attempt announces itself once, before all else (`Sent`), every
  owner, in memory and in the file, is an attempt whose `running` is no
  longer under way (`OwnedBy(_, Announced)`), and the file is never further than
  memory. What an owner still sends therefore ends its job.
- `Refinement` (`JobsRefine`), under `"saveError" \notin Faults`: from
  `RefineInv`, which joins `FinalInv` (an end is final), `ResultInv` (pending jobs are unowned)
  and `JobsDurable` (a crash takes back only what nobody was told). Initial
  states map to initial states (`RefineInit`) and every step to a step or a stutter.
- `NoneUnattended` (`RunningAttended`), for `"crash" \notin Faults` and `NetFaults = {}`, which
  is what `JobsEnd` is about: a job that runs has a goroutine that will still report
  its end, and the report will be accepted. It is the part of `JobsEnd` that is not about fairness.
  With a lost update, a crash or a report that is too large (`"largeLogs"` of `NetFaults`) it is false, as
  `large_logs` shows. `AttendInv` adds that a goroutine waits for each update on its way (`Waiting`).
  The hard steps are those where two goroutines race for a job: the conflict
  check refuses one of them, and the owner, which is never the refused one, is the
  goroutine the invariant asks for. Failed saves are allowed.

### Enlist

`EnlistProofs` (from `EnlistAssumption`; any number of hosts and of processes on each):

- `EnlistTypeSafety` (`EnlistTypeOK`), from `HostType`, and
  `HostsImplementCoordinator`: every step is a step of the coordinator or leaves it alone, so that
  the theorems of `Coordinator` hold here and are cited.
- `CredentialsHonoured` (`CredsHonoured`), under `"saveError" \notin Faults`. `CredsInv`
  says that every identity in a process or a file was answered by a coordinator with the
  certificate pinned beside it (`Vouched`), because a request that waits was sent to the
  certificate its process pinned (`PinnedRequests`); `ConfigDurable` of `CoordinatorDurability` says that what was answered is in the files
  for good. Together they give the property, whatever the processes do to each other's files.
- `RestartNeedsNoCode` (`ServingSaved`), also with failed saves, for hosts with one
  process and disks that do not fail (`Solo`). `SoloInv` ties the files of a host to the step its
  process is at (`Fits`): a process that writes has truncated the file, one that has written finds its own text there.

### Relay and access to it

`RelayProofs` (from `RelayAssumption`): `TypeSafety` (`TypeOK`) and `UniqueKeys`
(`KeysUnique`) hold with every fault; `StoreInv` states them of memory,
of the file and of the copy a `register` process holds, any of which may be
written next. `SendsDurable` (`SentDurable`), `EndsDurable`, `NotOfferedAgain` and `TokensAccepted` assume
`"overlap" \notin Faults`, the documented order of `register` and `serve`. Their invariant
`ToldInv` says that `register` holds what the files still say, that the relay's
memory continues the file (its messages are there with the same sender, recipient and key, and one
that has ended has ended alike in memory, `Continues`), and that the file has each confirmed end (`EndsIn`) and each message whose send was answered when it was saved.

`MailboxImplemented` (`MailRefines`), also under `"overlap" \notin Faults`, shows that the relay
implements `Mailbox` whichever saves fail and wherever it dies. By `SaveCases` a
save either leaves the new messages as the abstract ones (`SavedAs`) or the relay has died before
the file was replaced (`Cut`). In the second case `CutForgets` shows, message by message
(`Fades`), that what is left is a `Forget`: memory continues the file, and every answered end
is in it. In the first case a send is a `Post` (`PostStep`; the key is free because `SendNew` found no
`Earlier` message), a report a `Conclude`, a `Repeat`, or for an acknowledgement a `Store` (`MoveStep`). An agent may report on any id,
as in the code: that the message is its own is the guard of `Transition`, and the abstract step asks for none.

`AccessProofs` (from `AccessAssumption`): `TypeSafety` (`TypeOK`), whose last part ties the
two maps to each other; `Bounded` (`FailuresBounded`) from `BoundInv`, which counts
every request between the two locks as a failure to come, whatever its
token; `PrintedStays` (`FingerprintStays`) from `PrintedInv`: what was printed is
what `cert.pem` holds, and both files exist, so that `serve` keeps them.

### Executor

`ExecutorProofs` (from `ExecutorAssumption`; either platform, any number of started processes, any limits):

- `TypeSafety` (`TypeOK`), which also bounds the logs by the limit and the mark.
- `GapFree` (`LogsHaveNoGaps`). `LogInv` states the property of the logs as they grow,
  because `Run` returns them at any moment. It is not inductive without two facts about the
  scanners: no logged line is beyond what its scanner has added (`Bounded`), and below the limit none that
  was added is missing (`Complete`); so the next line of a stream is the one that has to come.
- `CleanUp` (`CleanedForGood`). `CleanInv` ties the manager to the command and to the context:
  a manager that was woken by the end of the command has seen one that ended by itself, one that has
  ended leaves nobody who could start a process within its reach, and on Windows a process
  is within reach only inside the job object.

### Bootstrap

`BootstrapProofs` holds for all values of the constants that satisfy
`BootstrapAssumption`: any number of processes, bundles and failures, and any
delay between two steps.

- `TypeSafety` (`TypeOK`): made inductive by the fact that a busy process has a
  bundle (`TypeInv`).
- `Safety` (`SafeInv`), the invariant behind the rest. `NothingLost` alone is
  not inductive: the check of `agentclient.json` is made in `Verify` and relied
  on in `Commit` and `Cleanup`, with the lock free in between. `SafeInv` says what a
  process at these steps still knows: its bundle has been installed, and after
  `Commit` it has been committed, even if the store has been lost since. It also counts: a bundle
  has at most one success more than the store has been lost, and then its entry is consumed.
- `AppliedOnce` (`OneSuccess`), `NeverSpentUnapplied` (`NothingLost`) and
  `SpentForGood` (`ConsumedForGood`) follow. Most steps fall under `KeptSafe`: they change nothing
  the invariant is about but lose all consumed entries at once and add one to `wipes` (`StoreKept`).
  The missing owner check in `Release` and `Commit` does no harm: only the step from reserved to
  consumed is a success, and no function handed to `update` changes a consumed entry.

### Only model-checked

Liveness (`JobsEnd`, `BundleApplied`, `Returns`, `JobEmptied`, `GroupKilled`,
`AgentGetsThrough`, `Enlists`): temporal reasoning under fairness is out of the prover's reach. Every
invariant and action property the runs check is proved.

## 6. Not modelled

- Manifest parser, UI, the parsing of flags, scripts, DPAPI, access control lists: no state
  that several steps share, or single calls into the operating system.
- Profiles and workspace paths: pure functions of their input; a profile or path
  that is refused is the outcome `failed` of an execution.
- `-insecure`, which pins nothing; the hardware figures a worker sends; the URL and name kept
  with the credentials.
- `cancelJob` of the worker: `pollJobs` calls it for jobs offered as cancelled,
  and `handleListJobs` offers pending jobs only, so nothing reaches it; hence an
  execution is never cancelled and the status `cancelled` comes from operators only.
- `serve` and `rotate-tls` that start at the same moment and write the key files
  together; a rotation beside a relay that already serves is modelled.
- The relay's status request, which only reads, and `reset-client`, which deletes one file.
- The time a request takes to arrive: `handleJobAction` reads the body of an update while the store is
  locked and no read timeout is set (handlers.go:305), so a client that stops half way stops the coordinator.
- The last line a scanner logs, which may be cut off when `Wait` closes the pipe (lines are numbers in `Executor`).
- Loss of power: a file that was renamed is taken to be durable. The stores do not
  `fsync`, so a machine, unlike a process, that dies may lose more.
- Cryptography and TLS, taken to do what they promise.

## 7. Plan

Order of the modules: `Coordinator` (the core: everything else talks to
it), `Enlist` and `Grid` on top of it, `Grid` with `JobLifecycle` as its abstract specification, then the
programs beside it, `Relay` with `Mailbox` above it, `Access` and `Bootstrap`, and `Executor` below the worker;
the proofs follow the modules in the same order. Done: these modules, the
twelve runs of section 3 and the proofs of section 5. Left, most important first:

1. `serve` and `rotate-tls` started together, as in `registerCmd` beside `serve`.
2. `SecureWorkspacePath` and the manifest checks as operators against a reference definition.
3. Two workers and two jobs in `Grid`, if the state space allows; the proofs
   cover any number.
4. What the relay promises while `register` overlaps with it: a weaker `Mailbox` that may take back more.
