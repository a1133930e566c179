# TLA+ project of eglk-harness

eglk-harness runs a coding agent in a loop ("tick" after tick) until the goal
of a project is reached.  A kernel decides what counts as reached: it keeps an
event log, derives a projection of the run from it, lets a *maker* claim work, a
*checker* judge it, and a mechanical *Gate* decide.  The kernel is meant to be
right whatever the agents say, and whenever the process dies.  This project
models that kernel.

Paths below are relative to `src/src/eglk_harness/` in the repository copy that
`PROJECT.json` refers to; `PROJECT.json` maps every definition to its lines.

## 1. Inventory

### The parts and how they interact

| part | state | operations | hard behaviour |
|---|---|---|---|
| Event store: lease (`domain/event_store`) | `.write_lease` | acquire and release | several processes; a clock read before the file lock; death between truncate and write |
| Event store: log (`domain/event_store`, exports in `kernel/event_runtime.py`) | `events.db` (sequence, hash chain), exported projections | append, verify, export, compare, replay | contexts that cache an old projection; a power failure that takes events back |
| Command handler and reducer (`kernel/command_handler.py`, `reducer.py`) | the log, and the projection reduced from it: run, node, obligation and transaction status, world revision, repair counts, amendments, token meter | one method per command; each appends one or more events, and the cached projection follows | a command that appends several events is torn by a crash; commits invalidate what others attested |
| Gate (`gate.py`, `repair_counts.py`, `attestation.py`) | none; reads the repair counts | `decide` | order of the checks; the key under which a repair is looked up and counted |
| Scheduler, covers, splits (`scheduler.py`, `covers.py`, `advisors.py`, `governor_split.py`, `coverage_proof.py`) | the task tree in the projection | selection, promotion, split, merge | dependencies on nodes that are split or merged away, repeated splits, closure through derived obligations |
| World transactions (`environment/world_transaction.py`, `kernel/worldref.py`) | the workdir, the snapshot of the open transaction, the idempotency ledger | begin, prepare, apply, observe, commit, rollback, compensate | half-written payloads, replays under one key, files written outside the transaction |
| Recovery (`recovery.py`, `reopen_stranded_in_progress_nodes`) | none | roll back what dangles, reopen stranded nodes | runs after any crash or failed stage |
| Run loop and event context (`run_loop.py`, `event_runtime.py`) | the tick: stage, contract, claim, transaction, evidence | governor, swarm, maker, apply, checker, Gate, finalize, closure | stages that fail or time out with work half done |
| Closure (`closure_evidence.py`, `run_closure_gate`) | none | evidence for the root from old verdicts, closure Gate | declares success on files that may have changed since |
| Delivery (`runtime/`, actors maker and checker) | the deliverables and their staged files, claim, evidence | episodes, recovery of a claim, application, audit | workers with tools write while others judge |
| Memory (`domain/memory`) | staged lessons, records in five directories | staging, the refiner batch, promotion | batches of several goals interleave; moves are two file operations |
| Application loop (`app.py`, `run_engine.py`, `product/manifest.py`) | tick number, last job, manifest | start, publish a tick, wait, finalize | ticks that never answer; a file behind the log |
| Agent processes (`environment/process_group.py`, `local.py`) | tracked process groups, the lock | exec, time out, kill, signals, exit | handlers interrupt anything; an actor outlives its stage |
| Plugins (`domain/plugins`) | packages, `installed.json`, generated configurations | install, uninstall, what a run may reach | lost updates of one file |
| Capability broker, goal compilation, bus, adapters, command line, views, evaluation | none of a run | - | section 7 |

A session of the application loop publishes one tick after the other and waits
for each.  A tick takes the write lease, recovers, checks that the goal has not
been edited, creates the run if there is none, may split a node that was
repaired often or merge two siblings, assembles a contract for the selected
ready node, has the maker claim and apply a transaction, has the checker record
evidence, and asks the Gate.  After an admit the obligations are satisfied and
the transaction committed, and the commit invalidates older attestations on the
files it touched; after a repair or abort it is undone.  When no node is left, a
closure Gate on the root decides on success.  After an ended run the refiner
batch turns staged lessons into memory.  Everything the parts of the kernel tell
each other goes through the log; the lease is what keeps the log to one writer.
Outside the kernel they meet in files: the exported projection, from which the
next session counts on, the workdir, and the directories of memory and plugins.

### What would make each part correct

- Lease: one unexpired holder; a decision is made on the whole log.
- Log: the chain is intact, an export is a log that was there, and a drift is
  found only where one is.
- Gate: admits exactly when nothing is wrong; aborts exactly when something is
  exhausted; does not ask for repairs for ever.
- Transactions: at most one open, settled once; a rollback leaves nothing.
- Attestations: a satisfied obligation's files are as they were attested, and
  the transaction they were attested in stands.
- Tree: an admitted node is closed; one contract at a time; no obligation is
  lost by a split or a merge, and there is always something to do.
- Run: success means closed; an ended run stays ended; every tick ends.
- Closure: takes up admitted verdicts only, and is not stopped by their age.
- Delivery: what is accepted satisfies the boundary at that moment.
- Memory: no lesson is lost, nothing is active that was not judged worth it.
- Sessions: every session ends, tells the truth, and reuses no tick number.
- Agents: die with the harness.  Plugins: what a run may reach is installed.

The hazards, each at its line, are the list `hazards` of `PROJECT.json`.

## 2. Modules

| module | models | extends |
|---|---|---|
| `WriteLease` | the lease file, its lock, processes that tick | |
| `Gate` | `decide()` and the repair-count keys, as operators | |
| `GateRepairs` | rounds of one node through the Gate | `Gate` |
| `RunKernel` | the tick: events, projection, workdir, recovery, closure | `Gate` |
| `TxOutcome` | abstract: what the kernel promises of transactions | |
| `Session` | the application loop, and a tick as a chain of stages | |
| `EventLog` | the log, contexts, exports, drift check, replay | |
| `Closure` | what the closing attests again | |
| `TaskTree` | splits, merges, dependencies, covers over many ticks | |
| `Delivery` | one attempt of maker and checker at a leaf | |
| `Staging`, `Lifecycle` | lessons on their way to memory, records in it | |
| `AgentGroups` | process groups of agents | |
| `Plugins` | commands about plugins | |
| `MCWriteLease`, `MCGateRepairs`, `MCRunKernel`, `MCSession` | symmetry, gate inputs, claims, watch sets, swarm policies for TLC | the above |
| `MCWorkdir` | the eight parts from `EventLog` down, one of them moving | these eight |
| `WriteLeaseProofs`, `GateProofs`, `SessionProofs` | the theorems (section 4) about the module of that name | `WriteLease`, `GateRepairs`, `Session` |
| `RunKernelProofs`, `RunOutcomeProofs` | the theorems about the kernel: types and order; transactions, revisions, ends, attestations | `RunKernel`, `RunKernelProofs` |
| `WorkdirProofs` | the theorems about `Staging`, `Lifecycle` and `Delivery` | these three |
| `HarnessProofs` | the theorems about `EventLog`, `AgentGroups`, `Plugins`, `Closure`, `TaskTree` | these five |
| `PartsProofs` | that the parts' theorems hold in their composition | `MCWorkdir`, `WorkdirProofs`, `HarnessProofs` |

`RunKernel` is the composition of command handler, reducer, scheduler, run
loop, transactions, recovery and closure; the Gate is the same operator
`Decide` in `GateRepairs` and in `RunKernel`.  `RunKernel` implements
`TxOutcome` (the definition `Outcome`).  `Session` looks at the same tick from
outside: of the run it keeps what the application loop reads, and of the tick
the order of its stages and where each can fail.  The eight parts of
`MCWorkdir` share no variable with each other or with the kernel: what one of
them needs of another (a file changed by somebody, an attempt that was rolled
back, a stage that timed out) is a choice of its own.  They are checked in one
run for that reason: the first state chooses a part, and its steps leave the
variables of the others alone.

### WriteLease

An action is one operation on the lease file: `StartAcquire` reads the clock
and queues for the flock, `Lock` gets it, `Reject` raises `WriteLeaseError`,
`Truncate` and `WriteRecord` are the two halves of the rewrite, `Release` is
`release_lease`, whole under the flock.  `release_lease` opens the file in mode
`a+` and reads without seeking, which reads nothing; `ReleaseRead` is that
read.  `Load` and `Append` are the projection cache and the append of
`CommandHandler`, which looks at neither the lease nor an expected sequence.
`Crash` can come anywhere and drops the flock.  `late` is a history variable:
the processes whose lease ran out while they took or held it.  Times are in
units of the lease TTL; `TTL` is the number of units.

### Gate and GateRepairs

The input of `Decide` is a record with what the code's checks read, after the
evidence was reduced to one verdict per obligation; ids are numbers in the
order of the contract, so that "the first open obligation" is the least.  The
checks are nested IFs because the code is a cascade of early returns and their
order is what the properties are about.  `CheckedKey` is the key `decide()`
looks up, `RecordedKey` the key the reducer counts under: they are two
functions in the code too.  `GateRepairs` lets a node go round: a repair puts
it back, and the next round brings the same evidence or other evidence.

### RunKernel

The first group of variables is the projection.  An action that appends one
event applies that event's reducer branch in the same step, and commands that
append several events are several steps, so that a crash comes between any two.
The workdir is a map from files to the tick that wrote them last; a transaction
is named after its tick.  The local state of the tick (`pc`, `cur`, `tx`,
`evidence`, `todo`, `gate`) is lost by `EndTick`, which is also what a crash
does.  Loops of the code over several ids are one step per id, in order
(`todo`, `First`, `Done`).

How far the data is abstracted:

- The root is node 0.  With one root obligation a split *refines* it into two
  derived obligations whose children form a chain; with more it *partitions*
  them among children.  `MAX_SPLIT_DEPTH` is 1 here and 4 in the code.
- The token budget is one bit (`spent`), set by any `QuotaUpdated` when
  `Spending`.
- A claim is a record of side-effect class, idempotency key, files written and
  files only acknowledged.  `compensatable` and `irreversible` claims reach the
  Gate's ceiling check, since acknowledging action kinds pass the broker.
- `EpisodeWrites` are the files the maker writes with its own tools, before the
  snapshot is taken.
- Missing alternatives, integrity violations and boundary gaps are constant
  FALSE here; they are inputs of `GateRepairs`.
- The governor's answer splits the node it was asked about, or nothing.
- `final` marks the tick that is really `finalize_run_closure_workdir`.
- One process runs the ticks.  Ticks may begin after the end of a run, since
  the user may start the program again.

### Session

Variables are the log as the session sees it (`seq`, `status`, `left`,
`stranded`), the exported projection (`file`), and the loop (`pc`, `index`,
`tick`, `job`, `queue`).  A stage that waits for a worker is one step that
appends what the stage charges and records, or fails, before or after
appending; a stage of the event loop is one step of `Program`.  `Fail` ends the
tick without an export, which leaves `file` behind the log; `Over` is the end
of a process, with its memory.  At `stuck` the tick's `begin` has raised, for
the lease is held, and no answer will come: the wait of `_await_job` ends it.
`kept` is a history variable: the highest tick number whose projections were
exported.  `Acquire` is what a tick does once it has the lease: it may settle
what dangles, if the run goes on, and finds an edited goal whatever the status;
a Gate's abort is recorded whatever the status, too.  So a run that was reported
as aborted may be reported as invalid later, and a success as invalid, and
`EndedStaysReported` forbids what is left: going on, a success that was none,
and an abort instead of a success.

### The parts of MCWorkdir

- **EventLog.**  A context caches the log it has reduced (`cache`) and appends
  to the store, which reads the tail inside its transaction.  An export is
  rebuild, write, compare, and perhaps fault; another context may append
  between any two.  `replay` is the command of that name, without lease.
  `PowerLoss` cuts off a tail of the log (`synchronous=NORMAL`) and ends all
  processes; files stay.
- **Closure.**  A verdict has one attestation or none, since only the last
  satisfied verdict matters and its attestations are treated one by one.
  `Attempt` is an attempt at a node as a whole, admitted or rolled back;
  `OutsideChange` is anybody else.
- **TaskTree.**  A node is the path from the root, a command is one step.
  `CommitSplit` partitions or refines as `advisors.py` and
  `governor_split.py` do, `CommitMerge` takes any two siblings that may be
  merged, `CloseTree` is the closure Gate.  What the projection does with the
  events of both is in the same step: `Upserted` is the assignment into the
  dictionary of nodes, by which a second split replaces the children of the
  first.  The order of the obligations a merge takes over from its second
  source is left open.
- **Delivery.**  Contents of a deliverable are reduced to what the checks tell
  apart: absent, empty, bad, good, better, and a JSON object that has, among
  others, a field from which a claim's text is applied (`embed`), and perhaps
  one for its path (`embedPath`).  What is asked of a file depends on its kind
  and on whether there is a `deliverable_hint.json` (`hinted`): without one a
  JSON file need only be there.  An action of a claim has a target, which the
  binding reads, and a destination, which is `payload.path` before the target
  and which the application writes; several actions may name one destination,
  and which is the last one is a choice.  A claim may also be skipped as a
  whole (all its actions read-only, or its key used before).  Makers and
  checkers with tools may change the disk and staged files whenever they are
  asked, and browsers that are left behind flush captures at any time
  (`FlushCapture`).  `Captures` are the screenshots and `.meta.json` files that
  `integrity.py` leaves out of the comparison.  `Acceptable` is what the Gate
  can admit, `before` the disk as the maker left it, and the history variable
  `bound` tells whether the boundary held when the claim was bound.  The
  `payload` of a maker's claim as a whole is dropped by `coerce_document`, so
  that actions are all that is applied.  Left out: JSON that is a list, objects
  with nothing but fields of text, and actions on other files.
- **Staging.**  A file is its name and the ticks whose lessons it carries;
  names compare as strings do (`Before`), which decides what is merged.  There
  are fewer than 1000 ticks: their names have three digits at least, and beyond
  that the order of the names is no longer that of the ticks.  `write_text`
  opens and empties the file first: a crash may leave an empty file, which has
  a name and no lesson.  The batch takes it for staged, the polish skips it,
  and the flush deletes it.  An archive's text is cut off at a length that some
  of its sources may not fit in.  `lost` is the history of both.  Left out: a
  write that a power failure cuts within a character, and a torn line of
  `ticks.jsonl`, which is appended in one write.
- **Lifecycle.**  A record is a file in one of five directories.  The batches
  of two goals are processes without a common lock; every read, and every
  operation on a file (open and empty, write, delete), is a step of its own,
  and between any two of them other batches run.  `promote` looks a record up
  again in every directory, after `promote_verified_eligible` has read it in
  one; `hand` is what a batch has read and will act on, `op` the file operation
  under way.  An error ends the batch (`Fail`), so that a record that a crash
  left empty in `candidate/` stops every later batch at its first step.  `torn`
  is the history of the records that batches got in each other's way with.
  Taken as one step: the look whether a file is there and its read right
  after, and two handles that write into one file at the same moment.
- **AgentGroups.**  Actors are coroutines of one thread: the steps between two
  awaits exclude one another, and the signal handlers interrupt any of them.
  `abandoned` is a history variable for the exceptions of section 6.
- **Plugins.**  A command is steps between which other terminals run; it reads
  `installed.json` at one and writes all of it at another.  `doubtful` is a
  history variable: plugins whose last commands overlapped or died.

## 3. The runs

| run | instance | shows |
|---|---|---|
| `lease` | 3 processes, TTL 2, clock to 5, 2 appends | `LeaseExclusive` with ticks of any length and crashes anywhere; `CacheCurrent` until a tick is late |
| `lease_kept` (violation) | 2 processes | `FinishedDropsLease` fails |
| `gate_rounds` | 2 obligations, cap 2, one change of evidence, inputs with at most one trouble besides the verdicts and matched keys | `AdmitsExactlyFlawless`, `AbortsWhenExhausted`, `StubbornEnds` |
| `gate_overrun` (violation) | an open obligation before an unattested one | `RepairsWithinCap` fails |
| `kernel_refine` | 1 root obligation, 2 files, 6 ticks, budget may run out | `AttestedContentCurrent`, `EvidenceCommitted`, `AdmittedClosed` |
| `kernel_crash` | 2 root obligations, 4 ticks, one crash, one failing stage, read-only, reversible and irreversible claims, goal edits | `RevisionsReached`, `SuccessIsClosed`, `OneActiveContract`, `CoveredCloses`, `EndedStaysEnded` |
| `kernel_ticks` | 1 root obligation, 3 ticks, one crash, one failing stage, every claim, tool writes | `TickEnds`, `OutcomeSpec` (refinement) |
| `session` | 2 sessions of 2 ticks, 2 nodes, one killed, lease held by others, failing and silent workers | `KeptTicksUnique`, `ManifestTruthful`, `EndedStaysReported`, `SessionEnds` |
| `parts` | the eight parts, one at a time, on the instances below | the properties of the parts |
| `kernel_undone`, `kernel_torn_admit`, `kernel_uncovered` (violations) | | section 6 |

What `parts` shows, part by part:

| part | instance | properties |
|---|---|---|
| `EventLog` | 2 contexts, 3 events, 1 power failure | `ChainIntact`, `FaultedByRace`, `ExportedWhole` |
| `Closure` | 2 nodes, one of them with two obligations, one JSON file that is there with one content or gone | `ClosureFromAdmitted`, `ClosureNeverStuck` |
| `TaskTree` | 1 to 3 root obligations, depth 2, 7 ticks | `RootsCarried`, `SomethingToDo` |
| `Delivery` | a JSON deliverable, a network capture and a screenshot, with and without a hint and an obligation about the intent, one or two episodes, four claims | `AcceptedHolds`, `IntentByChecker`, `VerifiedKept` |
| `Staging` | cap 1, 3 ticks, 1 crash | `LessonsKept`, `StagingBounded` |
| `Lifecycle` | 2 goals, 1 record, 4 batches, 1 crash and then one batch less; the record is of the first goal | `ActiveEarned`, `RejectedOut` |
| `AgentGroups` | 2 actors, 2 groups | `AgentsDieWithHarness` |
| `Plugins` | 2 community plugins and the Codex one, 2 agents, 2 terminals, 3 commands | `AllowedHavePackages` |

The passing runs fire every action of their specifications.

### Bounds, and why they are enough

- Lease: with a TTL of 2 and a clock to 5 a lease expires, is taken over, and
  the second one expires too; three processes let one hold, one wait with an
  old clock and one die between truncate and write.  Two appends put an append
  of another process between the read and the own append.
- Gate: two obligations give every order of "first open" and "repaired"; the
  cap of 2 is reached by repeating; one change of evidence mixes two causes.
- Kernel: `SPLIT_REPAIR_STREAK` is 1 instead of 2 and `repairs_max` 1 or 2
  instead of 8, so that splits and aborts come after few ticks.  Six ticks take
  a root through a repair, a split, both children, a closure repair and a
  second split.  With two files, obligations watch one, the other or both, and
  one of them is written by every claim, so a commit invalidates some
  attestations and spares others.  `kernel_ticks` has every kind of claim;
  `kernel_crash` leaves out compensatable ones, which are finalized like
  reversible ones.  One crash and one
  failing stage, at any step, include a crash of the tick that recovers from
  the failing stage.  A bound named in a guard (`MaxTicks`, `MaxClock`,
  `MaxAppends`, `MaxCrashes`, `MaxFaults`, `MaxRounds`) stops the model, not the
  code: runs set `CHECK_DEADLOCK FALSE` for that reason.
- `kernel_refine` has no crash and no tool writes: after the crashes of section
  6 its invariants do not hold, and saying so is the point of those runs.  The
  theorems allow more than the run: any tool writes and failing stages for
  `EvidenceCommitted` and `AdmittedClosed`.
- In `kernel_crash`, `CoveredCloses` is about root obligations that are
  themselves satisfied; through derived ones it fails (`kernel_uncovered`).
- Session: two sessions of two ticks let a tick that failed, timed out or was
  killed be followed by one of the same session and by one of the next, which
  counts on from a file behind the log; two nodes let a tick admit a node and
  go on.  How many events a stage appends does not matter beyond one (and any
  number is covered by the theorems).
- EventLog: two contexts and three events let one be overtaken, append, and be
  overtaken again during its export.  Closure: a node with two obligations is
  what a rejected attempt needs to leave a satisfied verdict behind, and one
  with one obligation never does; files of another kind and more contents are
  covered by the theorems.
- TaskTree: depth 2 and 7 ticks suffice for a split, a repeated split of a node
  whose children were merged, and a node that waits for one of them; three
  obligations give groups of different sizes.
- Delivery: the three kinds of deliverables, of which the screenshot is one
  that the fingerprint leaves out; the claims are none, one that is no JSON,
  one with other fields than the file's, and one whose targets and paths
  differ.  The maker leaves any JSON file with or without the capture, with one
  of them staged.
- Staging: with a cap of 1 and three ticks, an archive is made, is itself
  merged into another, cut off, left empty or lost in a crash.  Lifecycle: a
  record needs two judgements, one of them of another goal; four batches of two
  goals let a batch hold what it read while the record is promoted or rejected
  by another one, and a crash is followed by the batches that find what it
  left.  Which goal writes the one record does not matter, nor which process
  group is used first (`MemoryBound`, `AgentsBound`).
- AgentGroups: two actors are one whose stage timed out and the one that
  follows, two groups the one that dies and the one that is tracked meanwhile.
  Plugins: three commands are two that overlap and one that follows.

### Fairness

`FairSpec` of `RunKernel` assumes weak fairness of `TickStep` as a whole: each
stage ends, because the run loop gives every worker a timeout and turns its
expiry into an error answer.  Which step is taken, what an agent answers, and
whether another tick begins, are not assumed.  `GateRepairs` assumes weak
fairness of `Next`: the application loop goes on while the Gate asks for
repairs.  `Session` assumes less of a tick than `RunKernel` does, nothing of
workers: only that the event loop runs what is ready to run (`Program`) and
that the timer of `asyncio.timeout` in `_await_job` fires (`TickTimeout`).  A
crash, a held lease and the start of another session are never assumed.

## 4. Proofs

`tlapm` proves, for all values of the constants within the named assumptions
(`LeaseAssumption`, `GateAssumption`, `RepairsAssumption`, `KernelAssumption`,
`SessionAssumption` and those of the eight parts, which TLC evaluates in the
runs):

- **WriteLease** (`WriteLeaseProofs`).  `LeaseTyping`; `LeaseIsExclusive`: the
  invariant `Exclusive` says that clocks read are not ahead (`ReadClock`), that
  the one inside the critical section has the flock and after truncating sees
  an empty file (`Section`), and that an unexpired lease is the one in the file
  (`Recorded`).  `LeaseExclusive` is not inductive alone: a process could be
  about to overwrite a record it never saw.  `CacheIsCurrent` adds `Running`:
  until some tick is late, leases that are taken or held have not expired, so
  by `Recorded` the process that appends is the only one in a tick.
- **Gate** (`GateProofs`).  `GateAdmitsFlawless`: `DecideAdmits` shows it of the
  operator, by cases on whether the checks before the verdicts find anything;
  the theorem carries it to the last decision of `GateRepairs`.
  `GateAbortsExhausted` likewise rests on `DecideExhausts`, and on counts that
  never fall.
- **RunKernel** (`RunKernelProofs`, `RunOutcomeProofs`).  `KernelTyping`, one
  step per action.  `OutcomeImplemented`: every behaviour implements
  `TxOutcome`, and `EndedRunsStayEnded`.  Both rest on `TickOrder`: names of
  later ticks are unused, only the tick that is past its recovery prepares,
  what dangles then is this tick's transaction, and it is settled or left at
  the latest when the tick ends; in particular `Begin` with a dangling
  transaction in a run that has not ended goes to recovery.
  - `OneContractAtATime`: what is in progress is reopened before the contract.
  - `RevisionsAreReached`, assuming that no reversible claim has an idempotency
    key (`KeysRefused`): the revision of the tick's transaction is the one the
    run is at, or goes to next (`TxRevision`); what is above the contract's
    ceiling may have another, and is not admitted.
  - `ClosureAdmitsCovered`, for other than one root obligation, where covered
    means satisfied: `ClosureDecided` keeps a closure's decision tied to what
    the Gate was given until its tick ends.
  - `SuccessStaysClosed`: a transaction may stay prepared after a failed stage,
    but then its node keeps the run from closing (`WorkFacts`), and on the way
    to a closure nothing is prepared (`Settling`).
  - `EvidenceIsCommitted`, as long as the process has not died (`crashes = 0`):
    every satisfied obligation was attested in a committed transaction or in
    the one that the tick is about to commit, since the Gate has admitted it
    (`EvidenceSettled`).  After a crash it is false: section 6, 4.
  - `AdmittedNodesAreClosed`, under the same condition: while the satisfaction
    of obligations goes on one by one, those of the node that is admitted are
    the ones that are left (`AdmittedSettled`); an invalidation reopens the
    node, a split replaces it.  A crash after `GateDecided` breaks it.
  - `AttestedContentStays`, as long as no process has died and no stage has
    failed, from three hypotheses about what makers do: no reversible claim has
    a key, and neither tool writes nor irreversible claims nor `Preserved`
    directories touch a watched file (`KeysRefused`, `WatchedGuarded`, which
    `kernel_refine` satisfies).  A watched file that differs from what was
    attested was touched by the transaction of this very tick, which will be
    undone or is about to invalidate the obligation (`Changed`,
    `ContentKept`).  The hypotheses are needed: the code undoes only what was
    written after the snapshot, and a failed stage leaves its transaction
    applied until the next recovery.
- **Session** (`SessionProofs`).  `SessionTyping`, `TicksUnique`,
  `ManifestsTruthful`, `EndsStayReported`, from one invariant: the file is
  behind the log, and what it reports of a run that has ended could only be
  replaced as the property allows (`FileBehind`, `SuccessLast`), the number of a tick is behind the log's length by the time
  the session goes on or exports (`TickBehind`), and ahead of the ticks that
  were kept (`TickAhead`).
- **EventLog** (`HarnessProofs`).  `ChainStaysIntact`, `ExportsAreWhole`,
  `DriftsAreRaces`: while a context exports, what it holds is a prefix of the
  log and the rest is not its own; a context that does not export may hold
  anything.
- **Closure** (`HarnessProofs`).  `ClosesFromAdmitted`, `ClosesAlways`: of a
  node with a rolled-back verdict some obligation is not satisfied
  (`RolledBackUnclosed`), since an attempt at a node is judged as a whole.
- **AgentGroups** (`HarnessProofs`).  `AgentsDie`: a group that may run is
  tracked, about to be tracked or about to be killed, whatever interrupts.
- **TaskTree** (`HarnessProofs`).  `NoObligationLost`, `RunNeverWedged`, from
  `TreeInv`: the obligations of a node never change, and those of a child are
  its share of its parent's (`ChildrenShare`), so that a child that replaces
  one of its name has the same ones; no share has more than four, each once
  (`SharesSmall`), which is why a split deals all of them out; the children a
  node lists are its own (`ListsOwn`); and an obligation is refined, in the
  contract of a node that may be worked on, or satisfied *and* in that of an
  admitted node (`AllCarried`), which a commit that invalidates it reopens.
  `RootsCarried` alone is not inductive: an invalidated obligation needs the
  admitted node.
- **Plugins** (`HarnessProofs`).  `AllowedServersInstalled`: a command that
  runs alone on its plugin has the package by the time it writes the
  configurations (`DoneAlone`), and a configuration of a plugin that nobody
  works on and that is in no doubt means a package (`PluginsInv`).  Nothing is
  needed of `installed.json`, which loses updates.
- **Staging** (`WorkdirProofs`).  `StagedFilesBounded` and `BatchKeepsLessons`:
  beyond the cap there are at most two files (`CountsHold`), so that the name
  of an archive tells every file it was made of; a file carries the lessons its
  name tells (`NamesTell`), hence a file that replaces one of its name loses
  none but the `lost` ones; and while a batch runs, the lesson of every recorded
  tick is among the candidates, in a file, in the archive about to be written,
  still to be staged, or lost (`BatchCarries`).  What is lost is forgotten when
  a batch ends: the next one stages again.
- **Lifecycle** (`WorkdirProofs`).  `ActiveWasEarned` and `RejectedStaysOut`:
  no file of a record, nothing a batch holds while it waits, and nothing it is
  about to write counts a judgement there was not (`Honest`, in `FilesHold`,
  `HandHolds` and `OpHolds`; `Pending` are the judgements not yet counted); a
  record that was never torn has one file, but for the two of a move under way,
  and a rejected one is deprecated or on its way there (`Located`).  A torn
  record is exempt from `RejectedOut`: with two batches at work the code does
  bring a rejected record back to `verified/`, when one of them has checked it
  in `quarantined/` before the other deprecates it.  `ActiveEarned` has no such
  exception.
- **Delivery** (`WorkdirProofs`).  `AcceptedWorkdirHolds`, `IntentNeedsChecker`
  and the action property `ClaimKeepsVerified`: a claim that waits to be
  applied to a workdir that satisfies the boundary carries the JSON
  deliverables as they are (`BoundToDisk`), and evidence on its way to the Gate
  tells the gaps of the disk as it is and what the checker changed (`GapTold`,
  `IntegrityTold`, `IntentJudged`).  The exceptions are in the properties and
  are the code's: a screenshot that the checker rewrites is accepted, and an
  action whose payload names a JSON deliverable as its path, and something else
  as its target, overwrites it.
- **All parts** (`PartsProofs`).  `PartsImplemented`: a behaviour of
  `MCWorkdir` is one of each part, so that the theorems of the parts are about
  the run too; `PartsTyping` collects the types of all of them.

Only model-checked: liveness (`TickEnds`, `StubbornEnds`, `SessionEnds`), which
is out of the prover's reach.  The hypotheses on crashes and failed stages in
the theorems about attestations are not the prover's but the code's: with one
crash or one failed stage TLC finds the properties violated, the crashes being
those of section 6.

## 5. How the properties were tested

Each property of a passing run has a mutant: a plausible wrong version of one
definition, kept next to it in the module ("Mutant of ..."), under which TLC
finds the property violated.

## 6. Disagreements between code and documents

Found while modelling, each with a run that shows it (`findings`):

1. `lease_kept`: `release_lease` never finds its own record, so a finished tick
   keeps the lease until it expires.  The same process takes it again; another
   one waits.
2. `gate_overrun`: the count of a repair goes under the first open obligation
   and is looked up under the repaired one, so `repairs_max` may never be seen.
3. `kernel_undone`: recovery calls `WorldTransaction.from_dict`, which does not
   exist; the exception is swallowed, the rollback is recorded and not done.
4. `kernel_torn_admit`: a crash between `ObligationSatisfied` and
   `TransactionCommitted` leaves an obligation satisfied by a transaction that
   is rolled back.
5. `kernel_uncovered`: a root obligation covered by its derived ones is
   reported to the closure Gate with its own status, so the closure Gate
   repairs until its cap.

Seen in the model, without a run: a tick that outlived its lease appends on an
old projection although `event.schema.json` speaks of an expected sequence; a
crash between `GateDecided` and `ObligationSatisfied` leaves an admitted node
with open obligations; tool writes before the snapshot are neither undone nor
seen by invalidation; the closure Gate assembles a contract for a root that was
split, and its repair makes it schedulable again; the idempotency ledger keeps
the keys of transactions that were rolled back.

Also without a run: `process_group.py` opens with "Guarantee that agent CLIs
die with the harness".  An agent whose `exec` was cancelled or failed with
another error than its timeout is no longer tracked and not killed, one whose
killing was interrupted by a second signal may survive it, and what left the
output of its agent behind is not waited for; `AgentsDieWithHarness` says that
these are the only exceptions.  A signal that arrives while the main thread
holds `_lock` hangs the harness (mode `hung`).  A replayed idempotency key takes
`world_revision` back to that of its first application, so `RevisionsReached`
is claimed of claims without keys.  `ClosureNeverStuck` has a price: the closing
attests again a deliverable that is gone or changed, and nothing notices.  The
drift check compares two projections made from the same log, so it notices
nothing but another writer.  A lesson file that a crash left empty is taken for
staged and deleted, so that its lesson is lost; a record one batch rejects may
be promoted by another; a claim is bound by `target` and applied by
`payload.path`; a goal edited after the end of a run makes the run invalid.

## 7. Not modelled

- The capability broker is a stateless check; its refusals are failing stages
  (`StageFails`).  Goal compilation is text processing; its result is the set
  of root obligations.  Prompts, adapters and the parsing of what agents print
  change no state.
- The message bus is an external library; a stage gets one answer, an error, or
  none.
- The command line, the product views, the check projections and the evaluation
  read exported files and decide nothing.
- What swarm advisors say has no authority, so that only their order and their
  failures are modelled; merge suggestions left in files are written by an
  actor that nothing asks for work.
- Of the handler: records of denied capabilities and about memories, which
  change no status.  Amendments are those a tick proposes.  `renew_lease`,
  `expected_sequence` and `record_apply_denied` (a repair in place of the Gate's)
  have no caller in the program.
- In the parts: token counts, `process_coverage.json`, the cleaning of single
  paths in a claim, versions and consent of plugins, a tick number forced by
  the user.

The parts are not composed with the kernel in one state space, which TLC would
not finish: where they meet it, each has the other's outcomes as a choice.

## 8. Running

    tlc -workers 2 -config MCRunKernel_refine.cfg MCRunKernel
    tlapm RunKernelProofs.tla

`PROJECT.json` lists every run with its module and configuration.  The longest
passing run takes about two and a half minutes with two workers.
