# A TLA+ model of the Mediator and its enodes

The program runs *Runs* — contracts made of steps — on a fleet of nodes. The
**Mediator** (`src/cmd/mediator`, `src/internal/api`, `src/internal/store`)
keeps everything in PostgreSQL and in Record directories; **enodes**
(`src/cmd/enode`, `src/internal/enode`) pull steps from it, run them and report.
`runctl`, `enodectl` and `iapadapter` are clients. This directory models what
can go wrong between these parts: interleavings of requests and of the reaper,
restarts, lost and late calls, expiring leases.

## 1. Inventory

| Component | State it keeps | Operations | Talks to | What is hard, what must hold |
|---|---|---|---|---|
| Run lifecycle (`store.go`, `reap.go`, `seal.go`) | `runs`, `leases`, Record directories | CreateRun, CreateQueuedRun, CreateRejectedRun, SettleIfDone, Cancel, Reap, sealExpired, sealRecord | every handler; the reaper's timer | Statements of different requests interleave (READ COMMITTED); requests die between two. A node belongs to one Run (I1), an ended Run holds none (I2), grants are all or nothing (I5), a Record is sealed once, after the end (I4); a Run that is over ends and frees its nodes. |
| Submission queue (`queue.go`) | `runs.state = QUEUED`, a lock row | enqueue, scan inside another transaction, scan on its own | every place that frees a node; drains; start of the Mediator | No timer: no wake-up may be lost. FIFO. A scan conflicts with an uncommitted submission. |
| Claim, report, redelivery (`claim.go`) | `steps` (state, attempt, instance, phase, exit) | ClaimStep, redeliver, ReportStep, MarkExited, FailRestarted, RenewLeases | Worker, Advertiser | Calls are lost, repeated, late; nodes restart. An attempt is run once; no step is stranded. |
| Worker and Held (`enode/claim.go`, `leases.go`, `advertise.go`) | the step at hand, believed leases | claim, execute, abort, report until answered; heartbeat | Mediator | The heartbeat's list replaces what is held; the lease's `not_after` is the only authority. |
| Asks (`ask.go`) | `steps` in ASKED, blobs | raiseAsks, AnswerStep, ExpireAsks, retirePlan, rewindToPlanner | people, settle, reaper | A waiting Run is not reclaimed; a question of an ended Run must close; an answer may undo a plan. |
| Step graph (`dispatch.go`, `rollback.go`, `acquire.go`, `release.go`, `expand.go`) | `steps`, `runs.contract_versions`, `leases` | skip/un-skip, loop, validate, acquire, release, expand, adopt | ReportStep, AnswerStep | Chains of rewrites of the same rows; termination; acquire against settle. |
| Matching, verdict (`match.go`, `verdict.go`) | none | MatchAll, Verify | adverts, results | Pure functions with vacuous-truth traps; the verdict rests on rows and artifacts of different attempts. |
| Record, progress (`record.go`, `progress.go`, `observe.go`) | files of a Run | Open, WriteBlob, Seal, progress append, sweep | every component | Handlers outlive their callers; written before the commit, sealed after it; chunks sent again, capped, swept. |
| HTTP server, Mediator process | none, open requests | handlers, start-up scan, reaper loop | all | Request contexts end early. |
| Contracts (`contract/`) | none | Validate, CheckPlan | submit, expand | What it accepts must end; the other parts rely on the shapes it rules out. |
| Checkpoints, trash, scratch (`scratch/`, `enode/checkpoint.go`, `trash_linux.go`) | session folders, the spool's entries and their lock files, the trash | open, reserve, move, commit, abandon, reconcile, settle, evict, delete | Worker, other daemons of the host | Only flocks and renames keep daemons apart; a daemon dies between any two. |
| Bake, lower, merge (`lower/`, `merge/`, `enode/bake*.go`, `lowerguard.go`) | the lower, `state.json`, the pending upper, two locks | guard, build, hand over, merge, abandon, resume | Worker, heartbeat, other nodes of the host | A lower shared by steps of several Runs; a lease that shows itself late; resume after a crash. |
| Finalize, collect, upload (`enode/`) | `$OUT`, budgets, what was found | collect, check, diff, discover, capture, upload, report | Worker, helper process | A deadline, the lease and a helper's death cut the stages anywhere; what is told must be whole. |
| Session and agent harness (`runc_overlay_linux.go`, `runner.go`, `claude.go`, `mcp.go`, `hook.go`) | helper process, mounts, pipes, isolation folder | open, run, cancel, finalize, close; resolve, start, stop hook, decode | Worker | Answers must match requests across cancels; what refuses a step comes before the harness runs. |
| iapadapter | nothing but goroutines | claim a job, submit, follow, hand off, answer | tracker, Mediator, orchestrator processes | Every call may fail done or not; it dies and jobs come again. |
| Environments (`environment/`, `cmd/enode`) | store of rootfs folders, an index | apply, check, seal, publish | nodes that start | No lock; deaths and edits between the reads. |
| enodectl, runctl, panel, transcript, configuration, schema, build info | local files, processes | — | — | No protocol of their own with the store. |

`PROJECT.json` lists each with its status, and under `hazards` the lines where
this code can go wrong in ways a test hardly reaches.

## 2. Modules

### RunLedger — what the Mediator promises about nodes
A Run only moves forward (new, waiting, running, over); it takes all its nodes
in the step it starts or none; a node changes hands only when its Run is over.

### RunLifecycle — the Mediator's tables and processes
State: `state`, `verdict`, `step`, `lease`, `late` are columns; `record` the
directories; `ahead` the `ORDER BY` of the queue; `creating` the CreateRun
transactions that have inserted and not committed; `proc` what each request (and
the reaper's own settle calls) remembers between statements; `reap` the reaper's
place in `Reap`.

One action is one statement or one committed transaction:

| Code | Actions |
|---|---|
| `submit`, CreateRun | CreateBegin, CreateCommit, CreateRollback |
| CreateQueuedRun, CreateRejectedRun | Enqueue, Reject |
| wakeQueuedIn, promoteIn | `Promotes`/`WakeAndCommit` inside Enqueue, SettleEnd, CancelEnd, ReapWake; the conflict with an open CreateRun is `Waits`/`ScanBlocked` |
| ClaimStep, postResult, postAnswer, FailRestarted, RenewLeases | Claim, Report, Answer, NodeRestarted, Heartbeat |
| SettleIfDone | SettleRead, SettleCount, SettleVerify, SettleEnd, Seal |
| Cancel | CancelRead, CancelEnd, Seal |
| Reap | ReapAsks, ReapSettle, ReapFail, ReapSteps, ReapFree, ReapWake, ReapSnap, ReapSeal |
| a lost request, a restart | Drop, Restart |

Abstracted: which nodes satisfy a contract (`Grants`), what Verify says
(`Judge`), the rewriting of the step graph (StepGraph), adverts.

### ClaimProtocol — one node and the Mediator
State: the node's lease, the `steps` rows of that node (`row`), the node's
`life`, the Worker's place (`worker`), `held` (`leases.go`), and the calls on
their way: claims, reports, heartbeats, exit reports. A call whose client has
gone (`live = FALSE`) may still take effect once, or vanish. The two statements
of `redeliver` (Look; Redeliver, which knows the lease as it was at any moment
since) and of the heartbeat (FailRestarted, RenewLeases) are separate actions.
History variables remember which life began which attempt, which were begun
twice, and which the Worker dropped.

Assumed: the node's clock and the Mediator's agree on when a lease expires.
Abstracted: one node, a loop on the step itself, everything a step does.

### ContractCheck — the shape of a contract
What `Contract.Validate` asks of the steps as a graph: roles, loops, acquires,
releases, needs and forks, with the default needs of `NeedsOf`, `ancestors` and
`skipClosure`. Constant operators only. Every contract StepGraph is run with has
to pass it (the ASSUME `Accepted`), so whatever TLC finds there is about a
contract the Mediator takes.

### StepGraph — what a finished step does to the others
One Run. State: `row` (the `steps`), `held` (`leases`), `assigned`, what each
node's Worker runs (`work`), and the open transactions (`tx`). Reports and
answers of one Run are handled at the same time; `yielded` remembers the roles
given up. Each is a READ COMMITTED
transaction, modelled as its own writes over the committed rows (`View`), with
row locks: who would write a locked row waits (`Free`), also where the UPDATE
writes a row what it says already (`Wrote`). Nothing locks the Run.
A transaction goes through phases, each an action, and other transactions commit
in between:

| Code | Actions |
|---|---|
| createRunIn | Init, then the acquires and questions of the first transaction |
| ClaimStep, redeliver, a Worker without a lease | Claim, Redeliver, Abandon |
| ReportStep, AnswerStep open a transaction | ReportOk, ReportFailed, ReportRefused, Answer |
| rollBack: loopBack, validateBack | LoopBack, ValidateBack, GoOn |
| applyDispatch, propagateSkips, applyRelease | Effects, NamesNoTarget |
| runAcquires, doAcquire, tryGrab, bindRole | Acquire, AcquireNothing, AcquireWithoutLease |
| raiseAsks; the transaction ends | RaiseAsks, Commit, Rollback |

Abstracted: other Runs are an acquire that finds nothing; a lock is waited for
before a phase rather than in the middle of one; the end of the Run is
RunLifecycle's, lost and late calls are ClaimProtocol's; plans that add steps
(`expand.go`, adoption, retire and rewind) are left to PlanColumn.

RunReports puts the two side by side: a Run is of one kind or of the other.

### PlanColumn — the versions of a contract
State: `column` (`runs.contract` and `runs.contract_versions`), `rows`, `tx`.
Whoever appends a version reads the whole column and writes the whole column:
a transaction is a reading and a committing step (applyExpands with its checks
and its limit, yolo adoption, adoptProposal, retirePlan and rewindToPlanner,
loops that lead back over a plan).

| Code | Actions |
|---|---|
| ClaimStep; ReportStep and AnswerStep begin | Claim; Report, Answer |
| loopBack; nothing to expand; a plan that is refused | GoBack; Finish; Refuse, AddNothing |
| applyExpands; its INSERT meets a row | Grow; Conflict |
| adoptProposal (ask.go) after its own reading of the column | ReadColumn, Adopt, JustNo |
| retirePlan and rewindToPlanner; an ask that also dispatches | Retire; Turn |
| an error on the way: the answer is rolled back | Undo |

`crossed` is a history: what came of plans that were taken back in another order
than the reverse of their making (section 4).

### RunOutcome — artifacts and the verdict
State: `row` is what the Mediator believes of a step, `work` what happened at
the node, `blobs` the Record, `newest` the last one stored under each name.
Claim, Fetch, Put (uploads, the undeclared ones too), Report, Repeated (a copy
of a report), Settle. `Verified` is Verify of `verdict.go`; rollBack and dispatch
are inside Report, as in the code.

### RunRecord — what is written of a step
The uploader of a node (buffer, chunk on its way, Close), the handlers of
progress, log and blob as processes that may outlive their caller, the sweep
and the four phases of the seal, with restarts between any two.

### StepSession, AgentStep — a claimed step on a node
StepSession has the Worker, the two pipes, the helper with its command and its
cancel goroutines, the mounts, folders and locks of a session, the checkpoint
reservation and the receipt; AgentStep what may refuse an agent step, the
instrumentation, the model's and the hook's writes to `$OUT`, the harness's end
and what is shipped. `MCNodeStep` composes them with OverlayMerge.

### OverlayMerge, AtomicMerge — the merge of an upper into its lower
The decisions of `merge/decide.go` and the calls of `merge_linux.go` one by one,
on trees given as functions from paths to entries, stopped and taken up again at
any call. AtomicMerge is what is promised: one step. OverlayMerge implements it
under `seen <- View`: who looks at the overlay sees the same throughout.

### LowerBake, LowerIdentity — the lower that several nodes share
LowerBake: `lower`, `state.json`, the pending place and the two locks on the
disk; per node the LowerGuard, the Baker, the Worker; the advert on its way; the
Mediator's drain and lease. LowerIdentity: who takes a lower for the one the
state speaks of, when its directory may have been made again on the same inode.

### SpoolPolicy, CheckpointSpool — the scratch that daemons share
SpoolPolicy has the pure decisions (Policy.PlanSettle, what reconcile does with
an entry) as operators; CheckpointSpool every file operation of a step, a
keeper and a deleter as an action, with the flocks between them.

### Harvest, PreparedEnvironment, IssueAdapter — beside the Runs
Harvest: what a node takes from a command that has ended, stage by stage, under
one deadline, with a sandbox or without, with a workspace or without (then the
list of changes is skipped: not measured). PreparedEnvironment: any number of preparers and starting nodes at
one store without a lock. IssueAdapter: goroutines of the adapter at one issue,
with the tracker, the Runs and the orchestrators as far as it meets them.

### Small simplifications
Each module's header says what it leaves out. Of single statements:
- PlanColumn: steps have no `produces`, so a plan is never refused for names it
  owes (`expand.go:162`); it is refused for other reasons in the same place.
- StepGraph: the UPDATEs of one applyDispatch and of applyRelease are one write
  of the transaction; nothing reads between them, and others see them at the
  commit.
- StepSession: the unmount of the overlay itself succeeds; that of a projection
  may fail.

### The MC modules
`MCRunReports`, `MCRunLeavings`, `MCNodeStep` and `MCSideParts` put components
that share no state into one run: a behaviour is of one of several kinds, and
the variables of the others stand still in a state in which nothing of theirs
is enabled. Each kind is explored in full; nothing is said of their product.

## 3. Runs

| Run | Shows | Bounds |
|---|---|---|
| lifecycle_contend | all or nothing, nothing kept, no lost wake-up, FIFO, and the ledger is implemented | three Runs, two nodes: a promotion can take both nodes, one, or none while an older Run waits; one request beside the reaper; no faults |
| lifecycle_live | final ends; Runs whose steps are over are sealed unless a fault came in between; late leases are reclaimed and orphaned steps close, whatever the fault | one Run with two steps side by side and a timed question, two requests beside the reaper, one fault anywhere |
| claim | an attempt is run by one life, again only after the Worker dropped it; exits are current; claimed steps come back | one step of two attempts in a node's last life, or one step of one attempt and two lives; one fault |
| reports | nodes not given up too soon and not kept, roads not taken stay closed; rows follow the contract in force, steps of a retired plan do not begin; every contract ends | StepGraph on fifteen written contracts — parallel joins, forks that share a target, two acquires side by side, loops and validations beside other steps, releases followed by acquires — and the accepted members of a family of four-step contracts, two transactions at once, one of them lost, four leases; or PlanColumn on six contracts and six plans, four versions, two handlers — of the contracts with more than two steps only the transactions that follow each other, since of others the properties say nothing |
| leavings | a success is earned, a failure has a reason, inputs are the newest; what is kept of a step has no hole | RunOutcome on nine contracts (loops, validations and chains of them, a check around a step that stays, forks, shared names), one report that comes twice; or RunRecord on two attempts, three bytes, a buffer of two, a limit of two, one fault |
| spool | what a receipt calls captured stays, only its daemon moves a session or an entry, what a dead daemon reserved goes | two daemons, one step, one crash; a disk with room, without, and a statfs that failed |
| node_step | captured is whole; a harness runs as asked and only whole work leaves; a step ends; the merge is atomic | one command and a diff, one death of the helper; two servers, the first declared in every way, the second beside it; a plan with three problems against a hook budget of two; trees of four paths, two stops |
| bake_safe | the lower under a matched Run is unchanged, what is merged is what was handed over | two nodes, an ordinary Run of two steps beside the bake, one fault |
| bake_live | a bake comes to its end and the disk is clean | two nodes, the bake alone, two faults |
| side_parts | one open Run per issue that somebody minds; a half merged lower says so; started nodes are prepared; what an ok Finalize lacks is told, what is measured is complete | one job and one mention, two goroutines, one fault; two nodes, three births, two deaths; two preparers and a starter, one edit and one trouble; one name that is collected, required or both, two files, walks of one |
| graph_joins, outcome_attempts | the disagreements below | smallest instances |

The bounds are where the interesting cases meet: two transactions suffice for
every meeting of reports, since rows are shared by pairs; two daemons or nodes
for every race over a flock, whose holder is one; one fault for every
disagreement found. `MaxFaults`, `MaxCrashes`, `MaxTrouble`, `MaxDeaths` and
`MaxMoves` count faults, `MaxLives` the instances of a node, `MaxAttempts` is
`Loop.Max` of the contract, `MaxLeases` the Mediator's `MaxLeasesPerRun`,
`MaxVersions` its `MaxContractVersions`, `MaxLate` the reports that come twice.
Where a proof exists (section 5) the bounds do not matter.

**Fairness.** In RunLifecycle: a begun CreateRun commits or rolls back, a
request that has not been dropped executes its next statement, and the reaper's
ticker fires. Nothing is assumed of submitters, workers, answerers or the clock.
In ClaimProtocol: the Worker's loop and the Advertiser's timer go on, the
Mediator serves, the reaper sweeps; commands need not end and Runs need not be
granted or ended. In StepGraph and PlanColumn, only for RunsEnd: nodes finish
their work, transactions go on, questions are answered — "every contract ends"
says nothing without that. In CheckpointSpool: a daemon that is down is started
again, Workers and deleters go on, and the keeper's settling is strongly fair:
it waits for a lock that is held for milliseconds and comes back every few
minutes. In StepSession: the Worker and its goroutines run, the budget of
Finalize runs out, a SIGKILL kills; a command need not end, a finalize need not
come back. In AgentStep: the node works, the model comes to a stop now and then.
In LowerBake: every node advertises, works, cleans and resumes; nothing is
promised of cancels and matches. OverlayMerge: the merge goes on.

**Exemptions.** Where the code keeps a promise only under a condition, the
property names it, and TLC has refuted the property without it.

- `overlap`: two transactions of the Run have been open at once.
- `ReleasesComeLast`: whoever uses a role is over before the step that gives it
  up, whichever way the forks go and whatever begins again (`SurelyOver` of
  ContractCheck); that step ends once (nobody else brings it back), no other
  gives up the same role, and no two loops or checks share a step.
  `StepsKeepTheirNodes`: a step has lost its node to a release; RunsEnd promises
  nothing then. `QuestionsFollowRetries`,
  `ForksBeginAgain`: what begins again takes along the step before a question
  and the fork before a road. `AcquiresArePlain`: no acquire has a fork or a
  check. `RetriesNest`: a step that two loops or checks
  begin again.
- `crossed` (PlanColumn): "revived", "orphaned" and "own", three things that come of taking
  a plan back that is not the last one, or that holds the question (section 4).
- `Own` (RunOutcome): a row whose result is a copy of an earlier execution's
  report (executions are numbered: an attempt can come back, see section 4).
  `Distinct`: nobody else writes the name. `Settled`: the contract fixes who writes
  it last, and that all of them are over before the step, whichever way the
  forks go and whatever begins again (`SurelyOver` of ContractCheck). `astray`:
  the names that a step stored while its row had gone on without it, which takes a
  copy of a report.
- `harmed` (RunRecord): a sweep removed a file under a live Run.
- `raced` (CheckpointSpool): an entry taken for an orphan between the making of
  its lock file and its lock; `torn`: an eviction a crash cut in two.
- `excused` (LowerBake): a node that crashed with the lease, merged while it had
  it, or took the shared lock again before it had heard of the lease.
- `lost` (LowerIdentity): clearLastAttempt wrote back a state it had read before
  it had the lock.

## 4. Where code and words disagree

With a run that shows it:

- **A join nobody serves** (graph_joins). Two parallel steps report together;
  each transaction sees the other's step unfinished, and the acquire or the
  question that waits for both is left to a call that never comes.
- **Attempts that do not suffice** (outcome_attempts). `within_attempts` fails a
  Run whose last allowed attempt passed (verdict.go compares with the number of
  attempts, not of retries).

Seen with the properties that stay in the modules but in no run; each is refuted
by TLC on the constants of the run of its module:

- *Two verdicts* (`SealAgrees`). When a cancel and a settlement race, the one
  whose UPDATE changed nothing still seals (`reap.go:429`); `schema.sql:30` says
  the column becomes the Record's verdict.
- *A Run nobody settles* (`SettlesAlways`). Between the commit of the last report
  and SettleIfDone nothing is remembered; heartbeats keep the lease alive
  (`reap.go:22`).
- *A finished step runs twice* (`NoDoubleRun`). postResult answers 409 when the
  store fails (`api.go:435`); the Worker takes that for a rejection and is given
  the step again. `claim.go:277` relies on redelivered steps not having started.
- *A question asked once* (`QuestionsAreAsked`). A loop that begins with a
  question sets it back and commits without raising it (`rollback.go:70`).
- *A node given up too soon* (`StepsKeepTheirNodes`). A skipped step counts as
  over before its own needs are (`release.go:31`, `contract.go:1481`).
- *An approval refused for ever* (`ApprovalsAreAccepted`), *a step that grows the
  contract twice* (`GrowsOnce`, `expand.go:71`), *versions past the limit*
  (`VersionsBounded`): with one handler.
- *A plan that comes back without its rows* (RowsFollowContract without `crossed`).
  Plan A builds a question and a second planner, whose plan B is built on top. A
  is rejected, then B: `retirePlan` puts the version before B in force as it
  was (`ask.go:535`), with the steps of A, whose rows are gone. Found when the
  proof of RowsFollow failed; "the version before" is what came before
  only if nothing was taken back in between.
- *Steps of no contract begin* (RetiredStepsStayUnbegun without `crossed`): taking A
  back takes B's steps out of the contract as well, and deletes only the rows
  of A's own (`ask.go:569`): those of B are handed out. And a plan that builds the
  question about itself is rewound together with it: what had begun of it stays and
  begins once more, retired.
- *A lock file that protects nobody yet* (`LocksProtect`). Between making an
  entry's lock file and locking it another daemon's reconcile takes it for an
  orphan (`checkpoint_unix.go:147`, `checkpoint.go:369`).
- *A command refused because the last one was* (`NextRunStarts`). The helper sends
  run-done before its deferred reset (`runc_overlay_linux.go:1137`, `:1092`).
- *A lower that changed under a match* (`StrictlyUnchanged`). A lease that shows
  itself late is hidden by the advert that took the lock again
  (`lowerguard.go:172`, `:531`); see `excused`.
- *A reply to another question* (`AnswersTheirQuestion`). handleAnswer takes the
  open question, not the one that was replied to (`main.go:430`).
- *A Record that is never sealed* (`RecordsSeal`). A crash in the middle of the
  chmods leaves a folder the next sealer cannot write (`record.go:156`).

Seen on the way, without a property of their own:

- A loop sets skipped steps of its range to PENDING. If the fork that passed them
  by lies before the range, or is an acquire, which a loop never repeats
  (`rollback.go:69`), both roads are taken in the next pass, or a step waits for
  ever for a node that was not acquired (exempted by `ForksBeginAgain`).
- sealExpired runs only in a pass that reclaimed something and looks back an hour,
  while `reap.go:166` says it catches what ended while the Mediator was dead
  (exempted by `faults > 0` in SealsEventually).
- A check begins again without waiting for its target again: `validateBack` sets
  back the target and the checker (`rollback.go:129`), and the checker's needs are
  over if they are steps between the two. The new execution then reads its
  inputs while the target is still to write them (exempted by `Settled`, and by
  `ReleasesComeLast` where the target needs a node).
- Where retries nest (a check inside a loop, a chain of checks) an attempt goes
  back: the validator gets its target's attempt, the loop its own last step's,
  although `contract.go:1380` keeps `loop` and `validate_with` from one step so
  that they do not "desynchronize the attempt counter". A fork then follows what
  it chose before (exempted by `RetriesNest`).
- Validate accepts `dispatch`, `loop`, `release` and `validate_with` on an
  acquire, though nothing of `afterStep` runs for one: the first three are never
  applied, and the last lets a node claim the acquire as its own step (exempted
  by `AcquiresArePlain`).
- Validate accepts a release of a role that is taken only later. A node that is
  given up and taken again for another role keeps its old binding in
  `runs.assigned`, and releasing the new role then never frees it (`release.go`).
- An acquire after everything was given up inherits `max(not_after)` of no
  lease, which is NULL, and fails the step that reported.
- A target that a fork chose is skipped by a later fork that passes it by
  (`dispatch.go:66`); what was skipped along with a revived target stays skipped.
- Two acquires at once lose one binding in `runs.assigned` and may exceed
  `MaxLeasesPerRun` (exempted by `overlap`).
- OpenBlob serves by the end of a name (`record.go:400`); `chosen` is never
  cleared (`verdict.go:212`); a running step that is rewound stores under the new
  attempt (`api.go:1058`); a copy of an earlier attempt's report is accepted
  (`store/claim.go:1019`).
- The sweep of progress folders uses a list that is stale (`reap.go:131`) and
  reads a file's age before it has the lock; a chunk whose answer was lost comes
  twice.
- The native driver never compares the manifest's profile (`main.go:152`); a slow
  preparer's older profile overwrites a newer index.
- CheckChanged compares with `!Before`, the walks with `After` (`changed.go:217`).
- The adapter that dies between submitting and following submits a second Run
  when the first has ended (`main.go:264`); a lost answer to a submission kills
  the orchestrator of a Run that goes on.
- Reports queued after Commit are lost by a crash; an entry without a lock file
  stays until it is old and some daemon starts.

## 5. Proofs

Each `*_proofs` module extends the component's module and proves its theorems
for every value of the constants that meets the ASSUMEs of that module. The
candidate for each inductive invariant was an invariant of a TLC run first.

### RunLifecycle_proofs
For any sets of Runs, nodes, steps and requests and any number of faults, given
that grants are non-empty sets of nodes, a step's node is among its Run's
grants, and sentinels are no Runs or nodes:

- `TypeCorrect`, `GrantsAreWhole` (I1, I5), `NothingIsKept` (I2),
  `SealsComeAfterEnds` (I4), `EndsAreFinal`, `QueueIsWoken` (NoLostWakeup),
  `NobodyIsOvertaken` (NoOvertaking);
- `MediatorKeepsLedger`: RunLifecycle implements RunLedger under
  `phase <- Phase, holder <- lease`.

The inductive invariant is `IInv`. AllOrNothing is not inductive alone: a commit
of CreateRun preserves it only if the nodes are still free (`CreatingOK`); a
reclaim by the reaper leaves leases behind, and that they are the only ones is
`EndedHoldsNothing`, which needs that a verdict is written only with an end
(`VerdictIsLast`); that one scan promotes Runs with disjoint grants needs that
the queue is totally ordered (`QueueOrdered`). Sealing needs that whoever is
about to seal knows the Run has ended (`SealFollowsEnd`), which needs that
processes speak only of Runs in the table (`Known`). `ScanStartable` and
`StartKeeps` carry the queue scan once for the four transactions that contain
it; one lemma per kind of step follows; `LawfulStep` and `LedgerSimulation` turn
the invariant into the refinement. That the queue is woken rests on
`ScanLeavesNoneBehind`: what a scan leaves queued misses a node; that nobody is
overtaken on `ScanInOrder` and on `Arrivals` (who queued before whom is settled
when a Run is enqueued). An earlier wording of NoOvertaking was refuted by four
Runs, of which the oldest waits for a node that the scan gives to the second.

### ClaimProtocol_proofs
`TypesStay`, `OneLifeRuns` (NoRerunAcrossLives), `RerunNeedsGivingUp`
(RerunOnlyAfterGivingUp), `ExitsAreCurrent` (ExitIsCurrent), for any number of
steps, attempts, lives, calls on the way and faults. NoRerunAcrossLives speaks of
a history only; what makes it inductive is `Tied`: a row that is past its
beginning, an answer to a claim, the Worker's step and the history each tie an
attempt to a life, and `OneLife` says that they all name the same one. `Calls`
says which calls a Worker may have open and for what; `Restarts`, that an
attempt begun again in one life was dropped by the Worker while its report was
not in; `Exiting`, that whoever tells of an exit tells of one that happened.

### NodeStep_proofs
StepSession, for any number of commands, cancels and deaths of the helper:
`SessionIsSound` (the inductive invariant `SessionInv`), `CapturesAreWhole`
(CapturedIsWhole) and `AnswersAreMatched` (AnswersMatch). The last is the heart:
the requests in the pipe are at most one that is not a cancel, in front of
which the helper owes at most one answer, and which is the one the Worker is
waiting for (`Wires`); then `Mounts` and `Folders` follow the places of the
Worker and the helper, and `Receipt` what may be said by then. TLC has checked
SessionInv with two commands.

AgentStep, for any servers, artifacts, plans and problems: `HarnessRunsAsAsked`
(RunsAsAsked), `WholeWorkOnly` (OnlyWholeWork). `Progress` says what each place
of runAgentStep has decided; `Accounted`, what is known of the harness by then.

### SideParts_proofs
- IssueAdapter: `OneRunIsOpen` (OneOpenRun), `AllAreMinded` (NobodyIsForgotten).
  A goroutine that is about to submit has found all earlier generations over
  (`InTurn`), and an ended Run does not come back.
- LowerIdentity: `TheHalfIsTold` (HalfIsTold). Who has a phase in hand holds
  bake.lock or has read what the state still says (`Sound`, `OfLower`).
- PreparedEnvironment: `StartsArePrepared` (StartedIsPrepared). Only sealed and
  smoked folders are published and none changes (`StoreIsWhole`); what a
  process has read is in the store or was built by it (`MayGoOn`).
- Harvest: `OkMeansGathered` (OkIsComplete: what was collected is there or told,
  what is required is there or named as missing, the diff was made, and the
  workspace was walked unless there is none, which is told), `MeasuredMeansListed`
  (MeasuredIsComplete): what each stage has left behind, `GatheredSoFar`,
  `ToldSoFar`, `WalkedSoFar`, `ReportedSoFar`.

### CheckpointSpool_proofs
For any daemons, steps, sizes, policies, disks and number of crashes, given that
a daemon is not the name of a place and no step is not a step:
`SpoolInvariant` (the inductive invariant `SpoolInv`), `CapturedIsKept`
(CapturedStays), `OwnersAreSafe` (OwnersOnly). Neither property is inductive:
that a keeper which looked at an entry moves it later without looking again is
harmless because the step it belongs to either was raced, or will never take the
lock any more (`KeeperKnows`, with `NoSession` and `NoEntry`); that needs to
know what each place of a worker has already made of its files (`Own`), that a
flock has one holder, who still has the step or has left it to its keeper
(`LocksTell`), and that only who holds `spool/.lock` is going through the spool
(`OneKeeper`), which is why nobody resets `due` or changes a state behind a
keeper's back. `AllCaptured` says of the captured entries what the exemptions of
the property leave. `StepGoesOn` and `SpoolStays` carry the invariant once for
all workers and once for all keepers; each action's lemma supplies what it moves.
TLC has checked SpoolInv with two daemons, one step and one crash, and by
simulation with two steps.

### LowerBake_proofs
For any nodes, leases, Runs, crashes and resumptions, given that the node that is
baked for is a node and no node is not one: `BakeInvariant` (`BakeInv`),
`BakeDoneIsMerged` (HandedIsMerged), `RunsOnWhatItMatched` (UnchangedSinceMatch),
`MergesAlone` (MergeAlone, which is in no run). What makes them inductive is who
may write: whoever holds bake.lock is one place of one process (`BakerTells`,
`OfBaked`) and alone writes `state.json`; state, pending place and lower then
tell together how far a merge came (`LowerTells`, `SharedTells`), and what the
bake's Run may still be told (`Fate`). UnchangedSinceMatch adds the other side,
`MatchTells`: versions and marks of the lower only grow, so a guard that has the
lock again knows of every lease matched before, or its node is excused. TLC has
checked BakeInv on the constants of both bake runs.

### RunLeavings_proofs
RunOutcome, for every contract that Validate accepts: `OutcomeInvariant`
(`OutcomeInv`), `SuccessIsEarned` (SucceededIsEarned), `FailureHasAReason`
(FailedForAReason). The verdict is computed once and the rows do not change after
it (`Judged`); what is left to show is that the rows say what happened. `StepOk`
ties a claimed row to an execution at its node (`AtWork`) and the row's result to
the last execution or to a copy (`Tells`), `LateOk` says whose result a report on
its way can bring, `BlobsOk` that what was stored is in the Record. That a road
was chosen in the fork's last attempt needs that attempts of a fork and its
targets go on together (`Choices`), which holds unless retries nest: an attempt
that goes back was found when the proof failed.

`NewestAreRead` (InputsAreNewest) rests on the order of executions. `InOrder` says
that what a step waits for (`Waits`: through steps that begin again with it) is
over once the step has begun, or was passed by behind a fork that leads there
alone. A claim keeps it because the needs are over (`WaitsThrough`, along the
needs), going back because what brings the one back brings the other, a fork
because nothing on one road is revived once it was waited for (`StaysOver`,
`InOrderChosen`, by induction over the needs). `InputsInv` adds that the artifacts
of a settled name were stored in the order in which OpenBlob ranks them
(`LastIsLater`), so that what a step has read is the last one and nobody stores a
later one beside it (`ReadsNewest`). Two ways of reading an older one were found
when the proof failed, and are now in the property: a check that begins again
without waiting for its target (section 4; denied by `Settled`), and a late copy
of a report, after which a step at work stores for a row that has gone on
(`astray`).

RunRecord, for any attempts, output, lines, buffer and limit:
`TranscriptHasNoHole` (NoHole). `RecordInv` says, of every chunk whose handler has
not read it and of what each uploader still holds, that all bytes before it are
in the file, or the file is full, or a later attempt has it (`Flows`); `Held` and
`Pieces`, that buffer, flight and chunks are runs of consecutive bytes;
`OneAwaited`, that a node waits for one answer. A chunk that is sent twice or
breaks off then repeats bytes and leaves out none. TLC has checked RecordInv on
the constants of `leavings`, OutcomeInv on its contracts.

### RunReports_proofs
StepGraph, for every contract that Validate accepts, any fleet, handlers, `MaxLeases` and
faults: `GraphTypes` (TypeOK), `HoldingsStayInOrder` (HoldingsInOrder),
`RoadsNotTaken` (RoadsStayClosed) and `ReleasesAreLate` (LateReleasesAreSafe). The first part says per operator what it
returns: what a phase writes (`Written`), what an acquire does to the leases
(`Takes`), what a release does (`GivesUp`), how a failure ends (`Fails`).

`HoldInv` is HoldingsInOrder twice: of the leases as they are committed, and as
the open transaction will commit them (`TxHeld`), which is the only one while
`overlap` is false. Effects give up a node only together with the last role that
somebody still has of it; an acquire binds what it takes and counts first.

RoadsStayClosed speaks of committed rows, and transactions that overlap write
them. `RoadInv` therefore says of each transaction what may be said of it
alone: a row that was passed by does not wait (`RoadsFit`, `Closes`), and one
that lets the end of a road wait again does so together with every fork that
leads to it (`Reopens`); and of any two, that they write no row in common
(`Locks`), so that a commit does not undo what another relied on
(`RoadCommit`). Almost every phase writes only rows that do not begin to wait
(`QuietWrite`); going back is the other case (`BackIsGood`), and it is there
that `ForksBeginAgain` is needed. The property needs no exemption for overlap.
TLC has checked both invariants on the contracts of `reports`.

LateReleasesAreSafe holds however transactions overlap, and needs three more
invariants. `Does` sums up what any one step of a transaction may do
(`HandleDoes`), so that each invariant is shown once for all of them.
- `RowsInv`: what acquires look like (no node before they are done, nobody ends
  them), whose transaction the open one is, and that the one that creates the
  Run is alone.
- `OrderInv`: what a step waits for (`Waits`) is over once it has begun, in what
  is committed and in what each transaction sees (`Sees`). Another's commit may
  change what one sees; `Recalls` says that ends are taken back only with all
  that begins again with them, which a transaction that overlaps has locked. So
  by the time of a release its users are over (`UsersAreOver`).
- `LeaseInv`: which node is whose. A binding is `Old` if it is committed, or was
  read by somebody who has not just acquired it; a transaction that was open
  when another gave a node up goes on with what it read. An old binding's node is
  held, or its role was given up (`RolesHeld`); two roles have one node only if
  both are the Run's or one was given up (`RolesApart`); a node is taken or given
  up only when its other roles were given up before (`MovedIsGivenUp`), and not by
  two at once (`MovedOnce`).
The condition could not be weaker in the obvious way. That the users of a role,
and whatever brings them back, are over before the release is not enough: a
check brings back its target and itself but not the step between, so the release
behind the check does not wait for the target again (`Gap`, one of the contracts
of `reports`). TLC has checked the three invariants on the contracts of `reports`.

PlanColumn, for any contracts that Validate accepts (`PlansAccepted`, which TLC
evaluates in `reports`) and any plans whatever they say, any limit and handlers:
`PlanTypes` (TypeOK), `RowsFollow` (RowsFollowContract), `RetiredStayUnbegun`
(RetiredStepsStayUnbegun) and `ColumnGrows` (ColumnOnlyGrows and ApprovalsStand,
which are in no run). `PlanTyped` adds to the types what an open transaction
holds: the column it has read was a column, its step is one of it, and what it
writes is Valid since Valid was asked before. It needs no `overlap`. `PlanFollow`
holds as long as transactions follow each other: what a transaction has read is
still the column (`Current`), the rows bear the names of the contract in force
at their places (`Follows`), and what waits stands in the contract in force
(`Stand`). A plan is taken back by
names and a contract is found by places; `LeftFollows` shows that the rows that are
left are again those of a prefix of the contract, for which the earlier version
must be a prefix of the one in force: precisely what "revived" denies. TLC
has checked both invariants on the six contracts with one handler, and on
those of two steps with two.

### Only model-checked
Everything temporal (SealsEventually, LateIsReclaimed, OrphansClose,
ClaimsComeBack, RunsEnd, DeadReservationsGo, StepEnds, BakesEnd): liveness under
fairness is out of the prover's reach. `Implements`: the merge walks a tree by
recursion over data.

## 6. Plan

Done: every component of section 1 but the last row has a module, a run and,
where listed above, proofs. Left, in order of what they would say:

1. A queue whose fleet comes and goes (adverts, drains, SKIP LOCKED), with an
   abstract FIFO allocator as its specification; the matcher as an operator.
2. CreateRun's matching against adverts that change between read and commit.

Properties that stay in the modules as statements but are in no run, because
the runs are better spent: those of section 4, and SuccessMeansDone,
CancelledIsQuiet, Settles, EndedFreesNodes, RevokedStops, OutcomeStays,
MergeAlone, AttemptsBounded, AttemptsGrow, ReportsAreCurrent, GraphEnds,
JoinsAreServedAlone, ColumnOnlyGrows, ApprovalsStand, PlansEnd, DiscardsHidden,
MarkIsLast, AllIsUp, SealedStays, BlobsKeepTheirAttempt and TranscriptGoes.
TLC found all of these true on the instances above; put into a cfg, each takes
a minute. MergeAlone, ColumnOnlyGrows and ApprovalsStand are proved (section 5).

**Not modelled**: match.go and the fields of single steps in a contract (pure
functions over data the models abstract to a choice); prompts, envelopes,
transcripts and the panel (text); process groups and pid files of enodectl;
runctl (a stateless client); network and disk beyond "fails" and "does not
answer". PROJECT.json says per component what a module leaves out.

## 7. Running

    tlc -workers 2 -config LifecycleContend.cfg MCRunLifecycle
    tlc -workers 2 -config LifecycleLive.cfg MCRunLifecycle
    tlc -workers 2 -config ClaimAll.cfg MCClaimProtocol
    tlc -workers 2 -config Reports.cfg MCRunReports
    tlc -workers 2 -config Leavings.cfg MCRunLeavings
    tlc -workers 2 -config SpoolAll.cfg MCCheckpointSpool
    tlc -workers 2 -config NodeStep.cfg MCNodeStep
    tlc -workers 2 -config BakeSafe.cfg MCLowerBake
    tlc -workers 2 -config BakeLive.cfg MCLowerBake
    tlc -workers 2 -config SideParts.cfg MCSideParts
    tlc -workers 2 -config GraphJoins.cfg MCStepGraph
    tlc -workers 2 -config OutcomeAttempts.cfg MCRunOutcome
    tlapm RunLifecycle_proofs.tla      (and the other *_proofs.tla; RunReports_proofs takes about a quarter of an hour)

An operator commented as a *slip* is a plausible mistake at the place of the
operator that follows it. No specification uses it: put in that operator's
place, it makes the property named in `PROJECT.json` fail.
