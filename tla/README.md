# TLA+ models of renquant-orchestrator

This directory models the parts of `renquant_orchestrator` that carry state
across steps, processes and crashes: the Stage-2 live tick executor with its
persisted canary envelope, the session runner that decides whether a live session
may start, the shadow session scheduler with its replay audit, the agent control
plane, and the weekly retrain with the seal of the serving pair. TLC checks the
modules on small instances; TLAPS proves every safety property that a passing run
checks, for all parameters, and leaves the liveness properties to TLC.

    tlc -config live_entries.cfg MCLiveExecutor      # one run
    tlapm LiveExecutorProofs.tla                     # one module's proofs

`PROJECT.json` lists the components, the runs, the correspondence of every
definition with source lines, the findings, the hazards and the theorems.

## 1. Inventory of the system

The package is a Python orchestrator around separately owned repositories
(pipeline, execution, artifacts). It holds no strategy logic: it schedules,
gates, persists, reconciles and reports. What is on disk (JSON, JSONL and SQLite
files under the operator's data root) is the only state that survives a process.

| Component | State | Operations | Interacts with | Hard behaviour | What makes it correct |
|---|---|---|---|---|---|
| Live tick executor (`intraday_live_executor.LiveTickExecutor`) | in-memory order-state book, its snapshot `order_state_book.json`, dead-man counter | begin_session, process_tick, close_session, submit, cancel, poll | broker port, envelope, action journal | crash between broker call and snapshot, lost answers, retries, partial fills | journal before broker, entry cap, halts respected, exits never blocked, no overfill |
| Canary envelope (`CanaryEnvelopeTracker`, `Stage2Authorization`) | `stage2_canary_state.json`: sessions, positions, P&L, trip | begin_live_session, record_fill, evaluate_budget | executor, arming gate | several authorizations over one file, two files not written together | ceiling, sticky trip, every fill counted once |
| Session runner and arming gate (`intraday_session_runner`, `resolve_stage2_arming`) | what it read of the operator's files; port and executor it built | main, run_session, _run_live, _run_shadow | operator, calendar, executor, providers | operator edits between reads, restarts, kill switch | paper evidence never meets a real broker; orders only in window, on session days, in counted sessions |
| Shadow scheduler (`intraday_session_scheduler`) | tick log, manifest, counters | run_session | providers, kill switch, replay audit | transient failures, restarts, duplicate ticks, kill file | log, manifest and counters agree; entries inside their window; an honest session passes its audit |
| Software stops (`software_stop`) | positions, triggered stops | load_positions, evaluate_tick | runner | re-trigger, missing quotes | a stop fires once and is sent |
| Session inputs (`intraday_session_inputs`) | none (reads DB and broker) | snapshot, load_frozen_daily_signal | scheduler, runner | stale or future-dated signals | only a signal from before the session |
| Execution reconciler and intent store (`execution_reconciler`) | SQLite intents and their states | record, transition, reconcile | broker | restart in mid-transition, late answers | legal transitions only, no intent lost |
| Agent control plane (`agent_automation_poller`) | SQLite: event inbox, work items with lease, fence and round | ingest, claim, acquire, transition, apply, recover, cancel | GitHub, fix executor, operator | concurrent pollers, expired leases, crashes, late events | one live fix per pull request, each event takes effect once and none is lost, stale holders fenced |
| Agent breaker (`agent_breaker`) | daily order and notional counts | check, record | pipeline | limits, day change | caps hold |
| Agent PR workflows (`agent_workflows`) | none (GitHub is the state) | resolve queue, review, merge | GitHub | stale heads, concurrent pushes | only an approved head is merged |
| Crypto session (`crypto_session`) | session log | run_session | gates, providers | 24/7 rollover | one session per window |
| Deployment pin and manifest (`deploy_pin`, `deployment_manifest`) | pins, manifests | capture, verify | git | none that is stateful | what runs is what was pinned |
| Weekly retrain (`retrain_alpha158_fund`) | bars, panel, raw-label corpus with provenance and receipt, scorer, calibrator | refresh, guard, build, merge, certify, train, refit, stamp | data feed, operator's exclusion registry, subprocesses | crash between files, swallowed failure, inputs that change between reads | only vetted names in the panel, only a corpus in lockstep is used, a calibrator belongs to its scorer |
| Bundle seal (`bundle_seal`) | bundle store, flat views | preflight, publish, regenerate views | retrain, artifact store | reads and replaces two files beside a retrain | the sealed pair belongs together |
| Native live run and persistence guard | run context, guard verdicts | hydrate, guard, commit | pipeline, execution | identity changes between check and commit | fail closed |
| Model freshness, identity, staging | ledgers, registries | scan, recommend, stage | artifact files | stale reads | no silent model swap |
| Shadow A/B and G4 lanes | evidence ledger | run arm, append | pipeline | one arm failing | arms isolated, ledger immutable |
| Loggers, entry timing, governors | append-only logs | observe | scheduler | none that is stateful | observe only |
| Daily orchestration, scheduled jobs, other training | files of each stage | run stage | subprocesses | a stage failing | order of stages, exit codes |
| State backup, cloud sweeps | snapshots, result rows, spend | back up, sweep | git, Modal | partial failure, retries | spend cap, no lost row |
| Monitors, reports, risk budget, CLI | none | compute, print | - | - | - |

Concurrency here is mostly not threads: it is a process against its own crash,
against the broker and against the operator who edits files while it runs. The
exceptions are the agent pollers, which share one database, and the seal, which
runs beside a retrain on the same two files.

## 2. Plan

Order of work, most important behaviour first.

1. Done: `OrderBook`, `LiveExecutor`, `LiveExecutorProofs`.
2. Done: `Envelope` (abstract), `SessionRunner`, `SessionRunnerProofs`.
3. Done: `AgentStore`.
4. Done: `ShadowScheduler`.
5. Done: `Retrain`, which composes the retrain and the seal.
6. Done, proofs: `RetrainProofs`, `ShadowSchedulerProofs`, `AgentStoreProofs`,
   and for the executor `BrokerBookProofs` and `EconomyProofs`.
7. Next: `IntentStore` (order intents and restart reconciliation, against an
   abstract life cycle of an intent), the software stops inside `SessionRunner`,
   `CanaryLedger` (average cost and marked P&L in integers), the agent breaker,
   the crypto session and the persistence guard.

## 3. The modules

### OrderBook
Operators on the order-state book, one record per parent intent: target,
cumulative fills, attempt number and the one open child. The class itself is in
another repository (`OrderStateBook` of the execution package) and is modelled
from how the executor uses it (marked external); `EntryNotionalSubmitted` and
`WithinCap` are the executor's own `entry_notional_submitted` and
`assert_entry_cap`.

### LiveExecutor
One executor process at a time over several trading days, with the broker.

| Variable | Code |
|---|---|
| `book`, `dm` | `LiveTickExecutor.book`, `DeadManSwitch` (memory) |
| `disk` | `order_state_book.json` |
| `canary` | `stage2_canary_state.json` (sessions, trip, units counted per order) |
| `journal` | `intraday_live_actions.jsonl`, the write-ahead lines |
| `call` | the broker call under way |
| `broker`, `pushed` | the broker's orders of the day, BUY notional it accepted |
| `pc`, `todo`, `work`, `seen` | position inside `process_tick`, `begin_session`, `close_session` |

A mutating broker call is three steps, because a crash between them matters:
book and journal (`SubmitPrepare`, `CancelPrepare`), the broker
(`SubmitCall`, `CancelCall`), the answer (`SubmitApply`, `CancelApply`). The
broker may accept and the answer be lost. `process_tick` is the chain stale
cancels, polls, exits, exit chase, loss budget, entries, snapshot. `Crash` cuts
the chain anywhere and keeps `disk`, `canary`, `journal` and `broker`.

`Held` is the book of the running process, or the one that the next process of
the day starts from; `NoOrphans` and `EconomicInvariant` compare it with the
broker, so they say something about an orderly restart too.

Data is abstracted: prices and quantities are small naturals, P&L is left to the
market (any evaluation may trip), DAY orders vanish overnight.

### Envelope
What an envelope promises, in two actions: use a day below the ceiling, trip
once. `LiveExecutor` implements it with its persisted state
(`ImplementsEnvelope`), `SessionRunner` once per authorization with the
histories of the runs (`EnvelopePerAuthorization`).

### SessionRunner
The operator (authorization, section 9.4 file, kill switch; any edit at any
time) and processes that read those files one after the other.

| Action | Code |
|---|---|
| `Launch` | `main`: configuration, wiring of `port_factory`, first read of section 9.4 |
| `CheckSection94` | `check_section_9_4_authorization` called by `run_session` |
| `Arm` | `_evaluate_arming` and the branches of `run_session` |
| `ShadowEnds` | `_run_shadow` |
| `BuildExecutor` | port, paper check, executor and envelope tracker |
| `BeginSession` | `begin_session`, then the calendar |
| `LoopStops`, `LoopTicks` | top of the loop |
| `Tick`, `TickInputFails` | `process_tick`, or a provider that raises |
| `CloseSession` | `close_session` |

`used`, `spent` and `past` are history variables: no guard of the process reads
them; `past` only limits the operator (`MayReinstall`). The reads inside one
`resolve_stage2_arming` call are one step: the authorization is read once and
passed on, the other files are not written by anybody else in that time except
the kill switch, which the loop reads again.

### AgentStore
Poller processes over one SQLite store. Each transaction of the store is one
step; the processes interleave between any two.

| Variable | Code |
|---|---|
| `items` | table `work_items`: state, superseded and cancel flags, lease, fence, attempt |
| `ledger` | table `processed_events`, the durable inbox with its claims |
| `arrived` | the order of the rows in the inbox |
| `pc`, `job`, `todo`, `sweep` | where a process is inside `ingest`, `tick` or `startup_recover`, the event in hand, what is left of its pass (a set, taken in order of arrival) |
| `aborted`, `effects`, `robbed` | histories: operator cancellations, final transitions committed per event, rows whose live lease a sweep took |

A delivery is claim, route (supersede other heads, fold a later request into a
running one), acquire, begin, execute, commit together with the applied mark,
release. `Contended` is `_handle_lease_contention`, `RoundDecision` the round
cap, `ListExpired` and `ReconcileOne` the two halves of
`reconcile_expired_leases`. A crash leaves leases and claims behind; they end by
`LeaseExpires` and `ClaimExpires`. A lease that runs out under a holder that is
still at work is an overrun, bounded by `MaxOverruns`. `ExecutorCancelled` is taken
at its word, as in the code: the outcome "cancelled" is an executor that raises it
only when the row's flag asks it to, "quits" one that raises it of its own accord.

### ShadowScheduler
One exchange day of the shadow session. `proc` is the process (gates, counters,
tick index, consecutive failures), `log` the lines of the day in
`intraday_decisions_shadow.jsonl`, `manifest` the session manifest as last
stamped. `Start` and `Load` are `main` and the head of `run_session`; `Cycle` is
the top of the loop with kill file, phase and close; `ReadFails` and
`TickRaises` are the retries of the broker read and what escapes them;
`SkipTick`, `Halt`, `RunTick`, `StampTick` are the outcomes of a tick. `EndCycle`
sleeps or leaves the loop, and `LastStamp` is the stamp after a loop that ran out of
cycles, so that a crash may fall between the two. How many entries a tick decides
is the external tick runner's: it keeps within the cap given the counters it is
handed, and `CountersMatchDecided` is about those counters.
`Mismatches` is what `replay_session` finds when it replays the day.

### Retrain
The weekly retrain, one step per file it writes or verdict it takes, and the
seal of the serving pair, on the same files.

| Variable | Code |
|---|---|
| `session`, `bars` | exchange calendar, newest bar of each ticker on disk |
| `registry` | the reviewed exclusion registry |
| `job` | `RetrainContext` and the position in the pipeline |
| `disk` | effective inventory, panel, raw-label corpus, its receipt and provenance |
| `pairs` | scorer and calibrator of the prod and the staging slot: which run wrote the scorer, which scorer the calibrator was fitted on and which it claims |
| `seal`, `store` | `seal_serving_pair` under way; PREPARE record and ACTIVE pair |
| `lost` | history: a flat view replaced other bytes |

`Start` to `GuardVerdict` are refresh and freshness guard, `BuildPanel` and
`MergeFund` the panel, the `Sigma` actions `RefreshSigmaHeadRawLabelTask`, and
`TrainScorer`, `RefitCalibrator`, `StampCalibrator` the rest. Every subprocess
may fail. `SealReadScorer` to `ViewCalibrator` are the seal with or without
views; preflight and view check read the two flat files one after the other, in
steps of their own, and the views are only checked if they are asked for. The
external store seals one pair in a behaviour. `Admissible` is what this repository
tests before a corpus is used: it is there and has no receipt. `DigestsMatch`, the
comparison of the provenance with the bytes on disk, is made by the trainer of the
umbrella repository and is marked external. The stale fraction the guard tolerates is the default, none; a universe
given as an explicit list is left out.

## 4. Runs

All bounds are named constants: `MaxAttempts` (orders per parent), `MaxDay`,
`MaxCrashes` and `MaxLost` (per day in `LiveExecutor`, in all in
`SessionRunner`), `MaxEdits`.

| Run | Checks | Instance and why it is enough |
|---|---|---|
| `live_entries` | TypeOK, JournaledFirst, HaltsHold, SessionCeiling, CapPerIncarnation, EntriesRespectHalts, ImplementsEnvelope | two BUY names, one off the allowlist and one sized 2 then 1, two attempts, three days with two slots, a crash and a lost answer a day: every skip, halt and refusal occurs, the hard assertion fires, a crash forgets notional, and a session is opened on the day after a trip |
| `live_exits` | EconomicInvariant, NoOvercount, NoOrphans, ExitsChased, ChildrenReachSnapshot | a two-unit SELL under fairness: partial fills, cancels that fail, rejections, a crash, a lost answer |
| `runner_gates` | TypeOK, PaperFloorNeverReal, OrdersAccountedFor, TripIsFinal, EnvelopePerAuthorization, KillHalts | under fairness, two authorizations with different evidence, windows and ceilings, three days of which one is a holiday, two edits, one crash |
| `agent_recovery` | TypeOK, NoLostWork, OneFixPerPR, InboxDrains | under fairness, two pollers, a change request and an approval on two reviews of one head, an untracked legacy row, a crash, an operator cancellation: contention, deferral, recovery and expiry all occur |
| `agent_fencing` | GenerationsDiffer, RoundsAskedFor, ExactlyOnce | a change request and an approval that share a row, a legacy inbox row for a newer head, a dry-run poller, an executor that exports patches or quits unasked, a crash and an overrun: rows are taken over from a live holder, live leases are swept away and a fix is resumed by the other event |
| `shadow_session` | TypeOK, IndicesContiguous, TicksBacked, CountersMatchDecided, EntriesInWindow, OutageIsSustained, HonestSessionAudits, TicksGated, SessionEnds | under fairness, five ticks of clock, two processes, a long, a short and no session, five configurations, a cap of one entry for two names, two failures in a row ending the session |
| `retrain_and_seal` | TypeOK, PanelVetted, ProvenanceIsLockstep, SigmaVerdictHolds, ServedPairFit, SealedPairFit | two tickers, one without bars yet, two runs, one registry edit, one further session, a seal at any time: every abort, crash point and interleaving of the two processes |

Further bounds: `MaxCrashes`, `MaxOverruns` and `MaxRounds` in `AgentStore`,
`MaxTime` and `MaxStarts` in `ShadowScheduler`, `MaxSession`, `MaxRuns` and
`MaxEdits` in `Retrain`.

`CHECK_DEADLOCK FALSE` is set where the system may stop: in `live_entries` the
third day has no slot left, a day of the shadow session ends, a store without
events rests, and the retrains are bounded.

Fairness in the order path is weak fairness of `ProcessStep`, the steps of a
running process: the loop is sequential, calls return or raise. Nothing is
assumed of the market, the operator, or of anybody starting a process. The
liveness properties therefore have "or the process is down" as an outcome.
`ShadowScheduler` adds weak fairness of the clock, since the loop leaves at the
close. `AgentStore` has it for each poller: `run_poll_loop` calls `tick` at every
interval as long as the process runs. That a crashed poller is started again is an
assumption about the deployment, on which `startup_recover` rests too. It also has
it for the expiry of a lease or claim whose owner has gone: the expiry is a time
stamp in the row.

### Runs that refute a statement of the repository

| Run | Statement | What happens |
|---|---|---|
| `cap_after_crash` | the cap is "restart-safe" because it is recomputed from the persisted book | the book is written at the end of the tick; an entry filled before a crash is unknown to the next process, which spends the cap again |
| `retry_after_lost_answer` | retries can never make the filled total exceed `target_qty` | a submit whose answer is lost is booked as rejected; the chase sends the remainder again |
| `reinstalled_authorization` | only a new recorded authorization clears the trip | A, B, A: the archive is never consulted, A starts fresh |
| `stale_head` | an event of a stale head never acts on the current head | `supersede_stale` cancels the rows of every head other than that of the event in hand, the newer ones too |
| `restart_drops_ticks` | one line per tick in the decision log | a process restarted within the day counts its ticks from zero; the log drops them as duplicates, the manifest counts them |

What does hold next to each of them is checked too: `CapPerIncarnation` bounds
the loss of the cap to one cap per crash, `NoOvercount` holds without a crash,
`EconomicInvariant` and `NoOrphans` hold without a crash or a lost answer, `TripIsFinal` holds unless an authorization is put back,
`PaperFloorNeverReal` holds whatever is edited. Further statements that the code
does not keep are under "Where the promise is narrower than the document" below.
One behaviour the model has is
worth knowing although no document speaks against it: `BeginSession` uses up a
slot before the calendar is asked, so an armed start on a holiday costs a slot.
Of `stale_head` and `restart_drops_ticks`, what holds is that work is neither lost
nor done twice (`NoLostWork`, `ExactlyOnce`) and that the log itself stays
contiguous (`IndicesContiguous`, `TicksBacked`).

`ServedPairFit` holds up to the first overwrite recorded by `lost`: the views
compare first and replace afterwards, so a retrain that writes in between loses
bytes, and the stamp, which reads the scorer again, may then bind a calibrator to
a scorer it was not fitted on.

### Where the promise is narrower than the document

These disagreements have no counterexample run of their own. The property that is
checked instead states its condition, and the condition is what the document lacks.

- **One fix per pull request.** `StateStore` says that the lease gives at most one
  fix in flight per pull request (`agent_automation_poller.py:510`), and so does
  section 6.2 of the closed-loop design (line 281). `reconcile_expired_leases`
  selects the expired rows and then clears each by its key alone (1228-1243). A
  poller that starts up may therefore clear a lease that another one took in
  between, after which the holder goes on working and a third acquisition, of the
  same row or of another review, succeeds: two executors work on one pull request.
  The model reaches this with two pollers and one crash. `OneFixPerPR` speaks of
  what processes do, not of stored leases, and exempts exactly the pull requests of
  which a sweep has cleared a live lease (`robbed`), and leases that overrun.
  `ExactlyOnce` and `GenerationsDiffer` need no exemption for the sweep.
- **Rounds per pull request.** The design asks for a hard `max_rounds_per_pr` (8.1,
  line 363). The code counts rounds in the row, whose key is repository, pull
  request, head and review; every pushed fix makes a new head and a new row (line
  250 of the same document) that starts at zero. The cap bounds the rounds of one
  review of one head, which the guard of `begin_fix_round` says by itself, and
  nothing bounds the rounds of a pull request, so no property states a cap.
  `RoundsAskedFor` says the other half, that the counter is not inflated: no crash
  or redelivery adds a round that no event asked for.
- **An approval that resumes a fix.** A row that a crash left in FIXING is resumed by
  whatever event reaches it next, also by an approval of the same row, which is then
  marked applied with the resumed fix; the change request afterwards begins another
  round. `RoundsAskedFor` therefore counts events of every kind, not change requests.
- **A usable raw-label corpus.** That the corpus exists and has no receipt does not
  make it fit the panel: after a crash between the merge of the fundamentals and the
  sigma step, or after a run without that step, an old corpus is beside a new panel.
  The docstring (1321-1336) says that this check is one half of the contract.
  `ProvenanceIsLockstep` is about the other half: a corpus whose provenance names
  the files on disk is in lockstep with them.
- **Transient failures end a session only in a row.** `OutageIsSustained` is about the
  halt after failures in a row. A backoff that runs over the deadline of its read ends
  the session at once, as an error that no longer counts as transient; that halt is
  exempt.

## 5. Proofs

Assumptions: those named in the modules (`ParentsAssumption`,
`AttemptsAssumption`, `CapAssumption`, `AllowedAssumption`,
`BatchesAssumption`, `BoundsAssumption`, `AuthsAssumption`,
`RunBoundsAssumption`, `ShapeAssumption`, `BoundAssumption`, `NoneAssumption`,
`ScheduleAssumption`, `InputAssumption`, `RetrainAssumption`), which say that
constants have their types; beyond that, that a retrain has at least one command
line, that a gate state of the shadow session is not the mark for "none", and that
the rows that predate the inbox are finitely many. TLC evaluates them in every run.

**LiveExecutorProofs.** Lemmas state what each book operation preserves (type,
gross notional, halt). `IInv` is the inductive invariant:

- `ProcessInv`: outside a session no call is pending and the dead-man counter is
  fresh; a process that is up runs on a counted day;
- `SendingInv`: a submission that has not reached the broker is journaled, and if
  it is a BUY the book is not halted and the name allowed. Without it
  `JournaledFirst` and `EntriesRespectHalts` are not inductive, since the broker
  acts one step after the guard was evaluated;
- `CapInv`: with `Owed` the notional booked but not yet handed over, and
  `Recorded` what the snapshot knows of the day,
  `pushed + Owed <= crashes * Cap + book.gross` while up and
  `pushed <= crashes * Cap + Recorded` while down. A crash forgets at most
  `book.gross <= Cap` and adds one to `crashes`, which is why the theorem is
  `(1 + crashes) * Cap`;
- `SessionCeiling`, `HaltsHold`, `JournaledFirst` themselves.

Theorems: `TypeCorrect`, `InvCorrect`, `JournaledFirstCorrect`,
`HaltsHoldCorrect`, `SessionCeilingCorrect`, `CapCorrect`, `EntriesCorrect`
(an action property), `EnvelopeImplemented` (the refinement: every step is a
`Use`, a `Trip` or a stutter of the abstract envelope).

**SessionRunnerProofs.** `Inv` follows one process: an admitted process is in the
window of an authorization with the evidence its mode needs, a built port is
real only in a non-paper process, a trading process is on a counted session day.
It gives `RunnerTypeCorrect`, `PaperFloorCorrect` and `OrdersCorrect`.
`HistoryInv` is about the one state file that serves all authorizations: it
holds the history of the authorization it names, and any other authorization
with a history has been replaced. It is inductive only if no replaced
authorization comes back, so `TripFinalCorrect` and `EnvelopeOfEach` assume
`~MayReinstall`; the run `reinstalled_authorization` shows that the assumption
is needed.

**BrokerBookProofs** and **EconomyProofs** compare the book with the broker. The
guards of the executor only read the book, so each property needs what a book that
is behind the broker still knows about it.

- `PendingInv`: the children a phase still has to cancel or poll, and the child of
  the call under way, are open in the book; an answer reports no more than the
  broker filled. A child that is closed in one place would otherwise be booked again
  from a stale list in another.
- `CountInv` (on a day without a crash): nothing is counted of a child that does not
  exist yet, no more than the book knows of an open one, and never more than the
  broker filled. The middle part is what makes the three delta bookings right:
  `NoOvercountCorrect`.
- `WorkingInv` (without a crash or a lost answer): `Fits`, every live order is the
  open child with the same quantity and is not full, no child beyond the current
  attempt is known to the broker; `CallFits`, the child that an answer is about to
  close is no longer worked. The result is `NoOrphansCorrect`.
- `EconInv`: `Balanced`, for every parent the units filled over all of its
  children are those booked in `cum` plus the fills of the open child that were not
  reported yet, and `cum` plus the rest of the open child is within the target;
  `AnswerFits`, a successful cancel reports the last fill and a refused submission
  was not taken; and no snapshot is from a later day. `Total` counts the units as a
  set of (attempt, unit) pairs, so that a fill changes it by its difference
  (`TotalBump`) without induction over the attempts. The result is
  `EconomicInvariantCorrect`; that faults must be excluded is shown by the run
  `retry_after_lost_answer`.

**RetrainProofs.** Four invariants follow the data from file to file.

- `FreshInv`: bars only get newer and the effective inventory is the guard's own, so
  what the guard saw still holds when the panel is built (`PanelVettedCorrect`);
- `RunInv` and `LockstepInv`: panels and corpora get identities that no provenance on
  disk can name yet, and a provenance that names both files was written when they
  were in lockstep; a verdict other than "none" agrees with the receipt
  (`ProvenanceCorrect`, `SigmaVerdictCorrect`). The hypothesis of
  `ProvenanceIsLockstep` is the external comparison of digests; of a corpus that is
  merely admissible the conclusion is false. Without `RunInv` an old provenance
  might name the panel of a later run;
- `PairInv`: until a view overwrote other bytes, a stamped calibrator is fitted on
  the scorer it names, and just before the stamp on the one that is on disk
  (`ServedPairCorrect`);
- `SealInv`: only one pair is ever sealed, and the pair between preflight and
  activation belongs together whatever a retrain writes meanwhile
  (`SealedPairCorrect`).

**ShadowSchedulerProofs.** `GateInv` says what is known of a process past the gates,
the load and the phase of a tick; the types rest on it. `LogInv`: the index of a
process never runs ahead of the log, since the line comes before the count
(`ContiguousCorrect`, `TicksBackedCorrect`). `OutageInv`: the failures in a row are
the last skips, all of one index (`OutageCorrect`). `AuditInv`: as long as one
process made the whole day, every line replays and the manifest it stamps last
agrees with the lines (`AuditCorrect`). `CountersCorrect`, `WindowCorrect` and the
action property `TicksGatedCorrect` follow from the types and the shape of a tick.

**AgentStoreProofs.** A transaction touches the rows in one of two ways (`RowStep`):
it keeps every generation and occupies no row, or it is the winning compare-and-swap
of `acquire`. From that follows, with `FenceInv` (a process carries a generation
that was handed out to it alone), `GenerationsCorrect`. `OneLive`, at most one
live lease on the active rows of a pull request, is not enough for `OneFixCorrect`,
since a process does not stop when its lease goes: `StillHolds` adds that a process
in the middle of a fix still has its lease unless it ran out or was swept away.
`RoundInv` charges each round to an event: all rounds of a row but the one in flight
are paid for by events of it that committed, and that one by another that arrived,
whence `RoundsCorrect`, for any finite set of events. `OnceInv`: as long as no lease ran out under its holder, the
process that drives an event has its claim to itself, and a committed event is
applied or its row final (`OnceCorrect`). `WorkKeptInv`: an event is marked applied
only once it is answered. `NoLostCorrect` has three hypotheses, all about what the code does on purpose.
No poller runs dry: a dry run marks its events applied without doing anything. No
executor quits unasked: the poller takes that for an acknowledged cancellation. And
no fix ends in a patch, as in the run `agent_recovery`: a recovery pass that listed an
expired lease before the row was acquired again may clear the new lease, a second
generation then takes the row, and the patch of the first is discarded and its event
marked applied before the second has finished. Leases that run out under their
holders need not be excluded.

Only model-checked: the liveness properties (`ExitsChased`, `ChildrenReachSnapshot`,
`KillHalts`, `SessionEnds`, `InboxDrains`), since fairness and `ENABLED` are out of
this prover's reach. The five refutations are runs, not theorems: each is a
counterexample on an instance.

## 6. What is not modelled, and why

- A cancel that the broker only acknowledges (`pending_cancel`): the port is
  external and the code treats a cancel that returns as final.
- The parent-id lockstep check and the contents of logs, manifests and journal
  outcome lines: nothing reads them back.
- Corrupt or unreadable state files: the code refuses to start, which is the
  same as not starting.
- Average-cost P&L (planned, `CanaryLedger`).
- Two runner processes, or two retrains, at the same time: the code has no lock
  for it and no document says that it may happen; the models have one process.
- A write that is torn by a crash (a log line, the calibrator's `write_text`): an
  append or a write is one step.
- The bundle store's own recovery, GitHub, the feed and the trainers: external,
  modelled by what the code here uses of them.
- The remaining components of section 1; section 2 has their order. The other
  training, numerical and reporting code stays out: it keeps no shared state that
  a model checker could reach.
