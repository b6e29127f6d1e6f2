# AlphaTrade-AI: TLA+ verification of its execution, exit and Telegram protocols

AlphaTrade-AI is an assistant for discretionary and automated trading. Most of it
proposes: it reads markets, ranks setups, talks to a user. The part where a mistake
is expensive is small: what happens between "this plan may be executed" and "the
books agree with the venue". This project models that part: the kill switch and
safety epoch, the account risk ledger, the authorization and atomic claim of a plan,
the dispatch of at most one order to the BloFin demo venue, and its reconciliation.
Around it, it models the two other places where several actors write the same durable
state: the closing of paper trades over the account's risk breakers, and the Telegram
worker with its outbox, its nonces and its polling cursor.

All paths below are relative to `src/backend/src/app/`.

## 1. Inventory

| Component | State | Operations | Hard behaviour |
|---|---|---|---|
| Kill switch and safety epoch (`services/risk/kill_switch.py`, `services/safety_epoch.py`) | `kill_switch_state.active`, `account_safety_epoch.epoch`, `blocking` | activate (operator or reconciliation), deactivate | must fence commands claimed before it at every later point, also after it is turned off |
| Risk ledger (`services/safety_epoch.py`, `services/execution_fills.py`) | one accounting row per account, one reservation per allowed command | charge, convert a fill, release the unused part, release an exit, roll the day | several writers, releases that can meet late fills, amounts at their limits |
| Authorization and claim (`services/approval_service.py`, `services/execution_claim.py`, `services/demo_account_history.py`) | authorizations, idempotency bindings, commands, receipts, effects | issue, revoke, expire, claim (ALLOW or BLOCKED) | idempotent replays, an issue that races a claim, one open demo entry per account |
| Dispatch (`services/venue_submit_dispatcher.py`, `services/execution_dispatch_boundary.py`, `providers/exchange/governed_blofin.py`) | effect state, owner, fence, uncertainty, disposition | lease and authorize, consume, gate, POST, record the answer, recover | two workers, crash around the POST, lost answers, a kill at any point |
| Reconciliation and lifecycle resolution (`services/governed_blofin_demo.py`, `services/demo_lifecycle_resolution.py`) | receipts, fills, reservations, resolutions | look up the order, record order/fills/end, observe the exit, resolve, hold | two venue reads with no lock between them, stale evidence, a bounded batch |
| Paper fill (`services/execution_service.py`, `services/automated_paper_loop.py`) | receipts, ledger | fill the whole quantity | shares the account ledger with demo commands; rolls the day |
| Risk breakers (`services/risk_policy/`) | one breaker row per account: loss streak, consecutive-loss pause, daily pause, drawdown latch | trip from a close or a scan, flush, arm the kill switch, human resets | the row is read without a lock and written back later; times of closes differ from the clock |
| Paper exit (`services/paper_exit_monitor.py`, `workers/paper_exit_monitor.py`, `services/canonical_paper_execution.py`) | open and closed journal trades, candles | monitor pass, close, human close, entry scan | overlapping passes, gapped candles, a loss that ages between evaluation and close |
| Telegram security (`telegram_security/protocol.py`, `persistence/telegram_postgres.py`) | enrollment challenges, bindings, nonces, receipts, outbox | enroll, issue, receive a press or message, enqueue, claim, acknowledge | the same nonce by three ways, redelivery, rebinding, expiry |
| Telegram runtime (`telegram_activation/`, `telegram_paper_agent/gateway.py`, `candidate_alerts/gateway.py`) | runtime lease, polling cursor, send ledger | a cycle: recover, deliver, poll, apply, reply, advance | a lease outlived by a slow cycle, death between any two steps, sends of unknown fate |
| BloFin demo venue (external) | one order per client order id | accept, fill, cancel, reject, close the position | answers late, or not at all |

What makes each correct: a kill fences old claims; ledger totals are the sum of the
rows; plans and authorizations are used once; at most one POST per command; fills in
the books are exactly fills at the venue, eventually; nothing that the venue may still
execute loses its risk reservation; the demo account has one entry open at a time; a
paper trade is closed once, at the first bar that touched its levels, and its loss
reaches the breakers or the kill switch; pauses and the latch end only as the policy
says; a Telegram nonce authorizes once, no update is skipped, an applied press keeps its
effect, and the outbox says SENT only of what was sent.

Interaction. Every transaction that claims, leases, authorizes, consumes, records or
reconciles locks the account's safety epoch row, so these transactions are serialized,
and each is one atomic action. Provider calls happen outside transactions; what a
worker carries across them is explicit in its state: its command, its fence, the ORM's
unrefreshed copy of the effect row, and the venue evidence it has read.

A paper close locks the lifecycle of its own trade only; the breaker row it shares with
the other closes and with the scan is read and written back without a lock, so such a
transaction takes two steps in the model. Every transaction of the Telegram store takes
one advisory lock; a delivery or the handling of an update is a sequence of such
transactions and of calls to the Bot API, with nothing held between them.

Components that are not modelled are listed in `PROJECT.json` with the reason: manual
demo trading and receipt transitions (section 7); sizing, agents, retrieval, market data,
backtests, accounts and the frontend are data processing or I/O with no protocol of their
own.

## 2. Modules

Three specifications. The modules of each extend one another in the order given;
`RiskBreaker` extends `SafetyEpoch` as well, because breakers arm the kill switch.

| Module | Models | Main definitions |
|---|---|---|
| `SafetyEpoch` | kill switch and epoch | `KillActivate`, `DeactivateKill`, `SafetyBlocksDispatch` |
| `RiskLedger` | accounting row and reservations | `Charge`, `ConvertForFill`, `ReleaseUnused`, `ReleaseExit`, `Roll`, `HasCapacity` |
| `ExecutionClaim` | authorizations, claim, demo history gate | `IssueAuthorization`, `Claim`, `HasDemoEntryHistory`, `Orphans` |
| `VenueDispatch` | workers, the send protocol, the venue | `StartProcess`, `LeaseAndAuthorize`, `Consume`, `FinalGate`, `Post`, `RecordAnswer`, `Recover`, `Crash` |
| `DemoReconcile` | reconciliation and exit resolution | `StartReconcile`, `Lookup`, `ReconcileEntry`, `ReconcileExit` |
| `ExecutionProtocol` | the composition, paper fills, specification, properties | `Next`, `Spec`, `FairSpec` |
| `EntryPromise` | abstract specification: what happens to an entry order | `Admit`, `Take`, `Clear`, `Send`, `Drop`, `Halt`, `Resume` |
| `MCExecution` | plans and authorizations for the TLC runs | |
| `ExecutionProtocolProofs` | control invariants and action properties, proved | |
| `EntryPromiseProofs` | the refinement, proved | |
| `SetArithmetic` | lemmas: minima, division, sums over finite sets | |
| `LedgerProofs` | ledger sums and the full type invariant, proved | |
| `LifecycleProofs` | the life of a demo command under one worker at a time, proved | |
| `RiskBreaker` | breaker row of an account | `TripBreakers`, `NotedStreak`, `ConsecutivePauseExpiry`, `Flush`, `PersistBreakers`, the resets |
| `PaperExit` | trades, monitor passes, human close, entry scan; specification, properties | `MonitorClose`, `HumanClose`, `CommitClose`, `AbortClose`, `BeginScan`, `CommitScan`, `Usable`, `Protection` |
| `MCPaperExit` | books, markets and closes for the TLC runs | |
| `PaperExitProofs` | all properties of `PaperExit`, proved | |
| `TelegramOutbox` | outbox rows, send ledger, the chat | `ClaimBatch`, `SaveSent`, `SaveFailed`, `Acknowledge`, `LedgerRecord` |
| `TelegramInbound` | enrollment, nonces, receipts, candidate | `StartEnrollment`, `CompleteEnrollment`, `SpendNonce`, `ReceiveConfirmation`, `ApplyAuthorizedAction` |
| `TelegramRuntime` | the worker's cycle, cursor, crashes; specification, properties | `BeginCycle`, `Look`, `Post`, `Record`, `Save`, `Consume`, `Effect`, `Advance`, `Crash`, `Stall` |
| `MCTelegram` | symmetry for the TLC run | |
| `TelegramProofs` | type invariant of the Telegram worker, proved | |
| `TelegramSafetyProofs` | nonces, bindings, receipts, cursor, presses, outbox and copies, proved | |

Conventions and abstractions:

* `ReleaseExit` gives back exactly the recorded value of the fills. The code
  (`services/demo_lifecycle_resolution.py:278`) floors the amount of each fill to 1e-8 and keeps the
  remainder charged, so its total may exceed the sum by less than that per fill.
* A command is identified with the idempotency key that created it. A replay of a
  bound key returns the stored result and writes nothing, so it is no action; what a
  replay leads to, the loop processing the same command again, is `StartProcess`.
* Money is a natural number of quote units, quantity a small natural number. A ledger
  operation is an operator from ledger to ledger, because one transaction applies
  several of them.
* Plan expiry is an event (`ExpirePlan`); the trading day is a counter. Six hours, the
  age at which an unfilled paper reservation counts as orphaned, is a choice of a set
  of the oldest claims (`AgedSets`) that is forced for claims two days old.
* Checks that read other subsystems (reward/risk, experiment and profile caps, market
  revalidation) are one nondeterministic refusal of the claim, `refused`; those of the
  provider's preflight are `PreflightRefuses`.
* `worker[w].view` is the ORM identity map's copy of the effect. Locked reads refresh
  it, plain reads return it unchanged, and a flush writes only the columns whose value
  changed against it. `MarkAcknowledged` therefore clears the uncertainty only if the
  copy had it set.
* A demo worker leases under the name `demo:<command id>`, the same for all workers, so
  the owner reduces to a Boolean. `LEASED` is never visible in the governed demo loop:
  lease and authorization commit together.
* `posts` counts the POSTs per command. It is a history variable; nothing reads it.
* The venue never unfills: an order's quantity and value only grow, until it is filled,
  cancelled or rejected. Afterwards its position may be closed.
* After the entry transaction, what the second venue read shows is a choice in
  `ReconcileExit`: closed, open and protected, unprotected, liquidation price through the
  stop, or a position that differs from the owned fills. A closed position can be observed
  only if the venue closed it; the other observations may also be made of stale or
  unreadable data.

* `EntryPromise` knows neither workers nor rows. `Stage` in `ExecutionProtocol` reads the
  abstract stage off the effect's state, the POSTs and the workers: taken while a worker is
  between the consuming marker and the gate, cleared while one is past the gate, dropped when
  a command is consumed and nobody can send it any more.
* Times in `PaperExit` are ticks; a candle has `Step` of them. A trade's market is the
  sequence of what its closed candles touched: nothing, the stop, the target, both, or a gap
  through the stop. Candles that end while the trade is neither open nor about to be opened by a
  scan touch nothing (`Watched`); no decision reads them. What the portfolio accounting says (daily limit, drawdown, ruin) is an
  input, the book.
* A monitor pass keeps nothing between two trades but its clock and its list, so closing a
  trade in some pass is a choice of that clock, any time since the entry. That includes
  passes that evaluate a trade long before they close it. The candles a fetch returns are any
  subset of the closed ones.
* A close or a scan that reaches the breaker row reads it in one step and writes in another;
  `Flush` writes the columns that differ from the copy, as the ORM does. Without a note a
  close is one step.
* In `TelegramRuntime` a message with an enrollment token, a message that confirms an action
  and a button press are the three kinds of update. The rows of the outbox are the notice of
  an authorization intent and the reply of each update; neither is subject to the notification
  policy. `posted`, `doubt` and `reported` are history variables.
* A confirmation quotes the whole identity of its action. A text that only names the action is
  resolved in the code through the confirmations presented before (`telegram_paper_agent/gateway.py`,
  `_consume_presented`). Those are left out, and with them two outcomes: an unresolved one that is
  answered as a discussion, and a redelivered one that is a replay conflict because its fingerprint
  has changed.
* `BeginCycle` takes the runtime lease and reads the SENT rows in one step, which are two in the
  code; `Recover` looks at each row again before it acknowledges it.
* The partial unique indexes on active bindings (`db/telegram_security.py:76`) are left out. They
  would only forbid more, so `OneBinding` rests on the checks of the protocol alone.
* A row's lease and the runtime lease last equally long and the row's begins later, so a worker
  that still has the runtime lease has its rows.

Definitions marked "Mutant" are not used by the specification. Each is a plausible bug
in the definition that follows it; substituting it must make TLC report a violation of
the property it is listed with in `PROJECT.json`.

## 3. Properties and runs

No run checks deadlock: when nothing is pending and the venue or the user is quiet the
system rests, which is correct; in the Telegram model the bound on events stops it too.

| Run | Instance | Properties |
|---|---|---|
| `TwoWorkers` | 2 workers (symmetric), 1 demo plan of 2 units, 1 crash, 2 kill activations | `AtMostOncePost`, `SendAuthorityUnique`, `NoInventedFills`, `KillFencesOldClaims`, `KeepsPromise` |
| `Lifecycle` | 1 worker, 2 keys, 2 demo plans, 1 crash, 2 kill activations | `UnsentProofSound`, `ReservationCoversVenue`, `OneDemoExposure`, `KeepsPromise` |
| `SharedAccount` | 1 worker, 2 keys, 1 demo and 2 paper plans on 2 instruments, 4 authorizations (2 symmetric ones for one paper plan), notional limit 4, fill values 1 and 3, 2 days, 1 kill activation | `TypeOK`, `ExclusiveClaims`, `LedgerMatches`, `ExposureMatches` |
| `Settling` | `FairSpec`, 1 worker, 1 demo plan of 2 units, 2 crashes, 2 kill activations | `FillsEventuallyRecorded`, `UncertaintySettles` |
| `KillErasesSend` | 2 workers, 1 demo plan | violation of `ReservationCoversVenue` |
| `DemoGate` | 1 worker, 2 demo plans | violation of `DemoGateNeedsResolution` |
| `LateAnswer` | 2 workers, 1 demo plan | violation of `CancelledIsFinal` |
| `Starvation` | `FairSpec`, batch of 1, 2 demo plans, 1 crash | violation of `FillsEventuallyRecorded` |
| `PaperExits` | 2 trades, 2 monitors (symmetric), 1 human, 1 scanner, loss limit 1, 6 ticks | `TypeOK`, `MonitorTakesFirstTouch`, `ClosedOnce`, `PauseIsEarned`, `LossReachesAccount`, `PausesHold`, `LatchHolds` |
| `LostLoss` | 2 trades, 1 monitor, 1 human, loss limit 2 | violation of `LossIncrementsStreak` |
| `Telegram` | 2 workers (symmetric), 2 users, 2 chats, 2 updates, 1 nonce, 1 further token, batch of 2, 2 attempts, 3 events | `TypeOK`, `NonceSpentOnce`, `OneBinding`, `NoUpdateSkipped`, `PressTakesEffect`, `CopiesExplained`, `SentIsReal`, `ReceiptsFinal` |
| `RestartResends` | 1 worker, 1 user, 1 update, 1 attempt, 2 events | violation of `KeySentOnce` |

Why the bounds are enough. Two workers are needed to race over a fence and two suffice to
have one at every point of the protocol while another goes through all of it. Two units
give partial fills and a cancelled remainder. `MaxEpoch = 3` allows kill, release, kill.
A unit reserves 2 and fills for 1 or 3, so fills below and above the reservation occur.
Two days let a reservation be aged and released by the roll of another command, which then holds
a reservation of its own, and be filled afterwards. In `SharedAccount` the notional limit of 4
binds after a fill worth 3; the slot limit does not, but a claim may be refused at any time
(`refused`), so what follows a refusal is covered. Deactivation stops at `MaxEpoch`, the clock at
`LastDay`, crashes at `MaxFaults`.

In `PaperExits` two trades are what it takes for two closes, or a close and a scan, to
overtake each other on the breaker row, and two monitors for overlapping passes on one
trade. A candle is 2 ticks, the pause window 3, the backfill age 4 and a day 4, so that a bar
can be fresh, older than a candle, older than the window and a backfill within 6 ticks, and a
pause can expire. The settlement gap is 0 in the run: a bar that starts shortly before the entry and
still counts for it needs a finer clock, and is covered by the theorems only. A loss limit of 1 makes every loss set the pause; longer streaks only lengthen
the way there. In `Telegram` one nonce can arrive twice, by two ways; two updates give a batch
with a first and a second; two attempts give a retry and a dead letter. An event is an update, a
crash, a stall, a lost answer, a rate limit, an expiry or an enrollment; three of them give, for
instance, a press, a crash after its receipt and a second cycle that overlaps, or a send whose
answer is lost, a retry and a stall.

`PausesHold` speaks of closes and scans that work on a current copy and carry a time that is
not in the future, and the restriction is needed: a copy overtaken by another writer can shorten
the other's pause, and a human close with a future `occurred_at` ends a pause early. Likewise
`LossReachesAccount` speaks of the copy a close has read: the kill switch is on, or the loss
stands in the streak unless another writer changed the streak since it was read, and on a
current row a streak at the limit has a pause in force. A human reset that falls between
the read and the flush of a close leaves a streak at the limit without a pause; the next scan
trips again.

`UnsentProofSound`, `ReservationCoversVenue` and `OneDemoExposure` pass in `Lifecycle` with
one worker at a time, which is what the worker lock is meant to give. With two workers all
three fail, by the first finding below. `SharedAccount` and `Settling` use one
worker as well, to keep the instance small.

Fairness (`FairSpec`): a started run goes on (weak fairness of `WorkerStep`, the sequential
code of one worker), and the watcher comes back to every command in its batch (strong
fairness of `StartReconcile`, since the worker is busy with others in between): each cycle of
`workers/watcher_paper.py` calls `reconcile_pending`, also when scanning is refused or the
kill switch is active. Nothing is assumed of the venue, the operator, the clock, claims or a
repeated processing of a command.

## 4. Findings

1. **A kill can erase a possible send** (`KillErasesSend`;
   `services/venue_submit_dispatcher.py:124`). Worker A consumes the authority and passes the
   final gate. Worker B, which read the effect while it was CREATED, calls `lease_effect`
   after a kill activation. The safety predicate is checked before the effect's state, so
   `_block_before_dispatch` writes PROVEN_UNSENT over SEND_AMBIGUOUS and releases the
   reservation, while A's POST goes out.
2. **The demo gate admits after an unfilled command** (`DemoGate`;
   `services/demo_account_history.py:54`), where the documentation and the docstring demand a
   lifecycle resolution. `OneDemoExposure` shows that the weaker gate still keeps one
   exposure at a time when one worker runs.
3. **CANCELLED is not final** (`LateAnswer`; `services/venue_submit_dispatcher.py:733`, `:769`).
   The answer to the POST is recorded over whatever another worker has reconciled meanwhile.
   The reservation stays released and the remaining quantity stays 0.
4. **Unfilled commands starve later ones** (`Starvation`;
   `services/governed_blofin_demo.py:1608`). Commands that end without a fill never get a
   resolution, so they hold the oldest places of `reconcile_pending`'s batch. The run uses a
   batch of 1 in place of 20.
5. **A loss can go uncounted** (`LostLoss`; `services/canonical_paper_execution.py:924`). The
   closes of two trades of one account read the same breaker row and both write streak + 1. The
   lifecycle lock does not help, it is per trade. `PauseIsEarned` and `LossReachesAccount` bound
   the damage: the streak never counts too much, and only a loss whose copy of the row was
   overtaken can be missing from it.
6. **A restart can send the same key twice** (`RestartResends`;
   `telegram_activation/transport.py:164`), where `docs/telegram_paper_mvp_activation.md:153` says
   "Restart reclaims an expired lease and does not send the same key twice." The ledger is asked
   before a send and written after it. A process that dies in between leaves a claimed row without
   an entry; after the row's lease the next cycle sends it again. `CopiesExplained` states what the
   code does give: one copy, and one more for each send whose fate was in doubt. With two replicas
   a send that outlives its lease has the same result.

Behaviour of the Telegram model that contradicts the documentation and has no run of its own:

* A press whose receipt is REJECTED (a second press of the same button) has no binding id, and
  `_require_binding_id` (`telegram_paper_agent/gateway.py:462`) raises a `ValueError` that
  `_apply_update` does not handle. So does a transition the candidate refuses. The cursor is not
  advanced, the replay raises again, and polling stays at that update (`PressEffect`; compare
  `docs/telegram_paper_activation.md:57`, "exact inbound replay converges").
* A confirmation by message whose process dies after the receipt never reaches the candidate:
  `handle_inbound_message` answers a replay at once. `PressTakesEffect` is therefore about presses.
* An overtaken deliverer saves its copy over a row that is already SENT or ACKNOWLEDGED; the row is
  then delivered again through the ledger, without a second message (`SentIsReal`).

## 5. What is proved

Every theorem holds for every value of the constants that satisfies the named assumptions of
the modules. No bound on the number of workers, commands, plans, trades, updates, crashes, days
or activations is used, except that the three theorems of `LifecycleProofs` are about one worker.

### Execution

| Theorem | Statement | Module |
|---|---|---|
| `TypeCorrect` | `Spec => []TypeInv` | `ExecutionProtocolProofs` |
| `SendAuthority` | `Spec => []SendAuthorityUnique` | |
| `AtMostOnce` | `Spec => []AtMostOncePost` | |
| `ClaimsExclusive` | `Spec => []ExclusiveClaims` | |
| `KillFences` | `Spec => KillFencesOldClaims` | |
| `FillsReal` | `Spec => []NoInventedFills` | |
| `PromiseKept` | `Spec => KeepsPromise` | `EntryPromiseProofs` |
| `ProtocolTypeCorrect` | `Spec => []TypeOK` | `LedgerProofs` |
| `LedgerBalanced` | `Spec => []LedgerMatches` | |
| `ExposureExact` | `Spec => []ExposureMatches` | |
| `UnsentProofs` | `OneWorker` gives `Spec => []UnsentProofSound` | `LifecycleProofs` |
| `ReservationsCover` | `OneWorker` gives `Spec => []ReservationCoversVenue` | |
| `OneExposure` | `OneWorker` gives `Spec => []OneDemoExposure` | |

Assumptions: `MaxEpochAssumption`, `PlanAssumption`, `LimitAssumption`,
`AuthorizationAssumption`, `WorkerAssumption`, `BatchAssumption`, `CommandAssumption`. They say
that numbers are natural numbers, plans have positive quantities and notionals, the "none" values
are no elements of the sets they extend, and the set of commands is finite, without which the sums
of the ledger mean nothing.

The theorems of `LifecycleProofs` have one hypothesis more, `OneWorker`: `Workers` has at most one
element. That is what the worker lock is meant to give and the other theorems do not use. It cannot be
dropped: in the trace of `KillErasesSend` a command that a second worker is about to send is recorded
as PROVEN_UNSENT and its reservation released, and after that the demo gate lets a second command
through while the first one is sent. Crashes, recovery, kills at any moment, several
commands and the venue's own steps remain.

Argument. Every action is first described by what it may do to the control state: row
lemmas for the transaction bodies (`MarkAmbiguousRows`, `ApplyFillsRows`, ...), frame lemmas
for the actions, and `StepKinds`, which says that each step of `Next` is one of a few kinds.
The invariants are proved over those kinds.

* `TypeInv` is `ControlTypeOK`, the typing of everything but the ledger's amounts, with
  `AllowedBound`: an allowed command names a plan and an authorization, and a worker is busy
  only with an allowed command.
* `AtMostOncePost` is not inductive: it needs to know who may be about to send.
  `SendAuthorityUnique` adds that a worker between the consuming marker and the POST is alone
  with its command, that nothing has been sent for that command, and that a command sent or
  being sent has an effect in SEND_AMBIGUOUS, SEND_ATTEMPTED or PROVEN_UNSENT, a set of
  states that no step leaves. The fence alone does not give this: `authorize_dispatch` hands
  the same fence to a second worker.
* `KillFences` follows from the safety predicate in `GateOpen` and the fact that the only step
  that sends is that of a worker past the gate.
* `NoInventedFills` needs `EvidenceOld`: the evidence a worker holds is at most the present
  state of the venue's order, which only grows.
* The refinement mapping of `PromiseKept` is a function of the present state, so no history variable
  is needed. `WorkerStage` says how a worker's step moves the stage of its command: it rests on
  `SendAuthorityUnique`, since a second worker in the preflight would keep a command "taken" after
  the first one gave up. `WorkerEntry` says that plan, authorization and era stay. `ClaimRefines`
  needs `ExclusiveClaims` for the abstract condition that plan and authorization are new,
  `KillRefines` and `ExitRefines` map the two ways the switch is armed to `Halt`.
* The ledger. The code changes the totals by differences, each floored at zero, while
  `LedgerMatches` speaks of sums. `LedgerInv` says that each total is the sum of one share per
  reservation row, that demo instructions alone reach the venue's part, that an allowed command
  has a reservation, and that the actual notional is the total of open fills. `RowChange` then
  shows that an operation moves the totals by exactly the change of one row's share, and
  `TotalsCover` that no subtraction meets its floor: a floor that acted would silently break the
  sum. The day roll frees several rows at once (`RollKeeps`, `OrphansLive`).
* The life of a demo command (`LifeInv`). Each of the three properties is about the rows of a command
  against the venue, and none is inductive. Of every command `Life` says: nothing is at the venue
  without a POST, and only orders that ended with fills are closed (`OrderSound`); the reservation
  stays held until the dispatch and as long as the order is open or has fills that are not recorded
  (`Held`); PROVEN_UNSENT means no POST, and a resolution belongs to a closed position (`Sound`). Of
  the worker `RunMatches` says what its position implies of the rows of its command: past the marker
  the effect is still SEND_AMBIGUOUS and the reservation held, and evidence of an order that has ended
  is still exact. Only here `OneWorker` is used: another worker could change those rows in
  between. `OneOpen` says that two demo commands are never both unfinished in the sense of
  `has_demo_entry_history`. A transaction is shown `Admissible` once and `CommitLife` does the rest.
* Sums over finite sets are folds of the community modules. What is needed of them (one summand
  changed, one added, bounds) is proved in `SetArithmetic` by taking a least counterexample among
  the cardinalities of subsets (`SubsetInduction`), since the library's induction theorems cannot be
  instantiated.

### Paper exits (`PaperExitProofs`)

| Theorem | Statement |
|---|---|
| `TypeCorrect` | `Spec => []TypeOK` |
| `OneClose` | `Spec => []ClosedOnce` |
| `PauseEarned` | `Spec => []PauseIsEarned` |
| `FirstTouchTaken` | `Spec => []MonitorTakesFirstTouch` |
| `LatchKept` | `Spec => LatchHolds` |
| `PausesKept` | `Spec => PausesHold` |
| `LossReaches` | `CooldownCoversBars => (Spec => LossReachesAccount)` |

Assumptions: `PaperExitAssumption` and those of the breakers, among them that the set of trades is
finite, as cardinalities of losses are compared. The settlement gap may be any natural number, also
longer than a candle, as the code's 90 seconds are with one-minute candles. `LossReaches` needs in addition
`CooldownCoversBars`, a relation between two settings: the pause window is longer than a candle, or
at least the age at which a loss counts as a backfill. The defaults satisfy it (both are 24 hours).
Without it a pause counted from the end of an old bar may be over before the close is committed.

* `ClosedOnce` and the types need `HoldsOpenTrade`: a transaction that is about to close a trade
  does so under its lifecycle lock, so no two hold the same one and the trade is open.
* `PauseIsEarned` is about rows written back from old copies, so the copies must be covered by the
  losses as well (`CopiesEarned`).
* `LossReachesAccount` needs `NotesFreshLosses`: a monitor that notes a loss found it younger than a
  candle and than the backfill age; older ones arm the kill switch instead.
* `MonitorTakesFirstTouch` needs `TakesFirst`: what a close in progress carries is the first touch of
  the bars it was given. Here lie the minima over sets of bars, `SetArithmetic` has their lemmas.

### Telegram (`TelegramProofs`, `TelegramSafetyProofs`)

| Theorem | Statement |
|---|---|
| `TypeCorrect` | `Spec => []TypeOK` |
| `NonceOnce` | `Spec => []NonceSpentOnce` |
| `BindingUnique` | `Spec => []OneBinding` |
| `NothingSkipped` | `Spec => []NoUpdateSkipped` |
| `PressDecides` | `Spec => []PressTakesEffect` |
| `FinalReceipts` | `Spec => ReceiptsFinal` |
| `SentReal` | `Spec => []SentIsReal` |
| `CopiesBounded` | `Spec => []CopiesExplained` |

Assumptions: `RuntimeAssumption` and those of the outbox and the inbound part (finite set of workers,
"none" values outside the sets they extend, at least one attempt and one row per batch).

* The type invariant is `TypeOK` with what a worker's position in its cycle implies of what it
  carries, nonces bound to their rows (`NoncesBound`) and attempts that are left (`AttemptLeft`).
* `OneBinding` counts; `BindingsApart` says the same of pairs of active bindings and is what each step
  keeps, since completing an enrollment revokes the user's and refuses the chat's other binding in the
  same transaction.
* `NoUpdateSkipped` needs `ReportedBefore`: a worker that is at the n-th update of its batch, or about
  to write the cursor, has the reports of all earlier ones, whoever made them.
* `NonceSpentOnce` needs `ReceiptsSound` and `IntentsEarned`: an applied receipt has consumed its
  nonce, no two applied receipts have the same one, and an intent has an applied receipt of an
  APPROVE. `PressTakesEffect` needs `PressesDecided`, the same of a worker that is about to report.
* `SentIsReal` needs `IdsReal`: also the message ids that workers still carry, and will save over
  rows that others have changed, are ids the ledger or the chat has. `CopiesExplained` needs
  `CopiesLicensed`, a count of licences: messages posted, workers that may still post and a row that
  is free to be claimed never exceed the first copy and the sends in doubt.

## 6. What is only model-checked

* The liveness properties `FillsEventuallyRecorded` and `UncertaintySettles`, which depend on
  fairness and on ENABLED, out of the prover's reach.

## 7. What is not modelled

* Row locks and lock order: transactions are atomic. The operator's activation and the
  reconciliation take the kill-switch row and the epoch row in opposite orders; whether the
  database can report a deadlock there is open. Rows skipped with SKIP LOCKED in a day roll
  are not modelled either.
* The Phase-1 dispatcher API for the fake provider, with a visible LEASED state and lease
  expiry; authorization channels and reuse of rows; the manual-demo branches.
* Several accounts and organizations: all state here is per account, except the switch,
  which is per organization.
* Fees, prices and profit: the ledger properties are about reserved and actual notional,
  loss budget and trade slots; a paper close is its time and the sign of its result.
* Manual demo trading (confirm, reconcile, cancel, resolve), which shares the claim and the
  dispatcher and has its own recovery rules; receipt transitions and the projection rebuilt from
  them; the watcher's advisory lock and leases.
* Of the exit monitor: the dry run, the clock and configuration refusals before a pass, the Telegram
  notice of a close. Of the breakers: the recorded intervals, and a profile that is not active (its
  closes are not noted).
* Of Telegram: alert rows and their notification policy (SUPPRESSED), presented confirmations, the
  read-only and CLOSE actions, webhook intake, group chats and size limits, a cycle that the kill
  switch pauses (it does nothing), sender and chat that differ.
* Progress of the Telegram cursor: it does not hold (section 4).

## 8. Plan

Done: execution with its abstract specification and the proof that it implements it; paper exits
over the breakers; the Telegram worker; a proof of every safety property that a passing run checks.
Next, in this order:

1. A lock-order module for kill switch, epoch, effect and ledger rows.
2. Manual demo trading beside the governed loop, and the demo gate over both.
3. The Phase-1 dispatcher with lease expiry and paper release: the double release at the day
   boundary (`services/venue_submit_dispatcher.py:857`).
4. Receipt transitions and the rebuilt projection; kill-switch alert retries.
