# AlpacaAgents, specified

TLA+ models of the paper-trading program AlpacaAgents: what the order journal,
the controller's cycle, the reconciliation, the activity history and the fill
ledger do, step by step, against a broker that keeps working in between; the
processes and the server around them; the scanner that proposes, the exit rules
that sell, the replay that judges; and what the owner is shown of it all. TLC
configurations check them on small instances, and TLAPS checks proofs for every
instance. Paths are relative to the repository; `executor/` stands
for `src/src/alpaca_agents/executor/`.

## The system

The program proposes, checks and sends single-contract option orders to a paper
account, one cycle after another. What is hard is not the arithmetic but that
three records of the truth -- the broker's, the SQLite ledger of fills, and the
SQLite journal of order intents -- are read and written at different moments by
processes that may die at any of them.

| component | state | operations | interacts with | what makes it hard, what makes it right |
|---|---|---|---|---|
| rules engine (`rules.py`) | none | `evaluate` | called by the journal inside a transaction | limits at their boundary; approves only inside every limit |
| control file (`gateway.py`) | one file | read on every evaluation | written by the owner at any time | not under any lock; a decision that commits while it says DISABLED |
| order journal (`executor/orders.py`) | rows of intents | reserve, claim, prepare_exit, mark_submitted, resolve, resolve_unplaced, release_unsent, expiry | controller, operator commands | the provider runs inside the lock; clocks step back; claimed intents must survive everything but the broker's answer |
| controller cycle (`controller.py` `run_cycle`) | what it has read so far | reconcile, exits, one entry | all of the others | reads of different instants combined into one decision |
| reconciliation (`executor/reconcile.py`) | none of its own | `build_risk_state`, `reconcile` | broker reads, history, ledger, journal | fills between reads; must say "not reconciled" rather than guess |
| submission (`executor/submit.py`) | none | `submit_claimed` | journal, client | a time-out says nothing; one attempt per order |
| broker client and traces (`executor/client.py`) | request trace rows | GETs, one POST | broker | the record precedes the request |
| operator commands (`executor/__main__.py`) | none | release-intent, flatten, reconcile, import-activities | journal, ledger, broker | run beside the controller without its lock |
| activity history (`executor/history.py`) | runs and pages | start, append, fail, covered_through | broker, normalization | exclusive bounds, interrupted runs, contiguity |
| normalization (`executor/normalize.py`) | none | `normalize_activities` | fill ledger | replays, order, a block or a crash half-way |
| fill ledger (`executor/fills.py`) | fills, lots, fees, latches | record, record_fee | reconciliation | FIFO basis, the daily-loss latch, idempotence |
| exit rules (`executor/exits.py`) | none | `evaluate_exit`, `exit_limit` | controller | priorities, missing quotes, the day-trade budget; a stopped position must be sold in the end |
| loop, runtime lock, manual draft (`controller.py`, `manual.py`) | a lock file, a draft file, `cycles.jsonl` | loop, enter/exit, `one`, consume, append | studio, owner, agent desk | stale locks, a draft used twice or lost, a torn record |
| studio (`studio.py`) | job queue, stop flag | call, _work, close | HTTP threads, controller | time-outs against a worker, closing |
| chat (`llm_chat.py`, `dashboard_chat.py`) | daily usage, memory | ask, clear | studio | the cap when a question makes several calls, midnight |
| scanner (`scanner/`) | none | signals, contract choice, scan, draft | controller, which trusts none of it | gates, rounding, correlation, slots |
| backtest (`backtest/`) | none | replay | command line | a later session must not change what was settled |
| agent desk (`agent_desk.py`) | none | reads `cycles.jsonl` | owner | says no more than the report, hides no gap |
| closed-trade ledger, market data, earnings, research scan, dashboard, notify, calendar | files | reads, rendering | -- | see "Not modelled" |

`PROJECT.json` lists the same components with their status, and every hazard
with the line where it bites and the properties that cover it.

## The modules

| module | models | extends / composes |
|---|---|---|
| `RulesEngine` | `evaluate` as a predicate, `Approves`, `ValidIdea` | |
| `IntentLifecycle` | abstract: what the journal promises | |
| `OrderJournal` | `executor/orders.py`, the control file | extends `RulesEngine`, implements `IntentLifecycle` |
| `PaperExecution` | `run_cycle`, `build_risk_state`, `reconcile`, `submit_claimed`, release-intent, flatten, broker, network | extends `OrderJournal` |
| `BrokerRequest` | one POST inside `client._call`, its trace row, and what `submit_claimed` makes of it | |
| `ExitRules` | `executor/exits.py` | |
| `TradingDays` | the exits of cycles over sessions, `day_trades_since` | extends `ExitRules` |
| `ActivityHistory` | `executor/history.py` and the build that imports and normalizes | |
| `FillLedger` | `executor/fills.py`, as operators on its tables | |
| `Normalization` | `executor/normalize.py` | extends `FillLedger` |
| `Supervision` | the lock, the loop, the draft and `cycles.jsonl` of one runtime directory | extends `AgentDesk` |
| `AgentDesk`, `CycleReport` | how `agent_desk.py` reads the log and a report; the report of a cycle and what the cycle did | `CycleReport` extends `AgentDesk` |
| `Studio` | `studio.py`: worker, queue, requests, close | |
| `ChatModel` | the daily budget of `llm_chat.py` | |
| `Signals`, `Contracts`, `Scanner` | `scanner/signals.py`; `contracts.py` and `_build_idea`; `scan` and the draft of `manual.py` | each extends the one before, the first `RulesEngine` |
| `Replay` | `backtest/replay.py` | |
| `RecursionLemmas` | sums and folds over finite sets, first and last members | used by the proofs below |
| `OrderJournalProofs`, `ExecutionProofs`, `PositionProofs` | theorems about the journal, the execution, and what it may come to hold | each extends the one before |
| `DeskProofs` | theorems about `Supervision`, `CycleReport`, `BrokerRequest`, `ChatModel`, `Studio` | extends these |
| `LedgerProofs`, `BooksProofs` | facts about `FillLedger`; theorems about `ActivityHistory` and `Normalization` | `BooksProofs` extends `LedgerProofs` |
| `MarketProofs` | theorems about `Scanner`, `TradingDays`, `Replay` | extends these |
| `MC*` | instances for TLC; `MCBooks` and `MCDesk` put several modules side by side | |

**OrderJournal.** A row is named by its decision key. `rows` is the table,
`control` the control file, `txn` the transaction of a `reserve` or `claim`
whose provider is running. Every other method is one action because it is one
`BEGIN IMMEDIATE` transaction; those two are split at the provider (`ReserveBegin`,
`ReserveCommit`, `ClaimBegin`, `ClaimCommit`), since the provider makes network
reads, the control file can change and the process can die (`Rollback`)
meanwhile. `now` is an argument from any caller: it may step back.

**PaperExecution.** `proc` says where the controller and one operator command
are, `view` holds what the controller has read. Each network read of
`build_risk_state` is an action (`ReadActivities`, `ReadPositions`, `ReadOrders`,
`LookUp`), and the broker moves between any two: `Receive`, `Execute`,
`PostActivity`. A POST is `Send` (trace record, then on the `wire`) and
`Receive`; the caller may take it for unknown (`OutcomeUnknown`) before, after or
without its arrival. The provider of `reserve` and `claim` runs the same reads
with the journal locked. `Crash` stops either process at any step. The mode and
the inventory are read once per cycle and used later, as in the code.
`ReadActivities` imports and normalizes: what is normalized is the run just
exhausted, that is the fills posted since the last one and, for the overlap of
five minutes, any of those an earlier build left behind. These are `skipped`: the
build that imported them was blocked at a sell that no lot covers (`HaltsAt`), or
died before it had booked them (`DiesNormalizing`). A fill costs what `PaidFor`
says, at most the limit of its order; `Basis` adds up fill prices and, like the
ledger the program fills, no fees. (README.md:421 and exits.py:54 say that the basis
includes entry fees; `normalize.py:144-145` passes zero for every fill.)

**BrokerRequest** opens `Send` and its answer up: `step` is where `_call` is,
`trace` its row in `api_requests`, `answer` the status and the request id, which
are kept before the body is read (`ReadHead`, `ReadBody`). The broker answers with
its id; something on the way may answer without one; reading, parsing, closing
and persisting may each fail, and the process may die at each of them. What it
finds for one intent is what `PaperExecution` takes for granted of a POST.

**ExitRules and TradingDays.** `Decision` is `evaluate_exit` with its order of
reasons. `TradingDays` is endless: sessions have no numbers, round trips and
positions are counted by their age. `budget` is the count the cycle read before
its exits, `tried` the exit keys burned today, `unposted` the contracts with a
fill the activities do not list yet. A contract may be bought again once its sale
is booked. An exit that is sent is placed (`ExitPlaced`), refused (`ExitRefused`) or
never reaches the broker (`ExitLost`); from the last on, every cycle stops at
CLAIMED_INTENT_WITHOUT_BROKER_RECORD until the owner releases the intent
(`ReleaseIntent`).

**ActivityHistory.** `runs` are the `history_runs` with their pages;
`CoveredThrough` is `covered_through`; a run is fetched page by page while
activities are created and time passes; `Stage` is the operator's
`import-activities`, which is never normalized.

**FillLedger and Normalization.** The ledger's tables are one record, `db`; a
method is an operator from `db` to `db`; a sale takes from the open lots in turn, the
`First` of those left each time. `Normalization` takes the activities of
a window in order, one transaction each (`ReplayTrade`, `BookTrade`,
`BlockTrade`, `NormalizeFee`), and may die between two. The windows move forward
and overlap, which is what `ActivityHistory` produces.

**Supervision.** `pc` is where each process is, `lock` who made the lock file --
it outlives its maker --, `draft` the draft file, `fate` what became of every
draft, `live` how much of it is open at the broker, `open` the symbols a cycle found
open, which is what gates a draft for one of them; `log` the file `cycles.jsonl`
in pieces, so that a crash can leave a record torn or without its newline. What a
cycle does for an entry is one step here; its steps are those of `PaperExecution`.

**AgentDesk and CycleReport.** `LoadCycles` is `_load_cycles` on the pieces of the
log. `CycleReport` writes the report stage by stage and keeps beside it, in `did`,
what the cycle really did; `CycleStatus`, `ExitState`, `ScanState`, `RiskVerdict` and
`EntryState` are what `project_cycle` says of the first `MaxRows` rows of each list
(`FirstRows`), and `DetailsTruncated` is its flag that there were more.

**Studio.** `at` is the program counter of `_work`, `caller` those of the request
threads in `call`, `main` that of `serve` and `close`; `jobs`, `future` and `stop`
are what they share. Each access to one of these is an action, so that stop can
be set between any check and what follows it, and a job can start between a
time-out and its cancellation. The runtime lock is held until `main` is "gone".

**ChatModel.** `calls` is the counter of the program, `made` what reached the
provider today; they part when midnight passes under a question (`Midnight`). The
counter lives in the process (`llm_chat.py:357`): after a restart it begins at zero, and
what is shown holds for the calls of one process.

**Signals, Contracts, Scanner.** Pure functions on a session's indicators and an
option chain, with prices in tenths of a cent so that rounding to cents is
modelled by what it does. `Scanner` has two steps, because the source has two
loops: `ScanSymbol` keeps the best enabled idea of a name, `Take` gives slots to
the best of them, marking buckets as it goes. `Draft` is the owner's idea, through the
same `_build_idea`.

**Replay.** The state is the history so far; `NextSession` appends one, and
`outcomes` are the trades `replay` makes of it.

**Side by side.** Modules that share no state are checked in one run where that is
cheap: `MCBooks` and `MCDesk` choose a `part` in the initial state, the other parts
rest in one initial state, and every step is one of the chosen part. The states
are those of the parts added up, not multiplied. Fairness is not weakened by it:
only `Studio` states any, and where it is not the chosen part it rests in `Ended`,
where none of its fair actions is enabled.

## What the runs check

| run | question | result |
|---|---|---|
| `order_journal` | Does the journal keep its limits under any callers? `RollingRate`: no hour holds more than the allowed authorized entries, not just the hour before a decision. `ExclusiveIntents`: one live exit per contract, one live entry per underlying. `LifecycleSpec`: it implements `IntentLifecycle` (a claimed intent never lapses, nothing that ended comes back, a key is decided once). `ClaimIsTimely`: a body leaves `claim` only on its day, inside the TTL, with the switch on at the commit. | holds |
| `execution_slots` | `ExposureLimit`: positions at the broker plus every entry that may still become one never exceed the slots. `KnownProvenance`: whatever is under way or open at the broker is a claimed intent. | holds |
| `execution_capital` | `OnePerUnderlying`, `CapitalLimit`: the same for the underlying and for the capital cap: what was paid for the positions and what the entries under way may cost. `NeverOversold`: cycles of two days never sell more than was bought. | holds |
| `execution_commands` | With release-intent and flatten beside the controller and the switch turned on and off: `DefinitiveRelease` (a resolved or unplaced intent has an order that is dead), `SingleAttempt` (nothing is POSTed twice), and `EventuallyBooked`, `EventuallyResolved` (infinitely often every fill is booked, or was in an import whose build died or was blocked, and every ended order has given up its slot). | holds |
| `trading_days` | `OverrunBounded`: day trades exceed the limit by at most the contracts held less one. `StoppedPositionsLeave`: a position whose rules go on firing is sold, though keys are burned, the budget defers, orders expire or are lost on the way, if the owner releases what was lost. | holds |
| `books` | For import runs: `CoverageIsComplete`. For the books: `FifoProfit` (every sell's profit is that of the n-th contract bought for the n-th sold), `BooksBalance`, `LatchIsExact` (a session is latched exactly when its losses have reached the limit), `CompleteMeansBooked`, `ReplayIsNoOp`. For scans: `Uncorrelated`, `ScanChoosesBest`, and `RefusedForRoundingOnly` (an idea of the scanner passes the rules engine but for rounding). For the replay: `NoLookAhead`. | holds |
| `desk` | For the studio: `JobsAreServed`, `CyclesAreRun` (slow cycles do not shut out requests, nor requests the cycles), `NoLateStart` (a job whose request was answered Busy does not start), `NoAutoRestart`, `CloseReturns`, `NothingRunsUnlocked`. For the processes: `SoleController`, `OneDraftOpen` (a draft that is loaded twice opens one position), `DeskShowsGaps`. For the report: `DeskIsHonest` (a cycle with an unanswered order is called uncertain, unless the desk says it left rows out, and none that sent something halted or dry). For the chat: `CapOverrun`. For a POST: `FreedOnProof`. | holds |
| `release_race` | `ReleasedWasNeverPlaced`: a released intent has no order. | violated |
| `skipped_activity` | `NothingSkipped`: a complete normalization leaves nothing unbooked below its coverage. | violated |
| `day_trades` | `WithinBudget`: never a fourth day trade in five sessions. | violated |
| `draft_lost` | `RetiredAfterAttempt`: a retired draft was attempted. | violated |
| `studio_interrupt` | `NothingRunsUnlocked` when Ctrl+C comes once more during `close`. | violated |

Each property has a mutant in `PROJECT.json`: a definition of the model changed
the way a plausible bug would change it, on which the same run finds the
property violated. The mutants stand in the modules just before the definition they
change, marked as such; no specification uses them.

**The five violations** are disagreements between the code and its documents.
`release_race`: the lookup of release-intent and its release are two steps beside
a POST that is under way; the slot is freed and the order is placed. (It then
shows as UNKNOWN_OPEN_ORDER or POSITION_MISMATCH and stops the cycles.)
`skipped_activity`: only the run just exhausted is normalized, but the next window
starts near the coverage of all exhausted runs, so what a crash or a block left
unbooked is never presented again. A skipped position shows as a mismatch; a
skipped fee or round trip shows nowhere. `day_trades`: the count is read once, before
the exits of a cycle, and knows only booked fills; `trading_days` shows how far it
can go wrong. `draft_lost`: `consume` renames whatever the draft file holds when the
cycle ends, not the draft the cycle used. `studio_interrupt`: `close` waits with
calls that Ctrl+C interrupts, and the exception takes the runtime lock with it;
studio.py:158 says the lock is not released while a cycle runs.

**Seen while modelling, not a run.**

- With flatten added to the instance of `execution_capital`, `NeverOversold` is
  violated: an exit fills and its intent is resolved from the order record, its
  activity is posted later, and flatten reads a ledger that still holds the lot.
  The controller's own cycle is protected, because the position no longer matches
  the ledger.
- README.md:800-802 says that "the exit manager refuses to close a position on the
  session it was opened"; README.md:413-418 and the code (exits.py:124-137) sell it that
  session when the premium stop fires, as `Decision` does.
- README.md:255 rejects equal timestamps within one lifecycle, `fills.py:161`
  rejects only what is older.
- scan.py:3 says a scan "emits the exact idea shape rules.evaluate() validates". The
  ratio is rounded to hundredths and the levels to cents after the gates: an idea
  whose reward is 0.995 of its risk passes as 1.00 and is refused by the rules on
  every cycle, and a level of a cheap name may come out at or below zero.
  `RefusedForRoundingOnly` says that there is nothing else.
- llm_chat.py:390 says `ask` never raises; a tool argument of the model that is not
  hashable raises a `TypeError` in the tools (llm_chat.py:175, 193).
- A draft is also retired without an attempt when a proposal of the scanner with a
  higher score takes the one entry of the cycle (controller.py:226).
- `order_by_client_id` takes any 404 for "no such order", while a refusal counts only
  with the broker's request id.
- Every order status but six live ones is taken for terminal: `pending_cancel` makes
  `resolve` raise out of the cycle.

## Bounds

- `MCOrderJournal`: two entries on one underlying, two exits of one contract,
  three clock values with TTL and hour of two ticks, one authorization an hour.
  Two of each are enough for a conflict; three instants for a lapse and for a
  clock that steps back. The entries and the exits are interchangeable (symmetry;
  only safety is checked in that run). The baseline of the provider is one state
  that approves, or an error: a rejection is reached by the switch, the rate, the
  underlying and the error.
- `MCExecution*`: two slots and three contracts make the third entry the
  interesting one; costs of 51, 21 and 41 dollars, of which one is fee, with a cap
  of 85 make some two fit and the other two not, and fills below the limit make
  room; exits are limited to one contract. The second day, where the first's key is
  burned and another takes its place, is reached with at most two of the entries
  (`TwoGoOn`). A contract is entered at most once, so that an order is named by its
  intent. `Times` is a single instant where no lapse is asked about, since an
  authorization that lapses only shrinks what is outstanding. The commands run
  has one contract with one entry and one flatten key, which is enough for both
  processes to hold the same row. The keys bound the runs; crashes need no bound.
- `MCDayTrades`: two contracts, so that two exits of one cycle compete for one
  budget; a limit of one and a window of two sessions, since what is asked is what
  happens at the limit and when a session leaves the window; quotes that fire a
  stop or a rule of the underlying, and two a provider left incomplete. There is
  no bound on sessions: ages above `MaxSessions` are one. `MCDayTradeBudget` has the
  three and five of the program.
- `MCBooks`, history: two activities, pages of one, four ticks, three runs, an
  overlap of two ticks against the required one. Three runs are needed for a gap
  between two windows and a run that bridges it.
- `MCBooks`, normalization: histories of four activities on one contract, prices
  10, 15 and 30 and a limit of 15, so that losses below, at and above the limit
  occur; any sequence of overlapping windows and crashes; a clock that may be
  behind the last executions. FIFO order and two lifecycles of one contract occur
  within four activities.
- `MCBooks`, scanner: two index funds and two stocks, the funds correlated, with
  sessions for each signal, for a ratio and a level that rounding spoils, a stale
  snapshot, and earnings inside the holding time; cheap and dear chains with
  contracts that fail each gate. Four names, two slots and names already open make
  slots and buckets run out.
- `MCBooks`, replay: histories of up to six of six kinds of session, with holds of
  two and three, so that a trade fills, stops, reaches a target, times out or is
  cut by the end of the history.
- `MCDesk`, studio: three requests, a queue of two and two slots. Two jobs whose
  requests gave up fill the queue while the worker is busy, and the third finds it
  full; a handle is used again once its job has left the queue, so the stream of
  requests does not end.
- `MCDesk`, processes: two, both may submit, one loops; three drafts, two of them for one symbol,
  three records, one of them torn, and a desk that shows two.
- `MCDesk`, report: two positions and a desk that reads one row of a list, so that the
  cut happens; chat: caps of zero and two, two rounds, four
  questions, any midnights; request: one POST, which needs no bound.

`CHECK_DEADLOCK FALSE` stands where the bounds (runs, ticks, feed, records,
questions) end a behaviour, where the process ends, and where a contract may rest
for ever; the journal and the execution runs never stop.

## Fairness

`execution_commands` (`FairSpec`). Weak fairness: a process that is not
stopped goes on; the network delivers or drops; the broker posts its fills and
ends its orders, which are DAY orders (`executor/orders.py:199`), with a fill or
without; a cycle is begun again, by `loop` (`controller.py:346`), by the studio or a
scheduler, or by the owner, who after a halt (exit code 3) or a crash removes the
lock file left behind, if any, and starts the controller again. That is all that is
asked of the owner: no command is ever owed and the switch need not move. Strong fairness on the reads: any of them
may fail, and the controller may crash, any number of times but not always before
that step succeeds; of the lookups of a round, this is assumed of the n-th before
the last, whichever intent it is about. Nothing makes an order fill. A claimed intent
that never reached the broker stops every cycle after its reconciliation, but each of
them has imported, booked and resolved before it stops, which is all that the two
properties speak of. They say "again and again", not "forever", as new fills
arrive.

`trading_days` (`TFairness`): cycles are begun again and days pass; a row of the
inventory is decided; activities are posted. Of the broker and the market it is
assumed that an exit is not refused every time and that an exit order at the bid
does not always expire unfilled: without these no code could sell. Nothing makes the
owner release an exit that was lost on the way: the property asks instead that again
and again none is lost, and without it TLC finds the position unsold. The market, the
providers and the owner's buying are free.

`desk`, studio (`StudioSpec`): weak fairness of the worker, whose cycles and jobs end
because each of their network reads has a timeout, and of the two waits of
`close`. The owner need not stop the server, no request need come, and none of
the liveness properties relies on a request's time-out.

## Proofs

`OrderJournalProofs` proves for the specification `JSpec` of the journal, for any
finite keys, any contracts, ideas, clocks and answers of the provider
(assumptions `JournalConstants` and `RulesConstants`):

- `JournalTypeOK`: `JSpec => []JTypeOK`
- `RateIsLimited`: `JSpec => []RollingRate`
- `IntentsAreExclusive`: `JSpec => []ExclusiveIntents`

`JInv` (theorem `JournalInvariant`) is inductive: the types, `ExclusiveIntents`, and
`TxnInv`, which says that an open transaction still sees the row it began with --
absent for a reservation; reserved, of its day and not lapsed for a claim.
Exclusion needs it, since the row an approval inserts or claims must be the one
the approval was about.

`RollingRate` is inductive relative to `JInv`. It counts the authorized entries
of every hour, and the step that could break it is `ReserveCommit`. The rule
refuses when an attempt lies in the future of `now` and when the hour before
`now` is full; so an approved attempt is the latest one, and every hour that holds
it holds otherwise only attempts the rule has counted. Every other step keeps the
authorized entries and their times (`SameAuthorized`).

From the same assumptions it proves the refinement:

- `JournalImplementsLifecycle`: `JSpec => LifecycleSpec`
- `ClaimsAreTimely`: `JSpec => ClaimIsTimely`

Every step of the journal has one shape (`Shape`): some reserved rows lapse, and
then at most one row is refused, reserved, prepared, claimed or settled. The
shape maps to a step of `IntentLifecycle`; that the moved row's resource is free
needs one more invariant, that an exit is never merely reserved
(`ExitsAreCommitted`), which the shape itself preserves. `ClaimIsTimely` follows
because only the commit of an open claim makes a row claimed (`OnlyClaimClaims`),
and `TxnInv` says what is known of it.

`ExecutionProofs` proves for the specification `Spec` of `PaperExecution`, for any
keys, contracts, days, exits the rules may take, switch and commands in use
(assumption `ExecutionConstants` besides those of the journal):

- `ExecutionTypeOK`: `Spec => []PTypeOK`
- `OneAttempt`: `Spec => SingleAttempt`
- `ReleaseIsDefinitive`: `Spec => []DefinitiveRelease`
- `OrdersAreKnown`: `Spec => []KnownProvenance`, if release-intent is not in use
  (with it, `release_race` shows the opposite)
- `ExecutorKeepsRate` and `ExecutorImplementsLifecycle`: `Spec => []RollingRate` and
  `Spec => LifecycleSpec`. Every step of the executor calls one method of the
  journal or none (`CallsAreJournalSteps`), so the step lemmas of the journal carry
  over; only the baseline of the provider is now what the reads returned.

`PInv` (theorem `ExecutionInvariant`) is inductive: the journal's `JInv`, types, and
`Hands`, which ties the processes to the broker: what has left was recorded before and is
committed in the journal (`Posted`); a process about to send holds a committed
row that has never left, and no other process holds it (`InHand`, `OneSender`); a
refusal in hand means that there is no order. `Known` says that a final status
found by a lookup is still the order's when the intent is resolved with it. The
actions are of two kinds: those outside a submission move each row among the
statuses that commit to nothing, into a claim, or by a settlement that has its
proof (`RowMoves`), and keep `Hands` for one reason (`CalmStep`); the others are
`TakeKeeps`, `SendKeeps`, `AnsweredKeeps`, `ReceiveKeeps` and `ExecuteKeeps`.

`PositionProofs` proves of the same `Spec`, with one assumption more, that the
operator runs no command beside the controller (`Commands = {}`; with flatten
`NeverOversold` is false, see above):

- `SlotsAreLimited`: `Spec => []ExposureLimit`
- `OneNameAtTheBroker`: `Spec => []OnePerUnderlying`
- `NothingIsOversold`: `Spec => []NeverOversold`
- `CapitalIsLimited`: `Spec => []CapitalLimit`

What makes these hard is that a decision rests on the positions, the orders, the
ledger and the journal, each read at another moment, while orders fill. `XInv`
(lemma `PositionInvariant`) says what one may still conclude. An entry is `Exposed`
while its intent is live, and after it has filled and been resolved until its
contract is sold (`Loose`); an exit is `Selling` from its claim until it is dead, and
for good once it filled. `Seen`: the positions read are those of the fills of some
earlier moment, and every order that the journal no longer guards (`Ended`) is
among them -- because an order fills only while its intent is claimed
(`OrdersGoOn`), and a cycle that resolves an intent reads once more before it
decides. So a reconciled read hands the exits an inventory that shows every
`Loose` lot and no lot sold before (`Held`), a proposal meets no `Loose` lot of its
name (`Bid`), and when a reservation is approved, the contracts held, the open
orders and the unsent intents that the check adds up leave out no exposed entry
(`EntryReserved`). `OneSale`, `BoughtFirst`, `OneName` and `Slots` are the properties in
terms of exposure; the theorems translate them into orders and positions. For the
capital there are two prices: an entry under way may cost its limit and its fees, a
position counts in the ledger at what was paid, without fees. `Capital` bounds the first
for the exposed entries that the journal still guards and the second for those only the
ledger has, and `Priced` says that no entry was paid more than it may cost; so an entry
that passes from the journal to the ledger can only make the sum smaller, and the sum a
check adds up covers the one the property speaks of because every exposed entry is in
one of its three parts. The theorem is for any fees and any fills at or below the limit
(`FillPrices`); what a fee of the broker takes is not in the sum, as it is not in the
code's (`normalize.py:144`). (`IdeaConstants`: the amounts of an idea are integers; the
cap is a natural.) TLC
found the parts of `XInv` to hold on the instances of `execution_slots` and
`execution_capital` before they were proved.

`DeskProofs` proves, each part for any values of its own constants:

- of `Studio`, without fairness: `StudioTyped` (`StudioSpec => []StudioTypeOK`),
  `LockCoversWorker` (`[]NothingRunsUnlocked`), `AbandonedJobsStaySo`
  (`NoLateStart`), `HaltedSchedulesStaySo` (`NoAutoRestart`). The inductive invariant
  `SInv` adds that a job that may still start has a request thread waiting for it or
  about to cancel it, that the worker holds a job when it works on one, and that a
  halted schedule has no next cycle.
- of `Supervision`, with crashes at every step: `ControllerIsAlone`
  (`SSpec => []SoleController`), `DraftsOpenOnce` (`[]OneDraftOpen`), `DeskHidesNothing`
  (`[]DeskShowsGaps`). `SupInv` says that a process at work is the maker of the lock
  file, and that a cycle which found the symbol of its draft free will find it free
  when it comes to its entries: between the two, only this process could open it, as
  it is alone. `LogOK` says that what was reported stands before a newline and that
  what is being written is not ended yet, so that completing it -- by the one process
  that may -- takes no line away. The rest is about the file alone
  (`ShownWhole`): with every line one record and nothing behind the last newline,
  pieces and newlines are in bijection.
- of `CycleReport`: `OwnerIsToldTheTruth` (`CSpec => []DeskIsHonest`). `ReportInv` relates
  what the report has at each stage to what the cycle did: until it is written, its
  rows of exits are the orders of the cycle, a dry run has sent none, and without a
  row no position was evaluated. It holds for any number of positions and any
  `MaxRows`, and says of an unanswered order either that the status is uncertain or
  that the desk tells the owner of rows it left out; for a row that is shown, the
  lemma `ExitsTold` finds the order behind it.
- of `BrokerRequest`: `SlotsAreFreedOnProof` (`RequestSpec => []FreedOnProof`). The
  invariant adds what is known at each step of `_call`: a row of the journal precedes
  the order, nothing is decided before the answer is read, and the answer -- a
  refusal with an id, an echo of the client order id -- says what the broker did.
- of `ChatModel`: `CapIsExceededByRoundsOnly` (`ChatSpec => []CapOverrun`), for any cap,
  rounds and midnights within one process. The invariant relates the counter to the round of the
  question under way, and what was made today to what is counted: they differ by at
  most the one question that midnight overtook.

`BooksProofs` proves of `ActivityHistory`, for any clocks, pages and overlap within
`HistoryConstants`:

- `CoverageHolds`: `HSpec => []CoverageIsComplete`. Coverage is a chain of exhausted
  runs, each beginning inside the one before; every instant below the end of the
  chain is strictly inside the window of one of them, and an exhausted run is full,
  because its window ends at or before the moment it began.

and of `Normalization`, for any feed, prices, times, windows, limit and crashes
(`FeedsAreFeeds`: activities have their types, and a trade or an expiration is of at
least one contract):

- `WindowIsBooked`: `NSpec => []CompleteMeansBooked`
- `ReplaysAreNoOps`: `NSpec => ReplayIsNoOp`
- `LatchHolds`: `NSpec => []LatchIsExact`
- `BooksAlwaysBalance`: `NSpec => []BooksBalance`
- `ProfitIsFifo`: `NSpec => []FifoProfit`

`BooksTyped`, `Traced` and `WindowBooked` say where each row of the books comes from and
what of the window is done; the latch compares sums over the rows of a session, which
only grow by the row that is booked. A sale takes from the lots one after the other,
so its effect is a fold; `TakenRight` gives what each turn of it has taken and left, and
from it follows `Balanced`: the lots of a contract hold what was bought less what was
sold, and their basis is what was paid and not yet taken into a profit. `Coherent` ties
each lot to the fills of its position. For FIFO, `UnitsOf` says that the lots of a contract hold
its next contracts to be sold, in the order of purchase and each at its cost;
`Balanced` bounds what is sold by what was bought, the costs of what was bought never
change, and the basis of a part is exact because a lot's basis is its quantity times
one unit's cost.

`MarketProofs` proves

- of `Scanner`: `ProposalsAreUncorrelated` (`ScanSpec => []Uncorrelated`), `BestIsChosen`
  (`[]ScanChoosesBest`), `IdeasAreLegal` (`[]RefusedForRoundingOnly`), for any symbols,
  snapshots with finite chains, open names, slots and caps. The second loop takes the
  ideas in their order, and those ahead of a rejected one never change again. For the
  legality of ideas, a selected structure is `Sound` -- `CHOOSE` finds the nearest quote
  because a finite set has one --, the levels are ordered, the ratio is at least the
  floor before rounding and the score is in its range; what is left of `ValidIdea` are
  the two roundings.
- of `TradingDays`: `OverrunIsBounded` (`TSpec => []OverrunBounded`), for any contracts,
  quotes, window and limit. While a cycle has exits to decide, trips and pending exits
  are at most the budget it read and the keys burned (`Counted`); at all times they
  stay below limit and contracts together.
- of `Replay`: `ReplayNeverLooksAhead` (`ReplaySpec => NoLookAhead`), for any sessions,
  signals, holds and windows. The replay is a fold over sessions and playbooks.
  `SimulateExtends` compares one trade in a history and in the history a session later:
  the new session can fill, end or give up only what was unresolved, and what was
  unresolved keeps its playbook busy to the end of the shorter history in both. So each
  of the old turns leaves the two replays `Alike` (`TurnExtends`), and the new turns only
  append.

Folds and sums are functions on finite sets; what they compute is proved by looking at
a minimal set for which it fails (`RecursionLemmas`), since the induction theorems of the
library cannot be used.

The assumptions on constants are typings (`ScannerConstants`, `ContractConstants`,
`ReplayConstants`, `CycleConstants`, `DeskConstants`, `ExitConstants`, `SupervisionConstants`),
the broker's promise that an order fills at its limit or better (`FillPrices`), and what the code validates before it starts (`validate_bars` for a session's prices;
`DTE` bounds above zero); TLC evaluates each on the instance of its run.

Only model-checked: `EventuallyBooked`, `EventuallyResolved`, `StoppedPositionsLeave`,
`JobsAreServed`, `CyclesAreRun` and `CloseReturns` -- liveness under fairness, which is
outside of the prover's reach. Every safety invariant and every action property that a
passing run checks is proved.

## Not modelled, and why

In the modelled parts: the operator's `reconcile` command (the same reads, no
decision); reasons that concern the account, the clock, the calendar and unsettled
cash alone (each ends the cycle, as `ReadFails` does); partially filled orders and
orders of more than one lot (the program sends one lot); the broker's transitional
statuses; `validate_and_log`; the rate window of ten requests a second of the
studio; the memory of the chat; the statistics of the backtest and its download;
the indicators of a session, which are inputs here; `intraday.py`.

Whole components: the closed-trade ledger is a table fed from the command line
that the controller no longer reads. Market data, research scan, earnings and
the calendar read files and provider answers and check their shape; what they may
deliver, missing and incomplete values included, is an input of the models. The
dashboard, the rule-based chat answers and the notifications render what others
keep. `PROJECT.json` has the status of each.

## Plan

1. *Done:* the journal with its proofs and its refinement, the execution, the
   history, the ledger and the normalization; the studio with its proofs; the
   processes of a runtime directory, the broker request and the chat budget with
   theirs; the proofs of the execution and of what it may come to hold; exits over
   sessions; the scanner, the replay, the report and the desk.
2. *Done:* the proofs of the books, the scan, the day trades, the replay, the report
   and the log: no safety property of a passing run is without one.
3. Next models: transitional order statuses; the account and clock reasons of
   `build_risk_state` one by one; the closed-trade ledger.
