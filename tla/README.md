# Videre: a TLA+ model of the venue platform, its keepers and its venues

Videre lets *keeper* modules (WASM guests) submit intents to *venues* (order
books behind adapters) through one host process. Three parts of it keep
state over time and are reached by several actors at once, and they are the
core of this project:

- the host's **venue registry**, which routes every call of a keeper to a venue's
  adapter, charges a per-caller quota and serialises the calls to one adapter;
- the host's **status poll**, which sweeps the receipts under watch and tells the
  engine what changed;
- the **keeper run**, which turns commitments into submissions at every tick and
  keeps a journal of them that survives crashes.

Around them are the launch of a platform, the limits it is built with, the typed
client and its fault vocabularies, the codecs (bodies, amounts, statuses), the
macros that generate a persona's glue, and a fixture venue that dies and
recovers; each has a module too.

All paths below are relative to the repository; `registry.rs`, `lib.rs` and
`policy.rs` are those of `crates/videre-host/src`, `keeper.rs` and `client.rs`
those of `crates/videre-sdk/src` unless said otherwise.

## 1. Inventory

### 1.1 Components, their state and operations

| Component | Source | State | Operations |
|---|---|---|---|
| Venue registry | `registry.rs`, `policy.rs` | the adapter slot and `Liveness` per venue id; an async mutex per slot; the charge history per caller (synchronous mutex); the watch list (synchronous mutex) | `register`, `submit`, `quote`, `observe`, `status`, `cancel`, quota gate, charge, `watch` |
| Status poll | `registry.rs`, `lib.rs` | the sweep's snapshot and position; recorded, unsent changes; a bounded channel | `poll_status_transitions`, `record_polled_status`, the send loop of `status_poll_task` |
| Keeper run | `keeper.rs`, `client.rs` | journal marks with stored bodies and `next_eligible`; commitment set; gates; one run in progress | `run`, `reconcile`, fault policy, `Retrier::apply` |
| Extension glue | `lib.rs`, `client.rs`, `handshake.rs`, `bindings.rs` | publish-once registry slot; the linked workers | `link`, worker admission (body versions), `open_sources` |
| Policy derivation | `policy.rs`, `registry.rs` | the builder's limits, then the registry's | `WatchLimit::new`, `with_grace`, `derive_grace`, `build` |
| Typed client | `client.rs`, `event.rs`, `body.rs` | the `Quoted` typestate | `quote`, `submit`, `VenueId` parsing, body tags |
| Fault folding | `faults.rs` | none of its own: a fault under way | the maps between four fault vocabularies |
| Value flow | `value_flow.rs`, `videre-test/src/uint.rs` | none | minimal big-endian integers |
| Adapter helpers, transport | `adapter.rs`, `transport.rs` | none | checks on a body, allow-listed HTTP |
| Status codec | `videre-status-body/src/lib.rs`, `event.rs` | none of its own: an event under way | version tag and borsh, envelope and body |
| Flaky venue | `flaky-venue/src/lib.rs` | the head (poisoned or not), the adapter's `Liveness`, each behind a mutex | `submit_now`, `poison`, `heal`, `sweep` |
| Body schema, conformance kit | `videre-macros/src/intent_body.rs`, `body.rs`, `videre-test` | an enum in the source, the published vectors and goldens | derive, `push_*`, `check`, file formats |
| Macros | `videre-macros` | the source, `component.toml`, the registry file, the last expansion | `#[keeper]`, `#[venue]` in both uses |
| Echo venue, examples | the other crates | none of their own | a reference adapter, modules over the SDK |

### 1.2 How they interact

- A keeper module calls the registry synchronously from its guest; on the host
  that is an async task. Every call **resolves** a slot first (and keeps it, whatever
  is registered later), passes the **gate** for `submit` and `quote`, then waits for
  the slot's mutex and holds it while the adapter runs.
- An accepted `submit`, and an `observe`, put a receipt **under watch**. The poll
  task shares the watch list and the slots with the calls: it copies the keys,
  releases the list, and asks each venue in turn under that venue's slot.
- The poll task hands its changes to the engine over an `mpsc` channel of
  `STATUS_CHANNEL_BUF`; a full channel makes it wait, a closed one ends it.
- A keeper's journal, gates and commitment set are rows of the host's local store
  (crate `nexum_sdk`, not in this repository). Each write is durable by itself;
  there is no transaction around a run.

### 1.3 What is hard

- *Concurrency*: checks separated from their use by awaits (gate and charge,
  resolve and lock, snapshot and record), futures dropped at any await.
- *Failure*: adapters that trap, err or never answer; runs that end between two
  store writes; store faults; an answer lost after the venue took the body.
- *Ordering*: status changes against expiry and re-watch of the same receipt.
- *Time*: a sliding quota window, watch deadlines, gates and `next_eligible`.

The full list, line by line, is `hazards` in `PROJECT.json`.

### 1.4 What makes each component correct

- Registry: calls to one adapter exclude each other and no exit leaves a slot
  locked; a caller's charges stay bounded; each call costs what the policy says;
  the watch list stays within its cap without displacing a live watch; venues do
  not block each other.
- Poll: changes of a receipt are recorded once, in order, terminal last; a watch
  ends by its deadline or its terminal status only; a settlement reaches the engine
  before the watch's deadline does.
- Keeper: whatever the venue holds is in the journal, unless an answer that could not
  know released it; COMMITTED is true and final;
  no body is POSTed again while its outcome is open except by the reconcile pass;
  every reservation is resolved in the end.
- Glue: one registry serves the process; a venue that cannot decode what an admitted
  keeper encodes came later, opted out, or belongs to a platform that never vetted it; a
  listener goes without a status source only on a platform without venues.
- Typed client and faults: a failure, wherever it begins, reaches the handler and the
  sweep with the same verdict; only priced bodies and real receipts cross the wire.
- Codecs: a number has one encoding, a status is read as sent or refused, a published
  body is read as the version it was written as.
- Macros: what a build makes is what the files say.
- Flaky venue: to the registry it is a venue like any other, and it recovers for good.

## 2. Modules and the code they model

| Module | What it is |
|---|---|
| `VenueRegistry` | the registry's calls, quota, slots and watch list; properties |
| `MCVenueRegistry` | its instances for TLC (which task calls for whom) |
| `StatusPoll` | EXTENDS `VenueRegistry` with the sweep, the channel and the engine's end |
| `StatusFeed` | what the poll promises the engine: the abstract specification `StatusPoll` implements |
| `MCStatusPoll` | its instances for TLC |
| `Keeper` | the keeper run, its journal, and the venue it POSTs to |
| `OrderBook` | what a keeper promises of journal and orders: the abstract specification `Keeper` implements |
| `KeeperReport` | EXTENDS `Keeper` with the report of a run |
| `FlakyVenue` | the fixture adapter behind `VenueRegistry`, which it instantiates and implements |
| `MCFlakyVenue` | its instances for TLC |
| `Platform` | platforms in one process: link, worker admission, source opening, calls |
| `Policy` | the limits, from the composition root through the builder to the registry |
| `TypedClient` | one block at a module that drives a venue: quote, submit, status, cancel and every fold of a fault |
| `BodySchema` | the versioned body enum, its codec, and the vectors published for it |
| `Amounts` | the two integer encoders, the decoder, header goldens and uint vectors |
| `StatusWire` | a status transition in its body, envelope and event, to the handler |
| `Macros` | the attribute macros, their anchored files, and the dispatch they emit |
| `MCWorkbench` | the seven modules above it, for TLC, one at a time |
| `VenueRegistryProofs` | theorems about `VenueRegistry`: types, slots, quota, the budget of a caller with one call at a time |
| `CallProofs` | more of them: what a call costs, what goes under watch, the quota ledger and its pruning |
| `PollProofs` | theorems about `StatusPoll`: types, slots, what the calls are promised next to the sweep, the ends of watches, the order of changes and of what is heard, their delivery, the refinement of `StatusFeed` |
| `FlakyVenueProofs` | theorems about `FlakyVenue`, the refinement of `VenueRegistry` among them |
| `KeeperProofs` | theorems about `Keeper`, the refinement of `OrderBook` among them |
| `ReportProofs` | theorems about `KeeperReport`: the report adds up, and a run that reports is a run |
| `AmountProofs` | theorem about `Amounts`: encoders and decoder agree in every base and width, and what is known of digits |
| `WorkbenchProofs` | theorems about `TypedClient`, `Policy`, `BodySchema`, `StatusWire`, `Macros` and `Platform` |

Operators marked `Variant:` in the modules are plausible slips of the definition
that follows them. No specification uses them; they serve to see that a
property fails when the code is wrong in that way (`mutants` in `PROJECT.json`).

### 2.1 VenueRegistry

An action is one critical section of the code: what runs between two awaits, or
under one synchronous mutex. The correspondence:

| Code | Model |
|---|---|
| `resolve`, `VenueRegistry::register` | `Resolve`, `ResolveFails`, `Register` |
| the map of installed slots, `Liveness` | `gen[v]` (0: none; a replacement is a new generation, so `Slots` are pairs), `alive[v]`, `MarkDead`, `MarkAlive` |
| `quota_admits` / `charge` | `Gate` / `Charge` inside `ChargeQuote`, `DeriveHeader`, `DeriveInvalid` |
| the charge history, `prune` | `ledger[c]`, `Prune` (front only, strictly older than the window) |
| `slot.lock().await`, the guard's scope | `owner[slot]`, `Acquire`, `Unlock` |
| `derive_header` | `DeriveHeader`, `DeriveInvalid` (charged), `DeriveFails` (free) |
| the adapter's `submit` | `VenueTakes` (the venue has the body), then `SubmitAccepted` or `SubmitNotAccepted` |
| `quote`, `status`, `cancel` inside the slot | `Served` |
| `watch` | `PutWatch` within `SubmitAccepted` and `Observe` |
| a future dropped at an await | `Drop` |

Abstractions: bodies, headers, guard verdicts (advisory: they never stop a
call), quotations and error texts; the clock is a number bounded by `MaxNow`;
`status` and `cancel` go through the registry the same way and differ only in
the adapter's function; a registration brings a live `Liveness`. Not modelled: an
`Instant` overflow, which gives a watch without a deadline. A
call's `charges` and `result` fields are history, kept for `ChargePolicy`.

### 2.2 StatusPoll

`Snapshot` copies the watch list, `Visit`/`Skip` resolve one key, `PollAcquire`
waits for its slot, `StatusAnswered`/`StatusFailed` end the adapter's call and
unlock, and `Record*` is `record_polled_status` under the list's mutex. The
calls of `VenueRegistry` interleave between any two of them (`CallStep`), so an entry can
go, or be watched anew, while its answer is awaited. `Send*` is the loop over
the changes; `SendUnencodable` and `RecordUnencodable` are the two encode
failures (only with `Encodes = FALSE`). The venue's own state is `truth`, which
only moves forward (`VenueMoves`). `reported`, `heard`, `missed` and `created` are history;
`missed`, the receipts a poll failed on since their last refresh, is kept for the receipts of `Audited` only, since
nothing but `EvictedOnlyIfUnreachable` reads it (and `PollTypeOK` types it).
The order of a snapshot is abstracted to any order.

`SettlementHeard` promises the engine a settlement until the watch's deadline comes: `policy.rs:78-80` and
`registry.rs:427-432` let a watch be evicted from then on, reported or not, and `Lapsed` is that exception. What
must not end a watch before, or make it silent, is a venue that dies and recovers, a failed poll, a full channel, a
call or a re-watch.

`StatusFeed` has what is known of each topic, one feed and a listener: a watch ends without a word or begins, never
over a live one; a later state is told once and put at the end of the feed, and the one that settles ends the watch; the
feed is heard from its front. `StatusPoll` maps its watch list to what is known and its two queues, read as one, to the
feed (`Promise`, `KeepsTheFeed`). The feed is lossy only when a change may fail to encode (`Lossy <- ~Encodes`), and
then it loses one change and keeps the order of the others; a full channel, an awaited answer recorded on a newer watch, or a
venue that went away lose nothing. That a watch ends without a word only past its deadline is `WatchEndsExplained`.

### 2.3 Keeper

An action is the code between two writes to the store or two events at the
venue. `StartRun` lists the reservations; `ReconcileGated`, `ReconcilePost`,
`ReconcileEnds` and the four outcomes are `reconcile`; `PollDefers`, `PollRetires`,
`PollSubmitsMarked`, `PollSubmits`, `SubmitAccepted`, `SubmitSigning`, `SubmitRefused`
and `ApplyAction` are the loop over the commitments; `Abort` ends a run at any
step and stands for a trap, exhausted fuel, the deadline, and every store fault
the code propagates with `?` (a best-effort commit that fails is a disjunct of
`SubmitAccepted`). A POST cut off by an abort may arrive later (`inflight`).

The host and the venue are in two steps: a POST that reaches the venue's `submit` is taken
(`VenueTakes`, pc `taken`) and then answered, and one that does not, or that the venue refuses, is
answered from pc `post`. Two clauses of the reconcile contract the conformance kit states
(`videre-test/src/reconcile.rs`, `client.rs:165-177`) are assumed of the venue: it dedupes what it holds, and a body
it *holds* is answered neither a refusal nor a signing request (`Settles`). Nothing is assumed

- of a body whose late copy is still under way: the venue may refuse it and take the copy afterwards;
- of answers given before the venue is asked. `denied` is a refusal by the venue's own `submit`;
  `unsent` is what comes before it and is as terminal to the keeper: `UnknownVenue` of a host that has not
  installed the venue (`registry.rs:269`, `client.rs:33-34`), or a header that does not derive. A
  reconcile POST of a body the venue holds may be answered `unsent`, and `keeper.rs:272-275` then
  releases its reservation (`ReconcileReleases`).

`Ambiguous` is the set of transient faults the venue may answer to a first POST that it did take:
`{"unavailable"}` in `keeper_safety` and `keeper_timeout`, empty where a run is about something else. The
history variable `unsure` has the bodies whose last answer left open whether the venue has them or will
(`Misleads`), until one tells (`Tells`). `HeldIsMarked` excepts them and nothing else: crashes, store faults,
budgets, parks and lost answers lose no order, and an order is lost only on one of those three answers.

The journal, gates, retrier and commitment set belong to `nexum_sdk` and are
modelled from how `keeper.rs` uses them. A timeout, and a rate limit without a hint,
behave as `unavailable`; hints are whole seconds and sums saturate at
`MaxEpoch`. Malformed commitment keys
and the refusal marker an acceptance clears (nothing in this repository reads it) are left out.

`OrderBook` has a book, a set of orders and the doubts, and knows nothing of runs, ticks, budgets,
faults or crashes: a body is reserved before it is placed, confirmed once there is an order, given
up only when there is none or the last answer left that open, and placed anew only on the same terms. `Keeper` maps its
journal to the book, the venue's holdings to the orders and `unsure` to the doubts (`Promise`); every action of a run
is a step of the book or a stutter (`KeepsTheBook`). The book itself has no fairness; that reservations are resolved
in the end is `Reconciled`.

`KeeperReport` adds to every action what the code counts for it. The `kept` field of `run` and
the `rows` and `stranded` of `report` are history. A run that ends in an error returns no report,
so what it had counted, transactions to be signed included, is gone. A retry action is
counted by whether the row is still there, and by the action itself when the row cannot be read (`CountByEffect`).

### 2.4 FlakyVenue

The registry's own actions are those of `VenueRegistry`, instantiated with its `alive` defined
from `died`, the instant `mark_dead` keeps. The adapter's submit is two steps, `ReadHead` and then `Kill` and `Refuse` or
`Take` and `Accept`, for the head and the liveness sit behind mutexes of their own and other
threads move them in between; so is the handle's sweep (`SweepReads`, `SweepRevives`). The adapter's
futures never wait, so `Drop` happens only in front of the slot. One sweeper per handle is
assumed, as the fixture's tests have it. `BehavesAsAVenue` is the refinement: all of this is a
behaviour of `VenueRegistry!Spec`, in which `MarkDead` and `MarkAlive` come at any time.
`revived` is history.

A call that resolved before the adapter died reaches the slot afterwards and may be accepted by
a dead adapter whose head has healed meanwhile: the registry looks at the liveness once, in `resolve`.

### 2.5 Platform

`slot` is the process-wide `OnceLock`; `Link` publishes first and may fail afterwards
(`add_to_linker`), which leaves the registry of a platform that never runs published. `Admit` and
`Refuse` are `admit_worker` over the versions declared at that moment, `OpenSources` reads the
demand and `venue_count` once, and `Call` reaches whatever registry was published, for workers of every platform.
`vetted` and `counted` of an entry, and `served`, are history. `venue_count` counts dead
entries although its doc comment says "routable"; that is why a venue that is down at launch does not
leave its listeners deaf.

### 2.6 TypedClient

One block of `echo-keeper` (typed) or `echo-client` (raw) against a native venue or an adapter
component. Every failure has a cause with the place it began at; the folds of `faults.rs`,
`body.rs` and `transport.rs` are functions, and the result is their composition in the order the code's
`?` and `map_err` apply them. `VerdictIsKept` judges the result by the cause itself, not by
the folds. `faults.rs:6-11` calls the retry hint the one thing lost, but `unsupported` and a fetch
timeout drop their detail too; the model has no details, so nothing rests on it. `guard_receipt` stands in the typed client's
`status` and `cancel` and in the export shim of adapter components; a raw import on a native
venue meets neither (`adapter.rs:50`), and `observe` is guarded nowhere (`client.rs:294-298`).

### 2.7 Codecs: BodySchema, Amounts, StatusWire

`BodySchema` lets an author append, swap and remove versions after vectors were published. A vector of an
expected failure takes the author's word for it, checked by nothing when it is published
(`PushFailure`, `codec.rs:113-130`); `sound` remembers whether it was true. While
versions are only appended every published body keeps its reading, every true expectation still holds and every
untrue one (but a `malformed` that a new version makes true) is found out; after other edits the vectors
fail unless the two versions have the same payload type, and then nothing in the kit can tell.
`Amounts` has the two encoders the code has (`encode_uint` on the 32-byte word, the echo venue's
`minimal_be` on a `u64`), scaled to a base of 2 and 3 and 2 digits, and every byte string up to one past
the word. Powers and the reading of digits are recursive functions, so that they can be reasoned about. `StatusWire` has both codecs as borsh has them, with a string or a byte vector as
one cell, and damages the payload cell by cell; a foreign kind is ignored.

### 2.8 Policy and Macros

`Policy` follows a watch limit from either constructor through the builder's clamps. The doc of
`derive_grace` says `min(2 * expiry, max)`; the code floors the expiry to whole seconds first, so the
grace falls short of that by less than two seconds, and an expiry below a second has none (`GraceAsConfigured`).

`Macros` starts from every annotated impl, manifest and registry row, edits the two files and builds.
`Expand` is the macro, `Fresh` the `include_bytes!` anchors by which cargo knows whether to run it
again, `OnTrigger` the dispatch the expansion contains: its answer names the handler that ran and what it was given, and
`HandledAsWritten` compares that with the impl as it stands. A registry file that did not exist when the macro ran is not
anchored, so creating one does not rebuild (`keeper.rs:309-319`); `BuiltAsWritten` excepts that case.

## 3. Model checking

| Run | Instance | What it shows |
|---|---|---|
| `registry_quota` | 2 venues, one never answers, 2 tasks of one caller, submit and quote, limit 1, window 1, clock to 2, fairness | `QuotaBound`, `ChargePolicy`, `GateCountsWindow`, `LedgerForgetsOnlyAged`, `CallsReturn` |
| `registry_calls` | 1 venue id with 2 generations, 2 tasks, all five operations, 3 interchangeable receipts (symmetry), watch cap 2, grace 2, window 1 | `SlotGuarded`, `WatchBounded`, `WatchOutlivesOverflow`, `AcceptedIsWatched` |
| `quota_overrun` | 2 tasks of one caller, submits only, limit 1 | violates `ChargesWithinBudget` |
| `poll_safety` | 1 venue, 2 interchangeable receipts (symmetry), watch cap 1, 3 statuses, 2 watches, encode failures, shutdown | `ReportsInOrder`, `WatchEndsExplained`, `PollerGuarded`, `KeepsTheFeed` |
| `poll_liveness` | 2 venues that die, recover and err, channel of 1, grace 1 and a clock to 1 (deadlines may come), re-watches, fairness | `LastReportTravels`, `SettlementHeard` |
| `poll_eviction` | 2 venues, grace 1, a host that is otherwise prompt | violates `EvictedOnlyIfUnreachable` |
| `keeper_safety` | 2 bodies, 2 commitments, budget 1, clock to 2, an ambiguous fault, answers that never reached the venue, with the report | `PostIsReserved`, `HeldIsMarked`, `CommittedIsHeld`, `CommittedIsFinal`, `NoSecondPost`, `ParkRespected`, `ReportAddsUp`, `KeepsTheBook` |
| `keeper_liveness` | 2 bodies, one put off forever, budget 2, fairness | `Reconciled` |
| `keeper_starvation` | the same with budget 1 | violates `Reconciled` |
| `keeper_timeout` | 1 body, an ambiguous fault | violates `TransientStaysReserved` |
| `flaky_recovery` | 1 venue id with 2 generations, 2 tasks, submit and status, a head that moves at any time, sweeps, fairness | `BehavesAsAVenue`, `OneStaleRevival`, `RecoversForGood` |
| `workbench` | seven modules, one at a time (below) | `OneRegistryServes`, `MisreadExplained`, `NoDeafKeeper`, `GraceAsConfigured`, `AmountsAgree`, `VectorsGuardTheSchema`, `StatusReadAsSent`, `BuiltAsWritten`, `VerdictIsKept`, `WireIsClean` |

`workbench` puts modules that take no part in one another's steps in one run: a behaviour picks
one of them and leaves the others where they start, so TLC explores the sum of their
states and not the product. Its instances: 2 platforms, 2 venues and 2 workers with 3 registrations; one
body and two receipts, one of them empty; 2 versions of 2 payload types and 2 vectors; a 3-digit word in base 2; half-second
ticks up to a `u64` of 4 seconds; statuses damaged up to twice; 2 edits between builds. It stops where there is nothing left to
do (a block ended, a registry built, an event handled), so it is the one run without the deadlock check.

**Why the bounds are enough to be interesting.** Two tasks of one caller are what it takes to
put two calls between gate and charge; other callers have ledgers of their own, and the
proof of `QuotaHolds` covers any number of them. A limit of one
makes every second charge an overrun; a clock of 0..2 with a window of 1 has charges
that are fresh, exactly at the window's edge and aged out. Two generations
give calls that hold the slot of a replaced adapter. A watch cap of two with three
receipts lets the list hold two entries that must differ, and overflow; a grace of two
has an entry asked for again, later and still unexpired, and one that expires. Two watches of one receipt are the
case in which an answer awaited for the first is recorded on the second; a second receipt
under a watch cap of one is what prunes the entry whose answer is awaited. A grace of one with a clock of
0..1 lets a watch pass its deadline at any point of `poll_liveness`, and lets one begun later live on. A
channel of one is full after one change. Two bodies with a budget of one show
the reconcile pass stopping half way; a clock of 0..2 has a parked reservation that is
early, due and saturated. Two bodies and one ambiguous fault reach each of the three answers that leave a body
`unsure`, and its resubmission by a later tick. Two tasks at the flaky venue let one read the poison and kill the adapter
after a sweep, or a replacement, has put it right again; two generations under one head give a handle
that sweeps an adapter nobody routes to. Two platforms are what it takes for a registry to be published
by the wrong one; two venues for versions to differ within a platform; three registrations for a
replacement after admission. Two damaged cells can change a tag and a length together.

### 3.1 Fairness

- `RegistryStep`, `PollStep`: weakly fair. The runtime polls a task that is ready.
- `Acquire`, `PollAcquire`: strongly fair. tokio's mutex is first come, first
  served, so a waiter is not overtaken forever while the slot is freed again and again.
- `AdapterAnswers`: weakly fair, for the venues of `Responsive` only. An adapter that never
  answers is allowed for the others, and `registry_quota` has one.
- A responsive venue that is asked again and again about a receipt answers a
  status some time (strong fairness of `StatusAnswered` per receipt), since an adapter
  that errs on every poll gives the engine nothing to hear.
- `Receive`: weakly fair. The engine drains its channel.
- Keeper: ticks keep coming (`StartRun`, `Advance`), a run's own steps go on, and
  aborts are sporadic: what a run reaches again and again it completes some time
  (strong fairness of the steps of the reconcile pass). The venue answers; for the bodies of
  `Settling` it answers something definite in the end.

- Flaky venue: a submit that entered the adapter goes on (its futures never wait), and whoever holds
  a handle keeps sweeping, both weakly fair; the registry's own steps need none here.

Nothing is assumed of `Drop`, `MarkDead`, `VenueMoves`, `Tick` or the commitments.

`PromptSpec` (for `poll_eviction` only) is not fairness: it keeps the clock from
moving except while the sweep waits for somebody else, so that the counterexample
is about a slow venue or engine and not about a host that stands still.

### 3.2 Where the code and its own words part

1. `policy.rs:46` calls `max_charges` the maximum a caller may accrue within the
   window. A submit's gate and its charge are separate critical sections with the wait for the slot and
   `derive_header` between. While the first submit of a caller is there the second passes the gate as well, and both
   are charged (`quota_overrun`). `QuotaBound` states what does
   hold and is proved; of callers with one call at a time the sentence is true (`BudgetOfOneCallAtATime`).
2. `policy.rs:78-80` says the grace is how long a watch survives an
   *unreachable* venue. The sweep is sequential and has no timeout, so the watch
   of a reachable venue behind a slow one, or behind a full channel, passes its deadline too
   (`poll_eviction`).
3. `keeper.rs:1357-1360` says anything but an acceptance, a signing request, a terminal refusal
   or a rate-limit hint leaves the body RESERVED. The submit arm
   releases on every fault (`keeper_timeout`). The order is then one that `HeldIsMarked` excepts as `unsure`.
4. `keeper.rs:225-226` says a RESERVED marker is never skipped. The pass starts at the
   first key every tick and stops at its budget, so reservations that stay
   transient starve later keys (`keeper_starvation`; with a budget for all of
   them, `keeper_liveness` holds).
Beside these stands a loss no sentence of the code rules out, and no run refutes one by: the reconcile pass releases on
every fault the policy calls terminal (`keeper.rs:229`, 272-275), and `UnknownVenue` is one, which a host without the
venue answers of its own (`registry.rs:269`, `client.rs:33-34`). A keeper that is restarted before its venue
is installed so gives up the reservation of an order the venue holds, and the commitment may submit it again.
`HeldIsMarked` and `KeepsTheBook` except such a body as `unsure`; without that exception both fail.

## 4. Proofs

`VenueRegistryProofs` proves, for every set of venues, callers, tasks and receipts and
every limit, assuming only `RegistryConstants` (finitely many tasks, each calling for one
caller; limits are naturals; the markers `None` and `Poller` are neither tasks nor
receipts):

- `TypeCorrect`: `Spec => [](TypeOK /\ Placed)`; `TypeOK` is a part of the `PollTypeOK` of `poll_safety`. It is not inductive alone: an
  unlock writes `owner` at the call's slot and an accepted receipt goes under watch at the call's
  venue, so the types are kept only because a call that has started has a
  slot, a venue and (once posted) a receipt, and derives or posts only as a
  submit. That is `Placed`. The two together are `RegistryInv`; there is one lemma
  for how a call may end, one for how it moves on, and one step per action.
- `SlotsExclude`: `Spec => []SlotGuarded`. `SlotGuarded` is inductive relative to `RegistryInv`.
  The argument sorts the actions in three: those that leave `owner` alone and stay on
  their side of the slot's scope, `Acquire` which enters a free slot, and those that leave and unlock. The
  interesting half is the second conjunct (an owned slot has its owner inside):
  it says that errors, invalid bodies and dropped futures all unlock.
- `QuotaHolds`: `Spec => []QuotaBound`. A call is *in the gap* when the gate let it
  pass and it is not yet charged. `QuotaMoves` shows that every step treats a caller in one of
  three ways: its charges and its calls in the gap do not grow; its charges are
  below the limit, as the gate just saw; or it has one charge more and one call in the gap
  less. Each of them keeps `charges + gap <= limit - 1 + tasks`.
- `BudgetOfOneCallAtATime`: if no two tasks call for one caller, `Spec => []ChargesWithinBudget`, the sentence
  `quota_overrun` refutes for a caller with two. It follows from `QuotaBound` with one task: the recent charges
  are among those of the ledger.

`KeeperProofs` proves, for every set of bodies and commitments, every budget, policy,
clock and set of hints, assuming only `KeeperConstants`:

- `KeeperTypesHold`, `PostsAreReserved`, `PostsAreFirst`, `ParksAreRespected`: from `JournalInv`, which is
  `KeeperTypeOK` and `Journal`. Nor are the types inductive alone: that the venue holds bodies of the keeper only rests on
  what `Journal` says of a run at the venue. None of the three properties is inductive. A POST of the
  reconcile pass is reserved only because the bodies the pass still has before
  it are reserved, which holds because nothing but the body at hand moves
  during a pass and that one has left the list; a fresh POST is the first
  of its run because whatever the run kept has a mark.
- `CommitsAreFinal`: from `JournalInv` and the lemma `MarkMoves`, which says the
  three ways a mark moves at all.
- `CommitsAreHeld`: from `Truth`, that an answer `accepted` is about a body the venue holds.
- `NoOrderIsLost`: `HeldIsMarked`, for every set of ambiguous faults, under one hypothesis. `Cautious` (a transient
  fault is never dropped)
  holds of `retry_action` (`DefaultPolicyIsCautious`) but not of every `FaultPolicy` a
  keeper may install. The strengthening, `Accounted`, says of a body the venue has or may still come to have that
  the answer to it is an acceptance, a transient fault of the reconcile pass, or one that left it `unsure`; and that a
  run first POSTs such a body only if an earlier answer left it `unsure`. Then a mark that
  goes is the mark of a body nobody has, or of one in doubt (`ReleasedIsNotHeld`); `DoubtsCome` says
  that only an answer changes what is in doubt, and only of the body it is for.

- `KeeperKeepsTheBook`: under `Cautious`, `KeeperSpec => KeepsTheBook`. `BookStep` maps
  each action to a step of `OrderBook` or a stutter, from the facts above: what is held is marked or in doubt, what is
  committed is held, a mark is released only of a body nobody has or of one in doubt, and an answer is a step of the
  book that hears it.

`ReportProofs` proves `ReportsAddUp`, assuming in addition that the commitments are finitely many (`ReportConstants`: the
rows of a store are). The sums of a report do not add up at every step: between its POST and its count a body is
in no bucket, and the loop has what is left of its list before it. `Balance` says it of the steps: what the pass
tried is what the run has spent, the one body in hand included; what the loop came to, what it has in hand and what is still
listed are as many as the rows it began with; and the polls that ended are those begun but for the one in hand. That is a
conservation law on cardinalities, kept by every step that moves a commitment from the list to a bucket.
`ReportingIsKeeping` (`ReportSpec => KeeperSpec`: counting changes nothing of a run) carries the theorems of
`KeeperProofs` over to the specification `keeper_safety` explores: `ReportingRunsAreSafe` for any venue and policy,
`ReportingKeepsTheBook` under `Cautious`.

`CallProofs` proves four more properties of `VenueRegistry`, from the same assumptions:

- `CallsCostWhatTheyShould`: `ChargePolicy`. It speaks of results and of a few steps; the
  invariant (`Billed`) gives every step of a call its price. `Priced` is the property for one call,
  `InOrder` says what a call under way has paid and that it has no result yet. A
  call ends with a result that `Priced` accepts because of what `InOrder` says of the step it ends at.
- `WatchListIsBounded`, `WatchesOutlive`, `AcceptedGoesUnderWatch`: from `WatchMoves` (a step leaves the
  watch list alone or is a `PutWatch`) and `WatchInv`, which adds to the bound that the list is finite.

`CallProofs` also proves `ChargesAgeOut` and `GateIsExact`. `PruneDropsFront` is the lemma about the pruning: the aged
front of a history is its first `k` charges for some `k`. It needs no induction: a set of positions that holds every position below
each of its members has as many members as its largest. That the charges left are those inside the
window is true of histories in order only, and `LedgerInv` says that they are, since the clock never runs back.

`PollProofs` proves, for every set of statuses, size of the channel and bound on watches as well (`PollConstants`):

- `PollTypeCorrect`, `SweepExcludes`: from `PollInv`, which joins the registry's own invariants to the types of the
  sweep and to `PollerGuarded`. A step of a call is a step of `VenueRegistry`, so its lemmas apply as they stand;
  `SweepMoves` lists the few ways every other step touches a slot or the watch list. So `SlotGuarded` and the bound of the watch
  list hold of the registry with its sweep, not only without it.
- `SweepChargesNobody`, `SweepLeavesQuota`, `SweepLeavesGate`, `SweepForgetsNoCharge`, `AcceptedJoinsSweep`: the promises of
  `CallProofs` to a caller hold next to the sweep. A step of the system is a step of a call, of which the lemmas of the registry
  speak, or it leaves ledger, calls and clock alone (`PollMoves`). `WatchOutlivesOverflow` is not among them: the sweep
  replaces an entry when it refreshes it, and `WatchEndsExplained` is what is true of its watches.
- `WatchEndsAreExplained`: from `SweepMoves` and `WatchMoves`.
- `ReportsAreInOrder`, for one watch: from `Told`. The answer the sweep carries from the slot to the watch list may be older than
  what the venue says by then, but it is not behind what was last recorded, because only the sweep records. The entry remembers
  the last change of its report; a new watch of the same receipt begins with neither.
- `ReportsAreInOrder`, for all watches of a receipt: a new watch begins a new report while changes of the old one may still be
  queued, so `Told` says nothing of what the engine hears. `Sent` does: of one receipt, what was heard, what is in the two
  queues, the answer the sweep carries and the state at the venue ascend, in that order. It is kept because each is fed from the
  next one only; losing changes, or closing the channel, leaves a part of an ascending queue (`AscendsInPart`).

`PollProofs` also proves `LatestChangeTravels`. Read as one queue, what is sent and what is still to be sent, the last change
of a receipt on its way is the latest recorded, or none is and the engine has it (`Delivery`).
Sending leaves that queue as it is, receiving takes its head, recording adds at its end.

And it proves `PollKeepsTheFeed`, the refinement of `StatusFeed`, with encode failures (the case the run has) or with none. `FeedStep` maps each
step to a step of the feed or a stutter from three facts of the invariants above: the list has one entry per key, so it can
be read as a function (`KnownIn`); an entry remembers the last change of its report and the answer at hand is not behind it
(`Told`); and the queues read as one move as one queue does (`SendKeepsOrder`, `ReceiveTakesHead`, `DropLeavesRest`). A call
or a prune that drops expired entries and watches a receipt anew is one step of the feed (`KnownRewatched`).

`FlakyVenueProofs` proves, assuming that `None` is no instant and the assumptions of the instantiated registry:

- `FlakyVenueIsAVenue`: `FlakySpec => Registry!Spec`. The registry sees the liveness of the installed adapters only
  (`Alive`), so the death or the revival of a slot's adapter is a `MarkDead` or a `MarkAlive` of its venue if the
  slot is the incumbent's and the liveness changes (`AliveMoves`), and a stutter otherwise.
- `RevivesLateOnce`: from `LateSweeps`, that a sweep under way over a poisoned head finds no late revival made before it.

`WorkbenchProofs` proves, of each of six components, what one would try on a few examples, for all of them:

- `VerdictsAreKept`, `WireStaysClean` (`TypedClient`): `FoldsKeepTheVerdict` takes the causes one place of origin at a
  time. `ClientWire` says what `WireIsClean` needs: a typed client about to submit has the body it
  quoted, and that one has been on the wire.
- `GraceIsAsConfigured` (`Policy`): for every length of a second, multiplier, cap and set of limits. `GraceIsClose` writes an
  expiry as whole seconds and a rest; the multiplier times the rest is what is lost, and the saturation at
  `u64::MAX` is beyond the cap.
- `VectorsGuard` (`BodySchema`): `Recorded` keeps of each published vector what its bytes are (`FrameShape`: a tag and as
  many cells as its payload type has) and, while versions are only appended, the place of its version in the enum. What a
  failure vector's frame is decides whether its expectation was true, and appending versions does not change that.
- `StatusTravels` (`StatusWire`): `PlainReadsBack` and `EnvelopeReadsBack` show that the encodings decode to what was
  encoded and to nothing else; `DecodedStands`, that whatever decodes encodes to all of the bytes. `Joined` and `Cut` are the
  facts about concatenation and subsequences both codecs rest on. `Nothing` is assumed not to be an event (`WireConstants`).
- `BuildsAreAsWritten` (`Macros`): `ExpansionIsFresh`, that an expansion's anchors determine it, gives the
  invariant that a component is always the expansion of its own anchors; a build makes them the files there are.
  `AnswersAsWritten` says what a component answers to a trigger is what its source, as expanded, handles.
- `OneRegistry`, `MisreadsAreExplained`, `ListenersAreServed` (`Platform`): for every set of platforms, venues, workers and
  declared version sets, from one inductive invariant, `PlatformInv`: the types; whatever served is the published registry; a
  worker in an entry's `vetted` with a section was admitted with versions that entry declares, or the entry declares none; a
  running platform that counted a venue and has an admitted listener polls. No property is inductive alone: a later registration
  changes what is installed, and only the history fields tell it from what was vetted.

`AmountProofs` proves `AmountsAlwaysAgree`, for every base of at least two, every word and every shorter native word, and all
amounts and byte strings there are. Two amounts with the same bytes are equal, an encoding has no leading zero and fits the
word, and every byte string the decoder accepts is an encoding: the uniqueness of positional notation. It is an induction over
digits, which the library's induction theorem cannot be used for; `SetInduction` does instead, by counting: a set holds every
natural if it holds 0 and the successor of each of its naturals, for below one it missed the missed ones would map one to one
into fewer. `Recursion` gives a recursive function of `Amounts` its equations; `PowerIs` and `Reading` are the weights and the
reading of a prefix; `DigitsReadBack` reads the digits of an amount back to it, and `BytesAreDigits` says that bytes are the digits of what they read as.

What is model-checked only:

- the liveness properties (`CallsReturn`, `SettlementHeard`, `RecoversForGood`, `Reconciled`):
  they rest on fairness, which the prover does not treat;
- the four runs that refute a sentence of the code.

## 5. Possible extensions

1. **The keeper over the registry**: `Keeper` takes its venue as the reconcile contract describes
   it. Composed with `VenueRegistry`, rate limits, dropped futures and dead venues would be
   derived instead of assumed; the product is beyond an exhaustive run at these bounds.
2. **Abstract quota and lock**: a budget of tokens and a lock per venue that `VenueRegistry` refines.

## 6. Not modelled, or modelled and promised nothing of

- Behaviours the models have and the code promises nothing about, so that no property forbids them: a call whose
  venue dies or is replaced between `resolve` and the slot (`registry.rs:306`); a submit dropped after the venue
  accepted and before its receipt goes under watch (`registry.rs:343`); venues that register after sources opened
  without any (`lib.rs:145`).

- `HostVenues` and `BlockingTransport` as plumbing, the wit bindings, `bindings.rs`, the re-exports of `lib.rs`:
  declarations, or one call handed on.
- The client's un-quoted `submit` and `observe`: single calls whose guards (or their absence) the modelled calls show.
- `MockFetch`, `MockTransport` and the reconcile compliance suite of the kit: test doubles, and one check of a
  venue that `Keeper` has as an assumption (`Settles`).
- The echo venue beyond its header: it answers constants.
- Texts, details, spans and tokens; HTTP beyond the phases of a timeout.
- Real time: clocks are bounded counters, and no run says how long anything takes.
