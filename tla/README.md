# Verification of the APEX capture core

TLA+ models of the Rust workspace in `src/crates/apex-*`, the TLC configurations
that check them on small instances, and TLAPS proofs of what holds on every
instance. The system looks for arbitrage on Base, commits to an opportunity as a
*ticket*, signs and sends one transaction for it, and must be able to say of every
ticket, across crashes, how it ended. Modelled are the parts that carry that
promise (the ticket registry and its journal, boot recovery, the shutdown drain,
the signer lanes and their nonces, the append-only files), the two lanes that
send real transactions (the canary and the armed-live worker, each with its
ledger, its limits and its recovery), and the live pool book that everything is
priced from, with the feed and the reload loop that write it.

All paths below are under `src/crates/`.

## Inventory

| Component | State | Operations | What makes it correct | Hard part |
|---|---|---|---|---|
| Ticket registry (`apex-capture/src/registry.rs`, `apex-types/src/ticket.rs`) | live map, checked-out set, outcomes, next id, five counters, under one mutex | admit, checkout, advance, close, guard drop, sweep, restore, reserve_ids_through | no ticket leaves without an outcome (INV-02); only its holder ends a held ticket | the drop of a guard takes the lock twice; an append fails half way through a transition |
| Journal (`apex-capture/src/journal.rs`) | a file of JSON lines and its fsynced prefix | open, append (fsync from Authorized on), replay | what was promised is read back; a crash is no outage | torn lines; write done, fsync failed |
| Boot recovery (`apex-capture/src/recover.rs`) | a scan, the dispatch gate | scan, reconcile, open | every in-flight ticket is settled, truthfully, before dispatch (INV-39) | a crash at any point of anything, boot included |
| Plane (`apex-runtime/src/plane.rs`) | none of its own; drives the two above and below | boot, drive, protocol (steps 2 to 11) | durable before it sends; every exit closes the ticket and returns the nonce or keeps it knowingly | a dozen early returns, cancellation at every await |
| Shutdown (`apex-runtime/src/shutdown.rs`) | locals of `Drain::run` | begin, stop workers, drain | never judges a ticket whose fate it cannot see; waits for nobody | three lock takes per ticket beside live holders |
| Signer pool (`apex-capture/src/signer/pool.rs`) | per lane a busy flag and a health record | assign, record_outcome, drop | one holder per lane, none lost | survey and take under different locks |
| Nonce lane (`apex-capture/src/signer/nonce.rs`) | high-water mark, in-flight markers, confirmed | reserve, release, purge | no nonce used twice, no gap left by what was not sent | lagging node, vanished transactions |
| Canary (`apex-runtime/src/canary/`, `shadow/mod.rs` head loop) | ledger, the state replayed from it, one send in hand, tickets, the boot nonce | record, halt, hold, send, settle, observe, tripwire, reset, open, resolve, close | losses stay under the limits, a halt stays, nothing sent is forgotten | outcome and halt are two appends; hold read before the write; a send the boot cannot find |
| Armed-live worker (`apex-runtime/src/armed/live.rs`, `live_ledger.rs`) | pending submissions by slot, the day's loss, nonces, the turn, a ledger with compaction | submit, bump, refuse, settle, land, expire, abandon, trip, roll, compact, begin | the day's losses stay in the budget; what expired is dead; what landed is accounted for | reads outside the turn; replacements of one nonce; midnight; crash between two records |
| Armed engine (`apex-runtime/src/armed/`, the rest) | thresholds, bids, predicates | propose an arm | numeric | arithmetic |
| Live book (`apex-runtime/src/live/book.rs`, `feed.rs`) | pools, positions, status, the held burst | apply a burst, retract, mark, reload | a pool holds each log it was told of once; a gap is answered by a full reload | copies out of order; a read older than what is applied; gaps under a running reload |
| Reload loop (`apex-runtime/src/shadow/mod.rs`, `reload.rs`) | a mailbox, a permit, the newest head | request, take, wait, read, write, ask again | what is flagged is asked for, what is asked for is heard | the wait races the request; a read that fails or is stale |
| Feed websocket (`apex-chain/src/rpc/ws.rs`) | session, gaps | connect, drop, overflow, reconnect | says when something was missed | sessions overlap blocks |
| Feed integrity, arbiter, branches (`apex-state/src/`) | per-feed integrity, claims, branches, versions | observe, rebuild, resolve, commit | library types no binary constructs | - |
| Risk (`apex-risk/src/`, `apex-runtime/src/risk.rs`) | posture, loss windows, breakers | observe, step down, record | built with an empty ladder and unreachable limits (`shadow/mod.rs:922-935`) | - |
| Scheduler (`apex-capture/src/scheduler.rs`) | bounded heap | push, shed, pop | the best survive | order at the limit |
| Supervision (`apex-runtime/src/supervise.rs`, `bus.rs`) | task handles, queues | spawn, restart, join, publish | no task outlives shutdown | backoff racing shutdown |
| Chain adapters (`apex-chain/src/`) | connection state, endpoint health | submit, observe, reconcile, failover | an unanswered question is not a "no" | timeouts |
| Quorum, pricing, search, venues, encoding (`apex-sim`, `apex-econ`, `apex-math`, `apex-search`, `apex-venues`, `apex-exec`) | nearly none | pure functions | numeric | 256-bit arithmetic, outside TLC's reach |

How they interact: the plane calls registry, pool and gate synchronously and
awaits the chain; the registry calls the journal while it holds its lock; the
drain and the sweep call the registry from other tasks; supervision aborts tasks
at their awaits, which runs the drops of the ticket guard and the lane
assignment; recovery runs alone, before any of them. With the canary on, the
plane's dispatcher is the canary's: its ledger is written before the send, its
settlement answers the plane's observe and reconcile, and at boot it is the chain
source the plane's recovery asks. The head task shares the canary's state with
the capture task and trips it. The armed-live worker is called by two tasks, one
with lines and one with heads, that take a turn. The feed task applies logs to the
book and posts reloads in a mailbox; the reload task takes them, reads the chain
at the newest head the feed has shown, and writes the book. The hazards of each part are
listed, at their lines, in `PROJECT.json`.

## Modules

    Ticket            the status order, what is durable, what may be on chain
      TicketRegistry  registry + journal, one action per critical section
        Recovery      + plane, chain, crashes, boot, gate  => TicketContract
          Shutdown    + drain and sweep
    TicketContract    the abstract promise
    NonceLane         one lane's allocator, as operators
      SignerPool      + pool, the plane's use of a lane, mempool and chain
      Canary          + ledger, limits, send, head task, boot, chain
    AppendLog         a line-per-record file, in three variants
    ArmedLive         the armed-live worker, its ledger, two tasks, chain
    LiveBook          the pool book, feed task, reload task, chain

The `MC` modules give the bounds.
The `_proofs` modules hold the theorems: `Shutdown_proofs` builds on `Recovery_proofs`,
`Canary_proofs`, `LiveBook_proofs` and `ArmedLive_proofs` on `FoldLemmas`, and
`SignerPool_proofs` and `AppendLog_proofs` stand by themselves. Operators named
`X_Something` just above an `X` are mutants: `X` with a plausible bug, used to
check that a property can fail. Nothing but that check uses them.

**Ticket, TicketRegistry.** A status is its discriminant. `live`, `checkedOut`,
`outcomes`, `nextId` and `metrics` are the fields of `Inner` and its counters. Every public operation
holds the mutex for its whole body, append included, so it is one action with one
disjunct per result. The exception is `TicketGuard::drop`: `DropGuard` releases
the check-out, `AbandonDropped` closes. The file is `log`, the lines in it that
replay reads, and `tail`, what it ends in behind them: nothing, the start of a line,
one whole line that does not parse, or such a line with more behind it. `synced` and
`firm` are as much of the two as an fsync has covered. `Journaled` is a successful
append, and `JournalFails` one that returned an error: it may have left nothing, the
start of the line (`Torn`), all of it but the newline (`Bare`), or the line with only
its fsync missing, which a later fsync covers too. Nobody repairs the end of the
file, so behind the start of a line the next append is the other half of a line
that does not parse, its writer told Ok (`Written`). Replay forgives such a line
while it is the last and refuses the file from then on. `guard[w]` is the ticket in
a task's hands, with `ok`, the last status an `advance` returned Ok for.
Restores and the raised id counter happen only inside boot and are part of
`BootScan`.

**Recovery.** `PlaneAdmit` to `PlaneDrop` are `drive` and `protocol` as the
registry sees them: the ticket goes through `Milestone`, a selection of the
twelve statuses (the statuses in between behave alike), can be refused at any of
them, and its task can be cancelled at any of them. `Send` is the moment the
transaction leaves: after `advance(Dispatching)` returned Ok and the gate gave a
permit. `chain` says what became of it. `Crash` loses the memory and keeps the
file, a piece of the line being appended with it, or, when the machine dies, any cut
of the file behind what an fsync covered (`Cuts`). Boot is `BootScan` (replay, scan,
reserve, restore: nothing else runs yet; replay and scan may refuse), `CloseNeverSigned`
and `Resolve` one ticket at a time in journal order, each of which can fail and
end the process, and `OpenGate`. A chain source that cannot answer fails the
boot. A ticket with no transaction and one whose transaction was evicted are both
reported as not landed; a transaction is evicted for good.

**TicketContract.** A book with a page per ticket (unseen, open, doubtful,
settled), the set of exposed tickets, and whether dispatch is allowed. "Doubtful"
is an outcome whose fsync failed: it is in the file, the caller was told it is
not, and a power failure may take it back. It is the one thing a power failure
may take back. The book is `smudged` once a line in it was not finished: what is
written from then on may never reach a page although its writer was told it did, so
an outcome lost that way leaves its ticket open, and all the contract still promises
is that no page moves backwards. `Recovery` implements it with `book` computed from
the fsynced part of `log` and `smudged` from `tail`.

**Shutdown.** `DrainBegin` is the end of the grace period, whenever it comes;
for each ticket `DrainRead`, `DrainAsk` and `DrainClose` are the three lock takes
of the loop. Admissions stop when the drain begins and the capture worker is
joined, so nobody is between admit and checkout; guards of tasks still running
keep moving. The module follows one process to its end: one boot, and no boot
after the exit. The settlement of what was sent is `Recovery`'s matter.

**NonceLane, SignerPool.** A lane is `reserved` (high-water mark), `inFlight`
and `confirmed`. Time appears only as the cut below which markers are stale:
markers are made in the order of their nonces, so whatever time has passed the
stale ones are a prefix (this takes the clock to be monotone). `assign` is a
survey, one lane per step, then `Take`. The rest are the exits of `protocol`:
which of them release the nonce and how, and which record a success or a
failure. The node's pending count is any number up to the true one. The
mempool may lose a transaction at any time. `health` is in thousandths.

**AppendLog.** A record is a number, a line is a record or `Broken`, and behind
the last newline there may be a torn or an unterminated record. `Store` selects
the journal, the canary's ledger or the armed ledger; they differ in what they
sync, whether open repairs the tail, whether a failed append is rolled back, and
which broken line they forgive.

**Canary.** `ledger` is the sequence of records written to disk, `file` what it
ends in (a whole line, the start of one, or a line that does not parse and that `open`
does not forgive), and `mem` the `State` that `Apply`, one record at a time, makes of
what is `Legible`; `Replay` is `Canary::open`. The
capture loop is `send.pc`, one action between two awaits: `Admit`, `CheckHold`
(the second look at the hold), `WriteAhead`, `HandOff` (the bytes leave),
`Answer`, `Observe`, `RecordHalt` (the second append of a record that trips),
`Close`. `Lapses` is an advance the journal refuses around an accepted send: protocol
ends, and nobody asks what became of the transaction. The lane's nonce is `NonceLane`'s: `reserve` at admission, `release` for
what certainly did not leave. `ReadNonce` is the head task's reading, which trips
the halt in memory and then writes it (`RecordTripwire`). The chain has one
transaction per nonce; a transaction is on the wire, pending, dead or mined one of
four ways. After a `Crash`, `Open` replays, `ResolveOpen` settles what the ledger
left open, one send at a time (with a receipt, or with nothing found, which
halts), and `BootCloses` closes the tickets the plane's journal holds open. A
failed append may have left its record, or a part of it (`Partial`), and so may a
death; behind a part the next append makes a line no later open accepts. The stop
file is a free choice in
`CheckHold`. The operator's reset is the script's line, synced, while the process
is down.

**ArmedLive.** `mem` is `LiveState` (the submissions that may still land, the
day's loss, the day's cap, the tripwire, the day), `Apply` and `Replay` are its
`apply` and `from_records`. The turn is a lock: `line` is a line being submitted
(`Submit` up to the hand-off, `Answered`, `RefusedFor` with its `Bump`,
`LandingCheck` or end), `head` is a head (`HeadReads` outside the turn,
`HeadSettles` inside it, one sender at a time). `Judged` is what `settle` decides
of one sender: land what the receipts show, expire what is past its bound, abandon
what the nonce passed without a receipt. Its records go out one append at a time
(`Write` drains `outbox`), so a crash can fall between any two. `Begin` is boot:
perhaps a compaction (`Kept`, refused unless it replays the same), the nonces from
one node that may trail, a trip for each one that no record explains. `excused` is
history: whether the lane has a reason to trip that no reset has put behind it. A
death that loses an unsynced reset brings its trip back, and a reset while something
is still pending may meet what came before it again; both leave a reason. `misdated`
is history too: what landed on a later day than the record that settled it bears,
which `LandingCheck` makes happen when a line written before midnight looks after it.

**LiveBook.** A log is named by its place on the chain; what a pool's liquidity
and ladder hold is how often each position change is counted, so "exactly once" is
a number. `SwapInto` and `LiquidityInto` are the two writes of a burst, `Hold` and
`Flush` the burst (a log of a later block ends it), `Removed` a reorg's report,
`Drop`, `Connect`, `Rejoin` the sessions. `Ask` is the mailbox with its permit;
`Take`, `Wait`, `Wake`, `Begin`, `ReloadFails`, `ReloadWrites` are the reload loop.
`told`, `unheard`, `joined` and `blind` are history: what a pool's state was told
of, what came while the book did not hold it or was in the state it removed, where
the session began, and whether the last verifying read was from before it.

## Runs

| Run | Instance | States | Shows |
|---|---|---|---|
| `recovery` | 1 worker, 2 tickets, 6 milestones, 2 faults, 2 crashes | 475,151 | `TypeOK`, `Accounting`, `SentIsOnRecord`, `BootVerdictsAreTrue`, `JournalStaysReadable`, `OwedIsHeld`, `ImplementsContract`, `Recovers` |
| `shutdown` | 2 workers, 2 tickets, 2 milestones, 1 crash | 311,307 | `DrainTypeOK`, `Accounting`, `HeldIsLive`, `NothingWalkedPast`, `DrainEnds` |
| `signer_pool` | 2 workers (symmetric), 2 lanes, nonces 0..2, 4 uses | 430,636 | `TypeOK`, `OneHolder`, `HeldNonceIsNewest`, `UnsentLeavesNoGap`, `ConfirmedNotReused` |
| `canary` | 2 transactions, 1 refusal, other limits of 2, 1 mishap, 1 crash, 1 reset | 1,006,632 | `TypeOK`, `NothingForgotten`, `LossBounded`, `NonceNotReused`, `TripwireTruthful`, `NoSendPastAHalt`, `BootEnds` |
| `armed_live` | 2 senders (symmetric), budget 2, 3 transactions, 3 blocks, 1 mishap, 1 crash | 732,461 | `TypeOK`, `BudgetHolds`, `ExpiredIsDead`, `AccountedFor`, `TripwireTruthful`, `CompactReplaysSame` |
| `live_book` | 1 pool, 2 ticks, 2 kinds of change, 2 logs, 1 block above boot, 1 mishap | 1,500,307 | `TypeOK`, `HoldsWhatItWasTold`, `EveryFlagIsAsked`, `AskedIsHeard`, `WholeUnlessBlind`, `VerifiedAnswersGap` |
| `append_log_armed` | 5 records, 2 faults, 3 crashes | 10,314 | `TypeOK`, `PromisedSurvives`, `CrashIsNoOutage` |

Five further runs expect a violation, each of a sentence the code's own
documentation says of it (quoted in `PROJECT.json`, `findings`):

| Run | Refutes | In short |
|---|---|---|
| `drain_verdict` | `DrainVerdictsAreTrue` | status read, ownership asked and ticket closed under three locks; the ticket is sent and let go in between |
| `written_off` | `LandedIsNotWrittenOff` | a guard dropped after its send closes the ticket as abandoned, durably; the transaction lands |
| `vanished_send` | `VanishedSendHeals` | a send lost by the mempool leaves the lane's mark above a hole that nothing fills |
| `live_book_hole` | `RebuiltBeforePriced` | the full reload after a lost session reads at the newest head the watch holds, which may be from before the gap; it verifies the book without the block it missed |
| `append_log_journal` | `PromisedSurvives` | the journal glues the first fsynced entry after a crash to the fragment in front of it and later forgives both |

*Why these bounds.* The binaries run one capture worker, which is what
`recovery` has; two tickets are what a duplicate id, a boot that fails half way
through its worklist, and an old transaction beside a new ticket need. Two
crashes put one inside a boot; two faults let one append fail and the next
attempt at it fail as well, or one append stop inside its line and a death cut
another. The drain needs two holders to have one ticket owned
and one let go. In `shutdown` no append fails, because a failing close in the
drain lands in neither column by the code's own comment. Two lanes and two tickets are the least that
race for a lane; three nonces are the least with one below, one at and one above
a hole. Five records with three crashes let a repaired file be torn again.
In `canary`, two transactions are an open one beside the next, and limits of two
are the least a first loss does not reach (one refusal halts at once, so that two
transactions are enough to send past it); one mishap, crash and reset each reach
every record, answer and branch of the boot. In `armed_live`, three transactions
give a replacement of a nonce (two transactions in one slot, `Bump`) beside a
second sender; three blocks of which two make a day cross midnight once with
something pending, and with a line from before it that finds a landing from after.
What these bounds do not reach: a nonce read from before a
landing that the other task has already recorded (`IsStale`) needs a fourth block
or a lagging node, and either takes the run past five minutes. In `live_book`, two
logs are a copy out of order, a swap before or after a change, and a swap and its
removal; the block above boot is the one a session can lose. Its one branch not
reached is a confirmed log that ends a burst and asks for a reload at once.

*Deadlock* is not checked: every instance stops at its bounds.

*Fairness.* A boot that replay or the canary's `open` refuses does not come back,
so `Recovers` says that the gate opens or the journal has a broken line with another
behind it, and `BootEnds` the same of the canary's ledger; nothing else keeps a boot
from its end. `Recovers` assumes weak fairness of `Boot` and of `ChainSettles`:
the operator or the service manager restarts a process that exited, boot is
straight-line code, and a transaction is mined or evicted in the end. Crashes and
failed look-ups are bounded, not unfair. `DrainEnds` assumes weak fairness of the
drain once it has begun: it has no await after the grace period. The holders of
tickets are under no fairness at all, which is the point. `BootEnds` of `canary`
assumes weak fairness of its `Boot`: systemd restarts the process, and boot asks
the chain once per open send and goes on without an answer. `ArmedLive` and
`LiveBook` assume none. That a rebuilding book comes back is a liveness property
too long for TLC at these bounds; `EveryFlagIsAsked` and `AskedIsHeard` are its
safety core (a reload is always owed, asked for or under way, and the loop never
sleeps on it).

## Proofs

`Recovery_proofs` proves, for any set of workers, any number of tickets, faults
and crashes and any choice of milestones containing Signed and Dispatching
(`RegistryAssumption`, `RecoveryAssumption`):

* `TypeCorrect`: `Spec => []TypeOK`. `TypeOK` is inductive as it stands. The
  registry half comes first: one lemma per registry operation,
  each also giving `DurableKept`, that the fsynced prefix of the journal only
  grows. What recovery's scan computes (`ScanStatusType`, `HighestIdBounds`)
  needs the maximum of a finite set, which is a library fact about well-founded
  relations.
* `WriteAhead`: `Spec => []SentIsOnRecord`, assuming `OneWorker`. No transaction
  exists without an fsynced record that its ticket reached Signed, unless the fsynced
  file is one every boot refuses. By itself this is not inductive: `Send` looks at what
  the worker was told and not at the file. The invariant is `WriteAheadInv`, which adds
  `ToldIsOnRecord`: a worker that was told its ticket reached Signed was told after the
  fsync. Its step rests on two facts, that only an advance that journaled its entry
  raises `ok` (`ToldByAdvance`, `OthersTellNothing`) and that durable records stay
  (`RecordStays`), and on `EndsWhole`: while a worker still advances its ticket the
  file ends in a newline. The first line behind a torn one is forgotten although its
  append said Ok. With one worker that line is an admission, never a Signed, because a
  worker whose own append failed ends its ticket, and boot writes only closes. With two
  it could be the other worker's Signed, and the theorem would be false. The binaries
  run one capture worker; the hypothesis `OneWorker` says so, and stands before
  `VerdictsTrue`, `OwedHeld` and `ContractKept` too.

`SignerPool_proofs` proves every invariant of the `signer_pool` run, for any set of
workers and any number of lanes, nonces and uses (`PoolAssumption`):

* `PoolTypeCorrect`: `TypeOK`, from the stronger `Typed`, which also says that a
  worker past its survey has a lane and one past its reservation a nonce.
* `LanesExclusive`: `OneHolder`. Inductive over `Typed`: `Take` looks again under
  the lane's lock, so what the survey saw does not matter.
* `NoncesNewest` and `NoncesFresh`: `HeldNonceIsNewest` and `ConfirmedNotReused`.
  Neither is inductive. A purge may drop the markers of nonces that are still out,
  and a failed release moves the mark down, so `NonceInv` adds that what is in
  flight or confirmed on a lane lies below its mark, held or not (`LaneBounded`),
  and puts the confirmed nonce below the held one. `ReserveIsNewest` and
  `ReleaseOfNewest` are the allocator's two operations under it; `OneHolder` keeps
  other workers off the lane.
* `NoGap`: `UnsentLeavesNoGap`, over the three above and `MempoolInv` (the mempool
  holds only what was sent). A reservation jumps ahead of the mark only to the
  node's count, and every nonce below that is in the mempool (`PendingInPool`); a
  nonce that comes back unsent is the newest, so the mark comes back with it.

It then proves the other invariants of the `recovery` run, under the same
assumptions:

* `AccountingHolds`, `JournalReadable`, `VerdictsTrue` and `OwedHeld`: `Accounting`,
  `JournalStaysReadable`, `BootVerdictsAreTrue` and `OwedIsHeld`. None is inductive, and
  they need each other: a counter is right because a close finds its ticket live, the
  journal stays readable because what is closed was open in it, and a verdict is
  true because of what the journal says was sent. Only the end of the journal may be
  lost to a torn line, and what is lost there is lost from the books as well: after it
  `Books` says of the lines replay reads what it said of the whole file, and
  `LogShape`, that no line of those contradicts the ones before it, is kept by dropping
  the last line (`Ended`) and by any cut (`Cuts`). The invariant is
  `CoreInv`: `WriteAheadInv`, with the registry agreeing with the journal once
  boot has read it (`BookInv`, over `Books`), what is
  empty at each stage of the process (`StageInv`), boot's lists holding all
  that is open, and nothing sent among what it closes unasked
  (`WorklistInv`), and no ticket in two hands (`HolderInv`);

and that this core implements its abstract specification:

* `ContractKept`: `Spec => ImplementsContract`. A lemma per kind of step says what it
  does to the page the refinement mapping reads for a ticket (`RecordStep`,
  `StopStep`, `SendStep`, `StartStep`), and `ContractStep` that the result is a step of
  `TicketContract` or a stutter. Until a line is left unfinished the steps are those of
  the strict contract; from then on the book is smudged and only `Moves` is owed, which
  is `DurableKept`. It rests on `CoreInv`: that a close changes one page
  and no other needs the books to agree, and that dispatch opens over a settled
  book needs boot's lists to be complete.

`Shutdown_proofs` is about `DrainSpec`, where a drain and a sweep run beside the core:

* `DrainTypeCorrect`, `DrainAccounting`, `HeldStaysLive`: `DrainTypeOK`, `Accounting`,
  `HeldIsLive`. A sweeper closes tickets from under a worker that has not checked them
  out yet, so `HolderInv` does not hold here; `DrainInv` has the weaker `HandsInv` (only
  what is checked out is safe) and the stages of the drain.
* `DrainWalksPastNone`: `NothingWalkedPast`, for `MaxFaults = 0`. The assumption is
  needed: a close whose append fails leaves its ticket live, and the drain takes the
  error to mean it was closed already.

`AppendLog_proofs`: `LogTypeCorrect` for every variant of the file, and for the armed
ledger (`Store = "armed"`) `ArmedKeepsPromises` and `ArmedStaysReadable`, both from
`ArmedInv`: an open file ends in a whole line, no line is broken, and a promised
record is within the synced part. The other variants do not have these (see the
runs).

`LiveBook_proofs`, for any universe of pools, chain and number of mishaps
(`BookAssumption`):

* `AskedHeard`: `AskedIsHeard`. It is inductive once it is added that a rebuilding
  book has its full reload asked for or under way, and that between two rounds the
  reload task has no full reload in hand (`QueueInv`).
* `OnlyReadsVerify`: `VerifiedAnswersGap`.
* `BookTypeCorrect`, `HoldsWhatWasTold`, `FlagsAreAsked`, `VerifiedIsWhole`: `TypeOK`,
  `HoldsWhatItWasTold`, `EveryFlagIsAsked`, `WholeUnlessBlind`. The invariant is
  `BookInv`. Its heart is `Sound`, a relation between a pool's snapshot, its positions
  and the logs it was told of: which changes are applied since the read, where the
  last swap is, and that what is wrong is flagged until a read at its block. A lemma
  for each thing that can happen to a pool keeps it: a swap in order or late
  (`SoundSwap`, `SoundOldSwap`), a change (`SoundChange`), a removal (`SoundRetract`), a
  read that keeps the swap or replaces it (`SoundKept`, `SoundReplaced`). The case
  nobody tests is in there: a change that arrives after the read but before a swap
  the read does not hold is added back to the swap's liquidity exactly once because a
  log carries what was active where its swap ended (`CountsInv`, kept by the chain).
  A burst is a fold of those, whatever its length (`BurstKeeps`). `ReadInv` and
  `LoopInv` say what a read under way holds; `AskInv` that what is flagged is due; and
  `WholeInv` that a pool was told of all its read holds and of what its session
  confirmed since, and that a verified book's reads are from the session's start on.

The proof of `VerifiedIsWhole` corrected the model. `WholeUnlessBlind` held in the run
and was false beyond its bounds: a pool is told of a log, a failed read removes it,
and a later full reload, at a block before that log, reads it back. `unheard` now
counts what a removed state held (see the hazard at `live/book.rs:1384`).

`Canary_proofs`, for any set of transactions, limits, mishaps, crashes and resets
(`CanaryAssumption`), proves every safety property of the `canary` run. Each rests on
those before it:

* `CanaryTypeCorrect`: `TypeOK`, from `TypeInv`. That a replay of any ledger has its
  type is the fold's (`ReplayType`).
* `NothingIsForgotten`: `NothingForgotten`. `KnownInv` says of every transaction that
  the ledger has it open or has its outcome, and of the running process that it
  holds open whatever may still land. `StrayInv` is about the line that lacks its
  newline only, which the next open reads and the next append destroys: an outcome
  there is of a transaction in `missed`, and true. What ties memory to disk is `ReplayAppend`: one
  more record is one more `Apply`.
* `NonceIsNotReused`: `NonceNotReused`. `AloneInv`: while the loop may send, nothing
  is open but the send in hand and what a failed append left, and boot hands over
  nothing else. `LaneInv` is why a lapsed send, whose ticket closes while the ledger
  still has it open, does no harm here: its nonce is not given back.
* `TripwireIsTruthful`: `TripwireTruthful`. `TripInv` keeps a one-to-one map from the
  nonces used since the last reading to the sends counted (`Explains`), so a trip
  without a stranger is a short boot.
* `LossesAreBounded`: `LossBounded`. What is lost is a sum over the ledger since its
  last reset, without what no limit sees: outcomes the ledger refused (`missed`), and
  sends whose protocol ended on a refused Acknowledged or Included (`lapsed`), after
  which nothing is halted and the next ticket is sent. `LossInv` bounds it but for one transaction (`ButFor`): the cap is looked
  at before each send, and only one send can be beyond it.
* `NothingSentPastAHalt`: `NoSendPastAHalt`, an action property. The property counts by
  hand what the code keeps in four counters that records add to and reset. `Tallied`
  says that the counters of some totals are those counts for a ledger: a run of
  reverts is what lies behind the last landing (`RunAppend`), and so many in a row
  anywhere since the reset were once the run (`RowAppend`). `Answers` adds that totals whose
  ledger calls for a halt are halted; `CalmInv` says it of the replay and of the
  process, and of a send past its first check that its ledger calls for nothing, since
  only a tripwire can trip beside it. TLC checked `CalmInv` on the run's instance first.

`ArmedLive_proofs`, for any senders, budget, worst cases, window, lag, day length and any
number of transactions, blocks, mishaps, crashes and resets (`ArmedAssumption`), over
the inductive invariant `ArmedInv` (`ArmedInvariant`):

* `ArmedTypeOK`: `TypeOK`, from `TypeInv` and `TurnInv`, which says who holds the turn
  and what is in hand while it is held.
* `ArmedExpiredIsDead`: `ExpiredIsDead`. `RecordsInv` says what each record means on the
  chain (`Backed`): an expired one is of a transaction past its bound that has not
  landed, a landed one bears its loss, an abandoned one's nonce is used. It
  covers the records still in `outbox`, which are judged before they are written. A
  read made outside the turn stays true because it is of one block (`HeadInv`,
  `ReadStays`), and a nonce that block had passed is exactly a landing by it or
  somebody else's use (`LandedBy`, from `ChainInv`).
* `ArmedAccountedFor`: `AccountedFor`. `PendingInv` says it of the disk (`NoneLost`:
  what may still land is pending in the ledger's replay, its nonce settled
  by a record, or its bound passed) and of the running worker's memory
  (`NoneMissing`). Memory and disk differ, since a failed append leaves a record out
  of the file: each is carried by itself, a death keeps the disk's because only
  refusals and resets are not synced (`AfterDrop`), and a boot, from the ledger or a
  compaction, makes the memory's from the disk's (`NoneLostMissing`).

* `ArmedBudgetHolds`: `BudgetHolds`, from `BudgetInv`, which adds to `ArmedInv` two parts.
  `SumInv` is the accounts. A set of transactions costs the sum over its nonces of the
  worst of each (`Cost`), which is what `Reserved` and the true losses are
  (`ReservedIs`, `LossesAreCosts`). `RiskInv` says that what may still land and what
  landed today cost at most the budget, and `CountInv` that what landed today and is
  no longer pending is in the count of losses, on disk and in memory; `admits` keeps
  the first by the second. All of them leave out what is `misdated`, a landing that
  `landing_check` booked to the day of its line: no count of its own day has it
  (`Dated`, `CountedLess`). What may land is found pending, or its bound has passed, and
  an expiry therefore gives its reserve back for good.
  `DoubtInv` is about the gap between disk and memory. After a failed append a
  transaction can be pending on disk and settled in memory, so the next boot may
  settle its nonce a second time, at another loss. `AheadInv` says that what landed and
  is in that gap shares no nonce with what the worker holds, and that while there is no
  reason to halt the worker only holds higher nonces; `OutInv` that a record about to be
  written is dated no earlier than, and at a loss no less than, any landing of its nonce
  that the ledger has pending; `LineInv` that a line about to send has the next nonce and
  no halt. TLC checked `BudgetInv` on an instance like the run's before it was proved.
* `ArmedCompactReplaysSame`: `CompactReplaysSame`. Two inductions along the ledger carry
  it. The replay of what is kept of the first records and the replay of all of them have
  the same counts and halts; every transaction of the keep set that the whole has
  pending the kept has too, and what the kept has besides is of the keep set and was
  expired by a record that went (`CompactsState`). At the end that leaves nothing: such a
  transaction would be there for its sender's pin, which is then its expiry, and a pin
  is kept, or a submission after it, which `NoRevival` excludes. And each
  sender's view hangs on its pin (`PinAfter`): nothing after it places that sender, and
  what makes the ledger forget one is always kept (`CompactsViews`). `NoRevival`, that what
  expired is not submitted again, is what `CompactInv` adds to `BudgetInv`: it survives a
  submission because transactions are new, a death because it cuts an end off, and
  a compaction because that keeps the order.
* `ArmedTripwireTruthful`: `TripwireTruthful`, from `TruthInv`: while there is no reason
  to trip, every sender is at one nonce. All of it that is pending is of that nonce,
  and so is what a death could make pending again, the refusals the ledger ends with,
  which are not synced (`Undone`, `CutByRefusals`); the ledger left it there or nowhere; and
  the chain is there, or just past it by a landing still pending (`AtPlace`). The worker is in step
  with it, a settlement half written included (`InStep`), and a read that passed what is
  pending found what landed (`ReadsSeen`). So no settlement abandons (`SettleTruth`), each
  of its records leaves its sender where the whole will (`CleanPlace`), and a boot that finds a
  sender elsewhere than its ledger left it finds pending what moved it
  (`BeginTruth`). A failed append excuses, so memory and disk agree here; a compaction
  adds nothing to undo, since the last record that is no refusal is kept
  (`UndoneKept`). TLC checked `TruthInv` on the run's instance first.

`FoldLemmas` are the facts about folds and sums that these need, and about the
fold that keeps some places of a sequence, which is what a compaction is. The community
modules define a fold by an operator and the library's induction takes a predicate
as an operator; `FoldLemmas` states both with functions and sets in their place
(`FoldExists`, `FoldAlong`, `FoldAppend`, `InductionTo`), so that they can be cited.

Only model-checked: liveness (`Recovers`, `DrainEnds`, `BootEnds`), which is out of the
prover's reach.

## Left out, and why

Capture core:

* `Sweep` is not in `Recovery`: no binary calls it. With a failed fsync it can
  leave a Closed entry under a live ticket that is then sent; this is listed
  under the hazards. `Shutdown` has it.
* A death inside an append leaves at most one broken piece, and a write that stops
  does so before, at the end of, or inside its line, the last two told apart only
  where a newline more or less decides what is read. Reads of the journal do not fail.
* The armed ledger's rollback is taken to succeed, as is the cut at open.
* Saturation of 64-bit counters, the `submitted` and `replacement` sets of a
  lane, and the gas reserve (zero in the binaries) are left out.
* Which check of the plane refuses a ticket, and with what code, is one choice
  to refuse; outcomes are told apart only by who wrote them.

Canary. The following are in the model as the code has them, and the properties
name them as exceptions or leave them aside:

* A torn line in the ledger is forgiven by `open` and not repaired; the next append is
  glued to it and the open after that refuses the file, for good (`BootEnds` says so).
  The operator's reset is one whole line.
* An Acknowledged or an Included that the ticket journal refuses ends protocol after
  an accepted send: nothing is settled, nothing halts, and the next ticket goes out
  (`Lapses`; `LossBounded` leaves those losses out, the next boot finds them). Failed
  advances to Preconfirmed or Finalized come to the same and are taken with these.
  A refused Reconciled closes the ticket of a recorded landing as failed; ticket
  outcomes are stated by no property here.
* A failed append of a `Silent` or `Unresolved` outcome is discarded by `settle`;
  the canary is then not halted and the nonce can be used again (`missed`).
* A failed append of the tripwire's `Halted` record loses that halt at the next
  restart; a boot reading from a node that trails the chain trips falsely
  (`shortBoot`); a refused send widens the tripwire by one for the life of the
  process.
* A reset clears the halts but not an open send that can never land.
* A send whose outcome was recorded, followed by a crash before the plane closed
  its ticket, is closed by the next boot as never having left (the canary's design,
  `docs/superpowers/specs/2026-10-15-live-canary-design.md`, has boot close from
  the ledger). `BootCloses` does this; no property states it.

Armed-live worker:

* The wall clock is the block height (`day == block \div DayBlocks`), and a
  landing always costs its worst case; none gains. A line is at most a day old.
* A landing of the new day that a line of the old one finds is booked to the old day,
  and the new day's budget is then short of it. `BudgetHolds` leaves those landings
  out (`misdated`), and has to: with three blocks a day and five blocks, TLC finds a day
  whose true losses pass the budget by such a landing. The run's two-block days have
  such landings but no room for that many losses; `ArmedBudgetHolds` is for days of
  any length.
* The answer of a hand-off is merged with the hand-off; a failed append of
  `Submitting` and a failed RPC read change nothing and are not steps.
* A death between the `Abandoned` records and the tripwire's `Halted` boots
  without the trip. `TripwireTruthful` is the other direction.
* No liveness; `MAX_BUMPS` is out of reach of `MaxTx`.

Live book:

* The sequence numbers of gaps and reloads are one flag, `gapped`;
  `PoolSnapshot.seq`, the burst's pricing, constant-product pools, dynamic fees,
  TWAPs and the admission of pools are left out, and so is `unsettled` (a read
  always carries what is pending).
* A reorg only removes logs. A removed swap of a block above the reload's head
  stays unflagged until the next read, as the table at `feed.rs:14` says.
* The reload's write of the book and the requests that follow it are one step;
  panics of either task are not modelled.

Not modelled:

* Feed integrity, arbiter, branches and versioned snapshots are library types the
  binaries do not construct. The risk gate is built with an empty ladder and
  limits nothing reaches.
* The legacy executor is the program these crates replace and is most of the
  repository's lines. Pricing, search, simulation, venues and encoding are 256-bit
  arithmetic and byte layouts. That is why the share of lines the models cover is
  small.
* The components marked "not modelled" in `PROJECT.json`.

## Plan

1. *Done*: the capture core, drain, lanes and files; the canary; the armed-live
   worker; the live book with feed and reload.
2. The plane's ticket and lane in one module (`Recovery` with `SignerPool`), so
   that a ticket's outcome and its nonce's fate are related.
3. A death between an armed trip's records, and the canary's verdicts on tickets,
   as findings with a run of their own.
4. The candidate scheduler's shedding, endpoint cooldowns of `failover.rs`, and
   supervision's restarts.
5. Larger instances of `armed_live` (a lagging node) and `live_book` (two pools).
