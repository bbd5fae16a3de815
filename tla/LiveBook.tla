------------------------------ MODULE LiveBook ------------------------------
(***************************************************************************)
(* The live pool book and the two tasks that write it (apex-runtime,       *)
(* live/book.rs, live/feed.rs, shadow/reload.rs and shadow/mod.rs).  The   *)
(* feed task applies each log it is told of, in bursts; the reload task    *)
(* reads pools from the chain at a sealed block and replaces them, while   *)
(* the feed keeps writing.  A log may come twice (preconfirmed, then       *)
(* confirmed), out of order, or not at all.                                *)
(*                                                                         *)
(* A log is named by its place on the chain.  What a pool's liquidity and  *)
(* ladder hold is how often they count each position change; a price is    *)
(* the tick it is at.                                                      *)
(***************************************************************************)
EXTENDS Integers, Sequences, FiniteSets, SequencesExt

CONSTANTS
  Pool,         \* the universe the book was built over
  Tick,
  Change,       \* position changes there may be: [active : SUBSET Tick, trouble]
  BootBlock,    \* the block the book was read at when the process started
  MaxLogs, MaxBlock,   \* bounds: the chain
  MaxMishaps    \* bound: lost sessions, reorgs and failed reads, together

\* Where a change does not fit: nowhere, the pool's ladder as it is, the
\* liquidity of a swap before it, or a fresh ladder.
Trouble == {"none", "place", "sum", "read"}

ASSUME BookAssumption ==
  /\ 1 \in Tick /\ Tick \subseteq Nat \ {0}
  /\ Change \subseteq [active : SUBSET Tick, trouble : Trouble]
  /\ {BootBlock, MaxLogs, MaxBlock, MaxMishaps} \subseteq Nat

Id == 1..MaxLogs

VARIABLES
  log,       \* the logs made, in order: [pool, kind, tick, counts, active, trouble, block]
  head,      \* the newest sealed block
  gone,      \* the logs a reorg took out
  book,      \* Pool -> snapshot, [tick, liq, ladder, cover, last], or Absent
  pos,       \* Pool -> WriterState.positions: [applied, read_at, refused]
  status,
  newest,    \* WriterState.newest_read
  session,   \* the websocket: "new", "up" or "down"
  held,      \* FeedHandler.held: the burst still arriving, <<[id, pending]>>
  watch,     \* the newest head the feed passed on, 0 before the first
  joined,    \* the newest block sealed when the session subscribed
  pend, conf,   \* the last log of each kind this session is past
  unsaid,    \* the removals this session has still to report
  pending,   \* ReloadQueue.pending: [full, pools]
  permit,    \* its Notify's permit
  loop,      \* the reload task: [at, full, pools, last, gapped, specs, fresh]
  told,      \* Pool -> the logs its present state was told of
  unheard,   \* Pool -> the logs that came while the book did not hold it, or
             \* were in the state it removed
  blind,     \* whether the book was last verified by a read from before the session
  mishaps

chainVars == <<log, head, gone>>
bookVars  == <<book, pos, status, newest, told, unheard, blind>>
feedVars  == <<session, held, watch, joined, pend, conf, unsaid>>
loopVars  == <<pending, permit, loop>>
vars == <<chainVars, bookVars, feedVars, loopVars, mishaps>>

Absent == [tick |-> 0]
NoPositions == [applied |-> {}, read_at |-> 0, refused |-> 0]
NoWork == [full |-> FALSE, pools |-> {}]

Held(p) == book[p] # Absent
Most(S) == Max(S \cup {0})
Block(i) == IF i = 0 THEN 0 ELSE log[i].block
Changes(S) == {i \in S : log[i].kind = "change"}
Swaps(S) == {i \in S : log[i].kind = "swap"}
ActiveAt(S, t) == {i \in Changes(S) : t \in log[i].active}

\* Each log of S counted once more.
Plus(count, S) == [i \in Id |-> count[i] + (IF i \in S THEN 1 ELSE 0)]
Zero == [i \in Id |-> 0]

-----------------------------------------------------------------------------
(* The chain.                                                              *)

\* A pool's logs up to the end of a block, as the chain has them now.
LogsAt(p, b) == {i \in 1..Len(log) : log[i].pool = p /\ log[i].block <= b /\ i \notin gone}

TickAfter(S) == IF Swaps(S) = {} THEN 1 ELSE log[Most(Swaps(S))].tick

\* A swap or a position change in the block being built.  A swap's log
\* carries the liquidity active where it ends.
NewLog ==
  /\ Len(log) < MaxLogs
  /\ \E p \in Pool :
       \/ \E t \in Tick :
            log' = Append(log, [pool |-> p, kind |-> "swap", tick |-> t,
                                counts |-> ActiveAt(LogsAt(p, head + 1), t),
                                active |-> {}, trouble |-> "none", block |-> head + 1])
       \/ \E c \in Change :
            log' = Append(log, [pool |-> p, kind |-> "change", tick |-> 0, counts |-> {},
                                active |-> c.active, trouble |-> c.trouble, block |-> head + 1])
  /\ UNCHANGED <<head, gone, bookVars, feedVars, loopVars, mishaps>>

Seal ==
  /\ head < MaxBlock
  /\ head' = head + 1
  /\ UNCHANGED <<log, gone, bookVars, feedVars, loopVars, mishaps>>

\* The newest block is sealed again without its logs from the i-th on; the
\* session reports those it had confirmed.
Reorg ==
  /\ mishaps < MaxMishaps
  /\ \E i \in 1..Len(log) :
       /\ log[i].block = head /\ i \notin gone
       /\ gone' = gone \cup i..Len(log)
       /\ unsaid' = IF session = "up" THEN unsaid \cup i..conf ELSE unsaid
  /\ mishaps' = mishaps + 1
  /\ UNCHANGED <<log, head, bookVars, session, held, watch, joined, pend, conf, loopVars>>

ChainStep == NewLog \/ Seal \/ Reorg

-----------------------------------------------------------------------------
(* The book's writes.  A write maps [book, pos, told, unheard, ask] to the *)
(* same; "ask" gathers the pools whose log was answered NeedsReload.       *)

Writer == [book |-> book, pos |-> pos, told |-> told, unheard |-> unheard, ask |-> {}]

\* Later than the last log applied, or of a later block than the read.
IsNewer(w, i) ==
  LET last == w.book[log[i].pool].last
  IN IF last # 0 THEN i > last ELSE log[i].block > w.pos[log[i].pool].read_at

Refuse(w, i) ==
  LET p == log[i].pool
  IN [w EXCEPT !.pos[p].refused = Max({@, log[i].block}), !.ask = @ \cup {p}]

\* swap_into.  Changes after the swap that are already applied are added back.
SwapInto(w, i) ==
  LET p == log[i].pool
      s == log[i]
      later == ActiveAt({c \in w.pos[p].applied : c > i}, s.tick)
      fits == \A c \in later : log[c].trouble # "sum"
      next == [w EXCEPT !.book[p].tick = s.tick, !.book[p].last = i,
                        !.book[p].liq = Plus(Plus(Zero, s.counts), IF fits THEN later ELSE {})]
  IN IF ~IsNewer(w, i) THEN w
     ELSE IF ~fits THEN Refuse(next, i)
     ELSE IF s.tick = w.book[p].cover THEN next
     ELSE [next EXCEPT !.ask = @ \cup {p}]

\* liquidity_into.  The ladder takes a change whenever it comes; the active
\* liquidity only if no swap after it was applied.
LiquidityInto(w, i) ==
  LET p == log[i].pool
      snap == w.book[p]
      moves == (snap.last = 0 \/ i > snap.last) /\ snap.tick \in log[i].active
  IN IF log[i].block <= w.pos[p].read_at \/ i \in w.pos[p].applied THEN w
     ELSE IF log[i].trouble = "place" THEN Refuse(w, i)
     ELSE [w EXCEPT !.book[p].ladder = Plus(@, {i}),
                    !.book[p].liq = IF moves THEN Plus(@, {i}) ELSE @,
                    !.pos[p].applied = @ \cup {i}]

\* One log of a burst.  A pool the book does not hold is Unknown.
ApplyWrite(w, h) ==
  LET i == h.id
      p == log[i].pool
      heard == [w EXCEPT !.told[p] = IF log[i].block > w.pos[p].read_at THEN @ \cup {i} ELSE @]
  IN IF w.book[p] = Absent THEN [w EXCEPT !.unheard[p] = @ \cup {i}]
     ELSE IF log[i].kind = "swap" THEN SwapInto(heard, i)
     ELSE LiquidityInto(heard, i)

ApplyWrites(burst) == FoldLeft(ApplyWrite, Writer, burst)

Store(w) == book' = w.book /\ pos' = w.pos /\ told' = w.told /\ unheard' = w.unheard

-----------------------------------------------------------------------------
(* The reload queue.  A request leaves its permit whether or not the loop  *)
(* is waiting yet.                                                         *)

\* Mutant: a request wakes only a loop that is already waiting.
Ask_WakesWaiters(full, pools) ==
  /\ pending' = [full |-> pending.full \/ full, pools |-> pending.pools \cup pools]
  /\ permit' = (permit \/ loop.at = "asleep")

Ask(full, pools) ==
  /\ pending' = [full |-> pending.full \/ full, pools |-> pending.pools \cup pools]
  /\ permit' = TRUE

Request(full, pools) == Ask(full, pools) /\ UNCHANGED loop

RequestAny(pools) == IF pools = {} THEN UNCHANGED loopVars ELSE Request(FALSE, pools)

-----------------------------------------------------------------------------
(* The feed task.                                                          *)

\* A log joins the burst.  One of a later block than a held preconfirmed log
\* ends it first.
Hold(i, preconfirmed) ==
  LET later == \E k \in 1..Len(held) : held[k].pending /\ log[held[k].id].block < log[i].block
      w == ApplyWrites(IF later THEN held ELSE <<>>)
  IN /\ held' = Append(IF later THEN <<>> ELSE held, [id |-> i, pending |-> preconfirmed])
     /\ Store(w)
     /\ RequestAny(w.ask)
     /\ UNCHANGED <<status, newest, blind>>

\* A log's preconfirmed copy; those it passes never come.
Preconfirmed ==
  /\ session = "up"
  /\ \E i \in (Max({pend, conf}) + 1)..Len(log) :
       /\ i \notin gone
       /\ Hold(i, TRUE)
       /\ pend' = i
  /\ UNCHANGED <<chainVars, session, watch, joined, conf, unsaid, mishaps>>

\* The next confirmed log of a sealed block.
Confirmed ==
  /\ session = "up"
  /\ \E i \in (conf + 1)..Len(log) :
       /\ i \notin gone /\ log[i].block <= head
       /\ \A j \in (conf + 1)..(i - 1) : j \in gone
       /\ Hold(i, FALSE)
       /\ conf' = i
  /\ UNCHANGED <<chainVars, session, watch, joined, pend, unsaid, mishaps>>

\* The burst is over: one write, and a reload of the pools it could not take.
Flush ==
  /\ held # <<>>
  /\ held' = <<>>
  /\ LET w == ApplyWrites(held) IN Store(w) /\ RequestAny(w.ask)
  /\ UNCHANGED <<status, newest, blind>>
  /\ UNCHANGED <<chainVars, session, watch, joined, pend, conf, unsaid, mishaps>>

\* retract_position: a removed change is not carried onto a later read, and
\* its pool is flagged until a read at its block.
Retract(i) ==
  LET p == log[i].pool
  IN IF log[i].kind = "swap" \/ ~Held(p) THEN UNCHANGED <<pos, told>>
     ELSE /\ pos' = [pos EXCEPT ![p].applied = @ \ {i}, ![p].refused = Max({@, log[i].block})]
          /\ told' = [told EXCEPT ![p] = @ \ {i}]

\* A confirmed log is reported removed.
Removed ==
  /\ session = "up"
  /\ \E i \in unsaid :
       /\ unsaid' = unsaid \ {i}
       /\ Retract(i)
       /\ Request(FALSE, {log[i].pool})
  /\ UNCHANGED <<chainVars, book, status, newest, unheard, blind, mishaps>>
  /\ UNCHANGED <<session, held, watch, joined, pend, conf>>

\* A head of this session; heads are passed on at once, never held.
HeadSeen ==
  /\ session = "up"
  /\ watch' \in (Max({watch, joined}) + 1)..head
  /\ UNCHANGED <<chainVars, bookVars, session, held, joined, pend, conf, unsaid, loopVars, mishaps>>

\* The session subscribes: it hears of what comes after, and confirms the
\* blocks sealed from then on.
Subscribes(at) ==
  /\ session' = "up"
  /\ joined' = at
  /\ pend' = Len(log)
  /\ conf' = Most({i \in 1..Len(log) : log[i].block <= at})
  /\ unsaid' = {}

\* The first session, to a node that may trail the one the book was read
\* from.  The feed marked the book and asked for a full reload before it.
Connect ==
  /\ session = "new"
  /\ \E at \in {0, head} : Subscribes(at)
  /\ UNCHANGED <<chainVars, bookVars, held, watch, loopVars, mishaps>>

\* The session ends, or the feed's channel overflows.
Drop ==
  /\ session = "up"
  /\ mishaps < MaxMishaps
  /\ session' = "down"
  /\ mishaps' = mishaps + 1
  /\ UNCHANGED <<chainVars, bookVars, held, watch, joined, pend, conf, unsaid, loopVars>>

\* Mutant: the mark leaves the status as it was.
MarkRebuilding_SeqOnly == UNCHANGED status /\ loop' = [loop EXCEPT !.gapped = TRUE]

\* Reconnected, or Gap: what is held is applied, the book is marked and a full
\* reload asked for.
MarkRebuilding == status' = "rebuilding" /\ loop' = [loop EXCEPT !.gapped = TRUE]

Rejoin ==
  /\ session = "down"
  /\ Subscribes(head)
  /\ held' = <<>>
  /\ Store(ApplyWrites(held))
  /\ MarkRebuilding
  /\ Ask(TRUE, {})
  /\ UNCHANGED <<chainVars, newest, blind, watch, mishaps>>

FeedStep == Preconfirmed \/ Confirmed \/ Flush \/ Removed \/ HeadSeen \/ Connect \/ Drop \/ Rejoin

-----------------------------------------------------------------------------
(* The reload task.                                                        *)

\* The timer of Task::FullReload.
FullReloadDue ==
  /\ Request(TRUE, {})
  /\ UNCHANGED <<chainVars, bookVars, feedVars, mishaps>>

\* Everything asked for, as one reload: a full one swallows the rest.
Take ==
  /\ loop.at = "take"
  /\ IF pending = NoWork
     THEN loop' = [loop EXCEPT !.at = "idle"] /\ UNCHANGED pending
     ELSE /\ loop' = [loop EXCEPT !.at = "heads", !.full = pending.full,
                                  !.pools = IF pending.full THEN {} ELSE pending.pools]
          /\ pending' = NoWork
  /\ UNCHANGED <<permit, chainVars, bookVars, feedVars, mishaps>>

\* Having found nothing: wait, unless a permit was left since.
Wait ==
  /\ loop.at = "idle" /\ ~permit
  /\ loop' = [loop EXCEPT !.at = "asleep"]
  /\ UNCHANGED <<pending, permit, chainVars, bookVars, feedVars, mishaps>>

Wake ==
  /\ loop.at \in {"idle", "asleep"} /\ permit
  /\ permit' = FALSE
  /\ loop' = [loop EXCEPT !.at = "take"]
  /\ UNCHANGED <<pending, chainVars, bookVars, feedVars, mishaps>>

\* head_after, and a reload up to its answer: a full one covers the universe,
\* another what the book holds of its pools, and some may be unreadable.
Begin ==
  /\ loop.at = "heads"
  /\ watch > loop.last
  /\ LET specs == IF loop.full THEN Pool ELSE {p \in loop.pools : Held(p)}
     IN \E bad \in SUBSET specs :
          /\ mishaps + Cardinality(bad) <= MaxMishaps
          /\ mishaps' = mishaps + Cardinality(bad)
          /\ loop' = [loop EXCEPT !.at = "read", !.last = watch, !.gapped = FALSE, !.specs = specs,
                                  !.fresh = [p \in specs \ bad |-> LogsAt(p, watch)]]
  /\ UNCHANGED <<pending, permit, chainVars, bookVars, feedVars>>

Done == [loop EXCEPT !.at = "take", !.full = FALSE, !.pools = {}, !.specs = {}, !.fresh = <<>>]

\* The read failed, or is older than one the book holds: the same work again.
ReloadFails ==
  /\ loop.at = "read"
  /\ \/ mishaps < MaxMishaps /\ mishaps' = mishaps + 1
     \/ loop.last < newest /\ UNCHANGED mishaps
  /\ loop' = Done
  /\ Ask(loop.full, loop.pools)
  /\ UNCHANGED <<chainVars, bookVars, feedVars>>

\* A pool's changes after its read are carried onto it.
Carried(p) == {c \in pos[p].applied : log[c].block > loop.last}

\* Mutant: a read always replaces the pool's state.
KeepsSwap_Never(p) == FALSE

\* A swap of a later block than the read keeps its price and liquidity.
KeepsSwap(p) == Held(p) /\ book[p].last # 0 /\ Block(book[p].last) > loop.last

Fresh(p) ==
  LET read == loop.fresh[p]
      t == TickAfter(read)
      fits == {c \in ActiveAt(Carried(p), t) : log[c].trouble # "sum"}
      ladder == Plus(Plus(Zero, Changes(read)), {c \in Carried(p) : log[c].trouble # "read"})
  IN IF KeepsSwap(p)
     THEN [book[p] EXCEPT !.ladder = ladder, !.cover = t]
     ELSE [tick |-> t, liq |-> Plus(Plus(Zero, ActiveAt(read, t)), fits),
           ladder |-> ladder, cover |-> t, last |-> 0]

\* The flag outlives a read from before the change it is for.  A carried
\* change the read cannot take raises it.
FreshPositions(p) ==
  LET t == TickAfter(loop.fresh[p])
      unfit == {c \in Carried(p) : log[c].trouble = "read"}
                 \cup IF KeepsSwap(p) THEN {} ELSE {c \in ActiveAt(Carried(p), t) : log[c].trouble = "sum"}
  IN [applied |-> Carried(p), read_at |-> loop.last,
      refused |-> Most({b \in {pos[p].refused} \cup {log[c].block : c \in unfit} : b > loop.last})]

OffLadder(s) == s # Absent /\ s.tick # s.cover

\* Mutant: a pool the read refused keeps its positions.
LostPositions_Kept(p) == pos[p]

LostPositions(p) == NoPositions

\* Mutants: a full reload verifies though a gap was marked; pools flagged for a
\* position change are not asked for again.
Verifies_AnyFull == loop.full
StillAsked_LadderOnly == {p \in Pool : OffLadder(book'[p])}

Verifies == loop.full /\ ~loop.gapped

StillAsked == {p \in Pool : OffLadder(book'[p]) \/ pos'[p].refused # 0}

\* The read's write.  A pool it could not read is removed; a full reload with
\* no gap marked since it began returns the book to Verified.  Pools it leaves
\* off their ladder or flagged are asked for again.
ReloadWrites ==
  /\ loop.at = "read"
  /\ loop.last >= newest
  /\ LET got == DOMAIN loop.fresh
         lost == loop.specs \ got
     IN /\ book' = [p \in Pool |-> IF p \in got THEN Fresh(p) ELSE IF p \in lost THEN Absent ELSE book[p]]
        /\ pos' = [p \in Pool |-> IF p \in got THEN FreshPositions(p)
                                  ELSE IF p \in lost THEN LostPositions(p) ELSE pos[p]]
        /\ told' = [p \in Pool |-> IF p \in got
                                   THEN loop.fresh[p] \cup {i \in told[p] : log[i].block > loop.last}
                                   ELSE IF p \in lost THEN {} ELSE told[p]]
        /\ unheard' = [p \in Pool |-> IF p \in got THEN {i \in unheard[p] : log[i].block > loop.last}
                                      ELSE IF p \in lost THEN unheard[p] \cup told[p] ELSE unheard[p]]
        /\ status' = IF Verifies THEN "verified" ELSE status
        /\ blind' = IF Verifies THEN loop.last < joined ELSE blind
  /\ newest' = loop.last
  /\ Ask(FALSE, StillAsked)
  /\ loop' = Done
  /\ UNCHANGED <<chainVars, feedVars, mishaps>>

LoopStep == Take \/ Wait \/ Wake \/ Begin \/ ReloadFails \/ ReloadWrites

-----------------------------------------------------------------------------
(* The feed task's start, after boot's own read.                           *)

Init ==
  /\ log = <<>> /\ head = BootBlock /\ gone = {}
  /\ book = [p \in Pool |-> [tick |-> 1, liq |-> Zero, ladder |-> Zero, cover |-> 1, last |-> 0]]
  /\ pos = [p \in Pool |-> [NoPositions EXCEPT !.read_at = BootBlock]]
  /\ status = "rebuilding" /\ newest = BootBlock
  /\ session = "new" /\ held = <<>> /\ watch = 0 /\ joined = 0 /\ pend = 0 /\ conf = 0 /\ unsaid = {}
  /\ pending = [full |-> TRUE, pools |-> {}] /\ permit = TRUE
  /\ loop = [at |-> "take", full |-> FALSE, pools |-> {}, last |-> 0, gapped |-> FALSE,
             specs |-> {}, fresh |-> <<>>]
  /\ told = [p \in Pool |-> {}] /\ unheard = [p \in Pool |-> {}] /\ blind = FALSE
  /\ mishaps = 0

Next == ChainStep \/ FeedStep \/ FullReloadDue \/ LoopStep

Spec == Init /\ [][Next]_vars

-----------------------------------------------------------------------------
(* What must hold.                                                         *)

\* A removed pool has no positions; cursors and sets stay in the log.
TypeOK ==
  /\ \A p \in Pool :
       /\ pos[p].applied \subseteq Changes(1..Len(log)) /\ pos[p].read_at \in 0..head
       /\ ~Held(p) => pos[p] = NoPositions /\ told[p] = {}
       /\ Held(p) => /\ book[p].tick \in Tick /\ book[p].last \in 0..Len(log)
                     /\ {book[p].liq, book[p].ladder} \subseteq [Id -> Nat]
  /\ status \in {"verified", "rebuilding"} /\ newest \in 0..head /\ watch \in 0..head
  /\ conf \in 0..Len(log) /\ pend \in 0..Len(log) /\ unsaid \subseteq gone
  /\ loop.at \in {"take", "idle", "asleep", "heads", "read"}

\* Whatever order copies, bursts, removals and reloads come in, a pool that is
\* not flagged holds exactly what it was told of: the price of the last swap,
\* each change once on its ladder, and in its liquidity the changes that are
\* active there, each once.
HoldsWhatItWasTold ==
  \A p \in Pool : Held(p) /\ pos[p].refused = 0 =>
    LET swap == Most(Swaps(told[p]))
        t == TickAfter(told[p])
        later == {c \in told[p] : c > swap}
    IN /\ book[p].tick = t
       /\ book[p].ladder = Plus(Zero, Changes(told[p]))
       /\ book[p].liq = Plus(Plus(Zero, IF swap = 0 THEN {} ELSE log[swap].counts), ActiveAt(later, t))

\* A pool flagged or off its ladder, and a book that is rebuilding, always has
\* its reload asked for or under way.
EveryFlagIsAsked ==
  LET fullDue == pending.full \/ loop.full
  IN /\ status = "rebuilding" => pending.full \/ (loop.full /\ (loop.at = "heads" \/ ~loop.gapped))
     /\ \A p \in Pool : Held(p) /\ (pos[p].refused # 0 \/ OffLadder(book[p])) =>
          fullDue \/ p \in pending.pools \cup loop.pools

\* The logs this session is past that a pool's state does not hold.
Missing(p) ==
  {i \in LogsAt(p, head) : i <= conf} \ (told[p] \cup {held[k].id : k \in 1..Len(held)})

\* A verified book misses no sealed log the session is past, but for what a
\* read from before the session left out and, of a pool that was removed and
\* read back, what came before that and is of a later block than the read.
WholeUnlessBlind ==
  status = "verified" /\ session = "up" /\ ~blind =>
    \A p \in Pool : Held(p) => Missing(p) \subseteq unheard[p]

\* Only a full reload with no gap since it began verifies the book.
VerifiedAnswersGap ==
  [][status = "rebuilding" /\ status' = "verified" => loop.at = "read" /\ loop.full /\ ~loop.gapped]_vars

\* A request made between a take that found nothing and the wait is not slept
\* through: what is asked for, the reload task is up to take.
AskedIsHeard == pending # NoWork /\ loop.at \in {"idle", "asleep"} => permit

\* shadow/mod.rs: "Whatever landed between the book's last read and this
\* subscription was not seen: rebuild before anything is priced from it."
RebuiltBeforePriced ==
  status = "verified" /\ session = "up" => \A p \in Pool : Held(p) => Missing(p) = {}
=============================================================================
