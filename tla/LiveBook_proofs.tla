-------------------------- MODULE LiveBook_proofs --------------------------
(***************************************************************************)
(* Theorems about the live book.  Of its reload queue: no request is slept *)
(* through, a rebuilding book always has its full reload asked for or      *)
(* under way, and only the read of such a reload verifies it.  Of its      *)
(* pools: what a pool holds is what it was told of unless it is flagged,   *)
(* every flag is asked for, and a verified book misses no log.             *)
(***************************************************************************)
EXTENDS LiveBook, FoldLemmas

\* The fields of the reload task's record these arguments follow.
LoopShape ==
  /\ {"at", "full", "pools", "gapped"} \subseteq DOMAIN loop
  /\ loop.at \in {"take", "idle", "asleep", "heads", "read"}
  /\ loop.full \in BOOLEAN /\ loop.gapped \in BOOLEAN
  /\ pending.full \in BOOLEAN /\ permit \in BOOLEAN

\* Between two rounds the task has no full reload in hand.
HandsEmpty == loop.at \in {"take", "idle", "asleep"} => ~loop.full

\* A book that is rebuilding has its full reload asked for, waiting for a head,
\* or reading with no gap marked since it began.
RebuildAsked ==
  status = "rebuilding" => pending.full \/ (loop.full /\ (loop.at = "heads" \/ ~loop.gapped))

QueueInv == LoopShape /\ HandsEmpty /\ AskedIsHeard /\ RebuildAsked

\* The feed task starts with the book marked and a full reload asked for.
LEMMA QueueInit == Init => QueueInv
BY DEF Init, QueueInv, LoopShape, HandsEmpty, AskedIsHeard, RebuildAsked

\* A request leaves its permit and forgets none before it.
LEMMA AskKeeps ==
  ASSUME NEW full \in BOOLEAN, NEW pools, LoopShape, Ask(full, pools)
  PROVE  /\ permit' = TRUE
         /\ pending'.full = (pending.full \/ full)
         /\ pending'.full \in BOOLEAN
BY DEF Ask, LoopShape

\* A request by itself, which leaves the reload task and the book's status alone.
LEMMA RequestQueue ==
  ASSUME QueueInv, NEW full \in BOOLEAN, NEW pools, Request(full, pools), UNCHANGED status
  PROVE  QueueInv'
<1>1. Ask(full, pools) /\ UNCHANGED loop
  BY DEF Request
<1>2. LoopShape
  BY DEF QueueInv
<1>3. permit' = TRUE /\ pending'.full = (pending.full \/ full) /\ pending'.full \in BOOLEAN
  BY <1>1, <1>2, AskKeeps
<1> QED
  BY <1>1, <1>3 DEF QueueInv, LoopShape, HandsEmpty, AskedIsHeard, RebuildAsked

\* What touches neither the queue, the task nor the status.
LEMMA QuietQueue ==
  ASSUME QueueInv, UNCHANGED <<loopVars, status>>
  PROVE  QueueInv'
BY DEF QueueInv, LoopShape, HandsEmpty, AskedIsHeard, RebuildAsked, loopVars

\* The pools a burst could not be taken for, if there are any.
LEMMA RequestAnyQueue ==
  ASSUME QueueInv, NEW pools, RequestAny(pools), UNCHANGED status
  PROVE  QueueInv'
BY RequestQueue, QuietQueue DEF RequestAny

\* A log joins the burst, which may write the one before it.
LEMMA HoldQueue ==
  ASSUME QueueInv, NEW i, NEW b, Hold(i, b)
  PROVE  QueueInv'
<1> DEFINE later == \E k \in 1..Len(held) : held[k].pending /\ log[held[k].id].block < log[i].block
           w == ApplyWrites(IF later THEN held ELSE <<>>)
<1>1. RequestAny(w.ask) /\ UNCHANGED status
  BY DEF Hold
<1> HIDE DEF w
<1> QED
  BY <1>1, RequestAnyQueue

\* The chain and the feed.
LEMMA OutsideQueue ==
  ASSUME QueueInv, ChainStep \/ FeedStep \/ FullReloadDue
  PROVE  QueueInv'
<1>1. CASE NewLog
  BY <1>1, QuietQueue DEF NewLog, bookVars
<1>2. CASE Seal
  BY <1>2, QuietQueue DEF Seal, bookVars
<1>3. CASE Reorg
  BY <1>3, QuietQueue DEF Reorg, bookVars
<1>4. CASE Preconfirmed
  BY <1>4, HoldQueue DEF Preconfirmed
<1>5. CASE Confirmed
  BY <1>5, HoldQueue DEF Confirmed
<1>6. CASE Flush
  <2> DEFINE w == ApplyWrites(held)
  <2>1. RequestAny(w.ask) /\ UNCHANGED status
    BY <1>6 DEF Flush
  <2> HIDE DEF w
  <2> QED
    BY <2>1, RequestAnyQueue
<1>7. CASE Removed
  BY <1>7, RequestQueue DEF Removed
<1>8. CASE HeadSeen
  BY <1>8, QuietQueue DEF HeadSeen, bookVars
<1>9. CASE Connect
  BY <1>9, QuietQueue DEF Connect, bookVars
<1>10. CASE Drop
  BY <1>10, QuietQueue DEF Drop, bookVars
<1>11. CASE Rejoin
  <2>1. LoopShape
    BY DEF QueueInv
  <2>2. Ask(TRUE, {}) /\ MarkRebuilding
    BY <1>11 DEF Rejoin
  <2>3. permit' = TRUE /\ pending'.full = TRUE
    BY <2>1, <2>2, AskKeeps
  <2>4. /\ loop'.at = loop.at /\ loop'.full = loop.full /\ loop'.gapped = TRUE
        /\ DOMAIN loop' = DOMAIN loop
    BY <2>1, <2>2 DEF MarkRebuilding, LoopShape
  <2> QED
    BY <2>3, <2>4 DEF QueueInv, LoopShape, HandsEmpty, AskedIsHeard, RebuildAsked
<1>12. CASE FullReloadDue
  BY <1>12, RequestQueue DEF FullReloadDue, bookVars
<1> QED
  BY <1>1, <1>2, <1>3, <1>4, <1>5, <1>6, <1>7, <1>8, <1>9, <1>10, <1>11, <1>12
     DEF ChainStep, FeedStep

\* A round that is over leaves the task ready to take, with nothing in hand.
LEMMA DoneShape ==
  ASSUME LoopShape, loop' = Done
  PROVE  /\ DOMAIN loop' = DOMAIN loop
         /\ loop'.at = "take" /\ loop'.full = FALSE /\ loop'.gapped = loop.gapped
BY DEF LoopShape, Done

\* Taking what is asked for moves a full reload from the queue to the task.
LEMMA TakeQueue ==
  ASSUME QueueInv, Take
  PROVE  QueueInv'
<1>1. LoopShape /\ HandsEmpty /\ RebuildAsked /\ loop.at = "take"
  BY DEF QueueInv, Take
<1>2. UNCHANGED <<permit, status>>
  BY DEF Take, bookVars
<1>3. CASE pending = NoWork
  <2>1. /\ loop'.at = "idle" /\ loop'.full = loop.full /\ loop'.gapped = loop.gapped
        /\ DOMAIN loop' = DOMAIN loop /\ UNCHANGED pending
    BY <1>1, <1>3 DEF Take, LoopShape
  <2> QED
    BY <1>1, <1>2, <1>3, <2>1 DEF QueueInv, LoopShape, HandsEmpty, AskedIsHeard, RebuildAsked, NoWork
<1>4. CASE pending # NoWork
  <2>1. /\ loop'.at = "heads" /\ loop'.full = pending.full /\ loop'.gapped = loop.gapped
        /\ DOMAIN loop' = DOMAIN loop /\ pending' = NoWork
    BY <1>1, <1>4 DEF Take, LoopShape
  <2> QED
    BY <1>1, <1>2, <2>1 DEF QueueInv, LoopShape, HandsEmpty, AskedIsHeard, RebuildAsked, NoWork
<1> QED
  BY <1>3, <1>4

\* The read's write: it verifies the book only if it is full and no gap was
\* marked since it began, and in any other case the full reload is still asked
\* for.
LEMMA WritesQueue ==
  ASSUME QueueInv, ReloadWrites
  PROVE  QueueInv'
<1>1. LoopShape /\ RebuildAsked
  BY DEF QueueInv
<1>2. Ask(FALSE, StillAsked) /\ loop' = Done /\ loop.at = "read"
  BY DEF ReloadWrites
<1>3. status' = IF Verifies THEN "verified" ELSE status
  BY DEF ReloadWrites
<1>4. permit' = TRUE /\ pending'.full = pending.full /\ pending'.full \in BOOLEAN
  BY <1>1, <1>2, AskKeeps DEF LoopShape
<1>5. /\ DOMAIN loop' = DOMAIN loop
      /\ loop'.at = "take" /\ loop'.full = FALSE /\ loop'.gapped = loop.gapped
  BY <1>1, <1>2, DoneShape
<1> QED
  BY <1>1, <1>2, <1>3, <1>4, <1>5
     DEF QueueInv, LoopShape, HandsEmpty, AskedIsHeard, RebuildAsked, Verifies

\* The reload task.
LEMMA LoopQueue ==
  ASSUME QueueInv, LoopStep
  PROVE  QueueInv'
<1>1. LoopShape
  BY DEF QueueInv
<1>2. CASE Take
  BY <1>2, TakeQueue
<1>3. CASE Wait
  <2>1. /\ loop'.at = "asleep" /\ loop'.full = loop.full /\ loop'.gapped = loop.gapped
        /\ DOMAIN loop' = DOMAIN loop
    BY <1>1, <1>3 DEF Wait, LoopShape
  <2> QED
    BY <1>3, <2>1 DEF Wait, bookVars, QueueInv, LoopShape, HandsEmpty, AskedIsHeard, RebuildAsked
<1>4. CASE Wake
  <2>1. /\ loop'.at = "take" /\ loop'.full = loop.full /\ loop'.gapped = loop.gapped
        /\ DOMAIN loop' = DOMAIN loop
    BY <1>1, <1>4 DEF Wake, LoopShape
  <2> QED
    BY <1>4, <2>1 DEF Wake, bookVars, QueueInv, LoopShape, HandsEmpty, AskedIsHeard, RebuildAsked
<1>5. CASE Begin
  <2>1. PICK specs, fresh : loop' = [loop EXCEPT !.at = "read", !.last = watch, !.gapped = FALSE,
                                                 !.specs = specs, !.fresh = fresh]
    BY <1>5 DEF Begin
  <2>2. /\ loop'.at = "read" /\ loop'.full = loop.full /\ loop'.gapped = FALSE
        /\ DOMAIN loop' = DOMAIN loop
    BY <1>1, <2>1 DEF LoopShape
  <2> QED
    BY <1>5, <2>2 DEF Begin, bookVars, QueueInv, LoopShape, HandsEmpty, AskedIsHeard, RebuildAsked
<1>6. CASE ReloadFails
  <2>1. Ask(loop.full, loop.pools) /\ loop' = Done /\ loop.full \in BOOLEAN
    BY <1>1, <1>6 DEF ReloadFails, LoopShape
  <2>2. permit' = TRUE /\ pending'.full = (pending.full \/ loop.full) /\ pending'.full \in BOOLEAN
    BY <1>1, <2>1, AskKeeps
  <2>3. /\ DOMAIN loop' = DOMAIN loop
        /\ loop'.at = "take" /\ loop'.full = FALSE /\ loop'.gapped = loop.gapped
    BY <1>1, <2>1, DoneShape
  <2> QED
    BY <1>6, <2>2, <2>3
       DEF ReloadFails, bookVars, QueueInv, LoopShape, HandsEmpty, AskedIsHeard, RebuildAsked
<1>7. CASE ReloadWrites
  BY <1>7, WritesQueue
<1> QED
  BY <1>2, <1>3, <1>4, <1>5, <1>6, <1>7 DEF LoopStep

\* The invariant holds of every behaviour of the book and its two tasks.
LEMMA QueueAlways == Spec => []QueueInv
<1>1. QueueInv /\ [Next]_vars => QueueInv'
  <2> SUFFICES ASSUME QueueInv, [Next]_vars
               PROVE  QueueInv'
    OBVIOUS
  <2>1. CASE UNCHANGED vars
    BY <2>1, QuietQueue DEF vars, bookVars
  <2> QED
    BY <2>1, OutsideQueue, LoopQueue DEF Next
<1> QED
  BY <1>1, QueueInit, PTL DEF Spec

\* A request made between a take that found nothing and the wait is not slept
\* through, for any universe, chain and number of mishaps.
THEOREM AskedHeard == Spec => []AskedIsHeard
<1>1. QueueInv => AskedIsHeard
  BY DEF QueueInv
<1> QED
  BY <1>1, QueueAlways, PTL

\* Only a full reload's read, with no gap marked since it began, takes the book
\* from rebuilding to verified.
THEOREM OnlyReadsVerify == Spec => VerifiedAnswersGap
<1> DEFINE Answered == status = "rebuilding" /\ status' = "verified"
                         => loop.at = "read" /\ loop.full /\ ~loop.gapped
<1>1. [Next]_vars => [Answered]_vars
  <2> SUFFICES ASSUME Next, status' # status
               PROVE  Answered
    BY DEF vars, bookVars
  <2>1. ~ChainStep /\ ~FullReloadDue
    BY DEF ChainStep, NewLog, Seal, Reorg, FullReloadDue, bookVars
  <2>2. FeedStep => status' = "rebuilding"
    BY DEF FeedStep, Preconfirmed, Confirmed, Hold, Flush, Removed, HeadSeen, Connect, Drop, Rejoin,
           MarkRebuilding, bookVars
  <2>3. LoopStep => ReloadWrites
    BY DEF LoopStep, Take, Wait, Wake, Begin, ReloadFails, bookVars
  <2>4. ReloadWrites => loop.at = "read" /\ Verifies
    BY DEF ReloadWrites
  <2> QED
    BY <2>1, <2>2, <2>3, <2>4 DEF Next, Verifies
<1> QED
  BY <1>1, PTL DEF Spec, VerifiedAnswersGap

-----------------------------------------------------------------------------
(* What the logs say.  A log l is the state's, or the next state's: what a *)
(* set of its places says does not change when it grows.                   *)

LogEntry == [pool : Pool, kind : {"swap", "change"}, tick : Nat, counts : SUBSET Id,
             active : SUBSET Tick, trouble : Trouble, block : Nat]

\* Later logs are of later blocks, or of the same.
History(l) ==
  /\ l \in Seq(LogEntry) /\ Len(l) <= MaxLogs
  /\ \A i \in 1..Len(l) : l[i].block > 0 /\ (l[i].kind = "swap" => l[i].tick \in Tick)
  /\ \A i, j \in 1..Len(l) : i <= j => l[i].block <= l[j].block

ChangesOf(l, S) == {i \in S : l[i].kind = "change"}
SwapsOf(l, S) == {i \in S : l[i].kind = "swap"}
ActiveOf(l, S, t) == {i \in ChangesOf(l, S) : t \in l[i].active}
After(S, n) == {c \in S : c > n}

LastSwap(l, S) == Most(SwapsOf(l, S))
TickOf(l, S) == IF SwapsOf(l, S) = {} THEN 1 ELSE l[LastSwap(l, S)].tick
BaseOf(l, S) == IF LastSwap(l, S) = 0 THEN {} ELSE l[LastSwap(l, S)].counts
LadderOf(l, S) == Plus(Zero, ChangesOf(l, S))
LiqOf(l, S) ==
  Plus(Plus(Zero, BaseOf(l, S)), ActiveOf(l, After(S, LastSwap(l, S)), TickOf(l, S)))

\* The constants.
LEMMA Ticks == 1 \in Tick /\ Tick \subseteq Nat \ {0}
BY BookAssumption

\* The greatest of two numbers.
LEMMA MaxOfTwo ==
  ASSUME NEW a \in Nat, NEW b \in Nat
  PROVE  Max({a, b}) = IF a >= b THEN a ELSE b
<1> DEFINE m == IF a >= b THEN a ELSE b
<1>1. m \in {a, b} /\ \A y \in {a, b} : m >= y
  OBVIOUS
<1>2. \A x \in {a, b} : (\A y \in {a, b} : x >= y) => x = m
  OBVIOUS
<1> QED BY <1>1, <1>2 DEF Max

\* The greatest of some places, 0 if there are none.
LEMMA MostOf ==
  ASSUME NEW n \in Nat, NEW S, S \subseteq 1..n
  PROVE  /\ Most(S) \in 0..n
         /\ S = {} => Most(S) = 0
         /\ S # {} => Most(S) \in S
         /\ \A y \in S : y <= Most(S)
<1>1. CASE S = {}
  <2>1. S \cup {0} = {0}
    BY <1>1
  <2>2. \A x \in {0} : (\A y \in {0} : x >= y) => x = 0
    OBVIOUS
  <2>3. Max({0}) = 0
    BY <2>2 DEF Max
  <2> QED BY <1>1, <2>1, <2>3 DEF Most
<1>2. CASE S # {}
  <2> DEFINE m == Max(S)
  <2>1. m \in S /\ \A y \in S : y <= m
    BY <1>2, MaxOfPlaces
  <2> HIDE DEF m
  <2>2. m \in S \cup {0} /\ \A y \in S \cup {0} : m >= y
    BY <2>1
  <2>3. \A x \in S \cup {0} : (\A y \in S \cup {0} : x >= y) => x = m
    BY <2>1
  <2>4. Max(S \cup {0}) = m
    BY <2>2, <2>3 DEF Max
  <2> QED BY <1>2, <2>1, <2>4 DEF Most
<1> QED BY <1>1, <1>2

\* And it is the one that the others do not pass.
LEMMA MostIs ==
  ASSUME NEW n \in Nat, NEW S, S \subseteq 1..n, NEW m \in S, \A y \in S : y <= m
  PROVE  Most(S) = m
<1>1. Most(S) \in S /\ m <= Most(S) /\ Most(S) <= m
  BY MostOf
<1>2. \A x \in S : x \in Nat
  OBVIOUS
<1> DEFINE k == Most(S)
<1>3. k \in S /\ m <= k /\ k <= m
  BY <1>1
<1> HIDE DEF k
<1>4. k \in Nat /\ m \in Nat
  BY <1>2, <1>3
<1>5. k = m
  BY <1>3, <1>4
<1> QED BY <1>5 DEF k

\* A log's fields.
Entries(l) ==
  /\ Len(l) \in Nat /\ 1..Len(l) \subseteq Id
  /\ \A i \in 1..Len(l) : /\ l[i] \in LogEntry /\ i \in Nat
                          /\ l[i].block \in Nat \ {0}
                          /\ l[i].kind = "swap" => l[i].tick \in Tick
  /\ \A i, j \in 1..Len(l) : i <= j => l[i].block <= l[j].block

LEMMA EntryShape ==
  ASSUME NEW l, History(l)
  PROVE  Entries(l)
<1>1. Len(l) \in Nat /\ \A i \in 1..Len(l) : l[i] \in LogEntry /\ i \in Nat
  BY DEF History
<1>2. MaxLogs \in Nat
  BY BookAssumption
<1>3. 1..Len(l) \subseteq Id
  BY <1>1, <1>2 DEF History, Id
<1>4. \A i \in 1..Len(l) : l[i].block \in Nat \ {0}
  BY <1>1 DEF History, LogEntry
<1>5. /\ \A i \in 1..Len(l) : l[i].kind = "swap" => l[i].tick \in Tick
      /\ \A i, j \in 1..Len(l) : i <= j => l[i].block <= l[j].block
  BY DEF History
<1> QED BY <1>1, <1>3, <1>4, <1>5 DEF Entries

\* The last swap of some logs.
LEMMA LastSwapOf ==
  ASSUME NEW l, History(l), NEW S, S \subseteq 1..Len(l)
  PROVE  /\ LastSwap(l, S) \in 0..Len(l)
         /\ LastSwap(l, S) = 0 <=> SwapsOf(l, S) = {}
         /\ LastSwap(l, S) # 0 => LastSwap(l, S) \in SwapsOf(l, S)
         /\ \A i \in SwapsOf(l, S) : i <= LastSwap(l, S)
         /\ TickOf(l, S) \in Tick
<1>1. Len(l) \in Nat /\ \A i \in 1..Len(l) : l[i].kind = "swap" => l[i].tick \in Tick
  BY EntryShape DEF Entries
<1>2. SwapsOf(l, S) \subseteq 1..Len(l)
  BY DEF SwapsOf
<1>3. /\ LastSwap(l, S) \in 0..Len(l)
      /\ SwapsOf(l, S) = {} => LastSwap(l, S) = 0
      /\ SwapsOf(l, S) # {} => LastSwap(l, S) \in SwapsOf(l, S)
      /\ \A y \in SwapsOf(l, S) : y <= LastSwap(l, S)
  BY <1>1, <1>2, MostOf DEF LastSwap
<1>4. SwapsOf(l, S) # {} => l[LastSwap(l, S)].tick \in Tick
  BY <1>1, <1>2, <1>3 DEF SwapsOf
<1>5. TickOf(l, S) \in Tick
  BY <1>4, Ticks DEF TickOf
<1> QED BY <1>1, <1>2, <1>3, <1>5

\* The swap that no other of them is after.
IsLastSwap(l, S, m) == m \in SwapsOf(l, S) /\ \A i \in SwapsOf(l, S) : i <= m

LastSays(l, S, m) ==
  /\ LastSwap(l, S) = m /\ m \in 1..Len(l)
  /\ TickOf(l, S) = l[m].tick /\ BaseOf(l, S) = l[m].counts

LEMMA LastSwapIs ==
  ASSUME NEW l, History(l), NEW S, S \subseteq 1..Len(l), NEW m, IsLastSwap(l, S, m)
  PROVE  LastSays(l, S, m)
<1>1. /\ Len(l) \in Nat /\ SwapsOf(l, S) \subseteq 1..Len(l)
      /\ m \in SwapsOf(l, S) /\ \A i \in SwapsOf(l, S) : i <= m
  BY EntryShape DEF SwapsOf, Entries, IsLastSwap
<1>2. LastSwap(l, S) = m
  BY <1>1, MostIs DEF LastSwap
<1>3. m \in 1..Len(l) /\ m # 0
  BY <1>1
<1> QED BY <1>1, <1>2, <1>3 DEF TickOf, BaseOf, LastSays

-----------------------------------------------------------------------------
(* Counts.                                                                 *)

Count == [Id -> Nat]

\* Counting keeps the type.
LEMMA PlusType ==
  ASSUME NEW f \in Count, NEW S
  PROVE  Plus(f, S) \in Count /\ \A i \in Id : Plus(f, S)[i] = f[i] + (IF i \in S THEN 1 ELSE 0)
BY DEF Plus, Count

LEMMA ZeroType == Zero \in Count /\ \A i \in Id : Zero[i] = 0
BY DEF Zero, Count

\* Two counts that agree everywhere.
LEMMA SameCount ==
  ASSUME NEW f \in Count, NEW g \in Count, \A i \in Id : f[i] = g[i]
  PROVE  f = g
BY DEF Count

\* One set after another is their union, if they share nothing.
LEMMA PlusUnion ==
  ASSUME NEW f \in Count, NEW A, NEW B, A \cap B = {}
  PROVE  Plus(Plus(f, A), B) = Plus(f, A \cup B)
<1> DEFINE g == Plus(f, A)
           h == Plus(f, A \cup B)
           k == Plus(g, B)
<1>1. g \in Count /\ \A i \in Id : g[i] = f[i] + (IF i \in A THEN 1 ELSE 0)
  BY PlusType
<1>2. h \in Count /\ \A i \in Id : h[i] = f[i] + (IF i \in A \cup B THEN 1 ELSE 0)
  BY PlusType
<1> HIDE DEF g
<1>3. k \in Count /\ \A i \in Id : k[i] = g[i] + (IF i \in B THEN 1 ELSE 0)
  BY <1>1, PlusType
<1> HIDE DEF h, k
<1>4. ASSUME NEW i \in Id PROVE k[i] = h[i]
  <2>1. f[i] \in Nat /\ ~(i \in A /\ i \in B)
    BY DEF Count
  <2>2. /\ g[i] = f[i] + (IF i \in A THEN 1 ELSE 0)
        /\ h[i] = f[i] + (IF i \in A \cup B THEN 1 ELSE 0)
        /\ k[i] = g[i] + (IF i \in B THEN 1 ELSE 0)
    BY <1>1, <1>2, <1>3
  <2>3. i \in A \cup B <=> i \in A \/ i \in B
    OBVIOUS
  <2> QED BY <2>1, <2>2, <2>3
<1>5. k = h
  BY <1>2, <1>3, <1>4, SameCount
<1> QED BY <1>5 DEF g, h, k

\* The ladder and the liquidity are counts.
LEMMA CountsOf ==
  ASSUME NEW l, NEW S
  PROVE  LadderOf(l, S) \in Count /\ LiqOf(l, S) \in Count
<1>1. LadderOf(l, S) \in Count
  BY ZeroType, PlusType DEF LadderOf
<1>2. Plus(Zero, BaseOf(l, S)) \in Count
  BY ZeroType, PlusType
<1>3. LiqOf(l, S) \in Count
  BY <1>2, PlusType DEF LiqOf
<1> QED BY <1>1, <1>3

-----------------------------------------------------------------------------
(* A log that grows says the same of what was in it.                       *)

Grows(l, k) == Len(l) <= Len(k) /\ \A i \in 1..Len(l) : k[i] = l[i]

LEMMA GrowsSame ==
  ASSUME NEW l, NEW k, Grows(l, k), NEW S, S \subseteq 1..Len(l)
  PROVE  /\ ChangesOf(k, S) = ChangesOf(l, S) /\ SwapsOf(k, S) = SwapsOf(l, S)
         /\ \A t : ActiveOf(k, S, t) = ActiveOf(l, S, t)
<1>1. \A i \in S : k[i] = l[i]
  BY DEF Grows
<1>2. ChangesOf(k, S) = ChangesOf(l, S) /\ SwapsOf(k, S) = SwapsOf(l, S)
  BY <1>1 DEF ChangesOf, SwapsOf
<1>3. ASSUME NEW t PROVE ActiveOf(k, S, t) = ActiveOf(l, S, t)
  <2>1. \A i \in ChangesOf(l, S) : k[i] = l[i]
    BY <1>1 DEF ChangesOf
  <2> QED BY <1>2, <2>1 DEF ActiveOf
<1> QED BY <1>2, <1>3

LEMMA GrowsSays ==
  ASSUME NEW l, History(l), NEW k, Grows(l, k), NEW S, S \subseteq 1..Len(l)
  PROVE  /\ LastSwap(k, S) = LastSwap(l, S) /\ TickOf(k, S) = TickOf(l, S)
         /\ BaseOf(k, S) = BaseOf(l, S)
         /\ LadderOf(k, S) = LadderOf(l, S) /\ LiqOf(k, S) = LiqOf(l, S)
<1> DEFINE m == LastSwap(l, S)
           U == After(S, m)
<1>1. ChangesOf(k, S) = ChangesOf(l, S) /\ SwapsOf(k, S) = SwapsOf(l, S)
  BY GrowsSame
<1>2. LastSwap(k, S) = m
  BY <1>1 DEF LastSwap
<1>3. m # 0 => m \in 1..Len(l)
  <2>1. m # 0 => m \in SwapsOf(l, S)
    BY LastSwapOf
  <2> QED BY <2>1 DEF SwapsOf
<1>4. m # 0 => k[m] = l[m]
  BY <1>3 DEF Grows
<1>5. m = 0 <=> SwapsOf(l, S) = {}
  BY LastSwapOf
<1>6. U \subseteq 1..Len(l)
  BY DEF After
<1> HIDE DEF m
<1>7. TickOf(k, S) = TickOf(l, S) /\ BaseOf(k, S) = BaseOf(l, S)
  BY <1>1, <1>2, <1>4, <1>5 DEF TickOf, BaseOf, m
<1>8. ActiveOf(k, U, TickOf(l, S)) = ActiveOf(l, U, TickOf(l, S))
  BY <1>6, GrowsSame
<1>9. LiqOf(k, S) = LiqOf(l, S)
  BY <1>2, <1>7, <1>8 DEF LiqOf, m
<1>10. LadderOf(k, S) = LadderOf(l, S)
  BY <1>1 DEF LadderOf
<1> QED BY <1>2, <1>7, <1>9, <1>10 DEF m

-----------------------------------------------------------------------------
(* A held pool and the logs its state was told of.                         *)

Snapshot == [tick : Tick, liq : Count, ladder : Count, cover : Tick, last : Nat]
Positions == [applied : SUBSET Id, read_at : Nat, refused : Nat]

\* The logs a state was told of are its pool's.
Told(l, p, T) == T \subseteq 1..Len(l) /\ \A i \in T : l[i].pool = p

\* The changes applied since the read are among them, and of those of later
\* blocks than the read only what does not fit is not applied: the pool is
\* flagged until a read at its block.
AppliedRight(l, q, T) ==
  /\ q.applied \subseteq ChangesOf(l, T)
  /\ \A c \in q.applied : l[c].block > q.read_at
  /\ \A c \in ChangesOf(l, T) \ q.applied : l[c].block > q.read_at =>
       l[c].trouble = "place" /\ q.refused >= l[c].block

\* The last swap applied is the last there is; with none, all are in the read.
LastRight(l, s, q, T) ==
  /\ s.last # 0 => /\ s.last \in SwapsOf(l, T) /\ l[s.last].block > q.read_at
                   /\ \A i \in SwapsOf(l, T) : i <= s.last
  /\ s.last = 0 => \A i \in SwapsOf(l, T) : l[i].block <= q.read_at

\* The liquidity is right, or flagged until a read at the last swap's block at
\* least, which is what rebuilds it.
LiqRight(l, s, q, T) ==
  \/ s.liq = LiqOf(l, T)
  \/ q.refused # 0 /\ (s.last # 0 => q.refused >= l[s.last].block)

Sound(l, p, s, q, T) ==
  /\ s \in Snapshot /\ q \in Positions
  /\ Told(l, p, T)
  /\ AppliedRight(l, q, T)
  /\ LastRight(l, s, q, T)
  /\ s.tick = TickOf(l, T)
  /\ s.ladder = LadderOf(l, T) \/ q.refused # 0
  /\ LiqRight(l, s, q, T)

\* A log that grows leaves it so.
LEMMA SoundGrows ==
  ASSUME NEW l, History(l), NEW k, Grows(l, k), NEW p, NEW s, NEW q, NEW T, Sound(l, p, s, q, T)
  PROVE  Sound(k, p, s, q, T)
<1>1. T \subseteq 1..Len(l) /\ Told(l, p, T) /\ Len(l) \in Nat
  BY EntryShape DEF Sound, Told, Entries
<1>2. /\ ChangesOf(k, T) = ChangesOf(l, T) /\ SwapsOf(k, T) = SwapsOf(l, T)
      /\ TickOf(k, T) = TickOf(l, T)
      /\ LadderOf(k, T) = LadderOf(l, T) /\ LiqOf(k, T) = LiqOf(l, T)
  BY <1>1, GrowsSame, GrowsSays
<1>3. \A i \in T : k[i] = l[i]
  BY <1>1 DEF Grows
<1>4. Told(k, p, T)
  <2>1. T \subseteq 1..Len(k)
    BY <1>1 DEF Grows
  <2> QED BY <1>1, <1>3, <2>1 DEF Told
<1>5. \A c \in ChangesOf(l, T) : k[c] = l[c]
  BY <1>3 DEF ChangesOf
<1>6. \A c \in SwapsOf(l, T) : k[c] = l[c]
  BY <1>3 DEF SwapsOf
<1>7. AppliedRight(k, q, T)
  <2>1. AppliedRight(l, q, T)
    BY DEF Sound
  <2>2. q.applied \subseteq ChangesOf(k, T) /\ \A c \in q.applied : k[c].block > q.read_at
    BY <1>2, <1>5, <2>1 DEF AppliedRight
  <2>3. ASSUME NEW c \in ChangesOf(k, T) \ q.applied, k[c].block > q.read_at
        PROVE  k[c].trouble = "place" /\ q.refused >= k[c].block
    <3>1. c \in ChangesOf(l, T) \ q.applied /\ k[c] = l[c]
      BY <1>2, <1>5, <2>3
    <3> QED BY <2>1, <2>3, <3>1 DEF AppliedRight
  <2> QED BY <2>2, <2>3 DEF AppliedRight
<1>8. LastRight(k, s, q, T)
  <2>1. LastRight(l, s, q, T)
    BY DEF Sound
  <2> QED BY <1>2, <1>6, <2>1 DEF LastRight
<1>9. LiqRight(k, s, q, T)
  <2>1. LiqRight(l, s, q, T) /\ LastRight(l, s, q, T)
    BY DEF Sound
  <2>2. s.last # 0 => k[s.last] = l[s.last]
    BY <1>6, <2>1 DEF LastRight
  <2> QED BY <1>2, <2>1, <2>2 DEF LiqRight
<1> QED BY <1>2, <1>4, <1>7, <1>8, <1>9 DEF Sound

-----------------------------------------------------------------------------
(* What one log does to a held pool's state, and what its removal does.    *)

\* Where a pool's last swap is, in a sound state: at its cursor, or in the read.
LEMMA SoundLast ==
  ASSUME NEW l, History(l), NEW p, NEW s, NEW q, NEW T, Sound(l, p, s, q, T)
  PROVE  /\ s.last # 0 => /\ LastSwap(l, T) = s.last /\ s.last \in 1..Len(l)
                          /\ l[s.last].block > q.read_at
         /\ s.last = 0 /\ LastSwap(l, T) # 0 => l[LastSwap(l, T)].block <= q.read_at
<1>1. T \subseteq 1..Len(l) /\ LastRight(l, s, q, T)
  BY DEF Sound, Told
<1>2. CASE s.last # 0
  <2>1. s.last \in SwapsOf(l, T) /\ \A i \in SwapsOf(l, T) : i <= s.last
    BY <1>1, <1>2 DEF LastRight
  <2>2. LastSwap(l, T) = s.last /\ s.last \in 1..Len(l)
    BY <1>1, <2>1, LastSwapIs DEF IsLastSwap, LastSays
  <2> QED BY <1>1, <1>2, <2>2 DEF LastRight
<1>3. CASE s.last = 0
  <2>1. LastSwap(l, T) # 0 => LastSwap(l, T) \in SwapsOf(l, T)
    BY <1>1, LastSwapOf
  <2> QED BY <1>1, <1>3, <2>1 DEF LastRight
<1> QED BY <1>2, <1>3

\* A log of a later block than the read is after the last swap of the read.
LEMMA LaterBlock ==
  ASSUME NEW l, History(l), NEW i \in 1..Len(l), NEW j \in 1..Len(l), l[j].block < l[i].block
  PROVE  j < i
<1>1. l[i].block \in Nat /\ l[j].block \in Nat /\ i \in Nat /\ j \in Nat
  BY EntryShape DEF Entries
<1>2. i <= j => l[i].block <= l[j].block
  BY EntryShape DEF Entries
<1> QED BY <1>1, <1>2

\* Logs with the same swaps say the same of the price.
LEMMA SameSwapsSay ==
  ASSUME NEW l, NEW S, NEW U, SwapsOf(l, U) = SwapsOf(l, S)
  PROVE  /\ LastSwap(l, U) = LastSwap(l, S) /\ TickOf(l, U) = TickOf(l, S)
         /\ BaseOf(l, U) = BaseOf(l, S)
BY DEF LastSwap, TickOf, BaseOf

\* One not after the last swap changes no liquidity.
LEMMA EarlierChange ==
  ASSUME NEW l, NEW S, NEW i, l[i].kind = "change", ~(i > LastSwap(l, S)),
         NEW U, U = S \cup {i} \/ U = S \ {i}
  PROVE  LiqOf(l, U) = LiqOf(l, S)
<1>1. SwapsOf(l, U) = SwapsOf(l, S)
  BY DEF SwapsOf
<1>2. /\ LastSwap(l, U) = LastSwap(l, S) /\ TickOf(l, U) = TickOf(l, S)
      /\ BaseOf(l, U) = BaseOf(l, S)
  BY <1>1, SameSwapsSay
<1>3. After(U, LastSwap(l, S)) = After(S, LastSwap(l, S))
  BY DEF After
<1> QED BY <1>2, <1>3 DEF LiqOf

\* One after it, if it was not there, is counted where it is active.
CountedOnce(l, S, U, i) ==
  /\ TickOf(l, S) \in l[i].active => LiqOf(l, U) = Plus(LiqOf(l, S), {i})
  /\ TickOf(l, S) \notin l[i].active => LiqOf(l, U) = LiqOf(l, S)

LEMMA LaterChange ==
  ASSUME NEW l, NEW S, NEW i, l[i].kind = "change", i > LastSwap(l, S), i \notin S,
         NEW U, U = S \cup {i}
  PROVE  CountedOnce(l, S, U, i)
<1> DEFINE m == LastSwap(l, S)
           t == TickOf(l, S)
           f == Plus(Zero, BaseOf(l, S))
           A == ActiveOf(l, After(S, m), t)
           B == ActiveOf(l, After(U, m), t)
<1>0. SwapsOf(l, U) = SwapsOf(l, S)
  BY DEF SwapsOf
<1>1. LastSwap(l, U) = m /\ TickOf(l, U) = t /\ BaseOf(l, U) = BaseOf(l, S)
  BY <1>0, SameSwapsSay
<1>2. LiqOf(l, U) = Plus(f, B) /\ LiqOf(l, S) = Plus(f, A)
  BY <1>1 DEF LiqOf
<1>3. After(U, m) = After(S, m) \cup {i} /\ i \notin After(S, m)
  BY DEF After
<1>4. B = (IF t \in l[i].active THEN A \cup {i} ELSE A) /\ i \notin A
  BY <1>3 DEF ActiveOf, ChangesOf
<1>5. f \in Count
  BY ZeroType, PlusType
<1> HIDE DEF f, A, B, t
<1>6. A \cap {i} = {}
  BY <1>4
<1>7. Plus(Plus(f, A), {i}) = Plus(f, A \cup {i})
  BY <1>5, <1>6, PlusUnion
<1>8. CASE t \in l[i].active
  BY <1>2, <1>4, <1>7, <1>8 DEF t, CountedOnce
<1>9. CASE t \notin l[i].active
  BY <1>2, <1>4, <1>9 DEF t, CountedOnce
<1> QED BY <1>8, <1>9

\* LiquidityInto of a change that fits.
LEMMA SoundChange ==
  ASSUME NEW l, History(l), NEW p, NEW s, NEW q, NEW T, Sound(l, p, s, q, T),
         NEW i \in 1..Len(l), l[i].pool = p, l[i].kind = "change", l[i].block > q.read_at,
         i \notin q.applied, l[i].trouble # "place",
         NEW z \in Snapshot, z.tick = s.tick, z.last = s.last, z.ladder = Plus(s.ladder, {i}),
         z.liq = IF (s.last = 0 \/ i > s.last) /\ s.tick \in l[i].active THEN Plus(s.liq, {i}) ELSE s.liq,
         NEW r \in Positions, r.applied = q.applied \cup {i}, r.read_at = q.read_at, r.refused = q.refused,
         NEW U, U = T \cup {i}
  PROVE  Sound(l, p, z, r, U)
<1> DEFINE m == LastSwap(l, T)
<1>1. /\ s \in Snapshot /\ q \in Positions /\ Told(l, p, T) /\ AppliedRight(l, q, T)
      /\ LastRight(l, s, q, T) /\ s.tick = TickOf(l, T)
      /\ s.ladder = LadderOf(l, T) \/ q.refused # 0
      /\ LiqRight(l, s, q, T)
  BY DEF Sound
<1>0. SwapsOf(l, U) = SwapsOf(l, T) /\ ChangesOf(l, U) = ChangesOf(l, T) \cup {i}
  BY DEF SwapsOf, ChangesOf
<1>2. /\ SwapsOf(l, U) = SwapsOf(l, T) /\ ChangesOf(l, U) = ChangesOf(l, T) \cup {i}
      /\ LastSwap(l, U) = m /\ TickOf(l, U) = TickOf(l, T)
  BY <1>0, SameSwapsSay
<1>3. i \notin T
  <2>1. i \in T => i \in ChangesOf(l, T) \ q.applied
    BY DEF ChangesOf
  <2> QED BY <1>1, <2>1 DEF AppliedRight
<1>4. Told(l, p, U)
  BY <1>1 DEF Told
<1>5. AppliedRight(l, r, U)
  <2>1. r.applied \subseteq ChangesOf(l, U) /\ \A c \in r.applied : l[c].block > r.read_at
    BY <1>1, <1>2 DEF AppliedRight
  <2>2. ChangesOf(l, U) \ r.applied \subseteq ChangesOf(l, T) \ q.applied
    BY <1>2
  <2> QED BY <1>1, <2>1, <2>2 DEF AppliedRight
<1>6. LastRight(l, z, r, U)
  BY <1>1, <1>2 DEF LastRight
<1>7. z.ladder = LadderOf(l, U) \/ r.refused # 0
  <2>1. ChangesOf(l, T) \cap {i} = {}
    BY <1>3 DEF ChangesOf
  <2>2. Plus(Plus(Zero, ChangesOf(l, T)), {i}) = Plus(Zero, ChangesOf(l, T) \cup {i})
    BY <2>1, ZeroType, PlusUnion
  <2>3. Plus(LadderOf(l, T), {i}) = LadderOf(l, U)
    BY <1>2, <2>2 DEF LadderOf
  <2> QED BY <1>1, <2>3
<1>8. LiqRight(l, z, r, U)
  <2>1. T \subseteq 1..Len(l)
    BY <1>1 DEF Told
  <2>2. m \in Nat /\ m \in 0..Len(l) /\ (m # 0 => m \in 1..Len(l)) /\ i \in Nat
    <3>1. m \in 0..Len(l)
      BY <2>1, LastSwapOf
    <3>2. Len(l) \in Nat /\ i \in Nat
      BY EntryShape DEF Entries
    <3> HIDE DEF m
    <3> QED BY <3>1, <3>2
  <2>3. s.last = 0 => i > m
    <3>1. CASE m = 0
      BY <2>2, <3>1
    <3>2. ASSUME s.last = 0, m # 0 PROVE m < i
      <4>1. l[m].block <= q.read_at
        BY <3>2, SoundLast
      <4>2. l[m].block \in Nat /\ l[i].block \in Nat /\ q.read_at \in Nat /\ m \in 1..Len(l)
        BY <1>1, <2>2, <3>2, EntryShape DEF Positions, Entries
      <4>3. l[m].block < l[i].block
        BY <4>1, <4>2
      <4> QED BY <4>2, <4>3, LaterBlock
    <3> QED BY <2>2, <3>1, <3>2
  <2>4. s.last # 0 => m = s.last
    BY SoundLast
  <2>5. i > m <=> s.last = 0 \/ i > s.last
    BY <2>3, <2>4
  <2>6. CASE s.liq = LiqOf(l, T)
    <3>1. CASE i > m
      <4>1. CountedOnce(l, T, U, i)
        BY <1>3, <3>1, LaterChange
      <4>2. z.liq = LiqOf(l, U)
        BY <1>1, <2>5, <2>6, <3>1, <4>1 DEF CountedOnce
      <4> QED BY <4>2 DEF LiqRight
    <3>2. CASE ~(i > m)
      <4>1. LiqOf(l, U) = LiqOf(l, T)
        BY <3>2, EarlierChange
      <4>2. z.liq = LiqOf(l, U)
        BY <2>5, <2>6, <3>2, <4>1
      <4> QED BY <4>2 DEF LiqRight
    <3> QED BY <3>1, <3>2
  <2>7. CASE q.refused # 0 /\ (s.last # 0 => q.refused >= l[s.last].block)
    BY <2>7 DEF LiqRight
  <2> QED BY <1>1, <2>6, <2>7 DEF LiqRight
<1> QED BY <1>1, <1>2, <1>4, <1>5, <1>6, <1>7, <1>8 DEF Sound

\* A flag that is raised, or stays.
Raised(q, r, b) == r.refused >= q.refused /\ r.refused >= b

\* Refuse of a change that finds no place.
LEMMA SoundRefused ==
  ASSUME NEW l, History(l), NEW p, NEW s, NEW q, NEW T, Sound(l, p, s, q, T),
         NEW i \in 1..Len(l), l[i].pool = p, l[i].kind = "change", l[i].trouble = "place",
         NEW r \in Positions, r.applied = q.applied, r.read_at = q.read_at, Raised(q, r, l[i].block),
         NEW U, U = T \cup {i}
  PROVE  Sound(l, p, s, r, U)
<1> DEFINE m == LastSwap(l, T)
<1>1. /\ s \in Snapshot /\ q \in Positions /\ Told(l, p, T) /\ AppliedRight(l, q, T)
      /\ LastRight(l, s, q, T) /\ s.tick = TickOf(l, T)
      /\ LiqRight(l, s, q, T)
  BY DEF Sound
<1>0. SwapsOf(l, U) = SwapsOf(l, T) /\ ChangesOf(l, U) = ChangesOf(l, T) \cup {i}
  BY DEF SwapsOf, ChangesOf
<1>2. /\ SwapsOf(l, U) = SwapsOf(l, T) /\ ChangesOf(l, U) = ChangesOf(l, T) \cup {i}
      /\ TickOf(l, U) = TickOf(l, T)
  BY <1>0, SameSwapsSay
<1>3. /\ l[i].block \in Nat \ {0} /\ q.refused \in Nat /\ r.refused \in Nat /\ i \in Nat
      /\ \A c \in 1..Len(l) : l[c].block \in Nat
  BY <1>1, EntryShape DEF Positions, Entries
<1>4. r.refused # 0 /\ r.refused >= q.refused /\ r.refused >= l[i].block
  BY <1>3 DEF Raised
<1>5. Told(l, p, U)
  BY <1>1 DEF Told
<1>6. AppliedRight(l, r, U)
  <2>1. r.applied \subseteq ChangesOf(l, U) /\ \A c \in r.applied : l[c].block > r.read_at
    BY <1>1, <1>2 DEF AppliedRight
  <2>2. ASSUME NEW c \in ChangesOf(l, U) \ r.applied, l[c].block > r.read_at
        PROVE  l[c].trouble = "place" /\ r.refused >= l[c].block
    <3>1. CASE c = i
      BY <1>4, <3>1
    <3>2. CASE c # i
      <4>1. c \in ChangesOf(l, T) \ q.applied
        BY <1>2, <2>2, <3>2
      <4>2. l[c].trouble = "place" /\ q.refused >= l[c].block
        BY <1>1, <2>2, <4>1 DEF AppliedRight
      <4>3. l[c].block \in Nat
        BY <1>1, <1>3, <4>1 DEF ChangesOf, Told
      <4> QED BY <1>3, <1>4, <4>2, <4>3
    <3> QED BY <3>1, <3>2
  <2> QED BY <2>1, <2>2 DEF AppliedRight
<1>7. LastRight(l, s, r, U)
  BY <1>1, <1>2 DEF LastRight
<1>8. LiqRight(l, s, r, U)
  <2>1. s.last # 0 => m = s.last /\ s.last \in 1..Len(l)
    BY SoundLast
  <2>2. ASSUME s.last # 0, i > m PROVE r.refused >= l[s.last].block
    <3>1. s.last \in 1..Len(l) /\ s.last <= i
      BY <1>3, <2>1, <2>2
    <3>2. l[s.last].block <= l[i].block
      BY <3>1, EntryShape DEF Entries
    <3> QED BY <1>3, <1>4, <3>1, <3>2
  <2>3. CASE s.last = 0
    BY <1>4, <2>3 DEF LiqRight
  <2>4. CASE s.last # 0 /\ i > m
    BY <1>4, <2>2, <2>4 DEF LiqRight
  <2>5. CASE s.last # 0 /\ ~(i > m)
    <3>1. LiqOf(l, U) = LiqOf(l, T)
      BY <2>5, EarlierChange
    <3>2. q.refused >= l[s.last].block => r.refused >= l[s.last].block
      BY <1>3, <1>4, <2>1, <2>5
    <3> QED BY <1>1, <1>4, <3>1, <3>2 DEF LiqRight
  <2> QED BY <2>3, <2>4, <2>5
<1> QED BY <1>1, <1>2, <1>4, <1>5, <1>6, <1>7, <1>8 DEF Sound


\* Later than what the state holds: IsNewer of a pool's cursor and read.
Newer(l, s, q, i) == IF s.last # 0 THEN i > s.last ELSE l[i].block > q.read_at

\* A newer swap is of a later block than the read, and after every swap there is.
LEMMA NewerIsLast ==
  ASSUME NEW l, History(l), NEW p, NEW s, NEW q, NEW T, Sound(l, p, s, q, T),
         NEW i \in 1..Len(l), Newer(l, s, q, i)
  PROVE  l[i].block > q.read_at /\ \A j \in SwapsOf(l, T) : j <= i
<1>1. /\ T \subseteq 1..Len(l) /\ LastRight(l, s, q, T)
      /\ q.read_at \in Nat /\ s.last \in Nat /\ i \in Nat /\ Len(l) \in Nat
      /\ \A j \in 1..Len(l) : l[j].block \in Nat
  BY EntryShape DEF Sound, Told, Snapshot, Positions, Entries
<1>2. SwapsOf(l, T) \subseteq 1..Len(l)
  BY <1>1 DEF SwapsOf
<1>3. CASE s.last # 0
  <2>1. s.last \in SwapsOf(l, T) /\ l[s.last].block > q.read_at /\ \A j \in SwapsOf(l, T) : j <= s.last
    BY <1>1, <1>3 DEF LastRight
  <2>2. i > s.last /\ s.last \in 1..Len(l)
    BY <1>2, <1>3, <2>1 DEF Newer
  <2>3. l[s.last].block <= l[i].block
    BY <1>1, <2>2, EntryShape DEF Entries
  <2>4. l[i].block > q.read_at
    BY <1>1, <2>1, <2>2, <2>3
  <2>5. \A j \in SwapsOf(l, T) : j \in Nat
    BY <1>2
  <2>6. \A j \in SwapsOf(l, T) : j <= i
    BY <1>1, <2>1, <2>2, <2>5
  <2> QED BY <2>4, <2>6
<1>4. CASE s.last = 0
  <2>1. l[i].block > q.read_at /\ \A j \in SwapsOf(l, T) : l[j].block <= q.read_at
    BY <1>1, <1>4 DEF LastRight, Newer
  <2>2. ASSUME NEW j \in SwapsOf(l, T) PROVE j <= i
    <3>1. j \in 1..Len(l) /\ l[j].block <= q.read_at
      BY <1>2, <2>1
    <3>2. l[j].block < l[i].block
      BY <1>1, <2>1, <3>1
    <3>3. j < i
      BY <3>1, <3>2, LaterBlock
    <3> QED BY <1>1, <3>1, <3>3
  <2> QED BY <2>1, <2>2
<1> QED BY <1>3, <1>4

\* SwapInto of a newer swap, whether or not its liquidity takes the changes
\* after it.
LEMMA SoundSwap ==
  ASSUME NEW l, History(l), NEW p, NEW s, NEW q, NEW T, Sound(l, p, s, q, T),
         NEW i \in 1..Len(l), l[i].pool = p, l[i].kind = "swap", Newer(l, s, q, i),
         NEW z \in Snapshot, z.tick = l[i].tick, z.last = i, z.ladder = s.ladder,
         NEW r \in Positions, r.applied = q.applied, r.read_at = q.read_at, r.refused >= q.refused,
         \/ z.liq = Plus(Plus(Zero, l[i].counts), ActiveOf(l, After(q.applied, i), l[i].tick))
         \/ r.refused >= l[i].block,
         NEW U, U = T \cup {i}
  PROVE  Sound(l, p, z, r, U)
<1>1. /\ s \in Snapshot /\ q \in Positions /\ Told(l, p, T) /\ AppliedRight(l, q, T)
      /\ s.ladder = LadderOf(l, T) \/ q.refused # 0
  BY DEF Sound
<1>2. l[i].block > q.read_at /\ \A j \in SwapsOf(l, T) : j <= i
  BY NewerIsLast
<1>3. Told(l, p, U) /\ U \subseteq 1..Len(l)
  BY <1>1 DEF Told
<1>4. ChangesOf(l, U) = ChangesOf(l, T) /\ SwapsOf(l, U) = SwapsOf(l, T) \cup {i}
  BY DEF ChangesOf, SwapsOf
<1>5. IsLastSwap(l, U, i)
  <2>1. i \in Nat
    BY EntryShape DEF Entries
  <2>2. i <= i
    BY <2>1
  <2>3. \A j \in SwapsOf(l, U) : j \in SwapsOf(l, T) \/ j = i
    BY <1>4
  <2>4. i \in SwapsOf(l, U)
    BY <1>4
  <2> QED BY <1>2, <2>2, <2>3, <2>4 DEF IsLastSwap
<1>6. LastSwap(l, U) = i /\ TickOf(l, U) = l[i].tick /\ BaseOf(l, U) = l[i].counts
  <2>1. LastSays(l, U, i)
    BY <1>3, <1>5, LastSwapIs
  <2> QED BY <2>1 DEF LastSays
<1>7. /\ r.refused \in Nat /\ q.refused \in Nat /\ q.read_at \in Nat /\ i \in Nat /\ i # 0
      /\ \A c \in 1..Len(l) : l[c].block \in Nat \ {0}
  BY <1>1, EntryShape DEF Positions, Entries
<1>8. AppliedRight(l, r, U)
  <2>1. ASSUME NEW c \in ChangesOf(l, T) \ q.applied, l[c].block > q.read_at
        PROVE  l[c].trouble = "place" /\ r.refused >= l[c].block
    <3>1. l[c].trouble = "place" /\ q.refused >= l[c].block
      BY <1>1, <2>1 DEF AppliedRight
    <3>2. l[c].block \in Nat
      BY <1>1, <1>7 DEF ChangesOf, Told
    <3> QED BY <1>7, <3>1, <3>2
  <2> QED BY <1>1, <1>4, <2>1 DEF AppliedRight
<1>9. LastRight(l, z, r, U)
  BY <1>2, <1>5, <1>7 DEF LastRight, IsLastSwap
<1>10. z.ladder = LadderOf(l, U) \/ r.refused # 0
  <2>1. LadderOf(l, U) = LadderOf(l, T)
    BY <1>4 DEF LadderOf
  <2>2. q.refused # 0 => r.refused # 0
    BY <1>7
  <2> QED BY <1>1, <2>1, <2>2
<1>11. LiqRight(l, z, r, U)
  <2> DEFINE A == ActiveOf(l, After(q.applied, i), l[i].tick)
             B == ActiveOf(l, After(U, i), l[i].tick)
  <2>1. LiqOf(l, U) = Plus(Plus(Zero, l[i].counts), B)
    BY <1>6 DEF LiqOf
  <2>2. CASE r.refused >= l[i].block
    <3>1. r.refused # 0
      BY <1>7, <2>2
    <3> QED BY <2>2, <3>1 DEF LiqRight
  <2>3. CASE A = B /\ z.liq = Plus(Plus(Zero, l[i].counts), A)
    <3>1. z.liq = LiqOf(l, U)
      BY <2>1, <2>3
    <3> QED BY <3>1 DEF LiqRight
  <2>4. CASE A # B
    <3>1. A \subseteq B
      BY <1>1, <1>4 DEF ActiveOf, After, ChangesOf, AppliedRight
    <3>2. PICK c \in B : c \notin A
      BY <2>4, <3>1
    <3>3. c \in ChangesOf(l, U) /\ c > i /\ l[i].tick \in l[c].active
      BY DEF ActiveOf, After, ChangesOf
    <3>4. c \notin q.applied
      BY <3>2, <3>3 DEF ActiveOf, After, ChangesOf
    <3>5. c \in ChangesOf(l, T) \ q.applied
      BY <1>4, <3>3, <3>4
    <3>6. c \in 1..Len(l) /\ c \in Nat
      BY <1>1, <3>5, EntryShape DEF ChangesOf, Told, Entries
    <3>7. l[i].block <= l[c].block
      BY <1>7, <3>3, <3>6, EntryShape DEF Entries
    <3>8. l[c].block > q.read_at
      BY <1>2, <1>7, <3>6, <3>7
    <3>9. q.refused >= l[c].block
      BY <1>1, <3>5, <3>8 DEF AppliedRight
    <3>10. r.refused >= l[i].block
      BY <1>7, <3>6, <3>7, <3>9
    <3> QED BY <2>2, <3>10
  <2> QED BY <2>2, <2>3, <2>4
<1> QED BY <1>3, <1>6, <1>8, <1>9, <1>10, <1>11 DEF Sound

\* A swap that is not newer is heard of and changes nothing.
LEMMA SoundOldSwap ==
  ASSUME NEW l, History(l), NEW p, NEW s, NEW q, NEW T, Sound(l, p, s, q, T),
         NEW i \in 1..Len(l), l[i].pool = p, l[i].kind = "swap", l[i].block > q.read_at,
         ~Newer(l, s, q, i), NEW U, U = T \cup {i}
  PROVE  Sound(l, p, s, q, U)
<1>1. /\ s \in Snapshot /\ q \in Positions /\ Told(l, p, T) /\ AppliedRight(l, q, T)
      /\ LastRight(l, s, q, T) /\ s.tick = TickOf(l, T)
      /\ s.ladder = LadderOf(l, T) \/ q.refused # 0
      /\ LiqRight(l, s, q, T)
  BY DEF Sound
<1>2. s.last \in Nat /\ i \in Nat /\ Len(l) \in Nat
  BY <1>1, EntryShape DEF Snapshot, Entries
<1>3. s.last # 0 /\ i <= s.last
  BY <1>2 DEF Newer
<1>4. ChangesOf(l, U) = ChangesOf(l, T) /\ SwapsOf(l, U) = SwapsOf(l, T) \cup {i}
  BY DEF ChangesOf, SwapsOf
<1>5. Told(l, p, U) /\ U \subseteq 1..Len(l) /\ T \subseteq 1..Len(l)
  BY <1>1 DEF Told
<1>6. s.last \in SwapsOf(l, T) /\ \A j \in SwapsOf(l, T) : j <= s.last
  BY <1>1, <1>3 DEF LastRight
<1>7. s.last \in SwapsOf(l, U) /\ \A j \in SwapsOf(l, U) : j <= s.last
  BY <1>3, <1>4, <1>6
<1>8. LastSwap(l, T) = s.last /\ TickOf(l, T) = l[s.last].tick /\ BaseOf(l, T) = l[s.last].counts
  BY <1>5, <1>6, LastSwapIs DEF IsLastSwap, LastSays
<1>9. LastSwap(l, U) = s.last /\ TickOf(l, U) = l[s.last].tick /\ BaseOf(l, U) = l[s.last].counts
  BY <1>5, <1>7, LastSwapIs DEF IsLastSwap, LastSays
<1>10. After(U, s.last) = After(T, s.last)
  BY <1>2, <1>3 DEF After
<1>11. LiqOf(l, U) = LiqOf(l, T)
  BY <1>8, <1>9, <1>10 DEF LiqOf
<1>12. LadderOf(l, U) = LadderOf(l, T)
  BY <1>4 DEF LadderOf
<1>13. AppliedRight(l, q, U) /\ LastRight(l, s, q, U) /\ LiqRight(l, s, q, U)
  BY <1>1, <1>3, <1>4, <1>7, <1>11 DEF AppliedRight, LastRight, LiqRight
<1> QED BY <1>1, <1>5, <1>8, <1>9, <1>12, <1>13 DEF Sound

\* retract_position.
LEMMA SoundRetract ==
  ASSUME NEW l, History(l), NEW p, NEW s, NEW q, NEW T, Sound(l, p, s, q, T),
         NEW i \in 1..Len(l), l[i].kind = "change",
         NEW r \in Positions, r.applied = q.applied \ {i}, r.read_at = q.read_at,
         Raised(q, r, l[i].block), NEW U, U = T \ {i}
  PROVE  Sound(l, p, s, r, U)
<1> DEFINE m == LastSwap(l, T)
<1>1. /\ s \in Snapshot /\ q \in Positions /\ Told(l, p, T) /\ AppliedRight(l, q, T)
      /\ LastRight(l, s, q, T) /\ s.tick = TickOf(l, T)
      /\ LiqRight(l, s, q, T)
  BY DEF Sound
<1>2. SwapsOf(l, U) = SwapsOf(l, T) /\ ChangesOf(l, U) = ChangesOf(l, T) \ {i}
  BY DEF SwapsOf, ChangesOf
<1>3. TickOf(l, U) = TickOf(l, T)
  BY <1>2, SameSwapsSay
<1>4. /\ l[i].block \in Nat \ {0} /\ q.refused \in Nat /\ r.refused \in Nat /\ i \in Nat
      /\ \A c \in 1..Len(l) : l[c].block \in Nat
  BY <1>1, EntryShape DEF Positions, Entries
<1>5. r.refused # 0 /\ r.refused >= q.refused /\ r.refused >= l[i].block
  BY <1>4 DEF Raised
<1>6. Told(l, p, U)
  BY <1>1 DEF Told
<1>7. AppliedRight(l, r, U)
  <2>1. r.applied \subseteq ChangesOf(l, U) /\ \A c \in r.applied : l[c].block > r.read_at
    BY <1>1, <1>2 DEF AppliedRight
  <2>2. ASSUME NEW c \in ChangesOf(l, U) \ r.applied, l[c].block > r.read_at
        PROVE  l[c].trouble = "place" /\ r.refused >= l[c].block
    <3>1. c \in ChangesOf(l, T) \ q.applied
      BY <1>2, <2>2
    <3>2. l[c].trouble = "place" /\ q.refused >= l[c].block
      BY <1>1, <2>2, <3>1 DEF AppliedRight
    <3>3. l[c].block \in Nat
      BY <1>1, <1>4, <3>1 DEF ChangesOf, Told
    <3> QED BY <1>4, <1>5, <3>2, <3>3
  <2> QED BY <2>1, <2>2 DEF AppliedRight
<1>8. LastRight(l, s, r, U)
  BY <1>1, <1>2 DEF LastRight
<1>9. LiqRight(l, s, r, U)
  <2>1. s.last # 0 => m = s.last /\ s.last \in 1..Len(l)
    BY SoundLast
  <2>2. ASSUME s.last # 0, i > m PROVE r.refused >= l[s.last].block
    <3>1. s.last \in 1..Len(l) /\ s.last <= i
      BY <1>4, <2>1, <2>2
    <3>2. l[s.last].block <= l[i].block
      BY <3>1, EntryShape DEF Entries
    <3> QED BY <1>4, <1>5, <3>1, <3>2
  <2>3. CASE s.last = 0
    BY <1>5, <2>3 DEF LiqRight
  <2>4. CASE s.last # 0 /\ i > m
    BY <1>5, <2>2, <2>4 DEF LiqRight
  <2>5. CASE s.last # 0 /\ ~(i > m)
    <3>1. LiqOf(l, U) = LiqOf(l, T)
      BY <2>5, EarlierChange
    <3>2. q.refused >= l[s.last].block => r.refused >= l[s.last].block
      BY <1>4, <1>5, <2>1, <2>5
    <3> QED BY <1>1, <1>5, <3>1, <3>2 DEF LiqRight
  <2> QED BY <2>3, <2>4, <2>5
<1> QED BY <1>1, <1>3, <1>5, <1>6, <1>7, <1>8, <1>9 DEF Sound


-----------------------------------------------------------------------------
(* What a read at block n makes of a pool.                                 *)

Before(S, n) == {c \in S : c < n}
Since(l, S, n) == {i \in S : l[i].block > n}

\* What the chain held of the pool when it was read: the liquidity active at the
\* last swap is what its log carries and what came after.
ReadOf(l, p, n, R) ==
  /\ Told(l, p, R) /\ \A i \in R : l[i].block <= n
  /\ LastSwap(l, R) # 0 =>
       BaseOf(l, R) = ActiveOf(l, Before(R, LastSwap(l, R)), TickOf(l, R))

\* The positions before the read, and what it makes of them.
Readable(l, p, n, q, T) ==
  n \in Nat /\ q \in Positions /\ Told(l, p, T) /\ AppliedRight(l, q, T) /\ q.read_at <= n

Carries(l, n, q, r) ==
  /\ r \in Positions /\ r.applied = Since(l, q.applied, n) /\ r.read_at = n
  /\ q.refused > n => r.refused >= q.refused
  /\ \A c \in r.applied : l[c].trouble = "read" => r.refused >= l[c].block

\* A flag for a change of a later block than the read stands.
LEMMA FlagStands ==
  ASSUME NEW l, History(l), NEW n \in Nat, NEW r \in Positions,
         NEW c \in 1..Len(l), l[c].block > n, r.refused >= l[c].block
  PROVE  r.refused # 0
<1>1. l[c].block \in Nat /\ r.refused \in Nat
  BY EntryShape DEF Entries, Positions
<1> QED BY <1>1

\* Of the changes after the read, what is not carried was refused a place.
LEMMA NotCarried ==
  ASSUME NEW l, History(l), NEW p, NEW n, NEW q, NEW T, Readable(l, p, n, q, T),
         NEW r, Carries(l, n, q, r), NEW c \in ChangesOf(l, T), l[c].block > n, c \notin r.applied
  PROVE  l[c].trouble = "place" /\ r.refused >= l[c].block /\ r.refused # 0
<1>1. n \in Nat /\ q \in Positions /\ r \in Positions /\ q.read_at \in Nat /\ q.refused \in Nat
      /\ r.refused \in Nat /\ q.read_at <= n
  BY DEF Readable, Carries, Positions
<1>2. c \in 1..Len(l)
  BY DEF Readable, Told, ChangesOf
<1>3. l[c].block \in Nat
  BY <1>2, EntryShape DEF Entries
<1>4. c \in ChangesOf(l, T) \ q.applied
  BY DEF Carries, Since
<1>5. l[c].block > q.read_at
  BY <1>1, <1>3
<1>6. l[c].trouble = "place" /\ q.refused >= l[c].block
  BY <1>4, <1>5 DEF Readable, AppliedRight
<1>7. q.refused > n
  BY <1>1, <1>3, <1>6
<1>8. r.refused >= q.refused
  BY <1>7 DEF Carries
<1>9. r.refused >= l[c].block /\ r.refused # 0
  BY <1>1, <1>3, <1>6, <1>8
<1> QED BY <1>6, <1>9

\* The logs told of and the positions after the read agree.
LEMMA ReadPositions ==
  ASSUME NEW l, History(l), NEW p, NEW n, NEW q, NEW T, Readable(l, p, n, q, T),
         NEW R, ReadOf(l, p, n, R), NEW r, Carries(l, n, q, r),
         NEW U, U = R \cup Since(l, T, n)
  PROVE  Told(l, p, U) /\ AppliedRight(l, r, U)
<1>1. Told(l, p, T) /\ Told(l, p, R) /\ \A i \in R : l[i].block <= n
  BY DEF Readable, ReadOf
<1>2. Told(l, p, U)
  BY <1>1 DEF Told, Since
<1>3. r.applied \subseteq ChangesOf(l, U)
  <2>1. r.applied \subseteq q.applied /\ \A c \in r.applied : l[c].block > n
    BY DEF Carries, Since
  <2>2. q.applied \subseteq ChangesOf(l, T)
    BY DEF Readable, AppliedRight
  <2> QED BY <2>1, <2>2 DEF ChangesOf, Since
<1>4. r.read_at = n /\ \A c \in r.applied : l[c].block > n
  BY DEF Carries, Since
<1>5. ASSUME NEW c \in ChangesOf(l, U) \ r.applied, l[c].block > n
      PROVE  l[c].trouble = "place" /\ r.refused >= l[c].block
  <2>1. c \in 1..Len(l)
    BY <1>2 DEF Told, ChangesOf
  <2>2. n \in Nat /\ l[c].block \in Nat
    BY <2>1, EntryShape DEF Entries, Readable
  <2>3. c \notin R
    BY <1>1, <1>5, <2>2
  <2>4. c \in ChangesOf(l, T) /\ c \notin r.applied
    BY <1>5, <2>3 DEF ChangesOf, Since
  <2> QED BY <1>5, <2>4, NotCarried
<1>6. AppliedRight(l, r, U)
  BY <1>3, <1>4, <1>5 DEF AppliedRight
<1> QED BY <1>2, <1>6

\* The ladder: the read's, with what is carried, unless some of it did not fit.
LEMMA ReadLadder ==
  ASSUME NEW l, History(l), NEW p, NEW n, NEW q, NEW T, Readable(l, p, n, q, T),
         NEW R, ReadOf(l, p, n, R), NEW r, Carries(l, n, q, r),
         NEW U, U = R \cup Since(l, T, n),
         NEW fits, fits = {c \in r.applied : l[c].trouble # "read"}
  PROVE  Plus(Plus(Zero, ChangesOf(l, R)), fits) = LadderOf(l, U) \/ r.refused # 0
<1>1. Told(l, p, T) /\ Told(l, p, R) /\ \A i \in R : l[i].block <= n
  BY DEF Readable, ReadOf
<1>2. n \in Nat /\ \A c \in 1..Len(l) : l[c].block \in Nat
  BY EntryShape DEF Entries, Readable
<1>3. r.applied \subseteq ChangesOf(l, T) /\ \A c \in r.applied : l[c].block > n
  BY DEF Carries, Since, Readable, AppliedRight
<1>4. CASE \E c \in r.applied : l[c].trouble = "read"
  <2>1. PICK c \in r.applied : l[c].trouble = "read"
    BY <1>4
  <2>2. r \in Positions /\ c \in 1..Len(l) /\ l[c].block > n /\ r.refused >= l[c].block
    BY <1>1, <1>3, <2>1 DEF Carries, ChangesOf, Told
  <2>3. r.refused # 0
    BY <1>2, <2>2, FlagStands
  <2> QED BY <2>3
<1>5. CASE \E c \in ChangesOf(l, T) : l[c].block > n /\ c \notin r.applied
  BY <1>5, NotCarried
<1>6. CASE /\ \A c \in r.applied : l[c].trouble # "read"
           /\ \A c \in ChangesOf(l, T) : l[c].block > n => c \in r.applied
  <2>1. fits = r.applied
    BY <1>6
  <2>2. ChangesOf(l, U) = ChangesOf(l, R) \cup r.applied
    BY <1>3, <1>6 DEF ChangesOf, Since
  <2>3. ChangesOf(l, R) \cap r.applied = {}
    <3>1. ASSUME NEW c \in ChangesOf(l, R), c \in r.applied PROVE FALSE
      <4>1. l[c].block <= n /\ l[c].block > n /\ c \in 1..Len(l)
        BY <1>1, <1>3, <3>1 DEF ChangesOf, Told
      <4> QED BY <1>2, <4>1
    <3> QED BY <3>1
  <2>4. Plus(Plus(Zero, ChangesOf(l, R)), r.applied) = Plus(Zero, ChangesOf(l, R) \cup r.applied)
    BY <2>3, ZeroType, PlusUnion
  <2> QED BY <2>1, <2>2, <2>4 DEF LadderOf
<1> QED BY <1>4, <1>5, <1>6


\* A swap of a later block than the read: its price and liquidity stand.
LEMMA SoundKept ==
  ASSUME NEW l, History(l), NEW p, NEW n, NEW s, NEW q, NEW T,
         Sound(l, p, s, q, T), Readable(l, p, n, q, T), s.last # 0, l[s.last].block > n,
         NEW R, ReadOf(l, p, n, R), NEW r, Carries(l, n, q, r),
         NEW U, U = R \cup Since(l, T, n),
         NEW z \in Snapshot, z.tick = s.tick, z.liq = s.liq, z.last = s.last,
         z.ladder = LadderOf(l, U) \/ r.refused # 0
  PROVE  Sound(l, p, z, r, U)
<1> DEFINE m == s.last
<1>1. /\ s \in Snapshot /\ q \in Positions /\ Told(l, p, T) /\ s.tick = TickOf(l, T)
      /\ LastRight(l, s, q, T) /\ LiqRight(l, s, q, T)
  BY DEF Sound
<1>2. /\ Told(l, p, U) /\ AppliedRight(l, r, U)
      /\ T \subseteq 1..Len(l) /\ U \subseteq 1..Len(l) /\ R \subseteq 1..Len(l)
  <2>1. Told(l, p, U) /\ AppliedRight(l, r, U)
    BY ReadPositions
  <2> QED BY <1>1, <2>1 DEF Told, ReadOf
<1>3. /\ n \in Nat /\ r \in Positions /\ r.read_at = n /\ q.refused \in Nat /\ r.refused \in Nat
      /\ \A c \in 1..Len(l) : l[c].block \in Nat /\ c \in Nat
  BY <1>1, EntryShape DEF Entries, Readable, Carries, Positions
<1>4. m \in SwapsOf(l, T) /\ (\A j \in SwapsOf(l, T) : j <= m) /\ m \in 1..Len(l)
  BY <1>1, <1>2 DEF LastRight, SwapsOf
<1>5. \A j \in R : j < m
  <2>1. ASSUME NEW j \in R PROVE j < m
    <3>1. l[j].block <= n /\ j \in 1..Len(l)
      BY <1>2 DEF ReadOf
    <3>2. l[j].block < l[m].block
      BY <1>3, <1>4, <3>1
    <3> QED BY <1>4, <3>1, <3>2, LaterBlock
  <2> QED BY <2>1
<1> HIDE DEF m
<1>6. IsLastSwap(l, U, m)
  <2>1. m \in SwapsOf(l, U)
    BY <1>4 DEF SwapsOf, Since, m
  <2>2. ASSUME NEW j \in SwapsOf(l, U) PROVE j <= m
    <3>1. CASE j \in R
      <4>1. j < m /\ j \in Nat /\ m \in Nat
        BY <1>2, <1>3, <1>4, <1>5, <3>1
      <4> QED BY <4>1
    <3>2. CASE j \in T
      <4>1. j \in SwapsOf(l, T)
        BY <3>2 DEF SwapsOf
      <4> QED BY <1>4, <4>1
    <3> QED BY <3>1, <3>2 DEF SwapsOf, Since
  <2> QED BY <2>1, <2>2 DEF IsLastSwap
<1>7. LastSays(l, U, m)
  BY <1>2, <1>6, LastSwapIs
<1>8. LastSays(l, T, m)
  <2>1. IsLastSwap(l, T, m)
    BY <1>4 DEF IsLastSwap
  <2> QED BY <1>2, <2>1, LastSwapIs
<1>9. After(U, m) = After(T, m)
  <2>1. ASSUME NEW c \in U, c > m PROVE c \in T
    <3>1. c \notin R
      <4>1. c \in R => c < m /\ c \in Nat /\ m \in Nat
        BY <1>2, <1>3, <1>4, <1>5
      <4> QED BY <2>1, <4>1
    <3> QED BY <3>1 DEF Since
  <2>2. ASSUME NEW c \in T, c > m PROVE c \in U
    <3>1. m \in 1..Len(l) /\ c \in 1..Len(l) /\ m <= c
      BY <1>2, <1>3, <1>4, <2>2
    <3>2. l[m].block <= l[c].block
      BY <3>1, EntryShape DEF Entries
    <3>3. l[c].block > n
      BY <1>3, <3>1, <3>2 DEF m
    <3> QED BY <3>3 DEF Since
  <2> QED BY <2>1, <2>2 DEF After
<1>10. LiqOf(l, U) = LiqOf(l, T) /\ TickOf(l, U) = TickOf(l, T)
  <2>1. /\ LastSwap(l, U) = LastSwap(l, T) /\ LastSwap(l, T) = m
        /\ TickOf(l, U) = TickOf(l, T) /\ BaseOf(l, U) = BaseOf(l, T)
    BY <1>7, <1>8 DEF LastSays
  <2> QED BY <1>9, <2>1 DEF LiqOf
<1>11. LastRight(l, z, r, U)
  BY <1>3, <1>6 DEF LastRight, IsLastSwap, m
<1>12. LiqRight(l, z, r, U)
  <2>1. CASE s.liq = LiqOf(l, T)
    BY <1>10, <2>1 DEF LiqRight
  <2>2. CASE q.refused # 0 /\ (s.last # 0 => q.refused >= l[s.last].block)
    <3>1. q.refused >= l[m].block /\ l[m].block > n /\ l[m].block \in Nat
      BY <1>3, <1>4, <2>2 DEF m
    <3>2. q.refused > n
      BY <1>3, <3>1
    <3>3. r.refused >= q.refused
      BY <3>2 DEF Carries
    <3>4. r.refused # 0 /\ r.refused >= l[m].block
      BY <1>3, <3>1, <3>2, <3>3
    <3> QED BY <3>4 DEF LiqRight, m
  <2> QED BY <1>1, <2>1, <2>2 DEF LiqRight
<1> QED BY <1>1, <1>2, <1>3, <1>10, <1>11, <1>12 DEF Sound

\* Active liquidity is what is counted at the last swap and what came after it.
LEMMA ReadActive ==
  ASSUME NEW l, History(l), NEW p, NEW n, NEW R, ReadOf(l, p, n, R)
  PROVE  LET later == ActiveOf(l, After(R, LastSwap(l, R)), TickOf(l, R)) IN
         /\ ActiveOf(l, R, TickOf(l, R)) = BaseOf(l, R) \cup later
         /\ BaseOf(l, R) \cap later = {}
<1> DEFINE m == LastSwap(l, R)
           t == TickOf(l, R)
<1>1. R \subseteq 1..Len(l) /\ \A c \in R : c \in Nat /\ c > 0
  <2>1. R \subseteq 1..Len(l)
    BY DEF ReadOf, Told
  <2>2. Len(l) \in Nat
    BY EntryShape DEF Entries
  <2>3. \A c \in 1..Len(l) : c \in Nat /\ c > 0
    BY <2>2
  <2> QED BY <2>1, <2>3
<1>2. m \in 0..Len(l) /\ (m # 0 => m \in SwapsOf(l, R))
  BY <1>1, LastSwapOf
<1>3. CASE m = 0
  <2>1. BaseOf(l, R) = {} /\ After(R, m) = R
    BY <1>1, <1>3 DEF BaseOf, After
  <2> QED BY <2>1
<1>4. CASE m # 0
  <2>1. BaseOf(l, R) = ActiveOf(l, Before(R, m), t)
    BY <1>4 DEF ReadOf
  <2>2. m \in Nat
    BY <1>1, <1>2, <1>4 DEF SwapsOf
  <2>3. \A c \in ChangesOf(l, R) : (c < m \/ c > m) /\ ~(c < m /\ c > m)
    BY <1>1, <1>2, <1>4, <2>2 DEF ChangesOf, SwapsOf
  <2> HIDE DEF m, t
  <2>4. ActiveOf(l, R, t) = ActiveOf(l, Before(R, m), t) \cup ActiveOf(l, After(R, m), t)
    BY <2>3 DEF ActiveOf, ChangesOf, Before, After
  <2>5. ActiveOf(l, Before(R, m), t) \cap ActiveOf(l, After(R, m), t) = {}
    BY <2>3 DEF ActiveOf, ChangesOf, Before, After
  <2> QED BY <2>1, <2>4, <2>5 DEF m, t
<1> QED BY <1>3, <1>4

\* No swap is of a later block than the read: the price is the read's, and the
\* liquidity is the read's with what is carried where it is active.
LEMMA SoundReplaced ==
  ASSUME NEW l, History(l), NEW p, NEW n, NEW q, NEW T,
         Readable(l, p, n, q, T), \A j \in SwapsOf(l, T) : l[j].block <= n,
         NEW R, ReadOf(l, p, n, R), NEW r, Carries(l, n, q, r),
         NEW t, t = TickOf(l, R),
         \A c \in ActiveOf(l, r.applied, t) : l[c].trouble = "sum" => r.refused >= l[c].block,
         NEW fits, fits = {c \in ActiveOf(l, r.applied, t) : l[c].trouble # "sum"},
         NEW U, U = R \cup Since(l, T, n),
         NEW z \in Snapshot, z.tick = t, z.last = 0,
         z.liq = Plus(Plus(Zero, ActiveOf(l, R, t)), fits),
         z.ladder = LadderOf(l, U) \/ r.refused # 0
  PROVE  Sound(l, p, z, r, U)
<1> DEFINE N == Since(l, T, n)
           m == LastSwap(l, R)
           A == BaseOf(l, R)
           B == ActiveOf(l, After(R, m), t)
           C == ActiveOf(l, N, t)
<1>1. /\ Told(l, p, U) /\ AppliedRight(l, r, U)
      /\ T \subseteq 1..Len(l) /\ U \subseteq 1..Len(l) /\ R \subseteq 1..Len(l)
  <2>1. Told(l, p, U) /\ AppliedRight(l, r, U)
    BY ReadPositions
  <2> QED BY <2>1 DEF Told, ReadOf, Readable
<1>2. /\ n \in Nat /\ r \in Positions /\ r.read_at = n /\ r.refused \in Nat
      /\ Len(l) \in Nat /\ \A c \in 1..Len(l) : l[c].block \in Nat /\ c \in Nat /\ c > 0
  BY EntryShape DEF Entries, Readable, Carries, Positions
<1>3. \A j \in R : l[j].block <= n /\ j \in 1..Len(l)
  BY <1>1 DEF ReadOf
<1>4. \A j \in N : l[j].block > n /\ j \in 1..Len(l) /\ l[j].kind # "swap"
  <2>1. ASSUME NEW j \in N PROVE l[j].block > n /\ j \in 1..Len(l) /\ l[j].kind # "swap"
    <3>1. l[j].block > n /\ j \in 1..Len(l) /\ j \in T
      BY <1>1 DEF Since
    <3>2. l[j].kind = "swap" => l[j].block <= n
      BY <3>1 DEF SwapsOf
    <3> QED BY <1>2, <3>1, <3>2
  <2> QED BY <2>1
<1>5. SwapsOf(l, U) = SwapsOf(l, R)
  BY <1>4 DEF SwapsOf
<1>6. LastSwap(l, U) = m /\ TickOf(l, U) = t /\ BaseOf(l, U) = A
  BY <1>5, SameSwapsSay
<1>7. LastRight(l, z, r, U)
  <2>1. \A i \in SwapsOf(l, R) : l[i].block <= n
    BY <1>3 DEF SwapsOf
  <2> QED BY <1>2, <1>5, <2>1 DEF LastRight
<1>8. LiqRight(l, z, r, U)
  <2>1. CASE r.refused # 0
    BY <2>1 DEF LiqRight
  <2>2. CASE r.refused = 0
    <3>1. ChangesOf(l, N) = r.applied
      <4>1. r.applied \subseteq ChangesOf(l, N)
        BY DEF Carries, Since, Readable, AppliedRight, ChangesOf
      <4>2. ASSUME NEW c \in ChangesOf(l, N) PROVE c \in r.applied
        <5>1. c \in ChangesOf(l, T) /\ l[c].block > n
          BY DEF ChangesOf, Since
        <5> QED BY <2>2, <5>1, NotCarried
      <4> QED BY <4>1, <4>2
    <3>2. C = ActiveOf(l, r.applied, t)
      <4>1. ChangesOf(l, r.applied) = r.applied
        BY <3>1 DEF ChangesOf
      <4> QED BY <3>1, <4>1 DEF ActiveOf
    <3>3. fits = C
      <4>1. ASSUME NEW c \in C, l[c].trouble = "sum" PROVE FALSE
        <5>1. r.refused >= l[c].block
          BY <3>2, <4>1
        <5>2. c \in N
          BY DEF ActiveOf, ChangesOf
        <5> QED BY <1>2, <1>4, <2>2, <5>1, <5>2, FlagStands
      <4> QED BY <3>2, <4>1
    <3>4. ActiveOf(l, R, t) = A \cup B /\ A \cap B = {}
      BY ReadActive
    <3>5. m \in 0..Len(l) /\ (m # 0 => m \in R)
      <4>1. m \in 0..Len(l) /\ (m # 0 => m \in SwapsOf(l, R))
        BY <1>1, LastSwapOf
      <4> QED BY <4>1 DEF SwapsOf
    <3>6. \A j \in N : j > m
      <4>1. ASSUME NEW j \in N PROVE j > m
        <5>1. j \in 1..Len(l) /\ l[j].block > n
          BY <1>4
        <5>2. CASE m = 0
          BY <1>2, <5>1, <5>2
        <5>3. CASE m # 0
          <6>1. m \in 1..Len(l) /\ l[m].block <= n
            BY <1>3, <3>5, <5>3
          <6>2. l[m].block < l[j].block
            BY <1>2, <5>1, <6>1
          <6>3. m < j
            BY <5>1, <6>1, <6>2, LaterBlock
          <6> QED BY <1>2, <5>1, <6>1, <6>3
        <5> QED BY <5>2, <5>3
      <4> QED BY <4>1
    <3> HIDE DEF m, N
    <3>7. After(U, m) = After(R, m) \cup N
      BY <3>6 DEF After, N
    <3>8. ActiveOf(l, After(U, m), t) = B \cup C
      BY <3>7 DEF ActiveOf, ChangesOf
    <3>9. B \cap C = {}
      <4>1. ASSUME NEW c \in R, c \in N PROVE FALSE
        BY <1>2, <1>3, <1>4, <4>1
      <4> QED BY <4>1 DEF ActiveOf, ChangesOf, After
    <3>10. LiqOf(l, U) = Plus(Plus(Zero, A), B \cup C)
      BY <1>6, <3>8 DEF LiqOf
    <3> HIDE DEF A, B, C
    <3>11. Plus(Plus(Zero, A), B) = Plus(Zero, A \cup B)
      BY <3>4, ZeroType, PlusUnion
    <3>12. Plus(Zero, A) \in Count
      BY ZeroType, PlusType
    <3>13. Plus(Plus(Plus(Zero, A), B), C) = Plus(Plus(Zero, A), B \cup C)
      BY <3>9, <3>12, PlusUnion
    <3>14. z.liq = LiqOf(l, U)
      BY <3>3, <3>4, <3>10, <3>11, <3>13
    <3> QED BY <3>14 DEF LiqRight
  <2> QED BY <2>1, <2>2
<1> QED BY <1>1, <1>2, <1>6, <1>7, <1>8 DEF Sound


-----------------------------------------------------------------------------
(* One write of the book.                                                  *)

WriterSet ==
  [book : [Pool -> Snapshot \cup {Absent}], pos : [Pool -> Positions],
   told : [Pool -> SUBSET Id], unheard : [Pool -> SUBSET Id], ask : SUBSET Pool]

\* A write of one pool leaves the others alone.
OnlyPool(w, v, p) ==
  /\ v \in WriterSet /\ w.ask \subseteq v.ask
  /\ \A x \in Pool \ {p} : /\ v.book[x] = w.book[x] /\ v.pos[x] = w.pos[x]
                           /\ v.told[x] = w.told[x] /\ v.unheard[x] = w.unheard[x]

\* A removed pool is none of the snapshots.
LEMMA AbsentIsNone ==
  ASSUME NEW s \in Snapshot
  PROVE  s # Absent
<1>1. s.tick # 0
  BY Ticks DEF Snapshot
<1> QED BY <1>1 DEF Absent

\* A record of the writer's shape.
LEMMA WriterShape ==
  ASSUME NEW w \in WriterSet, NEW p \in Pool
  PROVE  /\ w = [book |-> w.book, pos |-> w.pos, told |-> w.told, unheard |-> w.unheard, ask |-> w.ask]
         /\ w.book[p] \in Snapshot \cup {Absent} /\ w.pos[p] \in Positions
         /\ w.told[p] \in SUBSET Id /\ w.unheard[p] \in SUBSET Id
BY DEF WriterSet

\* Refuse raises the pool's flag and asks for it.
Refused(w, v, p, b) ==
  /\ OnlyPool(w, v, p) /\ p \in v.ask
  /\ v.book = w.book /\ v.told = w.told /\ v.unheard = w.unheard
  /\ v.pos[p].applied = w.pos[p].applied /\ v.pos[p].read_at = w.pos[p].read_at
  /\ Raised(w.pos[p], v.pos[p], b)

LEMMA RefuseShape ==
  ASSUME History(log), NEW w \in WriterSet, NEW i \in 1..Len(log)
  PROVE  Refused(w, Refuse(w, i), log[i].pool, log[i].block)
<1> DEFINE p == log[i].pool
           b == log[i].block
           q == w.pos[p]
           r == [q EXCEPT !.refused = Max({@, b})]
           v == Refuse(w, i)
<1>1. p \in Pool /\ b \in Nat
  BY EntryShape DEF Entries, LogEntry
<1>2. q \in Positions
  BY <1>1, WriterShape
<1> HIDE DEF p, b
<1>3. Max({q.refused, b}) \in Nat /\ Max({q.refused, b}) >= q.refused /\ Max({q.refused, b}) >= b
  BY <1>1, <1>2, MaxOfTwo DEF Positions
<1>4. /\ r \in Positions /\ r.applied = q.applied /\ r.read_at = q.read_at
      /\ r.refused = Max({q.refused, b})
  BY <1>2, <1>3 DEF Positions
<1>5. v = [w EXCEPT !.pos = [w.pos EXCEPT ![p] = r], !.ask = @ \cup {p}]
  BY <1>1, <1>2 DEF Refuse, p, b, WriterSet
<1> HIDE DEF r, v
<1>6. /\ v.pos = [w.pos EXCEPT ![p] = r] /\ v.ask = w.ask \cup {p}
      /\ v.book = w.book /\ v.told = w.told /\ v.unheard = w.unheard
      /\ v \in WriterSet
  BY <1>1, <1>4, <1>5 DEF WriterSet
<1>7. v.pos[p] = r /\ \A x \in Pool \ {p} : v.pos[x] = w.pos[x]
  BY <1>1, <1>6 DEF WriterSet
<1>8. OnlyPool(w, v, p)
  BY <1>6, <1>7 DEF OnlyPool
<1>9. Refused(w, v, p, b)
  BY <1>3, <1>4, <1>6, <1>7, <1>8 DEF Refused, Raised
<1> QED BY <1>9 DEF v, p, b

\* SwapInto of a swap that is newer, of the state z and positions r it leaves.
Swapped(w, v, p, i) ==
  LET s == w.book[p]
      q == w.pos[p]
      z == v.book[p]
      r == v.pos[p]
  IN /\ OnlyPool(w, v, p) /\ v.told = w.told /\ v.unheard = w.unheard
     /\ z \in Snapshot /\ z.tick = log[i].tick /\ z.last = i /\ z.ladder = s.ladder
     /\ r.applied = q.applied /\ r.read_at = q.read_at /\ r.refused >= q.refused
     /\ \/ z.liq = Plus(Plus(Zero, log[i].counts), ActiveOf(log, After(q.applied, i), log[i].tick))
        \/ r.refused >= log[i].block
     /\ p \in v.ask \/ (r.refused = q.refused /\ z.tick = z.cover)

LEMMA SwapShape ==
  ASSUME History(log), NEW w \in WriterSet, NEW i \in 1..Len(log), log[i].kind = "swap",
         w.book[log[i].pool] \in Snapshot
  PROVE  IF Newer(log, w.book[log[i].pool], w.pos[log[i].pool], i)
         THEN Swapped(w, SwapInto(w, i), log[i].pool, i)
         ELSE SwapInto(w, i) = w
<1> DEFINE p == log[i].pool
           e == log[i]
           s == w.book[p]
           q == w.pos[p]
           later == ActiveAt({c \in w.pos[p].applied : c > i}, e.tick)
           fits == \A c \in later : log[c].trouble # "sum"
           liq == Plus(Plus(Zero, e.counts), IF fits THEN later ELSE {})
           z == [s EXCEPT !.tick = e.tick, !.last = i, !.liq = liq]
           next == [w EXCEPT !.book[p].tick = e.tick, !.book[p].last = i, !.book[p].liq = liq]
           askd == [next EXCEPT !.ask = @ \cup {p}]
           v == SwapInto(w, i)
<1>1. p \in Pool /\ e.block \in Nat /\ e.tick \in Tick /\ i \in Nat
  BY EntryShape DEF Entries, LogEntry
<1>2. s \in Snapshot /\ q \in Positions
  BY <1>1, WriterShape
<1>3. later = ActiveOf(log, After(q.applied, i), e.tick)
  BY DEF ActiveAt, Changes, ActiveOf, ChangesOf, After
<1>4. IsNewer(w, i) <=> Newer(log, s, q, i)
  BY DEF IsNewer, Newer
<1>5. v = IF ~IsNewer(w, i) THEN w
          ELSE IF ~fits THEN Refuse(next, i)
          ELSE IF e.tick = w.book[p].cover THEN next
          ELSE askd
  BY DEF SwapInto
<1>6. liq \in Count
  BY ZeroType, PlusType
<1> HIDE DEF later, fits, liq, v, p, e
<1>7. next = [w EXCEPT !.book = [w.book EXCEPT ![p] = z]]
  BY <1>1, <1>2 DEF WriterSet
<1>8. z \in Snapshot /\ z.tick = e.tick /\ z.last = i /\ z.liq = liq /\ z.ladder = s.ladder /\ z.cover = s.cover
  BY <1>1, <1>2, <1>6 DEF Snapshot
<1> HIDE DEF z, next
<1>9. /\ next.book = [w.book EXCEPT ![p] = z] /\ next.pos = w.pos /\ next.told = w.told
      /\ next.unheard = w.unheard /\ next.ask = w.ask
      /\ next \in WriterSet
  BY <1>1, <1>7, <1>8 DEF WriterSet
<1>10. next.book[p] = z /\ \A x \in Pool \ {p} : next.book[x] = w.book[x]
  BY <1>1, <1>9 DEF WriterSet
<1>11. OnlyPool(w, next, p)
  BY <1>9, <1>10 DEF OnlyPool
<1>12. CASE ~IsNewer(w, i)
  BY <1>4, <1>5, <1>12 DEF v, p, e
<1>13. CASE IsNewer(w, i) /\ ~fits
  <2>1. v = Refuse(next, i)
    BY <1>5, <1>13
  <2>2. Refused(next, v, p, e.block)
    BY <1>9, <2>1, RefuseShape DEF p, e
  <2>3. /\ OnlyPool(next, v, p) /\ p \in v.ask
        /\ v.book = next.book /\ v.told = next.told /\ v.unheard = next.unheard
        /\ v.pos[p].applied = q.applied /\ v.pos[p].read_at = q.read_at
        /\ v.pos[p].refused >= q.refused /\ v.pos[p].refused >= e.block
    BY <1>9, <2>2 DEF Refused, Raised
  <2>4. OnlyPool(w, v, p)
    BY <1>11, <2>3 DEF OnlyPool
  <2>5. Swapped(w, v, p, i)
    BY <1>8, <1>9, <1>10, <2>3, <2>4 DEF Swapped, e
  <2> QED BY <1>4, <1>13, <2>5 DEF v, p, e
<1>14. CASE IsNewer(w, i) /\ fits
  <2>1. liq = Plus(Plus(Zero, e.counts), ActiveOf(log, After(q.applied, i), e.tick))
    BY <1>3, <1>14 DEF liq
  <2>2. q.refused \in Nat
    BY <1>2 DEF Positions
  <2>9. q.refused >= q.refused
    BY <2>2
  <2>3. CASE e.tick = s.cover
    <3>1. v = next
      BY <1>5, <1>14, <2>3
    <3>3. v.book[p] = z /\ v.pos[p] = q /\ v.told = w.told /\ v.unheard = w.unheard /\ OnlyPool(w, v, p)
      BY <1>9, <1>10, <1>11, <3>1
    <3>4. z.tick = z.cover
      BY <1>8, <2>3
    <3> HIDE DEF s, q
    <3>2. Swapped(w, v, p, i)
      BY <1>8, <2>1, <2>9, <3>3, <3>4 DEF Swapped, e, s, q
    <3> QED BY <1>4, <1>14, <3>2 DEF v, p, e, s, q
  <2>4. CASE e.tick # s.cover
    <3>1. v = askd
      BY <1>5, <1>14, <2>4
    <3>2. /\ askd.book = next.book /\ askd.pos = next.pos /\ askd.told = next.told
          /\ askd.unheard = next.unheard /\ askd.ask = next.ask \cup {p} /\ askd \in WriterSet
      BY <1>1, <1>9 DEF WriterSet
    <3>3. OnlyPool(w, v, p)
      BY <1>9, <1>11, <3>1, <3>2 DEF OnlyPool
    <3>5. v.book[p] = z /\ v.pos[p] = q /\ v.told = w.told /\ v.unheard = w.unheard /\ p \in v.ask
      BY <1>9, <1>10, <3>1, <3>2
    <3> HIDE DEF s, q
    <3>4. Swapped(w, v, p, i)
      BY <1>8, <2>1, <2>9, <3>3, <3>5 DEF Swapped, e, s, q
    <3> QED BY <1>4, <1>14, <3>4 DEF v, p, e, s, q
  <2> QED BY <2>3, <2>4
<1> QED BY <1>12, <1>13, <1>14

\* LiquidityInto of a change that fits, of the state and positions it leaves.
Changed(w, v, p, i) ==
  LET s == w.book[p]
      q == w.pos[p]
      z == v.book[p]
      r == v.pos[p]
  IN /\ OnlyPool(w, v, p) /\ v.told = w.told /\ v.unheard = w.unheard
     /\ z \in Snapshot /\ z.tick = s.tick /\ z.last = s.last /\ z.cover = s.cover
     /\ z.ladder = Plus(s.ladder, {i})
     /\ z.liq = IF (s.last = 0 \/ i > s.last) /\ s.tick \in log[i].active THEN Plus(s.liq, {i}) ELSE s.liq
     /\ r.applied = q.applied \cup {i} /\ r.read_at = q.read_at /\ r.refused = q.refused

\* Two fields of a pool's snapshot and one of its position, written in one step.
Laid(w, p, a, b, c) == [w EXCEPT !.book[p].ladder = a, !.book[p].liq = b, !.pos[p].applied = c]
LaidOn(s, a, b) == [s EXCEPT !.ladder = a, !.liq = b]
AppliedOn(q, c) == [q EXCEPT !.applied = c]
PutBack(w, p, z, r) == [w EXCEPT !.book = [w.book EXCEPT ![p] = z], !.pos = [w.pos EXCEPT ![p] = r]]

LEMMA LaidIs ==
  ASSUME NEW w \in WriterSet, NEW p \in Pool, NEW s \in Snapshot, s = w.book[p],
         NEW q \in Positions, q = w.pos[p], NEW a, NEW b, NEW c
  PROVE  Laid(w, p, a, b, c) = PutBack(w, p, LaidOn(s, a, b), AppliedOn(q, c))
<1> DEFINE f == w.book
           g == w.pos
           m == [f EXCEPT ![p].ladder = a, ![p].liq = b]
           n == [g EXCEPT ![p].applied = c]
<1>1. f \in [Pool -> Snapshot \cup {Absent}] /\ g \in [Pool -> Positions] /\ s = f[p] /\ q = g[p]
  BY DEF WriterSet
<1>2. Laid(w, p, a, b, c) = [w EXCEPT !.book = m, !.pos = n]
  BY DEF Laid, WriterSet
<1> HIDE DEF f, g
<1>3. m = [f EXCEPT ![p] = LaidOn(s, a, b)]
  BY <1>1 DEF LaidOn
<1>4. n = [g EXCEPT ![p] = AppliedOn(q, c)]
  BY <1>1 DEF AppliedOn
<1> HIDE DEF m, n
<1> QED BY <1>2, <1>3, <1>4 DEF f, g, PutBack

LEMMA LiquidityShape ==
  ASSUME History(log), NEW w \in WriterSet, NEW i \in 1..Len(log),
         w.book[log[i].pool] \in Snapshot,
         ~(log[i].block <= w.pos[log[i].pool].read_at \/ i \in w.pos[log[i].pool].applied),
         log[i].trouble # "place"
  PROVE  Changed(w, LiquidityInto(w, i), log[i].pool, i)
<1> DEFINE p == log[i].pool
           s == w.book[p]
           q == w.pos[p]
           moves == (s.last = 0 \/ i > s.last) /\ s.tick \in log[i].active
           lad == Plus(s.ladder, {i})
           liq == IF moves THEN Plus(s.liq, {i}) ELSE s.liq
           z == [s EXCEPT !.ladder = lad, !.liq = liq]
           r == [q EXCEPT !.applied = @ \cup {i}]
           v == LiquidityInto(w, i)
<1>1. p \in Pool /\ i \in Id
  BY EntryShape DEF Entries, LogEntry
<1>2. s \in Snapshot /\ q \in Positions
  BY <1>1, WriterShape
<1>3. v = [w EXCEPT !.book[p].ladder = Plus(@, {i}), !.book[p].liq = IF moves THEN Plus(@, {i}) ELSE @,
                    !.pos[p].applied = @ \cup {i}]
  BY DEF LiquidityInto
<1>0. v = [w EXCEPT !.book[p].ladder = lad, !.book[p].liq = liq, !.pos[p].applied = q.applied \cup {i}]
  BY <1>1, <1>2, <1>3 DEF WriterSet
<1> HIDE DEF moves, v, p
<1>4. lad \in Count /\ liq \in Count
  <2>1. s.ladder \in Count /\ s.liq \in Count
    BY <1>2 DEF Snapshot
  <2> QED BY <2>1, PlusType
<1>5. v = [w EXCEPT !.book = [w.book EXCEPT ![p] = z], !.pos = [w.pos EXCEPT ![p] = r]]
  <2> HIDE DEF s, q, lad, liq
  <2>1. s = w.book[p] /\ q = w.pos[p]
    BY DEF s, q
  <2> DEFINE c == q.applied \cup {i}
  <2>2. v = Laid(w, p, lad, liq, c)
    BY <1>0 DEF Laid
  <2>3. z = LaidOn(s, lad, liq) /\ r = AppliedOn(q, c)
    BY DEF LaidOn, AppliedOn
  <2> HIDE DEF c, z, r
  <2>4. v = PutBack(w, p, LaidOn(s, lad, liq), AppliedOn(q, c))
    BY <1>1, <1>2, <2>1, <2>2, LaidIs
  <2>5. v = PutBack(w, p, z, r)
    BY <2>3, <2>4
  <2> QED BY <2>5 DEF PutBack
<1> HIDE DEF lad, liq
<1>6. /\ z \in Snapshot /\ z.tick = s.tick /\ z.last = s.last /\ z.cover = s.cover
      /\ z.ladder = lad /\ z.liq = liq
  <2> HIDE DEF s
  <2>1. z = [s EXCEPT !.ladder = lad, !.liq = liq]
    OBVIOUS
  <2>2. s \in [tick : Tick, liq : Count, ladder : Count, cover : Tick, last : Nat]
    BY <1>2 DEF Snapshot
  <2> HIDE DEF z, Count
  <2> QED BY <1>4, <2>1, <2>2 DEF Snapshot
<1>7. r \in Positions /\ r.applied = q.applied \cup {i} /\ r.read_at = q.read_at /\ r.refused = q.refused
  BY <1>1, <1>2 DEF Positions
<1> HIDE DEF z, r
<1>8. /\ v.book = [w.book EXCEPT ![p] = z] /\ v.pos = [w.pos EXCEPT ![p] = r]
      /\ v.told = w.told /\ v.unheard = w.unheard /\ v.ask = w.ask /\ v \in WriterSet
  BY <1>1, <1>5, <1>6, <1>7 DEF WriterSet
<1>9. v.book[p] = z /\ v.pos[p] = r /\ \A x \in Pool \ {p} : v.book[x] = w.book[x] /\ v.pos[x] = w.pos[x]
  BY <1>1, <1>8 DEF WriterSet
<1>10. OnlyPool(w, v, p)
  BY <1>8, <1>9 DEF OnlyPool
<1> HIDE DEF s, q
<1>11. Changed(w, v, p, i)
  BY <1>6, <1>7, <1>8, <1>9, <1>10 DEF Changed, lad, liq, moves, s, q
<1> QED BY <1>11 DEF v, p

\* A pool that is flagged or off its ladder.
Flagged(w, p) == w.book[p] # Absent /\ (w.pos[p].refused # 0 \/ OffLadder(w.book[p]))

\* What one log leaves of its pool, if the book holds it: a state sound for
\* what it was told of, that log too unless the read held it, and a request
\* for the pool if that flagged it.
Heard(w, p, i) == IF log[i].block > w.pos[p].read_at THEN w.told[p] \cup {i} ELSE w.told[p]

Wrote(w, v, p, i) ==
  /\ OnlyPool(w, v, p) /\ v.unheard = w.unheard
  /\ Sound(log, p, v.book[p], v.pos[p], v.told[p])
  /\ v.pos[p].read_at = w.pos[p].read_at /\ v.told[p] = Heard(w, p, i)
  /\ Flagged(v, p) => p \in v.ask \/ Flagged(w, p)

\* The writer that has heard of the log.
Hears(w, h, p, i) ==
  /\ h \in WriterSet /\ h.book = w.book /\ h.pos = w.pos /\ h.unheard = w.unheard /\ h.ask = w.ask
  /\ h.told[p] = Heard(w, p, i) /\ \A x \in Pool \ {p} : h.told[x] = w.told[x]

LEMMA HearsShape ==
  ASSUME History(log), NEW w \in WriterSet, NEW i \in 1..Len(log)
  PROVE  Hears(w, [w EXCEPT !.told[log[i].pool] =
                     IF log[i].block > w.pos[log[i].pool].read_at THEN @ \cup {i} ELSE @], log[i].pool, i)
<1> DEFINE p == log[i].pool
           T == w.told[p]
           U == Heard(w, p, i)
           h == [w EXCEPT !.told[p] = IF log[i].block > w.pos[p].read_at THEN @ \cup {i} ELSE @]
<1>1. p \in Pool /\ i \in Id
  BY EntryShape DEF Entries, LogEntry
<1>2. T \in SUBSET Id
  BY <1>1, WriterShape
<1>3. h = [w EXCEPT !.told = [w.told EXCEPT ![p] = U]]
  BY <1>1, <1>2 DEF WriterSet, Heard
<1>4. U \in SUBSET Id
  BY <1>1, <1>2 DEF Heard
<1> HIDE DEF h, p, U
<1>5. /\ h.told = [w.told EXCEPT ![p] = U] /\ h \in WriterSet
      /\ h.book = w.book /\ h.pos = w.pos /\ h.unheard = w.unheard /\ h.ask = w.ask
  BY <1>1, <1>3, <1>4 DEF WriterSet
<1>6. h.told[p] = U /\ \A x \in Pool \ {p} : h.told[x] = w.told[x]
  BY <1>1, <1>5 DEF WriterSet
<1>7. Hears(w, h, p, i)
  BY <1>5, <1>6 DEF Hears, U
<1> QED BY <1>7 DEF h, p

\* From the writer that has heard to what the write leaves.
LEMMA WroteFrom ==
  ASSUME NEW w \in WriterSet, NEW p \in Pool, NEW i, NEW h, Hears(w, h, p, i),
         NEW v, OnlyPool(h, v, p), v.unheard = h.unheard, v.told = h.told,
         v.pos[p].read_at = h.pos[p].read_at,
         Sound(log, p, v.book[p], v.pos[p], Heard(w, p, i)),
         Flagged(v, p) => p \in v.ask \/ Flagged(w, p)
  PROVE  Wrote(w, v, p, i)
<1>1. OnlyPool(w, v, p)
  BY DEF OnlyPool, Hears
<1>2. v.told[p] = Heard(w, p, i) /\ v.unheard = w.unheard /\ v.pos[p].read_at = w.pos[p].read_at
  BY DEF Hears
<1> QED BY <1>1, <1>2 DEF Wrote

\* A writer alike is Flagged alike.
LEMMA HearsSame ==
  ASSUME NEW w \in WriterSet, NEW p \in Pool, NEW i, NEW h, Hears(w, h, p, i)
  PROVE  /\ h \in WriterSet /\ h.book[p] = w.book[p] /\ h.pos[p] = w.pos[p]
         /\ OnlyPool(h, h, p) /\ (Flagged(h, p) <=> Flagged(w, p))
BY DEF Hears, OnlyPool, Flagged

LEMMA WroteSwap ==
  ASSUME History(log), NEW w \in WriterSet, NEW i \in 1..Len(log), log[i].kind = "swap",
         NEW p, p = log[i].pool, w.book[p] \in Snapshot,
         Sound(log, p, w.book[p], w.pos[p], w.told[p]), NEW h, Hears(w, h, p, i)
  PROVE  Wrote(w, SwapInto(h, i), p, i)
<1> DEFINE s == w.book[p]
           q == w.pos[p]
           T == w.told[p]
           U == Heard(w, p, i)
           v == SwapInto(h, i)
<1>1. p \in Pool /\ i \in Nat /\ log[i].block \in Nat
  BY EntryShape DEF Entries, LogEntry
<1>2. h \in WriterSet /\ h.book[p] = s /\ h.pos[p] = q /\ OnlyPool(h, h, p) /\ (Flagged(h, p) <=> Flagged(w, p))
  BY <1>1, HearsSame
<1>3. s \in Snapshot /\ q \in Positions /\ T \subseteq Id
  BY <1>1, WriterShape
<1>4. IF Newer(log, s, q, i) THEN Swapped(h, v, p, i) ELSE v = h
  BY <1>2, <1>3, SwapShape
<1> HIDE DEF v
<1>5. CASE Newer(log, s, q, i)
  <2>1. Swapped(h, v, p, i)
    BY <1>4, <1>5
  <2> DEFINE z == v.book[p]
             r == v.pos[p]
  <2>2. /\ OnlyPool(h, v, p) /\ v.told = h.told /\ v.unheard = h.unheard
        /\ z \in Snapshot /\ z.tick = log[i].tick /\ z.last = i /\ z.ladder = s.ladder
        /\ r.applied = q.applied /\ r.read_at = q.read_at /\ r.refused >= q.refused
        /\ \/ z.liq = Plus(Plus(Zero, log[i].counts), ActiveOf(log, After(q.applied, i), log[i].tick))
           \/ r.refused >= log[i].block
        /\ p \in v.ask \/ (r.refused = q.refused /\ z.tick = z.cover)
    BY <1>2, <2>1 DEF Swapped
  <2>3. r \in Positions
    BY <1>1, <2>2, WriterShape DEF OnlyPool
  <2>4. log[i].block > q.read_at
    BY <1>5, NewerIsLast
  <2>5. U = T \cup {i}
    BY <2>4 DEF Heard
  <2> HIDE DEF U
  <2>6. Sound(log, p, z, r, U)
    <3>1. Sound(log, p, s, q, T) /\ Newer(log, s, q, i) /\ log[i].pool = p /\ log[i].kind = "swap"
      BY <1>5
    <3>2. /\ z \in Snapshot /\ z.tick = log[i].tick /\ z.last = i /\ z.ladder = s.ladder
          /\ r \in Positions /\ r.applied = q.applied /\ r.read_at = q.read_at /\ r.refused >= q.refused
      BY <2>2, <2>3
    <3>3. \/ z.liq = Plus(Plus(Zero, log[i].counts), ActiveOf(log, After(q.applied, i), log[i].tick))
          \/ r.refused >= log[i].block
      BY <2>2
    <3> HIDE DEF z, r, s, q, T
    <3> QED BY <2>5, <3>1, <3>2, <3>3, SoundSwap
  <2>7. Flagged(v, p) => p \in v.ask \/ Flagged(w, p)
    <3>1. s # Absent
      BY <1>3, AbsentIsNone
    <3>2. p \in v.ask \/ (r.refused = q.refused /\ z.tick = z.cover)
      BY <2>2
    <3>3. Flagged(v, p) => r.refused # 0 \/ z.tick # z.cover
      BY DEF Flagged, OffLadder
    <3>4. q.refused # 0 => Flagged(w, p)
      BY <3>1 DEF Flagged
    <3> QED BY <3>2, <3>3, <3>4
  <2> QED BY <1>1, <1>2, <2>2, <2>6, <2>7, WroteFrom DEF U, v
<1>6. CASE ~Newer(log, s, q, i)
  <2>1. v = h
    BY <1>4, <1>6
  <2>2. CASE log[i].block > q.read_at
    <3>1. U = T \cup {i}
      BY <2>2 DEF Heard
    <3> HIDE DEF U
    <3>2. Sound(log, p, s, q, U)
      BY <1>6, <2>2, <3>1, SoundOldSwap
    <3> QED BY <1>1, <1>2, <2>1, <3>2, WroteFrom DEF U, v
  <2>3. CASE ~(log[i].block > q.read_at)
    <3>1. U = T
      BY <2>3 DEF Heard
    <3> QED BY <1>1, <1>2, <2>1, <3>1, WroteFrom DEF v
  <2> QED BY <2>2, <2>3
<1> QED BY <1>5, <1>6

LEMMA WroteChange ==
  ASSUME History(log), NEW w \in WriterSet, NEW i \in 1..Len(log), log[i].kind = "change",
         NEW p, p = log[i].pool, w.book[p] \in Snapshot,
         Sound(log, p, w.book[p], w.pos[p], w.told[p]), NEW h, Hears(w, h, p, i)
  PROVE  Wrote(w, LiquidityInto(h, i), p, i)
<1> DEFINE s == w.book[p]
           q == w.pos[p]
           T == w.told[p]
           U == Heard(w, p, i)
           v == LiquidityInto(h, i)
           skips == log[i].block <= q.read_at \/ i \in q.applied
<1>1. p \in Pool /\ i \in Nat /\ log[i].block \in Nat
  BY EntryShape DEF Entries, LogEntry
<1>2. h \in WriterSet /\ h.book[p] = s /\ h.pos[p] = q /\ OnlyPool(h, h, p) /\ (Flagged(h, p) <=> Flagged(w, p))
  BY <1>1, HearsSame
<1>3. s \in Snapshot /\ q \in Positions /\ T \subseteq Id /\ q.read_at \in Nat
  BY <1>1, WriterShape DEF Positions
<1>4. v = IF skips THEN h ELSE IF log[i].trouble = "place" THEN Refuse(h, i) ELSE v
  BY <1>2 DEF LiquidityInto
<1>5. CASE skips
  <2>1. v = h
    BY <1>4, <1>5
  <2>2. i \in q.applied => i \in T
    BY DEF Sound, AppliedRight, ChangesOf
  <2>4. log[i].block <= q.read_at => ~(log[i].block > q.read_at)
    BY <1>1, <1>3
  <2>5. i \in T => T \cup {i} = T
    OBVIOUS
  <2>3. U = T
    BY <1>5, <2>2, <2>4, <2>5 DEF Heard
  <2> HIDE DEF U, v
  <2> QED BY <1>1, <1>2, <2>1, <2>3, WroteFrom DEF U, v
<1>6. CASE ~skips
  <2>1. U = T \cup {i}
    BY <1>1, <1>3, <1>6 DEF Heard
  <2>2. log[i].block > q.read_at
    BY <1>1, <1>3, <1>6
  <2> HIDE DEF U
  <2>3. CASE log[i].trouble = "place"
    <3>1. v = Refuse(h, i)
      BY <1>4, <1>6, <2>3
    <3> HIDE DEF v
    <3>2. Refused(h, v, p, log[i].block)
      BY <1>2, <3>1, RefuseShape
    <3> DEFINE r == v.pos[p]
    <3>3. /\ OnlyPool(h, v, p) /\ p \in v.ask
          /\ v.book = h.book /\ v.told = h.told /\ v.unheard = h.unheard
          /\ r.applied = q.applied /\ r.read_at = q.read_at /\ Raised(q, r, log[i].block)
      BY <1>2, <3>2 DEF Refused
    <3>4. r \in Positions
      BY <1>1, <3>3, WriterShape DEF OnlyPool
    <3>5. Sound(log, p, s, r, U)
      BY <2>1, <2>3, <3>3, <3>4, SoundRefused
    <3>6. v.book[p] = s
      BY <1>2, <3>3
    <3> QED BY <1>1, <1>2, <3>3, <3>5, <3>6, WroteFrom DEF U, v
  <2>4. CASE log[i].trouble # "place"
    <3>1. Changed(h, v, p, i)
      BY <1>2, <1>3, <1>6, <2>4, LiquidityShape
    <3> HIDE DEF v
    <3> DEFINE z == v.book[p]
               r == v.pos[p]
    <3>2. /\ OnlyPool(h, v, p) /\ v.told = h.told /\ v.unheard = h.unheard
          /\ z \in Snapshot /\ z.tick = s.tick /\ z.last = s.last /\ z.cover = s.cover
          /\ z.ladder = Plus(s.ladder, {i})
          /\ z.liq = IF (s.last = 0 \/ i > s.last) /\ s.tick \in log[i].active THEN Plus(s.liq, {i}) ELSE s.liq
          /\ r.applied = q.applied \cup {i} /\ r.read_at = q.read_at /\ r.refused = q.refused
      BY <1>2, <3>1 DEF Changed
    <3>3. r \in Positions
      BY <1>1, <3>2, WriterShape DEF OnlyPool
    <3>6. i \notin q.applied /\ log[i].pool = p /\ log[i].kind = "change" /\ Sound(log, p, s, q, T)
      BY <1>6
    <3>4. Sound(log, p, z, r, U)
      <4> HIDE DEF s, q, T, z, r, skips
      <4> QED BY <2>1, <2>2, <2>4, <3>2, <3>3, <3>6, SoundChange
    <3>5. Flagged(v, p) => Flagged(w, p)
      <4>1. s # Absent
        BY <1>3, AbsentIsNone
      <4> QED BY <3>2, <4>1 DEF Flagged, OffLadder
    <3> QED BY <1>1, <1>2, <3>2, <3>4, <3>5, WroteFrom DEF U, v
  <2> QED BY <2>3, <2>4
<1> QED BY <1>5, <1>6

\* A pool of the book is sound, or removed with its positions.
Good(w, x) ==
  IF w.book[x] = Absent THEN w.pos[x] = NoPositions /\ w.told[x] = {}
  ELSE Sound(log, x, w.book[x], w.pos[x], w.told[x])

GoodWriter(w) == w \in WriterSet /\ \A x \in Pool : Good(w, x)

\* What writes keep of a pool: they read and remove nothing, forget nothing, and
\* ask for what they flag.
KeepsPool(w, v, x) ==
  /\ v.book[x] = Absent <=> w.book[x] = Absent
  /\ v.pos[x].read_at = w.pos[x].read_at
  /\ w.told[x] \subseteq v.told[x] /\ w.unheard[x] \subseteq v.unheard[x]
  /\ Flagged(v, x) => x \in v.ask \/ Flagged(w, x)

Keeps(w, v) == w.ask \subseteq v.ask /\ \A x \in Pool : KeepsPool(w, v, x)

\* A log is taken: into what its pool was told of, unless a read held it.
Takes(w, i) ==
  IF w.book[log[i].pool] = Absent THEN i \in w.unheard[log[i].pool]
  ELSE log[i].block > w.pos[log[i].pool].read_at => i \in w.told[log[i].pool]

\* What a write of one pool leaves alone is kept.
LEMMA OthersKept ==
  ASSUME NEW w, GoodWriter(w), NEW p, NEW v, OnlyPool(w, v, p), NEW x \in Pool, x # p
  PROVE  Good(v, x) /\ KeepsPool(w, v, x)
<1>1. v.book[x] = w.book[x] /\ v.pos[x] = w.pos[x] /\ v.told[x] = w.told[x] /\ v.unheard[x] = w.unheard[x]
  BY DEF OnlyPool
<1>2. Good(w, x)
  BY DEF GoodWriter
<1> QED BY <1>1, <1>2 DEF Good, KeepsPool, Flagged

LEMMA KeepsOthers ==
  ASSUME NEW w, GoodWriter(w), NEW p \in Pool, NEW v, OnlyPool(w, v, p), Good(v, p), KeepsPool(w, v, p)
  PROVE  GoodWriter(v) /\ Keeps(w, v)
<1>1. ASSUME NEW x \in Pool PROVE Good(v, x) /\ KeepsPool(w, v, x)
  BY <1>1, OthersKept
<1> QED BY <1>1 DEF GoodWriter, Keeps, OnlyPool

\* One log of a burst.
Hearing == [id : 1..Len(log), pending : BOOLEAN]

LEMMA WriteKeeps ==
  ASSUME History(log), NEW w, GoodWriter(w), NEW h \in Hearing
  PROVE  /\ GoodWriter(ApplyWrite(w, h)) /\ Keeps(w, ApplyWrite(w, h))
         /\ Takes(ApplyWrite(w, h), h.id)
<1> DEFINE i == h.id
           p == log[i].pool
           v == ApplyWrite(w, h)
           heard == [w EXCEPT !.told[p] = IF log[i].block > w.pos[p].read_at THEN @ \cup {i} ELSE @]
<1>1. i \in 1..Len(log) /\ i \in Id /\ p \in Pool /\ log[i].kind \in {"swap", "change"}
  <2>1. i \in 1..Len(log)
    BY DEF Hearing
  <2> QED BY <2>1, EntryShape DEF Entries, LogEntry
<1>2. w \in WriterSet /\ Good(w, p)
  BY <1>1 DEF GoodWriter
<1>3. v = IF w.book[p] = Absent THEN [w EXCEPT !.unheard[p] = @ \cup {i}]
          ELSE IF log[i].kind = "swap" THEN SwapInto(heard, i) ELSE LiquidityInto(heard, i)
  BY DEF ApplyWrite
<1> HIDE DEF i, v
<1>4. CASE w.book[p] = Absent
  <2> DEFINE U == w.unheard[p] \cup {i}
  <2>1. w.unheard[p] \in SUBSET Id
    BY <1>1, <1>2, WriterShape
  <2>2. v = [w EXCEPT !.unheard = [w.unheard EXCEPT ![p] = U]]
    BY <1>1, <1>2, <1>3, <1>4 DEF WriterSet
  <2>3. U \in SUBSET Id
    BY <1>1, <2>1
  <2> HIDE DEF p, U
  <2>4. /\ v.unheard = [w.unheard EXCEPT ![p] = U] /\ v \in WriterSet
        /\ v.book = w.book /\ v.pos = w.pos /\ v.told = w.told /\ v.ask = w.ask
    BY <1>1, <1>2, <2>2, <2>3 DEF WriterSet
  <2>5. v.unheard[p] = U /\ \A x \in Pool \ {p} : v.unheard[x] = w.unheard[x]
    BY <1>1, <1>2, <2>4 DEF WriterSet
  <2>6. OnlyPool(w, v, p)
    BY <2>4, <2>5 DEF OnlyPool
  <2>7. Good(v, p) /\ KeepsPool(w, v, p)
    BY <1>2, <1>4, <2>4, <2>5 DEF Good, KeepsPool, Flagged, U
  <2>8. GoodWriter(v) /\ Keeps(w, v)
    BY <1>1, <2>6, <2>7, KeepsOthers
  <2>9. i \in v.unheard[p] /\ v.book[p] = Absent
    BY <1>4, <2>4, <2>5 DEF U
  <2> QED BY <2>8, <2>9 DEF Takes, v, i, p
<1>5. CASE w.book[p] # Absent
  <2>1. Sound(log, p, w.book[p], w.pos[p], w.told[p]) /\ w.book[p] \in Snapshot
    BY <1>2, <1>5 DEF Good, Sound
  <2>2. Hears(w, heard, p, i)
    BY <1>1, <1>2, HearsShape
  <2>3. v = IF log[i].kind = "swap" THEN SwapInto(heard, i) ELSE LiquidityInto(heard, i)
    BY <1>3, <1>5
  <2> HIDE DEF heard
  <2>4. Wrote(w, v, p, i)
    <3>1. CASE log[i].kind = "swap"
      BY <1>1, <1>2, <2>1, <2>2, <2>3, <3>1, WroteSwap
    <3>2. CASE log[i].kind = "change"
      BY <1>1, <1>2, <2>1, <2>2, <2>3, <3>2, WroteChange
    <3> QED BY <1>1, <3>1, <3>2
  <2>5. /\ OnlyPool(w, v, p) /\ v.unheard = w.unheard
        /\ Sound(log, p, v.book[p], v.pos[p], v.told[p])
        /\ v.pos[p].read_at = w.pos[p].read_at /\ v.told[p] = Heard(w, p, i)
        /\ (Flagged(v, p) => p \in v.ask \/ Flagged(w, p))
    BY <2>4 DEF Wrote
  <2>6. v.book[p] # Absent
    BY <2>5, AbsentIsNone DEF Sound
  <2>7. Good(v, p) /\ KeepsPool(w, v, p)
    BY <1>5, <2>5, <2>6 DEF Good, KeepsPool, Heard
  <2>8. GoodWriter(v) /\ Keeps(w, v)
    BY <1>1, <2>5, <2>7, KeepsOthers
  <2>9. log[i].block > v.pos[p].read_at => i \in v.told[p]
    BY <2>5 DEF Heard
  <2> QED BY <2>6, <2>8, <2>9 DEF Takes, v, i
<1> QED BY <1>4, <1>5

\* Write after write.
LEMMA KeepsThrough ==
  ASSUME NEW u, NEW w, NEW v, Keeps(u, w), Keeps(w, v)
  PROVE  Keeps(u, v)
<1>1. ASSUME NEW x \in Pool PROVE KeepsPool(u, v, x)
  <2>1. KeepsPool(u, w, x) /\ KeepsPool(w, v, x) /\ w.ask \subseteq v.ask
    BY DEF Keeps
  <2> QED BY <2>1 DEF KeepsPool
<1> QED BY <1>1 DEF Keeps

LEMMA TakesStays ==
  ASSUME NEW w, NEW v, Keeps(w, v), NEW i, log[i].pool \in Pool, Takes(w, i)
  PROVE  Takes(v, i)
<1>1. KeepsPool(w, v, log[i].pool)
  BY DEF Keeps
<1> QED BY <1>1 DEF KeepsPool, Takes

-----------------------------------------------------------------------------
(* A burst.                                                                *)

Writers == {w \in WriterSet : \A x \in Pool : Good(w, x)}

WriteStep == [x \in Writers \X Hearing |-> ApplyWrite(x[1], x[2])]

LEMMA WriteStepShape ==
  ASSUME History(log)
  PROVE  WriteStep \in [Writers \X Hearing -> Writers]
<1>1. ASSUME NEW w \in Writers, NEW h \in Hearing PROVE ApplyWrite(w, h) \in Writers
  <2>1. GoodWriter(w)
    BY DEF Writers, GoodWriter
  <2>2. GoodWriter(ApplyWrite(w, h))
    BY <2>1, WriteKeeps
  <2> QED BY <2>2 DEF Writers, GoodWriter
<1> QED BY <1>1 DEF WriteStep

WriteIter(b) ==
  CHOOSE it : it = [s \in SUBSET DOMAIN b |->
                      IF s = {} THEN Writer ELSE ApplyWrite(it[s \ {Max(s)}], b[Max(s)])]

\* By definition of the folds.
LEMMA WritesByIter == \A b : ApplyWrites(b) = WriteIter(b)[DOMAIN b]
BY DEF ApplyWrites, FoldLeft, MapThenFoldSet, WriteIter

\* A burst is the end of a fold of WriteStep.
LEMMA WritesAreFold ==
  ASSUME History(log), GoodWriter(Writer), NEW b \in Seq(Hearing)
  PROVE  \E it : IsFold(it, Writer, WriteStep, b) /\ ApplyWrites(b) = it[1..Len(b)]
<1> DEFINE n == Len(b)
           P == SUBSET (1..n)
           Next1(f, s) == IF s = {} THEN Writer ELSE ApplyWrite(f[s \ {Max(s)}], b[Max(s)])
<1>1. n \in Nat /\ DOMAIN b = 1..n /\ \A i \in 1..n : b[i] \in Hearing
  OBVIOUS
<1>2. WriteStep \in [Writers \X Hearing -> Writers] /\ Writer \in Writers
  BY WriteStepShape DEF Writers, GoodWriter
<1>3. PICK it \in [P -> Writers] : IsFold(it, Writer, WriteStep, b)
  <2> HIDE DEF WriteStep, Writers
  <2> QED BY <1>2, FoldExists
<1>4. it = [s \in P |-> Next1(it, s)]
  <2>1. ASSUME NEW s \in P PROVE it[s] = Next1(it, s)
    <3>1. CASE s = {}
      BY <1>3, <3>1 DEF IsFold
    <3>2. CASE s # {}
      <4>1. Max(s) \in s
        BY <1>1, <3>2, MaxOfPlaces
      <4>2. s \ {Max(s)} \in P /\ b[Max(s)] \in Hearing
        BY <1>1, <4>1
      <4>3. it[s \ {Max(s)}] \in Writers
        BY <1>3, <4>2
      <4>4. it[s] = WriteStep[<<it[s \ {Max(s)}], b[Max(s)]>>]
        BY <1>3, <3>2 DEF IsFold
      <4>5. WriteStep[<<it[s \ {Max(s)}], b[Max(s)]>>] = ApplyWrite(it[s \ {Max(s)}], b[Max(s)])
        BY <4>2, <4>3 DEF WriteStep
      <4> QED BY <3>2, <4>4, <4>5
    <3> QED BY <3>1, <3>2
  <2>2. it = [s \in P |-> it[s]]
    BY <1>3
  <2> HIDE DEF Next1
  <2> QED BY <2>1, <2>2
<1> DEFINE jt == WriteIter(b)
<1>5. jt = [s \in P |-> Next1(jt, s)]
  BY <1>1, <1>4 DEF WriteIter
<1> DEFINE G == {i \in 0..n : it[1..i] = jt[1..i]}
<1> HIDE DEF n, jt
<1>6. 0 \in G
  <2>1. 1..0 = {} /\ {} \in P
    OBVIOUS
  <2>2. it[{}] = Writer /\ jt[{}] = Writer
    BY <1>4, <1>5, <2>1
  <2> QED BY <1>1, <2>1, <2>2
<1>7. ASSUME NEW i \in 0..(n - 1), i \in G PROVE i + 1 \in G
  <2> DEFINE I == 1..(i + 1)
  <2>1. i \in Nat /\ i + 1 \in 0..n /\ i + 1 \in Nat /\ I \in P
    BY <1>1
  <2>2. I # {} /\ I \ {i + 1} = 1..i /\ i + 1 \in I
    BY <2>1, IntervalEnd
  <2>3. Max(I) = i + 1
    <3>1. I \subseteq 1..(i + 1)
      OBVIOUS
    <3> HIDE DEF I
    <3> QED BY <2>1, <2>2, <3>1, MaxOfInterval
  <2> HIDE DEF I, Next1
  <2>4. it[I] = Next1(it, I) /\ jt[I] = Next1(jt, I)
    BY <1>4, <1>5, <2>1
  <2>5. it[I] = ApplyWrite(it[1..i], b[i + 1]) /\ jt[I] = ApplyWrite(jt[1..i], b[i + 1])
    BY <2>2, <2>3, <2>4 DEF Next1
  <2>6. it[I] = jt[I]
    BY <1>7, <2>5
  <2> QED BY <2>1, <2>6 DEF I
<1>8. n \in G
  <2>1. \A i \in 0..(n - 1) : i \in G => i + 1 \in G
    <3> HIDE DEF G
    <3> QED BY <1>7
  <2> HIDE DEF G
  <2>2. \A i \in 0..n : i \in G
    BY <1>1, <1>6, <2>1, InductionTo
  <2> QED BY <1>1, <2>2
<1>9. ApplyWrites(b) = jt[1..n]
  BY <1>1, WritesByIter DEF jt
<1> QED BY <1>3, <1>8, <1>9 DEF n

\* What a burst leaves: all of its logs taken.
Taken(w, b) == \A k \in 1..Len(b) : Takes(w, b[k].id)

LEMMA BurstKeeps ==
  ASSUME History(log), GoodWriter(Writer), NEW b \in Seq(Hearing)
  PROVE  /\ GoodWriter(ApplyWrites(b)) /\ Keeps(Writer, ApplyWrites(b))
         /\ Taken(ApplyWrites(b), b)
<1> DEFINE TakenTo(w, n) == \A k \in 1..n : Takes(w, b[k].id)
           S == [n \in Nat |-> {w \in Writers : Keeps(Writer, w) /\ TakenTo(w, n)}]
<1>1. PICK it : IsFold(it, Writer, WriteStep, b) /\ ApplyWrites(b) = it[1..Len(b)]
  BY WritesAreFold
<1>2. Writer \in S[0]
  <2>1. Keeps(Writer, Writer)
    BY DEF Keeps, KeepsPool
  <2>2. Writer \in Writers
    BY DEF Writers, GoodWriter
  <2>3. TakenTo(Writer, 0)
    OBVIOUS
  <2> QED BY <2>1, <2>2, <2>3
<1>3. Len(b) \in Nat /\ \A k \in 1..Len(b) : b[k] \in Hearing
  OBVIOUS
<1>4. ASSUME NEW n \in Nat, n < Len(b), NEW w \in S[n] PROVE WriteStep[<<w, b[n + 1]>>] \in S[n + 1]
  <2> DEFINE v == ApplyWrite(w, b[n + 1])
  <2>1. w \in Writers /\ Keeps(Writer, w) /\ TakenTo(w, n)
    OBVIOUS
  <2>2. b[n + 1] \in Hearing
    BY <1>3, <1>4
  <2>3. WriteStep[<<w, b[n + 1]>>] = v
    BY <2>1, <2>2 DEF WriteStep
  <2>4. GoodWriter(w)
    BY <2>1 DEF Writers, GoodWriter
  <2> HIDE DEF v
  <2>5. GoodWriter(v) /\ Keeps(w, v) /\ Takes(v, b[n + 1].id)
    BY <2>2, <2>4, WriteKeeps DEF v
  <2>6. Keeps(Writer, v)
    BY <2>1, <2>5, KeepsThrough
  <2>7. ASSUME NEW k \in 1..(n + 1) PROVE Takes(v, b[k].id)
    <3>1. CASE k = n + 1
      BY <2>5, <3>1
    <3>2. CASE k # n + 1
      <4>1. k \in 1..n /\ k \in 1..Len(b)
        BY <1>3, <1>4, <3>2
      <4>2. Takes(w, b[k].id)
        BY <2>1, <4>1
      <4>3. b[k].id \in 1..Len(log)
        BY <1>3, <4>1 DEF Hearing
      <4>4. log[b[k].id].pool \in Pool
        BY <4>3, EntryShape DEF Entries, LogEntry
      <4> QED BY <2>5, <4>2, <4>4, TakesStays
    <3> QED BY <3>1, <3>2
  <2>8. v \in Writers
    BY <2>5 DEF Writers, GoodWriter
  <2>9. v \in S[n + 1]
    BY <2>6, <2>7, <2>8
  <2> QED BY <2>3, <2>9
<1>5. it[1..Len(b)] \in S[Len(b)]
  <2> HIDE DEF S, WriteStep
  <2> QED BY <1>1, <1>2, <1>4, FoldAlong
<1>6. /\ ApplyWrites(b) \in Writers /\ Keeps(Writer, ApplyWrites(b)) /\ TakenTo(ApplyWrites(b), Len(b))
  <2> HIDE DEF TakenTo
  <2> QED BY <1>1, <1>3, <1>5
<1> QED BY <1>6 DEF Writers, GoodWriter, Taken

-----------------------------------------------------------------------------
(* The book's invariant.                                                   *)

\* The chain: a log not taken out carries what was active where its swap ended.
HistoryInv ==
  /\ History(log) /\ head \in Nat /\ gone \subseteq 1..Len(log)
  /\ \A i \in 1..Len(log) : log[i].block <= head + 1

Prior(s) == {c \in 1..Len(log) : c < s /\ log[c].pool = log[s].pool /\ c \notin gone}

CountsInv ==
  \A s \in 1..Len(log) : log[s].kind = "swap" /\ s \notin gone =>
    log[s].counts = ActiveOf(log, Prior(s), log[s].tick)

\* The feed's cursors.
FeedInv ==
  /\ held \in Seq(Hearing)
  /\ conf \in 0..Len(log) /\ pend \in 0..Len(log)
  /\ conf # 0 => log[conf].block <= head
  /\ joined \in 0..head /\ watch \in 0..head /\ newest \in 0..head
  /\ unsaid \subseteq gone

\* The reload task: it reads nothing before a session's first head, and what it
\* read holds at least what the chain still has up to its block.
LoopInv ==
  /\ {"at", "full", "pools", "last", "gapped", "specs", "fresh"} \subseteq DOMAIN loop
  /\ loop.at \in {"take", "idle", "asleep", "heads", "read"}
  /\ loop.last \in 0..watch
  /\ status \in {"verified", "rebuilding"}
  /\ session = "new" => watch = 0 /\ status = "rebuilding" /\ loop.at # "read"

ReadInv ==
  loop.at = "read" =>
    /\ loop.full => loop.specs = Pool
    /\ \A p \in Pool : p \in DOMAIN loop.fresh =>
         /\ ReadOf(log, p, loop.last, loop.fresh[p])
         /\ LogsAt(p, loop.last) \subseteq loop.fresh[p]

\* Every pool is sound for what it was told of, or removed.
PoolGood(l, x, s, q, T) == IF s = Absent THEN q = NoPositions /\ T = {} ELSE Sound(l, x, s, q, T)

PoolsInv ==
  /\ book \in [Pool -> Snapshot \cup {Absent}] /\ pos \in [Pool -> Positions]
  /\ told \in [Pool -> SUBSET Id] /\ unheard \in [Pool -> SUBSET Id]
  /\ \A x \in Pool : PoolGood(log, x, book[x], pos[x], told[x]) /\ pos[x].read_at <= newest

\* A pool flagged or off its ladder is asked for, or in the task's hands.
Flag(p) == Held(p) /\ (pos[p].refused # 0 \/ OffLadder(book[p]))
Due(p) == pending.full \/ loop.full \/ p \in pending.pools \cup loop.pools

AskInv ==
  /\ \A p \in Pool : Flag(p) => Due(p)
  /\ loop.at \in {"take", "idle", "asleep"} => loop.full = FALSE /\ loop.pools = {}

\* No log is missed: a pool was told of all its read holds, and of the session's
\* own logs since; and a book verified past the session's start was read from
\* there on.
HeldIds == {held[k].id : k \in 1..Len(held)}

WholeReads == \A p \in Pool : Held(p) => LogsAt(p, pos[p].read_at) \subseteq told[p]

WholeSession ==
  session = "up" => \A p \in Pool : \A i \in LogsAt(p, head) :
    i <= conf /\ log[i].block > joined => i \in told[p] \cup HeldIds \cup unheard[p]

SightedSince ==
  status = "verified" /\ session = "up" /\ ~blind =>
    newest >= joined /\ \A p \in Pool : Held(p) => pos[p].read_at >= joined

WholeInv == WholeReads /\ WholeSession /\ SightedSince

ChainInv == HistoryInv /\ CountsInv

BookInv == ChainInv /\ FeedInv /\ LoopInv /\ ReadInv /\ PoolsInv /\ AskInv /\ WholeInv

\* The model's words for what the logs say.
LEMMA LogSays ==
  /\ \A S : Changes(S) = ChangesOf(log, S) /\ Swaps(S) = SwapsOf(log, S) /\ TickAfter(S) = TickOf(log, S)
  /\ \A S, t : ActiveAt(S, t) = ActiveOf(log, S, t)
BY DEF Changes, Swaps, TickAfter, ActiveAt, ChangesOf, SwapsOf, TickOf, LastSwap, ActiveOf

-----------------------------------------------------------------------------
(* The chain's steps.                                                      *)

\* What NewLog appends.
Made(e) ==
  /\ e \in LogEntry /\ log' = Append(log, e) /\ e.block = head + 1 /\ Len(log) < MaxLogs
  /\ e.kind = "swap" =>
       e.tick \in Tick /\ e.counts = ActiveOf(log, LogsAt(e.pool, head + 1), e.tick)

LEMMA NewLogShape ==
  ASSUME HistoryInv, NewLog
  PROVE  \E e : Made(e)
<1>1. head + 1 \in Nat /\ Len(log) \in Nat /\ 1..Len(log) \subseteq Id
  BY EntryShape DEF HistoryInv, Entries
<1>2. PICK p \in Pool :
       \/ \E t \in Tick :
            log' = Append(log, [pool |-> p, kind |-> "swap", tick |-> t,
                                counts |-> ActiveAt(LogsAt(p, head + 1), t),
                                active |-> {}, trouble |-> "none", block |-> head + 1])
       \/ \E c \in Change :
            log' = Append(log, [pool |-> p, kind |-> "change", tick |-> 0, counts |-> {},
                                active |-> c.active, trouble |-> c.trouble, block |-> head + 1])
  BY DEF NewLog
<1>3. Len(log) < MaxLogs
  BY DEF NewLog
<1>4. ASSUME NEW t \in Tick,
             log' = Append(log, [pool |-> p, kind |-> "swap", tick |-> t,
                                 counts |-> ActiveAt(LogsAt(p, head + 1), t),
                                 active |-> {}, trouble |-> "none", block |-> head + 1])
      PROVE  \E e : Made(e)
  <2> DEFINE C == ActiveAt(LogsAt(p, head + 1), t)
             e == [pool |-> p, kind |-> "swap", tick |-> t, counts |-> C,
                   active |-> {}, trouble |-> "none", block |-> head + 1]
  <2>1. C \subseteq Id
    BY <1>1 DEF ActiveAt, Changes, LogsAt
  <2>2. C = ActiveOf(log, LogsAt(p, head + 1), t)
    BY LogSays
  <2> HIDE DEF C
  <2>3. e \in LogEntry
    BY <1>1, <2>1, Ticks DEF LogEntry, Trouble
  <2>4. Made(e)
    BY <1>3, <1>4, <2>2, <2>3 DEF Made, C
  <2> QED BY <2>4
<1>5. ASSUME NEW c \in Change,
             log' = Append(log, [pool |-> p, kind |-> "change", tick |-> 0, counts |-> {},
                                 active |-> c.active, trouble |-> c.trouble, block |-> head + 1])
      PROVE  \E e : Made(e)
  <2> DEFINE e == [pool |-> p, kind |-> "change", tick |-> 0, counts |-> {},
                   active |-> c.active, trouble |-> c.trouble, block |-> head + 1]
  <2>1. c.active \in SUBSET Tick /\ c.trouble \in Trouble
    BY BookAssumption
  <2>2. e \in LogEntry
    BY <1>1, <2>1 DEF LogEntry
  <2>3. Made(e)
    BY <1>3, <1>5, <2>2 DEF Made
  <2> QED BY <2>3
<1> QED BY <1>2, <1>4, <1>5

\* A log that is appended to.
LEMMA Appended ==
  ASSUME HistoryInv, NEW e, Made(e)
  PROVE  /\ History(log') /\ Grows(log, log') /\ Len(log') = Len(log) + 1
         /\ log'[Len(log) + 1] = e /\ Len(log) \in Nat
<1>1. log \in Seq(LogEntry) /\ e \in LogEntry /\ log' = Append(log, e)
  BY DEF HistoryInv, History, Made
<1> DEFINE n == Len(log)
<1>2. /\ n \in Nat /\ log' \in Seq(LogEntry) /\ Len(log') = n + 1 /\ log'[n + 1] = e
      /\ \A i \in 1..n : log'[i] = log[i]
  BY <1>1
<1> HIDE DEF n
<1>3. Grows(log, log')
  BY <1>2 DEF Grows, n
<1>4. head \in Nat /\ MaxLogs \in Nat
  BY BookAssumption DEF HistoryInv
<1>5. /\ \A i \in 1..n : log[i].block \in Nat \ {0} /\ (log[i].kind = "swap" => log[i].tick \in Tick)
      /\ \A i \in 1..n : log[i].block <= head + 1
      /\ \A i, j \in 1..n : i <= j => log[i].block <= log[j].block
  BY EntryShape DEF Entries, HistoryInv, n
<1>6. \A i \in 1..(n + 1) : i \in 1..n \/ i = n + 1
  BY <1>2
<1>7. e.block = head + 1 /\ (e.kind = "swap" => e.tick \in Tick)
  BY DEF Made
<1>8. \A i \in 1..(n + 1) : log'[i].block > 0 /\ (log'[i].kind = "swap" => log'[i].tick \in Tick)
  BY <1>2, <1>4, <1>5, <1>6, <1>7
<1>9. ASSUME NEW i \in 1..(n + 1), NEW j \in 1..(n + 1), i <= j
      PROVE  log'[i].block <= log'[j].block
  <2>1. CASE j \in 1..n
    <3>1. i \in 1..n
      BY <1>2, <1>9, <2>1
    <3> QED BY <1>2, <1>5, <1>9, <2>1, <3>1
  <2>2. CASE j = n + 1
    BY <1>2, <1>4, <1>5, <1>6, <1>7, <2>2
  <2> QED BY <1>6, <2>1, <2>2
<1>10. n + 1 <= MaxLogs
  BY <1>2, <1>4 DEF Made, n
<1> QED BY <1>2, <1>3, <1>8, <1>9, <1>10 DEF History, n

\* What is gone stays gone, and no log of a sealed block is added.
LEMMA HistoryNew ==
  ASSUME ChainInv, NewLog
  PROVE  ChainInv'
<1>1. HistoryInv /\ CountsInv /\ UNCHANGED <<head, gone>>
  BY DEF ChainInv, NewLog
<1>2. PICK e : Made(e)
  BY <1>1, NewLogShape
<1> DEFINE n == Len(log)
<1>3. /\ History(log') /\ Grows(log, log') /\ Len(log') = n + 1 /\ log'[n + 1] = e /\ n \in Nat
      /\ \A i \in 1..n : log'[i] = log[i]
  BY <1>1, <1>2, Appended DEF Grows
<1>4. /\ gone \subseteq 1..n /\ head \in Nat /\ \A i \in 1..n : log[i].block <= head + 1
      /\ \A i \in 1..n : log[i].block \in Nat
  BY <1>1, EntryShape DEF HistoryInv, Entries
<1>5. e.block = head + 1
  BY <1>2 DEF Made
<1> HIDE DEF n
<1>6. \A i \in 1..(n + 1) : i \in 1..n \/ i = n + 1
  BY <1>3
<1>7. HistoryInv'
  <2>1. \A i \in 1..(n + 1) : log'[i].block <= head + 1
    BY <1>3, <1>4, <1>5, <1>6
  <2>2. gone \subseteq 1..(n + 1)
    BY <1>3, <1>4
  <2> QED BY <1>1, <1>3, <1>4, <2>1, <2>2 DEF HistoryInv
<1>8. ASSUME NEW s \in 1..(n + 1), log'[s].kind = "swap", s \notin gone
      PROVE  log'[s].counts = ActiveOf(log', Prior(s)', log'[s].tick)
  <2>1. CASE s \in 1..n
    <3>1. Prior(s)' = Prior(s) /\ Prior(s) \subseteq 1..n
      <4>1. \A c : c \in Prior(s)' <=> c \in 1..(n + 1) /\ c < s /\ log'[c].pool = log'[s].pool /\ c \notin gone
        BY <1>1, <1>3 DEF Prior
      <4>2. \A c : c \in Prior(s) <=> c \in 1..n /\ c < s /\ log[c].pool = log[s].pool /\ c \notin gone
        BY DEF Prior, n
      <4>3. \A c : c \in 1..(n + 1) /\ c < s <=> c \in 1..n /\ c < s
        BY <1>3, <2>1
      <4>4. \A c : c \in Prior(s)' <=> c \in Prior(s)
        BY <1>3, <2>1, <4>1, <4>2, <4>3
      <4>5. Prior(s) \subseteq 1..n
        BY <4>2
      <4> QED BY <4>4, <4>5
    <3>2. ActiveOf(log', Prior(s), log[s].tick) = ActiveOf(log, Prior(s), log[s].tick)
      BY <1>1, <1>3, <3>1, GrowsSame DEF HistoryInv, n
    <3>3. log[s].counts = ActiveOf(log, Prior(s), log[s].tick)
      BY <1>1, <1>3, <1>8, <2>1 DEF CountsInv, n
    <3> QED BY <1>3, <2>1, <3>1, <3>2, <3>3
  <2>2. CASE s = n + 1
    <3>1. log'[s] = e /\ e.kind = "swap"
      BY <1>3, <1>8, <2>2
    <3>2. e.counts = ActiveOf(log, LogsAt(e.pool, head + 1), e.tick)
      BY <1>2, <3>1 DEF Made
    <3>3. Prior(s)' = LogsAt(e.pool, head + 1)
      <4>1. \A c : c \in Prior(s)' <=> c \in 1..(n + 1) /\ c < s /\ log'[c].pool = e.pool /\ c \notin gone
        BY <1>1, <1>3, <3>1 DEF Prior
      <4>2. \A c : c \in LogsAt(e.pool, head + 1) <=> c \in 1..n /\ log[c].pool = e.pool /\ c \notin gone
        BY <1>4 DEF LogsAt, n
      <4>3. \A c : c \in 1..(n + 1) /\ c < s <=> c \in 1..n
        BY <1>3, <2>2
      <4>4. \A c : c \in Prior(s)' <=> c \in LogsAt(e.pool, head + 1)
        BY <1>3, <4>1, <4>2, <4>3
      <4> QED BY <4>4
    <3>4. LogsAt(e.pool, head + 1) \subseteq 1..Len(log)
      BY DEF LogsAt
    <3>5. ActiveOf(log', LogsAt(e.pool, head + 1), e.tick) = ActiveOf(log, LogsAt(e.pool, head + 1), e.tick)
      <4> DEFINE S == LogsAt(e.pool, head + 1)
      <4>1. \A c \in S : log'[c] = log[c]
        BY <1>3, <3>4 DEF n
      <4> HIDE DEF S
      <4>2. ActiveOf(log', S, e.tick) = ActiveOf(log, S, e.tick)
        BY <4>1 DEF ActiveOf, ChangesOf
      <4> QED BY <4>2 DEF S
    <3> QED BY <3>1, <3>2, <3>3, <3>5
  <2> QED BY <1>6, <2>1, <2>2
<1>9. CountsInv'
  BY <1>1, <1>3, <1>8 DEF CountsInv
<1> QED BY <1>7, <1>9 DEF ChainInv

LEMMA HistorySeal ==
  ASSUME ChainInv, Seal
  PROVE  ChainInv'
<1>1. HistoryInv /\ CountsInv /\ head' = head + 1 /\ UNCHANGED <<log, gone>>
  BY DEF ChainInv, Seal
<1>2. \A i \in 1..Len(log) : log[i].block \in Nat
  BY <1>1, EntryShape DEF HistoryInv, Entries
<1>3. HistoryInv'
  <2>1. head \in Nat /\ \A i \in 1..Len(log) : log[i].block <= head + 1
    BY <1>1 DEF HistoryInv
  <2>2. head + 1 \in Nat /\ \A i \in 1..Len(log) : log[i].block <= head + 1 + 1
    BY <1>2, <2>1
  <2> QED BY <1>1, <2>2 DEF HistoryInv
<1>4. CountsInv'
  BY <1>1 DEF CountsInv, Prior
<1> QED BY <1>3, <1>4 DEF ChainInv

\* A reorg takes out the end: a log still there has all it counted.
LEMMA HistoryReorg ==
  ASSUME ChainInv, Reorg
  PROVE  ChainInv' /\ gone \subseteq gone'
<1>1. HistoryInv /\ CountsInv /\ UNCHANGED <<log, head>> /\ Len(log) \in Nat
  BY EntryShape DEF ChainInv, Reorg, HistoryInv, Entries
<1>2. PICK i \in 1..Len(log) : gone' = gone \cup i..Len(log)
  BY DEF Reorg
<1>3. HistoryInv'
  <2>2. \A j \in i..Len(log) : j \in 1..Len(log)
    BY <1>1
  <2>3. gone \subseteq 1..Len(log)
    BY <1>1 DEF HistoryInv
  <2>1. gone' \subseteq 1..Len(log)
    BY <1>2, <2>2, <2>3
  <2> QED BY <1>1, <2>1 DEF HistoryInv
<1>4. ASSUME NEW s \in 1..Len(log), s \notin gone' PROVE Prior(s)' = Prior(s)
  <2>1. s < i
    BY <1>1, <1>2, <1>4
  <2>2. \A c \in 1..Len(log) : c < s => (c \in gone' <=> c \in gone)
    BY <1>1, <1>2, <2>1
  <2> QED BY <1>1, <2>2 DEF Prior
<1>5. CountsInv'
  <2>1. ASSUME NEW s \in 1..Len(log), log[s].kind = "swap", s \notin gone'
        PROVE  log[s].counts = ActiveOf(log, Prior(s)', log[s].tick)
    <3>1. s \notin gone
      BY <1>2, <2>1
    <3> QED BY <1>1, <1>4, <2>1, <3>1 DEF CountsInv
  <2> QED BY <1>1, <2>1 DEF CountsInv
<1> QED BY <1>2, <1>3, <1>5 DEF ChainInv

LEMMA HistoryQuiet ==
  ASSUME ChainInv, UNCHANGED chainVars
  PROVE  ChainInv'
BY DEF ChainInv, HistoryInv, CountsInv, Prior, chainVars

\* Every step that is not the chain's leaves it alone.
LEMMA OffChain ==
  ASSUME FeedStep \/ FullReloadDue \/ LoopStep
  PROVE  UNCHANGED chainVars
BY DEF FeedStep, Preconfirmed, Confirmed, Flush, Removed, HeadSeen, Connect, Drop, Rejoin, FullReloadDue,
       LoopStep, Take, Wait, Wake, Begin, ReloadFails, ReloadWrites

LEMMA HistoryStep ==
  ASSUME ChainInv, Next
  PROVE  ChainInv'
BY HistoryNew, HistorySeal, HistoryReorg, HistoryQuiet, OffChain DEF Next, ChainStep

\* What later steps need of the chain's.
LogGrows ==
  /\ History(log') /\ Grows(log, log') /\ Len(log') >= Len(log) /\ head' >= head
  /\ Len(log') \in Nat /\ head' \in Nat /\ gone \subseteq gone'
  /\ \A i \in 1..Len(log') : i \notin 1..Len(log) => log'[i].block = head + 1

LEMMA ChainGrows ==
  ASSUME ChainInv, Next
  PROVE  LogGrows
<1>1. HistoryInv /\ Len(log) \in Nat /\ head \in Nat
  BY EntryShape DEF ChainInv, HistoryInv, Entries
<1>2. CASE UNCHANGED chainVars
  BY <1>1, <1>2 DEF LogGrows, Grows, HistoryInv, chainVars
<1>3. CASE Seal
  BY <1>1, <1>3 DEF LogGrows, Grows, HistoryInv, Seal
<1>4. CASE Reorg
  <2>1. gone \subseteq gone' /\ UNCHANGED <<log, head>>
    BY <1>4, HistoryReorg DEF Reorg
  <2> QED BY <1>1, <2>1 DEF LogGrows, Grows, HistoryInv
<1>5. CASE NewLog
  <2>1. PICK e : Made(e)
    BY <1>1, <1>5, NewLogShape
  <2>2. /\ History(log') /\ Grows(log, log') /\ Len(log') = Len(log) + 1
        /\ log'[Len(log) + 1] = e /\ e.block = head + 1
    BY <1>1, <2>1, Appended DEF Made
  <2>3. UNCHANGED <<head, gone>>
    BY <1>5 DEF NewLog
  <2>4. \A i \in 1..(Len(log) + 1) : i \notin 1..Len(log) => i = Len(log) + 1
    BY <1>1
  <2> QED BY <1>1, <2>2, <2>3, <2>4 DEF LogGrows
<1> QED BY <1>2, <1>3, <1>4, <1>5, OffChain DEF Next, ChainStep

-----------------------------------------------------------------------------
(* The feed's cursors and the reload task.                                 *)

Ids(b) == {b[k].id : k \in 1..Len(b)}

\* A burst is applied, all of what is held or nothing, and what is not applied
\* is still held.
Bursts(b) == b \in {held, <<>>} /\ Store(ApplyWrites(b)) /\ HeldIds \subseteq Ids(b) \cup HeldIds'

LEMMA HoldBursts ==
  ASSUME held \in Seq(Hearing), Len(log) \in Nat, NEW i \in 1..Len(log), NEW pre \in BOOLEAN, Hold(i, pre)
  PROVE  /\ held' \in Seq(Hearing) /\ i \in HeldIds'
         /\ \E b : Bursts(b) /\ RequestAny(ApplyWrites(b).ask)
         /\ UNCHANGED <<status, newest, blind>>
<1> DEFINE later == \E k \in 1..Len(held) : held[k].pending /\ log[held[k].id].block < log[i].block
           b == IF later THEN held ELSE <<>>
           rest == IF later THEN <<>> ELSE held
           h == [id |-> i, pending |-> pre]
           w == ApplyWrites(b)
<1>1. held' = Append(rest, h) /\ Store(w) /\ RequestAny(w.ask) /\ UNCHANGED <<status, newest, blind>>
  BY DEF Hold
<1>2. h \in Hearing /\ h.id = i
  BY DEF Hearing
<1>3. rest \in Seq(Hearing) /\ Len(rest) \in Nat
  OBVIOUS
<1>4. b = held \/ rest = held
  OBVIOUS
<1>5. b \in {held, <<>>}
  OBVIOUS
<1> HIDE DEF w, rest, h, later
<1>6. held' \in Seq(Hearing) /\ Len(held') = Len(rest) + 1 /\ held'[Len(rest) + 1] = h
      /\ \A k \in 1..Len(rest) : held'[k] = rest[k] /\ k \in 1..(Len(rest) + 1)
  BY <1>1, <1>2, <1>3
<1>7. Len(rest) + 1 \in 1..Len(held')
  BY <1>3, <1>6
<1>8. i \in HeldIds'
  BY <1>2, <1>6, <1>7 DEF HeldIds
<1>9. Ids(rest) \subseteq HeldIds'
  <2>1. ASSUME NEW k \in 1..Len(rest) PROVE rest[k].id \in HeldIds'
    <3>1. k \in 1..Len(held') /\ held'[k] = rest[k]
      BY <1>6
    <3> QED BY <3>1 DEF HeldIds
  <2> QED BY <2>1 DEF Ids
<1> HIDE DEF b
<1>10. HeldIds \subseteq Ids(b) \cup HeldIds'
  <2>1. HeldIds = Ids(held)
    BY DEF HeldIds, Ids
  <2> QED BY <1>4, <1>9, <2>1
<1>11. Bursts(b) /\ RequestAny(ApplyWrites(b).ask)
  BY <1>1, <1>5, <1>10 DEF Bursts, w
<1> QED BY <1>1, <1>6, <1>8, <1>11

\* The cursors a copy of a log moves.
LEMMA PreconfirmedShape ==
  ASSUME FeedInv, ChainInv, Preconfirmed
  PROVE  \E i \in 1..Len(log) : Hold(i, TRUE) /\ pend' = i
<1>1. pend \in Nat /\ conf \in Nat /\ Len(log) \in Nat
  BY EntryShape DEF FeedInv, ChainInv, HistoryInv, Entries
<1>2. Max({pend, conf}) \in Nat
  BY <1>1, MaxOfTwo
<1>3. PICK i \in (Max({pend, conf}) + 1)..Len(log) : Hold(i, TRUE) /\ pend' = i
  BY DEF Preconfirmed
<1> DEFINE m == Max({pend, conf})
<1> HIDE DEF m
<1>4. m \in Nat /\ i \in (m + 1)..Len(log)
  BY <1>2, <1>3 DEF m
<1>5. i \in 1..Len(log)
  BY <1>1, <1>4
<1> QED BY <1>3, <1>5

ConfirmedOf(i) ==
  /\ i \in 1..Len(log) /\ i > conf /\ i \notin gone /\ log[i].block <= head
  /\ \A j \in (conf + 1)..(i - 1) : j \in gone
  /\ Hold(i, FALSE) /\ conf' = i

LEMMA ConfirmedShape ==
  ASSUME FeedInv, ChainInv, Confirmed
  PROVE  \E i : ConfirmedOf(i)
<1>1. conf \in Nat /\ Len(log) \in Nat
  BY EntryShape DEF FeedInv, ChainInv, HistoryInv, Entries
<1>2. PICK i \in (conf + 1)..Len(log) :
        /\ i \notin gone /\ log[i].block <= head
        /\ \A j \in (conf + 1)..(i - 1) : j \in gone
        /\ Hold(i, FALSE) /\ conf' = i
  BY DEF Confirmed
<1>3. i \in 1..Len(log) /\ i > conf
  BY <1>1
<1> QED BY <1>2, <1>3 DEF ConfirmedOf

\* What Subscribes makes of them: all of the session's past is of the blocks
\* sealed before it.
LEMMA SubscribesShape ==
  ASSUME ChainInv, NEW at, at \in 0..head, Subscribes(at)
  PROVE  /\ conf' \in 0..Len(log) /\ pend' \in 0..Len(log) /\ joined' = at /\ unsaid' = {}
         /\ \A i \in 1..Len(log) : i <= conf' => log[i].block <= at
         /\ conf' # 0 => log[conf'].block <= head
<1>1. /\ Len(log) \in Nat /\ head \in Nat
      /\ \A i \in 1..Len(log) : log[i].block \in Nat
      /\ \A i, j \in 1..Len(log) : i <= j => log[i].block <= log[j].block
  BY EntryShape DEF ChainInv, HistoryInv, Entries
<1> DEFINE S == {i \in 1..Len(log) : log[i].block <= at}
<1>2. conf' = Most(S) /\ pend' = Len(log) /\ joined' = at /\ unsaid' = {}
  BY DEF Subscribes
<1>3. S \subseteq 1..Len(log) /\ (\A i \in S : log[i].block <= at)
  OBVIOUS
<1> HIDE DEF S
<1>4. conf' \in 0..Len(log) /\ (S # {} => conf' \in S) /\ (S = {} => conf' = 0)
  BY <1>1, <1>2, <1>3, MostOf
<1>5. conf' # 0 => conf' \in S /\ conf' \in 1..Len(log) /\ log[conf'].block <= at
  BY <1>3, <1>4
<1>6. ASSUME NEW i \in 1..Len(log), i <= conf' PROVE log[i].block <= at
  <2>1. conf' # 0
    BY <1>4, <1>6
  <2>2. log[i].block <= log[conf'].block
    BY <1>1, <1>5, <1>6, <2>1
  <2> QED BY <1>1, <1>5, <2>1, <2>2
<1>7. conf' # 0 => log[conf'].block <= head
  BY <1>1, <1>5
<1> QED BY <1>1, <1>2, <1>4, <1>6, <1>7

\* The cursors are the log's own, whatever is added to it or taken out.
Cursors(l, h, g, c, d, j, w, n, u) ==
  /\ c \in 0..Len(l) /\ d \in 0..Len(l) /\ (c # 0 => l[c].block <= h)
  /\ j \in 0..h /\ w \in 0..h /\ n \in 0..h /\ u \subseteq g

LEMMA CursorsGrow ==
  ASSUME NEW c, NEW d, NEW j, NEW w, NEW n, NEW u, ChainInv, LogGrows,
         Cursors(log, head, gone, c, d, j, w, n, u)
  PROVE  Cursors(log', head', gone', c, d, j, w, n, u)
<1>1. /\ Len(log) \in Nat /\ head \in Nat /\ \A i \in 1..Len(log) : log[i].block \in Nat
  BY EntryShape DEF ChainInv, HistoryInv, Entries
<1>2. /\ Grows(log, log') /\ Len(log') >= Len(log) /\ head' >= head /\ Len(log') \in Nat /\ head' \in Nat
      /\ gone \subseteq gone'
  BY DEF LogGrows
<1>3. c \in 0..Len(log') /\ d \in 0..Len(log') /\ j \in 0..head' /\ w \in 0..head' /\ n \in 0..head'
  BY <1>1, <1>2 DEF Cursors
<1>4. c # 0 => c \in 1..Len(log) /\ log[c].block <= head
  BY <1>1 DEF Cursors
<1>5. c # 0 => log'[c].block <= head'
  BY <1>1, <1>2, <1>4 DEF Grows
<1> QED BY <1>2, <1>3, <1>5 DEF Cursors

LEMMA FeedIsCursors ==
  FeedInv <=> held \in Seq(Hearing) /\ Cursors(log, head, gone, conf, pend, joined, watch, newest, unsaid)
BY DEF FeedInv, Cursors

LEMMA HeldGrows ==
  ASSUME ChainInv, LogGrows, held \in Seq(Hearing)
  PROVE  held \in Seq(Hearing')
<1>1. Len(log) \in Nat /\ Len(log') \in Nat /\ Len(log') >= Len(log)
  BY EntryShape DEF ChainInv, HistoryInv, Entries, LogGrows
<1>2. 1..Len(log) \subseteq 1..Len(log')
  BY <1>1
<1>3. Hearing \subseteq Hearing'
  BY <1>2 DEF Hearing
<1> QED BY <1>3

\* What moves none of them.
LEMMA FeedQuiet ==
  ASSUME ChainInv, LogGrows, FeedInv, UNCHANGED <<held, conf, pend, joined, watch, newest>>,
         unsaid' \subseteq gone'
  PROVE  FeedInv'
<1>1. held \in Seq(Hearing) /\ Cursors(log, head, gone, conf, pend, joined, watch, newest, unsaid)
  BY FeedIsCursors
<1>2. held' \in Seq(Hearing')
  BY <1>1, HeldGrows
<1>3. Cursors(log', head', gone', conf, pend, joined, watch, newest, unsaid)
  BY <1>1, CursorsGrow
<1>4. Cursors(log', head', gone', conf', pend', joined', watch', newest', unsaid')
  BY <1>3 DEF Cursors
<1> QED BY <1>2, <1>4 DEF FeedInv, Cursors

\* What moves some, with the chain standing still.
LEMMA FeedMoves ==
  ASSUME FeedInv, UNCHANGED chainVars, held' \in Seq(Hearing),
         conf' \in 0..Len(log), pend' \in 0..Len(log), conf' # 0 => log[conf'].block <= head,
         joined' \in 0..head, watch' \in 0..head, newest' \in 0..head, unsaid' \subseteq gone
  PROVE  FeedInv'
<1>1. Hearing' = Hearing
  BY DEF Hearing, chainVars
<1> QED BY <1>1 DEF FeedInv, chainVars

\* The greatest of two marks is a number.
LEMMA HeadAfter ==
  ASSUME FeedInv, ChainInv, HeadSeen
  PROVE  watch' \in 0..head /\ watch' > watch
<1>1. watch \in Nat /\ joined \in Nat /\ head \in Nat
  BY DEF FeedInv, ChainInv, HistoryInv
<1> DEFINE m == Max({watch, joined})
<1>2. m \in Nat /\ m >= watch
  BY <1>1, MaxOfTwo
<1>3. watch' \in (m + 1)..head
  BY DEF HeadSeen
<1> HIDE DEF m
<1> QED BY <1>1, <1>2, <1>3

LEMMA FeedAfter ==
  ASSUME ChainInv, FeedInv, LoopInv, LogGrows, Next
  PROVE  FeedInv'
<1>1. /\ Len(log) \in Nat /\ head \in Nat
  BY EntryShape DEF ChainInv, HistoryInv, Entries
<1>2. /\ held \in Seq(Hearing) /\ conf \in 0..Len(log) /\ pend \in 0..Len(log)
      /\ (conf # 0 => log[conf].block <= head)
      /\ joined \in 0..head /\ watch \in 0..head /\ newest \in 0..head /\ unsaid \subseteq gone
  BY DEF FeedInv
<1>3. CASE NewLog \/ Seal
  <2>1. UNCHANGED <<held, conf, pend, joined, watch, newest, unsaid>> /\ gone \subseteq gone'
    BY <1>3 DEF NewLog, Seal, bookVars, feedVars, LogGrows
  <2> QED BY <1>2, <2>1, FeedQuiet
<1>4. CASE Reorg
  <2>1. UNCHANGED <<held, conf, pend, joined, watch, newest>>
    BY <1>4 DEF Reorg, bookVars
  <2>2. PICK i \in 1..Len(log) : /\ gone' = gone \cup i..Len(log)
                                 /\ unsaid' = IF session = "up" THEN unsaid \cup i..conf ELSE unsaid
    BY <1>4 DEF Reorg
  <2>3. \A k \in i..conf : k \in i..Len(log)
    BY <1>1, <1>2
  <2>4. unsaid' \subseteq gone'
    BY <1>2, <2>2, <2>3
  <2> QED BY <2>1, <2>4, FeedQuiet
<1>5. CASE Preconfirmed
  <2>1. PICK i \in 1..Len(log) : Hold(i, TRUE) /\ pend' = i
    BY <1>5, PreconfirmedShape
  <2>2. held' \in Seq(Hearing) /\ UNCHANGED newest
    BY <1>1, <1>2, <2>1, HoldBursts
  <2>3. UNCHANGED <<chainVars, watch, joined, conf, unsaid>>
    BY <1>5 DEF Preconfirmed
  <2>4. pend' \in 0..Len(log)
    BY <1>1, <2>1
  <2> QED BY <1>2, <2>2, <2>3, <2>4, FeedMoves
<1>6. CASE Confirmed
  <2>1. PICK i : ConfirmedOf(i)
    BY <1>6, ConfirmedShape
  <2>2. i \in 1..Len(log) /\ Hold(i, FALSE) /\ conf' = i /\ log[i].block <= head
    BY <2>1 DEF ConfirmedOf
  <2>3. held' \in Seq(Hearing) /\ UNCHANGED newest
    BY <1>1, <1>2, <2>2, HoldBursts
  <2>4. UNCHANGED <<chainVars, watch, joined, pend, unsaid>>
    BY <1>6 DEF Confirmed
  <2>5. conf' \in 0..Len(log) /\ log[conf'].block <= head
    BY <1>1, <2>2
  <2> QED BY <1>2, <2>3, <2>4, <2>5, FeedMoves
<1>7. CASE Flush
  <2>1. held' = <<>> /\ UNCHANGED <<chainVars, newest, watch, joined, pend, conf, unsaid>>
    BY <1>7 DEF Flush
  <2> QED BY <1>2, <2>1, FeedMoves
<1>8. CASE Removed
  <2>1. UNCHANGED <<chainVars, newest, held, watch, joined, pend, conf>> /\ unsaid' \subseteq unsaid
    BY <1>8 DEF Removed, Retract
  <2> QED BY <1>2, <2>1, FeedMoves
<1>9. CASE HeadSeen
  <2>1. UNCHANGED <<chainVars, newest, held, joined, pend, conf, unsaid>>
    BY <1>9 DEF HeadSeen, bookVars
  <2>2. watch' \in 0..head
    BY <1>9, HeadAfter
  <2> QED BY <1>2, <2>1, <2>2, FeedMoves
<1>10. CASE Connect
  <2>1. UNCHANGED <<chainVars, newest, held, watch>>
    BY <1>10 DEF Connect, bookVars
  <2>2. PICK at \in {0, head} : Subscribes(at)
    BY <1>10 DEF Connect
  <2>3. at \in 0..head
    BY <1>1
  <2>4. /\ conf' \in 0..Len(log) /\ pend' \in 0..Len(log) /\ joined' = at /\ unsaid' = {}
        /\ (conf' # 0 => log[conf'].block <= head)
    BY <2>2, <2>3, SubscribesShape
  <2> QED BY <1>2, <2>1, <2>3, <2>4, FeedMoves
<1>11. CASE Drop
  <2>1. UNCHANGED <<chainVars, newest, held, watch, joined, pend, conf, unsaid>>
    BY <1>11 DEF Drop, bookVars
  <2> QED BY <1>2, <2>1, FeedMoves
<1>12. CASE Rejoin
  <2>1. UNCHANGED <<chainVars, newest, watch>> /\ held' = <<>> /\ Subscribes(head)
    BY <1>12 DEF Rejoin
  <2>2. head \in 0..head
    BY <1>1
  <2>3. /\ conf' \in 0..Len(log) /\ pend' \in 0..Len(log) /\ joined' = head /\ unsaid' = {}
        /\ (conf' # 0 => log[conf'].block <= head)
    BY <2>1, <2>2, SubscribesShape
  <2> QED BY <1>2, <2>1, <2>2, <2>3, FeedMoves
<1>13. CASE FullReloadDue \/ Take \/ Wait \/ Wake \/ Begin \/ ReloadFails
  <2>1. UNCHANGED <<chainVars, newest, held, watch, joined, pend, conf, unsaid>>
    BY <1>13 DEF FullReloadDue, Take, Wait, Wake, Begin, ReloadFails, bookVars, feedVars
  <2> QED BY <1>2, <2>1, FeedMoves
<1>14. CASE ReloadWrites
  <2>1. UNCHANGED <<chainVars, held, watch, joined, pend, conf, unsaid>> /\ newest' = loop.last
    BY <1>14 DEF ReloadWrites, feedVars
  <2>2. loop.last \in 0..head
    BY <1>1, <1>2 DEF LoopInv
  <2> QED BY <1>2, <2>1, <2>2, FeedMoves
<1> QED BY <1>3, <1>4, <1>5, <1>6, <1>7, <1>8, <1>9, <1>10, <1>11, <1>12, <1>13, <1>14
        DEF Next, ChainStep, FeedStep, LoopStep

LoopFields == {"at", "full", "pools", "last", "gapped", "specs", "fresh"}

\* The feed's steps leave the task's work as it is; a mark is all they make.
SameWork ==
  /\ DOMAIN loop' = DOMAIN loop /\ loop'.at = loop.at /\ loop'.full = loop.full /\ loop'.pools = loop.pools
  /\ loop'.last = loop.last /\ loop'.specs = loop.specs /\ loop'.fresh = loop.fresh

LEMMA OutsideWork ==
  ASSUME LoopInv, ChainStep \/ FeedStep \/ FullReloadDue
  PROVE  SameWork
<1>1. CASE UNCHANGED loop
  BY <1>1 DEF SameWork
<1>2. CASE Rejoin
  <2>1. loop' = [loop EXCEPT !.gapped = TRUE]
    BY <1>2 DEF Rejoin, MarkRebuilding
  <2> QED BY <2>1 DEF SameWork, LoopInv
<1>3. ASSUME NEW A, RequestAny(A) PROVE UNCHANGED loop
  BY <1>3 DEF RequestAny, Request, loopVars
<1>4. ASSUME NEW i, NEW b, Hold(i, b) PROVE UNCHANGED loop
  <2> DEFINE later == \E k \in 1..Len(held) : held[k].pending /\ log[held[k].id].block < log[i].block
             w == ApplyWrites(IF later THEN held ELSE <<>>)
  <2>1. RequestAny(w.ask)
    BY <1>4 DEF Hold
  <2> HIDE DEF w
  <2> QED BY <1>3, <2>1
<1>5. CASE Preconfirmed \/ Confirmed
  BY <1>1, <1>4, <1>5 DEF Preconfirmed, Confirmed
<1>6. CASE Flush
  <2> DEFINE w == ApplyWrites(held)
  <2>1. RequestAny(w.ask)
    BY <1>6 DEF Flush
  <2> HIDE DEF w
  <2> QED BY <1>1, <1>3, <2>1
<1>7. CASE ChainStep \/ Removed \/ HeadSeen \/ Connect \/ Drop \/ FullReloadDue
  BY <1>1, <1>7 DEF ChainStep, NewLog, Seal, Reorg, Removed, HeadSeen, Connect, Drop, FullReloadDue, Request,
                    loopVars
<1> QED BY <1>2, <1>5, <1>6, <1>7 DEF FeedStep

\* What the task's own steps make of it.
LEMMA TaskWork ==
  ASSUME LoopInv, LoopStep
  PROVE  /\ LoopFields \subseteq DOMAIN loop'
         /\ loop'.at \in {"take", "idle", "asleep", "heads", "read"}
         /\ Begin => loop'.at = "read" /\ loop'.last = watch
         /\ ~Begin => loop'.at # "read" /\ loop'.last = loop.last
<1>1. LoopFields \subseteq DOMAIN loop /\ loop.at \in {"take", "idle", "asleep", "heads", "read"}
  BY DEF LoopInv, LoopFields
<1>2. CASE Take
  BY <1>1, <1>2 DEF Take, Begin, LoopFields
<1>3. CASE Wait
  BY <1>1, <1>3 DEF Wait, Begin, LoopFields
<1>4. CASE Wake
  BY <1>1, <1>4 DEF Wake, Begin, LoopFields
<1>5. CASE Begin
  <2>1. PICK specs, fresh : loop' = [loop EXCEPT !.at = "read", !.last = watch, !.gapped = FALSE,
                                                 !.specs = specs, !.fresh = fresh]
    BY <1>5 DEF Begin
  <2> QED BY <1>1, <1>5, <2>1 DEF LoopFields
<1>6. CASE ReloadFails \/ ReloadWrites
  <2>1. loop' = Done /\ loop.at = "read"
    BY <1>6 DEF ReloadFails, ReloadWrites
  <2>2. LoopFields \subseteq DOMAIN loop' /\ loop'.at = "take" /\ loop'.last = loop.last
    BY <1>1, <2>1 DEF Done, LoopFields
  <2>3. ~Begin
    BY <2>1 DEF Begin
  <2> QED BY <2>2, <2>3
<1> QED BY <1>2, <1>3, <1>4, <1>5, <1>6 DEF LoopStep

LEMMA StatusMoves ==
  ASSUME Next
  PROVE  /\ status' \in {status, "rebuilding"} \/ ReloadWrites
         /\ status' \in {status, "rebuilding", "verified"}
<1>1. CASE ReloadWrites
  BY <1>1 DEF ReloadWrites
<1>2. CASE ChainStep \/ FullReloadDue
  BY <1>2 DEF ChainStep, NewLog, Seal, Reorg, FullReloadDue, bookVars
<1>3. CASE FeedStep
  BY <1>3 DEF FeedStep, Preconfirmed, Confirmed, Hold, Flush, Removed, HeadSeen, Connect, Drop, Rejoin,
              MarkRebuilding, bookVars
<1>4. CASE Take \/ Wait \/ Wake \/ Begin \/ ReloadFails
  BY <1>4 DEF Take, Wait, Wake, Begin, ReloadFails, bookVars
<1> QED BY <1>1, <1>2, <1>3, <1>4 DEF Next, LoopStep

\* The session, and the newest head passed on.
LEMMA SessionMoves ==
  ASSUME Next, ChainInv, FeedInv
  PROVE  /\ session' = "new" => session = "new" /\ watch' = watch
         /\ watch' >= watch /\ watch' \in Nat
         /\ ~HeadSeen => watch' = watch
<1>1. watch \in Nat /\ head \in Nat
  BY DEF FeedInv, ChainInv, HistoryInv
<1>2. CASE HeadSeen
  <2>1. session = "up" /\ UNCHANGED session
    BY <1>2 DEF HeadSeen
  <2> QED BY <1>1, <1>2, <2>1, HeadAfter
<1>3. CASE Connect \/ Rejoin
  <2>1. session' = "up" /\ UNCHANGED watch
    BY <1>3 DEF Connect, Rejoin, Subscribes
  <2> QED BY <1>1, <1>2, <2>1
<1>4. CASE Drop
  BY <1>1, <1>2, <1>4 DEF Drop
<1>5. CASE ChainStep \/ FullReloadDue \/ Preconfirmed \/ Confirmed \/ Flush \/ Removed \/ LoopStep
  <2>1. UNCHANGED <<session, watch>>
    BY <1>5 DEF ChainStep, NewLog, Seal, Reorg, FullReloadDue, Preconfirmed, Confirmed, Flush, Removed,
                LoopStep, Take, Wait, Wake, Begin, ReloadFails, ReloadWrites, feedVars
  <2> QED BY <1>1, <1>2, <2>1
<1> QED BY <1>2, <1>3, <1>4, <1>5 DEF Next, FeedStep

LEMMA LoopAfter ==
  ASSUME ChainInv, FeedInv, LoopInv, Next
  PROVE  LoopInv'
<1>1. /\ LoopFields \subseteq DOMAIN loop /\ loop.at \in {"take", "idle", "asleep", "heads", "read"}
      /\ loop.last \in 0..watch /\ watch \in Nat /\ status \in {"verified", "rebuilding"}
      /\ session = "new" => watch = 0 /\ status = "rebuilding" /\ loop.at # "read"
  BY DEF LoopInv, LoopFields, FeedInv
<1>2. /\ session' = "new" => session = "new" /\ watch' = watch
      /\ watch' >= watch /\ watch' \in Nat
      /\ ~HeadSeen => watch' = watch
  BY SessionMoves
<1>3. /\ status' \in {status, "rebuilding"} \/ ReloadWrites
      /\ status' \in {status, "rebuilding", "verified"}
  BY StatusMoves
<1>4. CASE LoopStep
  <2>1. /\ LoopFields \subseteq DOMAIN loop'
        /\ loop'.at \in {"take", "idle", "asleep", "heads", "read"}
        /\ Begin => loop'.at = "read" /\ loop'.last = watch
        /\ ~Begin => loop'.at # "read" /\ loop'.last = loop.last
    BY <1>4, TaskWork
  <2>2. watch' = watch
    BY <1>4 DEF LoopStep, Take, Wait, Wake, Begin, ReloadFails, ReloadWrites, feedVars
  <2>3. loop'.last \in 0..watch
    BY <1>1, <2>1
  <2>6. (Begin => watch > loop.last) /\ (ReloadWrites => loop.at = "read")
    BY DEF Begin, ReloadWrites
  <2>4. session = "new" => ~Begin /\ ~ReloadWrites
    BY <1>1, <2>6
  <2>5. session' = "new" => watch' = 0 /\ status' = "rebuilding" /\ loop'.at # "read"
    BY <1>1, <1>2, <1>3, <2>1, <2>4
  <2> QED BY <1>1, <1>3, <2>1, <2>2, <2>3, <2>5 DEF LoopInv, LoopFields
<1>5. CASE ChainStep \/ FeedStep \/ FullReloadDue
  <2>1. SameWork
    BY <1>5, OutsideWork
  <2>2. status' \in {status, "rebuilding"}
    BY <1>5 DEF ChainStep, NewLog, Seal, Reorg, FullReloadDue, bookVars,
                FeedStep, Preconfirmed, Confirmed, Hold, Flush, Removed, HeadSeen, Connect, Drop, Rejoin,
                MarkRebuilding
  <2>3. loop'.last \in 0..watch'
    BY <1>1, <1>2, <2>1 DEF SameWork
  <2> QED BY <1>1, <1>2, <2>1, <2>2, <2>3 DEF LoopInv, LoopFields, SameWork
<1> QED BY <1>4, <1>5 DEF Next

\* What was read, as the chain goes on.
LEMMA LogsAtLess ==
  ASSUME ChainInv, LogGrows, NEW p, NEW b \in Nat, b <= head
  PROVE  \A i : i \in 1..Len(log') /\ log'[i].pool = p /\ log'[i].block <= b /\ i \notin gone'
                  => i \in LogsAt(p, b)
<1>1. head \in Nat /\ Len(log) \in Nat
  BY EntryShape DEF ChainInv, HistoryInv, Entries
<1>2. ASSUME NEW i, i \in 1..Len(log'), log'[i].pool = p, log'[i].block <= b, i \notin gone'
      PROVE  i \in LogsAt(p, b)
  <2>1. i \in 1..Len(log)
    <3>1. i \notin 1..Len(log) => log'[i].block = head + 1
      BY <1>2 DEF LogGrows
    <3> QED BY <1>1, <1>2, <3>1
  <2>2. log'[i] = log[i] /\ i \notin gone
    BY <1>2, <2>1 DEF LogGrows, Grows
  <2> QED BY <1>2, <2>1, <2>2 DEF LogsAt
<1> QED BY <1>2

LEMMA ReadGrows ==
  ASSUME NEW l, History(l), NEW k, History(k), Grows(l, k), NEW p, NEW n, NEW R, ReadOf(l, p, n, R)
  PROVE  ReadOf(k, p, n, R)
<1>1. Told(l, p, R) /\ R \subseteq 1..Len(l) /\ \A i \in R : l[i].block <= n
  BY DEF ReadOf, Told
<1>2. \A i \in R : k[i] = l[i]
  BY <1>1 DEF Grows
<1>3. R \subseteq 1..Len(k)
  <2>1. Len(l) \in Nat /\ Len(k) \in Nat
    BY EntryShape DEF Entries
  <2>2. 1..Len(l) \subseteq 1..Len(k)
    BY <2>1 DEF Grows
  <2> QED BY <1>1, <2>2
<1>4. /\ LastSwap(k, R) = LastSwap(l, R) /\ TickOf(k, R) = TickOf(l, R) /\ BaseOf(k, R) = BaseOf(l, R)
  BY <1>1, GrowsSays
<1>5. ActiveOf(k, Before(R, LastSwap(l, R)), TickOf(l, R)) = ActiveOf(l, Before(R, LastSwap(l, R)), TickOf(l, R))
  BY <1>2 DEF ActiveOf, ChangesOf, Before
<1> QED BY <1>1, <1>2, <1>3, <1>4, <1>5 DEF ReadOf, Told

LEMMA ReadStands ==
  ASSUME ChainInv, FeedInv, LoopInv, ReadInv, LogGrows, SameWork
  PROVE  ReadInv'
<1> SUFFICES ASSUME loop.at = "read"
             PROVE  /\ loop.full => loop.specs = Pool
                    /\ \A p \in Pool : p \in DOMAIN loop.fresh =>
                         /\ ReadOf(log', p, loop.last, loop.fresh[p])
                         /\ LogsAt(p, loop.last)' \subseteq loop.fresh[p]
  BY DEF ReadInv, SameWork
<1>1. loop.full => loop.specs = Pool
  BY DEF ReadInv
<1>2. loop.last \in Nat /\ loop.last <= head
  <2>1. head \in Nat /\ watch \in 0..head /\ loop.last \in 0..watch
    BY DEF ChainInv, HistoryInv, FeedInv, LoopInv
  <2> QED BY <2>1
<1>3. ASSUME NEW p \in Pool, p \in DOMAIN loop.fresh
      PROVE  /\ ReadOf(log', p, loop.last, loop.fresh[p])
             /\ LogsAt(p, loop.last)' \subseteq loop.fresh[p]
  <2>1. ReadOf(log, p, loop.last, loop.fresh[p]) /\ LogsAt(p, loop.last) \subseteq loop.fresh[p]
    BY <1>3 DEF ReadInv
  <2>2. ReadOf(log', p, loop.last, loop.fresh[p])
    BY <2>1, ReadGrows DEF ChainInv, HistoryInv, LogGrows
  <2> DEFINE b == loop.last
  <2>3. b \in Nat /\ b <= head
    BY <1>2
  <2> HIDE DEF b
  <2>4. \A i : i \in 1..Len(log') /\ log'[i].pool = p /\ log'[i].block <= b /\ i \notin gone'
                 => i \in LogsAt(p, b)
    BY <2>3, LogsAtLess
  <2>5. LogsAt(p, loop.last)' \subseteq LogsAt(p, loop.last)
    BY <2>4 DEF LogsAt, b, SameWork
  <2> QED BY <2>1, <2>2, <2>5
<1> QED BY <1>1, <1>3

\* What the chain has of a pool up to a sealed block is what a read of it gets.
LEMMA ReadTaken ==
  ASSUME ChainInv, NEW p, NEW b \in Nat
  PROVE  ReadOf(log, p, b, LogsAt(p, b))
<1> DEFINE R == LogsAt(p, b)
           m == LastSwap(log, R)
           t == TickOf(log, R)
<1>1. /\ History(log) /\ Len(log) \in Nat
      /\ \A i \in 1..Len(log) : log[i].block \in Nat
      /\ \A i, j \in 1..Len(log) : i <= j => log[i].block <= log[j].block
  BY EntryShape DEF ChainInv, HistoryInv, Entries
<1>2. R \subseteq 1..Len(log) /\ \A i \in R : log[i].pool = p /\ log[i].block <= b /\ i \notin gone
  BY DEF LogsAt
<1>3. ASSUME m # 0 PROVE BaseOf(log, R) = ActiveOf(log, Before(R, m), t)
  <2>1. m \in SwapsOf(log, R) /\ t = log[m].tick /\ BaseOf(log, R) = log[m].counts
    <3>1. m \in SwapsOf(log, R) /\ SwapsOf(log, R) # {}
      BY <1>1, <1>2, <1>3, LastSwapOf
    <3> QED BY <1>3, <3>1 DEF TickOf, BaseOf
  <2>2. m \in 1..Len(log) /\ log[m].kind = "swap" /\ log[m].pool = p /\ log[m].block <= b /\ m \notin gone
    BY <1>2, <2>1 DEF SwapsOf
  <2>3. Before(R, m) = Prior(m)
    <3>1. \A c : c \in Before(R, m) <=>
                   c \in 1..Len(log) /\ log[c].pool = p /\ log[c].block <= b /\ c \notin gone /\ c < m
      BY DEF Before, LogsAt
    <3>2. \A c : c \in Prior(m) <=> c \in 1..Len(log) /\ c < m /\ log[c].pool = p /\ c \notin gone
      BY <2>2 DEF Prior
    <3>3. ASSUME NEW c \in 1..Len(log), c < m PROVE log[c].block <= b
      <4>1. log[c].block <= log[m].block
        <5>1. c <= m
          BY <1>1, <2>2, <3>3
        <5> QED BY <1>1, <2>2, <5>1
      <4> QED BY <1>1, <2>2, <4>1
    <3>4. \A c : c \in Before(R, m) <=> c \in Prior(m)
      <4> HIDE DEF m, R
      <4> QED BY <3>1, <3>2, <3>3
    <3> HIDE DEF m, R
    <3> QED BY <3>4
  <2>4. log[m].counts = ActiveOf(log, Prior(m), log[m].tick)
    BY <2>2 DEF ChainInv, CountsInv
  <2> QED BY <2>1, <2>3, <2>4
<1>4. Told(log, p, R)
  BY <1>2 DEF Told
<1> QED BY <1>2, <1>3, <1>4 DEF ReadOf

LEMMA ReadAfter ==
  ASSUME ChainInv, FeedInv, LoopInv, ReadInv, LogGrows, Next
  PROVE  ReadInv'
<1>1. CASE ChainStep \/ FeedStep \/ FullReloadDue
  BY <1>1, OutsideWork, ReadStands
<1>2. CASE LoopStep /\ ~Begin
  BY <1>2, TaskWork DEF ReadInv
<1>3. CASE Begin
  <2> DEFINE specs == IF loop.full THEN Pool ELSE {p \in loop.pools : Held(p)}
  <2>1. PICK bad \in SUBSET specs :
          loop' = [loop EXCEPT !.at = "read", !.last = watch, !.gapped = FALSE, !.specs = specs,
                               !.fresh = [p \in specs \ bad |-> LogsAt(p, watch)]]
    BY <1>3 DEF Begin
  <2> HIDE DEF specs
  <2>2. /\ loop'.last = watch /\ loop'.full = loop.full /\ loop'.specs = specs
        /\ loop'.fresh = [p \in specs \ bad |-> LogsAt(p, watch)]
    BY <2>1 DEF LoopInv
  <2>3. watch \in Nat /\ UNCHANGED chainVars
    BY <1>3 DEF Begin, FeedInv, ChainInv, HistoryInv
  <2>4. \A p : ReadOf(log, p, watch, LogsAt(p, watch))
    <3> DEFINE b == watch
    <3>1. b \in Nat
      BY <2>3
    <3> HIDE DEF b
    <3>2. \A p : ReadOf(log, p, b, LogsAt(p, b))
      BY <3>1, ReadTaken
    <3> QED BY <3>2 DEF b
  <2>5. \A p : LogsAt(p, loop.last)' = LogsAt(p, watch)
    BY <2>2, <2>3 DEF LogsAt, chainVars
  <2>6. loop'.full => loop'.specs = Pool
    BY <2>2 DEF specs
  <2>7. ASSUME NEW p \in Pool, p \in DOMAIN loop'.fresh
        PROVE  ReadOf(log', p, loop'.last, loop'.fresh[p]) /\ LogsAt(p, loop.last)' \subseteq loop'.fresh[p]
    <3>1. loop'.fresh[p] = LogsAt(p, watch)
      BY <2>2, <2>7
    <3> QED BY <2>2, <2>3, <2>4, <2>5, <3>1 DEF chainVars
  <2> QED BY <2>6, <2>7 DEF ReadInv
<1> QED BY <1>1, <1>2, <1>3 DEF Next

-----------------------------------------------------------------------------
(* The pools.                                                              *)

LEMMA WriterGood ==
  ASSUME PoolsInv
  PROVE  GoodWriter(Writer) /\ Writer.ask = {}
BY DEF PoolsInv, PoolGood, GoodWriter, Good, Writer, WriterSet

\* What a burst leaves of a pool, and of the logs in it.
StoredPool(x, ask) ==
  /\ book'[x] = Absent <=> book[x] = Absent
  /\ pos'[x].read_at = pos[x].read_at
  /\ told[x] \subseteq told'[x] /\ unheard[x] \subseteq unheard'[x]
  /\ (book'[x] # Absent /\ (pos'[x].refused # 0 \/ OffLadder(book'[x]))) => x \in ask \/ Flag(x)

StoredLog(i) ==
  LET p == log[i].pool
  IN IF book[p] = Absent THEN i \in unheard'[p]
     ELSE log[i].block > pos[p].read_at => i \in told'[p]

StoredBurst(b) ==
  /\ \A x \in Pool : StoredPool(x, ApplyWrites(b).ask)
  /\ \A i \in Ids(b) : StoredLog(i)

LEMMA BurstStored ==
  ASSUME ChainInv, PoolsInv, NEW b \in Seq(Hearing), Store(ApplyWrites(b))
  PROVE  /\ StoredBurst(b)
         /\ book' \in [Pool -> Snapshot \cup {Absent}] /\ pos' \in [Pool -> Positions]
         /\ told' \in [Pool -> SUBSET Id] /\ unheard' \in [Pool -> SUBSET Id]
         /\ \A x \in Pool : PoolGood(log, x, book'[x], pos'[x], told'[x])
<1> DEFINE v == ApplyWrites(b)
           u == Writer
<1>1. GoodWriter(v) /\ Keeps(u, v) /\ Taken(v, b)
  BY WriterGood, BurstKeeps DEF ChainInv, HistoryInv
<1>2. book' = v.book /\ pos' = v.pos /\ told' = v.told /\ unheard' = v.unheard
  BY DEF Store
<1>3. u.book = book /\ u.pos = pos /\ u.told = told /\ u.unheard = unheard
  BY DEF Writer
<1> HIDE DEF v, u
<1>4. ASSUME NEW x \in Pool PROVE StoredPool(x, v.ask)
  <2>1. KeepsPool(u, v, x)
    BY <1>1 DEF Keeps
  <2> QED BY <1>2, <1>3, <2>1 DEF KeepsPool, StoredPool, Flag, Flagged, Held
<1>5. ASSUME NEW i \in Ids(b) PROVE StoredLog(i)
  <2>1. PICK k \in 1..Len(b) : i = b[k].id
    BY DEF Ids
  <2>5. b[k] \in Hearing
    OBVIOUS
  <2>2. Takes(v, i) /\ i \in 1..Len(log)
    BY <1>1, <2>1, <2>5 DEF Taken, Hearing
  <2>3. log[i].pool \in Pool
    BY <2>2, EntryShape DEF ChainInv, HistoryInv, Entries, LogEntry
  <2>4. KeepsPool(u, v, log[i].pool)
    BY <1>1, <2>3 DEF Keeps
  <2> QED BY <1>2, <1>3, <2>2, <2>4 DEF Takes, KeepsPool, StoredLog
<1>6. v \in WriterSet /\ \A x \in Pool : Good(v, x)
  BY <1>1 DEF GoodWriter
<1>7. /\ v.book \in [Pool -> Snapshot \cup {Absent}] /\ v.pos \in [Pool -> Positions]
      /\ v.told \in [Pool -> SUBSET Id] /\ v.unheard \in [Pool -> SUBSET Id]
  BY <1>6 DEF WriterSet
<1>8. \A x \in Pool : PoolGood(log, x, v.book[x], v.pos[x], v.told[x])
  BY <1>6 DEF Good, PoolGood
<1> QED BY <1>2, <1>4, <1>5, <1>7, <1>8 DEF StoredBurst, v

\* Which steps apply a burst, and what they ask for.
LEMMA FeedBursts ==
  ASSUME ChainInv, FeedInv, Preconfirmed \/ Confirmed \/ Flush \/ Rejoin
  PROVE  /\ \E b \in Seq(Hearing) : Bursts(b) /\ (RequestAny(ApplyWrites(b).ask) \/ Rejoin)
         /\ UNCHANGED <<chainVars, newest>>
<1>1. held \in Seq(Hearing) /\ Len(log) \in Nat /\ <<>> \in Seq(Hearing)
  BY EntryShape DEF ChainInv, HistoryInv, Entries, FeedInv
<1>2. \A b : Bursts(b) => b \in Seq(Hearing)
  BY <1>1 DEF Bursts
<1>3. CASE Preconfirmed
  <2>1. PICK i \in 1..Len(log) : Hold(i, TRUE)
    BY <1>3, PreconfirmedShape
  <2>2. (\E b : Bursts(b) /\ RequestAny(ApplyWrites(b).ask)) /\ UNCHANGED newest
    BY <1>1, <2>1, HoldBursts
  <2> QED BY <1>2, <1>3, <2>2 DEF Preconfirmed
<1>4. CASE Confirmed
  <2>1. PICK i : ConfirmedOf(i)
    BY <1>4, ConfirmedShape
  <2>2. i \in 1..Len(log) /\ Hold(i, FALSE)
    BY <2>1 DEF ConfirmedOf
  <2>3. (\E b : Bursts(b) /\ RequestAny(ApplyWrites(b).ask)) /\ UNCHANGED newest
    BY <1>1, <2>2, HoldBursts
  <2> QED BY <1>2, <1>4, <2>3 DEF Confirmed
<1>5. HeldIds = Ids(held)
  BY DEF HeldIds, Ids
<1>6. CASE Flush
  <2>1. Store(ApplyWrites(held)) /\ RequestAny(ApplyWrites(held).ask) /\ UNCHANGED <<chainVars, newest>>
    BY <1>6 DEF Flush
  <2>2. Bursts(held)
    BY <1>5, <2>1 DEF Bursts
  <2> QED BY <1>2, <2>1, <2>2
<1>7. CASE Rejoin
  <2>1. Store(ApplyWrites(held)) /\ UNCHANGED <<chainVars, newest>>
    BY <1>7 DEF Rejoin
  <2>2. Bursts(held)
    BY <1>5, <2>1 DEF Bursts
  <2> QED BY <1>2, <1>7, <2>1, <2>2
<1> QED BY <1>3, <1>4, <1>6, <1>7

\* A read of the pool, in the task's hands.
Reads(p) ==
  /\ p \in Pool /\ loop.at = "read" /\ p \in DOMAIN loop.fresh /\ loop.last >= newest

\* Its block, and what the pool was before.
LEMMA ReadHeld ==
  ASSUME ChainInv, FeedInv, LoopInv, ReadInv, PoolsInv, NEW p, Reads(p)
  PROVE  /\ loop.last \in Nat /\ loop.last <= head
         /\ ReadOf(log, p, loop.last, loop.fresh[p])
         /\ Readable(log, p, loop.last, pos[p], told[p])
         /\ book[p] # Absent => Sound(log, p, book[p], pos[p], told[p])
         /\ book[p] = Absent => told[p] = {}
<1>1. p \in Pool /\ loop.at = "read" /\ p \in DOMAIN loop.fresh /\ loop.last >= newest
  BY DEF Reads
<1>2. head \in Nat /\ newest \in 0..head /\ watch \in 0..head /\ loop.last \in 0..watch
  BY DEF ChainInv, HistoryInv, FeedInv, LoopInv
<1>3. loop.last \in Nat /\ loop.last <= head
  BY <1>2
<1>4. ReadOf(log, p, loop.last, loop.fresh[p])
  BY <1>1 DEF ReadInv
<1>5. PoolGood(log, p, book[p], pos[p], told[p]) /\ pos[p].read_at <= newest /\ pos[p] \in Positions
  BY <1>1 DEF PoolsInv
<1>6. pos[p].read_at <= loop.last
  <2>1. pos[p].read_at \in Nat
    BY <1>5 DEF Positions
  <2> QED BY <1>1, <1>2, <1>3, <1>5, <2>1
<1>7. Told(log, p, told[p]) /\ AppliedRight(log, pos[p], told[p])
  <2>1. CASE book[p] = Absent
    BY <1>5, <2>1 DEF PoolGood, NoPositions, Told, AppliedRight, ChangesOf
  <2>2. CASE book[p] # Absent
    BY <1>5, <2>2 DEF PoolGood, Sound
  <2> QED BY <2>1, <2>2
<1> QED BY <1>3, <1>4, <1>5, <1>6, <1>7 DEF Readable, PoolGood

\* The changes that do not fit on the read's ladder, or in its liquidity.
Unfit(p) ==
  {c \in Carried(p) : log[c].trouble = "read"}
    \cup IF KeepsSwap(p) THEN {}
         ELSE {c \in ActiveAt(Carried(p), TickAfter(loop.fresh[p])) : log[c].trouble = "sum"}

\* The flag: the newest block it stands for.
LEMMA FreshFlag ==
  ASSUME ChainInv, FeedInv, LoopInv, ReadInv, PoolsInv, NEW p, Reads(p)
  PROVE  /\ FreshPositions(p) \in Positions
         /\ FreshPositions(p).applied = Since(log, pos[p].applied, loop.last)
         /\ FreshPositions(p).read_at = loop.last
         /\ pos[p].refused > loop.last => FreshPositions(p).refused >= pos[p].refused
         /\ \A c \in Unfit(p) : FreshPositions(p).refused >= log[c].block
<1> DEFINE n == loop.last
           q == pos[p]
           r == FreshPositions(p)
           C == {log[c].block : c \in Unfit(p)}
           B == {b \in {q.refused} \cup C : b > n}
           N == q.refused + head + 1
<1>1. /\ n \in Nat /\ q \in Positions /\ Told(log, p, told[p]) /\ AppliedRight(log, q, told[p])
      /\ p \in Pool /\ head \in Nat
  BY ReadHeld DEF Readable, Reads, ChainInv, HistoryInv
<1>2. q.refused \in Nat /\ q.applied \in SUBSET Id
  BY <1>1 DEF Positions
<1>3. Carried(p) = Since(log, q.applied, n)
  BY DEF Carried, Since
<1>4. r = [applied |-> Carried(p), read_at |-> n, refused |-> Most(B)]
  BY DEF FreshPositions, Unfit
<1>5. Unfit(p) \subseteq Carried(p)
  BY DEF Unfit, ActiveAt, Changes
<1>6. Carried(p) \subseteq 1..Len(log)
  BY <1>1, <1>3 DEF Since, AppliedRight, ChangesOf, Told
<1>7. \A c \in Unfit(p) : log[c].block > n /\ log[c].block <= head + 1 /\ log[c].block \in Nat
  <2>1. \A c \in 1..Len(log) : log[c].block <= head + 1 /\ log[c].block \in Nat
    BY EntryShape DEF ChainInv, HistoryInv, Entries
  <2> QED BY <1>3, <1>5, <1>6, <2>1 DEF Since
<1> HIDE DEF q, r, n
<1>8. N \in Nat
  BY <1>1, <1>2
<1>9. B \subseteq 1..N
  <2>1. ASSUME NEW b \in B PROVE b \in 1..N
    <3>1. b > n /\ (b = q.refused \/ b \in C)
      OBVIOUS
    <3>2. CASE b = q.refused
      BY <1>1, <1>2, <3>1, <3>2
    <3>3. CASE b \in C
      BY <1>1, <1>2, <1>7, <3>1, <3>3
    <3> QED BY <3>1, <3>2, <3>3
  <2> QED BY <2>1
<1>10. Most(B) \in Nat /\ \A b \in B : b <= Most(B)
  <2> HIDE DEF B, N
  <2>1. Most(B) \in 0..N /\ \A b \in B : b <= Most(B)
    BY <1>8, <1>9, MostOf
  <2> QED BY <1>8, <2>1
<1>11. q.refused > n => q.refused \in B
  OBVIOUS
<1>12. \A c \in Unfit(p) : log[c].block \in B
  BY <1>7
<1> HIDE DEF B
<1>13. /\ r \in Positions /\ r.applied = Carried(p) /\ r.read_at = n /\ r.refused = Most(B)
  BY <1>1, <1>2, <1>3, <1>4, <1>10 DEF Positions, Since
<1>14. /\ q.refused > n => r.refused >= q.refused
       /\ \A c \in Unfit(p) : r.refused >= log[c].block
  <2>1. \A b \in B : b \in Nat
    BY <1>9
  <2>2. \A b \in B : r.refused >= b
    BY <1>10, <1>13, <2>1
  <2> QED BY <1>11, <1>12, <2>2
<1> QED BY <1>3, <1>13, <1>14 DEF q, r, n

LEMMA FreshCarries ==
  ASSUME ChainInv, FeedInv, LoopInv, ReadInv, PoolsInv, NEW p, Reads(p)
  PROVE  Carries(log, loop.last, pos[p], FreshPositions(p))
<1>1. Carried(p) = Since(log, pos[p].applied, loop.last)
  BY DEF Carried, Since
<1>2. \A c \in Carried(p) : log[c].trouble = "read" => c \in Unfit(p)
  BY DEF Unfit
<1> QED BY <1>1, <1>2, FreshFlag DEF Carries

\* The state a read leaves is sound for the logs it held and those told since.
ReadTold(p) == loop.fresh[p] \cup {i \in told[p] : log[i].block > loop.last}

LEMMA FreshSound ==
  ASSUME ChainInv, FeedInv, LoopInv, ReadInv, PoolsInv, NEW p, Reads(p)
  PROVE  Sound(log, p, Fresh(p), FreshPositions(p), ReadTold(p))
<1> DEFINE n == loop.last
           s == book[p]
           q == pos[p]
           T == told[p]
           R == loop.fresh[p]
           U == ReadTold(p)
           r == FreshPositions(p)
           z == Fresh(p)
           t == TickOf(log, R)
           fits == {c \in ActiveOf(log, r.applied, t) : log[c].trouble # "sum"}
           taken == {c \in r.applied : log[c].trouble # "read"}
           ladder == Plus(Plus(Zero, ChangesOf(log, R)), taken)
           liq == Plus(Plus(Zero, ActiveOf(log, R, t)), fits)
<1>1. /\ n \in Nat /\ ReadOf(log, p, n, R) /\ Readable(log, p, n, q, T)
      /\ s # Absent => Sound(log, p, s, q, T)
      /\ s = Absent => T = {}
  BY ReadHeld
<1>2. Carries(log, n, q, r)
  BY FreshCarries
<1>3. History(log) /\ U = R \cup Since(log, T, n) /\ R \subseteq 1..Len(log)
  BY <1>1 DEF ChainInv, HistoryInv, ReadTold, Since, ReadOf, Told
<1>4. r.applied = Carried(p) /\ r \in Positions
  BY FreshFlag DEF Carried, Since
<1>5. TickAfter(R) = t /\ Changes(R) = ChangesOf(log, R) /\ ActiveAt(R, t) = ActiveOf(log, R, t)
      /\ ActiveAt(Carried(p), t) = ActiveOf(log, r.applied, t)
  BY <1>4, LogSays
<1>6. z = IF KeepsSwap(p)
          THEN [s EXCEPT !.ladder = ladder, !.cover = t]
          ELSE [tick |-> t, liq |-> liq, ladder |-> ladder, cover |-> t, last |-> 0]
  BY <1>4, <1>5 DEF Fresh
<1>7. t \in Tick
  BY <1>3, LastSwapOf
<1>8. ladder \in Count /\ liq \in Count
  BY ZeroType, PlusType
<1>9. ladder = LadderOf(log, U) \/ r.refused # 0
  <2> HIDE DEF r, U, n, q, T, R, taken
  <2>1. taken = {c \in r.applied : log[c].trouble # "read"}
    BY DEF taken
  <2> QED BY <1>1, <1>2, <1>3, <2>1, ReadLadder
<1>10. CASE KeepsSwap(p)
  <2>1. s # Absent /\ s.last # 0 /\ log[s.last].block > n
    BY <1>10 DEF KeepsSwap, Held, Block
  <2>2. Sound(log, p, s, q, T) /\ s \in Snapshot
    BY <1>1, <2>1 DEF Sound
  <2>3. z = [s EXCEPT !.ladder = ladder, !.cover = t]
    BY <1>6, <1>10
  <2> HIDE DEF z, r, U, n, q, T, R, s, ladder, liq, t, fits
  <2>4. /\ z \in Snapshot /\ z.tick = s.tick /\ z.liq = s.liq /\ z.last = s.last
        /\ z.ladder = ladder
    BY <1>7, <1>8, <2>2, <2>3 DEF Snapshot
  <2>5. z.ladder = LadderOf(log, U) \/ r.refused # 0
    BY <1>9, <2>4
  <2>6. Sound(log, p, z, r, U)
    BY <1>1, <1>2, <1>3, <2>1, <2>2, <2>4, <2>5, SoundKept
  <2> QED BY <2>6 DEF z, r, U
<1>11. CASE ~KeepsSwap(p)
  <2>1. z = [tick |-> t, liq |-> liq, ladder |-> ladder, cover |-> t, last |-> 0]
    BY <1>6, <1>11
  <2>2. \A c \in ActiveOf(log, r.applied, t) : log[c].trouble = "sum" => r.refused >= log[c].block
    <3>1. \A c \in ActiveOf(log, r.applied, t) : log[c].trouble = "sum" => c \in Unfit(p)
      BY <1>5, <1>11 DEF Unfit
    <3> HIDE DEF t
    <3> QED BY <3>1, FreshFlag
  <2>3. \A j \in SwapsOf(log, T) : log[j].block <= n
    <3>1. CASE s = Absent
      BY <1>1, <3>1 DEF SwapsOf
    <3>2. CASE s # Absent
      <4>1. Sound(log, p, s, q, T)
        BY <1>1, <3>2
      <4>2. LastRight(log, s, q, T) /\ T \subseteq 1..Len(log) /\ q.read_at <= n /\ q.read_at \in Nat
        BY <1>1, <4>1 DEF Sound, Told, Readable, Positions
      <4>3. /\ \A i \in 1..Len(log) : log[i].block \in Nat
            /\ \A i, j \in 1..Len(log) : i <= j => log[i].block <= log[j].block
        BY <1>3, EntryShape DEF Entries
      <4>4. ASSUME NEW j \in SwapsOf(log, T) PROVE log[j].block <= n
        <5>1. j \in 1..Len(log)
          BY <4>2 DEF SwapsOf
        <5>2. CASE s.last = 0
          <6>1. log[j].block <= q.read_at
            BY <4>2, <5>2 DEF LastRight
          <6>2. log[j].block \in Nat
            BY <4>3, <5>1
          <6> HIDE DEF n, q
          <6> QED BY <1>1, <4>2, <6>1, <6>2
        <5>3. CASE s.last # 0
          <6>1. s.last \in SwapsOf(log, T) /\ j <= s.last
            BY <4>2, <5>3 DEF LastRight
          <6>2. s.last \in 1..Len(log)
            BY <4>2, <6>1 DEF SwapsOf
          <6>3. log[j].block <= log[s.last].block
            BY <4>3, <5>1, <6>1, <6>2
          <6>4. ~(log[s.last].block > n)
            BY <1>11, <3>2, <5>3 DEF KeepsSwap, Held, Block
          <6>5. log[j].block \in Nat /\ log[s.last].block \in Nat
            BY <4>3, <5>1, <6>2
          <6> HIDE DEF n, s
          <6> QED BY <1>1, <6>3, <6>4, <6>5
        <5> QED BY <5>2, <5>3
      <4> QED BY <4>4
    <3> QED BY <3>1, <3>2
  <2>4. fits = {c \in ActiveOf(log, r.applied, t) : log[c].trouble # "sum"} /\ t = TickOf(log, R)
        /\ liq = Plus(Plus(Zero, ActiveOf(log, R, t)), fits)
    OBVIOUS
  <2> HIDE DEF z, r, U, n, q, T, R, s, ladder, liq, t, fits
  <2>5. /\ z \in Snapshot /\ z.tick = t /\ z.last = 0 /\ z.liq = liq /\ z.ladder = ladder
    BY <1>7, <1>8, <2>1 DEF Snapshot
  <2>6. z.ladder = LadderOf(log, U) \/ r.refused # 0
    BY <1>9, <2>5
  <2>7. Sound(log, p, z, r, U)
    BY <1>1, <1>2, <1>3, <2>2, <2>3, <2>4, <2>5, <2>6, SoundReplaced
  <2> QED BY <2>7 DEF z, r, U
<1> QED BY <1>10, <1>11

\* The reload's write, pool by pool.
Reloaded(p) ==
  IF p \in DOMAIN loop.fresh
  THEN /\ book'[p] = Fresh(p) /\ pos'[p] = FreshPositions(p) /\ told'[p] = ReadTold(p)
       /\ unheard'[p] = {i \in unheard[p] : log[i].block > loop.last}
  ELSE IF p \in loop.specs
  THEN /\ book'[p] = Absent /\ pos'[p] = NoPositions /\ told'[p] = {}
       /\ unheard'[p] = unheard[p] \cup told[p]
  ELSE book'[p] = book[p] /\ pos'[p] = pos[p] /\ told'[p] = told[p] /\ unheard'[p] = unheard[p]

LEMMA ReloadShape ==
  ASSUME ReloadWrites
  PROVE  /\ \A p \in Pool : Reloaded(p)
         /\ DOMAIN book' = Pool /\ DOMAIN pos' = Pool /\ DOMAIN told' = Pool /\ DOMAIN unheard' = Pool
         /\ book' = [p \in Pool |-> book'[p]] /\ pos' = [p \in Pool |-> pos'[p]]
         /\ told' = [p \in Pool |-> told'[p]] /\ unheard' = [p \in Pool |-> unheard'[p]]
         /\ newest' = loop.last /\ loop.last >= newest /\ loop.at = "read" /\ UNCHANGED chainVars
BY DEF ReloadWrites, Reloaded, ReadTold, LostPositions

LEMMA ReloadPools ==
  ASSUME ChainInv, FeedInv, LoopInv, ReadInv, PoolsInv, ReloadWrites
  PROVE  PoolsInv'
<1>1. /\ book' = [p \in Pool |-> book'[p]] /\ pos' = [p \in Pool |-> pos'[p]]
      /\ told' = [p \in Pool |-> told'[p]] /\ unheard' = [p \in Pool |-> unheard'[p]]
      /\ newest' = loop.last /\ loop.last >= newest /\ loop.at = "read" /\ UNCHANGED chainVars
  BY ReloadShape
<1>2. loop.last \in Nat /\ newest \in Nat /\ Len(log) \in Nat /\ 1..Len(log) \subseteq Id
  BY EntryShape DEF ChainInv, HistoryInv, FeedInv, LoopInv, Entries
<1>3. ASSUME NEW p \in Pool
      PROVE  /\ book'[p] \in Snapshot \cup {Absent} /\ pos'[p] \in Positions
             /\ told'[p] \in SUBSET Id /\ unheard'[p] \in SUBSET Id
             /\ PoolGood(log, p, book'[p], pos'[p], told'[p]) /\ pos'[p].read_at <= loop.last
  <2>1. /\ book[p] \in Snapshot \cup {Absent} /\ pos[p] \in Positions
        /\ told[p] \in SUBSET Id /\ unheard[p] \in SUBSET Id
        /\ PoolGood(log, p, book[p], pos[p], told[p]) /\ pos[p].read_at <= newest
    BY DEF PoolsInv
  <2>2. Reloaded(p)
    BY ReloadShape
  <2>3. CASE p \in DOMAIN loop.fresh
    <3>1. Reads(p)
      BY <1>1, <2>3 DEF Reads
    <3>2. Sound(log, p, Fresh(p), FreshPositions(p), ReadTold(p)) /\ FreshPositions(p).read_at = loop.last
      BY <3>1, FreshSound, FreshFlag
    <3>3. /\ book'[p] = Fresh(p) /\ pos'[p] = FreshPositions(p) /\ told'[p] = ReadTold(p)
          /\ unheard'[p] \subseteq unheard[p]
      BY <2>2, <2>3 DEF Reloaded
    <3>4. Fresh(p) \in Snapshot /\ FreshPositions(p) \in Positions /\ ReadTold(p) \subseteq Id
      BY <1>2, <3>2 DEF Sound, Told
    <3>5. Fresh(p) # Absent
      BY <3>4, AbsentIsNone
    <3> QED BY <1>2, <2>1, <3>2, <3>3, <3>4, <3>5 DEF PoolGood
  <2>4. CASE p \notin DOMAIN loop.fresh /\ p \in loop.specs
    <3>1. /\ book'[p] = Absent /\ pos'[p] = NoPositions /\ told'[p] = {}
          /\ unheard'[p] = unheard[p] \cup told[p]
      BY <2>2, <2>4 DEF Reloaded
    <3> QED BY <1>2, <2>1, <3>1 DEF PoolGood, NoPositions, Positions
  <2>5. CASE p \notin DOMAIN loop.fresh /\ p \notin loop.specs
    <3>1. book'[p] = book[p] /\ pos'[p] = pos[p] /\ told'[p] = told[p] /\ unheard'[p] = unheard[p]
      BY <2>2, <2>5 DEF Reloaded
    <3>2. pos[p].read_at <= loop.last
      <4>1. pos[p].read_at \in Nat
        BY <2>1 DEF Positions
      <4> QED BY <1>1, <1>2, <2>1, <4>1
    <3> QED BY <2>1, <3>1, <3>2
  <2> QED BY <2>3, <2>4, <2>5
<1>4. /\ book' \in [Pool -> Snapshot \cup {Absent}] /\ pos' \in [Pool -> Positions]
      /\ told' \in [Pool -> SUBSET Id] /\ unheard' \in [Pool -> SUBSET Id]
  BY <1>1, <1>3
<1>5. log' = log
  BY <1>1 DEF chainVars
<1> QED BY <1>1, <1>3, <1>4, <1>5 DEF PoolsInv

\* A removal takes a change back, or nothing.
RetractOf(i) ==
  /\ i \in unsaid /\ Retract(i) /\ Request(FALSE, {log[i].pool})
  /\ UNCHANGED <<chainVars, book, status, newest, unheard, blind>>

LEMMA RemovedShape ==
  ASSUME FeedInv, ChainInv, Removed
  PROVE  \E i \in 1..Len(log) : i \in gone /\ log[i].pool \in Pool /\ RetractOf(i)
<1>1. PICK i \in unsaid : RetractOf(i)
  BY DEF Removed, RetractOf
<1>2. i \in gone /\ i \in 1..Len(log)
  BY DEF FeedInv, ChainInv, HistoryInv
<1>3. log[i].pool \in Pool
  BY <1>2, EntryShape DEF ChainInv, HistoryInv, Entries, LogEntry
<1> QED BY <1>1, <1>2, <1>3

\* What it does to its pool.
RetractShape(i, p) ==
  /\ \A x \in Pool \ {p} : pos'[x] = pos[x] /\ told'[x] = told[x]
  /\ pos' \in [Pool -> Positions] /\ told' \in [Pool -> SUBSET Id]
  /\ PoolGood(log, p, book[p], pos'[p], told'[p])
  /\ pos'[p].read_at = pos[p].read_at
  /\ told[p] \subseteq told'[p] \cup {i}

LEMMA RetractSound ==
  ASSUME ChainInv, PoolsInv, NEW i \in 1..Len(log), NEW p \in Pool, p = log[i].pool, Retract(i)
  PROVE  RetractShape(i, p)
<1> DEFINE q == pos[p]
           T == told[p]
           r == [q EXCEPT !.applied = @ \ {i}, !.refused = Max({@, log[i].block})]
           U == T \ {i}
<1>1. /\ pos \in [Pool -> Positions] /\ told \in [Pool -> SUBSET Id]
      /\ PoolGood(log, p, book[p], q, T) /\ q \in Positions /\ T \in SUBSET Id
  BY DEF PoolsInv
<1>2. /\ History(log) /\ log[i].block \in Nat /\ log[i].kind \in {"swap", "change"}
  BY EntryShape DEF ChainInv, HistoryInv, Entries, LogEntry
<1>3. CASE UNCHANGED <<pos, told>>
  BY <1>1, <1>3 DEF RetractShape
<1>4. CASE log[i].kind # "swap" /\ Held(p)
  <2>1. /\ pos' = [pos EXCEPT ![p].applied = @ \ {i}, ![p].refused = Max({@, log[i].block})]
        /\ told' = [told EXCEPT ![p] = @ \ {i}]
    BY <1>4 DEF Retract
  <2>2. pos' = [pos EXCEPT ![p] = r] /\ told' = [told EXCEPT ![p] = U]
    BY <1>1, <2>1 DEF Positions
  <2>3. q.refused \in Nat
    BY <1>1 DEF Positions
  <2>4. /\ Max({q.refused, log[i].block}) \in Nat
        /\ Max({q.refused, log[i].block}) >= q.refused /\ Max({q.refused, log[i].block}) >= log[i].block
    BY <1>2, <2>3, MaxOfTwo
  <2>5. /\ r \in Positions /\ r.applied = q.applied \ {i} /\ r.read_at = q.read_at
        /\ r.refused = Max({q.refused, log[i].block})
    BY <1>1, <2>4 DEF Positions
  <2>6. Raised(q, r, log[i].block)
    BY <2>4, <2>5 DEF Raised
  <2>7. Sound(log, p, book[p], q, T) /\ log[i].kind = "change" /\ book[p] # Absent
    BY <1>1, <1>2, <1>4 DEF PoolGood, Held
  <2>8. U = T \ {i}
    OBVIOUS
  <2> HIDE DEF r, U, q, T
  <2>9. Sound(log, p, book[p], r, U)
    BY <1>2, <2>5, <2>6, <2>7, <2>8, SoundRetract
  <2>10. /\ pos'[p] = r /\ told'[p] = U
         /\ \A x \in Pool \ {p} : pos'[x] = pos[x] /\ told'[x] = told[x]
         /\ pos' \in [Pool -> Positions] /\ told' \in [Pool -> SUBSET Id]
    BY <1>1, <2>2, <2>5, <2>8
  <2>11. T \subseteq U \cup {i}
    BY <2>8
  <2> QED BY <2>5, <2>7, <2>9, <2>10, <2>11 DEF RetractShape, PoolGood, q, T
<1> QED BY <1>3, <1>4 DEF Retract

\* The pools as the chain goes on.
LEMMA PoolsQuiet ==
  ASSUME ChainInv, LogGrows, PoolsInv, UNCHANGED <<book, pos, told, unheard, newest>>
  PROVE  PoolsInv'
<1>1. ASSUME NEW x \in Pool PROVE PoolGood(log', x, book[x], pos[x], told[x])
  <2>1. PoolGood(log, x, book[x], pos[x], told[x])
    BY DEF PoolsInv
  <2>2. History(log) /\ Grows(log, log')
    BY DEF ChainInv, HistoryInv, LogGrows
  <2>3. Sound(log, x, book[x], pos[x], told[x]) => Sound(log', x, book[x], pos[x], told[x])
    BY <2>2, SoundGrows
  <2> QED BY <2>1, <2>3 DEF PoolGood
<1> QED BY <1>1 DEF PoolsInv

\* The steps that leave the book alone.
BookStands ==
  ChainStep \/ HeadSeen \/ Connect \/ Drop \/ FullReloadDue \/ Take \/ Wait \/ Wake \/ Begin \/ ReloadFails

LEMMA BookStandsStill ==
  ASSUME BookStands
  PROVE  UNCHANGED <<book, pos, told, unheard, newest, status, blind>>
BY DEF BookStands, ChainStep, NewLog, Seal, Reorg, HeadSeen, Connect, Drop, FullReloadDue, Take, Wait, Wake,
       Begin, ReloadFails, bookVars

LEMMA NextSteps ==
  ASSUME Next
  PROVE  BookStands \/ Preconfirmed \/ Confirmed \/ Flush \/ Rejoin \/ Removed \/ ReloadWrites
BY DEF Next, BookStands, FeedStep, LoopStep

LEMMA PoolsAfter ==
  ASSUME ChainInv, FeedInv, LoopInv, ReadInv, PoolsInv, LogGrows, Next
  PROVE  PoolsInv'
<1>1. CASE BookStands
  BY <1>1, BookStandsStill, PoolsQuiet
<1>2. CASE Preconfirmed \/ Confirmed \/ Flush \/ Rejoin
  <2>1. PICK b \in Seq(Hearing) : Bursts(b)
    BY <1>2, FeedBursts
  <2>2. UNCHANGED <<chainVars, newest>>
    BY <1>2, FeedBursts
  <2>3. Store(ApplyWrites(b))
    BY <2>1 DEF Bursts
  <2>4. /\ StoredBurst(b)
        /\ book' \in [Pool -> Snapshot \cup {Absent}] /\ pos' \in [Pool -> Positions]
        /\ told' \in [Pool -> SUBSET Id] /\ unheard' \in [Pool -> SUBSET Id]
        /\ \A x \in Pool : PoolGood(log, x, book'[x], pos'[x], told'[x])
    BY <2>3, BurstStored
  <2>5. \A x \in Pool : pos'[x].read_at = pos[x].read_at /\ pos[x].read_at <= newest
    BY <2>4 DEF StoredBurst, StoredPool, PoolsInv
  <2> QED BY <2>2, <2>4, <2>5 DEF PoolsInv, chainVars
<1>3. CASE Removed
  <2>1. PICK i \in 1..Len(log) : log[i].pool \in Pool /\ RetractOf(i)
    BY <1>3, RemovedShape
  <2> DEFINE p == log[i].pool
  <2>2. Retract(i) /\ UNCHANGED <<chainVars, book, newest, unheard>>
    BY <2>1 DEF RetractOf
  <2>3. RetractShape(i, p)
    BY <2>1, <2>2, RetractSound
  <2> HIDE DEF p
  <2>4. \A x \in Pool : PoolGood(log, x, book[x], pos'[x], told'[x]) /\ pos'[x].read_at <= newest
    <3>1. ASSUME NEW x \in Pool
          PROVE  PoolGood(log, x, book[x], pos'[x], told'[x]) /\ pos'[x].read_at <= newest
      <4>1. PoolGood(log, x, book[x], pos[x], told[x]) /\ pos[x].read_at <= newest
        BY DEF PoolsInv
      <4>2. CASE x = p
        BY <2>3, <4>1, <4>2 DEF RetractShape
      <4>3. CASE x # p
        BY <2>3, <4>1, <4>3 DEF RetractShape
      <4> QED BY <4>2, <4>3
    <3> QED BY <3>1
  <2> QED BY <2>2, <2>3, <2>4 DEF PoolsInv, RetractShape, chainVars
<1>4. CASE ReloadWrites
  BY <1>4, ReloadPools
<1> QED BY <1>1, <1>2, <1>3, <1>4, NextSteps

-----------------------------------------------------------------------------
(* The queue and what is flagged.                                          *)

\* What is asked for stays so, or is in the task's hands.
LEMMA DueStays ==
  ASSUME BookStands, LoopInv, AskInv
  PROVE  /\ \A p \in Pool : Due(p) => Due(p)'
         /\ loop'.at \in {"take", "idle", "asleep"} => loop'.full = FALSE /\ loop'.pools = {}
<1>1. LoopFields \subseteq DOMAIN loop
  BY DEF LoopInv, LoopFields
<1>2. loop.at \in {"take", "idle", "asleep"} => loop.full = FALSE /\ loop.pools = {}
  BY DEF AskInv
<1>3. CASE ChainStep \/ HeadSeen \/ Connect \/ Drop
  <2>1. UNCHANGED loopVars
    BY <1>3 DEF ChainStep, NewLog, Seal, Reorg, HeadSeen, Connect, Drop
  <2> QED BY <1>2, <2>1 DEF Due, loopVars
<1>4. CASE FullReloadDue
  <2>1. pending'.full = TRUE /\ UNCHANGED loop
    BY <1>4 DEF FullReloadDue, Request, Ask
  <2> QED BY <1>2, <2>1 DEF Due
<1>5. CASE Take
  <2>1. CASE pending = NoWork
    <3>1. /\ loop'.full = loop.full /\ loop'.pools = loop.pools /\ UNCHANGED pending
          /\ loop.full = FALSE /\ loop.pools = {}
      BY <1>1, <1>2, <1>5, <2>1 DEF Take, LoopFields
    <3> QED BY <3>1 DEF Due
  <2>2. CASE pending # NoWork
    <3>1. /\ loop'.full = pending.full /\ loop'.pools = (IF pending.full THEN {} ELSE pending.pools)
          /\ loop.full = FALSE /\ loop.pools = {} /\ loop'.at = "heads"
      BY <1>1, <1>2, <1>5, <2>2 DEF Take, LoopFields
    <3> QED BY <3>1 DEF Due
  <2> QED BY <2>1, <2>2
<1>6. CASE Wait \/ Wake
  <2>1. /\ loop'.full = loop.full /\ loop'.pools = loop.pools /\ UNCHANGED pending
        /\ loop.at \in {"take", "idle", "asleep"}
    BY <1>1, <1>6 DEF Wait, Wake, LoopFields
  <2> QED BY <1>2, <2>1 DEF Due
<1>7. CASE Begin
  <2>1. PICK specs, fresh : loop' = [loop EXCEPT !.at = "read", !.last = watch, !.gapped = FALSE,
                                                 !.specs = specs, !.fresh = fresh]
    BY <1>7 DEF Begin
  <2>2. loop'.full = loop.full /\ loop'.pools = loop.pools /\ UNCHANGED pending /\ loop'.at = "read"
    BY <1>1, <1>7, <2>1 DEF LoopFields, Begin
  <2> QED BY <2>2 DEF Due
<1>8. CASE ReloadFails
  <2>1. /\ pending' = [full |-> pending.full \/ loop.full, pools |-> pending.pools \cup loop.pools]
        /\ loop' = Done
    BY <1>8 DEF ReloadFails, Ask
  <2>2. loop'.full = FALSE /\ loop'.pools = {}
    BY <1>1, <2>1 DEF Done, LoopFields
  <2>3. pending'.full = (pending.full \/ loop.full) /\ pending'.pools = pending.pools \cup loop.pools
    BY <2>1
  <2> QED BY <2>2, <2>3 DEF Due
<1> QED BY <1>3, <1>4, <1>5, <1>6, <1>7, <1>8 DEF BookStands

\* A request is due from then on.
LEMMA RequestDue ==
  ASSUME NEW S, NEW full, Request(full, S), NEW p
  PROVE  /\ p \in S => Due(p)'
         /\ Due(p) => Due(p)'
         /\ UNCHANGED loop
<1>1. /\ pending'.full = (pending.full \/ full) /\ pending'.pools = pending.pools \cup S /\ UNCHANGED loop
  BY DEF Request, Ask
<1> QED BY <1>1 DEF Due

LEMMA AskAfter ==
  ASSUME ChainInv, FeedInv, LoopInv, ReadInv, PoolsInv, AskInv, Next
  PROVE  AskInv'
<1>1. /\ \A p \in Pool : Flag(p) => Due(p)
      /\ loop.at \in {"take", "idle", "asleep"} => loop.full = FALSE /\ loop.pools = {}
  BY DEF AskInv
<1>2. CASE BookStands
  <2>1. \A p \in Pool : Flag(p)' => Flag(p)
    BY <1>2, BookStandsStill DEF Flag, Held, OffLadder
  <2>2. /\ \A p \in Pool : Due(p) => Due(p)'
        /\ loop'.at \in {"take", "idle", "asleep"} => loop'.full = FALSE /\ loop'.pools = {}
    BY <1>2, DueStays
  <2> QED BY <1>1, <2>1, <2>2 DEF AskInv
<1>3. CASE Preconfirmed \/ Confirmed \/ Flush \/ Rejoin
  <2>1. PICK b \in Seq(Hearing) : Bursts(b) /\ (RequestAny(ApplyWrites(b).ask) \/ Rejoin)
    BY <1>3, FeedBursts
  <2> DEFINE ask == ApplyWrites(b).ask
  <2>2. StoredBurst(b)
    BY <2>1, BurstStored DEF Bursts
  <2>3. \A x \in Pool : Flag(x)' => x \in ask \/ Flag(x)
    BY <2>2 DEF StoredBurst, StoredPool, Flag, Held
  <2> HIDE DEF ask
  <2>4. CASE RequestAny(ask)
    <3>1. CASE ask = {}
      <4>1. UNCHANGED loopVars
        BY <2>4, <3>1 DEF RequestAny
      <4>2. \A x \in Pool : Due(x)' = Due(x)
        BY <4>1 DEF Due, loopVars
      <4> QED BY <1>1, <2>3, <3>1, <4>1, <4>2 DEF AskInv, loopVars
    <3>2. CASE ask # {}
      <4>1. Request(FALSE, ask)
        BY <2>4, <3>2 DEF RequestAny
      <4>2. \A x \in Pool : (x \in ask \/ Due(x)) => Due(x)'
        BY <4>1, RequestDue
      <4>3. UNCHANGED loop
        BY <4>1 DEF Request
      <4> QED BY <1>1, <2>3, <4>2, <4>3 DEF AskInv
    <3> QED BY <3>1, <3>2
  <2>5. CASE Rejoin
    <3>1. pending'.full = TRUE
      BY <2>5 DEF Rejoin, Ask
    <3>2. SameWork
      BY <2>5, OutsideWork DEF FeedStep
    <3> QED BY <1>1, <3>1, <3>2 DEF AskInv, Due, SameWork
  <2> QED BY <2>1, <2>4, <2>5 DEF ask
<1>4. CASE Removed
  <2>1. PICK i \in 1..Len(log) : log[i].pool \in Pool /\ RetractOf(i)
    BY <1>4, RemovedShape
  <2> DEFINE p == log[i].pool
  <2>2. Retract(i) /\ Request(FALSE, {p}) /\ UNCHANGED book
    BY <2>1 DEF RetractOf
  <2>3. RetractShape(i, p)
    BY <2>1, <2>2, RetractSound
  <2> HIDE DEF p
  <2>4. \A x \in Pool : Flag(x)' => x = p \/ Flag(x)
    BY <2>2, <2>3 DEF RetractShape, Flag, Held
  <2>5. \A x \in Pool : (x = p \/ Due(x)) => Due(x)'
    BY <2>2, RequestDue
  <2>6. UNCHANGED loop
    BY <2>2 DEF Request
  <2> QED BY <1>1, <2>4, <2>5, <2>6 DEF AskInv
<1>5. CASE ReloadWrites
  <2>1. /\ pending'.pools = pending.pools \cup StillAsked /\ loop' = Done
    BY <1>5 DEF ReloadWrites, Ask
  <2>2. loop'.full = FALSE /\ loop'.pools = {}
    BY <2>1 DEF Done, LoopInv
  <2>3. \A x \in Pool : Flag(x)' => x \in StillAsked
    BY DEF Flag, StillAsked
  <2> QED BY <2>1, <2>2, <2>3 DEF AskInv, Due
<1> QED BY <1>2, <1>3, <1>4, <1>5, NextSteps

-----------------------------------------------------------------------------
(* Nothing is missed.                                                      *)

\* No read is of a block that is not sealed.
LEMMA ReadSealed ==
  ASSUME ChainInv, FeedInv, PoolsInv, NEW p \in Pool
  PROVE  pos[p].read_at \in Nat /\ pos[p].read_at <= head
<1>1. pos[p] \in Positions /\ pos[p].read_at <= newest /\ newest \in 0..head /\ head \in Nat
  BY DEF PoolsInv, FeedInv, ChainInv, HistoryInv
<1>2. pos[p].read_at \in Nat
  BY <1>1 DEF Positions
<1> QED BY <1>1, <1>2

\* A pool whose read and whose logs stand.
LEMMA ReadsStand ==
  ASSUME ChainInv, FeedInv, PoolsInv, WholeReads, LogGrows, NEW p \in Pool, Held(p),
         pos'[p].read_at = pos[p].read_at, \A i \in told[p] : i \in told'[p] \/ i \in gone'
  PROVE  LogsAt(p, pos[p].read_at)' \subseteq told'[p]
<1> DEFINE b == pos[p].read_at
<1>1. b \in Nat /\ b <= head
  BY ReadSealed
<1>2. LogsAt(p, b) \subseteq told[p]
  BY DEF WholeReads
<1> HIDE DEF b
<1>3. \A i : i \in 1..Len(log') /\ log'[i].pool = p /\ log'[i].block <= b /\ i \notin gone'
               => i \in LogsAt(p, b)
  BY <1>1, LogsAtLess
<1>4. \A i : i \in LogsAt(p, pos[p].read_at)'
               => i \in 1..Len(log') /\ log'[i].pool = p /\ log'[i].block <= b /\ i \notin gone'
  BY DEF LogsAt, b
<1> QED BY <1>2, <1>3, <1>4

LEMMA ReadsAfter ==
  ASSUME ChainInv, FeedInv, LoopInv, ReadInv, PoolsInv, WholeReads, LogGrows, Next
  PROVE  WholeReads'
<1> SUFFICES ASSUME NEW p \in Pool, Held(p)'
             PROVE  LogsAt(p, pos[p].read_at)' \subseteq told'[p]
  BY DEF WholeReads
<1>1. book'[p] # Absent
  BY DEF Held
<1>2. CASE BookStands
  <2>1. UNCHANGED <<book, pos, told>>
    BY <1>2, BookStandsStill
  <2> QED BY <1>1, <2>1, ReadsStand DEF Held
<1>3. CASE Preconfirmed \/ Confirmed \/ Flush \/ Rejoin
  <2>1. PICK b \in Seq(Hearing) : Bursts(b)
    BY <1>3, FeedBursts
  <2>2. StoredBurst(b)
    BY <2>1, BurstStored DEF Bursts
  <2>3. StoredPool(p, ApplyWrites(b).ask)
    BY <2>2 DEF StoredBurst
  <2>4. book[p] # Absent /\ pos'[p].read_at = pos[p].read_at /\ told[p] \subseteq told'[p]
    BY <1>1, <2>3 DEF StoredPool
  <2> QED BY <2>4, ReadsStand DEF Held
<1>4. CASE Removed
  <2>1. PICK i \in 1..Len(log) : i \in gone /\ log[i].pool \in Pool /\ RetractOf(i)
    BY <1>4, RemovedShape
  <2>2. Retract(i) /\ UNCHANGED book /\ gone' = gone
    BY <2>1 DEF RetractOf, chainVars
  <2>3. RetractShape(i, log[i].pool)
    BY <2>1, <2>2, RetractSound
  <2>4. pos'[p].read_at = pos[p].read_at /\ told[p] \subseteq told'[p] \cup {i}
    <3>1. CASE p = log[i].pool
      BY <2>3, <3>1 DEF RetractShape
    <3>2. CASE p # log[i].pool
      BY <2>3, <3>2 DEF RetractShape
    <3> QED BY <3>1, <3>2
  <2>5. \A j \in told[p] : j \in told'[p] \/ j \in gone'
    BY <2>1, <2>2, <2>4
  <2>6. Held(p)
    BY <1>1, <2>2 DEF Held
  <2> QED BY <2>4, <2>5, <2>6, ReadsStand
<1>5. CASE ReloadWrites
  <2>1. Reloaded(p) /\ loop.at = "read" /\ loop.last >= newest /\ UNCHANGED chainVars
    BY <1>5, ReloadShape
  <2>2. CASE p \in DOMAIN loop.fresh
    <3>1. pos'[p] = FreshPositions(p) /\ told'[p] = ReadTold(p) /\ Reads(p)
      BY <2>1, <2>2 DEF Reloaded, Reads
    <3>2. pos'[p].read_at = loop.last
      BY <3>1, FreshFlag
    <3>3. LogsAt(p, loop.last) \subseteq loop.fresh[p]
      BY <2>1, <2>2 DEF ReadInv
    <3>4. LogsAt(p, pos[p].read_at)' = LogsAt(p, loop.last)
      BY <2>1, <3>2 DEF LogsAt, chainVars
    <3> QED BY <3>1, <3>3, <3>4 DEF ReadTold
  <2>3. CASE p \notin DOMAIN loop.fresh
    <3>1. book'[p] = book[p] /\ pos'[p] = pos[p] /\ told'[p] = told[p]
      BY <1>1, <2>1, <2>3 DEF Reloaded
    <3> QED BY <1>1, <3>1, ReadsStand DEF Held
  <2> QED BY <2>2, <2>3
<1> QED BY <1>2, <1>3, <1>4, <1>5, NextSteps

\* A log the session is past, if it was so already.
LEMMA PastBefore ==
  ASSUME ChainInv, FeedInv, LogGrows, NEW p, NEW i, i \in LogsAt(p, head)', i <= conf
  PROVE  i \in LogsAt(p, head) /\ log'[i] = log[i] /\ i \notin gone'
<1>1. /\ conf \in 0..Len(log) /\ (conf # 0 => log[conf].block <= head) /\ Len(log) \in Nat /\ head \in Nat
      /\ \A j \in 1..Len(log) : log[j].block \in Nat
      /\ \A j, k \in 1..Len(log) : j <= k => log[j].block <= log[k].block
  BY EntryShape DEF ChainInv, HistoryInv, FeedInv, Entries
<1>2. i \in 1..Len(log') /\ log'[i].pool = p /\ i \notin gone' /\ Len(log') \in Nat
  BY DEF LogsAt, LogGrows
<1>3. i \in 1..Len(log) /\ conf \in 1..Len(log) /\ conf # 0
  BY <1>1, <1>2
<1>4. log'[i] = log[i] /\ i \notin gone
  BY <1>2, <1>3 DEF LogGrows, Grows
<1>5. log[i].block <= head
  <2>1. log[i].block <= log[conf].block
    BY <1>1, <1>3
  <2> QED BY <1>1, <1>3, <2>1
<1> QED BY <1>2, <1>3, <1>4, <1>5 DEF LogsAt

\* Steps that neither confirm nor subscribe: what was taken or held still is.
LEMMA SessionStands ==
  ASSUME ChainInv, FeedInv, WholeSession, LogGrows, UNCHANGED <<conf, joined>>,
         session' = "up" => session = "up",
         \A p \in Pool : \A i \in 1..Len(log) : i \in LogsAt(p, head) /\ i \notin gone' =>
            (i \in told[p] \cup HeldIds \cup unheard[p]
               => i \in told'[p] \cup HeldIds' \cup unheard'[p])
  PROVE  WholeSession'
<1> SUFFICES ASSUME session' = "up", NEW p \in Pool, NEW i, i \in LogsAt(p, head)', i <= conf,
                    log'[i].block > joined
             PROVE  i \in told'[p] \cup HeldIds' \cup unheard'[p]
  BY DEF WholeSession
<1>1. i \in LogsAt(p, head) /\ log'[i] = log[i] /\ i \notin gone'
  BY PastBefore
<1>2. i \in told[p] \cup HeldIds \cup unheard[p]
  BY <1>1 DEF WholeSession
<1>3. i \in 1..Len(log)
  BY <1>1 DEF LogsAt
<1> QED BY <1>1, <1>2, <1>3

\* A session that subscribes is past nothing of a later block.
LEMMA SessionStarts ==
  ASSUME ChainInv, NEW at, at \in 0..head, Subscribes(at), UNCHANGED chainVars
  PROVE  WholeSession'
<1>1. joined' = at /\ \A i \in 1..Len(log) : i <= conf' => log[i].block <= at
  BY SubscribesShape
<1>2. head \in Nat /\ \A i \in 1..Len(log) : log[i].block \in Nat
  BY EntryShape DEF ChainInv, HistoryInv, Entries
<1>3. at \in Nat
  BY <1>2
<1>4. ASSUME NEW p, NEW i, i \in LogsAt(p, head)', i <= conf', log'[i].block > joined' PROVE FALSE
  <2>1. i \in 1..Len(log) /\ log' = log
    BY <1>4 DEF LogsAt, chainVars
  <2> QED BY <1>1, <1>2, <1>3, <1>4, <2>1
<1> QED BY <1>4 DEF WholeSession

\* A burst loses no log: what it held is told of, unheard, or held still.
LEMMA BurstHears ==
  ASSUME ChainInv, FeedInv, PoolsInv, WholeReads, NEW b \in Seq(Hearing), Bursts(b),
         NEW p \in Pool, NEW i, i \in LogsAt(p, head), i \in told[p] \cup HeldIds \cup unheard[p]
  PROVE  i \in told'[p] \cup HeldIds' \cup unheard'[p]
<1>1. StoredBurst(b) /\ HeldIds \subseteq Ids(b) \cup HeldIds'
  BY BurstStored DEF Bursts
<1>2. StoredPool(p, ApplyWrites(b).ask)
  BY <1>1 DEF StoredBurst
<1>3. told[p] \subseteq told'[p] /\ unheard[p] \subseteq unheard'[p]
  BY <1>2 DEF StoredPool
<1>4. i \in 1..Len(log) /\ log[i].pool = p /\ i \notin gone
  BY DEF LogsAt
<1>5. CASE i \in Ids(b)
  <2>1. IF book[p] = Absent THEN i \in unheard'[p] ELSE log[i].block > pos[p].read_at => i \in told'[p]
    BY <1>1, <1>4, <1>5 DEF StoredBurst, StoredLog
  <2>2. CASE book[p] # Absent /\ ~(log[i].block > pos[p].read_at)
    <3>1. log[i].block \in Nat /\ pos[p].read_at \in Nat
      BY <1>4, EntryShape, ReadSealed DEF ChainInv, HistoryInv, Entries
    <3>2. i \in LogsAt(p, pos[p].read_at)
      BY <1>4, <2>2, <3>1 DEF LogsAt
    <3>3. i \in told[p]
      BY <2>2, <3>2 DEF WholeReads, Held
    <3> QED BY <1>3, <3>3
  <2> QED BY <2>1, <2>2
<1> QED BY <1>1, <1>3, <1>5

\* The next confirmed log is held; all it passes over was taken out.
LEMMA SessionConfirms ==
  ASSUME ChainInv, FeedInv, PoolsInv, WholeReads, WholeSession, Confirmed
  PROVE  WholeSession'
<1>1. PICK i : ConfirmedOf(i)
  BY ConfirmedShape
<1>2. /\ i \in 1..Len(log) /\ i > conf /\ conf' = i /\ Hold(i, FALSE)
      /\ \A j \in (conf + 1)..(i - 1) : j \in gone
  BY <1>1 DEF ConfirmedOf
<1>3. held \in Seq(Hearing) /\ Len(log) \in Nat /\ conf \in Nat
  BY EntryShape DEF ChainInv, HistoryInv, Entries, FeedInv
<1>4. i \in HeldIds'
  BY <1>2, <1>3, HoldBursts
<1>5. PICK b \in Seq(Hearing) : Bursts(b)
  BY FeedBursts
<1>6. UNCHANGED <<log, head, gone, session, joined>>
  BY DEF Confirmed, chainVars
<1>7. ASSUME session = "up", NEW p \in Pool, NEW j, j \in LogsAt(p, head), j <= i, log[j].block > joined
      PROVE  j \in told'[p] \cup HeldIds' \cup unheard'[p]
  <2>1. j \in 1..Len(log) /\ j \notin gone
    BY <1>7 DEF LogsAt
  <2>2. CASE j = i
    BY <1>4, <2>2
  <2>3. CASE j # i
    <3>1. j <= conf
      <4>1. j <= conf \/ j \in (conf + 1)..(i - 1)
        BY <1>2, <1>3, <1>7, <2>1, <2>3
      <4> QED BY <1>2, <2>1, <4>1
    <3>2. j \in told[p] \cup HeldIds \cup unheard[p]
      BY <1>7, <3>1 DEF WholeSession
    <3> QED BY <1>5, <1>7, <3>2, BurstHears
  <2> QED BY <2>2, <2>3
<1>8. \A p : LogsAt(p, head)' = LogsAt(p, head)
  BY <1>6 DEF LogsAt
<1> QED BY <1>2, <1>6, <1>7, <1>8 DEF WholeSession

\* A read keeps what was told and unheard of later blocks, and holds the rest.
LEMMA ReloadHears ==
  ASSUME ChainInv, FeedInv, LoopInv, ReadInv, ReloadWrites, NEW p \in Pool,
         NEW i, i \in LogsAt(p, head), i \in told[p] \cup HeldIds \cup unheard[p]
  PROVE  i \in told'[p] \cup HeldIds' \cup unheard'[p]
<1>1. Reloaded(p) /\ loop.at = "read"
  BY ReloadShape
<1>2. HeldIds' = HeldIds
  BY DEF ReloadWrites, feedVars, HeldIds
<1>3. i \in 1..Len(log) /\ log[i].pool = p /\ i \notin gone
  BY DEF LogsAt
<1>4. CASE p \in DOMAIN loop.fresh
  <2>1. /\ told'[p] = loop.fresh[p] \cup {j \in told[p] : log[j].block > loop.last}
        /\ unheard'[p] = {j \in unheard[p] : log[j].block > loop.last}
    BY <1>1, <1>4 DEF Reloaded, ReadTold
  <2>2. CASE log[i].block > loop.last
    BY <1>2, <2>1, <2>2
  <2>3. CASE ~(log[i].block > loop.last)
    <3>1. log[i].block \in Nat /\ loop.last \in Nat
      BY <1>3, EntryShape DEF ChainInv, HistoryInv, Entries, LoopInv, FeedInv
    <3>2. i \in LogsAt(p, loop.last)
      BY <1>3, <2>3, <3>1 DEF LogsAt
    <3>3. i \in loop.fresh[p]
      BY <1>1, <1>4, <3>2 DEF ReadInv
    <3> QED BY <2>1, <3>3
  <2> QED BY <2>2, <2>3
<1>5. CASE p \notin DOMAIN loop.fresh
  BY <1>1, <1>2, <1>5 DEF Reloaded
<1> QED BY <1>4, <1>5

LEMMA SessionAfter ==
  ASSUME ChainInv, FeedInv, LoopInv, ReadInv, PoolsInv, WholeReads, WholeSession, LogGrows, Next
  PROVE  WholeSession'
<1>1. CASE Connect
  <2>1. PICK at \in {0, head} : Subscribes(at)
    BY <1>1 DEF Connect
  <2>2. at \in 0..head /\ UNCHANGED chainVars
    BY <1>1 DEF Connect, ChainInv, HistoryInv
  <2> QED BY <2>1, <2>2, SessionStarts
<1>2. CASE Rejoin
  <2>1. Subscribes(head) /\ UNCHANGED chainVars /\ head \in 0..head
    BY <1>2 DEF Rejoin, ChainInv, HistoryInv
  <2> QED BY <2>1, SessionStarts
<1>3. CASE Drop
  <2>1. session' = "down"
    BY <1>3 DEF Drop
  <2> QED BY <2>1 DEF WholeSession
<1>4. CASE BookStands /\ ~Connect /\ ~Drop
  <2>1. UNCHANGED <<told, unheard>>
    BY <1>4, BookStandsStill
  <2>2. UNCHANGED <<conf, joined, held, session>>
    BY <1>4 DEF BookStands, ChainStep, NewLog, Seal, Reorg, HeadSeen, FullReloadDue, Take, Wait, Wake,
                Begin, ReloadFails, feedVars
  <2>3. HeldIds' = HeldIds
    BY <2>2 DEF HeldIds
  <2> QED BY <2>1, <2>2, <2>3, SessionStands
<1>5. CASE Preconfirmed \/ Flush
  <2>1. PICK b \in Seq(Hearing) : Bursts(b)
    BY <1>5, FeedBursts
  <2>2. UNCHANGED <<conf, joined, session>>
    BY <1>5 DEF Preconfirmed, Flush
  <2>3. ASSUME NEW p \in Pool, NEW i, i \in LogsAt(p, head), i \in told[p] \cup HeldIds \cup unheard[p]
        PROVE  i \in told'[p] \cup HeldIds' \cup unheard'[p]
    BY <2>1, <2>3, BurstHears
  <2> QED BY <2>2, <2>3, SessionStands
<1>6. CASE Confirmed
  BY <1>6, SessionConfirms
<1>7. CASE Removed
  <2>1. PICK i \in 1..Len(log) : i \in gone /\ log[i].pool \in Pool /\ RetractOf(i)
    BY <1>7, RemovedShape
  <2>2. Retract(i) /\ gone' = gone /\ unheard' = unheard
    BY <2>1 DEF RetractOf, chainVars
  <2>3. RetractShape(i, log[i].pool)
    BY <2>1, <2>2, RetractSound
  <2>4. UNCHANGED <<conf, joined, session, held>>
    BY <1>7 DEF Removed
  <2>5. HeldIds' = HeldIds
    BY <2>4 DEF HeldIds
  <2>6. ASSUME NEW p \in Pool PROVE told[p] \subseteq told'[p] \cup {i}
    <3>1. CASE p = log[i].pool
      BY <2>3, <3>1 DEF RetractShape
    <3>2. CASE p # log[i].pool
      BY <2>3, <3>2 DEF RetractShape
    <3> QED BY <3>1, <3>2
  <2>7. \A p \in Pool : \A j \in 1..Len(log) : j \in LogsAt(p, head) /\ j \notin gone' =>
            (j \in told[p] \cup HeldIds \cup unheard[p]
               => j \in told'[p] \cup HeldIds' \cup unheard'[p])
    BY <2>1, <2>2, <2>5, <2>6
  <2> QED BY <2>4, <2>7, SessionStands
<1>8. CASE ReloadWrites
  <2>1. UNCHANGED <<conf, joined, session>>
    BY <1>8 DEF ReloadWrites, feedVars
  <2>2. ASSUME NEW p \in Pool, NEW i, i \in LogsAt(p, head), i \in told[p] \cup HeldIds \cup unheard[p]
        PROVE  i \in told'[p] \cup HeldIds' \cup unheard'[p]
    BY <1>8, <2>2, ReloadHears
  <2> QED BY <2>1, <2>2, SessionStands
<1> QED BY <1>1, <1>2, <1>3, <1>4, <1>5, <1>6, <1>7, <1>8, NextSteps

\* Verified by a read from the session's start on, the book is read so.
LEMMA SightedAfter ==
  ASSUME ChainInv, FeedInv, LoopInv, ReadInv, PoolsInv, SightedSince, Next
  PROVE  SightedSince'
<1>1. CASE Connect
  <2>1. status' = "rebuilding"
    BY <1>1, BookStandsStill DEF Connect, LoopInv, BookStands
  <2> QED BY <2>1 DEF SightedSince
<1>2. CASE Rejoin
  <2>1. status' = "rebuilding"
    BY <1>2 DEF Rejoin, MarkRebuilding
  <2> QED BY <2>1 DEF SightedSince
<1>3. CASE Drop
  <2>1. session' = "down"
    BY <1>3 DEF Drop
  <2> QED BY <2>1 DEF SightedSince
<1>4. CASE BookStands /\ ~Connect /\ ~Drop
  <2>1. UNCHANGED <<book, pos, newest, status, blind>>
    BY <1>4, BookStandsStill
  <2>2. UNCHANGED <<session, joined>>
    BY <1>4 DEF BookStands, ChainStep, NewLog, Seal, Reorg, HeadSeen, FullReloadDue, Take, Wait, Wake,
                Begin, ReloadFails, feedVars
  <2> QED BY <2>1, <2>2 DEF SightedSince, Held
<1>5. CASE Preconfirmed \/ Confirmed \/ Flush
  <2>1. PICK b \in Seq(Hearing) : Bursts(b)
    BY <1>5, FeedBursts
  <2>2. StoredBurst(b) /\ newest' = newest
    BY <1>5, <2>1, BurstStored, FeedBursts DEF Bursts
  <2>3. \A p \in Pool : (book'[p] = Absent <=> book[p] = Absent) /\ pos'[p].read_at = pos[p].read_at
    BY <2>2 DEF StoredBurst, StoredPool
  <2>4. UNCHANGED <<session, joined, status, blind>>
    BY <1>5 DEF Preconfirmed, Confirmed, Flush, Hold
  <2> QED BY <2>2, <2>3, <2>4 DEF SightedSince, Held
<1>6. CASE Removed
  <2>1. PICK i \in 1..Len(log) : i \in gone /\ log[i].pool \in Pool /\ RetractOf(i)
    BY <1>6, RemovedShape
  <2>2. Retract(i) /\ UNCHANGED <<book, status, newest, blind>>
    BY <2>1 DEF RetractOf
  <2>3. RetractShape(i, log[i].pool)
    BY <2>1, <2>2, RetractSound
  <2>4. ASSUME NEW p \in Pool PROVE pos'[p].read_at = pos[p].read_at
    <3>1. CASE p = log[i].pool
      BY <2>3, <3>1 DEF RetractShape
    <3>2. CASE p # log[i].pool
      BY <2>3, <3>2 DEF RetractShape
    <3> QED BY <3>1, <3>2
  <2>5. UNCHANGED <<session, joined>>
    BY <1>6 DEF Removed
  <2> QED BY <2>2, <2>4, <2>5 DEF SightedSince, Held
<1>7. CASE ReloadWrites
  <2>1. /\ newest' = loop.last /\ loop.last >= newest /\ loop.at = "read"
        /\ \A p \in Pool : Reloaded(p)
    BY <1>7, ReloadShape
  <2>2. /\ status' = (IF Verifies THEN "verified" ELSE status)
        /\ blind' = (IF Verifies THEN loop.last < joined ELSE blind)
        /\ UNCHANGED <<session, joined>>
    BY <1>7 DEF ReloadWrites, feedVars
  <2>3. loop.last \in Nat /\ joined \in Nat /\ newest \in Nat
    BY DEF LoopInv, FeedInv, ChainInv, HistoryInv
  <2>4. \A p \in Pool : p \in DOMAIN loop.fresh => pos'[p].read_at = loop.last
    <3>1. ASSUME NEW p \in Pool, p \in DOMAIN loop.fresh PROVE pos'[p].read_at = loop.last
      <4>1. Reads(p) /\ pos'[p] = FreshPositions(p)
        BY <2>1, <3>1 DEF Reads, Reloaded
      <4> QED BY <4>1, FreshFlag
    <3> QED BY <3>1
  <2>5. CASE Verifies
    <3>1. loop.specs = Pool
      BY <2>1, <2>5 DEF Verifies, ReadInv
    <3>2. \A p \in Pool : book'[p] # Absent => p \in DOMAIN loop.fresh
      BY <2>1, <3>1 DEF Reloaded
    <3>3. ~blind' => loop.last >= joined
      <4>1. blind' = (loop.last < joined)
        BY <2>2, <2>5
      <4>2. ~(loop.last < joined) => loop.last >= joined
        BY <2>3
      <4> QED BY <4>1, <4>2, Zenon
    <3>4. \A p \in Pool : book'[p] # Absent => pos'[p].read_at = loop.last
      BY <2>4, <3>2
    <3>5. newest' = loop.last /\ joined' = joined
      BY <2>1, <2>2
    <3>6. ~blind' => newest' >= joined' /\ \A p \in Pool : book'[p] # Absent => pos'[p].read_at >= joined'
      BY <3>3, <3>4, <3>5
    <3> QED BY <3>6 DEF SightedSince, Held
  <2>6. CASE ~Verifies
    <3>1. UNCHANGED <<status, blind>>
      BY <2>2, <2>6
    <3>2. ASSUME status = "verified", session = "up", ~blind, NEW p \in Pool, book'[p] # Absent
          PROVE  pos'[p].read_at >= joined
      <4>1. newest >= joined /\ (Held(p) => pos[p].read_at >= joined)
        BY <3>2 DEF SightedSince
      <4>2. CASE p \in DOMAIN loop.fresh
        BY <2>1, <2>3, <2>4, <4>1, <4>2
      <4>3. CASE p \notin DOMAIN loop.fresh
        BY <2>1, <3>2, <4>1, <4>3 DEF Reloaded, Held
      <4> QED BY <4>2, <4>3
    <3>3. status = "verified" /\ session = "up" /\ ~blind => loop.last >= joined
      <4>1. status = "verified" /\ session = "up" /\ ~blind => newest >= joined
        BY DEF SightedSince
      <4> QED BY <2>1, <2>3, <4>1
    <3> QED BY <2>1, <2>2, <3>1, <3>2, <3>3 DEF SightedSince, Held
  <2> QED BY <2>5, <2>6
<1> QED BY <1>1, <1>2, <1>3, <1>4, <1>5, <1>6, <1>7, NextSteps

-----------------------------------------------------------------------------
(* The invariant of every behaviour, and what it gives.                    *)

\* Boot's own read: every pool is as no log has left it.
LEMMA BootPools == Init => PoolsInv
<1> SUFFICES ASSUME Init PROVE PoolsInv
  OBVIOUS
<1> DEFINE s == [tick |-> 1, liq |-> Zero, ladder |-> Zero, cover |-> 1, last |-> 0]
           q == [NoPositions EXCEPT !.read_at = BootBlock]
<1>1. /\ log = <<>> /\ newest = BootBlock /\ book = [p \in Pool |-> s] /\ pos = [p \in Pool |-> q]
      /\ told = [p \in Pool |-> {}] /\ unheard = [p \in Pool |-> {}]
  BY DEF Init
<1>2. BootBlock \in Nat
  BY BookAssumption
<1>3. q = [applied |-> {}, read_at |-> BootBlock, refused |-> 0] /\ q \in Positions
  BY <1>2 DEF NoPositions, Positions
<1>4. s \in Snapshot /\ s.tick = 1 /\ s.liq = Zero /\ s.ladder = Zero /\ s.last = 0
  BY Ticks, ZeroType DEF Snapshot
<1>5. Plus(Zero, {}) = Zero
  BY DEF Plus, Zero
<1>6. ChangesOf(<<>>, {}) = {} /\ SwapsOf(<<>>, {}) = {}
  BY DEF ChangesOf, SwapsOf
<1>7. LastSwap(<<>>, {}) = 0
  BY <1>6, MostOf DEF LastSwap
<1>8. TickOf(<<>>, {}) = 1 /\ BaseOf(<<>>, {}) = {} /\ LadderOf(<<>>, {}) = Zero
  BY <1>5, <1>6, <1>7 DEF TickOf, BaseOf, LadderOf
<1>9. ActiveOf(<<>>, After({}, 0), 1) = {}
  BY DEF ActiveOf, ChangesOf, After
<1>10. LiqOf(<<>>, {}) = Zero
  BY <1>5, <1>7, <1>8, <1>9 DEF LiqOf
<1>11. ASSUME NEW p \in Pool PROVE Sound(<<>>, p, s, q, {}) /\ s # Absent
  <2> HIDE DEF s, q
  <2>1. Told(<<>>, p, {}) /\ AppliedRight(<<>>, q, {}) /\ LastRight(<<>>, s, q, {})
    BY <1>3, <1>4, <1>6 DEF Told, AppliedRight, LastRight
  <2>2. s # Absent
    BY <1>4, AbsentIsNone
  <2> QED BY <1>3, <1>4, <1>8, <1>10, <2>1, <2>2 DEF Sound, LiqRight
<1> HIDE DEF s, q
<1>12. \A p \in Pool : PoolGood(log, p, book[p], pos[p], told[p]) /\ pos[p].read_at <= newest
  <2>1. ASSUME NEW p \in Pool
        PROVE  PoolGood(log, p, book[p], pos[p], told[p]) /\ pos[p].read_at <= newest
    <3>1. book[p] = s /\ pos[p] = q /\ told[p] = {} /\ log = <<>>
      BY <1>1
    <3>2. pos[p].read_at = newest /\ newest \in Nat
      BY <1>1, <1>2, <1>3, <3>1
    <3> QED BY <1>11, <3>1, <3>2 DEF PoolGood
  <2> QED BY <2>1
<1>13. /\ book \in [Pool -> Snapshot \cup {Absent}] /\ pos \in [Pool -> Positions]
       /\ told \in [Pool -> SUBSET Id] /\ unheard \in [Pool -> SUBSET Id]
  BY <1>1, <1>3, <1>4
<1> QED BY <1>12, <1>13 DEF PoolsInv

LEMMA BookInit == Init => BookInv
<1> SUFFICES ASSUME Init PROVE BookInv
  OBVIOUS
<1>1. log = <<>> /\ head = BootBlock /\ gone = {} /\ Len(log) = 0 /\ 1..Len(log) = {}
  BY DEF Init
<1>2. BootBlock \in Nat /\ MaxLogs \in Nat
  BY BookAssumption
<1>3. ChainInv
  BY <1>1, <1>2 DEF ChainInv, HistoryInv, History, CountsInv
<1>4. FeedInv
  BY <1>1, <1>2 DEF FeedInv, Init
<1>5. LoopInv /\ ReadInv
  BY DEF LoopInv, ReadInv, Init
<1>6. PoolsInv
  BY BootPools
<1>7. AskInv
  BY DEF AskInv, Due, Init
<1>8. \A p, b : LogsAt(p, b) = {}
  BY <1>1 DEF LogsAt
<1>9. WholeInv
  BY <1>8 DEF WholeInv, WholeReads, WholeSession, SightedSince, Init
<1> QED BY <1>3, <1>4, <1>5, <1>6, <1>7, <1>9 DEF BookInv

\* A step that changes nothing.
LEMMA BookQuiet ==
  ASSUME BookInv, UNCHANGED vars
  PROVE  BookInv'
<1>1. /\ UNCHANGED <<log, head, gone, book, pos, status, newest, told, unheard, blind>>
      /\ UNCHANGED <<session, held, watch, joined, pend, conf, unsaid, pending, permit, loop>>
  BY DEF vars, chainVars, bookVars, feedVars, loopVars
<1>2. ChainInv'
  BY <1>1 DEF BookInv, ChainInv, HistoryInv, CountsInv, Prior
<1>3. FeedInv' /\ LoopInv'
  BY <1>1 DEF BookInv, FeedInv, Hearing, LoopInv
<1>4. \A p, b : LogsAt(p, b)' = LogsAt(p, b')
  BY <1>1 DEF LogsAt
<1>5. ReadInv'
  BY <1>1, <1>4 DEF BookInv, ReadInv
<1>6. PoolsInv' /\ AskInv'
  BY <1>1 DEF BookInv, PoolsInv, AskInv, Flag, Due, Held, OffLadder
<1>7. WholeInv'
  <2>1. \A p : LogsAt(p, head)' = LogsAt(p, head) /\ LogsAt(p, pos[p].read_at)' = LogsAt(p, pos[p].read_at)
    BY <1>1 DEF LogsAt
  <2>2. HeldIds' = HeldIds
    BY <1>1 DEF HeldIds
  <2> QED BY <1>1, <2>1, <2>2 DEF BookInv, WholeInv, WholeReads, WholeSession, SightedSince, Held
<1> QED BY <1>2, <1>3, <1>5, <1>6, <1>7 DEF BookInv

LEMMA BookAfter ==
  ASSUME BookInv, Next
  PROVE  BookInv'
<1>1. /\ ChainInv /\ FeedInv /\ LoopInv /\ ReadInv /\ PoolsInv /\ AskInv
      /\ WholeReads /\ WholeSession /\ SightedSince
  BY DEF BookInv, WholeInv
<1>2. ChainInv' /\ LogGrows
  BY <1>1, HistoryStep, ChainGrows
<1>3. FeedInv' /\ LoopInv'
  BY <1>1, <1>2, FeedAfter, LoopAfter
<1>4. ReadInv' /\ PoolsInv' /\ AskInv'
  BY <1>1, <1>2, ReadAfter, PoolsAfter, AskAfter
<1>5. WholeReads' /\ WholeSession' /\ SightedSince'
  BY <1>1, <1>2, ReadsAfter, SessionAfter, SightedAfter
<1> QED BY <1>2, <1>3, <1>4, <1>5 DEF BookInv, WholeInv

LEMMA BookAlways == Spec => []BookInv
<1>1. BookInv /\ [Next]_vars => BookInv'
  BY BookQuiet, BookAfter
<1> QED BY <1>1, BookInit, PTL DEF Spec

\* Every position a pool carries is a change of the log, a removed pool has
\* none, and prices, cursors and counts stay in range, whatever the universe,
\* the chain and the number of mishaps.
THEOREM BookTypeCorrect == Spec => []TypeOK
<1>1. BookInv => TypeOK
  <2> SUFFICES ASSUME BookInv PROVE TypeOK
    OBVIOUS
  <2>1. ChainInv /\ FeedInv /\ LoopInv /\ PoolsInv
    BY DEF BookInv
  <2>2. ASSUME NEW p \in Pool
        PROVE  /\ pos[p].applied \subseteq Changes(1..Len(log)) /\ pos[p].read_at \in 0..head
               /\ ~Held(p) => pos[p] = NoPositions /\ told[p] = {}
               /\ Held(p) => /\ book[p].tick \in Tick /\ book[p].last \in 0..Len(log)
                             /\ {book[p].liq, book[p].ladder} \subseteq [Id -> Nat]
    <3>1. pos[p].read_at \in 0..head
      <4>1. pos[p].read_at \in Nat /\ pos[p].read_at <= head /\ head \in Nat
        BY <2>1, ReadSealed DEF ChainInv, HistoryInv
      <4> QED BY <4>1
    <3>2. PoolGood(log, p, book[p], pos[p], told[p])
      BY <2>1 DEF PoolsInv
    <3>3. CASE book[p] = Absent
      BY <3>1, <3>2, <3>3 DEF PoolGood, Held, NoPositions
    <3>4. CASE book[p] # Absent
      <4>1. Sound(log, p, book[p], pos[p], told[p])
        BY <3>2, <3>4 DEF PoolGood
      <4>2. /\ told[p] \subseteq 1..Len(log) /\ pos[p].applied \subseteq ChangesOf(log, told[p])
            /\ book[p] \in Snapshot /\ (book[p].last # 0 => book[p].last \in SwapsOf(log, told[p]))
        BY <4>1 DEF Sound, Told, AppliedRight, LastRight
      <4>3. pos[p].applied \subseteq Changes(1..Len(log))
        BY <4>2 DEF Changes, ChangesOf
      <4>4. Len(log) \in Nat /\ SwapsOf(log, told[p]) \subseteq 1..Len(log)
        BY <2>1, <4>2, EntryShape DEF ChainInv, HistoryInv, Entries, SwapsOf
      <4>5. book[p].last \in 0..Len(log)
        BY <4>2, <4>4
      <4> QED BY <3>1, <3>4, <4>2, <4>3, <4>5 DEF Held, Snapshot, Count
    <3> QED BY <3>3, <3>4
  <2>3. /\ status \in {"verified", "rebuilding"} /\ newest \in 0..head /\ watch \in 0..head
        /\ conf \in 0..Len(log) /\ pend \in 0..Len(log) /\ unsaid \subseteq gone
        /\ loop.at \in {"take", "idle", "asleep", "heads", "read"}
    BY <2>1 DEF FeedInv, LoopInv
  <2> QED BY <2>2, <2>3 DEF TypeOK
<1> QED BY <1>1, BookAlways, PTL

\* A pool that is not flagged holds exactly what it was told of, whatever
\* order copies, bursts, removals and reloads came in.
THEOREM HoldsWhatWasTold == Spec => []HoldsWhatItWasTold
<1>1. BookInv => HoldsWhatItWasTold
  <2> SUFFICES ASSUME BookInv, NEW p \in Pool, Held(p), pos[p].refused = 0
               PROVE  LET swap == Most(Swaps(told[p]))
                          t == TickAfter(told[p])
                          later == {c \in told[p] : c > swap}
                      IN /\ book[p].tick = t
                         /\ book[p].ladder = Plus(Zero, Changes(told[p]))
                         /\ book[p].liq = Plus(Plus(Zero, IF swap = 0 THEN {} ELSE log[swap].counts),
                                               ActiveAt(later, t))
    BY DEF HoldsWhatItWasTold
  <2> DEFINE T == told[p]
             swap == Most(Swaps(T))
             t == TickAfter(T)
             later == {c \in T : c > swap}
             base == IF swap = 0 THEN {} ELSE log[swap].counts
  <2>1. PoolGood(log, p, book[p], pos[p], T)
    BY DEF BookInv, PoolsInv
  <2>2. Sound(log, p, book[p], pos[p], T)
    BY <2>1 DEF PoolGood, Held
  <2>3. book[p].tick = TickOf(log, T) /\ book[p].ladder = LadderOf(log, T) /\ book[p].liq = LiqOf(log, T)
    BY <2>2 DEF Sound, LiqRight
  <2>4. swap = LastSwap(log, T) /\ t = TickOf(log, T) /\ Changes(T) = ChangesOf(log, T)
    BY LogSays DEF LastSwap
  <2>5. base = BaseOf(log, T) /\ later = After(T, LastSwap(log, T))
    BY <2>4 DEF BaseOf, After
  <2> HIDE DEF T, swap, t, later, base
  <2>6. ActiveAt(later, t) = ActiveOf(log, After(T, LastSwap(log, T)), TickOf(log, T))
    BY <2>4, <2>5, LogSays
  <2>7. book[p].liq = Plus(Plus(Zero, base), ActiveAt(later, t))
    BY <2>3, <2>5, <2>6 DEF LiqOf
  <2>8. book[p].tick = t /\ book[p].ladder = Plus(Zero, Changes(T))
    BY <2>3, <2>4 DEF LadderOf
  <2> QED BY <2>7, <2>8 DEF T, swap, t, later, base
<1> QED BY <1>1, BookAlways, PTL

\* A pool flagged or off its ladder always has a reload asked for or under way,
\* and so does a book that is rebuilding: no flag is forgotten.
THEOREM FlagsAreAsked == Spec => []EveryFlagIsAsked
<1>1. BookInv /\ QueueInv => EveryFlagIsAsked
  <2> SUFFICES ASSUME BookInv, QueueInv PROVE EveryFlagIsAsked
    OBVIOUS
  <2>1. AskInv /\ RebuildAsked
    BY DEF BookInv, QueueInv
  <2>2. \A p \in Pool : Held(p) /\ (pos[p].refused # 0 \/ OffLadder(book[p])) =>
          pending.full \/ loop.full \/ p \in pending.pools \cup loop.pools
    BY <2>1 DEF AskInv, Flag, Due
  <2> QED BY <2>1, <2>2 DEF EveryFlagIsAsked, RebuildAsked
<1> QED BY <1>1, BookAlways, QueueAlways, PTL

\* A verified book misses no sealed log its session is past, but for what a
\* read from before the session left out and what a removed pool was told of
\* or had not heard when it was read back at an earlier block.
THEOREM VerifiedIsWhole == Spec => []WholeUnlessBlind
<1>1. BookInv => WholeUnlessBlind
  <2> SUFFICES ASSUME BookInv, status = "verified", session = "up", ~blind, NEW p \in Pool, Held(p),
                      NEW i \in Missing(p)
               PROVE  i \in unheard[p]
    BY DEF WholeUnlessBlind
  <2>1. ChainInv /\ FeedInv /\ PoolsInv /\ WholeReads /\ WholeSession /\ SightedSince
    BY DEF BookInv, WholeInv
  <2>2. i \in LogsAt(p, head) /\ i <= conf /\ i \notin told[p] \cup HeldIds
    BY DEF Missing, HeldIds
  <2>3. i \in 1..Len(log) /\ log[i].pool = p /\ i \notin gone
    BY <2>2 DEF LogsAt
  <2>4. log[i].block \in Nat /\ joined \in Nat /\ pos[p].read_at \in Nat
    BY <2>1, <2>3, EntryShape, ReadSealed DEF ChainInv, HistoryInv, Entries, FeedInv
  <2>5. pos[p].read_at >= joined
    BY <2>1 DEF SightedSince
  <2>6. CASE log[i].block > joined
    BY <2>1, <2>2, <2>6 DEF WholeSession
  <2>7. CASE ~(log[i].block > joined)
    <3>1. log[i].block <= pos[p].read_at
      BY <2>4, <2>5, <2>7
    <3>2. i \in LogsAt(p, pos[p].read_at)
      BY <2>3, <3>1 DEF LogsAt
    <3> QED BY <2>1, <2>2, <3>2 DEF WholeReads
  <2> QED BY <2>6, <2>7
<1> QED BY <1>1, BookAlways, PTL
=============================================================================
