----------------------------- MODULE ArmedLive ------------------------------
(***************************************************************************)
(* The armed lane's live worker and its ledger (apex-runtime, armed/       *)
(* live.rs and live_ledger.rs).  Each slot's sender submits validity       *)
(* transactions that land by a block bound or never; every submission is   *)
(* in the ledger before it leaves, and holds its worst case against the    *)
(* day's loss budget until the chain's nonce says what came of it.         *)
(*                                                                         *)
(* Two tasks call the worker: one with the engine's lines, one with the    *)
(* heads.  The turn is theirs in turn; only the heads' nonce reads and the *)
(* roll to a new day happen outside it.                                    *)
(***************************************************************************)
EXTENDS Integers, Sequences, FiniteSets, SequencesExt

CONSTANTS
  Sender,
  Budget,       \* LivePolicy.budget_wei, in units of loss
  Worst,        \* the worst cases a submission may have
  Window,       \* LivePolicy.window_blocks
  Lag,          \* how far the node asked at boot may trail the chain, in blocks
  MaxTx,        \* bound: transactions
  MaxBlock,     \* bound: the chain's height
  DayBlocks,    \* bound: the day turns every so many blocks
  MaxMishaps,   \* bound: failed appends, unreadable receipts and uses of a
                \* sender's key elsewhere, together
  MaxCrashes, MaxResets   \* bounds: deaths of the process, operator resets

ASSUME ArmedAssumption ==
  /\ Worst \subseteq Nat \ {0}
  /\ {DayBlocks, MaxBlock} \subseteq Nat \ {0}
  /\ {Budget, Window, Lag, MaxTx, MaxMishaps, MaxCrashes, MaxResets} \subseteq Nat

Tx == 1..MaxTx

VARIABLES
  ledger,    \* the records on disk
  mem,       \* LiveState: [pending, lost, capped, trip, day]
  nonces,    \* Sender -> its next nonce, as the worker knows it
  ready,
  turn,      \* who holds it: "free", "line" or "head"
  line,      \* the line in hand: [pc, tx, now, head]
  head,      \* the head in hand: [pc, at, now, reads]
  outbox,    \* a settlement being written: [records, sender, nonce]
  up,        \* whether the process runs
  tx,        \* the transactions made: a sequence of [sender, nonce, bound, worst]
  fate,      \* Tx -> [is, block, day, loss]
  block,     \* the chain's height, and with it the wall clock
  stolen,    \* the uses of a key elsewhere, {[sender, block]}
  excused,   \* whether a trip has a reason that no reset has put behind it
  misdated,  \* the transactions whose landing a record dated before its day
  mishaps, crashes, resets

workerVars == <<mem, nonces, ready, turn, line, head, outbox>>
chainVars  == <<tx, fate, block, stolen>>
faultVars  == <<excused, misdated, mishaps, crashes, resets>>
vars == <<ledger, workerVars, up, chainVars, faultVars>>

NoLine   == [pc |-> "none", tx |-> 0, now |-> 0, head |-> 0]
NoHead   == [pc |-> "none", at |-> 0, now |-> 0, reads |-> {}]
NoOutbox == [records |-> <<>>, sender |-> "none", nonce |-> 0]

Most(S) == Max(S \cup {0})

-----------------------------------------------------------------------------
(* The chain.                                                              *)

\* The UTC day.
day == block \div DayBlocks

\* A sender's nonce as of a block's end.
NonceAt(s, b) ==
  Cardinality({t \in 1..Len(tx) : tx[t].sender = s /\ fate[t].is = "landed" /\ fate[t].block <= b})
    + Cardinality({u \in stolen : u.sender = s /\ u.block <= b})

Nonce(s) == NonceAt(s, block)

\* The next block: empty, one of ours in it at its worst (bound: none gains,
\* which would count as no loss), or somebody else's use of a sender.
NewBlock ==
  /\ block < MaxBlock
  /\ block' = block + 1
  /\ \/ UNCHANGED <<fate, stolen, mishaps, excused>>
     \/ \E t \in 1..Len(tx) :
          /\ fate[t].is = "held"
          /\ tx[t].nonce = Nonce(tx[t].sender) /\ block' <= tx[t].bound
          /\ fate' = [fate EXCEPT ![t] = [is |-> "landed", block |-> block', day |-> block' \div DayBlocks,
                                          loss |-> tx[t].worst]]
          /\ UNCHANGED <<stolen, mishaps, excused>>
     \/ \E s \in Sender :
          /\ mishaps < MaxMishaps
          /\ mishaps' = mishaps + 1
          /\ stolen' = stolen \cup {[sender |-> s, block |-> block']}
          /\ excused' = TRUE
          /\ UNCHANGED fate
  /\ UNCHANGED tx

ChainStep ==
  /\ NewBlock
  /\ UNCHANGED <<ledger, workerVars, up, misdated, crashes, resets>>

-----------------------------------------------------------------------------
(* The ledger's records and the state they build (live_ledger.rs).  An     *)
(* answer that is no refusal and a skip change nothing a decision reads,   *)
(* and are left out.                                                       *)

Submitting(t)      == [kind |-> "submitting", tx |-> t]
Refused(t)         == [kind |-> "refused", tx |-> t]
Landed(t, d)       == [kind |-> "landed", tx |-> t, loss |-> fate[t].loss, day |-> d]
Expired(t)         == [kind |-> "expired", tx |-> t]
Abandoned(t, w, d) == [kind |-> "abandoned", tx |-> t, loss |-> w, day |-> d]
LossCap(d)         == [kind |-> "loss_cap", day |-> d]
Tripwire           == [kind |-> "tripwire"]
Reset              == [kind |-> "reset"]

\* What append syncs before it returns.
Critical(r) == r.kind \notin {"refused", "reset"}

Slot(t) == <<tx[t].sender, tx[t].nonce>>
AtSlot(P, t) == {u \in P : Slot(u) = Slot(t)}

\* A loss counts on the day its record bears; reaching the budget halts the day.
Spend(s, r) ==
  IF r.day # s.day THEN s
  ELSE [s EXCEPT !.lost = @ + r.loss, !.capped = @ \/ s.lost + r.loss >= Budget]

\* Mutant of Apply: an expiry frees the whole nonce.
Apply_ExpiresSlot(s, r) ==
  CASE r.kind = "submitting" -> [s EXCEPT !.pending = @ \cup {r.tx}]
    [] r.kind = "refused" -> [s EXCEPT !.pending = @ \ {r.tx}]
    [] r.kind = "expired" -> [s EXCEPT !.pending = @ \ AtSlot(@, r.tx)]
    [] r.kind \in {"landed", "abandoned"} -> [Spend(s, r) EXCEPT !.pending = @ \ AtSlot(@, r.tx)]
    [] r.kind = "loss_cap" -> IF r.day = s.day THEN [s EXCEPT !.capped = TRUE] ELSE s
    [] r.kind = "tripwire" -> [s EXCEPT !.trip = TRUE]
    [] r.kind = "reset" -> [s EXCEPT !.trip = FALSE]

\* LiveState::apply.  A landing or an abandonment resolves every transaction of
\* its nonce, a refusal or an expiry its own.
Apply(s, r) ==
  CASE r.kind = "submitting" -> [s EXCEPT !.pending = @ \cup {r.tx}]
    [] r.kind \in {"refused", "expired"} -> [s EXCEPT !.pending = @ \ {r.tx}]
    [] r.kind \in {"landed", "abandoned"} -> [Spend(s, r) EXCEPT !.pending = @ \ AtSlot(@, r.tx)]
    [] r.kind = "loss_cap" -> IF r.day = s.day THEN [s EXCEPT !.capped = TRUE] ELSE s
    [] r.kind = "tripwire" -> [s EXCEPT !.trip = TRUE]
    [] r.kind = "reset" -> [s EXCEPT !.trip = FALSE]

NewState(d) == [pending |-> {}, lost |-> 0, capped |-> FALSE, trip |-> FALSE, day |-> d]

Replay(records, d) == FoldLeft(Apply, NewState(d), records)

Roll(s, d) == IF d > s.day THEN [s EXCEPT !.day = d, !.lost = 0, !.capped = FALSE] ELSE s

IsHalted(s) == s.capped \/ s.trip

\* The most the transactions of one nonce can cost: one of them lands.
Held(P) == Most({tx[t].worst : t \in P})

Reserved(s) == MapThenSumSet(LAMBDA P : Held(P), {AtSlot(s.pending, t) : t \in s.pending})

\* Mutant of Admits: what is pending has cost nothing yet.
Admits_RealisedOnly(s, sender, n, w) ==
  s.lost + w <= Budget

\* A replacement adds what it costs over the largest at its nonce.
Admits(s, sender, n, w) ==
  LET held == Held({t \in s.pending : Slot(t) = <<sender, n>>}) IN
  s.lost + Reserved(s) + (IF w > held THEN w - held ELSE 0) <= Budget

\* nonce_views: where the ledger left each sender, or -1.
Viewed(v, r) ==
  CASE r.kind \in {"submitting", "expired"} -> [v EXCEPT ![tx[r.tx].sender] = tx[r.tx].nonce]
    [] r.kind = "landed" -> [v EXCEPT ![tx[r.tx].sender] = tx[r.tx].nonce + 1]
    [] r.kind = "abandoned" -> [v EXCEPT ![tx[r.tx].sender] = -1]
    [] r.kind = "reset" -> [s \in Sender |-> -1]
    [] OTHER -> v

Views(records) == FoldLeft(Viewed, [s \in Sender |-> -1], records)

\* The record each sender's view hangs on: its last submission, expiry or landing.
Pins(records) ==
  {i \in 1..Len(records) :
     /\ records[i].kind \in {"submitting", "expired", "landed"}
     /\ \A j \in (i + 1)..Len(records) :
          records[j].kind \in {"submitting", "expired", "landed"} =>
            tx[records[j].tx].sender # tx[records[i].tx].sender}

\* Mutant of Kept: expiries are settled, and go.
Kept_NoExpiries(records) ==
  LET keep == Replay(records, day).pending
                \cup {records[i].tx : i \in {j \in Pins(records) : records[j].kind # "landed"}} IN
  {i \in 1..Len(records) :
     \/ records[i].kind \in {"landed", "abandoned", "loss_cap", "tripwire", "reset"}
     \/ records[i].kind \in {"submitting", "refused"} /\ records[i].tx \in keep}

\* The records compact keeps.
Kept(records) ==
  LET keep == Replay(records, day).pending
                \cup {records[i].tx : i \in {j \in Pins(records) : records[j].kind # "landed"}} IN
  {i \in 1..Len(records) :
     \/ records[i].kind \in {"landed", "abandoned", "loss_cap", "tripwire", "reset"}
     \/ records[i].kind \in {"submitting", "refused"} /\ records[i].tx \in keep
     \/ records[i].kind = "expired" /\ i \in Pins(records)}

Compacted == LET keep == Kept(ledger) IN
  FoldLeft(LAMBDA out, i : IF i \in keep THEN Append(out, ledger[i]) ELSE out, <<>>,
           [i \in 1..Len(ledger) |-> i])

SameReplay(a, b) == Replay(a, day) = Replay(b, day) /\ Views(a) = Views(b)

-----------------------------------------------------------------------------
(* The worker (live.rs).                                                   *)

\* ArmedLive::record: the state takes the record though the file may refuse it.
Record(r, now) ==
  /\ mem' = Apply(Roll(mem, now), r)
  /\ \/ ledger' = Append(ledger, r) /\ UNCHANGED <<mishaps, excused>>
     \/ /\ mishaps < MaxMishaps /\ mishaps' = mishaps + 1
        /\ excused' = TRUE
        /\ UNCHANGED ledger

PendingOf(s) == {t \in mem.pending : tx[t].sender = s}

\* A transaction made, written ahead and applied.  (One that cannot be written
\* is not sent, and nothing changes.)
WriteAhead(s, n, b, w, now, hd) ==
  LET t == Len(tx) + 1 IN
  /\ t <= MaxTx
  /\ tx' = Append(tx, [sender |-> s, nonce |-> n, bound |-> b, worst |-> w])
  /\ ledger' = Append(ledger, Submitting(t))
  /\ mem' = Apply(Roll(mem, now), Submitting(t))
  /\ line' = [pc |-> "recorded", tx |-> t, now |-> now, head |-> hd]
  /\ turn' = "line"
  /\ UNCHANGED <<nonces, ready, head, outbox, up, fate, block, stolen, faultVars>>

\* submit_arm: an arm of a slot, bounded from the head the node shows.  The
\* line's time is when it was written, which may be before midnight.
Submit(s, b, w, now, hd) ==
  /\ up /\ turn = "free" /\ line.now <= now /\ ready /\ ~IsHalted(Roll(mem, now))
  /\ Admits(Roll(mem, now), s, nonces[s], w)
  /\ WriteAhead(s, nonces[s], b, w, now, hd)

\* Mutant of LineDone: an early return that keeps the turn.
LineDone_HoldsTurn == line' = [NoLine EXCEPT !.now = line.now] /\ UNCHANGED turn

LineDone == line' = [NoLine EXCEPT !.now = line.now] /\ turn' = "free"

\* Sent: accepted, or with no clear answer, which may be an acceptance.  The
\* transaction stays pending, and the builder may hold it to its bound.
Answered ==
  /\ line.pc = "recorded"
  /\ fate' = [fate EXCEPT ![line.tx].is = "held"]
  /\ LineDone
  /\ UNCHANGED <<ledger, mem, nonces, ready, head, outbox, up, tx, block, stolen, faultVars>>

\* A refusal that says what was refused: the transaction is not held.  A used
\* nonce is a landing to look for; an underpriced replacement is bumped.
RefusedFor(why) ==
  /\ line.pc = "recorded"
  /\ why = "low" => Nonce(tx[line.tx].sender) > tx[line.tx].nonce
  /\ why = "underpriced" => \E t \in AtSlot(1..Len(tx), line.tx) \ {line.tx} : fate[t].is = "held"
  /\ fate' = [fate EXCEPT ![line.tx].is = "dead"]
  /\ Record(Refused(line.tx), line.now)
  /\ IF why = "other" THEN LineDone
     ELSE line' = [line EXCEPT !.pc = why] /\ UNCHANGED turn
  /\ UNCHANGED <<nonces, ready, head, outbox, up, tx, block, stolen, misdated, crashes, resets>>

\* The bump: the next transaction at the nonce, dearer, admitted anew; the halt
\* and the readiness are not looked at again.
Bump(w) ==
  LET t == tx[line.tx] IN
  /\ line.pc = "underpriced"
  /\ w > t.worst /\ Admits(Roll(mem, line.now), t.sender, t.nonce, w)
  /\ WriteAhead(t.sender, t.nonce, t.bound, w, line.now, line.head)

\* read_nonce: the nonce at the end of the block before h, and which of ours at
\* the nonce before it has a receipt.
ReadOf(s, h) ==
  LET n == NonceAt(s, h - 1)
      ours == {t \in PendingOf(s) : tx[t].nonce + 1 = n /\ fate[t].is = "landed"} IN
  [sender |-> s, nonce |-> n, landed |-> Most(ours)]

\* A receipt may not read, or not be there for the node that is asked.
Unread(r) == [r EXCEPT !.landed = 0]

\* Mutant of IsPast: a bound the head has reached is a bound it has passed.
IsPast_AtBound(t, h) == tx[t].bound <= h

IsPast(t, h) == tx[t].bound < h

\* settle, land and abandon: the records a read calls for, and the nonce the
\* sender moves to after them (-1: none).  Ours landed at the nonce just passed,
\* or whatever was passed is abandoned and the lane trips; at the nonce itself,
\* what is past its bound expires.  (Nonces of ours above the one read would
\* need the chain to go back.)
Judged(r, h, now) ==
  LET mine == PendingOf(r.sender)
      slots == {tx[t].nonce : t \in mine}
      past == {n \in slots : n < r.nonce}
      worst(n) == Held({t \in mine : tx[t].nonce = n})
      landed == r.landed \in mine /\ past = {r.nonce - 1} IN
  IF slots = {} THEN
    [records |-> IF nonces[r.sender] # r.nonce THEN <<Tripwire>> ELSE <<>>, sender |-> r.sender, nonce |-> -1]
  ELSE IF past # {} /\ ~landed THEN
    [records |-> SetToSeq({Abandoned(Max({t \in mine : tx[t].nonce = n}), worst(n), now) : n \in past})
                   \o <<Tripwire>>,
     sender |-> r.sender, nonce |-> -1]
  ELSE
    [records |-> (IF landed THEN <<Landed(r.landed, now)>> ELSE <<>>)
                   \o SetToSeq({Expired(t) : t \in {u \in mine : tx[u].nonce = r.nonce /\ IsPast(u, h)}}),
     sender |-> r.sender, nonce |-> r.nonce]

\* A node behind what this worker has seen is not judged.
IsStale(r) ==
  LET slots == {tx[t].nonce : t \in PendingOf(r.sender)} IN
  r.nonce < (IF slots = {} THEN nonces[r.sender] ELSE Min(slots))

\* What a settlement leaves to write; with nothing to write it is done.
Settle(r, h, now) ==
  LET j == Judged(r, h, now) IN
  IF IsStale(r) THEN UNCHANGED <<outbox, nonces>>
  ELSE /\ outbox' = IF j.records = <<>> THEN NoOutbox ELSE j
       /\ nonces' = IF j.records = <<>> /\ j.nonce # -1 THEN [nonces EXCEPT ![r.sender] = j.nonce] ELSE nonces

LandingRead(r) ==
  /\ Settle(r, line.head, line.now)
  /\ IF outbox' = NoOutbox THEN LineDone ELSE (line' = [line EXCEPT !.pc = "settling"] /\ UNCHANGED turn)
  /\ UNCHANGED <<ledger, mem, ready, head, up, chainVars, misdated, crashes, resets>>

\* landing_check, inside the line's turn.  What it finds is dated by the line,
\* whose time may be from before the midnight the landing came after.
LandingCheck ==
  /\ line.pc = "low"
  /\ LET r == ReadOf(tx[line.tx].sender, line.head) IN
     \/ LandingRead(r) /\ UNCHANGED <<mishaps, excused>>
     \/ /\ r.landed # 0 /\ mishaps < MaxMishaps
        /\ mishaps' = mishaps + 1 /\ excused' = TRUE
        /\ LandingRead(Unread(r))

\* No bump that the caps admit, or no answer to the landing check's read.
GivesUp ==
  /\ line.pc \in {"underpriced", "low"}
  /\ LineDone
  /\ UNCHANGED <<ledger, mem, nonces, ready, head, outbox, up, chainVars, faultVars>>

Due(h) == {tx[t].sender : t \in {u \in mem.pending : IsPast(u, h)}}

\* on_head, outside the turn: the roll, and a read of each sender with a pending
\* bound passed.  The senders not in asked did not answer; the receipt of the
\* one in blind, if any, was not there.
HeadReads(h, asked, blind) ==
  /\ up /\ head.pc = "none"
  /\ 0 < h /\ h <= block
  /\ asked \subseteq Due(h) /\ asked # {} /\ blind \subseteq asked
  /\ \A s \in blind : ReadOf(s, h).landed # 0
  /\ mishaps + Cardinality(blind) <= MaxMishaps
  /\ mishaps' = mishaps + Cardinality(blind)
  /\ excused' = (excused \/ blind # {})
  /\ mem' = Roll(mem, day)
  /\ head' = [pc |-> "read", at |-> h, now |-> day,
              reads |-> {IF s \in blind THEN Unread(ReadOf(s, h)) ELSE ReadOf(s, h) : s \in asked}]
  /\ UNCHANGED <<ledger, nonces, ready, turn, line, outbox, up, chainVars, misdated, crashes, resets>>

\* The turn's end, with check_ready.
HeadDone == head' = NoHead /\ turn' = "free" /\ ready' = (ready \/ mem'.pending = {})

\* A read judged inside the turn, against the state as it then is.
HeadSettles(r) ==
  /\ r \in head.reads /\ outbox = NoOutbox
  /\ turn = "free" \/ turn = "head"
  /\ Settle(r, head.at, head.now)
  /\ UNCHANGED mem
  /\ IF outbox' = NoOutbox /\ head.reads = {r} THEN HeadDone
     ELSE head' = [head EXCEPT !.reads = @ \ {r}] /\ turn' = "head" /\ UNCHANGED ready
  /\ UNCHANGED <<ledger, line, up, chainVars, faultVars>>

\* What landed at the nonce a record settles, on a later day than it bears.
Misdates(r) ==
  IF r.kind \in {"landed", "abandoned"}
  THEN {t \in AtSlot(1..Len(tx), r.tx) : fate[t].is = "landed" /\ fate[t].day > r.day}
  ELSE {}

\* What is left to write after r: a landing that spends the day's budget halts
\* the day.
AfterWrite(r) ==
  IF r.kind = "landed" /\ mem'.lost >= Budget THEN <<LossCap(mem'.day)>> \o Tail(outbox.records)
  ELSE Tail(outbox.records)

\* The next record of a settlement; after the last, the sender's nonce moves.
Write ==
  /\ outbox # NoOutbox
  /\ LET r == outbox.records[1]
         now == IF turn = "line" THEN line.now ELSE head.now IN
     /\ Record(r, now)
     /\ misdated' = misdated \cup Misdates(r)
     /\ IF AfterWrite(r) # <<>> THEN
          /\ outbox' = [outbox EXCEPT !.records = AfterWrite(r)]
          /\ UNCHANGED <<nonces, ready, turn, line, head>>
        ELSE
          /\ outbox' = NoOutbox
          /\ nonces' = IF outbox.nonce = -1 THEN nonces ELSE [nonces EXCEPT ![outbox.sender] = outbox.nonce]
          /\ \/ turn = "line" /\ LineDone /\ UNCHANGED <<head, ready>>
             \/ turn = "head" /\ head.reads = {} /\ HeadDone /\ UNCHANGED line
             \/ turn = "head" /\ head.reads # {} /\ UNCHANGED <<head, turn, ready, line>>
  /\ UNCHANGED <<up, chainVars, crashes, resets>>

-----------------------------------------------------------------------------
(* Death, the operator, and the boot.                                      *)

Idle(l) ==
  /\ mem' = NewState(0) /\ nonces' = [s \in Sender |-> 0] /\ ready' = FALSE
  /\ turn' = "free" /\ line' = NoLine /\ head' = NoHead /\ outbox' = NoOutbox
  /\ ledger' = l

\* The process dies, and with it what append did not sync.  A reset that goes
\* with it brings its trip back.
Crash ==
  /\ up /\ crashes < MaxCrashes
  /\ up' = FALSE /\ crashes' = crashes + 1
  /\ \E n \in 0..Len(ledger) :
       /\ \A i \in (n + 1)..Len(ledger) : ~Critical(ledger[i])
       /\ Idle(SubSeq(ledger, 1, n))
       /\ excused' = (excused \/ \E i \in (n + 1)..Len(ledger) : ledger[i] = Reset)
  /\ UNCHANGED <<chainVars, misdated, mishaps, resets>>

\* The operator acknowledges a tripwire, with the process down.  What is still
\* pending may owe its next trip to what came before.
OperatorReset ==
  /\ ~up /\ resets < MaxResets /\ Replay(ledger, day).trip
  /\ resets' = resets + 1
  /\ ledger' = Append(ledger, Reset)
  /\ excused' = (Replay(ledger, day).pending # {})
  /\ UNCHANGED <<workerVars, up, chainVars, misdated, mishaps, crashes>>

\* Mutant of Surprised: what is still pending is no reason to wait.
Surprised_Pending(l, read) ==
  {s \in Sender : Views(l)[s] \notin {-1, read[s]}}

\* The senders whose nonce is not where the ledger left it, with nothing
\* pending that could have moved it.
Surprised(l, read) ==
  {s \in Sender : /\ Views(l)[s] \notin {-1, read[s]}
                  /\ \A t \in Replay(l, day).pending : tx[t].sender # s}

\* boot_armed_live and begin: perhaps a compaction, the latest nonces from one
\* node at some block, and a trip for each surprise.
Begin(l, b) ==
  LET read == [s \in Sender |-> NonceAt(s, b)]
      state == Replay(l, day)
      trips == Surprised(l, read) # {} IN
  /\ ~up /\ up' = TRUE
  /\ \/ l = ledger
     \/ l = Compacted /\ SameReplay(l, ledger)
  /\ b \in 0..block /\ block <= b + Lag
  /\ nonces' = read
  /\ mem' = [state EXCEPT !.trip = @ \/ trips]
  /\ ledger' = IF trips THEN Append(l, Tripwire) ELSE l
  /\ ready' = (state.pending = {})
  /\ excused' = (excused \/ \E s \in Sender : read[s] # Nonce(s))
  /\ UNCHANGED <<turn, line, head, outbox, chainVars, misdated, mishaps, crashes, resets>>

Init ==
  /\ ledger = <<>> /\ mem = NewState(0) /\ nonces = [s \in Sender |-> 0]
  /\ ready = FALSE /\ turn = "free" /\ line = NoLine /\ head = NoHead /\ outbox = NoOutbox
  /\ up = FALSE
  /\ tx = <<>> /\ fate = [t \in Tx |-> [is |-> "none", block |-> 0, day |-> 0, loss |-> 0]]
  /\ block = 1 /\ stolen = {}
  /\ excused = FALSE /\ misdated = {} /\ mishaps = 0 /\ crashes = 0 /\ resets = 0

LineStep ==
  \/ \E s \in Sender, w \in Worst, now \in {day - 1, day} \cap Nat, back \in 0..Lag, win \in 1..Window :
       Submit(s, block - back + win, w, now, block - back)
  \/ Answered
  \/ \E why \in {"low", "underpriced", "other"} : RefusedFor(why)
  \/ \E w \in Worst : Bump(w)
  \/ LandingCheck \/ GivesUp

HeadStep ==
  \/ \E asked \in SUBSET Due(block) : \E blind \in SUBSET asked : HeadReads(block, asked, blind)
  \/ \E r \in head.reads : HeadSettles(r)

Restart == \E b \in 0..block : Begin(ledger, b) \/ Begin(Compacted, b)

Next ==
  \/ ChainStep
  \/ LineStep \/ HeadStep \/ Write
  \/ Crash \/ OperatorReset \/ Restart

Spec == Init /\ [][Next]_vars

-----------------------------------------------------------------------------
(* What must hold.                                                         *)

\* Mutated state keeps its shape: the worker's state, the outbox and the chain.
TypeOK ==
  /\ mem.pending \subseteq 1..Len(tx) /\ mem.lost \in Nat /\ mem.day \in 0..(MaxBlock \div DayBlocks)
  /\ nonces \in [Sender -> 0..(MaxTx + MaxMishaps)]
  /\ (turn = "line") <=> (line.pc # "none")
  /\ turn = "free" => outbox = NoOutbox
  /\ \A i \in 1..Len(ledger) : "tx" \in DOMAIN ledger[i] => ledger[i].tx \in 1..Len(tx)

Settles(t) == {i \in 1..Len(ledger) : ledger[i].kind \in {"landed", "abandoned"} /\ Slot(ledger[i].tx) = Slot(t)}

\* However submissions, replacements, landings, the turn of the day, deaths and
\* compactions fall, no day's true losses pass the budget, but for landings after
\* midnight that a line from before it settled: those are on the old day's bill.
BudgetHolds ==
  \A d \in 0..(MaxBlock \div DayBlocks) :
    MapThenSumSet(LAMBDA t : fate[t].loss,
                  {t \in 1..Len(tx) \ misdated : fate[t].is = "landed" /\ fate[t].day = d}) <= Budget

\* A transaction the ledger calls expired never lands afterwards, and one it
\* calls landed did: no loss goes uncounted.
ExpiredIsDead ==
  \A i \in 1..Len(ledger) :
    /\ ledger[i].kind = "expired" => fate[ledger[i].tx].is # "landed"
    /\ ledger[i].kind = "landed" => fate[ledger[i].tx].is = "landed"

\* What landed is either still pending in the ledger, for the next boot to
\* settle, or accounted for.
AccountedFor ==
  \A t \in 1..Len(tx) : fate[t].is = "landed" => t \in Replay(ledger, day).pending \/ Settles(t) # {}

\* The lane trips only for something this worker cannot account for: another
\* use of the key, a receipt that was not there, a record that was not written,
\* or a node at boot behind the chain.
TripwireTruthful == mem.trip => excused

\* A compacted ledger always replays the same, so no boot refuses to compact.
CompactReplaysSame == SameReplay(Compacted, ledger)
=============================================================================
