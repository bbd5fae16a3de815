------------------------------- MODULE Canary -------------------------------
(***************************************************************************)
(* The live canary (apex-runtime, canary/): real transactions, one at a    *)
(* time.  A ledger written ahead of every send, the limits and halts       *)
(* computed from it, the send, settlement by receipt, the tripwire the     *)
(* head task keeps on the trader's nonce, and recovery at boot from the    *)
(* ledger and the chain.                                                   *)
(*                                                                         *)
(* A transaction and the ticket it is sent for are one number.  Amounts    *)
(* are kept as losses alone: no limit reads a win.  The plane's journal is *)
(* the outcome of each ticket; Recovery.tla models how it is written.      *)
(***************************************************************************)
EXTENDS NonceLane, Sequences, FiniteSets, SequencesExt

CONSTANTS
  MaxTx,          \* bound: transactions
  LossCap, MaxReverts, MaxRefusals, MaxLanded,   \* Limits
  Lag,            \* how far the node's nonce view may trail the chain
  MaxMishaps,     \* bound: appends to the ledger and to the journal that fail and
                  \* transactions of the key sent from elsewhere, together
  MaxResets,      \* bound: operator resets
  MaxCrashes      \* bound: deaths of the process

ASSUME CanaryAssumption ==
  /\ {LossCap, MaxReverts, MaxRefusals, MaxLanded} \subseteq Nat \ {0}
  /\ {MaxTx, Lag, MaxMishaps, MaxResets, MaxCrashes} \subseteq Nat

Tx == 1..MaxTx

\* What a receipt says, and the loss the limits count: a landing above water, a
\* landing below it, a revert (its whole cost), and a landing whose transfers
\* and event disagree or whose receipt does not read.
Mined == {"won", "lost", "reverted", "odd"}
LossOf(fate) == CASE fate = "lost" -> 2 [] fate = "reverted" -> 1 [] OTHER -> 0

VARIABLES
  ledger,     \* canary.jsonl: the records written to it, each with its newline
  file,       \* ... and what it ends in: [end, stray]
  mem,        \* Canary's State: [lost, reverts, refusals, landed, halted, open]
  sentCount,  \* sent_since_boot
  bootNonce,  \* the head task's first reading of the nonce, or Unset
  tripping,   \* whether it is between tripping the halt and writing it
  lane,       \* the signer's one lane (NonceLane)
  send,       \* the capture loop: [pc, tx, ending]
  stage,      \* the process: down, resolving, closing (boot), up
  found,      \* boot: Tx -> what was found of a send the ledger held open
  ticket,     \* Tx -> what the journal says of its ticket
  fate,       \* Tx -> what became of the transaction
  nonceOf,    \* Tx -> its nonce
  mined,      \* the chain: how many nonces of the trader are used
  foreign,    \* how many of them from elsewhere
  missed,     \* transactions whose outcome the ledger refused to take ...
  lapsed,     \* ... and whose outcome the plane never went on to ask for
  shortBoot,  \* whether some boot reading trailed the chain
  faults, resets, crashes

ledgerVars == <<ledger, file, faults, missed, lapsed>>
headVars   == <<bootNonce, tripping, shortBoot>>
bootVars   == <<stage, found>>
chainVars  == <<fate, mined, foreign>>
operVars   == <<resets, crashes>>
vars == <<ledgerVars, mem, sentCount, headVars, lane, send, bootVars, ticket,
          nonceOf, chainVars, operVars>>

-----------------------------------------------------------------------------
(* Records, and what they do to the totals (limits.rs, State::apply).      *)

Sent(t)         == [kind |-> "sent", tx |-> t]
Outcome(t, k)   == [kind |-> k, tx |-> t, loss |-> LossOf(fate[t])]
Halted(why)     == [kind |-> "halted", why |-> why]
ResetRecord     == [kind |-> "reset"]

\* What settlement records of a transaction it found a receipt for.
Settled(t) == CASE fate[t] \in {"won", "lost"} -> "landed"
                [] fate[t] = "reverted" -> "reverted"
                [] OTHER -> "unexplained"

NewState == [lost |-> 0, reverts |-> 0, refusals |-> 0, landed |-> 0,
             halted |-> "none", open |-> {}]

Count(s, r) ==
  CASE r.kind = "sent" -> [s EXCEPT !.open = @ \cup {r.tx}]
    [] r.kind = "landed" -> [s EXCEPT !.open = @ \ {r.tx}, !.landed = @ + 1,
                                      !.lost = @ + r.loss, !.reverts = 0, !.refusals = 0]
    [] r.kind = "reverted" -> [s EXCEPT !.open = @ \ {r.tx}, !.lost = @ + r.loss,
                                        !.reverts = @ + 1, !.refusals = 0]
    [] r.kind = "refused" -> [s EXCEPT !.open = @ \ {r.tx}, !.refusals = @ + 1]
    [] r.kind = "unexplained" -> [s EXCEPT !.open = @ \ {r.tx}]
    [] r.kind \in {"silent", "unresolved"} -> s

\* The halt a record trips, in the code's order.
Cause(r, s) ==
  CASE r.kind \in {"silent", "unresolved"} -> "unresolved"
    [] r.kind = "unexplained" -> "unexplained"
    [] s.lost >= LossCap -> "loss_cap"
    [] s.reverts >= MaxReverts -> "reverts"
    [] s.refusals >= MaxRefusals -> "refusals"
    [] s.landed >= MaxLanded -> "done"
    [] OTHER -> "none"

\* Mutant of Trip: the last halt wins.
Trip_Last(s, why) == [s EXCEPT !.halted = why]

\* The first halt stays.
Trip(s, why) == IF s.halted = "none" THEN [s EXCEPT !.halted = why] ELSE s

\* Mutants of Apply: a replayed loss trips nothing, its Halted record being
\* there; a silent send is done with.
Apply_NoTrip(s, r) ==
  IF r.kind = "halted" THEN [s EXCEPT !.halted = r.why]
  ELSE IF r.kind = "reset" THEN [NewState EXCEPT !.open = s.open]
  ELSE Count(s, r)

Apply_ClosesSilent(s, r) ==
  IF r.kind = "halted" THEN [s EXCEPT !.halted = r.why]
  ELSE IF r.kind = "reset" THEN [NewState EXCEPT !.open = s.open]
  ELSE [Trip(Count(s, r), Cause(r, Count(s, r))) EXCEPT
          !.open = IF r.kind = "silent" THEN @ \ {r.tx} ELSE @]

Apply(s, r) ==
  IF r.kind = "halted" THEN [s EXCEPT !.halted = r.why]
  ELSE IF r.kind = "reset" THEN [NewState EXCEPT !.open = s.open]
  ELSE Trip(Count(s, r), Cause(r, Count(s, r)))

Replay(records) == FoldLeft(Apply, NewState, records)

-----------------------------------------------------------------------------
(* The file (ledger.rs).                                                   *)

\* A file ends in a whole line ("clean"), in the start of one ("ragged"), or it
\* has a line that does not parse and that no open forgives ("broken").  A line
\* that lacks its newline only is read: stray holds it.
disk == [lines |-> ledger, end |-> file.end, stray |-> file.stray]

Becomes(d) == ledger' = d.lines /\ file' = [end |-> d.end, stray |-> d.stray]

\* What open reads.
Legible == ledger \o file.stray

\* A whole line.  Nobody repairs the end of the file first, so behind the start of
\* a line it is the other half of one.
Whole(d, r) ==
  [lines |-> Append(d.lines, r), end |-> IF d.end = "clean" THEN "clean" ELSE "broken",
   stray |-> <<>>]

\* The start of one, and with it all of one but the newline.
Cut(d, rest) ==
  [d EXCEPT !.end = IF @ = "broken" THEN @ ELSE "ragged", !.stray = rest]

\* What a failed append leaves: nothing new, the whole line -- only its fsync
\* failed -- or a part of it.
Partial(d, r) ==
  {d, Whole(d, r), Cut(d, <<>>)} \cup (IF d.end = "clean" THEN {Cut(d, <<r>>)} ELSE {})

-----------------------------------------------------------------------------
(* Canary::record, and Canary::halt.                                       *)

\* The record is on disk, then applied.
Recorded(r) ==
  /\ Becomes(Whole(disk, r))
  /\ mem' = Apply(mem, r)
  /\ UNCHANGED <<faults, missed, lapsed>>

\* The append failed: nothing is applied, whatever is in the file.
Unrecorded(r) ==
  /\ faults + foreign < MaxMishaps
  /\ faults' = faults + 1
  /\ \E d \in Partial(disk, r) : Becomes(d)
  /\ missed' = IF r.kind = "sent" THEN missed ELSE missed \cup {r.tx}
  /\ UNCHANGED <<mem, lapsed>>

\* The Halted record that follows a halt.
WriteHalt ==
  /\ \/ Becomes(Whole(disk, Halted(mem.halted))) /\ UNCHANGED faults
     \/ /\ faults + foreign < MaxMishaps
        /\ faults' = faults + 1
        /\ \E d \in Partial(disk, Halted(mem.halted)) : Becomes(d)
  /\ UNCHANGED <<missed, lapsed>>

-----------------------------------------------------------------------------
(* The chain and its node.                                                 *)

\* The trader's pending nonce.
PendingNonce ==
  CHOOSE n \in mined..(mined + MaxTx) :
    /\ \A m \in mined..(n - 1) : \E t \in Tx : fate[t] = "pending" /\ nonceOf[t] = m
    /\ \A t \in Tx : ~(fate[t] = "pending" /\ nonceOf[t] = n)

\* What the node may say it is, late by Lag blocks at most.
Views == {n \in 0..PendingNonce : n + Lag >= mined}

Kill(n, f) == [t \in Tx |-> IF nonceOf[t] = n /\ f[t] = "pending" THEN "dead" ELSE f[t]]

\* A transaction on the wire reaches the mempool now, later or never; one in it
\* is mined now, later or never.
Reaches(t) ==
  /\ fate[t] = "wire" /\ nonceOf[t] >= mined
  /\ fate' = [fate EXCEPT ![t] = "pending"]
  /\ UNCHANGED <<mined, foreign>>

Mine(t) ==
  /\ fate[t] = "pending" /\ nonceOf[t] = mined
  /\ \E f \in Mined : fate' = [Kill(mined, fate) EXCEPT ![t] = f]
  /\ mined' = mined + 1
  /\ UNCHANGED foreign

\* The key is used elsewhere.
ForeignUse ==
  /\ faults + foreign < MaxMishaps
  /\ foreign' = foreign + 1
  /\ mined' = mined + 1
  /\ fate' = Kill(mined, fate)

ChainStep ==
  /\ ForeignUse \/ \E t \in Tx : Reaches(t) \/ Mine(t)
  /\ UNCHANGED <<ledgerVars, mem, sentCount, headVars, lane, send, bootVars,
                 ticket, nonceOf, operVars>>

-----------------------------------------------------------------------------
(* The capture loop: one ticket at a time (plane.rs, canary/send.rs,       *)
(* canary/chain.rs).                                                       *)

Idle == [pc |-> "idle", tx |-> 0, ending |-> "none"]
At(pc, t) == send.pc = pc /\ send.tx = t
Goes(pc, t) == send' = [pc |-> pc, tx |-> t, ending |-> "none"]
Ends(t, ending) == send' = [pc |-> "closing", tx |-> t, ending |-> ending]

\* The risk gate finds no hold, the ticket is admitted, takes a nonce, is signed
\* and reaches Dispatching.
Admit(t) ==
  /\ stage = "up" /\ send.pc = "idle"
  /\ mem.halted = "none"
  /\ ticket[t] = "none" /\ \A u \in Tx : u < t => ticket[u] # "none"
  /\ ticket' = [ticket EXCEPT ![t] = "open"]
  /\ \E p \in Views :
       /\ lane' = Reserve(lane, p, 0)
       /\ nonceOf' = [nonceOf EXCEPT ![t] = NextNonce(lane, p)]
  /\ Goes("signed", t)
  /\ UNCHANGED <<ledgerVars, mem, sentCount, headVars, bootVars, chainVars, operVars>>

\* send_raw reads the hold again.  The stop file, which comes and goes as the
\* operator likes, holds too.
CheckHold(t) ==
  /\ At("signed", t)
  /\ \/ mem.halted = "none" /\ Goes("clear", t)
     \/ Ends(t, "rejected")
  /\ UNCHANGED <<ledgerVars, mem, sentCount, headVars, lane, bootVars, ticket,
                 nonceOf, chainVars, operVars>>

\* Mutants of WriteAhead: the count of sends is left alone; a failed append
\* does not stop the send.
WriteAhead_Uncounted(t) ==
  /\ At("clear", t)
  /\ \/ Recorded(Sent(t)) /\ Goes("written", t)
     \/ Unrecorded(Sent(t)) /\ Ends(t, "rejected")
  /\ UNCHANGED <<sentCount, headVars, lane, bootVars, ticket, nonceOf, chainVars, operVars>>

\* The send record, before a byte leaves; without it nothing does.
WriteAhead(t) ==
  /\ At("clear", t)
  /\ \/ Recorded(Sent(t)) /\ Goes("written", t) /\ sentCount' = sentCount + 1
     \/ Unrecorded(Sent(t)) /\ Ends(t, "rejected") /\ UNCHANGED sentCount
  /\ UNCHANGED <<headVars, lane, bootVars, ticket, nonceOf, chainVars, operVars>>

\* The bytes leave.
HandOff(t) ==
  /\ At("written", t)
  /\ fate' = [fate EXCEPT ![t] = "wire"]
  /\ Goes("asked", t)
  /\ UNCHANGED <<ledgerVars, mem, sentCount, headVars, lane, bootVars, ticket,
                 nonceOf, mined, foreign, operVars>>

\* An outcome's record, and the Halted record behind it if it tripped a halt;
\* an error of either is only logged.
Settle(t, kind, ending) ==
  \/ /\ Recorded(Outcome(t, kind))
     /\ send' = [pc |-> IF mem'.halted # mem.halted THEN "halting" ELSE "closing",
                 tx |-> t, ending |-> ending]
  \/ Unrecorded(Outcome(t, kind)) /\ Ends(t, ending)

\* Accepted needs the endpoint to have taken it, Refused that it never will,
\* and silence says nothing.
Answer(t) ==
  /\ At("asked", t)
  /\ \/ fate[t] \notin {"wire", "dead"} /\ Goes("watched", t) /\ UNCHANGED <<ledgerVars, mem, fate>>
     \/ fate[t] \in {"wire", "dead"} /\ Settle(t, "refused", "rejected")
                                    /\ fate' = [fate EXCEPT ![t] = "dead"]
     \/ Settle(t, "silent", "unanswered") /\ UNCHANGED fate
  /\ UNCHANGED <<sentCount, headVars, lane, bootVars, ticket, nonceOf, mined, foreign, operVars>>

Ending(t) == CASE Settled(t) = "landed" -> "landed" [] Settled(t) = "reverted" -> "reverted"
               [] OTHER -> "unexplained"

\* The journal takes no Acknowledged, or no Included, and protocol ends: whatever
\* becomes of the transaction, nobody asks.  The nonce stays out.
Lapses(t) ==
  /\ faults + foreign < MaxMishaps
  /\ faults' = faults + 1
  /\ lapsed' = lapsed \cup {t}
  /\ Ends(t, "unjournaled")
  /\ UNCHANGED <<ledger, file, missed, mem>>

\* observe and attribute: the receipt, reconciled and recorded -- or none by the
\* timeout, whether the chain has it or not: a poll that fails is no receipt.
Observe(t) ==
  /\ At("watched", t)
  /\ \/ fate[t] \in Mined /\ Settle(t, Settled(t), Ending(t))
     \/ Settle(t, "unresolved", "timeout")
     \/ Lapses(t)
  /\ UNCHANGED <<sentCount, headVars, lane, bootVars, ticket, nonceOf, chainVars, operVars>>

RecordHalt(t) ==
  /\ At("halting", t)
  /\ WriteHalt
  /\ Ends(t, send.ending)
  /\ UNCHANGED <<mem, sentCount, headVars, lane, bootVars, ticket, nonceOf, chainVars, operVars>>

\* What an ending does with the nonce: an endpoint's no and the timeout give it
\* back, a receipt spends it, silence, the unexplained and the unjournaled keep it
\* out.
LaneAfter(n, ending) ==
  CASE ending \in {"rejected", "timeout"} -> Release(lane, n, FALSE)
    [] ending \in {"landed", "reverted"} -> Release(lane, n, TRUE)
    [] OTHER -> lane

Close(t) ==
  /\ At("closing", t)
  /\ lane' = LaneAfter(nonceOf[t], send.ending)
  /\ ticket' = [ticket EXCEPT ![t] = IF send.ending \in {"landed", "reverted"}
                                       THEN send.ending ELSE "failed"]
  /\ send' = Idle
  /\ UNCHANGED <<ledgerVars, mem, sentCount, headVars, bootVars, nonceOf, chainVars, operVars>>

CaptureStep ==
  \E t \in Tx : \/ Admit(t) \/ CheckHold(t) \/ WriteAhead(t) \/ HandOff(t) \/ Answer(t)
               \/ Observe(t) \/ RecordHalt(t) \/ Close(t)

-----------------------------------------------------------------------------
(* The head task's tripwire (shadow/mod.rs).                               *)

BeyondOurs(boot, now) == now > boot + sentCount

\* The first reading is the boot's.  A nonce beyond it and our sends halts: in
\* memory first, and on disk after.
ReadNonce ==
  /\ stage = "up" /\ ~tripping
  /\ \E now \in Views :
       LET boot == IF bootNonce = Unset THEN now ELSE bootNonce IN
       /\ bootNonce' = boot
       /\ shortBoot' = (shortBoot \/ (bootNonce = Unset /\ now < PendingNonce))
       /\ mem' = IF BeyondOurs(boot, now) THEN Trip(mem, "tripwire") ELSE mem
       /\ tripping' = (mem' # mem)
  /\ UNCHANGED <<ledgerVars, sentCount, lane, send, bootVars, ticket, nonceOf, chainVars, operVars>>

RecordTripwire ==
  /\ tripping
  /\ WriteHalt
  /\ tripping' = FALSE
  /\ UNCHANGED <<mem, sentCount, bootNonce, shortBoot, lane, send, bootVars, ticket,
                 nonceOf, chainVars, operVars>>

HeadStep == ReadNonce \/ RecordTripwire

-----------------------------------------------------------------------------
(* Death, the operator and boot (limits.rs open, recover.rs).              *)

\* The open sends not looked for yet.
ToResolve == {t \in mem.open : found[t] = "none"}

\* Somebody may be inside an append.
Appending ==
  \/ send.pc \in {"clear", "asked", "watched", "halting"} \/ tripping
  \/ stage = "resolving" /\ ToResolve # {}

\* The process dies, and the file keeps a piece of the line it was writing.  (A
\* death behind a whole line, or one that lacks its newline only, is an append --
\* one that succeeded, or failed -- with a death behind it.)
Crash ==
  /\ stage # "down"
  /\ crashes < MaxCrashes
  /\ crashes' = crashes + 1
  /\ stage' = "down"
  /\ mem' = NewState
  /\ sentCount' = 0
  /\ bootNonce' = Unset
  /\ tripping' = FALSE
  /\ lane' = NewLane
  /\ send' = Idle
  /\ found' = [t \in Tx |-> "none"]
  /\ Becomes(disk) \/ (Appending /\ Becomes(Cut(disk, <<>>)))
  /\ UNCHANGED <<faults, missed, lapsed, shortBoot, ticket, nonceOf, chainVars, resets>>

\* canary-reset.sh, with the service stopped and a ledger there: the first boot made
\* one.
OperatorReset ==
  /\ stage = "down" /\ crashes > 0
  /\ resets < MaxResets
  /\ resets' = resets + 1
  /\ Becomes(Whole(disk, ResetRecord))
  /\ UNCHANGED <<faults, missed, lapsed, mem, sentCount, headVars, lane, send, bootVars,
                 ticket, nonceOf, chainVars, crashes>>

\* Mutant of Open: halts are taken from the Halted records alone.
Open_TrustsHalted ==
  /\ stage = "down" /\ file.end # "broken"
  /\ mem' = [Replay(Legible) EXCEPT !.halted =
               FoldLeft(LAMBDA h, r : IF r.kind = "halted" THEN r.why
                                      ELSE IF r.kind = "reset" THEN "none" ELSE h,
                        "none", Legible)]
  /\ stage' = "resolving"
  /\ UNCHANGED <<ledgerVars, sentCount, headVars, lane, send, found, ticket,
                 nonceOf, chainVars, operVars>>

\* Canary::open: the ledger, replayed.  It refuses one with a broken line in it.
Open ==
  /\ stage = "down" /\ file.end # "broken"
  /\ mem' = Replay(Legible)
  /\ stage' = "resolving"
  /\ UNCHANGED <<ledgerVars, sentCount, headVars, lane, send, found, ticket,
                 nonceOf, chainVars, operVars>>

\* The Halted record behind a halt boot has just tripped, if it gets written: the
\* file is d by then, after n appends that failed.
BootWrites(d, n) ==
  LET halts == mem'.halted # mem.halted
      r     == Halted(mem'.halted) IN
  \/ /\ faults' = faults + n
     /\ Becomes(IF halts THEN Whole(d, r) ELSE d)
  \/ /\ halts
     /\ faults + n + foreign < MaxMishaps
     /\ faults' = faults + n + 1
     /\ \E e \in Partial(d, r) : Becomes(e)

\* resolve_open with a receipt: the outcome is recorded.  An unexplained one is
\* unresolved too, which a halt that is there already does not notice.
FoundReceipt(t) ==
  LET r == Outcome(t, Settled(t)) IN
  /\ fate[t] \in Mined
  /\ \/ mem' = Apply(mem, r) /\ BootWrites(Whole(disk, r), 0) /\ UNCHANGED missed
     \/ /\ faults + foreign < MaxMishaps
        /\ missed' = missed \cup {t}
        /\ mem' = IF Settled(t) = "unexplained" THEN Trip(mem, "unresolved") ELSE mem
        /\ \E d \in Partial(disk, r) : BootWrites(d, 1)
  /\ found' = [found EXCEPT ![t] = IF Settled(t) = "unexplained" THEN "failed" ELSE Settled(t)]

\* resolve_open without one, because there is none or because nobody answered.
FoundNothing(t) ==
  /\ mem' = Trip(mem, "unresolved")
  /\ BootWrites(disk, 0)
  /\ found' = [found EXCEPT ![t] = "failed"]
  /\ UNCHANGED missed

\* Mutants of ResolveOpen: a send that is not found is looked for again; it is
\* taken for one that never left.
ResolveOpen_Retries(t) ==
  /\ stage = "resolving" /\ t \in ToResolve
  /\ \/ FoundReceipt(t)
     \/ mem' = Trip(mem, "unresolved") /\ BootWrites(disk, 0) /\ UNCHANGED <<found, missed>>
  /\ UNCHANGED <<lapsed, sentCount, headVars, lane, send, stage, ticket, nonceOf, chainVars, operVars>>

ResolveOpen_Forgives(t) ==
  /\ stage = "resolving" /\ t \in ToResolve
  /\ \/ FoundReceipt(t)
     \/ found' = [found EXCEPT ![t] = "failed"] /\ UNCHANGED <<ledgerVars, mem>>
  /\ UNCHANGED <<lapsed, sentCount, headVars, lane, send, stage, ticket, nonceOf, chainVars, operVars>>

\* CanaryRecovery::build, one open send after the other.
ResolveOpen(t) ==
  /\ stage = "resolving" /\ t \in ToResolve
  /\ FoundReceipt(t) \/ FoundNothing(t)
  /\ UNCHANGED <<lapsed, sentCount, headVars, lane, send, stage, ticket, nonceOf, chainVars, operVars>>

\* Then the plane's boot closes each ticket the journal holds open with what was
\* found, and with no send record as one that never left the process.
BootCloses ==
  /\ \/ stage = "resolving" /\ ToResolve = {}
     \/ stage = "closing"
  /\ \/ /\ \A t \in Tx : ticket[t] # "open"
        /\ stage' = "up"
        /\ found' = [t \in Tx |-> "none"]
        /\ UNCHANGED ticket
     \/ \E t \in Tx :
          /\ ticket[t] = "open"
          /\ ticket' = [ticket EXCEPT ![t] = IF found[t] = "none" THEN "never_left" ELSE found[t]]
          /\ stage' = "closing"
          /\ UNCHANGED found
  /\ UNCHANGED <<ledgerVars, mem, sentCount, headVars, lane, send,
                 nonceOf, chainVars, operVars>>

Boot == Open \/ BootCloses \/ \E t \in Tx : ResolveOpen(t)

-----------------------------------------------------------------------------
Init ==
  /\ ledger = <<>> /\ file = [end |-> "clean", stray |-> <<>>]
  /\ mem = NewState
  /\ sentCount = 0
  /\ bootNonce = Unset /\ tripping = FALSE /\ shortBoot = FALSE
  /\ lane = NewLane
  /\ send = Idle
  /\ stage = "down" /\ found = [t \in Tx |-> "none"]
  /\ ticket = [t \in Tx |-> "none"]
  /\ fate = [t \in Tx |-> "none"] /\ nonceOf = [t \in Tx |-> Unset]
  /\ mined = 0 /\ foreign = 0
  /\ missed = {} /\ lapsed = {} /\ faults = 0 /\ resets = 0 /\ crashes = 0

Next == CaptureStep \/ HeadStep \/ ChainStep \/ Crash \/ OperatorReset \/ Boot

Spec == Init /\ [][Next]_vars

\* systemd restarts the process, and boot is straight-line code.
FairSpec == Spec /\ WF_vars(Boot)

-----------------------------------------------------------------------------
TypeOK ==
  /\ \A i \in 1..Len(ledger) :
       \/ ledger[i].kind \in {"sent", "landed", "reverted", "refused", "silent", "unresolved",
                              "unexplained"} /\ ledger[i].tx \in Tx
       \/ ledger[i].kind = "halted" /\ ledger[i].why # "none"
       \/ ledger[i] = ResetRecord
  /\ mem.open \subseteq Tx
  /\ {mem.lost, mem.reverts, mem.refusals, mem.landed, sentCount} \subseteq Nat
  /\ bootNonce \in Nat \cup {Unset}
  /\ send.pc \in {"idle", "signed", "clear", "written", "asked", "watched", "halting", "closing"}
  /\ stage \in {"down", "resolving", "closing", "up"}
  /\ ticket \in [Tx -> {"none", "open", "landed", "reverted", "failed", "never_left"}]
  /\ fate \in [Tx -> {"none", "wire", "pending", "dead"} \cup Mined]
  /\ missed \subseteq Tx /\ lapsed \subseteq Tx
  /\ file.end \in {"clean", "ragged", "broken"} /\ Len(file.stray) \in {0, 1}
  /\ file.stray # <<>> => file.end = "ragged"

\* ledger.rs: "a crash can never leave a sent transaction the canary does not
\* know about".  Whatever left the process and may still land is open in what the
\* next open reads, if it reads the file at all; whatever was mined is open there or
\* has its true outcome.
OutcomeOf(l, t, k) == \E i \in 1..Len(l) : l[i].kind = k /\ l[i].tx = t

NothingForgotten ==
  \A t \in Tx :
    fate[t] \notin {"none", "dead"} =>
      \/ t \in Replay(Legible).open
      \/ fate[t] \in Mined /\ OutcomeOf(Legible, t, Settled(t))

\* mod.rs, "with every loss bounded".  What the trades sent since the last reset
\* lost on the chain stays below the cap but for the one trade that reaches it,
\* however often the process died -- aside from the losses no limit sees until the
\* next boot: those the ledger refused to take, and those of a send that the plane
\* stopped following because its own journal had refused an Acknowledged or an
\* Included.
LastReset == IF \E i \in 1..Len(ledger) : ledger[i] = ResetRecord
             THEN CHOOSE i \in 1..Len(ledger) : ledger[i] = ResetRecord
                    /\ \A j \in (i + 1)..Len(ledger) : ledger[j] # ResetRecord
             ELSE 0

SentSinceReset == {ledger[i].tx : i \in {j \in (LastReset + 1)..Len(ledger) : ledger[j].kind = "sent"}}

LossBounded ==
  MapThenSumSet(LAMBDA t : LossOf(fate[t]), SentSinceReset \ (missed \cup lapsed)) <= LossCap - 1 + 2

\* The spec's section 7: "a released nonce is never reused while the transaction
\* may still land".  Two transactions of one nonce are in the mempool together
\* only after the ledger refused the outcome of one of them.
NonceNotReused ==
  \A t, u \in Tx :
    t # u /\ fate[t] = "pending" /\ fate[u] = "pending" /\ nonceOf[t] = nonceOf[u] =>
      {t, u} \cap missed # {}

\* limits.rs: "a halt survives a restart; cleared only by an operator's reset
\* record".  What the ledger since the last reset calls for a halt over, counted
\* by hand.
Since(kinds) == {i \in (LastReset + 1)..Len(ledger) : ledger[i].kind \in kinds}

InARow(kind, breakers, n) ==
  \E S \in SUBSET Since({kind}) :
    /\ Cardinality(S) = n
    /\ \A i, j \in S : \A k \in Since(breakers) : ~(i < k /\ k < j)

CallsForHalt ==
  \/ Since({"silent", "unresolved", "unexplained"}) # {}
  \/ MapThenSumSet(LAMBDA i : ledger[i].loss, Since({"landed", "reverted"})) >= LossCap
  \/ Cardinality(Since({"landed"})) >= MaxLanded
  \/ InARow("reverted", {"landed"}, MaxReverts)
  \/ InARow("refused", {"landed", "reverted"}, MaxRefusals)

\* A step that puts bytes on the wire never finds a ledger that calls for a halt,
\* whatever crash or failed append came between the outcome and its Halted
\* record, and whichever halt came first.
NoSendPastAHalt ==
  [][\A t \in Tx : HandOff(t) => ~CallsForHalt \/ missed # {}]_vars

\* shadow/mod.rs, nonce_beyond_ours: "a nonce beyond the boot reading plus every
\* send since means the key is in use elsewhere".  A send of an earlier life
\* that lands late, a refused send and one still unseen do not trip it -- unless
\* the boot reading itself came from a node that trailed the chain.
TripwireTruthful == mem.halted = "tripwire" => foreign > 0 \/ shortBoot

\* The spec's section 9: "an unresolved transaction leaves the canary halted
\* rather than the process down, so systemd does not loop and the run keeps
\* measuring".  A boot ends, whatever is open and whoever answers -- unless an
\* append once stopped part way and another was made behind it: open forgives a
\* torn line while it is the last and does not repair it, and the line the two make
\* it refuses for good.
BootEnds == (stage = "down") ~> (stage = "up" \/ file.end = "broken")

=============================================================================
