----------------------------- MODULE AppendLog -----------------------------
(***************************************************************************)
(* The three line-per-record files the system writes ahead to: the ticket  *)
(* journal (journal.rs), the canary's ledger (canary/ledger.rs) and the    *)
(* armed engine's ledger (armed/live_ledger.rs).  They differ in what they *)
(* do about a line a crash or a failed write left half written.            *)
(*                                                                         *)
(* A record is its number; a line is the record it holds, or Broken when   *)
(* it parses as none.  Behind the last newline there may be a piece of a   *)
(* record (torn) or a whole one that only lacks its newline (bare).        *)
(***************************************************************************)
EXTENDS Integers, Sequences

CONSTANTS
  Store,        \* "journal", "canary" or "armed"
  MaxRecords,   \* bound: records appended
  MaxFaults,    \* bound: appends that fail without killing the process
  MaxCrashes    \* bound: deaths of the process

ASSUME LogAssumption ==
  /\ Store \in {"journal", "canary", "armed"}
  /\ MaxRecords \in Nat /\ MaxFaults \in Nat /\ MaxCrashes \in Nat

Record == 1..MaxRecords
Broken == 0

VARIABLES
  lines,      \* the newline-terminated lines of the file
  tail,       \* what is behind them: [kind, record]
  synced,     \* how many of the lines an fsync covered
  promised,   \* records whose append returned Ok after an fsync
  written,    \* the number of the last record handed to append
  up,         \* whether a process has the file open
  faults, crashes

vars == <<lines, tail, synced, promised, written, up, faults, crashes>>

Nothing == [kind |-> "none", record |-> Broken]
Torn    == [kind |-> "torn", record |-> Broken]
Bare(r) == [kind |-> "bare", record |-> r]

Init ==
  /\ lines = <<>>
  /\ tail = Nothing
  /\ synced = 0
  /\ promised = {}
  /\ written = 0
  /\ up = FALSE
  /\ faults = 0
  /\ crashes = 0

-----------------------------------------------------------------------------
(* Reading the file back.                                                  *)

BrokenLines == {i \in 1..Len(lines) : lines[i] = Broken}

\* The journal forgives the last line of the file whatever it is; the ledgers
\* forgive it only when no newline ends it.
Refuses ==
  IF Store = "journal"
    THEN \E i \in BrokenLines : i < Len(lines) \/ tail # Nothing
    ELSE BrokenLines # {}

Replayed ==
  {lines[i] : i \in (1..Len(lines)) \ BrokenLines}
    \cup (IF tail.kind = "bare" /\ Store # "armed" THEN {tail.record} ELSE {})

\* Mutant of Open: the fragment is ignored and left in the file.
Open_NoRepair ==
  /\ ~up
  /\ ~Refuses
  /\ up' = TRUE
  /\ UNCHANGED <<lines, tail, synced, promised, written, faults, crashes>>

\* Only the armed ledger repairs what it found: it cuts the file back to its
\* last newline, and syncs the cut.
Open ==
  /\ ~up
  /\ ~Refuses
  /\ up' = TRUE
  /\ IF Store = "armed" /\ tail # Nothing
       THEN tail' = Nothing /\ synced' = Len(lines)
       ELSE UNCHANGED <<tail, synced>>
  /\ UNCHANGED <<lines, promised, written, faults, crashes>>

-----------------------------------------------------------------------------
(* Writing.  What follows an unterminated piece is glued to it.            *)

LineFor(r) == IF tail = Nothing THEN r ELSE Broken

\* A write that stopped short: before its first byte, inside the record, or
\* just before the newline.
Piece(r) == {tail, Torn} \cup (IF tail = Nothing THEN {Bare(r)} ELSE {})

Critical == IF Store = "canary" THEN {TRUE} ELSE BOOLEAN

AppendRecord ==
  /\ up
  /\ written < MaxRecords
  /\ written' = written + 1
  /\ lines' = Append(lines, LineFor(written + 1))
  /\ tail' = Nothing
  /\ \E critical \in Critical :
       IF critical
         THEN synced' = Len(lines) + 1 /\ promised' = promised \cup {written + 1}
         ELSE UNCHANGED <<synced, promised>>
  /\ UNCHANGED <<up, faults, crashes>>

\* Mutants of AppendFails: no cut after a failed write; a cut one line too far.
AppendFails_NoCut ==
  /\ up
  /\ written < MaxRecords
  /\ faults < MaxFaults
  /\ faults' = faults + 1
  /\ written' = written + 1
  /\ tail' \in Piece(written + 1)
  /\ UNCHANGED <<lines, synced, promised, up, crashes>>

AppendFails_CutsTooFar ==
  /\ up
  /\ written < MaxRecords
  /\ lines # <<>>
  /\ faults < MaxFaults
  /\ faults' = faults + 1
  /\ written' = written + 1
  /\ lines' = SubSeq(lines, 1, Len(lines) - 1)
  /\ UNCHANGED <<tail, synced, promised, up, crashes>>

\* The write or the fsync behind it returns an error.  The armed ledger cuts
\* the file back to where it stood; the others leave what is there.
AppendFails ==
  /\ up
  /\ written < MaxRecords
  /\ faults < MaxFaults
  /\ faults' = faults + 1
  /\ written' = written + 1
  /\ IF Store = "armed"
       THEN UNCHANGED <<lines, tail>>
       ELSE \/ tail' \in Piece(written + 1) /\ UNCHANGED lines
            \/ lines' = Append(lines, LineFor(written + 1)) /\ tail' = Nothing
  /\ UNCHANGED <<synced, promised, up, crashes>>

-----------------------------------------------------------------------------
\* The process dies between appends, or inside one.
Crash ==
  /\ up
  /\ crashes < MaxCrashes
  /\ crashes' = crashes + 1
  /\ up' = FALSE
  /\ \/ UNCHANGED <<tail, written>>
     \/ /\ written < MaxRecords
        /\ written' = written + 1
        /\ tail' \in Piece(written + 1)
  /\ UNCHANGED <<lines, synced, promised, faults>>

\* The machine dies.  What was not fsynced is cut at any byte.
PowerLoss ==
  /\ up
  /\ crashes < MaxCrashes
  /\ crashes' = crashes + 1
  /\ up' = FALSE
  /\ \E kept \in synced..Len(lines) :
       /\ lines' = SubSeq(lines, 1, kept)
       /\ synced' = kept
       /\ tail' \in IF kept = Len(lines) THEN {tail, Nothing} \cup (IF tail = Nothing THEN {} ELSE {Torn})
                    ELSE {Nothing, Torn}
                           \cup (IF lines[kept + 1] = Broken THEN {} ELSE {Bare(lines[kept + 1])})
  /\ UNCHANGED <<promised, written, faults>>

-----------------------------------------------------------------------------
Next == Open \/ AppendRecord \/ AppendFails \/ Crash \/ PowerLoss

Spec == Init /\ [][Next]_vars

-----------------------------------------------------------------------------
TypeOK ==
  /\ lines \in Seq(Record \cup {Broken})
  /\ tail \in [kind : {"none", "torn", "bare"}, record : Record \cup {Broken}]
  /\ synced \in 0..Len(lines)
  /\ promised \subseteq Record
  /\ written \in 0..MaxRecords
  /\ up \in BOOLEAN
  /\ faults \in 0..MaxFaults
  /\ crashes \in 0..MaxCrashes

\* live_ledger.rs, "critical state transitions are synced before the caller
\* proceeds with a network side effect"; journal.rs, "an entry that was never
\* fsynced is by construction one the journal never promised".  A record whose
\* append returned Ok after its fsync is read back by whatever boot comes next,
\* however many crashes and half-written lines lie between.
PromisedSurvives == promised \subseteq Replayed

\* journal.rs, "refusing to start over it would turn a routine crash into an
\* outage": crashes and failed writes alone never make the file unreadable.
CrashIsNoOutage == ~Refuses

=============================================================================
