--------------------------- MODULE TicketRegistry ---------------------------
(***************************************************************************)
(* The ticket registry of apex-capture and the journal it writes to.       *)
(*                                                                         *)
(* Every public operation takes the registry's one mutex for its whole     *)
(* body, journal append included, so each is one action.  The exception is *)
(* the drop of a TicketGuard, which takes the lock twice: once to release  *)
(* the check-out and once to close the ticket (DropGuard, then             *)
(* AbandonDropped).                                                        *)
(***************************************************************************)
EXTENDS Ticket, Sequences, FiniteSets

CONSTANTS
  Worker,      \* the tasks that may each hold one ticket
  MaxId,       \* bound: ticket ids run over 1..MaxId
  MaxFaults    \* bound: appends (and chain look-ups) that fail

ASSUME RegistryAssumption ==
  /\ IsFiniteSet(Worker)
  /\ MaxId \in Nat \ {0}
  /\ MaxFaults \in Nat

Ticket == 1..MaxId

VARIABLES
  live,        \* Ticket -> its status, or Absent
  checkedOut,  \* tickets some guard owns
  outcomes,    \* Ticket -> its terminal outcome, or "none"
  nextId,      \* the id the next admission takes
  metrics,     \* the counters behind ticket_drop_count
  log,         \* the journal file: the lines in it that replay reads, in order
  tail,        \* ... and what the file ends in behind them
  synced,      \* length of the prefix of log that an fsync covered
  firm,        \* ... and as much of the tail as one covered
  faults,      \* failures injected so far
  guard        \* Worker -> the ticket in its hands and what it has been told

registryVars == <<live, checkedOut, outcomes, nextId, metrics, guard>>
journalVars  == <<log, tail, synced, firm, faults>>

-----------------------------------------------------------------------------
(* The journal.                                                            *)

AdmittedEntry(t)    == [kind |-> "admitted", id |-> t]
AdvancedEntry(t, s) == [kind |-> "advanced", id |-> t, to |-> s]
ClosedEntry(t, o)   == [kind |-> "closed", id |-> t, outcome |-> o]

Entry == [kind : {"admitted"}, id : Ticket]
           \cup [kind : {"advanced"}, id : Ticket, to : Status]
           \cup [kind : {"closed"}, id : Ticket, outcome : Outcome]

DurableWrite(e) ==
  \/ e.kind = "closed"
  \/ e.kind = "advanced" /\ RequiresDurable(e.to)

\* What follows the lines of log in the file: nothing ("clean"; "bare" when the
\* last line of log lacks its newline), the start of a line ("piece"), one whole
\* line that does not parse ("line"), or such a line with more behind it
\* ("behind"), which replay refuses: it forgives only the last line of the file.
FileEnd == {"clean", "bare", "piece", "line", "behind"}

\* The lines of log that are complete: a bare one is gone as soon as anything is
\* written behind it.
Ended == IF tail = "bare" THEN SubSeq(log, 1, Len(log) - 1) ELSE log

\* write_all returned Ok: the line and its newline are in the file.  Nobody
\* repairs the end of the file first, so behind a piece they are its other half.
Written(e) ==
  /\ log' = IF tail = "clean" THEN Append(log, e) ELSE Ended
  /\ tail' = CASE tail = "clean" -> "clean"
               [] tail \in {"bare", "piece"} -> "line"
               [] tail \in {"line", "behind"} -> "behind"

\* write_all stopped inside the line: behind a complete line that is the start
\* of one, behind anything else more of what cannot be read.
Torn ==
  /\ log' = Ended
  /\ tail' = IF tail \in {"line", "behind"} THEN "behind" ELSE "piece"

\* ... and it may stop just before the newline, the last byte.
Bare(e) ==
  /\ tail = "clean"
  /\ log' = Append(log, e)
  /\ tail' = "bare"

\* fsync flushes the whole file: everything written so far becomes durable.
Journaled(e) ==
  /\ Written(e)
  /\ IF DurableWrite(e) THEN synced' = Len(log') /\ firm' = tail'
                        ELSE UNCHANGED <<synced, firm>>
  /\ UNCHANGED faults

\* Mutant of JournalFails: the fsync is credited before it has answered.
JournalFails_Credited(e) ==
  /\ faults < MaxFaults
  /\ faults' = faults + 1
  /\ UNCHANGED <<log, tail>> \/ Torn \/ Bare(e) \/ Written(e)
  /\ IF DurableWrite(e) THEN synced' = Len(log) + 1 /\ firm' = tail'
                        ELSE UNCHANGED <<synced, firm>>

\* The append returns an error.  The write may have been refused, or have
\* stopped part way, or have succeeded with only the fsync behind it failing:
\* then the line is in the file although the caller is told it is not.
JournalFails(e) ==
  /\ faults < MaxFaults
  /\ faults' = faults + 1
  /\ \/ UNCHANGED <<log, tail>>
     \/ Torn
     \/ Bare(e)
     \/ DurableWrite(e) /\ Written(e)
  /\ UNCHANGED <<synced, firm>>

-----------------------------------------------------------------------------
(* The registry.                                                           *)

\* Mutant of Live: the listing runs up to the next id.
Live_OffByOne == {t \in 1..nextId : t = nextId \/ live[t] # Absent}

Live == {t \in Ticket : live[t] # Absent}

NoMetrics == [admitted |-> 0, success |-> 0, failure |-> 0, shadow |-> 0,
              live |-> 0]

TicketDropCount ==
  metrics.admitted - metrics.success - metrics.failure - metrics.shadow
    - metrics.live

Idle == [id |-> 1, phase |-> "idle", ok |-> Observed]

RegistryInit ==
  /\ live = [t \in Ticket |-> Absent]
  /\ checkedOut = {}
  /\ outcomes = [t \in Ticket |-> "none"]
  /\ nextId = 1
  /\ metrics = NoMetrics
  /\ guard = [w \in Worker |-> Idle]

JournalInit ==
  /\ log = <<>>
  /\ tail = "clean"
  /\ synced = 0
  /\ firm = "clean"
  /\ faults = 0

\* The id is consumed whether or not the append succeeds.
Admit(w) ==
  /\ guard[w].phase = "idle"
  /\ nextId <= MaxId
  /\ nextId' = nextId + 1
  /\ \/ /\ Journaled(AdmittedEntry(nextId))
        /\ live' = [live EXCEPT ![nextId] = Observed]
        /\ metrics' = [metrics EXCEPT !.admitted = @ + 1, !.live = @ + 1]
        /\ guard' = [guard EXCEPT ![w] =
                       [id |-> nextId, phase |-> "admitted", ok |-> Observed]]
     \/ /\ JournalFails(AdmittedEntry(nextId))
        /\ UNCHANGED <<live, metrics, guard>>
  /\ UNCHANGED <<checkedOut, outcomes>>

\* drive checks out the ticket it has just admitted.
Checkout(w) ==
  LET t == guard[w].id IN
  /\ guard[w].phase = "admitted"
  /\ \/ /\ live[t] # Absent
        /\ t \notin checkedOut
        /\ checkedOut' = checkedOut \cup {t}
        /\ guard' = [guard EXCEPT ![w].phase = "working"]
     \/ /\ live[t] = Absent \/ t \in checkedOut
        /\ guard' = [guard EXCEPT ![w] = Idle]
        /\ UNCHANGED checkedOut
  /\ UNCHANGED <<live, outcomes, nextId, metrics, journalVars>>

\* The in-memory status moves first and is not put back when the append fails.
Advance(w, to) ==
  LET t == guard[w].id IN
  /\ guard[w].phase = "working"
  /\ \/ /\ live[t] # Absent
        /\ to > live[t]
        /\ live' = [live EXCEPT ![t] = to]
        /\ \/ /\ Journaled(AdvancedEntry(t, to))
              /\ guard' = [guard EXCEPT ![w].ok = to]
           \/ /\ JournalFails(AdvancedEntry(t, to))
              /\ guard' = [guard EXCEPT ![w].phase = "erred"]
     \/ /\ live[t] = Absent \/ to <= live[t]
        /\ guard' = [guard EXCEPT ![w].phase = "erred"]
        /\ UNCHANGED <<live, journalVars>>
  /\ UNCHANGED <<checkedOut, outcomes, nextId, metrics>>

-----------------------------------------------------------------------------
(* close_locked, the only removal path: the journal first, then the map.   *)

Closeable(t) == outcomes[t] = "none" /\ live[t] # Absent

\* Mutant of Counted: the third outcome has no count.
Counted_NoShadow(o) ==
  [metrics EXCEPT
     !.live    = IF @ = 0 THEN 0 ELSE @ - 1,
     !.success = IF o \in Successes THEN @ + 1 ELSE @,
     !.failure = IF o \in Failures THEN @ + 1 ELSE @]

Counted(o) ==
  [metrics EXCEPT
     !.live    = IF @ = 0 THEN 0 ELSE @ - 1,
     !.success = IF o \in Successes THEN @ + 1 ELSE @,
     !.failure = IF o \in Failures THEN @ + 1 ELSE @,
     !.shadow  = IF o = "shadow" THEN @ + 1 ELSE @]

CloseOk(t, o) ==
  /\ Closeable(t)
  /\ Journaled(ClosedEntry(t, o))
  /\ live' = [live EXCEPT ![t] = Absent]
  /\ outcomes' = [outcomes EXCEPT ![t] = o]
  /\ metrics' = Counted(o)

\* Mutant of CloseFails: the map first, then the journal.
CloseFails_Removed(t, o) ==
  /\ Closeable(t)
  /\ JournalFails(ClosedEntry(t, o))
  /\ live' = [live EXCEPT ![t] = Absent]
  /\ outcomes' = [outcomes EXCEPT ![t] = o]
  /\ metrics' = Counted(o)

CloseFails(t, o) ==
  /\ Closeable(t)
  /\ JournalFails(ClosedEntry(t, o))
  /\ UNCHANGED <<live, outcomes, metrics>>

CloseRefused(t) ==
  /\ ~Closeable(t)
  /\ UNCHANGED <<live, outcomes, metrics, journalVars>>

CloseLocked(t, o) == CloseOk(t, o) \/ CloseFails(t, o) \/ CloseRefused(t)

\* TicketGuard::close.  The guard counts as closed even when the append failed.
CloseGuard(w, o) ==
  /\ guard[w].phase \in {"working", "erred"}
  /\ CloseLocked(guard[w].id, o)
  /\ guard' = [guard EXCEPT ![w].phase = "closed"]
  /\ UNCHANGED <<checkedOut, nextId>>

\* The first half of TicketGuard's drop; cancelling the task that holds an
\* undecided guard is this step too.
DropGuard(w) ==
  /\ guard[w].phase \in {"working", "erred", "closed"}
  /\ checkedOut' = checkedOut \ {guard[w].id}
  /\ guard' = IF guard[w].phase = "closed"
                THEN [guard EXCEPT ![w] = Idle]
                ELSE [guard EXCEPT ![w].phase = "dropping"]
  /\ UNCHANGED <<live, outcomes, nextId, metrics, journalVars>>

AbandonDropped(w) ==
  /\ guard[w].phase = "dropping"
  /\ CloseLocked(guard[w].id, "abandoned")
  /\ guard' = [guard EXCEPT ![w] = Idle]
  /\ UNCHANGED <<checkedOut, nextId>>

\* A sweep that finds one ticket past its deadline and owned by nobody.  A
\* sweep over several is that many of these steps with nothing in between.
Sweep(t) ==
  /\ live[t] # Absent
  /\ t \notin checkedOut
  /\ CloseOk(t, "timeout") \/ CloseFails(t, "timeout")
  /\ UNCHANGED <<checkedOut, nextId, guard>>

-----------------------------------------------------------------------------
GuardPhase == {"idle", "admitted", "working", "erred", "closed", "dropping"}

RegistryTypeOK ==
  /\ live \in [Ticket -> Status \cup {Absent}]
  /\ checkedOut \subseteq Ticket
  /\ outcomes \in [Ticket -> Outcome \cup {"none"}]
  /\ nextId \in Nat \ {0}
  /\ metrics \in [admitted : Nat, success : Nat, failure : Nat, shadow : Nat,
                  live : Nat]
  /\ log \in Seq(Entry)
  /\ tail \in FileEnd
  /\ synced \in 0..Len(log)
  /\ firm \in {"clean", "line", "behind"}
  /\ tail = "bare" => synced < Len(log)
  /\ firm = "line" => tail \in {"line", "behind"}
  /\ firm = "behind" => tail = "behind"
  /\ faults \in 0..MaxFaults
  /\ guard \in [Worker -> [id : Ticket, phase : GuardPhase, ok : Status]]

\* INV-02.  No ticket leaves the registry without a terminal outcome, whichever
\* of the guard, the sweep, recovery and a failed append touched it: the drop
\* count derived from the five counters is zero, and the live counter -- which
\* saturates instead of going negative -- counts exactly the live map.
Accounting ==
  /\ TicketDropCount = 0
  /\ metrics.live = Cardinality(Live)

\* registry.rs, checkout: the holder of a guard is the only one who can end its
\* ticket.  While a worker still has a decision to make, its ticket is live,
\* undecided and checked out, and no other worker has it.
HeldIsLive ==
  \A w \in Worker : guard[w].phase \in {"working", "erred"} =>
     /\ live[guard[w].id] # Absent
     /\ outcomes[guard[w].id] = "none"
     /\ guard[w].id \in checkedOut
     /\ \A v \in Worker \ {w} :
          guard[v].phase \in {"idle"} \/ guard[v].id # guard[w].id

=============================================================================
