-------------------------- MODULE Recovery_proofs --------------------------
(***************************************************************************)
(* Theorems about the capture core.  The registry first: what each of its  *)
(* operations preserves, whoever calls it.  Then the core: its types, the  *)
(* write-ahead rule recovery stands on, what recovery settles, and that    *)
(* all of it implements the ticket contract.                               *)
(***************************************************************************)
EXTENDS Recovery, FiniteSetTheorems, WellFoundedInduction, TLAPS

\* What an fsync covered stays where it is, and stays covered.
DurableKept ==
  /\ synced <= synced'
  /\ \A i \in 1..synced : log'[i] = log[i]
  /\ firm = "behind" => firm' = "behind"

JournalTypeOK ==
  /\ log \in Seq(Entry)
  /\ tail \in FileEnd
  /\ synced \in 0..Len(log)
  /\ firm \in {"clean", "line", "behind"}
  /\ tail = "bare" => synced < Len(log)
  /\ firm = "line" => tail \in {"line", "behind"}
  /\ firm = "behind" => tail = "behind"
  /\ faults \in 0..MaxFaults

-----------------------------------------------------------------------------
\* A bounded set of naturals has a greatest element: what the CHOOSEs that read
\* the journal rest on.
LEMMA MaxExists ==
  ASSUME NEW S \in SUBSET Nat, S # {}, NEW b \in Nat, \A x \in S : x <= b
  PROVE  \E m \in S : \A x \in S : x <= m
<1> DEFINE T == {n \in Nat : \E x \in S : n = b - x}
           R == OpToRel(<, Nat)
<1>1. T \subseteq Nat /\ T # {}
  <2>1. PICK x \in S : TRUE
    OBVIOUS
  <2>2. b - x \in Nat
    BY <2>1
  <2> QED BY <2>1, <2>2
<1>2. PICK n \in T : \A k \in T : ~ (<<k, n>> \in R)
  <2>1. IsWellFoundedOn(R, Nat)
    BY NatLessThanWellFounded
  <2> HIDE DEF T, R
  <2> QED BY <1>1, <2>1, WFMin
<1>3. \A k \in T : ~ (k < n)
  BY <1>2 DEF OpToRel
<1>4. PICK m \in S : n = b - m
  OBVIOUS
<1>5. ASSUME NEW x \in S PROVE x <= m
  <2>1. b - x \in T
    OBVIOUS
  <2>2. ~ (b - x < b - m)
    BY <1>3, <1>4, <2>1
  <2> QED BY <2>2
<1> QED BY <1>5

\* Every ticket set is finite and has a number of elements.
LEMMA TicketsFinite ==
  ASSUME NEW S \in SUBSET Ticket
  PROVE  IsFiniteSet(S) /\ Cardinality(S) \in Nat
<1>1. IsFiniteSet(Ticket)
  BY RegistryAssumption, FS_Interval DEF Ticket
<1>2. IsFiniteSet(S)
  BY <1>1, FS_Subset
<1> QED BY <1>2, FS_CardinalityType

-----------------------------------------------------------------------------
(* The journal.                                                            *)

\* The three entries the registry writes are journal entries.
LEMMA EntryTypes ==
  /\ \A t \in Ticket : AdmittedEntry(t) \in Entry
  /\ \A t \in Ticket, s \in Status : AdvancedEntry(t, s) \in Entry
  /\ \A t \in Ticket, o \in Outcome : ClosedEntry(t, o) \in Entry
BY DEF Entry, AdmittedEntry, AdvancedEntry, ClosedEntry

\* What can be read off a journal entry, by its kind.
LEMMA EntryFields ==
  ASSUME NEW e \in Entry
  PROVE  /\ e.id \in Ticket
         /\ e.kind \in {"admitted", "advanced", "closed"}
         /\ e.kind = "advanced" => e.to \in Status
         /\ e.kind = "closed" => e.outcome \in Outcome
BY DEF Entry

\* The lines of the journal are cut to their first few, which the fsynced ones
\* belong to.
CutTo(kept) == kept \in synced..Len(log) /\ log' = SubSeq(log, 1, kept)

\* What an append does to the lines, successful or not: behind a whole line the new
\* one may be there, behind anything else it is not, nor behind it ever again.
Lines(e) ==
  \/ tail = "clean" /\ log' \in {log, Append(log, e)}
  \/ tail # "clean" /\ tail' # "clean" /\ \E kept \in Nat : CutTo(kept)

\* What a cut keeps.
LEMMA CutKeeps ==
  ASSUME JournalTypeOK, NEW kept \in Nat, CutTo(kept)
  PROVE  /\ log' \in Seq(Entry) /\ Len(log') = kept /\ synced <= kept /\ kept <= Len(log)
         /\ \A i \in 1..kept : i \in 1..Len(log) /\ log'[i] = log[i]
BY DEF JournalTypeOK, CutTo

\* The complete lines are a cut.
LEMMA EndedCuts ==
  ASSUME JournalTypeOK, log' = Ended
  PROVE  \E kept \in Nat : CutTo(kept)
<1>1. log \in Seq(Entry) /\ Len(log) \in Nat /\ synced \in 0..Len(log)
      /\ (tail = "bare" => synced < Len(log))
  BY DEF JournalTypeOK
<1>2. CASE tail = "bare"
  <2>1. Len(log) - 1 \in Nat /\ CutTo(Len(log) - 1)
    BY <1>1, <1>2 DEF Ended, CutTo
  <2> QED BY <2>1
<1>3. CASE tail # "bare"
  <2>1. log' = SubSeq(log, 1, Len(log))
    BY <1>1, <1>3 DEF Ended
  <2>2. CutTo(Len(log))
    BY <1>1, <2>1 DEF CutTo
  <2> QED BY <1>1, <2>2
<1> QED BY <1>2, <1>3

\* A line written whole.
LEMMA WrittenLines ==
  ASSUME JournalTypeOK, NEW e, Written(e)
  PROVE  Lines(e) /\ tail' \in {"clean", "line", "behind"}
         /\ (tail = "clean" => tail' = "clean" /\ log' = Append(log, e))
<1>1. tail \in FileEnd
  BY DEF JournalTypeOK
<1>2. CASE tail = "clean"
  BY <1>2 DEF Written, Lines
<1>3. CASE tail # "clean"
  <2>1. log' = Ended
    BY <1>3 DEF Written
  <2>2. tail' \in {"line", "behind"}
    BY <1>1, <1>3 DEF Written, FileEnd
  <2>3. \E kept \in Nat : CutTo(kept)
    BY <2>1, EndedCuts
  <2> QED BY <1>3, <2>2, <2>3 DEF Lines
<1> QED BY <1>2, <1>3

\* A line of which a part was written.
LEMMA TornLines ==
  ASSUME JournalTypeOK, Torn
  PROVE  /\ \E kept \in Nat : CutTo(kept)
         /\ tail' \in {"piece", "behind"}
         /\ tail = "clean" => log' = log
BY EndedCuts DEF Torn, Ended

\* What an append leaves of the lines, whatever comes of it.
LEMMA AppendLines ==
  ASSUME JournalTypeOK, NEW e, Journaled(e) \/ JournalFails(e)
  PROVE  /\ Lines(e)
         /\ Journaled(e) /\ tail' = "clean" => log' = Append(log, e)
<1>1. CASE Written(e)
  <2>1. tail' = "clean" => tail = "clean"
    BY <1>1 DEF Written, JournalTypeOK, FileEnd
  <2> QED BY <1>1, <2>1, WrittenLines DEF Lines
<1>2. CASE Torn /\ ~Journaled(e)
  BY <1>2, TornLines DEF Lines
<1>3. CASE Bare(e) /\ ~Journaled(e)
  BY <1>3 DEF Bare, Lines
<1>4. CASE UNCHANGED <<log, tail>> /\ ~Journaled(e)
  <2>1. log = SubSeq(log, 1, Len(log)) /\ Len(log) \in Nat /\ synced \in 0..Len(log)
    BY DEF JournalTypeOK
  <2>2. CutTo(Len(log))
    BY <1>4, <2>1 DEF CutTo
  <2> QED BY <1>4, <2>1, <2>2 DEF Lines
<1> QED BY <1>1, <1>2, <1>3, <1>4 DEF Journaled, JournalFails

\* No append leaves the lines as they are.
LEMMA SameLines ==
  ASSUME JournalTypeOK, NEW e, UNCHANGED journalVars
  PROVE  Lines(e)
<1>1. log = SubSeq(log, 1, Len(log)) /\ Len(log) \in Nat /\ synced \in 0..Len(log)
  BY DEF JournalTypeOK
<1>2. UNCHANGED <<log, tail>>
  BY DEF journalVars
<1>3. CutTo(Len(log))
  BY <1>1, <1>2 DEF CutTo
<1> QED BY <1>1, <1>2, <1>3 DEF Lines

\* A write that stopped part way leaves a journal and what it had promised.
LEMMA TornKeeps ==
  ASSUME JournalTypeOK, Torn, UNCHANGED <<synced, firm>>, faults' \in 0..MaxFaults
  PROVE  JournalTypeOK' /\ DurableKept
<1>1. PICK kept \in Nat : CutTo(kept)
  BY TornLines
<1>2. log' \in Seq(Entry) /\ Len(log') = kept /\ synced <= kept /\ \A i \in 1..kept : log'[i] = log[i]
  BY <1>1, CutKeeps
<1>3. /\ synced \in Nat /\ tail \in FileEnd /\ firm \in {"clean", "line", "behind"}
      /\ (firm = "line" => tail \in {"line", "behind"}) /\ (firm = "behind" => tail = "behind")
  BY DEF JournalTypeOK
<1>4. tail' = IF tail \in {"line", "behind"} THEN "behind" ELSE "piece"
  BY DEF Torn
<1>5. synced' \in 0..Len(log')
  BY <1>2, <1>3
<1> QED BY <1>2, <1>3, <1>4, <1>5 DEF JournalTypeOK, DurableKept, FileEnd

\* So does an append, successful or not.
LEMMA JournalStep ==
  ASSUME JournalTypeOK, NEW e \in Entry, Journaled(e) \/ JournalFails(e)
  PROVE  JournalTypeOK' /\ DurableKept
<1>1. faults' \in 0..MaxFaults
  BY RegistryAssumption DEF JournalTypeOK, Journaled, JournalFails
<1>2. log' \in Seq(Entry) /\ synced <= Len(log') /\ \A i \in 1..synced : log'[i] = log[i]
  <2>1. log \in Seq(Entry) /\ Len(log) \in Nat /\ synced \in 0..Len(log)
    BY DEF JournalTypeOK
  <2>2. CASE log' \in {log, Append(log, e)}
    BY <2>1, <2>2
  <2>3. CASE \E kept \in Nat : CutTo(kept)
    <3>1. PICK kept \in Nat : CutTo(kept)
      BY <2>3
    <3> QED BY <2>1, <3>1, CutKeeps
  <2> QED BY <2>2, <2>3, AppendLines DEF Lines
<1>3. JournalTypeOK => synced \in Nat /\ tail \in FileEnd /\ firm \in {"clean", "line", "behind"}
        /\ (firm = "line" => tail \in {"line", "behind"}) /\ (firm = "behind" => tail = "behind")
        /\ Len(log) \in Nat /\ synced <= Len(log)
  BY DEF JournalTypeOK
<1>4. CASE Written(e)
  <2>1. tail' \in {"clean", "line", "behind"}
    BY <1>4, WrittenLines
  <2>2. tail \in {"line", "behind"} => tail' = "behind"
    BY <1>4 DEF Written
  <2>3. \/ synced' = Len(log') /\ firm' = tail'
        \/ synced' = synced /\ firm' = firm
    BY <1>4 DEF Journaled, JournalFails
  <2>4. Len(log') \in Nat
    BY <1>2
  <2>5. synced' \in 0..Len(log') /\ synced <= synced'
    BY <1>2, <1>3, <2>3, <2>4
  <2> QED BY <1>1, <1>2, <1>3, <2>1, <2>2, <2>3, <2>5 DEF JournalTypeOK, DurableKept, FileEnd
<1>5. CASE UNCHANGED <<synced, firm>> /\ (Torn \/ Bare(e) \/ UNCHANGED <<log, tail>>)
  <2>1. Len(log') \in Nat /\ synced' \in 0..Len(log')
    BY <1>2, <1>3, <1>5
  <2>2. CASE Torn
    BY <1>1, <1>5, <2>2, TornKeeps
  <2>3. CASE Bare(e)
    <3>1. Len(log') = Len(log) + 1 /\ tail = "clean" /\ tail' = "bare"
      BY <2>3 DEF Bare, JournalTypeOK
    <3> QED BY <1>1, <1>2, <1>3, <1>5, <2>1, <3>1 DEF JournalTypeOK, DurableKept, FileEnd
  <2>4. CASE UNCHANGED <<log, tail>>
    BY <1>1, <1>2, <1>5, <2>1, <2>4 DEF JournalTypeOK, DurableKept
  <2> QED BY <1>5, <2>2, <2>3, <2>4
<1> QED BY <1>4, <1>5 DEF Journaled, JournalFails

\* A step that leaves the journal alone keeps all of it.
LEMMA JournalStutter ==
  ASSUME JournalTypeOK, UNCHANGED <<log, tail, synced, firm>>, faults' \in 0..MaxFaults
  PROVE  JournalTypeOK' /\ DurableKept
BY DEF JournalTypeOK, DurableKept

-----------------------------------------------------------------------------
(* The registry's operations.                                              *)

MapTypeOK ==
  /\ live \in [Ticket -> Status \cup {Absent}]
  /\ outcomes \in [Ticket -> Outcome \cup {"none"}]
  /\ metrics \in [admitted : Nat, success : Nat, failure : Nat, shadow : Nat,
                  live : Nat]

GuardTypeOK ==
  /\ checkedOut \subseteq Ticket
  /\ nextId \in Nat \ {0}
  /\ guard \in [Worker -> [id : Ticket, phase : GuardPhase, ok : Status]]

\* RegistryTypeOK splits by who owns the state: journal, map, guards.
LEMMA RegistryTypeParts == RegistryTypeOK <=> JournalTypeOK /\ MapTypeOK /\ GuardTypeOK
BY DEF RegistryTypeOK, JournalTypeOK, MapTypeOK, GuardTypeOK

\* The same of the next state.
LEMMA RegistryTypePartsNext ==
  RegistryTypeOK' <=> JournalTypeOK' /\ MapTypeOK' /\ GuardTypeOK'
BY DEF RegistryTypeOK, JournalTypeOK, MapTypeOK, GuardTypeOK

Metrics == [admitted : Nat, success : Nat, failure : Nat, shadow : Nat, live : Nat]

\* The counters stay natural numbers, since live saturates at zero.
LEMMA CountedType ==
  ASSUME metrics \in Metrics, NEW o
  PROVE  Counted(o) \in Metrics
<1> DEFINE down == IF metrics.live = 0 THEN 0 ELSE metrics.live - 1
           up(n, b) == IF b THEN n + 1 ELSE n
           success  == up(metrics.success, o \in Successes)
           failure  == up(metrics.failure, o \in Failures)
           shadow   == up(metrics.shadow, o = "shadow")
<1>1. down \in Nat /\ success \in Nat /\ failure \in Nat /\ shadow \in Nat
  BY DEF Metrics
<1>2. Counted(o) = [metrics EXCEPT !.live = down, !.success = success,
                                   !.failure = failure, !.shadow = shadow]
  BY DEF Counted
<1> HIDE DEF down, success, failure, shadow
<1> QED BY <1>1, <1>2 DEF Metrics

\* close_locked when its append succeeds.
LEMMA CloseOkStep ==
  ASSUME RegistryTypeOK, NEW t \in Ticket, NEW o \in Outcome, CloseOk(t, o)
  PROVE  JournalTypeOK' /\ MapTypeOK' /\ DurableKept
<1>1. JournalTypeOK' /\ DurableKept
  BY RegistryTypeParts, EntryTypes, JournalStep DEF CloseOk
<1>2. metrics' \in Metrics
  BY CountedType DEF CloseOk, Metrics, RegistryTypeOK
<1> QED BY <1>1, <1>2 DEF CloseOk, MapTypeOK, RegistryTypeOK, Metrics

\* close_locked when its append fails.
LEMMA CloseFailsStep ==
  ASSUME RegistryTypeOK, NEW t \in Ticket, NEW o \in Outcome, CloseFails(t, o)
  PROVE  JournalTypeOK' /\ MapTypeOK' /\ DurableKept
<1>1. JournalTypeOK' /\ DurableKept
  BY RegistryTypeParts, EntryTypes, JournalStep DEF CloseFails
<1> QED BY <1>1, RegistryTypeParts DEF CloseFails, MapTypeOK

\* close_locked, whatever comes of it.
LEMMA CloseLockedStep ==
  ASSUME RegistryTypeOK, NEW t \in Ticket, NEW o \in Outcome, CloseLocked(t, o)
  PROVE  JournalTypeOK' /\ MapTypeOK' /\ DurableKept
<1>1. CASE CloseOk(t, o)
  BY <1>1, CloseOkStep
<1>2. CASE CloseFails(t, o)
  BY <1>2, CloseFailsStep
<1>3. CASE CloseRefused(t)
  BY <1>3, RegistryTypeParts, JournalStutter DEF CloseRefused, journalVars, MapTypeOK, JournalTypeOK
<1> QED BY <1>1, <1>2, <1>3 DEF CloseLocked

\* admit.
LEMMA AdmitStep ==
  ASSUME RegistryTypeOK, NEW w \in Worker, Admit(w)
  PROVE  RegistryTypeOK' /\ DurableKept
<1>1. nextId \in Ticket /\ nextId' \in Nat \ {0}
  BY RegistryAssumption DEF Admit, RegistryTypeOK, Ticket
<1>2. JournalTypeOK' /\ DurableKept
  BY <1>1, RegistryTypeParts, EntryTypes, JournalStep DEF Admit
<1>3. Observed \in Status
  BY DEF Status, Observed
<1>4. MapTypeOK'
  <2>1. live' \in [Ticket -> Status \cup {Absent}] /\ outcomes' \in [Ticket -> Outcome \cup {"none"}]
    BY <1>1, <1>3 DEF Admit, RegistryTypeOK
  <2>2. metrics' \in Metrics
    <3> DEFINE admitted == metrics.admitted + 1
               alive == metrics.live + 1
    <3>1. metrics \in Metrics /\ admitted \in Nat /\ alive \in Nat
      BY DEF RegistryTypeOK, Metrics
    <3>2. metrics' \in {metrics, [metrics EXCEPT !.admitted = admitted, !.live = alive]}
      BY DEF Admit
    <3> HIDE DEF admitted, alive
    <3> QED BY <3>1, <3>2 DEF Metrics
  <2> QED BY <2>1, <2>2 DEF MapTypeOK, Metrics
<1>5. GuardTypeOK'
  <2>1. [id |-> nextId, phase |-> "admitted", ok |-> Observed]
          \in [id : Ticket, phase : GuardPhase, ok : Status]
    BY <1>1, <1>3 DEF GuardPhase
  <2>2. guard' \in [Worker -> [id : Ticket, phase : GuardPhase, ok : Status]]
    BY <2>1 DEF Admit, RegistryTypeOK
  <2> QED BY <1>1, <2>2 DEF Admit, RegistryTypeOK, GuardTypeOK
<1> QED BY <1>2, <1>4, <1>5, RegistryTypePartsNext

\* An idle worker is well typed.
LEMMA IdleType == RegistryTypeOK => Idle \in [id : Ticket, phase : GuardPhase, ok : Status]
BY RegistryAssumption DEF Idle, Ticket, GuardPhase, Status, Observed

\* checkout.
LEMMA CheckoutStep ==
  ASSUME RegistryTypeOK, NEW w \in Worker, Checkout(w)
  PROVE  RegistryTypeOK' /\ DurableKept
<1>1. JournalTypeOK' /\ DurableKept /\ MapTypeOK'
  BY RegistryTypeParts, JournalStutter DEF Checkout, journalVars, MapTypeOK, JournalTypeOK
<1>2. GuardTypeOK'
  <2>1. checkedOut' \subseteq Ticket /\ nextId' \in Nat \ {0}
    BY DEF Checkout, RegistryTypeOK
  <2>2. CASE guard' = [guard EXCEPT ![w] = Idle]
    BY <2>1, <2>2, IdleType DEF RegistryTypeOK, GuardTypeOK
  <2>3. CASE guard' = [guard EXCEPT ![w].phase = "working"]
    BY <2>1, <2>3 DEF RegistryTypeOK, GuardTypeOK, GuardPhase
  <2> QED BY <2>2, <2>3 DEF Checkout
<1> QED BY <1>1, <1>2, RegistryTypePartsNext

\* advance.
LEMMA AdvanceStep ==
  ASSUME RegistryTypeOK, NEW w \in Worker, NEW to \in Status, Advance(w, to)
  PROVE  RegistryTypeOK' /\ DurableKept
<1> DEFINE t == guard[w].id
<1>1. t \in Ticket
  BY DEF RegistryTypeOK
<1>2. JournalTypeOK' /\ DurableKept
  <2>1. CASE Journaled(AdvancedEntry(t, to)) \/ JournalFails(AdvancedEntry(t, to))
    BY <1>1, <2>1, RegistryTypeParts, EntryTypes, JournalStep
  <2>2. CASE UNCHANGED journalVars
    BY <2>2, RegistryTypeParts, JournalStutter DEF journalVars, JournalTypeOK
  <2> QED BY <2>1, <2>2 DEF Advance
<1>3. MapTypeOK'
  BY <1>1 DEF Advance, RegistryTypeOK, MapTypeOK
<1>4. GuardTypeOK'
  <2> DEFINE Guard == [id : Ticket, phase : GuardPhase, ok : Status]
             told == [guard[w] EXCEPT !.ok = to]
             erred == [guard[w] EXCEPT !.phase = "erred"]
  <2>1. guard \in [Worker -> Guard]
    BY DEF RegistryTypeOK
  <2>2. told \in Guard
    BY <2>1
  <2>3. erred \in Guard
    BY <2>1 DEF GuardPhase
  <2>4. guard' \in {[guard EXCEPT ![w] = told], [guard EXCEPT ![w] = erred]}
    BY DEF Advance
  <2>5. checkedOut' \subseteq Ticket /\ nextId' \in Nat \ {0}
    BY DEF Advance, RegistryTypeOK
  <2>6. guard' \in [Worker -> Guard]
    <3> HIDE DEF Guard, told, erred
    <3> QED BY <2>1, <2>2, <2>3, <2>4
  <2> QED BY <2>5, <2>6 DEF GuardTypeOK
<1> QED BY <1>2, <1>3, <1>4, RegistryTypePartsNext

\* TicketGuard::close.
LEMMA CloseGuardStep ==
  ASSUME RegistryTypeOK, NEW w \in Worker, NEW o \in Outcome, CloseGuard(w, o)
  PROVE  RegistryTypeOK' /\ DurableKept
<1>1. guard[w].id \in Ticket
  BY DEF RegistryTypeOK
<1>2. JournalTypeOK' /\ MapTypeOK' /\ DurableKept
  BY <1>1, CloseLockedStep DEF CloseGuard
<1>3. GuardTypeOK'
  BY DEF CloseGuard, RegistryTypeOK, GuardTypeOK, GuardPhase
<1> QED BY <1>2, <1>3, RegistryTypePartsNext

\* The release of the check-out by a dropped guard.
LEMMA DropGuardStep ==
  ASSUME RegistryTypeOK, NEW w \in Worker, DropGuard(w)
  PROVE  RegistryTypeOK' /\ DurableKept
<1>1. JournalTypeOK' /\ DurableKept /\ MapTypeOK'
  BY RegistryTypeParts, JournalStutter DEF DropGuard, journalVars, MapTypeOK, JournalTypeOK
<1>2. GuardTypeOK'
  BY IdleType DEF DropGuard, RegistryTypeOK, GuardTypeOK, GuardPhase
<1> QED BY <1>1, <1>2, RegistryTypePartsNext

\* The close by a dropped guard.
LEMMA AbandonDroppedStep ==
  ASSUME RegistryTypeOK, NEW w \in Worker, AbandonDropped(w)
  PROVE  RegistryTypeOK' /\ DurableKept
<1>1. guard[w].id \in Ticket /\ "abandoned" \in Outcome
  BY DEF RegistryTypeOK, Outcome, Failures
<1>2. JournalTypeOK' /\ MapTypeOK' /\ DurableKept
  BY <1>1, CloseLockedStep DEF AbandonDropped
<1>3. GuardTypeOK'
  BY IdleType DEF AbandonDropped, RegistryTypeOK, GuardTypeOK
<1> QED BY <1>2, <1>3, RegistryTypePartsNext

-----------------------------------------------------------------------------
(* What the journal, the map and the counters say of each other.           *)

InLog(t, kind) == \E i \in 1..Len(log) : log[i].id = t /\ log[i].kind = kind

\* A journal recovery can read: a ticket is admitted once, before anything else
\* is said of it, and its statuses go up.
LogShape ==
  /\ \A i, j \in 1..Len(log) :
       log[i].kind = "admitted" /\ log[j].kind = "admitted" /\ log[i].id = log[j].id => i = j
  /\ \A i \in 1..Len(log) :
       \E j \in 1..i : log[j].kind = "admitted" /\ log[j].id = log[i].id
  /\ \A i, j \in 1..Len(log) :
       i < j /\ log[i].kind = "advanced" /\ log[j].kind = "advanced" /\ log[i].id = log[j].id
         => log[i].to <= log[j].to

\* The next id is above every id in use.
Fresh ==
  /\ \A i \in 1..Len(log) : log[i].id < nextId
  /\ \A t \in Ticket : live[t] # Absent \/ outcomes[t] # "none" => t < nextId
  /\ \A w \in Worker : guard[w].phase # "idle" => guard[w].id < nextId

\* A live ticket is undecided.
LiveUndecided == \A t \in Ticket : live[t] # Absent => outcomes[t] = "none"

\* In a journal that ends in a whole line a live ticket is admitted, and it is at or
\* past every status the journal gave it.
LiveOnRecord ==
  tail = "clean" => \A t \in Ticket : live[t] # Absent =>
    /\ InLog(t, "admitted")
    /\ \A i \in 1..Len(log) : log[i].kind = "advanced" /\ log[i].id = t => log[i].to <= live[t]

\* A ticket such a journal has open is live.
OnRecordLive ==
  tail = "clean" =>
    \A t \in Ticket : InLog(t, "admitted") /\ ~InLog(t, "closed") => live[t] # Absent

Books == LogShape /\ Fresh /\ LiveUndecided /\ LiveOnRecord /\ OnRecordLive /\ Accounting

\* Each line behind an append is an old one or the new one.
LEMMA LineSays ==
  ASSUME JournalTypeOK, NEW e \in Entry, Lines(e)
  PROVE  \A i \in 1..Len(log') :
           \/ i \in 1..Len(log) /\ log'[i] = log[i]
           \/ tail = "clean" /\ log' = Append(log, e) /\ log'[i] = e
<1>1. Len(log) \in Nat /\ log \in Seq(Entry)
  BY DEF JournalTypeOK
<1>2. CASE log' \in {log, Append(log, e)} /\ tail = "clean"
  BY <1>1, <1>2
<1>3. CASE \E kept \in Nat : CutTo(kept)
  BY <1>3, CutKeeps
<1> QED BY <1>2, <1>3 DEF Lines

\* What an append of one entry, successful or not, does to the journal's lines.
LEMMA LogGrows ==
  ASSUME JournalTypeOK, NEW e \in Entry, log' \in {log, Append(log, e)}
  PROVE  /\ Len(log) \in Nat /\ Len(log') \in {Len(log), Len(log) + 1}
         /\ \A i \in 1..Len(log) : i \in 1..Len(log') /\ log'[i] = log[i]
         /\ \A i \in 1..Len(log') :
              i \in 1..Len(log) \/ (i = Len(log) + 1 /\ log' = Append(log, e) /\ log'[i] = e)
         /\ log' = Append(log, e) => Len(log) + 1 \in 1..Len(log') /\ log'[Len(log) + 1] = e
BY DEF JournalTypeOK

\* What the journal says of a ticket, after an append.
LEMMA InLogGrows ==
  ASSUME JournalTypeOK, NEW e \in Entry, log' \in {log, Append(log, e)}, NEW t, NEW k
  PROVE  /\ InLog(t, k) => InLog(t, k)'
         /\ InLog(t, k)' => InLog(t, k) \/ (e.id = t /\ e.kind = k)
         /\ log' = Append(log, e) /\ e.id = t /\ e.kind = k => InLog(t, k)'
BY LogGrows DEF InLog

\* What it says at most, whatever the file ended in.
LEMMA InLogSays ==
  ASSUME JournalTypeOK, NEW e \in Entry, Lines(e), NEW t, NEW k, InLog(t, k)'
  PROVE  InLog(t, k) \/ (tail = "clean" /\ e.id = t /\ e.kind = k)
BY LineSays DEF InLog

\* A prefix of a readable journal is readable.
LEMMA PrefixShape ==
  ASSUME JournalTypeOK, LogShape, NEW kept \in 0..Len(log), log' = SubSeq(log, 1, kept)
  PROVE  /\ LogShape'
         /\ \A i \in 1..Len(log') : i \in 1..Len(log) /\ log'[i] = log[i]
<1>1. Len(log) \in Nat /\ kept \in Nat /\ kept <= Len(log)
  BY DEF JournalTypeOK
<1>2. Len(log') = kept /\ \A i \in 1..kept : log'[i] = log[i]
  BY <1>1 DEF JournalTypeOK
<1>3. \A i \in 1..kept : i \in 1..Len(log)
  BY <1>1
<1>4. LogShape'
  <2>1. \A i \in 1..Len(log') :
          \E j \in 1..i : log'[j].kind = "admitted" /\ log'[j].id = log'[i].id
    <3>1. SUFFICES ASSUME NEW i \in 1..kept
                   PROVE  \E j \in 1..i : log'[j].kind = "admitted" /\ log'[j].id = log'[i].id
      BY <1>2
    <3>2. PICK j \in 1..i : log[j].kind = "admitted" /\ log[j].id = log[i].id
      BY <1>3, <3>1 DEF LogShape
    <3>3. j \in 1..kept
      BY <1>1, <3>1, <3>2
    <3> QED BY <1>2, <3>1, <3>2, <3>3
  <2>2. /\ \A i, j \in 1..Len(log') :
            log'[i].kind = "admitted" /\ log'[j].kind = "admitted" /\ log'[i].id = log'[j].id
              => i = j
        /\ \A i, j \in 1..Len(log') :
            i < j /\ log'[i].kind = "advanced" /\ log'[j].kind = "advanced"
              /\ log'[i].id = log'[j].id => log'[i].to <= log'[j].to
    BY <1>2, <1>3 DEF LogShape
  <2> QED BY <2>1, <2>2 DEF LogShape
<1> QED BY <1>2, <1>3, <1>4

\* An append keeps the journal readable if it admits a new ticket or speaks of an
\* admitted one, and moves no status back.
LEMMA ShapeGrows ==
  ASSUME JournalTypeOK, LogShape, NEW e \in Entry, log' \in {log, Append(log, e)},
         e.kind = "admitted" => \A i \in 1..Len(log) : log[i].id # e.id,
         e.kind # "admitted" => InLog(e.id, "admitted"),
         e.kind = "advanced" => \A i \in 1..Len(log) :
           log[i].kind = "advanced" /\ log[i].id = e.id => log[i].to <= e.to
  PROVE  LogShape'
<1>1. \A i, j \in 1..Len(log') :
        log'[i].kind = "admitted" /\ log'[j].kind = "admitted" /\ log'[i].id = log'[j].id => i = j
  BY LogGrows DEF LogShape
<1>2. ASSUME NEW i \in 1..Len(log')
      PROVE  \E j \in 1..i : log'[j].kind = "admitted" /\ log'[j].id = log'[i].id
  <2>1. CASE i \in 1..Len(log)
    <3>1. PICK j \in 1..i : log[j].kind = "admitted" /\ log[j].id = log[i].id
      BY <2>1 DEF LogShape
    <3>2. j \in 1..Len(log)
      BY <2>1, LogGrows
    <3> QED BY <2>1, <3>1, <3>2, LogGrows
  <2>2. CASE i = Len(log) + 1 /\ log'[i] = e
    <3>1. CASE e.kind = "admitted"
      BY <2>2, <3>1, LogGrows
    <3>2. CASE e.kind # "admitted"
      <4>1. PICK j \in 1..Len(log) : log[j].id = e.id /\ log[j].kind = "admitted"
        BY <3>2 DEF InLog
      <4>2. j \in 1..i /\ log'[j] = log[j]
        BY <2>2, LogGrows
      <4> QED BY <2>2, <4>1, <4>2
    <3> QED BY <3>1, <3>2
  <2> QED BY <2>1, <2>2, LogGrows
<1>3. ASSUME NEW i \in 1..Len(log'), NEW j \in 1..Len(log'), i < j,
             log'[i].kind = "advanced", log'[j].kind = "advanced", log'[i].id = log'[j].id
      PROVE  log'[i].to <= log'[j].to
  <2>1. Len(log) \in Nat
    BY DEF JournalTypeOK
  <2>2. i \in 1..Len(log) /\ log'[i] = log[i]
    BY <1>3, <2>1, LogGrows
  <2>3. CASE j \in 1..Len(log)
    BY <1>3, <2>2, <2>3, LogGrows DEF LogShape
  <2>4. CASE log'[j] = e
    BY <1>3, <2>2, <2>4
  <2> QED BY <2>3, <2>4, LogGrows
<1> QED BY <1>1, <1>2, <1>3 DEF LogShape

\* The same whatever the file ended in: only behind a whole line does the new one
\* say anything.
LEMMA ShapeKept ==
  ASSUME JournalTypeOK, LogShape, NEW e \in Entry, Lines(e),
         tail = "clean" =>
           /\ e.kind = "admitted" => \A i \in 1..Len(log) : log[i].id # e.id
           /\ e.kind # "admitted" => InLog(e.id, "admitted")
           /\ e.kind = "advanced" => \A i \in 1..Len(log) :
                log[i].kind = "advanced" /\ log[i].id = e.id => log[i].to <= e.to
  PROVE  LogShape'
<1>1. CASE tail = "clean" /\ log' \in {log, Append(log, e)}
  BY <1>1, ShapeGrows
<1>2. CASE \E kept \in Nat : CutTo(kept)
  <2>1. PICK kept \in Nat : CutTo(kept)
    BY <1>2
  <2>2. kept \in 0..Len(log) /\ log' = SubSeq(log, 1, kept)
    BY <2>1 DEF CutTo, JournalTypeOK
  <2> QED BY <2>2, PrefixShape
<1> QED BY <1>1, <1>2 DEF Lines

-----------------------------------------------------------------------------
(* The counters.                                                           *)

\* One more live ticket is one more in the count.
LEMMA LiveAdded ==
  ASSUME MapTypeOK, NEW t \in Ticket, NEW s \in Status, live[t] = Absent,
         live' = [live EXCEPT ![t] = s]
  PROVE  Cardinality(Live') = Cardinality(Live) + 1
<1>1. Live \subseteq Ticket /\ t \notin Live /\ Live' = Live \cup {t}
  BY DEF Live, MapTypeOK, Status, Absent
<1>2. IsFiniteSet(Live)
  BY <1>1, TicketsFinite
<1> QED BY <1>1, <1>2, FS_AddElement

\* One less is one less.
LEMMA LiveRemoved ==
  ASSUME MapTypeOK, NEW t \in Ticket, live[t] # Absent, live' = [live EXCEPT ![t] = Absent]
  PROVE  Cardinality(Live) # 0 /\ Cardinality(Live') = Cardinality(Live) - 1
<1>1. Live \subseteq Ticket /\ t \in Live /\ Live' = Live \ {t}
  BY DEF Live, MapTypeOK
<1>2. IsFiniteSet(Live) /\ Cardinality(Live) \in Nat
  BY <1>1, TicketsFinite
<1>3. Cardinality(Live) # 0
  BY <1>1, <1>2, FS_EmptySet
<1> QED BY <1>1, <1>2, <1>3, FS_RemoveElement

\* A close moves one ticket from the live count to exactly one of the others.
LEMMA CountedBalances ==
  ASSUME metrics \in Metrics, metrics.live # 0, NEW o \in Outcome, metrics' = Counted(o)
  PROVE  TicketDropCount' = TicketDropCount /\ metrics'.live = metrics.live - 1
<1> DEFINE down == IF metrics.live = 0 THEN 0 ELSE metrics.live - 1
           up(n, b) == IF b THEN n + 1 ELSE n
           success  == up(metrics.success, o \in Successes)
           failure  == up(metrics.failure, o \in Failures)
           shadow   == up(metrics.shadow, o = "shadow")
<1>1. down = metrics.live - 1
  OBVIOUS
<1>2. success + failure + shadow = metrics.success + metrics.failure + metrics.shadow + 1
  <2>1. \/ o \in Successes /\ o \notin Failures /\ o # "shadow"
        \/ o \notin Successes /\ o \in Failures /\ o # "shadow"
        \/ o \notin Successes /\ o \notin Failures /\ o = "shadow"
    BY DEF Outcome, Successes, Failures
  <2>2. metrics.success \in Nat /\ metrics.failure \in Nat /\ metrics.shadow \in Nat
    BY DEF Metrics
  <2> QED BY <2>1, <2>2
<1>3. success \in Nat /\ failure \in Nat /\ shadow \in Nat
  BY DEF Metrics
<1>4. metrics' = [metrics EXCEPT !.live = down, !.success = success,
                                 !.failure = failure, !.shadow = shadow]
  BY DEF Counted
<1> HIDE DEF down, success, failure, shadow
<1>5. /\ metrics'.live = down /\ metrics'.success = success
      /\ metrics'.failure = failure /\ metrics'.shadow = shadow
      /\ metrics'.admitted = metrics.admitted
  BY <1>4 DEF Metrics
<1>6. metrics.admitted \in Nat /\ metrics.live \in Nat /\ metrics.success \in Nat
      /\ metrics.failure \in Nat /\ metrics.shadow \in Nat
  BY DEF Metrics
<1> QED BY <1>1, <1>2, <1>3, <1>5, <1>6 DEF TicketDropCount

-----------------------------------------------------------------------------
(* The operations keep the books.                                          *)

\* The workers hold on to what they had, or let go of it.
GuardsKeepIds ==
  \A w \in Worker : guard'[w].phase # "idle" =>
    guard[w].phase # "idle" /\ guard'[w].id = guard[w].id

\* Accounting, spelt out on what the next state is made of.
LEMMA AccountingKept ==
  ASSUME RegistryTypeOK, Accounting,
         \/ metrics' = metrics /\ Cardinality(Live') = Cardinality(Live)
         \/ \E o \in Outcome :
              /\ metrics' = Counted(o)
              /\ Cardinality(Live) # 0 /\ Cardinality(Live') = Cardinality(Live) - 1
  PROVE  Accounting'
<1>1. metrics \in Metrics
  BY DEF RegistryTypeOK, Metrics
<1>2. CASE metrics' = metrics /\ Cardinality(Live') = Cardinality(Live)
  BY <1>2 DEF Accounting, TicketDropCount
<1>3. ASSUME NEW o \in Outcome, metrics' = Counted(o),
             Cardinality(Live) # 0, Cardinality(Live') = Cardinality(Live) - 1
      PROVE  Accounting'
  BY <1>1, <1>3, CountedBalances DEF Accounting
<1> QED BY <1>2, <1>3

\* admit.
LEMMA AdmitBooks ==
  ASSUME RegistryTypeOK, Books, NEW w \in Worker, Admit(w)
  PROVE  Books'
<1> DEFINE t == nextId
           e == AdmittedEntry(t)
<1>1. t \in Ticket /\ e \in Entry /\ e.kind = "admitted" /\ e.id = t /\ nextId \in Nat
  <2>1. t \in Ticket /\ nextId \in Nat
    BY RegistryAssumption DEF Admit, RegistryTypeOK, Ticket
  <2> QED BY <2>1, EntryTypes DEF AdmittedEntry
<1>2. JournalTypeOK /\ MapTypeOK /\ nextId' = nextId + 1
  BY RegistryTypeParts DEF Admit
<1>3. live[t] = Absent /\ outcomes[t] = "none" /\ \A i \in 1..Len(log) : log[i].id # t
  <2>1. ~(t < nextId)
    BY <1>1
  <2> QED BY <1>1, <2>1 DEF Books, Fresh
<1>4. \A i \in 1..Len(log) : log[i].id \in Ticket
  BY <1>2, EntryFields DEF JournalTypeOK
<1>5. CASE /\ Journaled(e)
           /\ live' = [live EXCEPT ![t] = Observed]
           /\ metrics' = [metrics EXCEPT !.admitted = @ + 1, !.live = @ + 1]
           /\ guard' = [guard EXCEPT ![w] = [id |-> t, phase |-> "admitted", ok |-> Observed]]
  <2>1. Lines(e) /\ outcomes' = outcomes /\ (tail' = "clean" => tail = "clean" /\ log' = Append(log, e))
    BY <1>2, <1>5, AppendLines DEF Lines, Admit
  <2> HIDE DEF e
  <2>2. LogShape'
    BY <1>1, <1>2, <1>3, <2>1, ShapeKept DEF Books
  <2>3. \A u \in Ticket : live'[u] = IF u = t THEN Observed ELSE live[u]
    BY <1>5 DEF RegistryTypeOK
  <2>4. Fresh'
    <3>1. \A i \in 1..Len(log') : log'[i].id < nextId'
      <4>1. SUFFICES ASSUME NEW i \in 1..Len(log') PROVE log'[i].id < nextId'
        OBVIOUS
      <4>2. (i \in 1..Len(log) /\ log'[i] = log[i]) \/ log'[i] = e
        BY <1>1, <1>2, <2>1, LineSays
      <4>3. CASE i \in 1..Len(log) /\ log'[i] = log[i]
        <5>1. log'[i].id < nextId /\ log'[i].id \in Nat
          BY <1>4, <4>3 DEF Books, Fresh, Ticket
        <5> QED BY <1>1, <1>2, <5>1
      <4>4. CASE log'[i] = e
        BY <1>1, <1>2, <4>4
      <4> QED BY <4>2, <4>3, <4>4
    <3>2. \A u \in Ticket : live'[u] # Absent \/ outcomes'[u] # "none" => u < nextId'
      BY <1>1, <1>2, <2>1, <2>3 DEF Books, Fresh, Ticket
    <3>3. \A v \in Worker : guard'[v].phase # "idle" => guard'[v].id < nextId'
      BY <1>1, <1>2, <1>5 DEF Books, Fresh, RegistryTypeOK, Ticket
    <3> QED BY <3>1, <3>2, <3>3 DEF Fresh
  <2>5. LiveOnRecord'
    <3>1. SUFFICES ASSUME NEW u \in Ticket, live'[u] # Absent, tail = "clean", log' = Append(log, e)
                   PROVE  /\ InLog(u, "admitted")'
                          /\ \A i \in 1..Len(log') :
                               log'[i].kind = "advanced" /\ log'[i].id = u => log'[i].to <= live'[u]
      BY <2>1 DEF LiveOnRecord, InLog
    <3>2. CASE u = t
      <4>1. InLog(u, "admitted")'
        BY <1>1, <1>2, <3>1, <3>2, InLogGrows
      <4>2. \A i \in 1..Len(log') : ~(log'[i].kind = "advanced" /\ log'[i].id = u)
        BY <1>1, <1>2, <1>3, <3>1, <3>2, LogGrows
      <4> QED BY <4>1, <4>2
    <3>3. CASE u # t
      <4>1. live[u] # Absent /\ live'[u] = live[u]
        BY <2>3, <3>1, <3>3
      <4>2. InLog(u, "admitted")'
        BY <1>1, <1>2, <3>1, <4>1, InLogGrows DEF Books, LiveOnRecord
      <4>3. \A i \in 1..Len(log') :
              log'[i].kind = "advanced" /\ log'[i].id = u => log'[i].to <= live'[u]
        <5>1. \A i \in 1..Len(log) : log[i].kind = "advanced" /\ log[i].id = u => log[i].to <= live[u]
          BY <3>1, <4>1 DEF Books, LiveOnRecord
        <5>2. \A i \in 1..Len(log') : (i \in 1..Len(log) /\ log'[i] = log[i]) \/ log'[i] = e
          BY <1>1, <1>2, <3>1, LogGrows
        <5> QED BY <1>1, <4>1, <5>1, <5>2
      <4> QED BY <4>2, <4>3
    <3> QED BY <3>2, <3>3
  <2>6. OnRecordLive'
    <3>1. SUFFICES ASSUME NEW u \in Ticket, InLog(u, "admitted")', ~InLog(u, "closed")',
                          tail = "clean", log' = Append(log, e)
                   PROVE  live'[u] # Absent
      BY <2>1 DEF OnRecordLive, InLog
    <3>2. u = t \/ (InLog(u, "admitted") /\ ~InLog(u, "closed"))
      BY <1>1, <1>2, <3>1, InLogGrows
    <3> QED BY <2>3, <3>1, <3>2 DEF Books, OnRecordLive, Observed, Absent
  <2>7. Accounting'
    <3>1. Observed \in Status
      BY DEF Status, Observed
    <3>2. Cardinality(Live') = Cardinality(Live) + 1
      BY <1>1, <1>2, <1>3, <1>5, <3>1, LiveAdded
    <3> DEFINE admitted == metrics.admitted + 1
               alive == metrics.live + 1
    <3>3. /\ metrics \in Metrics
          /\ metrics' = [metrics EXCEPT !.admitted = admitted, !.live = alive]
      BY <1>5 DEF RegistryTypeOK, Metrics
    <3> HIDE DEF admitted, alive
    <3>4. /\ metrics'.admitted = admitted /\ metrics'.live = alive
          /\ metrics'.success = metrics.success /\ metrics'.failure = metrics.failure
          /\ metrics'.shadow = metrics.shadow
      BY <3>3 DEF Metrics
    <3>5. /\ metrics.admitted \in Nat /\ metrics.live \in Nat /\ metrics.success \in Nat
          /\ metrics.failure \in Nat /\ metrics.shadow \in Nat
      BY <3>3 DEF Metrics
    <3> QED BY <3>2, <3>4, <3>5 DEF Books, Accounting, TicketDropCount, admitted, alive
  <2>8. LiveUndecided'
    BY <1>3, <2>1, <2>3 DEF Books, LiveUndecided
  <2> QED BY <2>2, <2>4, <2>5, <2>6, <2>7, <2>8 DEF Books
<1>6. CASE JournalFails(e) /\ UNCHANGED <<live, metrics, guard>>
  <2>1. Lines(e) /\ (tail' = "clean" => UNCHANGED <<log, tail>>)
    <3>1. ~DurableWrite(e)
      BY <1>1 DEF DurableWrite
    <3>2. Torn => tail' # "clean"
      BY DEF Torn
    <3> QED BY <1>2, <1>6, <3>1, <3>2, AppendLines DEF JournalFails, Bare
  <2>2. UNCHANGED <<live, metrics, guard, outcomes>>
    BY <1>6 DEF Admit
  <2> HIDE DEF e
  <2>3. LogShape'
    BY <1>1, <1>2, <1>3, <2>1, ShapeKept DEF Books
  <2>4. Fresh'
    <3>1. \A i \in 1..Len(log') : log'[i].id < nextId'
      <4>1. SUFFICES ASSUME NEW i \in 1..Len(log') PROVE log'[i].id < nextId'
        OBVIOUS
      <4>2. (i \in 1..Len(log) /\ log'[i] = log[i]) \/ log'[i] = e
        BY <1>1, <1>2, <2>1, LineSays
      <4>3. CASE i \in 1..Len(log) /\ log'[i] = log[i]
        <5>1. log'[i].id < nextId /\ log'[i].id \in Nat
          BY <1>4, <4>3 DEF Books, Fresh, Ticket
        <5> QED BY <1>1, <1>2, <5>1
      <4>4. CASE log'[i] = e
        BY <1>1, <1>2, <4>4
      <4> QED BY <4>2, <4>3, <4>4
    <3>2. \A u \in Ticket : live'[u] # Absent \/ outcomes'[u] # "none" => u < nextId'
      BY <1>1, <1>2, <2>2 DEF Books, Fresh, Ticket
    <3>3. \A v \in Worker : guard'[v].phase # "idle" => guard'[v].id < nextId'
      BY <1>1, <1>2, <2>2 DEF Books, Fresh, RegistryTypeOK, Ticket
    <3> QED BY <3>1, <3>2, <3>3 DEF Fresh
  <2>5. Live' = Live
    BY <2>2 DEF Live
  <2> QED BY <2>1, <2>2, <2>3, <2>4, <2>5
          DEF Books, LiveUndecided, LiveOnRecord, OnRecordLive, InLog, Accounting, TicketDropCount
<1> QED BY <1>5, <1>6 DEF Admit

\* What only moves guards.
LEMMA GuardBooks ==
  ASSUME Books, GuardsKeepIds, UNCHANGED <<live, outcomes, nextId, metrics, log, tail>>
  PROVE  Books'
<1>1. Fresh'
  BY DEF Books, Fresh, GuardsKeepIds
<1>2. Accounting'
  <2>1. Live' = Live
    BY DEF Live
  <2> QED BY <2>1 DEF Books, Accounting, TicketDropCount
<1>3. LogShape'
  BY DEF Books, LogShape, InLog
<1>4. LiveOnRecord'
  BY DEF Books, LiveOnRecord, InLog
<1>5. OnRecordLive'
  BY DEF Books, OnRecordLive, InLog
<1>6. LiveUndecided'
  BY DEF Books, LiveUndecided
<1> QED BY <1>1, <1>2, <1>3, <1>4, <1>5, <1>6 DEF Books

\* advance.
LEMMA AdvanceBooks ==
  ASSUME RegistryTypeOK, Books, NEW w \in Worker, NEW to \in Status, Advance(w, to)
  PROVE  Books'
<1> DEFINE t == guard[w].id
           e == AdvancedEntry(t, to)
<1>1. GuardsKeepIds
  BY DEF Advance, GuardsKeepIds, RegistryTypeOK
<1>2. t \in Ticket /\ e \in Entry /\ e.kind = "advanced" /\ e.id = t /\ e.to = to
  <2>1. t \in Ticket
    BY DEF RegistryTypeOK
  <2> QED BY <2>1, EntryTypes DEF AdvancedEntry
<1>3. CASE UNCHANGED <<live, journalVars>>
  BY <1>1, <1>3, GuardBooks DEF Advance, journalVars
<1>4. CASE /\ live[t] # Absent /\ to > live[t]
           /\ live' = [live EXCEPT ![t] = to]
           /\ Journaled(e) \/ JournalFails(e)
  <2>1. UNCHANGED <<outcomes, nextId, metrics>>
    BY <1>4 DEF Advance
  <2>2. JournalTypeOK /\ MapTypeOK
    BY RegistryTypeParts
  <2>3. \A u \in Ticket : live'[u] = IF u = t THEN to ELSE live[u]
    BY <1>4 DEF RegistryTypeOK
  <2>4. live[t] \in Int /\ to \in Int /\ to # Absent
    BY <1>2 DEF RegistryTypeOK, Status, Absent
  <2>5. \A i \in 1..Len(log) : log[i].kind = "advanced" => log[i].to \in Int
    BY <2>2, EntryFields DEF JournalTypeOK, Status
  <2>6. outcomes[t] = "none" /\ (tail = "clean" => InLog(t, "admitted"))
    BY <1>2, <1>4 DEF Books, LiveUndecided, LiveOnRecord
  <2>7. tail = "clean" => \A i \in 1..Len(log) : log[i].kind = "advanced" /\ log[i].id = t => log[i].to <= to
    BY <1>2, <1>4, <2>4, <2>5 DEF Books, LiveOnRecord
  <2>8. t < nextId
    BY <1>2, <1>4 DEF Books, Fresh
  <2>14. Lines(e) /\ (tail' = "clean" => tail = "clean" /\ log' \in {log, Append(log, e)})
    BY <1>4, <2>2, AppendLines DEF Lines
  <2> HIDE DEF e, t
  <2>9. LogShape'
    BY <1>2, <2>2, <2>6, <2>7, <2>14, ShapeKept DEF Books
  <2>10. Fresh'
    <3>1. \A i \in 1..Len(log') : log'[i].id < nextId'
      BY <1>2, <2>1, <2>2, <2>8, <2>14, LineSays DEF Books, Fresh
    <3>2. \A u \in Ticket : live'[u] # Absent \/ outcomes'[u] # "none" => u < nextId'
      BY <2>1, <2>3, <2>8 DEF Books, Fresh
    <3> QED BY <1>1, <2>1, <3>1, <3>2 DEF Books, Fresh, GuardsKeepIds
  <2>11. LiveOnRecord'
    <3>1. SUFFICES ASSUME NEW u \in Ticket, live'[u] # Absent,
                          tail = "clean", log' \in {log, Append(log, e)}
                   PROVE  /\ InLog(u, "admitted")'
                          /\ \A i \in 1..Len(log') :
                               log'[i].kind = "advanced" /\ log'[i].id = u => log'[i].to <= live'[u]
      BY <2>14 DEF LiveOnRecord, InLog
    <3>2. live[u] # Absent
      BY <1>4, <2>3, <3>1
    <3>3. InLog(u, "admitted")'
      BY <1>2, <2>2, <3>1, <3>2, InLogGrows DEF Books, LiveOnRecord
    <3>4. ASSUME NEW i \in 1..Len(log'), log'[i].kind = "advanced", log'[i].id = u
          PROVE  log'[i].to <= live'[u]
      <4>1. CASE i \in 1..Len(log)
        <5>1. log'[i] = log[i]
          BY <1>2, <2>2, <3>1, <4>1, LogGrows
        <5> QED BY <2>3, <2>7, <3>1, <3>2, <3>4, <4>1, <5>1 DEF Books, LiveOnRecord
      <4>2. CASE log'[i] = e
        BY <1>2, <2>3, <2>4, <3>4, <4>2
      <4> QED BY <1>2, <2>2, <3>1, <4>1, <4>2, LogGrows
    <3> QED BY <3>3, <3>4
  <2>12. OnRecordLive'
    <3>1. SUFFICES ASSUME NEW u \in Ticket, InLog(u, "admitted")', ~InLog(u, "closed")',
                          tail = "clean", log' \in {log, Append(log, e)}
                   PROVE  live'[u] # Absent
      BY <2>14 DEF OnRecordLive, InLog
    <3>2. InLog(u, "admitted") /\ ~InLog(u, "closed")
      BY <1>2, <2>2, <3>1, InLogGrows
    <3> QED BY <2>3, <2>4, <3>1, <3>2 DEF Books, OnRecordLive
  <2>13. Accounting'
    <3>1. Live' = Live
      BY <1>4, <2>3, <2>4 DEF Live
    <3> QED BY <2>1, <3>1, AccountingKept DEF Books
  <2>15. LiveUndecided'
    BY <2>1, <2>3, <2>6 DEF Books, LiveUndecided
  <2> QED BY <2>9, <2>10, <2>11, <2>12, <2>13, <2>15 DEF Books
<1> QED BY <1>3, <1>4 DEF Advance

\* close_locked, by whoever calls it.
LEMMA CloseBooks ==
  ASSUME RegistryTypeOK, Books, NEW t \in Ticket, NEW o \in Outcome, CloseLocked(t, o),
         GuardsKeepIds, UNCHANGED nextId
  PROVE  Books'
<1> DEFINE e == ClosedEntry(t, o)
<1>1. e \in Entry /\ e.kind = "closed" /\ e.id = t
  BY EntryTypes DEF ClosedEntry
<1>2. JournalTypeOK /\ MapTypeOK
  BY RegistryTypeParts
<1>3. CASE CloseRefused(t)
  BY <1>3, GuardBooks DEF CloseRefused, journalVars
<1>4. CASE CloseOk(t, o) \/ CloseFails(t, o)
  <2>1. live[t] # Absent /\ outcomes[t] = "none"
    BY <1>4 DEF CloseOk, CloseFails, Closeable
  <2>2. Lines(e) /\ (tail' = "clean" => tail = "clean" /\ log' \in {log, Append(log, e)})
    BY <1>2, <1>4, AppendLines DEF CloseOk, CloseFails, Lines
  <2>3. \/ /\ tail' = "clean" => log' = Append(log, e)
           /\ live' = [live EXCEPT ![t] = Absent] /\ outcomes' = [outcomes EXCEPT ![t] = o]
           /\ metrics' = Counted(o)
        \/ UNCHANGED <<live, outcomes, metrics>>
    BY <1>2, <1>4, AppendLines DEF CloseOk, CloseFails
  <2>4. t < nextId /\ (tail = "clean" => InLog(t, "admitted"))
    BY <2>1 DEF Books, Fresh, LiveOnRecord
  <2>5. \A u \in Ticket : /\ live'[u] # Absent => live'[u] = live[u] /\ outcomes'[u] = outcomes[u]
                          /\ outcomes'[u] # "none" => u = t \/ outcomes[u] # "none"
    BY <2>3 DEF RegistryTypeOK
  <2>6. \A u \in Ticket : live'[u] = Absent /\ live[u] # Absent =>
                          u = t /\ (tail' = "clean" => log' = Append(log, e))
    BY <2>3 DEF RegistryTypeOK
  <2> HIDE DEF e
  <2>7. LogShape'
    BY <1>1, <1>2, <2>2, <2>4, ShapeKept DEF Books
  <2>8. Fresh'
    <3>1. \A i \in 1..Len(log') : log'[i].id < nextId'
      BY <1>1, <1>2, <2>2, <2>4, LineSays DEF Books, Fresh
    <3> QED BY <2>4, <2>5, <3>1 DEF Books, Fresh, GuardsKeepIds
  <2>9. LiveOnRecord'
    <3>1. SUFFICES ASSUME NEW u \in Ticket, live'[u] # Absent,
                          tail = "clean", log' \in {log, Append(log, e)}
                   PROVE  /\ InLog(u, "admitted")'
                          /\ \A i \in 1..Len(log') :
                               log'[i].kind = "advanced" /\ log'[i].id = u => log'[i].to <= live'[u]
      BY <2>2 DEF LiveOnRecord, InLog
    <3>2. live'[u] = live[u] /\ live[u] # Absent
      BY <2>5, <3>1
    <3>3. InLog(u, "admitted")'
      BY <1>1, <1>2, <3>1, <3>2, InLogGrows DEF Books, LiveOnRecord
    <3>4. \A i \in 1..Len(log') :
            log'[i].kind = "advanced" /\ log'[i].id = u => log'[i].to <= live'[u]
      BY <1>1, <1>2, <3>1, <3>2, LogGrows DEF Books, LiveOnRecord
    <3> QED BY <3>3, <3>4
  <2>10. OnRecordLive'
    <3>1. SUFFICES ASSUME NEW u \in Ticket, InLog(u, "admitted")', ~InLog(u, "closed")',
                          tail' = "clean", tail = "clean", log' \in {log, Append(log, e)}
                   PROVE  live'[u] # Absent
      BY <2>2 DEF OnRecordLive, InLog
    <3>2. InLog(u, "admitted") /\ ~InLog(u, "closed")
      BY <1>1, <1>2, <3>1, InLogGrows
    <3>3. ~(u = t /\ log' = Append(log, e))
      BY <1>1, <1>2, <3>1, InLogGrows
    <3> QED BY <2>6, <3>1, <3>2, <3>3 DEF Books, OnRecordLive
  <2>11. Accounting'
    <3>1. CASE /\ live' = [live EXCEPT ![t] = Absent]
               /\ metrics' = Counted(o)
      BY <1>2, <2>1, <3>1, LiveRemoved, AccountingKept DEF Books
    <3>2. CASE UNCHANGED <<live, metrics>>
      <4>1. Live' = Live
        BY <3>2 DEF Live
      <4> QED BY <3>2, <4>1, AccountingKept DEF Books
    <3> QED BY <2>3, <3>1, <3>2
  <2>12. LiveUndecided'
    BY <2>5 DEF Books, LiveUndecided
  <2> QED BY <2>7, <2>8, <2>9, <2>10, <2>11, <2>12 DEF Books
<1> QED BY <1>3, <1>4 DEF CloseLocked

\* A close whose append failed under a boot that dies of it: the journal stays
\* readable.
LEMMA FailedCloseShape ==
  ASSUME JournalTypeOK, LogShape, NEW t \in Ticket, NEW o \in Outcome,
         tail = "clean" => InLog(t, "admitted"), JournalFails(ClosedEntry(t, o))
  PROVE  LogShape'
<1> DEFINE e == ClosedEntry(t, o)
<1>1. e \in Entry /\ e.kind = "closed" /\ e.id = t /\ Lines(e)
  BY EntryTypes, AppendLines DEF ClosedEntry
<1> HIDE DEF e
<1> QED BY <1>1, ShapeKept

-----------------------------------------------------------------------------
(* The core: the boot, the gate and the chain around the registry.         *)

BootTypeOK ==
  /\ gate \in BOOLEAN
  /\ stage \in {"down", "closing", "up", "refused"}
  /\ never \subseteq Ticket
  /\ maybe \subseteq Ticket
  /\ chain \in [Ticket -> {"none", "pending", "landed", "dropped"}]
  /\ crashes \in 0..MaxCrashes

\* TypeOK splits into the registry and what recovery adds to it.
LEMMA TypeParts == TypeOK <=> RegistryTypeOK /\ BootTypeOK
BY DEF TypeOK, BootTypeOK

\* The same of the next state.
LEMMA TypePartsNext == TypeOK' <=> RegistryTypeOK' /\ BootTypeOK'
BY DEF TypeOK, BootTypeOK

-----------------------------------------------------------------------------
(* What recovery reads in the journal.                                     *)

\* The last status a journal assigned to a ticket is a status.
LEMMA ScanStatusType ==
  ASSUME JournalTypeOK, NEW t \in Ticket
  PROVE  ScanStatus(t) \in Status
<1> DEFINE moves == LogIndexes(t, "advanced")
<1>1. CASE moves = {}
  BY <1>1 DEF ScanStatus, Status, Observed
<1>2. CASE moves # {}
  <2>1. moves \subseteq 1..Len(log) /\ Len(log) \in Nat
    BY DEF LogIndexes, JournalTypeOK
  <2>2. \E i \in moves : \A j \in moves : j <= i
    <3>1. moves \in SUBSET Nat /\ \A j \in moves : j <= Len(log)
      BY <2>1
    <3> HIDE DEF moves
    <3> QED BY <1>2, <2>1, <3>1, MaxExists
  <2> DEFINE last == CHOOSE i \in moves : \A j \in moves : j <= i
  <2>3. last \in moves
    BY <2>2
  <2>4. log[last] \in Entry /\ log[last].kind = "advanced"
    BY <2>1, <2>3 DEF LogIndexes, JournalTypeOK
  <2>5. log[last].to \in Status
    BY <2>4, EntryFields
  <2> QED BY <1>2, <2>5 DEF ScanStatus
<1> QED BY <1>1, <1>2

\* The highest id in a journal is at least every id in it.
LEMMA HighestIdBounds ==
  ASSUME JournalTypeOK
  PROVE  HighestId \in Nat /\ \A i \in 1..Len(log) : log[i].id <= HighestId
<1>1. CASE log = <<>>
  BY <1>1 DEF HighestId
<1>2. CASE log # <<>>
  <2> DEFINE ids == {log[i].id : i \in 1..Len(log)}
  <2>1. \A i \in 1..Len(log) : log[i].id \in Ticket
    BY EntryFields DEF JournalTypeOK
  <2>2. ids \in SUBSET Nat /\ MaxId \in Nat /\ \A x \in ids : x <= MaxId
    BY <2>1, RegistryAssumption DEF Ticket
  <2>3. ids # {}
    <3>1. 1 \in 1..Len(log)
      BY <1>2 DEF JournalTypeOK
    <3> QED BY <3>1
  <2>4. \E m \in ids : \A x \in ids : x <= m
    BY <2>2, <2>3, MaxExists
  <2>5. \E m \in ids : \A i \in 1..Len(log) : log[i].id <= m
    BY <2>4
  <2>6. HighestId \in ids /\ \A i \in 1..Len(log) : log[i].id <= HighestId
    BY <1>2, <2>5 DEF HighestId
  <2> QED BY <2>2, <2>6
<1> QED BY <1>1, <1>2

-----------------------------------------------------------------------------
(* One lemma per action: it preserves the types and keeps what an fsync    *)
(* has covered.                                                            *)

\* A worker's step, whichever of drive and protocol it is, keeps the types and
\* the fsynced prefix.
LEMMA PlaneTypes ==
  ASSUME TypeOK, NEW w \in Worker, PlaneStep(w)
  PROVE  TypeOK' /\ DurableKept
<1>1. RegistryTypeOK /\ BootTypeOK
  BY TypeParts
<1>2. CASE PlaneAdmit(w)
  BY <1>1, <1>2, AdmitStep, TypePartsNext DEF PlaneAdmit, bootVars, BootTypeOK
<1>3. CASE PlaneCheckout(w)
  BY <1>1, <1>3, CheckoutStep, TypePartsNext DEF PlaneCheckout, bootVars, BootTypeOK
<1>4. CASE PlaneAdvance(w)
  <2>1. PICK to \in Status : Advance(w, to)
    BY <1>4, RecoveryAssumption DEF PlaneAdvance, Least
  <2>2. RegistryTypeOK' /\ DurableKept
    BY <1>1, <2>1, AdvanceStep
  <2> QED BY <1>1, <1>4, <2>2, TypePartsNext DEF PlaneAdvance, bootVars, BootTypeOK
<1>5. CASE Send(w)
  <2>1. RegistryTypeOK'
    BY <1>1, <1>5 DEF Send, registryVars, journalVars, RegistryTypeOK
  <2>2. DurableKept
    BY <1>1, <1>5 DEF Send, journalVars, DurableKept, RegistryTypeOK
  <2>3. BootTypeOK'
    BY <1>1, <1>5 DEF Send, bootVars, BootTypeOK
  <2> QED BY <2>1, <2>2, <2>3, TypePartsNext
<1>6. CASE PlaneClose(w)
  <2>1. PICK o \in Outcome : CloseGuard(w, o)
    BY <1>6 DEF PlaneClose, Outcome, Failures, Successes
  <2>2. RegistryTypeOK' /\ DurableKept
    BY <1>1, <2>1, CloseGuardStep
  <2> QED BY <1>1, <1>6, <2>2, TypePartsNext DEF PlaneClose, bootVars, BootTypeOK
<1>7. CASE PlaneDrop(w)
  <2>1. RegistryTypeOK' /\ DurableKept
    BY <1>1, <1>7, DropGuardStep, AbandonDroppedStep DEF PlaneDrop
  <2> QED BY <1>1, <1>7, <2>1, TypePartsNext DEF PlaneDrop, bootVars, BootTypeOK
<1> QED BY <1>2, <1>3, <1>4, <1>5, <1>6, <1>7 DEF PlaneStep

\* The memory a new process starts with is well typed.
LEMMA NewMemoryTypes ==
  ASSUME TypeOK, NewMemory, JournalTypeOK', chain' = chain, crashes' \in 0..MaxCrashes
  PROVE  TypeOK'
<1>1. MapTypeOK'
  BY DEF NewMemory, MapTypeOK, NoMetrics
<1>2. GuardTypeOK'
  BY IdleType DEF NewMemory, GuardTypeOK, TypeOK
<1>3. BootTypeOK'
  BY DEF NewMemory, BootTypeOK, TypeOK
<1> QED BY <1>1, <1>2, <1>3, TypePartsNext, RegistryTypePartsNext

\* A power failure keeps the fsynced part of the file, its end included.
LEMMA CutsSay ==
  ASSUME JournalTypeOK, NEW cut \in Cuts
  PROVE  /\ \E kept \in synced..Len(log) :
              cut.log = SubSeq(log, 1, kept) /\ (cut.tail = "bare" => synced < kept)
         /\ cut.tail \in FileEnd
         /\ firm # "clean" => cut.log = log /\ cut.tail \in {firm, tail}
<1>1. /\ log \in Seq(Entry) /\ Len(log) \in Nat /\ synced \in 0..Len(log) /\ tail \in FileEnd
      /\ firm \in {"clean", "line", "behind"} /\ (tail = "bare" => synced < Len(log))
      /\ (firm = "line" => tail \in {"line", "behind"}) /\ (firm = "behind" => tail = "behind")
  BY DEF JournalTypeOK
<1>2. log = SubSeq(log, 1, Len(log)) /\ Len(log) \in synced..Len(log)
  BY <1>1
<1>3. CASE firm # "clean"
  <2>1. cut.log = log /\ cut.tail \in {firm, tail}
    BY <1>3 DEF Cuts
  <2>2. cut.tail \in FileEnd /\ cut.tail # "bare"
    BY <1>1, <1>3, <2>1 DEF FileEnd
  <2> QED BY <1>2, <2>1, <2>2
<1>4. CASE firm = "clean"
  <2>1. Len(Ended) \in Nat /\ Len(Ended) <= Len(log)
    BY <1>1 DEF Ended
  <2>2. CASE \E k \in synced..Len(Ended) : cut = [log |-> SubSeq(log, 1, k), tail |-> "clean"]
    BY <1>1, <1>4, <2>1, <2>2 DEF FileEnd
  <2>3. CASE \E k \in (synced + 1)..Len(log) : cut = [log |-> SubSeq(log, 1, k), tail |-> "bare"]
    BY <1>1, <1>4, <2>3 DEF FileEnd
  <2>4. CASE \E k \in synced..Len(log) : cut = [log |-> SubSeq(log, 1, k), tail |-> "piece"]
    BY <1>1, <1>4, <2>4 DEF FileEnd
  <2>5. CASE tail \in {"line", "behind"} /\ \E f \in {"line", tail} : cut = [log |-> log, tail |-> f]
    <3>1. cut.log = log /\ cut.tail \in {"line", "behind"}
      BY <2>5
    <3> QED BY <1>2, <1>4, <3>1 DEF FileEnd
  <2> QED BY <1>4, <2>2, <2>3, <2>4, <2>5 DEF Cuts
<1> QED BY <1>3, <1>4

\* A death leaves the lines cut somewhere behind the fsynced ones.
LEMMA CrashCuts ==
  ASSUME JournalTypeOK, Crash
  PROVE  \E kept \in Nat : CutTo(kept)
<1>1. log = SubSeq(log, 1, Len(log)) /\ Len(log) \in Nat /\ synced \in 0..Len(log)
  BY DEF JournalTypeOK
<1>2. CASE UNCHANGED <<log, tail>>
  <2>1. CutTo(Len(log))
    BY <1>1, <1>2 DEF CutTo
  <2> QED BY <1>1, <2>1
<1>3. CASE Torn
  BY <1>3, TornLines
<1>4. CASE \E cut \in Cuts : log' = cut.log /\ tail' = cut.tail
  <2>1. \E kept \in synced..Len(log) : log' = SubSeq(log, 1, kept)
    BY <1>4, CutsSay
  <2> QED BY <1>1, <2>1 DEF CutTo
<1> QED BY <1>2, <1>3, <1>4 DEF Crash

\* A death of the process or the machine keeps what was fsynced.
LEMMA CrashTypes ==
  ASSUME TypeOK, Crash
  PROVE  TypeOK' /\ DurableKept
<1>1. JournalTypeOK
  BY TypeParts, RegistryTypeParts
<1>2. UNCHANGED <<synced, firm, faults>>
  BY DEF Crash
<1>3. JournalTypeOK' /\ DurableKept
  <2>1. CASE UNCHANGED <<log, tail>>
    BY <1>1, <1>2, <2>1, JournalStutter DEF JournalTypeOK
  <2>2. CASE Torn
    BY <1>1, <1>2, <2>2, TornKeeps DEF JournalTypeOK
  <2>3. CASE \E cut \in Cuts : log' = cut.log /\ tail' = cut.tail
    <3>1. PICK cut \in Cuts : log' = cut.log /\ tail' = cut.tail
      BY <2>3
    <3>2. PICK kept \in synced..Len(log) :
            log' = SubSeq(log, 1, kept) /\ (tail' = "bare" => synced < kept)
      BY <1>1, <3>1, CutsSay
    <3>3. tail' \in FileEnd /\ (firm # "clean" => tail' \in {firm, tail})
      BY <1>1, <3>1, CutsSay
    <3>4. kept \in Nat /\ CutTo(kept)
      BY <1>1, <3>2 DEF JournalTypeOK, CutTo
    <3>5. log' \in Seq(Entry) /\ Len(log') = kept /\ synced <= kept /\ \A i \in 1..kept : log'[i] = log[i]
      BY <1>1, <3>4, CutKeeps
    <3>6. synced \in Nat /\ firm \in {"clean", "line", "behind"}
          /\ (firm = "line" => tail \in {"line", "behind"}) /\ (firm = "behind" => tail = "behind")
      BY <1>1 DEF JournalTypeOK
    <3>7. synced' \in 0..Len(log') /\ synced <= synced' /\ (tail' = "bare" => synced' < Len(log'))
      BY <1>2, <3>2, <3>4, <3>5, <3>6
    <3> QED BY <1>1, <1>2, <3>3, <3>4, <3>5, <3>6, <3>7 DEF JournalTypeOK, DurableKept
  <2> QED BY <2>1, <2>2, <2>3 DEF Crash
<1>4. crashes' \in 0..MaxCrashes
  BY RecoveryAssumption DEF Crash, TypeOK
<1> QED BY <1>3, <1>4, NewMemoryTypes DEF Crash

\* A step of boot keeps the types and the fsynced prefix, failing ones included.
LEMMA BootTypes ==
  ASSUME TypeOK, Boot
  PROVE  TypeOK' /\ DurableKept
<1>1. RegistryTypeOK /\ BootTypeOK /\ JournalTypeOK
  BY TypeParts, RegistryTypeParts
<1>2. CASE BootScan
  <2>1. JournalTypeOK' /\ DurableKept
    BY <1>1, <1>2, JournalStutter DEF BootScan, journalVars, JournalTypeOK
  <2>2. CASE stage' = "refused" /\ UNCHANGED <<registryVars, gate, never, maybe>>
    BY <1>1, <1>2, <2>1, <2>2, RegistryTypePartsNext, TypePartsNext
       DEF BootScan, registryVars, BootTypeOK, MapTypeOK, GuardTypeOK, RegistryTypeOK
  <2>3. CASE stage' = "closing"
    <3>1. InFlight \subseteq Ticket /\ IsFiniteSet(InFlight) /\ Cardinality(InFlight) \in Nat
      BY TicketsFinite DEF InFlight
    <3>2. live' \in [Ticket -> Status \cup {Absent}]
      BY <1>1, <1>2, <2>3, ScanStatusType DEF BootScan
    <3>3. metrics' \in Metrics
      <4> DEFINE n == Cardinality(InFlight)
      <4>1. metrics' = [NoMetrics EXCEPT !.admitted = n, !.live = n] /\ n \in Nat
        BY <1>2, <2>3, <3>1 DEF BootScan
      <4> HIDE DEF n
      <4> QED BY <4>1 DEF NoMetrics, Metrics
    <3>4. nextId' \in Nat \ {0}
      BY <1>1, <1>2, <2>3, HighestIdBounds DEF BootScan
    <3>5. MapTypeOK' /\ GuardTypeOK'
      BY <1>1, <1>2, <2>3, <3>2, <3>3, <3>4
         DEF BootScan, MapTypeOK, GuardTypeOK, RegistryTypeOK, Metrics
    <3>6. BootTypeOK'
      BY <1>1, <1>2, <2>3, <3>1 DEF BootScan, BootTypeOK
    <3> QED BY <2>1, <3>5, <3>6, TypePartsNext, RegistryTypePartsNext
  <2> QED BY <1>2, <2>2, <2>3 DEF BootScan
<1>3. ASSUME NEW t \in Ticket, NEW o \in Outcome, CloseOk(t, o),
             UNCHANGED <<checkedOut, nextId, guard>>
      PROVE  RegistryTypeOK' /\ DurableKept
  BY <1>1, <1>3, CloseOkStep, RegistryTypePartsNext DEF GuardTypeOK, RegistryTypeOK
<1>4. ASSUME NEW t \in Ticket, NEW o \in Outcome, JournalFails(ClosedEntry(t, o)), BootFails
      PROVE  TypeOK' /\ DurableKept
  <2>1. JournalTypeOK' /\ DurableKept
    BY <1>1, <1>4, JournalStep, EntryTypes
  <2> QED BY <1>4, <2>1, NewMemoryTypes DEF BootFails, TypeOK
<1>5. CASE CloseNeverSigned
  <2>1. "never_signed" \in Outcome
    BY DEF Outcome, Failures
  <2>2. PICK t \in Least(never) :
          \/ /\ CloseOk(t, "never_signed")
             /\ never' = never \ {t}
             /\ UNCHANGED <<checkedOut, nextId, guard, gate, stage, maybe, chain, crashes>>
          \/ JournalFails(ClosedEntry(t, "never_signed")) /\ BootFails
    BY <1>5 DEF CloseNeverSigned
  <2>3. t \in Ticket
    BY <1>1, <2>2 DEF Least, BootTypeOK
  <2>4. CASE JournalFails(ClosedEntry(t, "never_signed")) /\ BootFails
    BY <1>4, <2>1, <2>3, <2>4
  <2>5. CASE /\ CloseOk(t, "never_signed")
             /\ never' = never \ {t}
             /\ UNCHANGED <<checkedOut, nextId, guard, gate, stage, maybe, chain, crashes>>
    <3>1. RegistryTypeOK' /\ DurableKept
      BY <1>3, <2>1, <2>3, <2>5
    <3> QED BY <1>1, <2>5, <3>1, TypePartsNext DEF BootTypeOK
  <2> QED BY <2>2, <2>4, <2>5
<1>6. CASE Resolve
  <2>1. PICK t \in Least(maybe) :
          \/ /\ CloseOk(t, ChainAnswer(t))
             /\ maybe' = maybe \ {t}
             /\ UNCHANGED <<checkedOut, nextId, guard, gate, stage, never, chain, crashes>>
          \/ JournalFails(ClosedEntry(t, ChainAnswer(t))) /\ BootFails
          \/ BootFails /\ UNCHANGED journalVars
          \/ /\ faults < MaxFaults /\ faults' = faults + 1 /\ BootFails
             /\ UNCHANGED <<log, tail, synced, firm>>
    BY <1>6 DEF Resolve
  <2>2. t \in Ticket /\ ChainAnswer(t) \in Outcome
    BY <1>1, <2>1 DEF Least, BootTypeOK, ChainAnswer, Outcome, Successes, Failures
  <2>3. CASE JournalFails(ClosedEntry(t, ChainAnswer(t))) /\ BootFails
    BY <1>4, <2>2, <2>3
  <2>4. CASE /\ CloseOk(t, ChainAnswer(t))
             /\ maybe' = maybe \ {t}
             /\ UNCHANGED <<checkedOut, nextId, guard, gate, stage, never, chain, crashes>>
    <3>1. RegistryTypeOK' /\ DurableKept
      BY <1>3, <2>2, <2>4
    <3> QED BY <1>1, <2>4, <3>1, TypePartsNext DEF BootTypeOK
  <2>5. CASE BootFails /\ UNCHANGED <<log, tail, synced, firm>> /\ faults' \in 0..MaxFaults
    BY <1>1, <2>5, JournalStutter, NewMemoryTypes DEF BootFails, TypeOK
  <2>6. faults < MaxFaults /\ faults' = faults + 1 => faults' \in 0..MaxFaults
    BY <1>1, RegistryAssumption DEF JournalTypeOK
  <2>7. UNCHANGED journalVars => UNCHANGED <<log, tail, synced, firm>> /\ faults' \in 0..MaxFaults
    BY <1>1 DEF journalVars, JournalTypeOK
  <2> QED BY <2>1, <2>3, <2>4, <2>5, <2>6, <2>7
<1>7. CASE OpenGate
  <2>1. RegistryTypeOK' /\ DurableKept
    BY <1>1, <1>7 DEF OpenGate, registryVars, journalVars, RegistryTypeOK, DurableKept
  <2> QED BY <1>1, <1>7, <2>1, TypePartsNext DEF OpenGate, BootTypeOK
<1> QED BY <1>2, <1>5, <1>6, <1>7 DEF Boot

\* The chain touches nothing of ours.
LEMMA ChainTypes ==
  ASSUME TypeOK, ChainSettles
  PROVE  TypeOK' /\ DurableKept
<1>1. RegistryTypeOK /\ BootTypeOK
  BY TypeParts
<1>2. RegistryTypeOK' /\ DurableKept
  BY <1>1 DEF ChainSettles, registryVars, journalVars, RegistryTypeOK, DurableKept
<1>3. BootTypeOK'
  BY <1>1 DEF ChainSettles, bootVars, BootTypeOK
<1> QED BY <1>2, <1>3, TypePartsNext

\* The first state is well typed.
LEMMA InitTypes == Init => TypeOK
<1> SUFFICES ASSUME Init PROVE TypeOK
  OBVIOUS
<1>1. JournalTypeOK
  BY RegistryAssumption DEF Init, JournalInit, JournalTypeOK, FileEnd
<1>2. MapTypeOK
  BY DEF Init, RegistryInit, MapTypeOK, NoMetrics
<1>3. Idle \in [id : Ticket, phase : GuardPhase, ok : Status]
  BY RegistryAssumption DEF Idle, Ticket, GuardPhase, Status, Observed
<1>4. GuardTypeOK
  BY <1>3 DEF Init, RegistryInit, GuardTypeOK
<1>5. BootTypeOK
  <2>1. crashes \in 0..MaxCrashes
    BY RecoveryAssumption DEF Init
  <2> QED BY <2>1 DEF Init, BootTypeOK
<1> QED BY <1>1, <1>2, <1>4, <1>5, TypeParts, RegistryTypeParts

\* Every step keeps the types and what an fsync has covered.
LEMMA StepTypes ==
  ASSUME TypeOK, [Next]_vars
  PROVE  TypeOK' /\ DurableKept
<1>1. CASE \E w \in Worker : PlaneStep(w)
  BY <1>1, PlaneTypes
<1>2. CASE ChainSettles
  BY <1>2, ChainTypes
<1>3. CASE Crash
  BY <1>3, CrashTypes
<1>4. CASE Boot
  BY <1>4, BootTypes
<1>5. CASE UNCHANGED vars
  BY <1>5 DEF vars, registryVars, journalVars, bootVars, TypeOK, RegistryTypeOK, DurableKept
<1> QED BY <1>1, <1>2, <1>3, <1>4, <1>5 DEF Next

\* The registry, the journal, the process and the chain keep their types.
THEOREM TypeCorrect == Spec => []TypeOK
<1>1. TypeOK /\ [Next]_vars => TypeOK'
  BY StepTypes
<1> QED BY InitTypes, <1>1, PTL DEF Spec


-----------------------------------------------------------------------------
(* The write-ahead rule.                                                   *)

\* The binaries run one capture worker.  With two, one can be told that its entry
\* is fsynced when that is glued to a piece of a line the other left.
OneWorker == \A v, w \in Worker : v = w

\* The fsynced part of the journal says that t reached Signed, or boot refuses it.
SignedOnRecord(t) ==
  \/ \E i \in 1..synced :
       log[i].kind = "advanced" /\ log[i].id = t /\ MayBeOnChain(log[i].to)
  \/ firm = "behind"

\* Tickets are in somebody's hands only while the process is up.
IdleUnlessUp ==
  /\ gate => stage = "up"
  /\ stage # "up" => \A w \in Worker : guard[w].phase = "idle"

\* While a worker still advances its ticket the file ends in a newline: its own
\* admission was appended whole, and so was what it wrote since.
EndsWhole ==
  \A w \in Worker : guard[w].phase \in {"admitted", "working"} => tail \notin {"bare", "piece"}

\* What makes SentIsOnRecord inductive: a worker that was told its ticket
\* reached Signed was told so after the fsync.
ToldIsOnRecord ==
  \A w \in Worker : MayBeOnChain(guard[w].ok) => SignedOnRecord(guard[w].id)

WriteAheadInv ==
  /\ TypeOK
  /\ IdleUnlessUp
  /\ OneWorker => EndsWhole /\ ToldIsOnRecord /\ SentIsOnRecord

\* A durable record stays: no append, crash or boot takes it back.
LEMMA RecordStays ==
  ASSUME TypeOK, TypeOK', DurableKept, NEW t \in Ticket, SignedOnRecord(t)
  PROVE  SignedOnRecord(t)'
<1>1. CASE firm = "behind"
  BY <1>1 DEF DurableKept, SignedOnRecord
<1>2. CASE \E i \in 1..synced : log[i].kind = "advanced" /\ log[i].id = t /\ MayBeOnChain(log[i].to)
  <2>1. PICK i \in 1..synced :
          log[i].kind = "advanced" /\ log[i].id = t /\ MayBeOnChain(log[i].to)
    BY <1>2
  <2>2. synced \in Nat /\ synced' \in Nat
    BY DEF TypeOK, RegistryTypeOK
  <2>3. i \in 1..synced' /\ log'[i] = log[i]
    BY <2>2 DEF DurableKept
  <2>4. MayBeOnChain(log'[i].to)
    BY <2>1, <2>3
  <2> QED BY <2>1, <2>3, <2>4 DEF SignedOnRecord, MayBeOnChain
<1> QED BY <1>1, <1>2 DEF SignedOnRecord

\* An Ok from advance(to) with to at or past Signed means the entry is fsynced, if
\* the file ended in a newline.
LEMMA AdvanceIsDurable ==
  ASSUME TypeOK, NEW t \in Ticket, NEW to \in Status, MayBeOnChain(to), tail \notin {"bare", "piece"},
         Journaled(AdvancedEntry(t, to))
  PROVE  SignedOnRecord(t)'
<1>1. DurableWrite(AdvancedEntry(t, to))
  BY DEF DurableWrite, AdvancedEntry, RequiresDurable, MayBeOnChain, Status, Authorized, Signed
<1>2. /\ tail \in {"clean", "line", "behind"} /\ log \in Seq(Entry)
      /\ AdvancedEntry(t, to) \in Entry
  BY EntryTypes DEF TypeOK, RegistryTypeOK, FileEnd
<1>3. CASE tail = "clean"
  <2>1. log' = Append(log, AdvancedEntry(t, to)) /\ synced' = Len(log')
    BY <1>1, <1>3 DEF Journaled, Written
  <2>2. Len(log) + 1 \in 1..synced' /\ log'[Len(log) + 1] = AdvancedEntry(t, to)
    BY <1>2, <2>1
  <2> QED BY <2>2 DEF SignedOnRecord, AdvancedEntry, MayBeOnChain
<1>4. CASE tail \in {"line", "behind"}
  BY <1>1, <1>4 DEF Journaled, Written, SignedOnRecord
<1> QED BY <1>2, <1>3, <1>4

\* What a step does to the hands of a worker that it may have told something.
LEMMA ToldByAdvance ==
  ASSUME TypeOK, NEW w \in Worker, PlaneStep(w), NEW v \in Worker,
         MayBeOnChain(guard'[v].ok)
  PROVE  \/ guard'[v].id = guard[v].id /\ guard'[v].ok = guard[v].ok
         \/ \E to \in Status :
              /\ guard'[v].id = guard[v].id /\ MayBeOnChain(to) /\ guard[v].phase = "working"
              /\ Journaled(AdvancedEntry(guard[v].id, to))
<1>1. guard \in [Worker -> [id : Ticket, phase : GuardPhase, ok : Status]]
  BY DEF TypeOK, RegistryTypeOK
<1>2. ~MayBeOnChain(Idle.ok) /\ ~MayBeOnChain(Observed)
  BY DEF MayBeOnChain, Idle, Observed, Signed
<1>3. CASE PlaneAdmit(w)
  <2>1. \/ guard' = guard
        \/ guard' = [guard EXCEPT ![w] =
                        [id |-> nextId, phase |-> "admitted", ok |-> Observed]]
    BY <1>3 DEF PlaneAdmit, Admit
  <2> QED BY <1>1, <1>2, <2>1
<1>4. CASE PlaneCheckout(w)
  BY <1>1, <1>2, <1>4 DEF PlaneCheckout, Checkout
<1>5. CASE PlaneAdvance(w)
  <2>1. PICK to \in Status : Advance(w, to)
    BY <1>5, RecoveryAssumption DEF PlaneAdvance, Least
  <2>2. CASE guard' = [guard EXCEPT ![w].phase = "erred"]
    BY <1>1, <2>2
  <2>3. CASE /\ guard' = [guard EXCEPT ![w].ok = to] /\ guard[w].phase = "working"
             /\ Journaled(AdvancedEntry(guard[w].id, to))
    BY <1>1, <2>3
  <2> QED BY <2>1, <2>2, <2>3 DEF Advance
<1>6. CASE Send(w)
  BY <1>6 DEF Send, registryVars
<1>7. CASE PlaneClose(w)
  <2>1. guard' = [guard EXCEPT ![w].phase = "closed"]
    BY <1>7 DEF PlaneClose, CloseGuard
  <2> QED BY <1>1, <2>1
<1>8. CASE PlaneDrop(w)
  <2>1. \/ guard' = [guard EXCEPT ![w] = Idle]
        \/ guard' = [guard EXCEPT ![w].phase = "dropping"]
    BY <1>8 DEF PlaneDrop, DropGuard, AbandonDropped
  <2> QED BY <1>1, <1>2, <2>1
<1> QED BY <1>3, <1>4, <1>5, <1>6, <1>7, <1>8 DEF PlaneStep

\* No step but Send puts a transaction out.
LEMMA ExposedBySend ==
  ASSUME TypeOK, [Next]_vars, NEW t \in Ticket, chain[t] = "none", chain'[t] # "none"
  PROVE  \E w \in Worker : Send(w) /\ guard[w].id = t
<1>1. CASE \E w \in Worker : PlaneStep(w)
  <2>1. PICK w \in Worker : PlaneStep(w)
    BY <1>1
  <2>2. Send(w)
    BY <2>1 DEF PlaneStep, PlaneAdmit, PlaneCheckout, PlaneAdvance, PlaneClose, PlaneDrop
  <2>3. guard[w].id = t
    BY <2>2 DEF Send, TypeOK
  <2> QED BY <2>2, <2>3
<1>2. CASE ChainSettles
  BY <1>2 DEF ChainSettles, TypeOK
<1>3. CASE Crash \/ Boot \/ UNCHANGED vars
  BY <1>3 DEF Crash, Boot, BootScan, CloseNeverSigned, Resolve, BootFails, OpenGate, vars
<1> QED BY <1>1, <1>2, <1>3 DEF Next

\* A step that is not a worker's leaves the workers as they are, or forgets them.
LEMMA OthersTellNothing ==
  ASSUME [Next]_vars, ~ \E w \in Worker : PlaneStep(w)
  PROVE  guard' \in {guard, [w \in Worker |-> Idle]}
BY DEF Next, ChainSettles, Crash, NewMemory, Boot, BootScan, CloseNeverSigned, Resolve,
       BootFails, OpenGate, registryVars, vars

\* A worker moves only while the process is up, and leaves it so.
LEMMA PlaneIsUp ==
  ASSUME IdleUnlessUp, NEW w \in Worker, PlaneStep(w)
  PROVE  stage = "up" /\ UNCHANGED <<stage, gate>>
<1>1. gate \/ guard[w].phase # "idle"
  BY DEF PlaneStep, PlaneAdmit, PlaneCheckout, Checkout, PlaneAdvance, Advance, Send, PlaneClose,
         CloseGuard, PlaneDrop, DropGuard, AbandonDropped
<1>2. UNCHANGED <<stage, gate>>
  BY DEF PlaneStep, PlaneAdmit, PlaneCheckout, PlaneAdvance, Send, PlaneClose, PlaneDrop, bootVars
<1> QED BY <1>1, <1>2 DEF IdleUnlessUp

\* Hands are empty while the process is not up.
LEMMA IdleKept ==
  ASSUME IdleUnlessUp, [Next]_vars
  PROVE  IdleUnlessUp'
<1>1. CASE \E w \in Worker : PlaneStep(w)
  BY <1>1, PlaneIsUp DEF IdleUnlessUp
<1>2. ASSUME NewMemory
      PROVE  IdleUnlessUp'
  BY <1>2 DEF NewMemory, IdleUnlessUp, Idle
<1>3. CASE ChainSettles \/ UNCHANGED vars
  BY <1>3 DEF ChainSettles, vars, registryVars, bootVars, IdleUnlessUp
<1>4. CASE Crash
  BY <1>2, <1>4 DEF Crash
<1>5. CASE Boot
  BY <1>2, <1>5 DEF Boot, BootScan, CloseNeverSigned, Resolve, BootFails, OpenGate, registryVars,
                    IdleUnlessUp
<1> QED BY <1>1, <1>3, <1>4, <1>5 DEF Next

\* One worker leaves a ragged end only when it is done with its ticket.
LEMMA EndsKept ==
  ASSUME OneWorker, TypeOK, IdleUnlessUp, EndsWhole, [Next]_vars
  PROVE  EndsWhole'
<1>1. guard \in [Worker -> [id : Ticket, phase : GuardPhase, ok : Status]] /\ JournalTypeOK
  BY TypeParts, RegistryTypeParts DEF TypeOK, RegistryTypeOK
<1>2. ASSUME \A v \in Worker : guard'[v].phase \notin {"admitted", "working"}
      PROVE  EndsWhole'
  BY <1>2 DEF EndsWhole
<1>3. CASE \E w \in Worker : PlaneStep(w)
  <2>1. PICK w \in Worker : PlaneStep(w)
    BY <1>3
  <2>2. \A v \in Worker : v = w
    BY DEF OneWorker
  <2>3. ASSUME NEW e, Journaled(e)
        PROVE  EndsWhole'
    BY <1>1, <2>3, WrittenLines DEF Journaled, EndsWhole
  <2>4. ASSUME guard'[w].phase \notin {"admitted", "working"}
        PROVE  EndsWhole'
    BY <1>2, <2>2, <2>4
  <2>5. CASE PlaneAdmit(w)
    BY <2>3, <2>4, <2>5 DEF PlaneAdmit, Admit
  <2>6. CASE PlaneCheckout(w)
    BY <1>1, <2>2, <2>6 DEF PlaneCheckout, Checkout, EndsWhole, journalVars
  <2>7. CASE PlaneAdvance(w)
    <3>1. PICK to \in Status : Advance(w, to)
      BY <2>7, RecoveryAssumption DEF PlaneAdvance, Least
    <3> QED BY <1>1, <2>3, <2>4, <3>1 DEF Advance
  <2>8. CASE Send(w)
    BY <2>8 DEF Send, registryVars, journalVars, EndsWhole
  <2>9. CASE PlaneClose(w)
    BY <1>1, <2>4, <2>9 DEF PlaneClose, CloseGuard
  <2>10. CASE PlaneDrop(w)
    BY <1>1, <2>4, <2>10 DEF PlaneDrop, DropGuard, AbandonDropped, Idle
  <2> QED BY <2>1, <2>5, <2>6, <2>7, <2>8, <2>9, <2>10 DEF PlaneStep
<1>4. CASE ChainSettles \/ UNCHANGED vars
  BY <1>4 DEF ChainSettles, vars, registryVars, journalVars, EndsWhole
<1>5. CASE Crash
  BY <1>2, <1>5 DEF Crash, NewMemory, Idle
<1>6. CASE Boot
  <2>1. \A v \in Worker : guard[v].phase = "idle"
    BY <1>6 DEF Boot, BootScan, CloseNeverSigned, Resolve, OpenGate, IdleUnlessUp
  <2>2. guard' = guard \/ NewMemory
    BY <1>6 DEF Boot, BootScan, CloseNeverSigned, Resolve, BootFails, OpenGate, registryVars
  <2> QED BY <1>2, <2>1, <2>2 DEF NewMemory, Idle
<1> QED BY <1>3, <1>4, <1>5, <1>6 DEF Next

\* The write-ahead invariant is inductive.
LEMMA WriteAheadStep ==
  ASSUME WriteAheadInv, [Next]_vars
  PROVE  WriteAheadInv'
<1>1. TypeOK /\ TypeOK' /\ DurableKept
  BY StepTypes DEF WriteAheadInv
<1>2. \A w \in Worker : guard[w].id \in Ticket /\ guard[w].ok \in Status
  BY <1>1 DEF TypeOK, RegistryTypeOK
<1>5. IdleUnlessUp'
  BY IdleKept DEF WriteAheadInv
<1>6. ASSUME OneWorker
      PROVE  EndsWhole'
  BY <1>1, <1>6, EndsKept DEF WriteAheadInv
<1>3. ASSUME OneWorker
      PROVE  ToldIsOnRecord'
  <2>1. SUFFICES ASSUME NEW v \in Worker, NEW t \in Ticket, t = guard'[v].id,
                        MayBeOnChain(guard'[v].ok)
                 PROVE  SignedOnRecord(t)'
    <3>1. \A v \in Worker : guard'[v].id \in Ticket
      BY <1>1 DEF TypeOK, RegistryTypeOK
    <3> QED BY <3>1 DEF ToldIsOnRecord, SignedOnRecord, MayBeOnChain
  <2>2. CASE t = guard[v].id /\ guard'[v].ok = guard[v].ok
    <3>1. SignedOnRecord(t)
      BY <1>3, <2>1, <2>2 DEF WriteAheadInv, ToldIsOnRecord
    <3> QED BY <1>1, <3>1, RecordStays
  <2>3. CASE \E to \in Status :
               /\ t = guard[v].id /\ MayBeOnChain(to) /\ guard[v].phase = "working"
               /\ Journaled(AdvancedEntry(t, to))
    <3>1. tail \notin {"bare", "piece"}
      BY <1>3, <2>3 DEF WriteAheadInv, EndsWhole
    <3> QED BY <1>1, <1>2, <2>3, <3>1, AdvanceIsDurable
  <2>4. CASE \E w \in Worker : PlaneStep(w)
    BY <1>1, <2>1, <2>2, <2>3, <2>4, ToldByAdvance
  <2>5. CASE ~ \E w \in Worker : PlaneStep(w)
    <3>1. ~MayBeOnChain(Idle.ok)
      BY DEF MayBeOnChain, Idle, Observed, Signed
    <3>2. guard' = guard
      BY <2>1, <2>5, <3>1, OthersTellNothing
    <3> QED BY <2>1, <2>2, <3>2
  <2> QED BY <2>4, <2>5
<1>4. ASSUME OneWorker
      PROVE  SentIsOnRecord'
  <2>1. SUFFICES ASSUME NEW t \in Ticket, chain'[t] # "none"
                 PROVE  SignedOnRecord(t)'
    BY DEF SentIsOnRecord, SignedOnRecord, MayBeOnChain
  <2>2. SignedOnRecord(t)
    <3>1. CASE chain[t] # "none"
      BY <1>4, <3>1 DEF WriteAheadInv, SentIsOnRecord, SignedOnRecord
    <3>2. CASE chain[t] = "none"
      <4>1. PICK w \in Worker : Send(w) /\ guard[w].id = t
        BY <1>1, <2>1, <3>2, ExposedBySend
      <4>2. MayBeOnChain(guard[w].ok)
        BY <4>1 DEF Send, MayBeOnChain, Dispatching, Signed
      <4> QED BY <1>4, <4>1, <4>2 DEF WriteAheadInv, ToldIsOnRecord
    <3> QED BY <3>1, <3>2
  <2> QED BY <1>1, <2>2, RecordStays
<1> QED BY <1>1, <1>3, <1>4, <1>5, <1>6 DEF WriteAheadInv

\* Under one capture worker a transaction exists only under an fsynced record that
\* its ticket reached Signed, or else over a file every boot refuses: for any number
\* of tickets, failed and half-done appends and crashes, and whatever milestones the
\* plane stops at on the way.
THEOREM WriteAhead ==
  ASSUME OneWorker
  PROVE  Spec => []SentIsOnRecord
<1>1. Init => WriteAheadInv
  <2>1. Init => ToldIsOnRecord
    BY DEF Init, RegistryInit, ToldIsOnRecord, Idle, MayBeOnChain, Observed, Signed
  <2>2. Init => SentIsOnRecord
    BY DEF Init, SentIsOnRecord
  <2>3. Init => IdleUnlessUp /\ EndsWhole
    BY DEF Init, RegistryInit, IdleUnlessUp, EndsWhole, Idle
  <2> QED BY <2>1, <2>2, <2>3, InitTypes DEF WriteAheadInv
<1>2. WriteAheadInv /\ [Next]_vars => WriteAheadInv'
  BY WriteAheadStep
<1>3. WriteAheadInv => SentIsOnRecord
  BY DEF WriteAheadInv
<1> QED BY <1>1, <1>2, <1>3, PTL DEF Spec

-----------------------------------------------------------------------------
(* What the core settles: the counts of the registry, the journal that     *)
(* recovery reads, the verdicts it writes, what is owed when dispatch is   *)
(* open, and that all of it implements the ticket contract.                *)

Serving == stage \in {"closing", "up"}
Holding == {"admitted", "working", "erred"}

\* What the stage of the process says of its memory.
StageInv ==
  /\ gate => stage = "up"
  /\ stage # "closing" => never = {} /\ maybe = {}
  /\ ~Serving => /\ \A t \in Ticket : live[t] = Absent /\ outcomes[t] = "none"
                 /\ metrics = NoMetrics
  /\ stage # "up" => \A w \in Worker : guard[w].phase = "idle"

\* The journal is readable always, and the registry agrees with it once boot has
\* read it.
BookInv == LogShape /\ Accounting /\ (Serving => Books)

\* What boot has still to settle, and why it may close what it does not ask about.
WorklistInv ==
  stage = "closing" =>
    /\ tail = "clean" =>
         /\ \A t \in Ticket : InLog(t, "admitted") /\ ~InLog(t, "closed") => t \in never \cup maybe
         /\ \A t \in never \cup maybe : InLog(t, "admitted")
    /\ OneWorker => \A t \in never : chain[t] = "none"

\* No ticket is in two hands, and none in whose hands there is a decision to make
\* has an outcome.
HolderInv ==
  /\ \A v, w \in Worker : v # w /\ guard[v].phase # "idle" /\ guard[w].phase # "idle"
                            => guard[v].id # guard[w].id
  /\ \A w \in Worker : guard[w].phase \in Holding => ~InLog(guard[w].id, "closed")

CoreRest ==
  /\ StageInv /\ BookInv /\ WorklistInv /\ HolderInv
  /\ OneWorker => BootVerdictsAreTrue
CoreInv == WriteAheadInv /\ CoreRest

-----------------------------------------------------------------------------
(* What boot reads.                                                        *)

\* Recovery's reading of the journal in the words of the registry's lemmas.
LEMMA ReadsInLog ==
  ASSUME NEW t
  PROVE  /\ AdmittedIn(t) <=> InLog(t, "admitted")
         /\ ClosedIn(t) <=> InLog(t, "closed")
BY DEF AdmittedIn, ClosedIn, LogIndexes, InLog

\* A journal of the right shape is one recovery reads.
LEMMA ShapeIsReadable == LogShape => ~Unreadable
BY DEF LogShape, Unreadable

\* The status the scan takes is at or past every status the journal assigned.
LEMMA ScanIsLast ==
  ASSUME JournalTypeOK, LogShape, NEW t \in Ticket
  PROVE  \A i \in 1..Len(log) :
           log[i].kind = "advanced" /\ log[i].id = t => log[i].to <= ScanStatus(t)
<1> DEFINE moves == LogIndexes(t, "advanced")
<1>1. SUFFICES ASSUME NEW i \in 1..Len(log), log[i].kind = "advanced", log[i].id = t
               PROVE  log[i].to <= ScanStatus(t)
  OBVIOUS
<1>2. i \in moves /\ moves \in SUBSET Nat /\ Len(log) \in Nat /\ \A j \in moves : j <= Len(log)
  BY <1>1 DEF LogIndexes, JournalTypeOK
<1>3. \E m \in moves : \A j \in moves : j <= m
  <2> HIDE DEF moves
  <2> QED BY <1>2, MaxExists
<1> DEFINE last == CHOOSE m \in moves : \A j \in moves : j <= m
<1>4. last \in moves /\ i <= last
  BY <1>2, <1>3
<1>5. ScanStatus(t) = log[last].to
  BY <1>2 DEF ScanStatus
<1>6. last \in 1..Len(log) /\ log[last].kind = "advanced" /\ log[last].id = t
  BY <1>4 DEF LogIndexes
<1> HIDE DEF last, moves
<1>7. CASE i = last
  <2>1. log[i] \in Entry
    BY <1>1 DEF JournalTypeOK
  <2>2. log[i].to \in Int
    BY <1>1, <2>1, EntryFields DEF Status
  <2> QED BY <1>5, <1>7, <2>2
<1>8. CASE i # last
  <2>1. i < last
    BY <1>4, <1>6, <1>8
  <2> QED BY <1>1, <1>5, <1>6, <2>1 DEF LogShape
<1> QED BY <1>7, <1>8

\* What boot did with a journal it could read.
Scanned ==
  /\ stage = "down" /\ stage' = "closing" /\ tail # "behind"
  /\ nextId' = HighestId + 1
  /\ live' = [t \in Ticket |-> IF t \in InFlight THEN ScanStatus(t) ELSE Absent]
  /\ metrics' = [NoMetrics EXCEPT !.admitted = Cardinality(InFlight),
                                  !.live = Cardinality(InFlight)]
  /\ never' = {t \in InFlight : ~MayBeOnChain(ScanStatus(t))}
  /\ maybe' = {t \in InFlight : MayBeOnChain(ScanStatus(t))}
  /\ UNCHANGED <<checkedOut, outcomes, guard, gate, journalVars, chain, crashes>>

\* What it does with one it cannot.
Refused ==
  /\ stage = "down" /\ stage' = "refused"
  /\ UNCHANGED <<registryVars, journalVars, gate, never, maybe, chain, crashes>>

\* Boot's verdict on a ticket, as far as it rests on the chain.
Verdict(t, o) ==
  \/ o = "never_signed" /\ t \in never
  \/ o = "not_landed" /\ chain[t] \in {"none", "dropped"}
  \/ o = "landed" /\ chain[t] = "landed"

BootClosing(t, o) ==
  /\ stage = "closing" /\ stage' = "closing"
  /\ t \in never \cup maybe /\ o \in Outcome /\ Verdict(t, o)
  /\ CloseOk(t, o)
  /\ never' \subseteq never /\ maybe' \subseteq maybe
  /\ \A u \in never \cup maybe : u = t \/ u \in never' \cup maybe'
  /\ UNCHANGED <<checkedOut, nextId, guard, gate, chain, crashes>>

\* The process dies: of a crash, or of an error out of boot.
Dying ==
  /\ NewMemory
  /\ chain' = chain
  /\ \/ \E kept \in 0..Len(log) : log' = SubSeq(log, 1, kept)
     \/ \E t \in never \cup maybe, o \in Outcome :
          stage = "closing" /\ Verdict(t, o) /\ JournalFails(ClosedEntry(t, o))

\* The five things a step of boot can come to.
LEMMA BootCases ==
  ASSUME TypeOK, StageInv, Boot
  PROVE  \/ Refused
         \/ Scanned
         \/ \E t \in Ticket, o \in Outcome : BootClosing(t, o)
         \/ Dying
         \/ OpenGate
<1>1. never \subseteq Ticket /\ maybe \subseteq Ticket
      /\ chain \in [Ticket -> {"none", "pending", "landed", "dropped"}] /\ log \in Seq(Entry)
  BY DEF TypeOK, RegistryTypeOK
<1>2. log = SubSeq(log, 1, Len(log)) /\ Len(log) \in 0..Len(log)
  BY <1>1
<1>3. CASE BootScan
  BY <1>3 DEF BootScan, Scanned, Refused
<1>4. {"never_signed", "not_landed", "landed"} \subseteq Outcome
  BY DEF Outcome, Successes, Failures
<1>5. CASE CloseNeverSigned
  <2>1. PICK t \in Least(never) :
          /\ stage = "closing"
          /\ \/ /\ CloseOk(t, "never_signed")
                /\ never' = never \ {t}
                /\ UNCHANGED <<checkedOut, nextId, guard, gate, stage, maybe, chain, crashes>>
             \/ JournalFails(ClosedEntry(t, "never_signed")) /\ BootFails
    BY <1>5 DEF CloseNeverSigned
  <2>2. t \in never /\ t \in Ticket
    BY <1>1, <2>1 DEF Least
  <2>3. Verdict(t, "never_signed")
    BY <2>2 DEF Verdict
  <2>4. CASE JournalFails(ClosedEntry(t, "never_signed")) /\ BootFails
    <3>1. Dying
      BY <1>4, <2>1, <2>2, <2>3, <2>4 DEF Dying, BootFails
    <3> QED BY <3>1
  <2>5. CASE /\ CloseOk(t, "never_signed")
             /\ never' = never \ {t}
             /\ UNCHANGED <<checkedOut, nextId, guard, gate, stage, maybe, chain, crashes>>
    <3>1. BootClosing(t, "never_signed")
      BY <1>4, <2>1, <2>2, <2>3, <2>5 DEF BootClosing
    <3> QED BY <1>4, <2>2, <3>1
  <2> QED BY <2>1, <2>4, <2>5
<1>6. CASE Resolve
  <2>1. PICK t \in Least(maybe) :
          /\ stage = "closing"
          /\ \/ /\ chain[t] # "pending"
                /\ CloseOk(t, ChainAnswer(t))
                /\ maybe' = maybe \ {t}
                /\ UNCHANGED <<checkedOut, nextId, guard, gate, stage, never, chain, crashes>>
             \/ chain[t] # "pending" /\ JournalFails(ClosedEntry(t, ChainAnswer(t))) /\ BootFails
             \/ BootFails /\ UNCHANGED log
    BY <1>6 DEF Resolve, journalVars
  <2>2. t \in maybe /\ t \in Ticket
    BY <1>1, <2>1 DEF Least
  <2>3. /\ ChainAnswer(t) \in Outcome
        /\ chain[t] # "pending" => Verdict(t, ChainAnswer(t))
    BY <1>1, <1>4, <2>2 DEF ChainAnswer, Verdict
  <2>4. CASE /\ chain[t] # "pending"
             /\ CloseOk(t, ChainAnswer(t))
             /\ maybe' = maybe \ {t}
             /\ UNCHANGED <<checkedOut, nextId, guard, gate, stage, never, chain, crashes>>
    <3>1. BootClosing(t, ChainAnswer(t))
      BY <2>1, <2>2, <2>3, <2>4 DEF BootClosing
    <3> QED BY <2>2, <2>3, <3>1
  <2>5. CASE chain[t] # "pending" /\ JournalFails(ClosedEntry(t, ChainAnswer(t))) /\ BootFails
    <3>1. Dying
      BY <2>1, <2>2, <2>3, <2>5 DEF Dying, BootFails
    <3> QED BY <3>1
  <2>6. CASE BootFails /\ UNCHANGED log
    <3>1. Dying
      BY <1>2, <2>6 DEF Dying, BootFails
    <3> QED BY <3>1
  <2> QED BY <2>1, <2>4, <2>5, <2>6
<1>7. CASE OpenGate
  BY <1>7
<1> QED BY <1>3, <1>5, <1>6, <1>7 DEF Boot

\* A crash is a death.
LEMMA CrashDies ==
  ASSUME TypeOK, Crash
  PROVE  Dying
<1>1. JournalTypeOK
  BY TypeParts, RegistryTypeParts
<1>2. \E kept \in 0..Len(log) : log' = SubSeq(log, 1, kept)
  <2>1. PICK kept \in Nat : CutTo(kept)
    BY <1>1, CrashCuts
  <2>2. kept \in 0..Len(log) /\ log' = SubSeq(log, 1, kept)
    BY <1>1, <2>1 DEF CutTo, JournalTypeOK
  <2> QED BY <2>2
<1> QED BY <1>2 DEF Crash, Dying

-----------------------------------------------------------------------------
(* What a death leaves.                                                    *)

\* A verdict of recovery against what became of the transaction.
TrueOf(o, c) ==
  /\ o = "never_signed" => c = "none"
  /\ o = "not_landed" => c \in {"none", "dropped"}
  /\ o = "landed" => c = "landed"

\* The verdicts stay true over an append if the chain keeps what they said and the
\* new one is true.
LEMMA VerdictsKept ==
  ASSUME JournalTypeOK, BootVerdictsAreTrue, NEW e \in Entry, Lines(e),
         \A i \in 1..Len(log) : log[i].kind = "closed" =>
           chain'[log[i].id] = chain[log[i].id] \/ chain[log[i].id] = "pending",
         e.kind = "closed" => TrueOf(e.outcome, chain'[e.id])
  PROVE  BootVerdictsAreTrue'
<1>1. \A i \in 1..Len(log) : log[i].kind = "closed" => TrueOf(log[i].outcome, chain[log[i].id])
  BY DEF BootVerdictsAreTrue, TrueOf
<1>2. \A i \in 1..Len(log) : log[i].kind = "closed" => TrueOf(log[i].outcome, chain'[log[i].id])
  BY <1>1 DEF TrueOf
<1>3. \A i \in 1..Len(log') :
        log'[i].kind = "closed" => TrueOf(log'[i].outcome, chain'[log'[i].id])
  BY <1>2, LineSays
<1> QED BY <1>3 DEF BootVerdictsAreTrue, TrueOf

\* What an entry that closes a ticket says.
LEMMA ClosedSays ==
  ASSUME NEW t \in Ticket, NEW o \in Outcome
  PROVE  /\ ClosedEntry(t, o) \in Entry /\ ClosedEntry(t, o).kind = "closed"
         /\ ClosedEntry(t, o).id = t /\ ClosedEntry(t, o).outcome = o
BY EntryTypes DEF ClosedEntry

\* A verdict boot gives is true.
LEMMA VerdictIsTrue ==
  ASSUME OneWorker, WorklistInv, stage = "closing", NEW t, NEW o, Verdict(t, o)
  PROVE  TrueOf(o, chain[t])
<1>1. \A u \in never : chain[u] = "none"
  BY DEF WorklistInv
<1> QED BY <1>1 DEF Verdict, TrueOf

\* A death leaves a readable journal and a new memory.
LEMMA DyingShape ==
  ASSUME TypeOK, LogShape, Dying,
         stage = "closing" /\ tail = "clean" => \A t \in never \cup maybe : InLog(t, "admitted")
  PROVE  LogShape' /\ Accounting' /\ StageInv' /\ ~Serving'
<1>1. JournalTypeOK /\ never \subseteq Ticket /\ maybe \subseteq Ticket
  BY TypeParts, RegistryTypeParts DEF BootTypeOK
<1>2. LogShape'
  <2>1. CASE \E kept \in 0..Len(log) : log' = SubSeq(log, 1, kept)
    BY <1>1, <2>1, PrefixShape
  <2>2. ASSUME NEW t \in never \cup maybe, NEW o \in Outcome,
               stage = "closing", JournalFails(ClosedEntry(t, o))
        PROVE  LogShape'
    BY <1>1, <2>2, FailedCloseShape
  <2> QED BY <2>1, <2>2 DEF Dying
<1>3. StageInv' /\ ~Serving'
  BY DEF Dying, NewMemory, StageInv, Serving, Idle
<1>4. Accounting'
  <2>1. Live' = {} /\ metrics' = NoMetrics
    BY DEF Dying, NewMemory, Live
  <2>2. Cardinality(Live') = 0
    BY <2>1, FS_EmptySet
  <2> QED BY <2>1, <2>2 DEF Accounting, TicketDropCount, NoMetrics
<1> QED BY <1>2, <1>3, <1>4

\* A death keeps the verdicts true, and the rest is new.
LEMMA DyingKeeps ==
  ASSUME CoreInv, TypeOK', Dying
  PROVE  CoreRest'
<1>1. JournalTypeOK /\ TypeOK /\ LogShape /\ WorklistInv
  BY TypeParts, RegistryTypeParts DEF CoreInv, WriteAheadInv, CoreRest, BookInv
<1>2. never \subseteq Ticket /\ maybe \subseteq Ticket
  BY <1>1 DEF TypeOK
<1>3. LogShape' /\ Accounting' /\ StageInv' /\ ~Serving'
  BY <1>1, DyingShape DEF WorklistInv
<1>4. ASSUME OneWorker
      PROVE  BootVerdictsAreTrue'
  <2>3. BootVerdictsAreTrue
    BY <1>4 DEF CoreInv, CoreRest
  <2>1. CASE \E kept \in 0..Len(log) : log' = SubSeq(log, 1, kept)
    BY <1>1, <2>1, <2>3, PrefixShape DEF BootVerdictsAreTrue, Dying
  <2>2. CASE \E t \in never \cup maybe, o \in Outcome :
               stage = "closing" /\ Verdict(t, o) /\ JournalFails(ClosedEntry(t, o))
    <3>1. PICK t \in never \cup maybe, o \in Outcome :
            stage = "closing" /\ Verdict(t, o) /\ JournalFails(ClosedEntry(t, o))
      BY <2>2
    <3>2. t \in Ticket /\ Lines(ClosedEntry(t, o))
      BY <1>1, <1>2, <3>1, AppendLines
    <3>3. chain' = chain /\ TrueOf(o, chain[t])
      BY <1>1, <1>4, <3>1, VerdictIsTrue DEF Dying
    <3> QED BY <1>1, <2>3, <3>2, <3>3, ClosedSays, VerdictsKept
  <2> QED BY <2>1, <2>2 DEF Dying
<1>5. WorklistInv' /\ HolderInv'
  BY DEF Dying, NewMemory, WorklistInv, HolderInv, Holding, Idle
<1> QED BY <1>3, <1>4, <1>5 DEF CoreRest, BookInv

-----------------------------------------------------------------------------
(* What boot does.                                                         *)

\* The scan fills the registry as the journal has it.
LEMMA ScannedBooks ==
  ASSUME TypeOK, LogShape, StageInv, Scanned
  PROVE  Books' /\ StageInv'
<1>1. JournalTypeOK
  BY TypeParts, RegistryTypeParts
<1>2. \A t \in Ticket : t \in InFlight <=> InLog(t, "admitted") /\ ~InLog(t, "closed")
  BY ReadsInLog DEF InFlight
<1>3. InFlight \subseteq Ticket /\ \A t \in Ticket : ScanStatus(t) \in Status
  BY <1>1, ScanStatusType DEF InFlight
<1>4. \A t \in Ticket : live'[t] # Absent <=> t \in InFlight
  BY <1>3 DEF Scanned, Status, Absent
<1>5. UNCHANGED <<log, guard, outcomes, chain, gate>> /\ stage = "down" /\ stage' = "closing"
  BY DEF Scanned, journalVars
<1>6. (\A t \in Ticket : outcomes[t] = "none") /\ (\A w \in Worker : guard[w].phase = "idle") /\ ~gate
  BY <1>1, <1>5 DEF StageInv, Serving
<1>7. LogShape'
  BY <1>5 DEF LogShape
<1>8. \A t, k : InLog(t, k)' <=> InLog(t, k)
  BY <1>5 DEF InLog
<1>9. Accounting'
  <2>1. Live' = InFlight
    BY <1>3, <1>4 DEF Live
  <2>2. IsFiniteSet(InFlight) /\ Cardinality(InFlight) \in Nat
    BY <1>3, TicketsFinite
  <2> DEFINE n == Cardinality(InFlight)
  <2>3. metrics' = [NoMetrics EXCEPT !.admitted = n, !.live = n] /\ n \in Nat /\ Cardinality(Live') = n
    BY <2>1, <2>2 DEF Scanned
  <2> HIDE DEF n
  <2> QED BY <2>3 DEF Accounting, TicketDropCount, NoMetrics
<1>10. Fresh'
  <2>1. HighestId \in Nat /\ \A i \in 1..Len(log) : log[i].id <= HighestId /\ log[i].id \in Ticket
    BY <1>1, HighestIdBounds, EntryFields DEF JournalTypeOK
  <2>2. nextId' = HighestId + 1
    BY DEF Scanned
  <2>3. \A i \in 1..Len(log) : log[i].id < nextId'
    BY <2>1, <2>2 DEF Ticket
  <2>4. \A t \in Ticket : live'[t] # Absent => t < nextId'
    BY <1>2, <1>4, <2>3 DEF InLog
  <2> QED BY <1>5, <1>6, <2>3, <2>4 DEF Fresh
<1>11. LiveOnRecord'
  <2>1. SUFFICES ASSUME NEW t \in Ticket, live'[t] # Absent
                 PROVE  /\ InLog(t, "admitted")'
                        /\ \A i \in 1..Len(log') :
                             log'[i].kind = "advanced" /\ log'[i].id = t => log'[i].to <= live'[t]
    BY DEF LiveOnRecord, InLog
  <2>2. t \in InFlight /\ live'[t] = ScanStatus(t)
    BY <1>4, <2>1 DEF Scanned
  <2>3. InLog(t, "admitted")'
    BY <1>2, <1>8, <2>2
  <2>4. \A i \in 1..Len(log) :
          log[i].kind = "advanced" /\ log[i].id = t => log[i].to <= live'[t]
    BY <1>1, <2>2, ScanIsLast
  <2> QED BY <1>5, <2>3, <2>4
<1>12. OnRecordLive'
  BY <1>2, <1>4, <1>8 DEF OnRecordLive
<1>13. StageInv'
  BY <1>5, <1>6 DEF StageInv, Serving
<1>14. LiveUndecided'
  BY <1>5, <1>6 DEF LiveUndecided
<1> QED BY <1>7, <1>9, <1>10, <1>11, <1>12, <1>13, <1>14 DEF Books

\* What the scan lists for boot to settle is what the journal has open, and what it
\* does not mean to ask about was never sent.
LEMMA ScannedKeeps ==
  ASSUME CoreInv, TypeOK', Scanned
  PROVE  CoreRest'
<1>1. JournalTypeOK /\ TypeOK /\ CoreRest /\ LogShape /\ StageInv
  BY TypeParts, RegistryTypeParts DEF CoreInv, WriteAheadInv, CoreRest, BookInv
<1>2. \A t \in Ticket : t \in InFlight <=> InLog(t, "admitted") /\ ~InLog(t, "closed")
  BY ReadsInLog DEF InFlight
<1>3. InFlight \subseteq Ticket /\ \A t \in Ticket : ScanStatus(t) \in Status
  BY <1>1, ScanStatusType DEF InFlight
<1>5. UNCHANGED <<log, guard, chain>> /\ stage = "down" /\ tail # "behind"
  BY DEF Scanned, journalVars
<1>6. \A w \in Worker : guard[w].phase = "idle"
  BY <1>1, <1>5 DEF StageInv
<1>7. OneWorker => BootVerdictsAreTrue'
  BY <1>1, <1>5 DEF BootVerdictsAreTrue, CoreRest
<1>8. \A t, k : InLog(t, k)' <=> InLog(t, k)
  BY <1>5 DEF InLog
<1>13. never' \cup maybe' = InFlight /\ never' = {t \in InFlight : ~MayBeOnChain(ScanStatus(t))}
  BY DEF Scanned
<1>14. WorklistInv'
  <2>1. ASSUME OneWorker
        PROVE  \A t \in never' : chain'[t] = "none"
    <3>1. SUFFICES ASSUME NEW t \in InFlight, ~MayBeOnChain(ScanStatus(t)), chain[t] # "none"
                   PROVE  FALSE
      BY <1>5, <1>13
    <3>2. t \in Ticket
      BY <1>3
    <3>3. PICK i \in 1..synced :
            log[i].kind = "advanced" /\ log[i].id = t /\ MayBeOnChain(log[i].to)
      <4>1. firm # "behind"
        BY <1>1, <1>5 DEF JournalTypeOK
      <4> QED BY <2>1, <3>1, <3>2, <4>1 DEF CoreInv, WriteAheadInv, SentIsOnRecord
    <3>4. i \in 1..Len(log)
      BY <1>1, <3>3 DEF JournalTypeOK
    <3>5. log[i].to <= ScanStatus(t) /\ log[i].to \in Int /\ ScanStatus(t) \in Int
      <4>1. log[i].to <= ScanStatus(t)
        BY <1>1, <3>2, <3>3, <3>4, ScanIsLast
      <4>2. log[i].to \in Int
        BY <1>1, <3>3, <3>4, EntryFields DEF JournalTypeOK, Status
      <4>3. ScanStatus(t) \in Int
        BY <1>3, <3>2 DEF Status
      <4> QED BY <4>1, <4>2, <4>3
    <3> QED BY <3>1, <3>3, <3>5 DEF MayBeOnChain, Signed
  <2>2. \A t \in Ticket : InLog(t, "admitted")' /\ ~InLog(t, "closed")' => t \in never' \cup maybe'
    BY <1>2, <1>8, <1>13
  <2>3. \A t \in never' \cup maybe' : InLog(t, "admitted")'
    BY <1>2, <1>3, <1>8, <1>13
  <2> QED BY <2>1, <2>2, <2>3 DEF WorklistInv, InLog
<1>15. HolderInv'
  BY <1>5, <1>6 DEF HolderInv, Holding
<1>16. Books' /\ StageInv'
  BY <1>1, ScannedBooks
<1> QED BY <1>7, <1>14, <1>15, <1>16 DEF CoreRest, BookInv, Books

\* A close by boot.
LEMMA BootClosingKeeps ==
  ASSUME CoreInv, TypeOK', NEW t \in Ticket, NEW o \in Outcome, BootClosing(t, o)
  PROVE  CoreRest'
<1>1. JournalTypeOK /\ TypeOK /\ RegistryTypeOK /\ CoreRest /\ StageInv
  BY TypeParts, RegistryTypeParts DEF CoreInv, WriteAheadInv, CoreRest
<1>2. /\ stage = "closing" /\ stage' = "closing" /\ Verdict(t, o)
      /\ UNCHANGED <<guard, nextId, gate, chain>> /\ CloseOk(t, o)
  BY DEF BootClosing
<1>3. /\ Lines(ClosedEntry(t, o))
      /\ tail' = "clean" => tail = "clean" /\ log' = Append(log, ClosedEntry(t, o))
  BY <1>1, <1>2, AppendLines DEF CloseOk, Lines
<1>4. Books'
  <2>1. Books /\ GuardsKeepIds /\ CloseLocked(t, o)
    BY <1>1, <1>2 DEF CoreRest, BookInv, Serving, GuardsKeepIds, CloseLocked
  <2> QED BY <1>1, <1>2, <2>1, CloseBooks
<1>5. \A w \in Worker : guard'[w].phase = "idle"
  BY <1>1, <1>2 DEF StageInv
<1>6. StageInv' /\ HolderInv'
  BY <1>1, <1>2, <1>5 DEF StageInv, Serving, HolderInv, Holding
<1>7. WorklistInv'
  <2> DEFINE e == ClosedEntry(t, o)
  <2>1. /\ e \in Entry /\ e.kind = "closed" /\ e.id = t
        /\ tail' = "clean" => tail = "clean" /\ log' = Append(log, e)
    BY <1>3, ClosedSays
  <2> HIDE DEF e
  <2>2. ASSUME NEW u \in Ticket, tail' = "clean"
        PROVE  /\ InLog(u, "admitted")' <=> InLog(u, "admitted")
               /\ InLog(u, "closed") => InLog(u, "closed")'
               /\ u = t => InLog(u, "closed")'
    BY <1>1, <2>1, <2>2, InLogGrows
  <2>3. /\ never' \subseteq never /\ maybe' \subseteq maybe /\ never \cup maybe \subseteq Ticket
        /\ \A u \in never \cup maybe : u = t \/ u \in never' \cup maybe'
    BY <1>1 DEF BootClosing, TypeOK
  <2>4. /\ tail' = "clean" =>
             /\ \A u \in Ticket : InLog(u, "admitted") /\ ~InLog(u, "closed") => u \in never \cup maybe
             /\ \A u \in never \cup maybe : InLog(u, "admitted")
        /\ OneWorker => \A u \in never : chain[u] = "none"
    BY <1>1, <1>2, <2>1 DEF CoreRest, WorklistInv
  <2>5. ASSUME tail' = "clean", NEW u \in Ticket, InLog(u, "admitted")', ~InLog(u, "closed")'
        PROVE  u \in never' \cup maybe'
    BY <2>2, <2>3, <2>4, <2>5
  <2>6. ASSUME tail' = "clean", NEW u \in never' \cup maybe'
        PROVE  InLog(u, "admitted")'
    BY <2>2, <2>3, <2>4, <2>6
  <2>7. OneWorker => \A u \in never' : chain'[u] = "none"
    BY <1>2, <2>3, <2>4
  <2> QED BY <2>5, <2>6, <2>7 DEF WorklistInv, InLog
<1>8. ASSUME OneWorker
      PROVE  BootVerdictsAreTrue'
  <2>1. TrueOf(o, chain[t])
    BY <1>1, <1>2, <1>8, VerdictIsTrue DEF CoreRest
  <2> QED BY <1>1, <1>2, <1>3, <1>8, <2>1, ClosedSays, VerdictsKept DEF CoreRest
<1> QED BY <1>4, <1>6, <1>7, <1>8 DEF CoreRest, BookInv, Books

\* Boot cannot read the file.
LEMMA RefusedKeeps ==
  ASSUME CoreInv, Refused
  PROVE  CoreRest'
<1>1. CoreRest /\ ~Serving /\ ~Serving'
  BY DEF CoreInv, Refused, Serving
<1>2. /\ stage = "down" /\ stage' = "refused"
      /\ UNCHANGED <<live, outcomes, metrics, guard, log, tail, gate, never, maybe, chain>>
  BY DEF Refused, registryVars, journalVars
<1>3. StageInv' /\ WorklistInv'
  BY <1>1, <1>2 DEF CoreRest, StageInv, WorklistInv
<1>4. Live' = Live
  BY <1>2 DEF Live
<1>5. BookInv'
  BY <1>1, <1>2, <1>4 DEF CoreRest, BookInv, LogShape, Accounting, TicketDropCount
<1>6. HolderInv' /\ (OneWorker => BootVerdictsAreTrue')
  BY <1>1, <1>2 DEF CoreRest, HolderInv, InLog, BootVerdictsAreTrue
<1> QED BY <1>3, <1>5, <1>6 DEF CoreRest

\* The gate opens.
LEMMA OpenGateKeeps ==
  ASSUME CoreInv, OpenGate
  PROVE  CoreRest'
<1>1. CoreRest
  BY DEF CoreInv
<1>2. /\ stage = "closing" /\ stage' = "up" /\ never' = {} /\ maybe' = {} /\ gate'
      /\ UNCHANGED <<live, checkedOut, outcomes, nextId, metrics, guard, log, tail, chain>>
  BY DEF OpenGate, registryVars, journalVars
<1>3. StageInv' /\ WorklistInv'
  BY <1>2 DEF StageInv, Serving, WorklistInv
<1>4. Books
  BY <1>1, <1>2 DEF CoreRest, BookInv, Serving
<1>5. GuardsKeepIds
  BY <1>2 DEF GuardsKeepIds
<1>6. Books'
  BY <1>2, <1>4, <1>5, GuardBooks
<1>7. HolderInv' /\ (OneWorker => BootVerdictsAreTrue')
  BY <1>1, <1>2 DEF CoreRest, HolderInv, InLog, BootVerdictsAreTrue
<1> QED BY <1>3, <1>6, <1>7 DEF CoreRest, BookInv, Books

-----------------------------------------------------------------------------
(* What the plane does.                                                    *)

\* A step of a worker, seen from the registry.
LEMMA PlaneCases ==
  ASSUME TypeOK, StageInv, NEW w \in Worker, PlaneStep(w)
  PROVE  /\ stage = "up" /\ UNCHANGED bootVars
         /\ \/ Admit(w) /\ chain' = chain
            \/ Checkout(w) /\ chain' = chain
            \/ \E to \in Status : Advance(w, to) /\ chain' = chain
            \/ Send(w)
            \/ \E o \in {"success", "shadow", "failure"} : CloseGuard(w, o) /\ chain' = chain
            \/ DropGuard(w) /\ chain' = chain
            \/ AbandonDropped(w) /\ chain' = chain
<1>1. CASE PlaneAdmit(w)
  BY <1>1 DEF PlaneAdmit, StageInv
<1>2. CASE PlaneCheckout(w)
  BY <1>2 DEF PlaneCheckout, Checkout, StageInv
<1>3. CASE PlaneAdvance(w)
  <2>1. PICK to \in Status : Advance(w, to)
    BY <1>3, RecoveryAssumption DEF PlaneAdvance, Least
  <2>2. stage = "up" /\ UNCHANGED <<bootVars, chain>>
    BY <1>3, <2>1 DEF PlaneAdvance, Advance, StageInv
  <2> QED BY <2>1, <2>2
<1>4. CASE Send(w)
  BY <1>4 DEF Send, StageInv
<1>5. CASE PlaneClose(w)
  <2>1. PICK o \in {"success", "shadow", "failure"} : CloseGuard(w, o)
    BY <1>5 DEF PlaneClose
  <2>2. stage = "up" /\ UNCHANGED <<bootVars, chain>>
    BY <1>5, <2>1 DEF PlaneClose, CloseGuard, StageInv
  <2> QED BY <2>1, <2>2
<1>6. CASE PlaneDrop(w)
  BY <1>6 DEF PlaneDrop, DropGuard, AbandonDropped, StageInv
<1> QED BY <1>1, <1>2, <1>3, <1>4, <1>5, <1>6 DEF PlaneStep

\* Nothing is new in anybody's hands, and no ticket somebody has still to decide
\* gets an outcome: the two ways a step keeps HolderInv.
LEMMA HoldersKept ==
  ASSUME HolderInv, GuardsKeepIds,
         \A v \in Worker : guard'[v].phase \in Holding => guard[v].phase \in Holding,
         \A v \in Worker : guard'[v].phase \in Holding /\ InLog(guard[v].id, "closed")'
                             => InLog(guard[v].id, "closed")
  PROVE  HolderInv'
<1>1. \A v, u \in Worker : v # u /\ guard'[v].phase # "idle" /\ guard'[u].phase # "idle"
                             => guard'[v].id # guard'[u].id
  BY DEF HolderInv, GuardsKeepIds
<1>2. ASSUME NEW v \in Worker, guard'[v].phase \in Holding
      PROVE  ~InLog(guard[v].id, "closed")'
  <2>1. guard[v].phase \in Holding
    BY <1>2
  <2> QED BY <1>2, <2>1 DEF HolderInv
<1> QED BY <1>1, <1>2 DEF HolderInv, InLog

\* A close by a worker takes the ticket out of hands that had still to decide.
LEMMA CloseHolders ==
  ASSUME RegistryTypeOK, HolderInv, chain' = chain,
         NEW w \in Worker, guard[w].phase # "idle",
         NEW o \in {"success", "shadow", "failure", "abandoned"},
         CloseLocked(guard[w].id, o), GuardsKeepIds,
         guard'[w].phase \notin Holding,
         \A v \in Worker \ {w} : guard'[v] = guard[v]
  PROVE  HolderInv' /\ (BootVerdictsAreTrue => BootVerdictsAreTrue')
<1> DEFINE t == guard[w].id
           e == ClosedEntry(t, o)
<1>1. JournalTypeOK /\ t \in Ticket /\ o \in Outcome
  BY RegistryTypeParts DEF RegistryTypeOK, Outcome, Successes, Failures
<1>2. /\ e \in Entry /\ e.kind = "closed" /\ e.id = t /\ e.outcome = o
      /\ Lines(e)
  <2>1. Journaled(e) \/ JournalFails(e) => Lines(e)
    BY <1>1, AppendLines
  <2>2. UNCHANGED journalVars => Lines(e)
    BY <1>1, SameLines
  <2>3. Journaled(e) \/ JournalFails(e) \/ UNCHANGED journalVars
    BY DEF CloseLocked, CloseOk, CloseFails, CloseRefused
  <2> QED BY <1>1, <2>1, <2>2, <2>3, ClosedSays
<1>3. TrueOf(e.outcome, chain'[e.id])
  BY <1>2 DEF TrueOf
<1> HIDE DEF e
<1>4. BootVerdictsAreTrue => BootVerdictsAreTrue'
  BY <1>1, <1>2, <1>3, VerdictsKept
<1>5. ASSUME NEW v \in Worker, guard'[v].phase \in Holding, InLog(guard[v].id, "closed")'
      PROVE  InLog(guard[v].id, "closed")
  <2>1. v # w /\ guard'[v] = guard[v] /\ guard[v].phase # "idle"
    BY <1>5 DEF Holding
  <2>2. guard[v].id # t
    BY <2>1 DEF HolderInv
  <2> QED BY <1>1, <1>2, <1>5, <2>2, InLogSays
<1>6. \A v \in Worker : guard'[v].phase \in Holding => guard[v].phase \in Holding
  OBVIOUS
<1>7. HolderInv'
  BY <1>5, <1>6, HoldersKept
<1> QED BY <1>4, <1>7

\* A step of a worker keeps the core's invariant.
LEMMA PlaneKeeps ==
  ASSUME CoreInv, TypeOK', NEW w \in Worker, PlaneStep(w)
  PROVE  CoreRest'
<1>1. /\ TypeOK /\ RegistryTypeOK /\ JournalTypeOK /\ StageInv /\ LogShape /\ Accounting
      /\ HolderInv /\ (OneWorker => BootVerdictsAreTrue)
  BY TypeParts, RegistryTypeParts DEF CoreInv, WriteAheadInv, CoreRest, BookInv
<1>2. stage = "up" /\ UNCHANGED bootVars
  BY <1>1, PlaneCases
<1>3. Books
  BY <1>1, <1>2 DEF CoreInv, CoreRest, BookInv, Serving
<1>4. guard \in [Worker -> [id : Ticket, phase : GuardPhase, ok : Status]]
  BY <1>1 DEF RegistryTypeOK
<1>5. StageInv' /\ WorklistInv'
  BY <1>1, <1>2 DEF StageInv, bootVars, Serving, WorklistInv
<1>6. SUFFICES Books' /\ HolderInv' /\ (OneWorker => BootVerdictsAreTrue')
  BY <1>5 DEF CoreRest, BookInv, Books
<1>7. CASE Admit(w) /\ chain' = chain
  <2>1. Books'
    BY <1>1, <1>3, <1>7, AdmitBooks
  <2> DEFINE e == AdmittedEntry(nextId)
  <2>2. nextId \in Ticket /\ e \in Entry /\ e.kind = "admitted" /\ Lines(e)
    <3>1. nextId \in Ticket
      BY <1>1, <1>7, RegistryAssumption DEF Admit, RegistryTypeOK, Ticket
    <3>2. Lines(e)
      BY <1>1, <1>7, AppendLines DEF Admit
    <3> QED BY <3>1, <3>2, EntryTypes DEF AdmittedEntry
  <2> HIDE DEF e
  <2>3. OneWorker => BootVerdictsAreTrue'
    BY <1>1, <1>7, <2>2, VerdictsKept
  <2>4. \A i \in 1..Len(log) : log[i].id # nextId
    BY <1>1, <1>3, <2>2, EntryFields DEF Books, Fresh, JournalTypeOK, Ticket
  <2>5. \A v \in Worker : guard[v].phase # "idle" => guard[v].id # nextId
    BY <1>3, <1>4, <2>2 DEF Books, Fresh, Ticket
  <2>6. \/ guard' = guard
        \/ guard' = [guard EXCEPT ![w] = [id |-> nextId, phase |-> "admitted", ok |-> Observed]]
    BY <1>7 DEF Admit
  <2>7. guard[w].phase = "idle"
    BY <1>7 DEF Admit
  <2>8. \A v, u \in Worker : v # u /\ guard'[v].phase # "idle" /\ guard'[u].phase # "idle"
                               => guard'[v].id # guard'[u].id
    BY <1>1, <1>4, <2>5, <2>6, <2>7 DEF HolderInv
  <2>9. ASSUME NEW v \in Worker, guard'[v].phase \in Holding
        PROVE  ~InLog(guard[v].id, "closed")'
    <3>1. \/ guard'[v].id = nextId
          \/ guard'[v].id = guard[v].id /\ ~InLog(guard[v].id, "closed")
      BY <1>1, <1>4, <2>6, <2>9 DEF HolderInv
    <3>2. ASSUME NEW i \in 1..Len(log'), log'[i].id = guard'[v].id, log'[i].kind = "closed"
          PROVE  FALSE
      BY <1>1, <2>2, <2>4, <3>1, <3>2, LineSays DEF InLog
    <3> QED BY <3>2 DEF InLog
  <2>10. HolderInv'
    BY <2>8, <2>9 DEF HolderInv, InLog
  <2> QED BY <2>1, <2>3, <2>10
<1>8. ASSUME UNCHANGED <<live, outcomes, nextId, metrics, log, tail, chain>>, GuardsKeepIds,
             \A v \in Worker : guard'[v].phase \in Holding => guard[v].phase \in Holding
      PROVE  Books' /\ HolderInv' /\ (OneWorker => BootVerdictsAreTrue')
  <2>1. Books'
    BY <1>3, <1>8, GuardBooks
  <2>2. \A v \in Worker : guard'[v].phase \in Holding /\ InLog(guard[v].id, "closed")'
                            => InLog(guard[v].id, "closed")
    BY <1>8 DEF InLog, GuardsKeepIds, Holding
  <2>3. HolderInv'
    BY <1>1, <1>8, <2>2, HoldersKept
  <2> QED BY <1>1, <1>8, <2>1, <2>3 DEF BootVerdictsAreTrue
<1>9. CASE Checkout(w) /\ chain' = chain
  <2>1. guard' = [guard EXCEPT ![w].phase = "working"] \/ guard' = [guard EXCEPT ![w] = Idle]
    BY <1>9 DEF Checkout
  <2>2. guard[w].phase = "admitted"
    BY <1>9 DEF Checkout
  <2>3. GuardsKeepIds /\ \A v \in Worker : guard'[v].phase \in Holding => guard[v].phase \in Holding
    BY <1>4, <2>1, <2>2 DEF GuardsKeepIds, Holding, Idle
  <2> QED BY <1>8, <1>9, <2>3 DEF Checkout, journalVars
<1>10. CASE \E to \in Status : Advance(w, to) /\ chain' = chain
  <2>1. PICK to \in Status : Advance(w, to)
    BY <1>10
  <2>2. Books'
    BY <1>1, <1>3, <2>1, AdvanceBooks
  <2>3. GuardsKeepIds /\ \A v \in Worker : guard'[v].phase \in Holding => guard[v].phase \in Holding
    BY <1>4, <2>1 DEF Advance, GuardsKeepIds, Holding
  <2> DEFINE e == AdvancedEntry(guard[w].id, to)
  <2>4. e \in Entry /\ e.kind = "advanced" /\ Lines(e)
    <3>1. Lines(e)
      BY <1>1, <2>1, AppendLines, SameLines DEF Advance
    <3> QED BY <1>4, <3>1, EntryTypes DEF AdvancedEntry
  <2> HIDE DEF e
  <2>5. OneWorker => BootVerdictsAreTrue'
    BY <1>1, <1>10, <2>4, VerdictsKept
  <2>6. \A v \in Worker : guard'[v].phase \in Holding /\ InLog(guard[v].id, "closed")'
                            => InLog(guard[v].id, "closed")
    <3>1. SUFFICES ASSUME NEW v \in Worker, guard'[v].phase \in Holding,
                          NEW i \in 1..Len(log'), log'[i].id = guard'[v].id, log'[i].kind = "closed"
                   PROVE  InLog(guard[v].id, "closed")
      BY DEF InLog
    <3>2. guard'[v].id = guard[v].id
      BY <2>3, <3>1 DEF GuardsKeepIds, Holding
    <3>3. i \in 1..Len(log) /\ log'[i] = log[i]
      BY <1>1, <2>4, <3>1, LineSays
    <3> QED BY <3>1, <3>2, <3>3 DEF InLog
  <2>7. HolderInv'
    BY <1>1, <2>3, <2>6, HoldersKept
  <2> QED BY <2>2, <2>5, <2>7
<1>11. CASE Send(w)
  <2>1. /\ UNCHANGED <<registryVars, journalVars>> /\ guard[w].phase = "working"
        /\ chain' = [chain EXCEPT ![guard[w].id] = "pending"]
    BY <1>11 DEF Send
  <2>2. Books' /\ HolderInv'
    <3>1. GuardsKeepIds
      BY <2>1 DEF registryVars, GuardsKeepIds
    <3>2. Books'
      BY <1>3, <2>1, <3>1, GuardBooks DEF registryVars, journalVars
    <3>3. HolderInv'
      BY <1>1, <2>1 DEF HolderInv, InLog, registryVars, journalVars
    <3> QED BY <3>2, <3>3
  <2>3. ~InLog(guard[w].id, "closed")
    BY <1>1, <2>1 DEF HolderInv, Holding
  <2>4. \A i \in 1..Len(log) : log[i].kind = "closed" => chain'[log[i].id] = chain[log[i].id]
    <3>1. \A i \in 1..Len(log) : log[i].id \in Ticket
      BY <1>1, EntryFields DEF JournalTypeOK
    <3> QED BY <1>1, <2>1, <2>3, <3>1 DEF InLog, TypeOK
  <2>5. OneWorker => BootVerdictsAreTrue'
    BY <1>1, <2>1, <2>4 DEF BootVerdictsAreTrue, journalVars
  <2> QED BY <2>2, <2>5
<1>12. ASSUME NEW o \in {"success", "shadow", "failure", "abandoned"},
              CloseLocked(guard[w].id, o), UNCHANGED <<nextId, chain>>, guard[w].phase # "idle",
              guard' \in {[guard EXCEPT ![w].phase = "closed"], [guard EXCEPT ![w] = Idle]}
       PROVE  Books' /\ HolderInv' /\ (OneWorker => BootVerdictsAreTrue')
  <2>1. guard[w].id \in Ticket /\ o \in Outcome
    BY <1>4, <1>12 DEF Outcome, Successes, Failures
  <2>2. /\ GuardsKeepIds /\ guard'[w].phase \notin Holding
        /\ \A v \in Worker \ {w} : guard'[v] = guard[v]
    BY <1>4, <1>12 DEF GuardsKeepIds, Holding, Idle
  <2>3. Books'
    BY <1>1, <1>3, <1>12, <2>1, <2>2, CloseBooks
  <2> QED BY <1>1, <1>12, <2>2, <2>3, CloseHolders
<1>13. CASE \E o \in {"success", "shadow", "failure"} : CloseGuard(w, o) /\ chain' = chain
  <2>1. PICK o \in {"success", "shadow", "failure"} : CloseGuard(w, o) /\ chain' = chain
    BY <1>13
  <2> QED BY <1>12, <2>1 DEF CloseGuard
<1>14. CASE DropGuard(w) /\ chain' = chain
  <2>1. \/ guard' = [guard EXCEPT ![w] = Idle]
        \/ guard' = [guard EXCEPT ![w].phase = "dropping"]
    BY <1>14 DEF DropGuard
  <2>2. guard[w].phase # "idle"
    BY <1>14 DEF DropGuard
  <2>3. GuardsKeepIds /\ \A v \in Worker : guard'[v].phase \in Holding => guard[v].phase \in Holding
    BY <1>4, <2>1, <2>2 DEF GuardsKeepIds, Holding, Idle
  <2> QED BY <1>8, <1>14, <2>3 DEF DropGuard, journalVars
<1>15. CASE AbandonDropped(w) /\ chain' = chain
  BY <1>12, <1>15 DEF AbandonDropped
<1> QED BY <1>1, <1>7, <1>9, <1>10, <1>11, <1>13, <1>14, <1>15, PlaneCases

-----------------------------------------------------------------------------
(* The invariant, and what follows from it.                                *)

\* The chain settles only what is pending, and no verdict was given on that.
LEMMA ChainKeeps ==
  ASSUME CoreInv, ChainSettles
  PROVE  CoreRest'
<1>1. TypeOK /\ JournalTypeOK /\ CoreRest
  BY TypeParts, RegistryTypeParts DEF CoreInv, WriteAheadInv
<1>2. UNCHANGED <<registryVars, journalVars, bootVars>>
  BY DEF ChainSettles
<1>3. \A t \in Ticket : chain'[t] = chain[t] \/ chain[t] = "pending"
  BY <1>1 DEF ChainSettles, TypeOK
<1>4. StageInv' /\ HolderInv'
  BY <1>1, <1>2 DEF CoreRest, StageInv, Serving, HolderInv, InLog, registryVars, journalVars, bootVars
<1>5. Accounting' /\ LogShape'
  <2>1. Live' = Live
    BY <1>2 DEF Live, registryVars
  <2> QED BY <1>1, <1>2, <2>1
          DEF CoreRest, BookInv, Accounting, TicketDropCount, LogShape, registryVars, journalVars
<1>6. Serving' => Books'
  <2>1. GuardsKeepIds
    BY <1>2 DEF GuardsKeepIds, registryVars
  <2> QED BY <1>1, <1>2, <2>1, GuardBooks
          DEF CoreRest, BookInv, Serving, registryVars, journalVars, bootVars
<1>7. WorklistInv'
  <2>1. \A t \in never : chain[t] = "none" => chain'[t] = "none"
    BY <1>1, <1>3 DEF TypeOK
  <2> QED BY <1>1, <1>2, <2>1 DEF CoreRest, WorklistInv, InLog, journalVars, bootVars
<1>8. OneWorker => BootVerdictsAreTrue'
  <2>1. \A i \in 1..Len(log) : log[i].id \in Ticket
    BY <1>1, EntryFields DEF JournalTypeOK
  <2> QED BY <1>1, <1>2, <1>3, <2>1 DEF CoreRest, BootVerdictsAreTrue, journalVars
<1> QED BY <1>4, <1>5, <1>6, <1>7, <1>8 DEF CoreRest, BookInv

\* The first process finds an empty journal and has an empty registry.
LEMMA CoreInit == Init => CoreInv
<1> SUFFICES ASSUME Init PROVE CoreInv
  OBVIOUS
<1>1. TypeOK
  BY InitTypes
<1>2. log = <<>> /\ Len(log) = 0 /\ 1..Len(log) = {}
  BY DEF Init, JournalInit
<1>3. IdleUnlessUp /\ EndsWhole /\ ToldIsOnRecord /\ SentIsOnRecord
  BY DEF Init, RegistryInit, IdleUnlessUp, EndsWhole, ToldIsOnRecord, SentIsOnRecord, Idle, MayBeOnChain, Observed, Signed
<1>4. StageInv /\ WorklistInv /\ HolderInv
  BY DEF Init, RegistryInit, StageInv, Serving, WorklistInv, HolderInv, Holding, Idle
<1>5. LogShape /\ BootVerdictsAreTrue
  BY <1>2 DEF LogShape, BootVerdictsAreTrue
<1>6. Accounting
  <2>1. Live = {}
    BY DEF Init, RegistryInit, Live
  <2>2. Cardinality(Live) = 0 /\ metrics = NoMetrics
    BY <2>1, FS_EmptySet DEF Init, RegistryInit
  <2> QED BY <2>2 DEF Accounting, TicketDropCount, NoMetrics
<1>7. ~Serving
  BY DEF Init, Serving
<1> QED BY <1>1, <1>3, <1>4, <1>5, <1>6, <1>7 DEF CoreInv, CoreRest, BookInv, WriteAheadInv

\* Every step keeps the core's invariant.
LEMMA CoreStep ==
  ASSUME CoreInv, [Next]_vars
  PROVE  CoreInv'
<1>1. WriteAheadInv' /\ TypeOK' /\ TypeOK
  BY WriteAheadStep DEF CoreInv, WriteAheadInv
<1>2. CASE \E w \in Worker : PlaneStep(w)
  BY <1>1, <1>2, PlaneKeeps DEF CoreInv
<1>3. CASE ChainSettles
  BY <1>1, <1>3, ChainKeeps DEF CoreInv
<1>4. CASE Crash
  BY <1>1, <1>4, CrashDies, DyingKeeps DEF CoreInv
<1>5. CASE Boot
  <2>1. StageInv
    BY DEF CoreInv, CoreRest
  <2>6. CASE Refused
    BY <1>1, <2>6, RefusedKeeps DEF CoreInv
  <2>2. CASE Scanned
    BY <1>1, <2>2, ScannedKeeps DEF CoreInv
  <2>3. CASE \E t \in Ticket, o \in Outcome : BootClosing(t, o)
    BY <1>1, <2>3, BootClosingKeeps DEF CoreInv
  <2>4. CASE Dying
    BY <1>1, <2>4, DyingKeeps DEF CoreInv
  <2>5. CASE OpenGate
    BY <1>1, <2>5, OpenGateKeeps DEF CoreInv
  <2> QED BY <1>1, <1>5, <2>1, <2>2, <2>3, <2>4, <2>5, <2>6, BootCases
<1>6. CASE UNCHANGED vars
  <2>1. UNCHANGED <<registryVars, journalVars, bootVars, chain>>
    BY <1>6 DEF vars
  <2>2. Live' = Live
    BY <2>1 DEF Live, registryVars
  <2>3. StageInv' /\ WorklistInv' /\ HolderInv' /\ (OneWorker => BootVerdictsAreTrue')
    BY <2>1 DEF CoreInv, CoreRest, StageInv, Serving, WorklistInv, HolderInv, InLog,
                BootVerdictsAreTrue, registryVars, journalVars, bootVars
  <2>4. BookInv'
    BY <2>1, <2>2 DEF CoreInv, CoreRest, BookInv, Serving, Books, LogShape, Fresh, LiveUndecided, LiveOnRecord,
                      OnRecordLive, InLog, Accounting, TicketDropCount,
                      registryVars, journalVars, bootVars
  <2> QED BY <1>1, <2>3, <2>4 DEF CoreInv, CoreRest
<1> QED BY <1>2, <1>3, <1>4, <1>5, <1>6 DEF Next

\* The core's invariant holds in every state.
LEMMA CoreHolds == Spec => []CoreInv
<1>1. CoreInv /\ [Next]_vars => CoreInv'
  BY CoreStep
<1> QED BY CoreInit, <1>1, PTL DEF Spec

\* INV-02 for every number of workers, tickets, failed appends and crashes: the drop
\* count is zero and the live counter counts the live map.
THEOREM AccountingHolds == Spec => []Accounting
<1>1. CoreInv => Accounting
  BY DEF CoreInv, CoreRest, BookInv
<1> QED BY CoreHolds, <1>1, PTL

\* Whatever appends failed or stopped part way and wherever crashes and power failures
\* fell, a journal whose broken line, if any, is its last is one recovery accepts.
THEOREM JournalReadable == Spec => []JournalStaysReadable
<1>1. CoreInv => JournalStaysReadable
  BY ShapeIsReadable DEF CoreInv, CoreRest, BookInv, JournalStaysReadable
<1> QED BY CoreHolds, <1>1, PTL

\* Under one capture worker, what recovery wrote about a ticket is what became of its
\* transaction, then and ever after.
THEOREM VerdictsTrue ==
  ASSUME OneWorker
  PROVE  Spec => []BootVerdictsAreTrue
<1>1. CoreInv => BootVerdictsAreTrue
  BY DEF CoreInv, CoreRest
<1> QED BY CoreHolds, <1>1, PTL

\* Under one capture worker, while dispatch is open over a journal that ends in a whole
\* line, every transaction whose ticket has no outcome belongs to a live ticket at or
\* past Signed.
THEOREM OwedHeld ==
  ASSUME OneWorker
  PROVE  Spec => []OwedIsHeld
<1>1. CoreInv => OwedIsHeld
  <2>1. SUFFICES ASSUME CoreInv, NEW t \in Ticket, gate, tail = "clean", chain[t] # "none",
                        ~ClosedIn(t)
                 PROVE  live[t] # Absent /\ MayBeOnChain(live[t])
    BY DEF OwedIsHeld
  <2>2. TypeOK /\ JournalTypeOK
    BY <2>1, TypeParts, RegistryTypeParts DEF CoreInv, WriteAheadInv
  <2>3. Books
    BY <2>1 DEF CoreInv, CoreRest, StageInv, BookInv, Serving
  <2>4. PICK i \in 1..synced :
          log[i].kind = "advanced" /\ log[i].id = t /\ MayBeOnChain(log[i].to)
    <3>1. firm # "behind"
      BY <2>1, <2>2 DEF JournalTypeOK
    <3> QED BY <2>1, <3>1 DEF CoreInv, WriteAheadInv, SentIsOnRecord
  <2>5. i \in 1..Len(log) /\ log[i].to \in Int
    <3>1. i \in 1..Len(log)
      BY <2>2, <2>4 DEF JournalTypeOK
    <3>2. log[i] \in Entry
      BY <2>2, <3>1 DEF JournalTypeOK
    <3> QED BY <2>4, <3>1, <3>2, EntryFields DEF Status
  <2>6. InLog(t, "admitted")
    <3>1. PICK j \in 1..i : log[j].kind = "admitted" /\ log[j].id = t
      BY <2>3, <2>4, <2>5 DEF Books, LogShape
    <3>2. j \in 1..Len(log)
      BY <2>2, <2>5, <3>1 DEF JournalTypeOK
    <3> QED BY <3>1, <3>2 DEF InLog
  <2>7. live[t] # Absent
    BY <2>1, <2>3, <2>6, ReadsInLog DEF Books, OnRecordLive
  <2>8. log[i].to <= live[t] /\ live[t] \in Int
    <3>1. live[t] \in Int
      <4>1. live \in [Ticket -> Status \cup {Absent}]
        BY <2>2 DEF TypeOK, RegistryTypeOK
      <4>2. live[t] \in Status
        BY <2>7, <4>1
      <4> QED BY <4>2 DEF Status
    <3> QED BY <2>1, <2>3, <2>4, <2>5, <2>7, <3>1 DEF Books, LiveOnRecord
  <2> QED BY <2>4, <2>5, <2>7, <2>8 DEF MayBeOnChain, Signed
<1> QED BY CoreHolds, <1>1, PTL

-----------------------------------------------------------------------------
(* The ticket contract: every step of the core is a step of TicketContract *)
(* under the mapping Recovery gives, or a stutter.                         *)

\* The book of the mapping, and the transactions that have left.
Book == [t \in Ticket |-> CASE DurablyIn(t, "closed") -> "settled"
                            [] ~DurablyIn(t, "admitted") -> "unseen"
                            [] DurablyIn(t, "admitted") /\ ~DurablyIn(t, "closed")
                              /\ ClosedIn(t) -> "doubtful"
                            [] OTHER -> "open"]

Exposed == {t \in Ticket : chain[t] # "none"}

\* A step that writes to the end of the file, if at all: behind a whole line it takes
\* nothing back, behind anything else it leaves no whole line.
Grows ==
  /\ tail = "clean" => Len(log) <= Len(log') /\ \A i \in 1..Len(log) : log'[i] = log[i]
  /\ tail # "clean" => tail' # "clean"

\* What a page of the book says of the journal.
LEMMA PageSays ==
  ASSUME JournalTypeOK, LogShape, NEW t \in Ticket
  PROVE  /\ Book[t] = "settled"  <=> DurablyIn(t, "closed")
         /\ Book[t] = "unseen"   <=> ~DurablyIn(t, "admitted")
         /\ Book[t] = "doubtful" <=> DurablyIn(t, "admitted") /\ ~DurablyIn(t, "closed")
                                       /\ ClosedIn(t)
         /\ Book[t] = "open"     <=> DurablyIn(t, "admitted") /\ ~ClosedIn(t)
         /\ Book[t] \in {"settled", "unseen", "doubtful", "open"}
<1>1. DurablyIn(t, "closed") => DurablyIn(t, "admitted")
  <2>1. SUFFICES ASSUME NEW i \in 1..synced, log[i].id = t
                 PROVE  DurablyIn(t, "admitted")
    BY DEF DurablyIn
  <2>2. i \in 1..Len(log)
    BY <2>1 DEF JournalTypeOK
  <2>3. PICK j \in 1..i : log[j].kind = "admitted" /\ log[j].id = t
    BY <2>1, <2>2 DEF LogShape
  <2>4. j \in 1..synced
    BY <2>1, <2>3 DEF JournalTypeOK
  <2> QED BY <2>3, <2>4 DEF DurablyIn
<1>2. DurablyIn(t, "closed") => ClosedIn(t)
  BY DEF DurablyIn, ClosedIn, LogIndexes, JournalTypeOK
<1> DEFINE a == DurablyIn(t, "admitted")
           c == DurablyIn(t, "closed")
           d == ClosedIn(t)
<1>3. Book[t] = CASE c -> "settled" [] ~a -> "unseen" [] a /\ ~c /\ d -> "doubtful" [] OTHER -> "open"
  BY DEF Book
<1>4. (c => a) /\ (c => d)
  BY <1>1, <1>2
<1> HIDE DEF a, c, d
<1>5. c => Book[t] = "settled"
  BY <1>3, <1>4
<1>6. ~a => Book[t] = "unseen"
  BY <1>3, <1>4
<1>7. a /\ ~c /\ d => Book[t] = "doubtful"
  BY <1>3
<1>8. a /\ ~c /\ ~d => Book[t] = "open"
  BY <1>3
<1>9. /\ Book[t] = "settled" <=> c
      /\ Book[t] = "unseen" <=> ~a
      /\ Book[t] = "doubtful" <=> a /\ ~c /\ d
      /\ Book[t] = "open" <=> a /\ ~d
      /\ Book[t] \in {"settled", "unseen", "doubtful", "open"}
  BY <1>4, <1>5, <1>6, <1>7, <1>8
<1> QED BY <1>9 DEF a, c, d

\* The same as one formula, of this state and of the next.
Pages ==
  JournalTypeOK /\ LogShape =>
    \A t \in Ticket :
      /\ Book[t] = "settled"  <=> DurablyIn(t, "closed")
      /\ Book[t] = "unseen"   <=> ~DurablyIn(t, "admitted")
      /\ Book[t] = "doubtful" <=> DurablyIn(t, "admitted") /\ ~DurablyIn(t, "closed")
                                    /\ ClosedIn(t)
      /\ Book[t] = "open"     <=> DurablyIn(t, "admitted") /\ ~ClosedIn(t)
      /\ Book[t] \in {"settled", "unseen", "doubtful", "open"}

\* The pages can be read in every state.
LEMMA PagesHold == Pages
BY PageSays DEF Pages

\* And after every step.
LEMMA PagesHoldNext == Pages'
BY PagesHold, PTL

\* An append grows the file, and an fsync covers all of it.
LEMMA AppendGrows ==
  ASSUME JournalTypeOK, NEW e, Journaled(e) \/ JournalFails(e)
  PROVE  synced' \in {synced, Len(log')} /\ Grows
<1>1. log \in Seq(Entry) /\ Len(log) \in Nat
  BY DEF JournalTypeOK
<1>2. Len(Append(log, e)) = Len(log) + 1 /\ \A i \in 1..Len(log) : Append(log, e)[i] = log[i]
  BY <1>1
<1>3. Lines(e)
  BY AppendLines
<1> QED BY <1>1, <1>2, <1>3 DEF Lines, Grows, Journaled, JournalFails

\* A step of the core writes to the end of the file, or is a crash.
LEMMA FileCases ==
  ASSUME TypeOK, StageInv, [Next]_vars
  PROVE  synced' \in {synced, Len(log')} /\ (Crash \/ Grows)
<1> DEFINE Goal == synced' \in {synced, Len(log')} /\ (Crash \/ Grows)
<1>1. JournalTypeOK
  BY TypeParts, RegistryTypeParts
<1>2. UNCHANGED <<log, tail, synced>> => Goal
  BY <1>1 DEF Grows, JournalTypeOK
<1>3. ASSUME NEW e, Journaled(e) \/ JournalFails(e)
      PROVE  Goal
  BY <1>1, <1>3, AppendGrows
<1> SUFFICES Goal
  OBVIOUS
<1> HIDE DEF Goal
<1>4. ASSUME NEW t, NEW o, CloseLocked(t, o)
      PROVE  Goal
  BY <1>2, <1>3, <1>4 DEF CloseLocked, CloseOk, CloseFails, CloseRefused, journalVars
<1>5. CASE \E w \in Worker : PlaneStep(w)
  <2>1. PICK w \in Worker : PlaneStep(w)
    BY <1>5
  <2>2. CASE Admit(w)
    BY <1>3, <2>2 DEF Admit
  <2>3. CASE \E to \in Status : Advance(w, to)
    BY <1>2, <1>3, <2>3 DEF Advance, journalVars
  <2>4. CASE (\E o : CloseGuard(w, o)) \/ AbandonDropped(w)
    BY <1>4, <2>4 DEF CloseGuard, AbandonDropped
  <2>5. CASE Checkout(w) \/ Send(w) \/ DropGuard(w)
    BY <1>2, <2>5 DEF Checkout, Send, DropGuard, journalVars
  <2> QED BY <2>1, <2>2, <2>3, <2>4, <2>5, PlaneCases
<1>6. CASE Crash
  BY <1>6 DEF Crash, Goal
<1>7. CASE Boot
  <2>1. CASE BootScan \/ OpenGate
    BY <1>2, <2>1 DEF BootScan, OpenGate, journalVars
  <2>2. CASE CloseNeverSigned
    BY <1>3, <2>2 DEF CloseNeverSigned, CloseOk
  <2>3. CASE Resolve
    BY <1>2, <1>3, <2>3 DEF Resolve, CloseOk, journalVars
  <2> QED BY <1>7, <2>1, <2>2, <2>3 DEF Boot
<1>8. CASE ChainSettles \/ UNCHANGED vars
  BY <1>2, <1>8 DEF ChainSettles, vars, journalVars
<1> QED BY <1>5, <1>6, <1>7, <1>8 DEF Next

\* What is durable stays; what is written behind a whole line stays written unless
\* the machine died, and a page in doubt comes of no fsync.
LEMMA PagesMove ==
  ASSUME JournalTypeOK, JournalTypeOK', DurableKept, synced' \in {synced, Len(log')}, NEW t \in Ticket
  PROVE  /\ DurablyIn(t, "admitted") => DurablyIn(t, "admitted")'
         /\ DurablyIn(t, "closed") => DurablyIn(t, "closed")'
         /\ Grows /\ tail = "clean" /\ ClosedIn(t) => ClosedIn(t)'
         /\ ~DurablyIn(t, "admitted") /\ ClosedIn(t)' /\ ~DurablyIn(t, "closed")'
              => ~DurablyIn(t, "admitted")'
<1>1. synced \in Nat /\ synced' \in Nat /\ Len(log) \in Nat /\ Len(log') \in Nat
      /\ synced <= Len(log) /\ synced' <= Len(log')
  BY DEF JournalTypeOK
<1>2. \A k \in {"admitted", "closed"} : DurablyIn(t, k) => DurablyIn(t, k)'
  BY <1>1 DEF DurablyIn, DurableKept
<1>3. Grows /\ tail = "clean" /\ ClosedIn(t) => ClosedIn(t)'
  BY <1>1 DEF Grows, ClosedIn, LogIndexes
<1>4. ASSUME ~DurablyIn(t, "admitted"), ClosedIn(t)', ~DurablyIn(t, "closed")'
      PROVE  ~DurablyIn(t, "admitted")'
  <2>1. CASE synced' = synced
    BY <1>1, <1>4, <2>1 DEF DurablyIn, DurableKept
  <2>2. CASE synced' = Len(log')
    BY <1>4, <2>2 DEF DurablyIn, ClosedIn, LogIndexes
  <2> QED BY <2>1, <2>2
<1> QED BY <1>2, <1>3, <1>4

-----------------------------------------------------------------------------
(* The steps of the core as steps of the contract.                         *)

\* How a page of the book turns.
LEMMA PagesTurn ==
  ASSUME CoreInv, CoreInv', DurableKept, synced' \in {synced, Len(log')}, NEW t \in Ticket
  PROVE  /\ Book[t] \in Contract!Page /\ Book'[t] \in Contract!Page
         /\ \/ Book'[t] \in Contract!Onward[Book[t]]
            \/ ~(Grows /\ tail = "clean") /\ Book[t] = "doubtful" /\ Book'[t] = "open"
<1>1. JournalTypeOK /\ LogShape /\ JournalTypeOK' /\ LogShape'
  BY TypeParts, RegistryTypeParts, TypePartsNext, RegistryTypePartsNext
     DEF CoreInv, WriteAheadInv, CoreRest, BookInv
<1>2. /\ Book[t] = "settled"  <=> DurablyIn(t, "closed")
      /\ Book[t] = "unseen"   <=> ~DurablyIn(t, "admitted")
      /\ Book[t] = "doubtful" <=> DurablyIn(t, "admitted") /\ ~DurablyIn(t, "closed")
                                    /\ ClosedIn(t)
      /\ Book[t] = "open"     <=> DurablyIn(t, "admitted") /\ ~ClosedIn(t)
      /\ Book[t] \in {"settled", "unseen", "doubtful", "open"}
  BY <1>1, PagesHold DEF Pages
<1>3. /\ Book'[t] = "settled"  <=> DurablyIn(t, "closed")'
      /\ Book'[t] = "unseen"   <=> ~DurablyIn(t, "admitted")'
      /\ Book'[t] = "doubtful" <=> DurablyIn(t, "admitted")' /\ ~DurablyIn(t, "closed")'
                                     /\ ClosedIn(t)'
      /\ Book'[t] = "open"     <=> DurablyIn(t, "admitted")' /\ ~ClosedIn(t)'
      /\ Book'[t] \in {"settled", "unseen", "doubtful", "open"}
  BY <1>1, PagesHoldNext DEF Pages
<1>4. /\ DurablyIn(t, "admitted") => DurablyIn(t, "admitted")'
      /\ DurablyIn(t, "closed") => DurablyIn(t, "closed")'
      /\ Grows /\ tail = "clean" /\ ClosedIn(t) => ClosedIn(t)'
      /\ ~DurablyIn(t, "admitted") /\ ClosedIn(t)' /\ ~DurablyIn(t, "closed")'
           => ~DurablyIn(t, "admitted")'
  BY <1>1, PagesMove
<1>5. /\ Book[t] = "unseen" => Book'[t] # "doubtful"
      /\ Book[t] = "open" => Book'[t] \in {"open", "doubtful", "settled"}
      /\ Book[t] = "doubtful" => \/ Book'[t] \in {"doubtful", "settled"}
                                 \/ ~(Grows /\ tail = "clean") /\ Book'[t] = "open"
      /\ Book[t] = "settled" => Book'[t] = "settled"
  BY <1>2, <1>3, <1>4
<1> QED BY <1>2, <1>3, <1>5 DEF Contract!Onward, Contract!Page

\* A step that sends nothing and leaves dispatch as it was is a record in the book.
LEMMA RecordStep ==
  ASSUME CoreInv, CoreInv', DurableKept, synced' \in {synced, Len(log')}, Grows,
         UNCHANGED <<Exposed, gate>>
  PROVE  Contract!Record
<1>1. \A t \in Ticket :
        /\ \/ Book'[t] \in Contract!Onward[Book[t]]
           \/ tail # "clean" /\ Book[t] = "doubtful" /\ Book'[t] = "open"
        /\ Book'[t] \in Contract!Page
  BY PagesTurn
<1>2. Book' \in [Ticket -> Contract!Page]
  BY <1>1 DEF Book
<1>3. tail # "clean" => tail' # "clean"
  BY DEF Grows
<1> QED BY <1>1, <1>2, <1>3 DEF Contract!Record, Contract!Moves, Book, Exposed

\* A step that ends the process is a stop, whatever the machine kept of the file.
LEMMA StopStep ==
  ASSUME CoreInv, CoreInv', DurableKept, synced' \in {synced, Len(log')},
         UNCHANGED Exposed, gate' = FALSE
  PROVE  Contract!Stop
<1>1. \A t \in Ticket :
        /\ \/ Book'[t] \in Contract!Onward[Book[t]]
           \/ Book[t] = "doubtful" /\ Book'[t] = "open"
        /\ Book'[t] \in Contract!Page
  BY PagesTurn
<1>2. Book' \in [Ticket -> Contract!Page]
  BY <1>1 DEF Book
<1> QED BY <1>1, <1>2 DEF Contract!Stop, Contract!Moves, Book, Exposed

\* A transaction is sent under a durable record that is open.
LEMMA SendStep ==
  ASSUME OneWorker, CoreInv, NEW w \in Worker, Send(w)
  PROVE  \E t \in Ticket : Contract!Expose(t)
<1> DEFINE t == guard[w].id
<1>1. TypeOK /\ JournalTypeOK /\ LogShape /\ HolderInv /\ t \in Ticket
  BY TypeParts, RegistryTypeParts
     DEF CoreInv, WriteAheadInv, CoreRest, BookInv, TypeOK, RegistryTypeOK
<1>2. ASSUME tail = "clean"
      PROVE  DurablyIn(t, "admitted")
  <2>1. MayBeOnChain(guard[w].ok)
    BY DEF Send, MayBeOnChain, Dispatching, Signed
  <2>2. PICK i \in 1..synced : log[i].id = t
    <3>1. firm # "behind"
      BY <1>1, <1>2 DEF JournalTypeOK
    <3> QED BY <2>1, <3>1 DEF CoreInv, WriteAheadInv, ToldIsOnRecord, SignedOnRecord
  <2>3. i \in 1..Len(log)
    BY <1>1, <2>2 DEF JournalTypeOK
  <2>4. PICK j \in 1..i : log[j].kind = "admitted" /\ log[j].id = t
    BY <1>1, <2>2, <2>3 DEF LogShape
  <2>5. j \in 1..synced
    BY <1>1, <2>2, <2>4 DEF JournalTypeOK
  <2> QED BY <2>4, <2>5 DEF DurablyIn
<1>3. ~ClosedIn(t)
  BY <1>1, ReadsInLog DEF Send, HolderInv, Holding
<1>4. tail # "clean" \/ Book[t] = "open"
  BY <1>1, <1>2, <1>3, PagesHold DEF Pages
<1>5. Exposed' = Exposed \cup {t}
  BY <1>1 DEF Send, Exposed, TypeOK
<1>6. Book' = Book
  BY DEF Send, journalVars, Book, DurablyIn, ClosedIn, LogIndexes
<1>7. gate /\ gate' = gate /\ tail' = tail
  BY DEF Send, bootVars, journalVars
<1> HIDE DEF t
<1>8. t \in Ticket
  BY <1>1
<1> QED BY <1>4, <1>5, <1>6, <1>7, <1>8 DEF Contract!Expose, Book, Exposed

\* Dispatch opens over a book with nothing open.
LEMMA StartStep ==
  ASSUME CoreInv, OpenGate
  PROVE  Contract!Start
<1>1. /\ JournalTypeOK /\ LogShape /\ WorklistInv /\ StageInv
      /\ stage = "closing" /\ never = {} /\ maybe = {}
  BY TypeParts, RegistryTypeParts DEF CoreInv, WriteAheadInv, CoreRest, BookInv, OpenGate
<1>2. ASSUME tail = "clean", NEW t \in Ticket, Book[t] = "open"
      PROVE  FALSE
  <2>1. DurablyIn(t, "admitted") /\ ~ClosedIn(t)
    BY <1>1, <1>2, PagesHold DEF Pages
  <2>2. InLog(t, "admitted")
    BY <1>1, <2>1 DEF DurablyIn, InLog, JournalTypeOK
  <2> QED BY <1>1, <1>2, <2>1, <2>2, ReadsInLog DEF WorklistInv
<1>3. UNCHANGED <<Book, Exposed, tail>>
  BY DEF OpenGate, journalVars, Book, DurablyIn, ClosedIn, LogIndexes, Exposed
<1>4. ~gate /\ gate' = TRUE
  BY <1>1 DEF OpenGate, StageInv
<1> QED BY <1>2, <1>3, <1>4 DEF Contract!Start, Book, Exposed

\* Every step of the core is a step of the contract.
LEMMA ContractStep ==
  ASSUME OneWorker, CoreInv, CoreInv', [Next]_vars
  PROVE  Contract!Next
<1>1. TypeOK /\ StageInv
  BY DEF CoreInv, WriteAheadInv, CoreRest
<1>2. DurableKept /\ synced' \in {synced, Len(log')} /\ (Crash \/ Grows)
  BY <1>1, StepTypes, FileCases
<1>3. ASSUME Contract!Record \/ Contract!Stop \/ Contract!Start
             \/ \E t \in Ticket : Contract!Expose(t)
      PROVE  Contract!Next
  BY <1>3 DEF Contract!Next
<1>4. ASSUME chain' = chain, gate' = gate, ~Crash
      PROVE  Contract!Record
  BY <1>2, <1>4, RecordStep DEF Exposed
<1>5. ASSUME chain' = chain, gate' = FALSE
      PROVE  Contract!Stop
  BY <1>2, <1>5, StopStep DEF Exposed
<1>6. CASE Crash
  BY <1>3, <1>5, <1>6 DEF Crash, NewMemory
<1>7. CASE \E w \in Worker : PlaneStep(w) /\ ~Crash
  <2>1. PICK w \in Worker : PlaneStep(w)
    BY <1>7
  <2>2. CASE Send(w)
    BY <1>3, <2>2, SendStep
  <2>3. CASE ~Send(w)
    BY <1>1, <1>3, <1>4, <1>7, <2>1, <2>3, PlaneCases DEF bootVars
  <2> QED BY <2>2, <2>3
<1>8. CASE ChainSettles /\ ~Crash
  <2>1. Exposed' = Exposed
    BY <1>1, <1>8 DEF ChainSettles, Exposed, TypeOK
  <2>2. gate' = gate
    BY <1>8 DEF ChainSettles, bootVars
  <2> QED BY <1>2, <1>3, <1>8, <2>1, <2>2, RecordStep
<1>9. CASE Boot /\ ~Crash
  <2>1. CASE BootScan
    BY <1>3, <1>4, <1>9, <2>1 DEF BootScan
  <2>2. CASE CloseNeverSigned
    BY <1>3, <1>4, <1>5, <1>9, <2>2 DEF CloseNeverSigned, BootFails, NewMemory
  <2>3. CASE Resolve
    BY <1>3, <1>4, <1>5, <1>9, <2>3 DEF Resolve, BootFails, NewMemory
  <2>4. CASE OpenGate
    BY <1>3, <2>4, StartStep
  <2> QED BY <1>9, <2>1, <2>2, <2>3, <2>4 DEF Boot
<1>10. CASE UNCHANGED vars /\ ~Crash
  BY <1>3, <1>4, <1>10 DEF vars, bootVars
<1> QED BY <1>6, <1>7, <1>8, <1>9, <1>10 DEF Next

\* The first state of the core is the contract's.
LEMMA ContractInit == Init => Contract!Init
<1> SUFFICES ASSUME Init PROVE Contract!Init
  OBVIOUS
<1>1. CoreInv /\ synced = 0 /\ gate = FALSE /\ tail = "clean" /\ Exposed = {}
  BY CoreInit DEF Init, JournalInit, Exposed
<1>2. \A t \in Ticket : Book[t] = "unseen"
  <2>1. JournalTypeOK /\ LogShape
    BY <1>1, TypeParts, RegistryTypeParts DEF CoreInv, WriteAheadInv, CoreRest, BookInv
  <2>2. \A t \in Ticket : ~DurablyIn(t, "admitted")
    BY <1>1 DEF DurablyIn
  <2> QED BY <2>1, <2>2, PagesHold DEF Pages
<1>3. Book = [t \in Ticket |-> "unseen"]
  BY <1>2 DEF Book
<1> QED BY <1>1, <1>3 DEF Contract!Init, Book, Exposed

\* Under one capture worker the core implements the contract for every number of
\* tickets, failed and half-done appends and crashes: a record that is durable and can
\* be read is never taken back, and until an append stops part way nothing is sent
\* without a durable open record and dispatch opens over a settled book.
THEOREM ContractKept ==
  ASSUME OneWorker
  PROVE  Spec => ImplementsContract
<1>1. CoreInv /\ CoreInv' /\ [Next]_vars => [Contract!Next]_(Contract!contractVars)
  BY ContractStep
<1> QED BY ContractInit, CoreHolds, <1>1, PTL DEF Spec, ImplementsContract, Contract!Spec

=============================================================================
