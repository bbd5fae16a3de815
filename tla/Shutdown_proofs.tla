-------------------------- MODULE Shutdown_proofs --------------------------
(***************************************************************************)
(* Theorems about the core with a drain and a sweeper in it: the counts of *)
(* the registry, who holds a ticket, and that the drain walks past none.   *)
(***************************************************************************)
EXTENDS Shutdown, Recovery_proofs

Deciding == {"working", "erred"}

\* Every worker has a ticket of its own, checked out until it lets go of it, and live
\* while there is a decision to make.
HandsInv ==
  /\ \A v, w \in Worker : v # w /\ guard[v].phase # "idle" /\ guard[w].phase # "idle"
                            => guard[v].id # guard[w].id
  /\ \A w \in Worker : guard[w].phase \in Deciding \cup {"closed"} => guard[w].id \in checkedOut
  /\ \A w \in Worker : guard[w].phase \in Deciding => live[guard[w].id] # Absent

\* What boot lists it has read of, and a journal that ends in a whole line still says so.
Listed == tail = "clean" => \A t \in never \cup maybe : InLog(t, "admitted")

DrainLocals ==
  drain \in [pc : {"off", "read", "ask", "close", "done"}, todo : SUBSET Ticket,
             closed : SUBSET Ticket, handed : SUBSET Ticket]

\* A drain runs in a process that is up and admits nothing, and closes nothing that
\* is checked out.
DrainStage ==
  /\ drain.pc # "off" => stage = "up" /\ \A w \in Worker : guard[w].phase # "admitted"
  /\ drain.pc = "close" => \A t \in Least(drain.todo) : t \notin checkedOut

\* What every step of the core and of what runs beside it keeps, the drain's own
\* variables apart.
BesideInv == TypeOK /\ StageInv /\ BookInv /\ Listed /\ HandsInv

DrainInv == BesideInv /\ DrainLocals /\ DrainStage

-----------------------------------------------------------------------------
(* Closes, whoever makes them.                                             *)

\* A close of a ticket nobody is deciding about leaves everybody's hands as they were.
LEMMA ClosingHands ==
  ASSUME RegistryTypeOK, HandsInv, UNCHANGED checkedOut, GuardsKeepIds,
         NEW t \in Ticket, NEW o \in Outcome, CloseLocked(t, o),
         \A v \in Worker : guard'[v].phase \in Deciding =>
           guard[v].phase \in Deciding /\ guard[v].id # t,
         \A v \in Worker : guard'[v].phase = "closed" => guard[v].phase \in Deciding \cup {"closed"}
  PROVE  HandsInv'
<1>1. \A u \in Ticket : u # t => live'[u] = live[u]
  BY DEF CloseLocked, CloseOk, CloseFails, CloseRefused, RegistryTypeOK
<1>2. \A v \in Worker : guard[v].id \in Ticket
  BY DEF RegistryTypeOK
<1>3. \A v, w \in Worker : v # w /\ guard'[v].phase # "idle" /\ guard'[w].phase # "idle"
                             => guard'[v].id # guard'[w].id
  BY DEF HandsInv, GuardsKeepIds
<1>4. \A v \in Worker : guard'[v].phase \in Deciding \cup {"closed"} => guard'[v].id \in checkedOut'
  BY DEF HandsInv, GuardsKeepIds, Deciding
<1>5. \A v \in Worker : guard'[v].phase \in Deciding => live'[guard'[v].id] # Absent
  BY <1>1, <1>2 DEF HandsInv, GuardsKeepIds, Deciding
<1> QED BY <1>3, <1>4, <1>5 DEF HandsInv

\* A close takes its ticket out of the live map, or nothing.
LEMMA ClosingLive ==
  ASSUME RegistryTypeOK, NEW t \in Ticket, NEW o \in Outcome, CloseLocked(t, o)
  PROVE  Live' \subseteq Live /\ (CloseOk(t, o) => t \notin Live')
BY DEF CloseLocked, CloseOk, CloseFails, CloseRefused, RegistryTypeOK, Live, Absent

\* What a close leaves of the journal, if that ends in a whole line.
LEMMA ClosingFile ==
  ASSUME RegistryTypeOK, NEW t \in Ticket, NEW o \in Outcome, CloseLocked(t, o)
  PROVE  /\ ClosedEntry(t, o) \in Entry
         /\ tail' = "clean" => tail = "clean" /\ log' \in {log, Append(log, ClosedEntry(t, o))}
<1> DEFINE e == ClosedEntry(t, o)
<1>1. e \in Entry /\ JournalTypeOK
  BY ClosedSays, RegistryTypeParts
<1>2. CASE CloseRefused(t)
  BY <1>1, <1>2 DEF CloseRefused, journalVars
<1>3. CASE CloseOk(t, o) \/ CloseFails(t, o)
  <2>1. Journaled(e) \/ JournalFails(e)
    BY <1>3 DEF CloseOk, CloseFails
  <2> HIDE DEF e
  <2>2. Lines(e)
    BY <1>1, <2>1, AppendLines
  <2> QED BY <1>1, <2>2 DEF Lines, e
<1> QED BY <1>2, <1>3 DEF CloseLocked

\* A close beside the core -- the sweep's, the drain's -- of a ticket nobody has
\* checked out.
LEMMA ClosingBeside ==
  ASSUME BesideInv, NEW t \in Ticket, NEW o \in Outcome, CloseLocked(t, o), t \notin checkedOut,
         stage = "up" \/ live[t] # Absent,
         UNCHANGED <<checkedOut, nextId, guard, bootVars, chain, crashes>>
  PROVE  BesideInv' /\ Live' \subseteq Live
<1>1. RegistryTypeOK /\ BootTypeOK /\ JournalTypeOK /\ StageInv /\ Listed
  BY TypeParts, RegistryTypeParts DEF BesideInv
<1>2. TypeOK'
  <2>1. JournalTypeOK' /\ MapTypeOK'
    BY <1>1, CloseLockedStep
  <2>2. GuardTypeOK' /\ BootTypeOK'
    BY <1>1 DEF RegistryTypeOK, GuardTypeOK, BootTypeOK, bootVars
  <2> QED BY <2>1, <2>2, TypePartsNext, RegistryTypePartsNext
<1>3. GuardsKeepIds
  BY DEF GuardsKeepIds
<1>4. Serving /\ Serving'
  BY <1>1 DEF StageInv, Serving, bootVars
<1>5. Books'
  BY <1>1, <1>3, <1>4, CloseBooks DEF BesideInv, BookInv
<1>6. HandsInv'
  <2>1. \A v \in Worker : guard'[v].phase \in Deciding =>
          guard[v].phase \in Deciding /\ guard[v].id # t
    BY DEF BesideInv, HandsInv
  <2>2. \A v \in Worker : guard'[v].phase = "closed" => guard[v].phase \in Deciding \cup {"closed"}
    OBVIOUS
  <2> QED BY <1>1, <1>3, <2>1, <2>2, ClosingHands DEF BesideInv
<1>7. Listed'
  <2> DEFINE e == ClosedEntry(t, o)
  <2>1. e \in Entry /\ (tail' = "clean" => tail = "clean" /\ log' \in {log, Append(log, e)})
    BY <1>1, ClosingFile
  <2> HIDE DEF e
  <2> QED BY <1>1, <2>1, InLogGrows DEF Listed, bootVars
<1>8. StageInv'
  BY <1>1, <1>4 DEF StageInv, Serving, bootVars
<1>9. Live' \subseteq Live
  BY <1>1, ClosingLive
<1> QED BY <1>2, <1>4, <1>5, <1>6, <1>7, <1>8, <1>9 DEF BesideInv, BookInv, Books

-----------------------------------------------------------------------------
(* The steps of the core.                                                  *)

\* A step of a worker keeps who holds what, and only an admission adds to the live map.
LEMMA PlaneHands ==
  ASSUME RegistryTypeOK, Books, HandsInv, NEW w \in Worker,
         \/ Admit(w) \/ Checkout(w) \/ (\E to \in Status : Advance(w, to))
         \/ UNCHANGED registryVars
         \/ (\E o \in Outcome : CloseGuard(w, o)) \/ DropGuard(w) \/ AbandonDropped(w)
  PROVE  /\ HandsInv' /\ (Live' \subseteq Live \/ Admit(w))
         /\ checkedOut' \subseteq checkedOut \/ guard[w].phase = "admitted"
         /\ \A v \in Worker : guard'[v].phase = "admitted" => guard[v].phase = "admitted" \/ Admit(w)
<1>1. /\ guard \in [Worker -> [id : Ticket, phase : GuardPhase, ok : Status]]
      /\ live \in [Ticket -> Status \cup {Absent}]
      /\ \A v \in Worker : guard[v].id \in Ticket
  BY DEF RegistryTypeOK
<1>2. CASE Admit(w)
  <2>1. nextId \in Ticket /\ nextId \in Nat
    BY <1>2, RegistryAssumption DEF Admit, RegistryTypeOK, Ticket
  <2>2. \A v \in Worker : guard[v].phase # "idle" => guard[v].id # nextId
    BY <1>1, <2>1 DEF Books, Fresh, Ticket
  <2>3. \A u \in Ticket : live[u] # Absent => live'[u] # Absent
    BY <1>1, <1>2 DEF Admit, Observed, Absent
  <2>4. \/ guard' = guard
        \/ guard' = [guard EXCEPT ![w] = [id |-> nextId, phase |-> "admitted", ok |-> Observed]]
    BY <1>2 DEF Admit
  <2>5. checkedOut' = checkedOut /\ guard[w].phase = "idle"
    BY <1>2 DEF Admit
  <2>6. \A v \in Worker :
          \/ guard'[v] = guard[v]
          \/ v = w /\ guard'[v].id = nextId /\ guard'[v].phase = "admitted"
    BY <1>1, <2>4
  <2>7. \A v, u \in Worker : v # u /\ guard'[v].phase # "idle" /\ guard'[u].phase # "idle"
                               => guard'[v].id # guard'[u].id
    BY <2>2, <2>6 DEF HandsInv
  <2>8. /\ \A v \in Worker : guard'[v].phase \in Deciding \cup {"closed"} => guard'[v].id \in checkedOut'
        /\ \A v \in Worker : guard'[v].phase \in Deciding => live'[guard'[v].id] # Absent
    BY <1>1, <2>3, <2>5, <2>6 DEF HandsInv, Deciding
  <2> QED BY <1>2, <2>5, <2>7, <2>8 DEF HandsInv
<1>3. CASE Checkout(w)
  <2>1. \/ /\ guard' = [guard EXCEPT ![w].phase = "working"]
           /\ checkedOut' = checkedOut \cup {guard[w].id} /\ live[guard[w].id] # Absent
        \/ guard' = [guard EXCEPT ![w] = Idle] /\ checkedOut' = checkedOut
    BY <1>3 DEF Checkout
  <2>2. live' = live /\ guard[w].phase = "admitted"
    BY <1>3 DEF Checkout
  <2>3. HandsInv'
    BY <1>1, <2>1, <2>2 DEF HandsInv, Deciding, Idle
  <2>4. \A v \in Worker : guard'[v].phase = "admitted" => guard[v].phase = "admitted"
    BY <1>1, <2>1 DEF Idle
  <2> QED BY <2>2, <2>3, <2>4 DEF Live
<1>4. CASE \E to \in Status : Advance(w, to)
  <2>1. PICK to \in Status : Advance(w, to)
    BY <1>4
  <2>2. checkedOut' = checkedOut /\ guard[w].phase = "working"
    BY <2>1 DEF Advance
  <2>3. \A u \in Ticket : live'[u] # Absent <=> live[u] # Absent
    <3>1. \/ live' = live
          \/ live' = [live EXCEPT ![guard[w].id] = to] /\ live[guard[w].id] # Absent
      BY <2>1 DEF Advance
    <3>2. to # Absent
      BY DEF Status, Absent
    <3> QED BY <1>1, <3>1, <3>2
  <2>4. \A v \in Worker :
          /\ guard'[v].id = guard[v].id
          /\ guard'[v].phase = guard[v].phase \/ (v = w /\ guard'[v].phase = "erred")
    BY <1>1, <2>1 DEF Advance
  <2>5. HandsInv'
    BY <1>1, <2>2, <2>3, <2>4 DEF HandsInv, Deciding
  <2> QED BY <2>2, <2>3, <2>4, <2>5 DEF Live
<1>5. CASE UNCHANGED registryVars
  BY <1>5 DEF registryVars, HandsInv, Live
<1>6. ASSUME NEW o \in Outcome, CloseLocked(guard[w].id, o), checkedOut' = checkedOut,
             \/ /\ guard' = [guard EXCEPT ![w].phase = "closed"]
                /\ guard[w].phase \in Deciding
             \/ /\ guard' = [guard EXCEPT ![w] = Idle]
                /\ guard[w].phase = "dropping"
      PROVE  /\ HandsInv' /\ Live' \subseteq Live
             /\ \A v \in Worker : guard'[v].phase = "admitted" => guard[v].phase = "admitted"
  <2>1. GuardsKeepIds
    BY <1>1, <1>6 DEF GuardsKeepIds, Deciding, Idle
  <2>2. \A v \in Worker : guard'[v].phase \in Deciding =>
          guard[v].phase \in Deciding /\ guard[v].id # guard[w].id
    BY <1>1, <1>6 DEF HandsInv, Deciding, Idle
  <2>3. /\ \A v \in Worker : guard'[v].phase = "closed" => guard[v].phase \in Deciding \cup {"closed"}
        /\ \A v \in Worker : guard'[v].phase = "admitted" => guard[v].phase = "admitted"
    BY <1>1, <1>6 DEF Idle
  <2> QED BY <1>1, <1>6, <2>1, <2>2, <2>3, ClosingHands, ClosingLive
<1>7. CASE \E o \in Outcome : CloseGuard(w, o)
  BY <1>6, <1>7 DEF CloseGuard, Deciding
<1>8. CASE DropGuard(w)
  <2>1. /\ live' = live /\ checkedOut' = checkedOut \ {guard[w].id}
        /\ guard[w].phase \in Deciding \cup {"closed"}
        /\ \/ guard' = [guard EXCEPT ![w] = Idle]
           \/ guard' = [guard EXCEPT ![w].phase = "dropping"]
    BY <1>8 DEF DropGuard, Deciding
  <2>2. \A v \in Worker \ {w} :
          guard'[v] = guard[v] /\ (guard[v].phase # "idle" => guard[v].id # guard[w].id)
    BY <1>1, <2>1 DEF HandsInv, Deciding
  <2>3. /\ guard'[w].phase \in {"idle", "dropping"}
        /\ guard'[w].phase # "idle" => guard'[w].id = guard[w].id
    BY <1>1, <2>1 DEF Idle
  <2>4. HandsInv'
    BY <1>1, <2>1, <2>2, <2>3 DEF HandsInv, Deciding
  <2>5. \A v \in Worker : guard'[v].phase = "admitted" => guard[v].phase = "admitted"
    BY <2>2, <2>3
  <2> QED BY <2>1, <2>4, <2>5 DEF Live
<1>9. CASE AbandonDropped(w)
  <2>1. "abandoned" \in Outcome
    BY DEF Outcome, Failures
  <2> QED BY <1>6, <1>9, <2>1 DEF AbandonDropped
<1> QED BY <1>2, <1>3, <1>4, <1>5, <1>7, <1>8, <1>9

\* A step of a worker.
LEMMA PlaneBeside ==
  ASSUME BesideInv, NEW w \in Worker, PlaneStep(w)
  PROVE  /\ BesideInv' /\ stage = "up" /\ stage' = "up"
         /\ Live' \subseteq Live \/ PlaneAdmit(w)
         /\ checkedOut' \subseteq checkedOut \/ guard[w].phase = "admitted"
         /\ \A v \in Worker : guard'[v].phase = "admitted" =>
              guard[v].phase = "admitted" \/ PlaneAdmit(w)
<1>1. TypeOK /\ RegistryTypeOK /\ StageInv /\ HandsInv
  BY TypeParts DEF BesideInv
<1>2. TypeOK'
  BY <1>1, PlaneTypes
<1>3. stage = "up" /\ UNCHANGED bootVars
  BY <1>1, PlaneCases
<1>4. Books
  BY <1>3 DEF BesideInv, BookInv, Serving
<1>5. {"success", "shadow", "failure"} \subseteq Outcome
  BY DEF Outcome, Successes, Failures
<1>6. \/ Admit(w) \/ Checkout(w) \/ (\E to \in Status : Advance(w, to))
      \/ UNCHANGED <<registryVars, journalVars>>
      \/ (\E o \in Outcome : CloseGuard(w, o)) \/ DropGuard(w) \/ AbandonDropped(w)
  BY <1>1, <1>5, PlaneCases DEF Send
<1>7. /\ HandsInv' /\ (Live' \subseteq Live \/ Admit(w))
      /\ checkedOut' \subseteq checkedOut \/ guard[w].phase = "admitted"
      /\ \A v \in Worker : guard'[v].phase = "admitted" => guard[v].phase = "admitted" \/ Admit(w)
  BY <1>1, <1>4, <1>6, PlaneHands
<1>8. Admit(w) => PlaneAdmit(w)
  BY <1>1 DEF PlaneStep, PlaneAdmit, PlaneCheckout, PlaneAdvance, Send, PlaneClose, PlaneDrop,
              Admit, Checkout, Advance, CloseGuard, DropGuard, AbandonDropped, StageInv
<1>9. Books'
  <2>1. guard \in [Worker -> [id : Ticket, phase : GuardPhase, ok : Status]]
    BY <1>1 DEF RegistryTypeOK
  <2>2. CASE Admit(w)
    BY <1>1, <1>4, <2>2, AdmitBooks
  <2>3. CASE Checkout(w)
    <3>1. GuardsKeepIds
      BY <2>1, <2>3 DEF Checkout, GuardsKeepIds, Idle
    <3> QED BY <1>4, <2>3, <3>1, GuardBooks DEF Checkout, journalVars
  <2>4. CASE \E to \in Status : Advance(w, to)
    BY <1>1, <1>4, <2>4, AdvanceBooks
  <2>5. CASE UNCHANGED <<registryVars, journalVars>>
    <3>1. GuardsKeepIds
      BY <2>5 DEF registryVars, GuardsKeepIds
    <3> QED BY <1>4, <2>5, <3>1, GuardBooks DEF registryVars, journalVars
  <2>6. CASE \E o \in Outcome : CloseGuard(w, o)
    <3>1. PICK o \in Outcome : CloseGuard(w, o)
      BY <2>6
    <3>2. GuardsKeepIds /\ guard[w].id \in Ticket
      BY <2>1, <3>1 DEF CloseGuard, GuardsKeepIds
    <3> QED BY <1>1, <1>4, <3>1, <3>2, CloseBooks DEF CloseGuard
  <2>7. CASE DropGuard(w)
    <3>1. GuardsKeepIds
      BY <2>1, <2>7 DEF DropGuard, GuardsKeepIds, Idle
    <3> QED BY <1>4, <2>7, <3>1, GuardBooks DEF DropGuard, journalVars
  <2>8. CASE AbandonDropped(w)
    <3>1. GuardsKeepIds /\ guard[w].id \in Ticket /\ "abandoned" \in Outcome
      BY <2>1, <2>8 DEF AbandonDropped, GuardsKeepIds, Idle, Outcome, Failures
    <3> QED BY <1>1, <1>4, <2>8, <3>1, CloseBooks DEF AbandonDropped
  <2> QED BY <1>6, <2>2, <2>3, <2>4, <2>5, <2>6, <2>7, <2>8
<1>10. StageInv' /\ Listed'
  BY <1>1, <1>3 DEF StageInv, Serving, Listed, bootVars
<1> QED BY <1>2, <1>3, <1>7, <1>8, <1>9, <1>10 DEF BesideInv, BookInv, Books, bootVars

\* Nobody holds a ticket in a process that is not up.
LEMMA IdleHands ==
  ASSUME \A w \in Worker : guard'[w].phase = "idle"
  PROVE  HandsInv'
BY DEF HandsInv, Deciding

\* A death of the process.
LEMMA DyingBeside ==
  ASSUME BesideInv, TypeOK', Dying
  PROVE  BesideInv'
<1>1. LogShape' /\ Accounting' /\ StageInv' /\ ~Serving'
  BY DyingShape DEF BesideInv, BookInv, Listed
<1>2. HandsInv'
  BY IdleHands DEF Dying, NewMemory, Idle
<1>3. Listed'
  BY DEF Dying, NewMemory, Listed
<1> QED BY <1>1, <1>2, <1>3 DEF BesideInv, BookInv

\* A step of boot.
LEMMA BootBeside ==
  ASSUME BesideInv, Boot
  PROVE  BesideInv' /\ stage # "up"
<1>1. TypeOK /\ RegistryTypeOK /\ JournalTypeOK /\ StageInv /\ LogShape /\ Listed /\ TypeOK'
  BY TypeParts, RegistryTypeParts, BootTypes DEF BesideInv, BookInv
<1>2. stage # "up"
  BY DEF Boot, BootScan, CloseNeverSigned, Resolve, OpenGate
<1>3. \A w \in Worker : guard[w].phase = "idle"
  BY <1>1, <1>2 DEF StageInv
<1>4. ASSUME guard' = guard PROVE GuardsKeepIds /\ HandsInv'
  <2>1. \A w \in Worker : guard'[w].phase = "idle"
    BY <1>3, <1>4
  <2> QED BY <2>1, IdleHands DEF GuardsKeepIds
<1>5. CASE Scanned
  <2>1. Books' /\ StageInv'
    BY <1>1, <1>5, ScannedBooks
  <2>2. guard' = guard /\ log' = log /\ never' \cup maybe' = InFlight
    BY <1>5 DEF Scanned, journalVars
  <2>3. Listed'
    BY <2>2, ReadsInLog DEF Listed, InFlight, InLog
  <2> QED BY <1>1, <1>2, <1>4, <2>1, <2>2, <2>3 DEF BesideInv, BookInv, Books
<1>6. ASSUME NEW t \in Ticket, NEW o \in Outcome, BootClosing(t, o)
      PROVE  BesideInv'
  <2>1. /\ stage = "closing" /\ stage' = "closing" /\ UNCHANGED <<guard, nextId, gate>>
        /\ CloseLocked(t, o) /\ never' \subseteq never /\ maybe' \subseteq maybe
    BY <1>6 DEF BootClosing, CloseLocked
  <2>2. Books'
    BY <1>1, <1>4, <2>1, CloseBooks DEF BesideInv, BookInv, Serving
  <2>3. StageInv'
    BY <1>1, <2>1 DEF StageInv, Serving
  <2> DEFINE e == ClosedEntry(t, o)
  <2>4. e \in Entry /\ (tail' = "clean" => tail = "clean" /\ log' \in {log, Append(log, e)})
    BY <1>1, <2>1, ClosingFile
  <2> HIDE DEF e
  <2>5. Listed'
    BY <1>1, <2>1, <2>4, InLogGrows DEF Listed
  <2> QED BY <1>1, <1>4, <2>1, <2>2, <2>3, <2>5 DEF BesideInv, BookInv, Books
<1>7. CASE Dying
  BY <1>1, <1>2, <1>7, DyingBeside
<1>8. CASE OpenGate
  <2>1. /\ stage = "closing" /\ stage' = "up" /\ never' = {} /\ maybe' = {}
        /\ UNCHANGED <<live, checkedOut, outcomes, nextId, metrics, guard, log, tail>>
    BY <1>8 DEF OpenGate, registryVars, journalVars
  <2>2. Books'
    BY <1>4, <2>1, GuardBooks DEF BesideInv, BookInv, Serving
  <2>3. StageInv' /\ Listed'
    BY <2>1 DEF StageInv, Serving, Listed
  <2> QED BY <1>1, <1>4, <2>1, <2>2, <2>3 DEF BesideInv, BookInv, Books
<1>9. CASE Refused
  <2>1. /\ stage = "down" /\ stage' = "refused"
        /\ UNCHANGED <<live, outcomes, metrics, guard, log, tail, gate, never, maybe>>
    BY <1>9 DEF Refused, registryVars, journalVars
  <2>2. StageInv' /\ Listed' /\ ~Serving'
    BY <1>1, <2>1 DEF StageInv, Serving, Listed, InLog
  <2>3. Live' = Live /\ Accounting
    BY <2>1 DEF Live, BesideInv, BookInv
  <2>4. BookInv'
    BY <1>1, <2>1, <2>2, <2>3 DEF BookInv, LogShape, Accounting, TicketDropCount
  <2> QED BY <1>1, <1>4, <2>1, <2>2, <2>4 DEF BesideInv
<1> QED BY <1>1, <1>2, <1>5, <1>6, <1>7, <1>8, <1>9, BootCases

\* A step in which the core does nothing.
LEMMA BesideStutter ==
  ASSUME BesideInv, UNCHANGED vars
  PROVE  BesideInv' /\ Live' = Live
<1>1. UNCHANGED <<registryVars, journalVars, bootVars, chain, crashes>>
  BY DEF vars
<1>2. Live' = Live
  BY <1>1 DEF Live, registryVars
<1>3. TypeOK'
  BY StepTypes DEF BesideInv
<1>4. StageInv' /\ Listed' /\ HandsInv'
  BY <1>1 DEF BesideInv, StageInv, Serving, Listed, HandsInv, InLog, registryVars, journalVars, bootVars
<1>5. BookInv'
  BY <1>1, <1>2 DEF BesideInv, BookInv, Serving, Books, LogShape, Fresh, LiveUndecided,
                    LiveOnRecord, OnRecordLive, InLog, Accounting, TicketDropCount,
                    registryVars, journalVars, bootVars
<1> QED BY <1>2, <1>3, <1>4, <1>5 DEF BesideInv

-----------------------------------------------------------------------------
(* The drain.                                                              *)

\* There is one least ticket.
LEMMA LeastIsOne ==
  ASSUME NEW S \in SUBSET Ticket, NEW s \in Least(S), NEW t \in Least(S)
  PROVE  s = t /\ s \in S /\ s \in Ticket
BY DEF Least, Ticket

\* Every step of the drain, of the sweeper and of the core beside them keeps the
\* invariant; the live map never grows while the drain runs.
LEMMA DrainStep ==
  ASSUME DrainInv, [DrainNext]_drainVars
  PROVE  /\ DrainInv'
         /\ drain.pc # "off" /\ drain' = drain => Live' \subseteq Live
<1>1. BesideInv /\ DrainLocals /\ DrainStage /\ RegistryTypeOK
  BY TypeParts DEF DrainInv, BesideInv
<1>2. ASSUME UNCHANGED vars, DrainLocals',
             drain'.pc # "off" => drain.pc # "off",
             drain'.pc = "close" => \A t \in Least(drain'.todo) : t \notin checkedOut
      PROVE  DrainInv' /\ Live' = Live
  <2>1. BesideInv' /\ Live' = Live
    BY <1>1, <1>2, BesideStutter
  <2>2. DrainStage'
    BY <1>1, <1>2 DEF DrainStage, Least, vars, registryVars, bootVars
  <2> QED BY <1>2, <2>1, <2>2 DEF DrainInv
<1>3. CASE DrainBegin
  <2>1. UNCHANGED vars /\ drain' = [NoDrain EXCEPT !.pc = "read", !.todo = Live]
    BY <1>3 DEF DrainBegin
  <2>2. Live \subseteq Ticket
    BY DEF Live
  <2>3. DrainLocals' /\ drain'.pc = "read"
    BY <2>1, <2>2 DEF NoDrain, DrainLocals
  <2>4. BesideInv'
    BY <1>1, <2>1, BesideStutter
  <2>5. DrainStage'
    BY <1>3, <2>1, <2>3 DEF DrainBegin, DrainStage, vars, registryVars, bootVars
  <2>6. drain' # drain
    BY <1>3, <2>3 DEF DrainBegin
  <2> QED BY <2>3, <2>4, <2>5, <2>6 DEF DrainInv
<1>4. CASE DrainRead
  <2>1. PICK t \in Least(drain.todo) :
          drain' = IF live[t] = Absent
                     THEN [drain EXCEPT !.todo = @ \ {t}]
                   ELSE IF MayBeOnChain(live[t])
                     THEN [drain EXCEPT !.todo = @ \ {t}, !.handed = @ \cup {t}]
                   ELSE [drain EXCEPT !.pc = "ask"]
    BY <1>4 DEF DrainRead
  <2>2. t \in Ticket /\ drain.pc = "read"
    BY <1>1, <1>4, <2>1 DEF DrainRead, Least, DrainLocals
  <2>3. DrainLocals' /\ drain'.pc # "close"
    BY <1>1, <2>1, <2>2 DEF DrainLocals
  <2>4. DrainInv' /\ Live' = Live
    BY <1>2, <1>4, <2>2, <2>3 DEF DrainRead
  <2> QED BY <2>4
<1>5. CASE DrainAsk
  <2>1. PICK t \in Least(drain.todo) :
          drain' = IF t \in checkedOut
                     THEN [drain EXCEPT !.pc = "read", !.todo = @ \ {t}, !.handed = @ \cup {t}]
                   ELSE [drain EXCEPT !.pc = "close"]
    BY <1>5 DEF DrainAsk
  <2>2. t \in Ticket /\ drain.pc = "ask"
    BY <1>1, <1>5, <2>1 DEF DrainAsk, Least, DrainLocals
  <2>3. DrainLocals'
    BY <1>1, <2>1, <2>2 DEF DrainLocals
  <2>4. drain'.pc = "close" => \A s \in Least(drain'.todo) : s \notin checkedOut
    <3>1. drain'.pc = "close" => t \notin checkedOut /\ drain'.todo = drain.todo
      BY <1>1, <2>1 DEF DrainLocals
    <3>2. \A s \in Least(drain.todo) : s = t
      BY <1>1, <2>1, LeastIsOne DEF DrainLocals
    <3> QED BY <3>1, <3>2
  <2>5. DrainInv' /\ Live' = Live
    BY <1>2, <1>5, <2>2, <2>3, <2>4 DEF DrainAsk
  <2> QED BY <2>5
<1>6. CASE DrainClose
  <2>1. PICK t \in Least(drain.todo) :
          /\ CloseLocked(t, "shut_down")
          /\ \/ drain' = [drain EXCEPT !.pc = "read", !.todo = @ \ {t}, !.closed = @ \cup {t}]
             \/ drain' = [drain EXCEPT !.pc = "read", !.todo = @ \ {t}]
    BY <1>6 DEF DrainClose, CloseLocked
  <2>2. /\ t \in Ticket /\ t \notin checkedOut /\ stage = "up" /\ "shut_down" \in Outcome
        /\ drain.pc = "close" /\ UNCHANGED <<checkedOut, nextId, guard, bootVars, chain, crashes>>
    BY <1>1, <1>6, <2>1 DEF DrainClose, Least, DrainLocals, DrainStage, Outcome, Failures
  <2>3. BesideInv' /\ Live' \subseteq Live
    BY <1>1, <2>1, <2>2, ClosingBeside
  <2> DEFINE todo == drain.todo \ {t}
             closed == drain.closed \cup {t}
  <2>4. DrainLocals' /\ drain'.pc = "read"
    <3>1. todo \in SUBSET Ticket /\ closed \in SUBSET Ticket
      BY <1>1, <2>2 DEF DrainLocals
    <3>2. \/ drain' = [drain EXCEPT !.pc = "read", !.todo = todo, !.closed = closed]
          \/ drain' = [drain EXCEPT !.pc = "read", !.todo = todo]
      BY <2>1
    <3> HIDE DEF todo, closed
    <3> QED BY <1>1, <3>1, <3>2 DEF DrainLocals
  <2>5. DrainStage'
    BY <1>1, <2>2, <2>4 DEF DrainStage, bootVars
  <2> QED BY <2>3, <2>4, <2>5 DEF DrainInv
<1>7. CASE DrainEnd
  <2>1. DrainLocals' /\ drain'.pc = "done"
    BY <1>1, <1>7 DEF DrainEnd, DrainLocals
  <2>2. DrainInv' /\ Live' = Live
    BY <1>2, <1>7, <2>1 DEF DrainEnd
  <2> QED BY <2>2
<1>8. CASE SweepRegistry
  <2>1. PICK t \in Ticket : Sweep(t)
    BY <1>8 DEF SweepRegistry
  <2>2. "timeout" \in Outcome /\ CloseLocked(t, "timeout") /\ t \notin checkedOut /\ live[t] # Absent
    BY <2>1 DEF Sweep, CloseLocked, Outcome, Failures
  <2>3. UNCHANGED <<checkedOut, nextId, guard, bootVars, chain, crashes, drain>>
    BY <1>8, <2>1 DEF SweepRegistry, Sweep
  <2>4. BesideInv' /\ Live' \subseteq Live
    BY <1>1, <2>2, <2>3, ClosingBeside
  <2>5. DrainLocals' /\ DrainStage'
    BY <1>1, <2>3 DEF DrainLocals, DrainStage, Least, bootVars
  <2> QED BY <2>4, <2>5 DEF DrainInv
<1>9. ASSUME NEW w \in Worker, PlaneStep(w), PlaneAdmit(w) => drain.pc = "off", drain' = drain
      PROVE  DrainInv' /\ (drain.pc # "off" => Live' \subseteq Live)
  <2>1. /\ BesideInv' /\ stage' = "up"
        /\ Live' \subseteq Live \/ PlaneAdmit(w)
        /\ checkedOut' \subseteq checkedOut \/ guard[w].phase = "admitted"
        /\ \A v \in Worker : guard'[v].phase = "admitted" =>
             guard[v].phase = "admitted" \/ PlaneAdmit(w)
    BY <1>1, <1>9, PlaneBeside
  <2>2. DrainLocals'
    BY <1>1, <1>9 DEF DrainLocals
  <2>3. DrainStage'
    BY <1>1, <1>9, <2>1 DEF DrainStage, Least
  <2> QED BY <1>9, <2>1, <2>2, <2>3 DEF DrainInv
<1>10. CASE \E w \in Worker :
              /\ \/ drain.pc = "off" /\ PlaneAdmit(w)
                 \/ PlaneCheckout(w) \/ PlaneAdvance(w) \/ Send(w)
                 \/ PlaneClose(w) \/ PlaneDrop(w)
              /\ drain' = drain
  <2>1. PICK w \in Worker :
              /\ \/ drain.pc = "off" /\ PlaneAdmit(w)
                 \/ PlaneCheckout(w) \/ PlaneAdvance(w) \/ Send(w)
                 \/ PlaneClose(w) \/ PlaneDrop(w)
              /\ drain' = drain
    BY <1>10
  <2>2. PlaneStep(w)
    BY <2>1 DEF PlaneStep
  <2>3. PlaneAdmit(w) => drain.pc = "off"
    BY <1>1, <2>1 DEF PlaneAdmit, Admit, PlaneCheckout, Checkout, PlaneAdvance, Advance, Send,
                      PlaneClose, CloseGuard, PlaneDrop, DropGuard, AbandonDropped,
                      BesideInv, StageInv, DrainStage
  <2> QED BY <1>9, <2>1, <2>2, <2>3
<1>11. CASE Boot /\ drain' = drain
  <2>1. BesideInv' /\ stage # "up"
    BY <1>1, <1>11, BootBeside
  <2>2. drain.pc = "off"
    BY <1>1, <2>1 DEF DrainStage
  <2>3. DrainLocals' /\ DrainStage'
    BY <1>1, <1>11, <2>2 DEF DrainLocals, DrainStage
  <2> QED BY <2>1, <2>2, <2>3 DEF DrainInv
<1>12. CASE Crash /\ drain' = NoDrain
  <2>1. TypeOK' /\ Dying
    BY <1>1, <1>12, CrashTypes, CrashDies DEF BesideInv
  <2>2. BesideInv'
    BY <1>1, <2>1, DyingBeside
  <2>3. DrainLocals' /\ DrainStage' /\ drain'.pc = "off"
    BY <1>12 DEF NoDrain, DrainLocals, DrainStage
  <2> QED BY <1>12, <2>2, <2>3 DEF DrainInv
<1>13. CASE UNCHANGED drainVars
  <2>1. UNCHANGED vars /\ drain' = drain
    BY <1>13 DEF drainVars
  <2>2. DrainLocals' /\ (drain'.pc = "close" => \A t \in Least(drain'.todo) : t \notin checkedOut)
    BY <1>1, <2>1 DEF DrainLocals, DrainStage
  <2>3. DrainInv' /\ Live' = Live
    BY <1>2, <2>1, <2>2
  <2> QED BY <2>3
<1> QED BY <1>3, <1>4, <1>5, <1>6, <1>7, <1>8, <1>10, <1>11, <1>12, <1>13
        DEF DrainNext, Drain, Others

\* The first state.
LEMMA DrainStart == DrainInit => DrainInv
<1> SUFFICES ASSUME DrainInit PROVE DrainInv
  OBVIOUS
<1>1. CoreInv /\ drain = NoDrain /\ never = {} /\ maybe = {}
  BY CoreInit DEF DrainInit, Init
<1>2. HandsInv
  BY DEF DrainInit, Init, RegistryInit, HandsInv, Deciding, Idle
<1>3. DrainLocals /\ DrainStage
  BY <1>1 DEF NoDrain, DrainLocals, DrainStage
<1> QED BY <1>1, <1>2, <1>3 DEF DrainInv, BesideInv, CoreInv, WriteAheadInv, CoreRest, Listed

\* The invariant holds in every state, whoever sweeps or drains.
LEMMA DrainHolds == DrainSpec => []DrainInv
<1>1. DrainInv /\ [DrainNext]_drainVars => DrainInv'
  BY DrainStep
<1> QED BY DrainStart, <1>1, PTL DEF DrainSpec

\* The core and the drain keep their types.
THEOREM DrainTypeCorrect == DrainSpec => []DrainTypeOK
<1>1. DrainInv => DrainTypeOK
  BY DEF DrainInv, BesideInv, DrainLocals, DrainTypeOK
<1> QED BY DrainHolds, <1>1, PTL

\* INV-02 with a sweeper and a drain closing tickets under everybody's hands: the drop
\* count is zero and the live counter counts the live map.
THEOREM DrainAccounting == DrainSpec => []Accounting
<1>1. DrainInv => Accounting
  BY DEF DrainInv, BesideInv, BookInv
<1> QED BY DrainHolds, <1>1, PTL

\* Neither a sweep nor the drain nor another worker takes a ticket from a worker that
\* has still to decide about it.
THEOREM HeldStaysLive == DrainSpec => []HeldIsLive
<1>1. DrainInv => HeldIsLive
  <2>1. SUFFICES ASSUME DrainInv, NEW w \in Worker, guard[w].phase \in {"working", "erred"}
                 PROVE  /\ live[guard[w].id] # Absent
                        /\ outcomes[guard[w].id] = "none"
                        /\ guard[w].id \in checkedOut
                        /\ \A v \in Worker \ {w} :
                             guard[v].phase \in {"idle"} \/ guard[v].id # guard[w].id
    BY DEF HeldIsLive
  <2>2. guard[w].id \in Ticket
    BY <2>1, TypeParts DEF DrainInv, BesideInv, RegistryTypeOK
  <2>3. Books
    BY <2>1 DEF DrainInv, BesideInv, StageInv, BookInv, Serving
  <2>4. /\ live[guard[w].id] # Absent /\ guard[w].id \in checkedOut
        /\ \A v \in Worker \ {w} :
             guard[v].phase \in {"idle"} \/ guard[v].id # guard[w].id
    BY <2>1 DEF DrainInv, BesideInv, HandsInv, Deciding
  <2> QED BY <2>2, <2>3, <2>4 DEF Books, LiveUndecided
<1> QED BY DrainHolds, <1>1, PTL

\* While the drain runs, every live ticket is still to be looked at or handed over.
Accounted ==
  /\ drain.pc \in {"read", "ask", "close"} => Live \subseteq drain.todo \cup drain.handed
  /\ drain.pc = "done" => Live \subseteq drain.handed

\* No step of the drain drops a ticket between its columns if no append fails.
LEMMA AccountedStep ==
  ASSUME MaxFaults = 0, DrainInv, Accounted, [DrainNext]_drainVars
  PROVE  Accounted'
<1>1. DrainLocals /\ RegistryTypeOK /\ BesideInv
  BY TypeParts DEF DrainInv, BesideInv
<1>2. CASE drain' = drain
  BY <1>2, DrainStep DEF Accounted, DrainLocals
<1>3. UNCHANGED vars => Live' = Live
  BY <1>1, BesideStutter
<1>4. CASE DrainBegin
  BY <1>3, <1>4 DEF DrainBegin, Accounted, NoDrain
<1>5. CASE DrainRead
  <2>1. PICK t \in Least(drain.todo) :
          drain' = IF live[t] = Absent
                     THEN [drain EXCEPT !.todo = @ \ {t}]
                   ELSE IF MayBeOnChain(live[t])
                     THEN [drain EXCEPT !.todo = @ \ {t}, !.handed = @ \cup {t}]
                   ELSE [drain EXCEPT !.pc = "ask"]
    BY <1>5 DEF DrainRead
  <2>2. Live' = Live /\ drain.pc = "read"
    BY <1>3, <1>5 DEF DrainRead
  <2>3. /\ drain'.pc \in {"read", "ask"}
        /\ \/ live[t] = Absent /\ drain'.todo = drain.todo \ {t} /\ drain'.handed = drain.handed
           \/ drain'.todo = drain.todo \ {t} /\ drain'.handed = drain.handed \cup {t}
           \/ drain'.todo = drain.todo /\ drain'.handed = drain.handed
    BY <1>1, <2>1, <2>2 DEF DrainLocals
  <2> QED BY <2>2, <2>3 DEF Accounted, Live
<1>6. CASE DrainAsk
  <2>1. PICK t \in Least(drain.todo) :
          drain' = IF t \in checkedOut
                     THEN [drain EXCEPT !.pc = "read", !.todo = @ \ {t}, !.handed = @ \cup {t}]
                   ELSE [drain EXCEPT !.pc = "close"]
    BY <1>6 DEF DrainAsk
  <2>2. Live' = Live /\ drain.pc = "ask"
    BY <1>3, <1>6 DEF DrainAsk
  <2>3. /\ drain'.pc \in {"read", "close"}
        /\ \/ drain'.todo = drain.todo \ {t} /\ drain'.handed = drain.handed \cup {t}
           \/ drain'.todo = drain.todo /\ drain'.handed = drain.handed
    BY <1>1, <2>1 DEF DrainLocals
  <2> QED BY <2>2, <2>3 DEF Accounted
<1>7. CASE DrainClose
  <2>1. PICK t \in Least(drain.todo) :
          \/ /\ CloseOk(t, "shut_down")
             /\ drain' = [drain EXCEPT !.pc = "read", !.todo = @ \ {t}, !.closed = @ \cup {t}]
          \/ /\ CloseFails(t, "shut_down") \/ CloseRefused(t)
             /\ drain' = [drain EXCEPT !.pc = "read", !.todo = @ \ {t}]
    BY <1>7 DEF DrainClose
  <2>2. drain.pc = "close" /\ t \in Ticket /\ "shut_down" \in Outcome
    BY <1>1, <1>7, <2>1 DEF DrainClose, Least, DrainLocals, Outcome, Failures
  <2>3. ~CloseFails(t, "shut_down")
    BY <1>1 DEF CloseFails, JournalFails, RegistryTypeOK
  <2>4. CloseRefused(t) => t \notin Live
    <3>1. Books
      BY <1>1, <2>2 DEF DrainInv, DrainStage, BesideInv, BookInv, Serving
    <3> QED BY <2>2, <3>1 DEF CloseRefused, Closeable, Live, Books, LiveUndecided
  <2>5. Live' \subseteq Live /\ t \notin Live'
    BY <1>1, <2>1, <2>2, <2>3, <2>4, ClosingLive DEF CloseLocked
  <2>6. drain'.pc = "read" /\ drain'.todo = drain.todo \ {t} /\ drain'.handed = drain.handed
    BY <1>1, <2>1 DEF DrainLocals
  <2> QED BY <2>2, <2>5, <2>6 DEF Accounted
<1>8. CASE DrainEnd
  BY <1>1, <1>3, <1>8 DEF DrainEnd, Accounted, DrainLocals
<1>9. CASE drain' = NoDrain
  BY <1>9 DEF NoDrain, Accounted
<1> QED BY <1>2, <1>4, <1>5, <1>6, <1>7, <1>8, <1>9
        DEF DrainNext, Drain, SweepRegistry, Others, drainVars

\* The drain's two columns leave nothing between them, if no append fails: a ticket
\* still live when it ends is one it handed to recovery.
THEOREM DrainWalksPastNone ==
  ASSUME MaxFaults = 0
  PROVE  DrainSpec => []NothingWalkedPast
<1>1. DrainInit => Accounted
  BY DEF DrainInit, NoDrain, Accounted
<1>2. DrainInv /\ Accounted /\ [DrainNext]_drainVars => Accounted'
  BY AccountedStep
<1>3. Accounted => NothingWalkedPast
  BY DEF Accounted, NothingWalkedPast
<1> QED BY DrainHolds, <1>1, <1>2, <1>3, PTL DEF DrainSpec

=============================================================================
