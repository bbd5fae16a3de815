------------------------------ MODULE Recovery ------------------------------
(***************************************************************************)
(* The capture core end to end: the plane drives tickets through the       *)
(* registry and sends their transactions, the process dies, and the next   *)
(* one reads the journal, settles what was in flight and opens the         *)
(* dispatch gate (recover.rs, plane.rs).                                   *)
(***************************************************************************)
EXTENDS TicketRegistry

CONSTANTS
  Milestone,   \* the statuses the plane takes a ticket through, an instance's
               \* selection of the twelve
  MaxCrashes   \* bound: deaths of the process

ASSUME RecoveryAssumption ==
  /\ Milestone \subseteq Status \ {Observed}
  /\ {Signed, Dispatching} \subseteq Milestone
  /\ MaxCrashes \in Nat

VARIABLES
  gate,     \* DispatchGate: whether dispatch is allowed
  stage,    \* the process: down, closing and resolving (boot), up, refused
  never,    \* the scan's worklist of tickets below Signed ...
  maybe,    \* ... and of those the chain must be asked about
  chain,    \* Ticket -> what became of its transaction
  crashes

bootVars == <<gate, stage, never, maybe>>
vars == <<registryVars, journalVars, bootVars, chain, crashes>>

Init ==
  /\ RegistryInit
  /\ JournalInit
  /\ gate = FALSE
  /\ stage = "down"
  /\ never = {}
  /\ maybe = {}
  /\ chain = [t \in Ticket |-> "none"]
  /\ crashes = 0

-----------------------------------------------------------------------------
(* The plane's use of the registry: drive and protocol.                    *)

Least(S) == {s \in S : \A r \in S : s <= r}

\* What settlement must have seen before the plane moves a ticket on.
Observable(t, to) == to >= Included => chain[t] = "landed"

PlaneAdmit(w) ==
  /\ gate
  /\ Admit(w)
  /\ UNCHANGED <<bootVars, chain, crashes>>

PlaneCheckout(w) ==
  /\ Checkout(w)
  /\ UNCHANGED <<bootVars, chain, crashes>>

PlaneAdvance(w) ==
  \E to \in Least({s \in Milestone : s > guard[w].ok}) :
    /\ Observable(guard[w].id, to)
    /\ Advance(w, to)
    /\ UNCHANGED <<bootVars, chain, crashes>>

\* The transaction leaves the process: advance(Dispatching) has returned Ok and
\* the gate gives a permit.
Send(w) ==
  /\ guard[w].phase = "working"
  /\ guard[w].ok = Dispatching
  /\ gate
  /\ chain[guard[w].id] = "none"
  /\ chain' = [chain EXCEPT ![guard[w].id] = "pending"]
  /\ UNCHANGED <<registryVars, journalVars, bootVars, crashes>>

\* drive closes with what protocol returned: a settled trade, a shadow ticket
\* the null dispatcher accepted, or the decline of whatever step refused.
PlaneClose(w) ==
  /\ \/ guard[w].phase = "working" /\ guard[w].ok = Reconciled /\ CloseGuard(w, "success")
     \/ /\ guard[w].phase = "working"
        /\ \A s \in Milestone : s <= Acknowledged => s <= guard[w].ok
        /\ chain[guard[w].id] = "none"
        /\ CloseGuard(w, "shadow")
     \/ guard[w].phase = "erred" /\ CloseGuard(w, "failure")
     \/ guard[w].ok < Reconciled /\ CloseGuard(w, "failure")
  /\ UNCHANGED <<bootVars, chain, crashes>>

\* The guard goes out of scope: after its close, or because the task was
\* cancelled at an await.
PlaneDrop(w) ==
  /\ DropGuard(w) \/ AbandonDropped(w)
  /\ UNCHANGED <<bootVars, chain, crashes>>

-----------------------------------------------------------------------------
(* The chain, which nobody asks for permission.                            *)

ChainSettles ==
  \E t \in Ticket, fate \in {"landed", "dropped"} :
    /\ chain[t] = "pending"
    /\ chain' = [chain EXCEPT ![t] = fate]
    /\ UNCHANGED <<registryVars, journalVars, bootVars, crashes>>

-----------------------------------------------------------------------------
(* Death and boot.                                                         *)

\* The memory of a process that died.
NewMemory ==
  /\ live' = [t \in Ticket |-> Absent]
  /\ checkedOut' = {}
  /\ outcomes' = [t \in Ticket |-> "none"]
  /\ nextId' = 1
  /\ metrics' = NoMetrics
  /\ guard' = [w \in Worker |-> Idle]
  /\ gate' = FALSE
  /\ stage' = "down"
  /\ never' = {}
  /\ maybe' = {}

\* What a power failure can leave of the file: a cut of it at any byte that no
\* fsync covers.
Cuts ==
  IF firm # "clean" THEN {[log |-> log, tail |-> f] : f \in {firm, tail}}
  ELSE {[log |-> SubSeq(log, 1, k), tail |-> "clean"] : k \in synced..Len(Ended)}
         \cup {[log |-> SubSeq(log, 1, k), tail |-> "bare"] : k \in (synced + 1)..Len(log)}
         \cup {[log |-> SubSeq(log, 1, k), tail |-> "piece"] :
                 k \in {n \in synced..Len(log) : n < Len(log) \/ tail \notin {"clean", "bare"}}}
         \cup (IF tail \in {"line", "behind"}
                 THEN {[log |-> log, tail |-> f] : f \in {"line", tail}} ELSE {})

\* Somebody may be inside an append.
Appending == stage = "up" \/ never # {} \/ maybe # {}

\* The process dies.  The file keeps what was written, a piece of the line that
\* was being appended with it; if the machine dies too, any cut of that from
\* what was fsynced on.  (What survived is not counted as fsynced, so a second
\* power failure may take more.  A death behind a whole line, or one that lacks
\* its newline only, is a failed append with a death behind it.)
Crash ==
  /\ stage # "down"
  /\ crashes < MaxCrashes
  /\ crashes' = crashes + 1
  /\ NewMemory
  /\ \/ UNCHANGED <<log, tail>>
     \/ Appending /\ Torn
     \/ \E cut \in Cuts : log' = cut.log /\ tail' = cut.tail
  /\ UNCHANGED <<synced, firm, faults, chain>>

\* What scan makes of the journal: of log, the lines replay hands it.
LogIndexes(t, kind) == {i \in 1..Len(log) : log[i].id = t /\ log[i].kind = kind}

AdmittedIn(t) == LogIndexes(t, "admitted") # {}
ClosedIn(t)   == LogIndexes(t, "closed") # {}

\* The status the last Advanced entry assigned.
ScanStatus(t) ==
  LET moves == LogIndexes(t, "advanced") IN
  IF moves = {} THEN Observed
  ELSE log[CHOOSE i \in moves : \A j \in moves : j <= i].to

InFlight == {t \in Ticket : AdmittedIn(t) /\ ~ClosedIn(t)}

\* DuplicateAdmission, or OrphanEntry: an entry before its admission.
Unreadable ==
  \/ \E i, j \in 1..Len(log) :
       i # j /\ log[i].kind = "admitted" /\ log[j].kind = "admitted" /\ log[i].id = log[j].id
  \/ \E i \in 1..Len(log) : \A j \in 1..i : log[j].kind # "admitted" \/ log[j].id # log[i].id

\* Mutant of HighestId: ids are not reserved through the journal's.
HighestId_Unread == 0

HighestId == IF log = <<>> THEN 0
             ELSE CHOOSE m \in {log[i].id : i \in 1..Len(log)} :
                    \A i \in 1..Len(log) : log[i].id <= m

\* boot up to the end of reconcile's restore loop: replay, scan,
\* reserve_ids_through, restore.  Replay and scan may refuse the file.  Nothing
\* else runs in the process yet.
BootScan ==
  /\ stage = "down"
  /\ \/ /\ tail = "behind" \/ Unreadable
        /\ stage' = "refused"
        /\ UNCHANGED <<registryVars, gate, never, maybe>>
     \/ /\ tail # "behind"
        /\ ~Unreadable
        /\ stage' = "closing"
        /\ nextId' = HighestId + 1
        /\ live' = [t \in Ticket |-> IF t \in InFlight THEN ScanStatus(t) ELSE Absent]
        /\ metrics' = [NoMetrics EXCEPT !.admitted = Cardinality(InFlight),
                                        !.live = Cardinality(InFlight)]
        /\ never' = {t \in InFlight : ~MayBeOnChain(ScanStatus(t))}
        /\ maybe' = {t \in InFlight : MayBeOnChain(ScanStatus(t))}
        /\ UNCHANGED <<checkedOut, outcomes, guard, gate>>
  /\ UNCHANGED <<journalVars, chain, crashes>>

\* Mutant of BootFails: the process hangs instead of exiting.
BootFails_Wedged ==
  /\ stage' = "refused"
  /\ UNCHANGED <<registryVars, gate, never, maybe, chain, crashes>>

\* An error out of reconcile ends boot, and the process with it.
BootFails ==
  /\ NewMemory
  /\ UNCHANGED <<chain, crashes>>

\* Tickets below Signed, in journal order, closed without asking anybody.
CloseNeverSigned ==
  \E t \in Least(never) :
    /\ stage = "closing"
    /\ \/ /\ CloseOk(t, "never_signed")
          /\ never' = never \ {t}
          /\ UNCHANGED <<checkedOut, nextId, guard, gate, stage, maybe, chain, crashes>>
       \/ /\ JournalFails(ClosedEntry(t, "never_signed"))
          /\ BootFails

\* What the chain source reports once it can.
ChainAnswer(t) == IF chain[t] = "landed" THEN "landed" ELSE "not_landed"

\* Then the others.  A source that cannot answer -- it is down, or the
\* transaction is still pending -- fails the boot and never reads as "it did
\* not land".
Resolve ==
  \E t \in Least(maybe) :
    /\ stage = "closing"
    /\ never = {}
    /\ \/ /\ chain[t] # "pending"
          /\ CloseOk(t, ChainAnswer(t))
          /\ maybe' = maybe \ {t}
          /\ UNCHANGED <<checkedOut, nextId, guard, gate, stage, never, chain, crashes>>
       \/ /\ chain[t] # "pending"
          /\ JournalFails(ClosedEntry(t, ChainAnswer(t)))
          /\ BootFails
       \/ /\ chain[t] = "pending"
          /\ BootFails
          /\ UNCHANGED journalVars
       \/ /\ faults < MaxFaults
          /\ faults' = faults + 1
          /\ BootFails
          /\ UNCHANGED <<log, tail, synced, firm>>

\* Mutant of OpenGate: the never-signed tickets are enough.
OpenGate_Early ==
  /\ stage = "closing"
  /\ never = {}
  /\ gate' = TRUE
  /\ stage' = "up"
  /\ maybe' = {}
  /\ UNCHANGED <<registryVars, journalVars, never, chain, crashes>>

OpenGate ==
  /\ stage = "closing"
  /\ never = {} /\ maybe = {}
  /\ gate' = TRUE
  /\ stage' = "up"
  /\ UNCHANGED <<registryVars, journalVars, never, maybe, chain, crashes>>

-----------------------------------------------------------------------------
PlaneStep(w) ==
  \/ PlaneAdmit(w) \/ PlaneCheckout(w) \/ PlaneAdvance(w) \/ Send(w)
  \/ PlaneClose(w) \/ PlaneDrop(w)

Boot == BootScan \/ CloseNeverSigned \/ Resolve \/ OpenGate

Next ==
  \/ \E w \in Worker : PlaneStep(w)
  \/ ChainSettles
  \/ Crash
  \/ Boot

\* The operator restarts a process that exited, boot is straight-line code, and
\* every transaction ends up mined or evicted.
Fairness == WF_vars(Boot) /\ WF_vars(ChainSettles)

Spec == Init /\ [][Next]_vars
FairSpec == Spec /\ Fairness

-----------------------------------------------------------------------------
TypeOK ==
  /\ RegistryTypeOK
  /\ gate \in BOOLEAN
  /\ stage \in {"down", "closing", "up", "refused"}
  /\ never \subseteq Ticket
  /\ maybe \subseteq Ticket
  /\ chain \in [Ticket -> {"none", "pending", "landed", "dropped"}]
  /\ crashes \in 0..MaxCrashes

\* recover.rs, the write-ahead rule, under one capture worker: once a transaction
\* exists, the fsynced part of the journal says its ticket reached Signed -- so
\* whatever a crash or a power failure does, the next boot sends this ticket to
\* the chain -- or else is a file that every boot refuses.
SentIsOnRecord ==
  \A t \in Ticket : chain[t] # "none" =>
    \/ \E i \in 1..synced :
         log[i].kind = "advanced" /\ log[i].id = t /\ MayBeOnChain(log[i].to)
    \/ firm = "behind"

\* recover.rs: "closing it as abandoned when it in fact landed would tell the
\* P&L ledger a trade never happened".  Under one capture worker, what recovery
\* wrote is the truth and stays it: a ticket it closed as never signed has no
\* transaction, one it closed as not landed never lands, one it closed as landed
\* did.  (A verdict written behind the start of a line is read by nobody; the next
\* boot gives another.)
BootVerdictsAreTrue ==
  \A i \in 1..Len(log) : log[i].kind = "closed" =>
    /\ log[i].outcome = "never_signed" => chain[log[i].id] = "none"
    /\ log[i].outcome = "not_landed" => chain[log[i].id] \in {"none", "dropped"}
    /\ log[i].outcome = "landed" => chain[log[i].id] = "landed"

\* recover.rs, OrphanEntry and DuplicateAdmission: a file that replay reads is one
\* scan accepts, whatever admissions, appends that stopped part way, lines lost
\* behind one, power failures and boots made it.  Only a broken line with another
\* behind it makes boot refuse.
JournalStaysReadable == tail # "behind" => ~Unreadable

\* INV-39, between boots and under one capture worker: what was sent and not
\* settled is still in the registry, at or past Signed, for as long as the process
\* may dispatch and the journal ends in a whole line.  (Behind a broken one nothing
\* is read: what is settled then is in flight again at the next boot.)
OwedIsHeld ==
  \A t \in Ticket :
    gate /\ tail = "clean" /\ chain[t] # "none" /\ ~ClosedIn(t) =>
      live[t] # Absent /\ MayBeOnChain(live[t])

\* recover.rs, of a signed ticket: "closing it as abandoned when it in fact
\* landed would tell the P&L ledger a trade never happened while the money
\* moved".  No ticket the registry closed as abandoned has landed.
LandedIsNotWrittenOff ==
  \A i \in 1..Len(log) :
    log[i].kind = "closed" /\ log[i].outcome = "abandoned" =>
      chain[log[i].id] # "landed"

\* recover.rs, reconcile: boot ends.  A process that is down is dispatching
\* again eventually, however many tickets it left behind -- unless an append once
\* stopped part way and more was written behind it, which replay refuses for good.
Recovers == (stage = "down") ~> (gate \/ tail = "behind")

-----------------------------------------------------------------------------
(* The promise behind all of this, and where the pieces of it are found.   *)

DurablyIn(t, kind) == \E i \in 1..synced : log[i].id = t /\ log[i].kind = kind

Contract == INSTANCE TicketContract WITH
  book <- [t \in Ticket |-> CASE DurablyIn(t, "closed") -> "settled"
                              [] ~DurablyIn(t, "admitted") -> "unseen"
                              [] DurablyIn(t, "admitted") /\ ~DurablyIn(t, "closed")
                                /\ ClosedIn(t) -> "doubtful"
                              [] OTHER -> "open"],
  exposed <- {t \in Ticket : chain[t] # "none"},
  serving <- gate,
  smudged <- tail # "clean"

\* Under one capture worker the core implements TicketContract: records that are
\* durable and legible only move forward, and for as long as no append stops part
\* way nothing is sent outside an open one and dispatch opens over a settled book.
ImplementsContract == Contract!Spec

=============================================================================
