------------------------------ MODULE Shutdown ------------------------------
(***************************************************************************)
(* The shutdown drain (apex-runtime, shutdown.rs) beside the capture core. *)
(* The sources are off, so nothing is admitted, but the tickets already in *)
(* somebody's hands keep moving.  For each ticket the drain takes the      *)
(* registry's lock three times -- to read it, to ask whether it is checked *)
(* out, to close it -- and each is a step of its own.                      *)
(***************************************************************************)
EXTENDS Recovery

VARIABLE drain   \* Drain::run's locals

drainVars == <<vars, drain>>

NoDrain == [pc |-> "off", todo |-> {}, closed |-> {}, handed |-> {}]

DrainInit == Init /\ drain = NoDrain

\* begin and stop_workers have returned: the capture worker is joined and so is
\* not between an admission and its check-out.  The grace period may end at
\* any time; then the drain lists what is live.
DrainBegin ==
  /\ stage = "up"
  /\ drain.pc = "off"
  /\ \A w \in Worker : guard[w].phase # "admitted"
  /\ drain' = [NoDrain EXCEPT !.pc = "read", !.todo = Live]
  /\ UNCHANGED vars

\* Mutant of DrainRead: a signed ticket is left out of both columns.
DrainRead_Silent ==
  /\ drain.pc = "read"
  /\ \E t \in Least(drain.todo) :
       drain' = IF live[t] = Absent \/ MayBeOnChain(live[t])
                  THEN [drain EXCEPT !.todo = @ \ {t}]
                ELSE [drain EXCEPT !.pc = "ask"]
  /\ UNCHANGED vars

\* registry.ticket(id): gone, signed or later, or the drain's to answer.
DrainRead ==
  /\ drain.pc = "read"
  /\ \E t \in Least(drain.todo) :
       drain' = IF live[t] = Absent
                  THEN [drain EXCEPT !.todo = @ \ {t}]
                ELSE IF MayBeOnChain(live[t])
                  THEN [drain EXCEPT !.todo = @ \ {t}, !.handed = @ \cup {t}]
                ELSE [drain EXCEPT !.pc = "ask"]
  /\ UNCHANGED vars

\* Mutants of DrainAsk: the owner is not asked about; the owner is waited for.
DrainAsk_Never ==
  /\ drain.pc = "ask"
  /\ drain' = [drain EXCEPT !.pc = "close"]
  /\ UNCHANGED vars

DrainAsk_Waits ==
  /\ drain.pc = "ask"
  /\ \E t \in Least(drain.todo) : t \notin checkedOut
  /\ drain' = [drain EXCEPT !.pc = "close"]
  /\ UNCHANGED vars

DrainAsk ==
  /\ drain.pc = "ask"
  /\ \E t \in Least(drain.todo) :
       drain' = IF t \in checkedOut
                  THEN [drain EXCEPT !.pc = "read", !.todo = @ \ {t},
                                     !.handed = @ \cup {t}]
                ELSE [drain EXCEPT !.pc = "close"]
  /\ UNCHANGED vars

\* registry.close; an error counts the ticket in neither column.
DrainClose ==
  /\ drain.pc = "close"
  /\ \E t \in Least(drain.todo) :
       \/ /\ CloseOk(t, "shut_down")
          /\ drain' = [drain EXCEPT !.pc = "read", !.todo = @ \ {t},
                                    !.closed = @ \cup {t}]
       \/ /\ CloseFails(t, "shut_down") \/ CloseRefused(t)
          /\ drain' = [drain EXCEPT !.pc = "read", !.todo = @ \ {t}]
  /\ UNCHANGED <<checkedOut, nextId, guard, bootVars, chain, crashes>>

DrainEnd ==
  /\ drain.pc = "read"
  /\ drain.todo = {}
  /\ drain' = [drain EXCEPT !.pc = "done"]
  /\ UNCHANGED vars

Drain == DrainBegin \/ DrainRead \/ DrainAsk \/ DrainClose \/ DrainEnd

\* A sweep beside it all.  None of the repository's binaries calls it, its tests
\* do; the registry allows it at any time.
SweepRegistry ==
  /\ \E t \in Ticket : Sweep(t)
  /\ UNCHANGED <<bootVars, chain, crashes, drain>>

\* Everything else, with the sources off once the drain has begun.  The module
\* follows one process to its exit: what the exit leaves to the next boot, and
\* what the chain does with what was sent, are Recovery's matter.
Others ==
  \/ /\ \/ \E w \in Worker :
             \/ drain.pc = "off" /\ PlaneAdmit(w)
             \/ PlaneCheckout(w) \/ PlaneAdvance(w) \/ Send(w)
             \/ PlaneClose(w) \/ PlaneDrop(w)
        \/ crashes = 0 /\ Boot
     /\ UNCHANGED drain
  \/ Crash /\ drain' = NoDrain

DrainNext == Drain \/ SweepRegistry \/ Others

\* The drain is straight-line code and the process lets it run.
DrainSpec == DrainInit /\ [][DrainNext]_drainVars /\ WF_drainVars(Drain /\ drain.pc # "off")

-----------------------------------------------------------------------------
DrainTypeOK ==
  /\ TypeOK
  /\ drain.pc \in {"off", "read", "ask", "close", "done"}
  /\ drain.todo \subseteq Ticket
  /\ drain.closed \subseteq Ticket
  /\ drain.handed \subseteq Ticket

\* shutdown.rs, DrainOutcome: two columns with nothing between them.  A ticket
\* still live when the drain ends is one it handed to recovery, never one it
\* walked past.
NothingWalkedPast == drain.pc = "done" => Live \subseteq drain.handed

\* shutdown.rs, run: a drain that has begun ends, whatever the holders of the
\* remaining tickets do, unless the process dies first.
DrainEnds == (drain.pc = "read") ~> (drain.pc \in {"done", "off"})

\* shutdown.rs: "A drain must not classify a ticket whose fate it cannot
\* observe."  A ticket the drain closed as never signed has no transaction.
DrainVerdictsAreTrue ==
  \A i \in 1..Len(log) :
    log[i].kind = "closed" /\ log[i].outcome = "shut_down" =>
      chain[log[i].id] = "none"

=============================================================================
