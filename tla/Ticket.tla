------------------------------- MODULE Ticket -------------------------------
(***************************************************************************)
(* The opportunity ticket's status order (apex-types, ticket.rs).  The     *)
(* derived Ord of TicketStatus is the state machine, so a status is its    *)
(* discriminant and the order is that of the integers.                     *)
(***************************************************************************)
EXTENDS Integers

Observed     == 0
Reserved     == 1
Exacting     == 2
Simulated    == 3
Authorized   == 4
Signed       == 5
Dispatching  == 6
Acknowledged == 7
Included     == 9
Reconciled   == 11

Status == 0..11

\* The status half of a ticket the registry does not hold.
Absent == -1

\* Mutant of RequiresDurable: fsync only from the network's answer on.
RequiresDurable_Late(s) == s >= Acknowledged

\* From Authorized on the journal fsyncs what it writes about the ticket.
RequiresDurable(s) == s >= Authorized

\* Mutant of MayBeOnChain: only an answered dispatch counts.
MayBeOnChain_Late(s) == s > Dispatching

\* Whether a transaction bearing the ticket's nonce could exist: the line that
\* both recovery and the shutdown drain divide the tickets along.
MayBeOnChain(s) == s >= Signed

(* How a ticket ends.  Success and shadow are the code's own variants; the   *)
(* rest are ExplicitFailure, told apart by who wrote them and what they      *)
(* claim: "failure" is the driver's own decline, "abandoned" the guard's     *)
(* drop, "timeout" the sweep, "shut_down" the drain's, "never_signed" and    *)
(* "not_landed" recovery's two findings; "landed" is recovery's report of a  *)
(* transaction found on chain.                                               *)
Failures == {"failure", "abandoned", "timeout", "shut_down", "never_signed",
             "not_landed"}
Successes == {"success", "landed"}
Outcome == Successes \cup Failures \cup {"shadow"}

=============================================================================
