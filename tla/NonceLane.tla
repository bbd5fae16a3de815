----------------------------- MODULE NonceLane -----------------------------
(***************************************************************************)
(* One signer lane's nonce allocator (apex-capture, signer/nonce.rs) as    *)
(* operators on its state.  The lane's mutex makes each an atomic step.    *)
(*                                                                         *)
(* A lane is [reserved, inFlight, confirmed]: the high-water mark (or      *)
(* Unset), the nonces handed out and not released, and the highest nonce   *)
(* known to have landed (or Unset).  The submitted and replacement sets    *)
(* are left out: no allocation reads them.  The time a marker was made is  *)
(* left out too; see Purged.                                               *)
(***************************************************************************)
EXTENDS Integers

Unset == -1

NewLane == [reserved |-> Unset, inFlight |-> {}, confirmed |-> Unset]

\* Markers older than STALE_RESERVATION are dropped.  A lane's markers were made
\* in the order of their nonces, so whatever time has passed those dropped are
\* the ones below some nonce.
Purged(ln, cut) == {n \in ln.inFlight : n >= cut}

\* The nonce reserve hands out when the node says its pending count is p.
NextNonce(ln, p) ==
  IF ln.reserved # Unset /\ ln.reserved > p THEN ln.reserved ELSE p

\* Mutant of Reserve: stale markers are dropped after the new one is made.
Reserve_PurgesLast(ln, p, cut) ==
  [ln EXCEPT !.reserved = NextNonce(ln, p) + 1,
             !.inFlight = {n \in @ \cup {NextNonce(ln, p)} : n >= cut}]

Reserve(ln, p, cut) ==
  [ln EXCEPT !.reserved = NextNonce(ln, p) + 1,
             !.inFlight = Purged(ln, cut) \cup {NextNonce(ln, p)}]

\* Mutant of ReleaseLanded: no early return, so the gap recovery runs too.
ReleaseLanded_FallsThrough(ln, n) ==
  [ln EXCEPT !.inFlight = @ \ {n},
             !.confirmed = IF @ > n THEN @ ELSE n,
             !.reserved = IF \A m \in ln.inFlight \ {n} : m < n THEN n ELSE @]

\* release: the nonce is spent, or goes back if nothing above it is in flight.
ReleaseLanded(ln, n) ==
  [ln EXCEPT !.inFlight = @ \ {n},
             !.confirmed = IF @ > n THEN @ ELSE n]

ReleaseFailed(ln, n) ==
  [ln EXCEPT !.inFlight = @ \ {n},
             !.reserved = IF \A m \in ln.inFlight \ {n} : m < n THEN n ELSE @]

\* NotInFlight: released twice, or purged in between.
Release(ln, n, landed) ==
  IF n \notin ln.inFlight THEN ln
  ELSE IF landed THEN ReleaseLanded(ln, n)
  ELSE ReleaseFailed(ln, n)

=============================================================================
