----------------------------- MODULE SignerPool -----------------------------
(***************************************************************************)
(* The signer pool (signer/pool.rs), the nonce lanes in it, and what the   *)
(* plane's protocol does with them (plane.rs, steps 2 to 10), beside the   *)
(* mempool and the chain of each lane's address.                           *)
(***************************************************************************)
EXTENDS NonceLane, FiniteSets

CONSTANTS
  Worker,     \* tickets being driven at once
  NumLanes,   \* lanes are 1..NumLanes, in the pool's order
  MaxNonce,   \* bound: no lane reserves past this nonce
  MaxUses     \* bound: tickets driven over a behaviour

ASSUME PoolAssumption ==
  NumLanes \in Nat \ {0} /\ MaxNonce \in Nat /\ MaxUses \in Nat

Lane == 1..NumLanes
Nonce == 0..MaxNonce

VARIABLES
  nonces,   \* Lane -> its NonceLane
  busy,     \* Lane -> whether an assignment holds it
  health,   \* Lane -> [score (in thousandths), failures]
  work,     \* Worker -> where its ticket is in the protocol
  mined,    \* Lane -> how many transactions of its address the chain has
  pool,     \* Lane -> its nonces with a transaction in the mempool
  sent,     \* Lane -> its nonces a dispatcher was ever handed (history)
  uses      \* tickets driven so far

vars == <<nonces, busy, health, work, mined, pool, sent, uses>>

-----------------------------------------------------------------------------
(* Lane health.                                                            *)

HotThreshold   == 350
BreakerTripsAt == 3

NewHealth == [score |-> 1000, failures |-> 0]

IsHot(h) == h.failures < BreakerTripsAt /\ h.score >= HotThreshold

\* Mutant of Recorded: the score has no ceiling.
Recorded_Uncapped(h, ok) ==
  IF ok THEN [failures |-> 0, score |-> (h.score * 12) \div 10 + 50]
        ELSE [failures |-> h.failures + 1, score |-> h.score \div 2]

Recorded(h, ok) ==
  IF ok
    THEN [failures |-> 0,
          score |-> LET s == (h.score * 12) \div 10 + 50
                    IN IF s > 1000 THEN 1000 ELSE s]
    ELSE [failures |-> h.failures + 1, score |-> h.score \div 2]

-----------------------------------------------------------------------------
Off == [phase |-> "idle", at |-> 0, best |-> 0, nonce |-> Unset]

Init ==
  /\ nonces = [l \in Lane |-> NewLane]
  /\ busy = [l \in Lane |-> FALSE]
  /\ health = [l \in Lane |-> NewHealth]
  /\ work = [w \in Worker |-> Off]
  /\ mined = [l \in Lane |-> 0]
  /\ pool = [l \in Lane |-> {}]
  /\ sent = [l \in Lane |-> {}]
  /\ uses = 0

\* The lane a worker holds, from the moment it takes it to the moment it frees it.
HeldLane(w) == work[w].best
Holds(w, l) ==
  work[w].phase \in {"holding", "reserved", "sent", "freeing"} /\ HeldLane(w) = l

-----------------------------------------------------------------------------
(* assign: a survey, lane by lane, each under its own lock, then a second   *)
(* look at the chosen one.                                                 *)

StartSurvey(w) ==
  /\ work[w].phase = "idle"
  /\ uses < MaxUses
  /\ work' = [work EXCEPT ![w] = [Off EXCEPT !.phase = "survey", !.at = 1]]
  /\ uses' = uses + 1
  /\ UNCHANGED <<nonces, busy, health, mined, pool, sent>>

SurveyLane(w) ==
  LET i == work[w].at
      b == work[w].best
      better == b = 0 \/ health[i].score > health[b].score
  IN
  /\ work[w].phase = "survey"
  /\ i \in Lane
  /\ work' = [work EXCEPT ![w].at = i + 1,
                          ![w].best = IF ~busy[i] /\ IsHot(health[i]) /\ better
                                        THEN i ELSE b]
  /\ UNCHANGED <<nonces, busy, health, mined, pool, sent, uses>>

\* Mutant of Take: the survey is trusted.
Take_NoRecheck(w) ==
  /\ work[w].phase = "survey"
  /\ work[w].at = NumLanes + 1
  /\ IF work[w].best # 0
       THEN /\ busy' = [busy EXCEPT ![work[w].best] = TRUE]
            /\ work' = [work EXCEPT ![w].phase = "holding"]
       ELSE /\ work' = [work EXCEPT ![w] = Off]
            /\ UNCHANGED busy
  /\ UNCHANGED <<nonces, health, mined, pool, sent, uses>>

\* Nothing found, or found busy at the second look: no lane, and no retry.
Take(w) ==
  /\ work[w].phase = "survey"
  /\ work[w].at = NumLanes + 1
  /\ IF work[w].best # 0 /\ ~busy[work[w].best]
       THEN /\ busy' = [busy EXCEPT ![work[w].best] = TRUE]
            /\ work' = [work EXCEPT ![w].phase = "holding"]
       ELSE /\ work' = [work EXCEPT ![w] = Off]
            /\ UNCHANGED busy
  /\ UNCHANGED <<nonces, health, mined, pool, sent, uses>>

-----------------------------------------------------------------------------
(* protocol, on the lane the worker holds.                                 *)

\* The pending count of a node that has seen everything.  The one asked may
\* answer less: its view lags, and relays keep transactions private.
PendingCount(l) ==
  CHOOSE k \in mined[l]..(MaxNonce + 1) :
    (\A n \in mined[l]..(k - 1) : n \in pool[l]) /\ k \notin pool[l]

ReserveNonce(w) ==
  LET l == HeldLane(w) IN
  /\ work[w].phase = "holding"
  /\ \E p \in 0..PendingCount(l), cut \in 0..(MaxNonce + 1) :
       /\ NextNonce(nonces[l], p) <= MaxNonce
       /\ nonces' = [nonces EXCEPT ![l] = Reserve(@, p, cut)]
       /\ work' = [work EXCEPT ![w].phase = "reserved",
                               ![w].nonce = NextNonce(nonces[l], p)]
  /\ UNCHANGED <<busy, health, mined, pool, sent, uses>>

\* The readings fail, or the task is cancelled while it waits for them.
NoReading(w) ==
  /\ work[w].phase = "holding"
  /\ work' = [work EXCEPT ![w].phase = "freeing"]
  /\ UNCHANGED <<nonces, busy, health, mined, pool, sent, uses>>

GiveBack(l, n) == nonces' = [nonces EXCEPT ![l] = Release(@, n, FALSE)]
Spend(l, n)    == nonces' = [nonces EXCEPT ![l] = Release(@, n, TRUE)]
Record(l, ok)  == health' = [health EXCEPT ![l] = Recorded(@, ok)]
Leaves(w)      == work' = [work EXCEPT ![w].phase = "freeing"]

\* Mutant of RefusedUnsent: a refused ticket keeps its reservation.
RefusedUnsent_Keeps(w) ==
  /\ work[w].phase = "reserved"
  /\ Leaves(w)
  /\ UNCHANGED <<nonces, busy, health, mined, pool, sent, uses>>

\* A refusal before the send, or a cancellation: Unsent gives the nonce back.
RefusedUnsent(w) ==
  /\ work[w].phase = "reserved"
  /\ GiveBack(HeldLane(w), work[w].nonce)
  /\ Leaves(w)
  /\ UNCHANGED <<busy, health, mined, pool, sent, uses>>

\* The null dispatcher accepts: a success for the lane, and nothing was sent.
ShadowDispatch(w) ==
  /\ work[w].phase = "reserved"
  /\ Record(HeldLane(w), TRUE)
  /\ GiveBack(HeldLane(w), work[w].nonce)
  /\ Leaves(w)
  /\ UNCHANGED <<busy, mined, pool, sent, uses>>

\* The endpoint answered no.
SendRejected(w) ==
  /\ work[w].phase = "reserved"
  /\ Record(HeldLane(w), FALSE)
  /\ GiveBack(HeldLane(w), work[w].nonce)
  /\ Leaves(w)
  /\ UNCHANGED <<busy, mined, pool, sent, uses>>

\* A transaction reaches the mempool unless its nonce is already used.
Arrives(l, n) ==
  pool' = [pool EXCEPT ![l] = IF n < mined[l] THEN @ ELSE @ \cup {n}]
Handed(l, n) == sent' = [sent EXCEPT ![l] = @ \cup {n}]

\* No answer: it may have arrived or not, and the nonce stays in flight.  A
\* cancellation during the send leaves the same behind, without the record.
SendUnanswered(w) ==
  LET l == HeldLane(w) IN
  /\ work[w].phase = "reserved"
  /\ Handed(l, work[w].nonce)
  /\ Arrives(l, work[w].nonce) \/ UNCHANGED pool
  /\ Record(l, FALSE) \/ UNCHANGED health
  /\ Leaves(w)
  /\ UNCHANGED <<nonces, busy, mined, uses>>

SendAccepted(w) ==
  LET l == HeldLane(w) IN
  /\ work[w].phase = "reserved"
  /\ Handed(l, work[w].nonce)
  /\ Arrives(l, work[w].nonce)
  /\ Record(l, TRUE)
  /\ work' = [work EXCEPT ![w].phase = "sent"]
  /\ UNCHANGED <<nonces, busy, mined, uses>>

\* Settlement saw it included: reconciled or reverted, the nonce is spent.  A
\* revert is recorded as the lane's success, a reconciliation not at all.
Settled(w) ==
  LET l == HeldLane(w) IN
  /\ work[w].phase = "sent"
  /\ work[w].nonce < mined[l]
  /\ Spend(l, work[w].nonce)
  /\ Record(l, TRUE) \/ UNCHANGED health
  /\ Leaves(w)
  /\ UNCHANGED <<busy, mined, pool, sent, uses>>

\* Settlement answered without an inclusion.
NotIncluded(w) ==
  LET l == HeldLane(w) IN
  /\ work[w].phase = "sent"
  /\ Record(l, FALSE)
  /\ GiveBack(l, work[w].nonce)
  /\ Leaves(w)
  /\ UNCHANGED <<busy, mined, pool, sent, uses>>

\* Settlement or reconciliation failed, or the task was cancelled there: the
\* nonce is left in flight.
Unobserved(w) ==
  /\ work[w].phase = "sent"
  /\ Leaves(w)
  /\ UNCHANGED <<nonces, busy, health, mined, pool, sent, uses>>

\* LaneAssignment's drop.
FreeLane(w) ==
  /\ work[w].phase = "freeing"
  /\ busy' = [busy EXCEPT ![HeldLane(w)] = FALSE]
  /\ work' = [work EXCEPT ![w] = Off]
  /\ UNCHANGED <<nonces, health, mined, pool, sent, uses>>

-----------------------------------------------------------------------------
(* The chain takes a lane's transactions in nonce order; the mempool may    *)
(* lose one.                                                               *)

Mine(l) ==
  /\ mined[l] \in pool[l]
  /\ mined' = [mined EXCEPT ![l] = @ + 1]
  /\ pool' = [pool EXCEPT ![l] = @ \ {mined[l]}]
  /\ UNCHANGED <<nonces, busy, health, work, sent, uses>>

Evict(l) ==
  /\ \E n \in pool[l] : pool' = [pool EXCEPT ![l] = @ \ {n}]
  /\ UNCHANGED <<nonces, busy, health, work, mined, sent, uses>>

-----------------------------------------------------------------------------
WorkerStep(w) ==
  \/ StartSurvey(w) \/ SurveyLane(w) \/ Take(w)
  \/ ReserveNonce(w) \/ NoReading(w) \/ RefusedUnsent(w) \/ ShadowDispatch(w)
  \/ SendRejected(w) \/ SendUnanswered(w) \/ SendAccepted(w)
  \/ Settled(w) \/ NotIncluded(w) \/ Unobserved(w) \/ FreeLane(w)

Next ==
  \/ \E w \in Worker : WorkerStep(w)
  \/ \E l \in Lane : Mine(l) \/ Evict(l)

Spec == Init /\ [][Next]_vars

-----------------------------------------------------------------------------
Phase == {"idle", "survey", "holding", "reserved", "sent", "freeing"}

TypeOK ==
  /\ nonces \in [Lane -> [reserved : Nat \cup {Unset}, inFlight : SUBSET Nat,
                          confirmed : Nat \cup {Unset}]]
  /\ busy \in [Lane -> BOOLEAN]
  /\ health \in [Lane -> [score : 0..1000, failures : Nat]]
  /\ work \in [Worker -> [phase : Phase, at : 0..(NumLanes + 1),
                          best : Lane \cup {0}, nonce : Nat \cup {Unset}]]
  /\ mined \in [Lane -> Nat]
  /\ pool \in [Lane -> SUBSET Nat]
  /\ sent \in [Lane -> SUBSET Nat]
  /\ uses \in 0..MaxUses

\* pool.rs: exclusivity is RAII.  A held lane is busy, two workers never hold
\* one lane, and a busy lane has its holder, so none is lost.
OneHolder ==
  \A l \in Lane :
    /\ busy[l] <=> \E w \in Worker : Holds(w, l)
    /\ \A v, w \in Worker : Holds(v, l) /\ Holds(w, l) => v = w

\* nonce.rs, NotInFlight: the nonce a ticket is working with is in flight on its
\* lane and is the lane's newest, so its release is never refused and always
\* reaches the gap recovery.
HeldNonceIsNewest ==
  \A w \in Worker : work[w].phase \in {"reserved", "sent"} =>
    LET ln == nonces[HeldLane(w)] IN
    /\ work[w].nonce \in ln.inFlight
    /\ ln.reserved = work[w].nonce + 1
    /\ \A m \in ln.inFlight : m <= work[w].nonce

\* plane.rs, Unsent (R28): a reservation that sent nothing leaves no gap.  Every
\* nonce between the chain's count and the lane's high-water mark was handed to
\* a dispatcher, or belongs to the ticket holding the lane now.
UnsentLeavesNoGap ==
  \A l \in Lane : \A n \in mined[l]..(nonces[l].reserved - 1) :
    \/ n \in sent[l]
    \/ \E w \in Worker :
         work[w].phase = "reserved" /\ HeldLane(w) = l /\ work[w].nonce = n

\* nonce.rs: "never reuse a nonce that confirmed".  However far behind the node
\* is, no ticket works under a nonce its lane has been told landed.
ConfirmedNotReused ==
  \A w \in Worker : work[w].phase = "reserved" =>
    work[w].nonce > nonces[HeldLane(w)].confirmed

\* signer_pool.rs, stale_in_flight_markers_expire: a ticket that vanished does
\* not block its lane's gap recovery.  A free lane with no marker left and
\* nothing in the mempool hands out the nonce the chain is waiting for.
VanishedSendHeals ==
  \A l \in Lane :
    ~busy[l] /\ nonces[l].inFlight = {} /\ pool[l] = {} =>
      nonces[l].reserved <= mined[l]

=============================================================================
