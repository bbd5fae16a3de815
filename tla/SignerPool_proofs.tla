-------------------------- MODULE SignerPool_proofs --------------------------
(***************************************************************************)
(* The signer pool for any number of tickets, lanes, nonces and uses: its   *)
(* lanes are exclusive, and the nonces handed out on them are fresh.        *)
(***************************************************************************)
EXTENDS SignerPool, WellFoundedInduction, TLAPS

-----------------------------------------------------------------------------
(* Types.                                                                  *)

LaneType == [reserved : Nat \cup {Unset}, inFlight : SUBSET Nat,
             confirmed : Nat \cup {Unset}]
HealthType == [score : 0..1000, failures : Nat]
WorkType == [phase : Phase, at : 0..(NumLanes + 1), best : Lane \cup {0},
             nonce : Nat \cup {Unset}]

\* The allocator's two operations, on a lane of the right type.
LEMMA ReserveType ==
  ASSUME NEW ln \in LaneType, NEW p \in Nat, NEW cut \in Nat
  PROVE  /\ NextNonce(ln, p) \in Nat
         /\ Reserve(ln, p, cut) \in LaneType
         /\ Reserve(ln, p, cut).reserved = NextNonce(ln, p) + 1
         /\ Reserve(ln, p, cut).confirmed = ln.confirmed
         /\ Reserve(ln, p, cut).inFlight = Purged(ln, cut) \cup {NextNonce(ln, p)}
<1> DEFINE n == NextNonce(ln, p)
           r == n + 1
           f == Purged(ln, cut) \cup {n}
<1>1. n \in Nat
  BY DEF NextNonce, LaneType, Unset
<1>2. r \in Nat /\ f \in SUBSET Nat
  BY <1>1 DEF Purged, LaneType
<1>3. Reserve(ln, p, cut) = [ln EXCEPT !.reserved = r, !.inFlight = f]
  BY DEF Reserve
<1> HIDE DEF r, f
<1>4. /\ Reserve(ln, p, cut) \in LaneType
      /\ Reserve(ln, p, cut).reserved = r
      /\ Reserve(ln, p, cut).confirmed = ln.confirmed
      /\ Reserve(ln, p, cut).inFlight = f
  BY <1>2, <1>3 DEF LaneType
<1> QED BY <1>1, <1>4 DEF r, f

\* release, whichever way it goes.
LEMMA ReleaseType ==
  ASSUME NEW ln \in LaneType, NEW n \in Nat \cup {Unset}, NEW landed \in BOOLEAN
  PROVE  Release(ln, n, landed) \in LaneType
<1>1. CASE n \notin ln.inFlight
  BY <1>1 DEF Release
<1>2. CASE n \in ln.inFlight
  <2>1. n \in Nat /\ ln.inFlight \ {n} \in SUBSET Nat
    BY <1>2 DEF LaneType
  <2>2. ReleaseLanded(ln, n) \in LaneType
    <3> DEFINE c == IF ln.confirmed > n THEN ln.confirmed ELSE n
               f == ln.inFlight \ {n}
    <3>1. c \in Nat \cup {Unset}
      BY <2>1 DEF LaneType, Unset
    <3>2. f \in SUBSET Nat
      BY <2>1
    <3>3. ReleaseLanded(ln, n) = [ln EXCEPT !.inFlight = f, !.confirmed = c]
      BY DEF ReleaseLanded
    <3> HIDE DEF c, f
    <3> QED BY <3>1, <3>2, <3>3 DEF LaneType
  <2>3. ReleaseFailed(ln, n) \in LaneType
    <3> DEFINE r == IF \A m \in ln.inFlight \ {n} : m < n THEN n ELSE ln.reserved
               f == ln.inFlight \ {n}
    <3>1. r \in Nat \cup {Unset}
      BY <2>1 DEF LaneType
    <3>2. f \in SUBSET Nat
      BY <2>1
    <3>3. ReleaseFailed(ln, n) = [ln EXCEPT !.inFlight = f, !.reserved = r]
      BY DEF ReleaseFailed
    <3> HIDE DEF r, f
    <3> QED BY <3>1, <3>2, <3>3 DEF LaneType
  <2> QED BY <1>2, <2>2, <2>3 DEF Release
<1> QED BY <1>1, <1>2

\* A health record stays one: the score between 0 and 1000.
LEMMA RecordedType ==
  ASSUME NEW h \in HealthType, NEW ok \in BOOLEAN
  PROVE  Recorded(h, ok) \in HealthType
<1> DEFINE s == (h.score * 12) \div 10 + 50
<1>1. h.score \in 0..1000 /\ h.failures \in Nat
  BY DEF HealthType
<1>2. s \in Nat
  <2>1. \A k \in 0..1000 : (k * 12) \div 10 + 50 \in Nat
    OBVIOUS
  <2> QED BY <1>1, <2>1, SMTT(30)
<1>3. h.score \div 2 \in 0..1000
  BY <1>1, SMTT(30)
<1> HIDE DEF s
<1>4. CASE ok
  <2>1. Recorded(h, ok) = [failures |-> 0, score |-> IF s > 1000 THEN 1000 ELSE s]
    BY <1>4 DEF Recorded, s
  <2> QED BY <1>2, <2>1 DEF HealthType
<1>5. CASE ~ok
  <2> DEFINE half == h.score \div 2
  <2>1. Recorded(h, ok) = [failures |-> h.failures + 1, score |-> half]
    BY <1>5 DEF Recorded
  <2>2. half \in 0..1000
    BY <1>3
  <2> HIDE DEF half
  <2> QED BY <1>1, <2>1, <2>2 DEF HealthType
<1> QED BY <1>4, <1>5

-----------------------------------------------------------------------------
(* Types of the state, action by action.                                   *)

HeldPhase == {"holding", "reserved", "sent", "freeing"}

\* A worker past the survey has a lane, and past the reservation a nonce on it.
WorkSound ==
  \A w \in Worker :
    /\ work[w].phase \in HeldPhase => work[w].best \in Lane
    /\ work[w].phase \in {"reserved", "sent"} => work[w].nonce \in Nonce

Typed ==
  /\ nonces \in [Lane -> LaneType]
  /\ busy \in [Lane -> BOOLEAN]
  /\ health \in [Lane -> HealthType]
  /\ work \in [Worker -> WorkType]
  /\ mined \in [Lane -> Nat]
  /\ pool \in [Lane -> SUBSET Nonce]
  /\ sent \in [Lane -> SUBSET Nonce]
  /\ uses \in 0..MaxUses
  /\ WorkSound

\* Typed is TypeOK with the nonces bounded and the lanes present.
LEMMA TypedIsTypeOK == Typed => TypeOK
<1>1. SUBSET Nonce \subseteq SUBSET Nat
  BY PoolAssumption DEF Nonce
<1> QED BY <1>1, SMTT(30) DEF Typed, TypeOK, LaneType, HealthType, WorkType

\* Leaving the protocol keeps the work well typed, and the lane in hand.
LEMMA LeavesTypes ==
  ASSUME Typed, NEW w \in Worker, work[w].phase \in HeldPhase, Leaves(w)
  PROVE  /\ work' \in [Worker -> WorkType]
         /\ WorkSound'
         /\ \A v \in Worker \ {w} : work'[v] = work[v]
         /\ work'[w].phase = "freeing" /\ work'[w].best = work[w].best
<1>1. work \in [Worker -> WorkType]
  BY DEF Typed
<1>2. work' = [work EXCEPT ![w].phase = "freeing"]
  BY DEF Leaves
<1>3. "freeing" \in Phase
  BY DEF Phase
<1>4. work' \in [Worker -> WorkType]
  BY <1>1, <1>2, <1>3 DEF WorkType
<1>5. /\ \A v \in Worker \ {w} : work'[v] = work[v]
      /\ work'[w].phase = "freeing" /\ work'[w].best = work[w].best
  BY <1>1, <1>2 DEF WorkType
<1>6. WorkSound'
  BY <1>5 DEF Typed, WorkSound, HeldPhase
<1> QED BY <1>4, <1>5, <1>6

\* Giving a nonce back and spending it keep the lanes' types.
LEMMA ReleasedTypes ==
  ASSUME Typed, NEW l \in Lane, NEW n \in Nonce, GiveBack(l, n) \/ Spend(l, n)
  PROVE  nonces' \in [Lane -> LaneType]
<1>1. n \in Nat
  BY PoolAssumption DEF Nonce
<1>2. nonces[l] \in LaneType
  BY DEF Typed
<1>3. Release(nonces[l], n, TRUE) \in LaneType /\ Release(nonces[l], n, FALSE) \in LaneType
  BY <1>1, <1>2, ReleaseType
<1> QED BY <1>3 DEF Typed, GiveBack, Spend

\* So does a verdict on a lane's health.
LEMMA RecordTypes ==
  ASSUME Typed, NEW l \in Lane, NEW ok \in BOOLEAN, Record(l, ok)
  PROVE  health' \in [Lane -> HealthType]
<1>1. Recorded(health[l], ok) \in HealthType
  BY RecordedType DEF Typed
<1> QED BY <1>1 DEF Typed, Record

\* And a send on its mempool.
LEMMA HandedTypes ==
  ASSUME Typed, NEW l \in Lane, NEW n \in Nonce, Handed(l, n),
         Arrives(l, n) \/ UNCHANGED pool
  PROVE  sent' \in [Lane -> SUBSET Nonce] /\ pool' \in [Lane -> SUBSET Nonce]
BY DEF Typed, Handed, Arrives

\* The steps up to the reservation, which write work[w] whole or in part.
LEMMA EarlyTypes ==
  ASSUME Typed, NEW w \in Worker,
         \/ StartSurvey(w) \/ SurveyLane(w) \/ Take(w) \/ ReserveNonce(w) \/ FreeLane(w)
  PROVE  Typed'
<1>1. work \in [Worker -> WorkType] /\ work[w] \in WorkType
  BY DEF Typed
<1>2. NumLanes \in Nat /\ NumLanes >= 1 /\ MaxNonce \in Nat /\ MaxUses \in Nat
  BY PoolAssumption
<1>3. Off \in WorkType
  BY <1>2 DEF Off, WorkType, Phase, Lane, Unset
<1>4. ASSUME NEW x \in WorkType, work' = [work EXCEPT ![w] = x],
             x.phase \in HeldPhase => x.best \in Lane,
             x.phase \in {"reserved", "sent"} => x.nonce \in Nonce
      PROVE  work' \in [Worker -> WorkType] /\ WorkSound'
  <2>1. work' \in [Worker -> WorkType]
    BY <1>1, <1>4
  <2>2. work'[w] = x /\ \A v \in Worker \ {w} : work'[v] = work[v]
    BY <1>1, <1>4
  <2> QED BY <1>4, <2>1, <2>2 DEF Typed, WorkSound
<1>5. CASE StartSurvey(w)
  <2> DEFINE x == [Off EXCEPT !.phase = "survey", !.at = 1]
  <2>1. x \in WorkType /\ x.phase = "survey"
    <3>1. \A y \in WorkType, ph \in Phase, i \in 0..(NumLanes + 1) :
            /\ [y EXCEPT !.phase = ph, !.at = i] \in WorkType
            /\ [y EXCEPT !.phase = ph, !.at = i].phase = ph
      BY DEF WorkType
    <3>2. "survey" \in Phase /\ 1 \in 0..(NumLanes + 1)
      BY <1>2 DEF Phase
    <3> QED BY <1>3, <3>1, <3>2
  <2>2. work' = [work EXCEPT ![w] = x] /\ uses' \in 0..MaxUses
    BY <1>2, <1>5 DEF StartSurvey, Typed
  <2> HIDE DEF x
  <2>3. work' \in [Worker -> WorkType] /\ WorkSound'
    BY <1>4, <2>1, <2>2 DEF HeldPhase
  <2> QED BY <1>5, <2>2, <2>3 DEF StartSurvey, Typed
<1>6. CASE SurveyLane(w)
  <2> DEFINE b == IF ~busy[work[w].at] /\ IsHot(health[work[w].at])
                       /\ (work[w].best = 0
                             \/ health[work[w].at].score > health[work[w].best].score)
                    THEN work[w].at ELSE work[w].best
             i == work[w].at + 1
             x == [work[w] EXCEPT !.at = i, !.best = b]
  <2>1. work[w].phase = "survey" /\ work[w].at \in Lane
    BY <1>6 DEF SurveyLane
  <2>2. i \in 0..(NumLanes + 1) /\ b \in Lane \cup {0}
    BY <1>1, <1>2, <2>1 DEF Lane, WorkType
  <2>3. work' = [work EXCEPT ![w] = x]
    BY <1>1, <1>6 DEF SurveyLane
  <2> HIDE DEF b, i
  <2>4. x \in WorkType /\ x.phase = "survey"
    BY <1>1, <2>1, <2>2 DEF WorkType
  <2> HIDE DEF x
  <2>5. work' \in [Worker -> WorkType] /\ WorkSound'
    BY <1>4, <2>3, <2>4 DEF HeldPhase
  <2> QED BY <1>6, <2>5 DEF SurveyLane, Typed
<1>7. CASE Take(w)
  <2>1. CASE work[w].best # 0 /\ ~busy[work[w].best]
    <3> DEFINE x == [work[w] EXCEPT !.phase = "holding"]
    <3>1. work[w].best \in Lane
      BY <1>1, <2>1 DEF WorkType
    <3>2. x \in WorkType /\ x.phase = "holding" /\ x.best = work[w].best
      BY <1>1 DEF WorkType, Phase
    <3>3. work' = [work EXCEPT ![w] = x] /\ busy' = [busy EXCEPT ![work[w].best] = TRUE]
      BY <1>7, <2>1 DEF Take
    <3> HIDE DEF x
    <3>4. work' \in [Worker -> WorkType] /\ WorkSound'
      BY <1>4, <3>1, <3>2, <3>3
    <3> QED BY <1>7, <3>1, <3>3, <3>4 DEF Take, Typed
  <2>2. CASE ~(work[w].best # 0 /\ ~busy[work[w].best])
    <3>1. work' = [work EXCEPT ![w] = Off] /\ busy' = busy
      BY <1>7, <2>2 DEF Take
    <3>2. work' \in [Worker -> WorkType] /\ WorkSound'
      BY <1>3, <1>4, <3>1 DEF Off, HeldPhase
    <3> QED BY <1>7, <3>1, <3>2 DEF Take, Typed
  <2> QED BY <2>1, <2>2
<1>8. CASE ReserveNonce(w)
  <2> DEFINE l == work[w].best
  <2>1. l \in Lane /\ nonces[l] \in LaneType /\ work[w].phase = "holding"
    BY <1>8 DEF ReserveNonce, Typed, WorkSound, HeldPhase
  <2>2. PICK p \in Nat, cut \in Nat :
          /\ NextNonce(nonces[l], p) <= MaxNonce
          /\ nonces' = [nonces EXCEPT ![l] = Reserve(@, p, cut)]
          /\ work' = [work EXCEPT ![w].phase = "reserved",
                                  ![w].nonce = NextNonce(nonces[l], p)]
    <3>1. \A a : 0..a \subseteq Nat
      OBVIOUS
    <3> QED BY <1>8, <3>1 DEF ReserveNonce, HeldLane
  <2> DEFINE n == NextNonce(nonces[l], p)
             x == [work[w] EXCEPT !.phase = "reserved", !.nonce = n]
  <2>3. n \in Nonce /\ n \in Nat /\ Reserve(nonces[l], p, cut) \in LaneType
    BY <1>2, <2>1, <2>2, ReserveType DEF Nonce
  <2>4. nonces' \in [Lane -> LaneType]
    BY <2>1, <2>2, <2>3 DEF Typed
  <2>5. work' = [work EXCEPT ![w] = x]
    BY <1>1, <2>2
  <2> HIDE DEF n
  <2>6. x \in WorkType /\ x.phase = "reserved" /\ x.best = l /\ x.nonce = n
    BY <1>1, <2>3 DEF WorkType, Phase
  <2> HIDE DEF x
  <2>7. work' \in [Worker -> WorkType] /\ WorkSound'
    BY <1>4, <2>1, <2>3, <2>5, <2>6
  <2> QED BY <1>8, <2>4, <2>7 DEF ReserveNonce, Typed
<1>9. CASE FreeLane(w)
  <2>1. work' = [work EXCEPT ![w] = Off] /\ busy' \in [Lane -> BOOLEAN]
    BY <1>9 DEF FreeLane, Typed
  <2>2. work' \in [Worker -> WorkType] /\ WorkSound'
    BY <1>3, <1>4, <2>1 DEF Off, HeldPhase
  <2> QED BY <1>9, <2>1, <2>2 DEF FreeLane, Typed
<1> QED BY <1>5, <1>6, <1>7, <1>8, <1>9

\* Every exit of protocol leaves it with the lane in hand.
LEMMA ExitLeaves ==
  ASSUME NEW w \in Worker,
         \/ NoReading(w) \/ RefusedUnsent(w) \/ ShadowDispatch(w) \/ SendRejected(w)
         \/ SendUnanswered(w) \/ Settled(w) \/ NotIncluded(w) \/ Unobserved(w)
  PROVE  work[w].phase \in HeldPhase /\ Leaves(w)
<1>1. work[w].phase = "holding" \/ work[w].phase = "reserved" \/ work[w].phase = "sent"
  BY Zenon DEF NoReading, RefusedUnsent, ShadowDispatch, SendRejected, SendUnanswered,
               Settled, NotIncluded, Unobserved
<1>2. Leaves(w)
  BY Zenon DEF NoReading, RefusedUnsent, ShadowDispatch, SendRejected, SendUnanswered,
               Settled, NotIncluded, Unobserved, Leaves
<1> QED BY <1>1, <1>2 DEF HeldPhase

\* The exits of protocol keep the types.
LEMMA ExitTypes ==
  ASSUME Typed, NEW w \in Worker,
         \/ NoReading(w) \/ RefusedUnsent(w) \/ ShadowDispatch(w) \/ SendRejected(w)
         \/ SendUnanswered(w) \/ Settled(w) \/ NotIncluded(w) \/ Unobserved(w)
  PROVE  Typed'
<1>1. work[w].phase \in HeldPhase /\ Leaves(w)
  BY ExitLeaves
<1>2. work' \in [Worker -> WorkType] /\ WorkSound'
  BY <1>1, LeavesTypes
<1> DEFINE l == HeldLane(w)
           n == work[w].nonce
<1>3. l \in Lane /\ (work[w].phase \in {"reserved", "sent"} => n \in Nonce)
  BY <1>1 DEF Typed, WorkSound, HeldLane
<1> HIDE DEF l, n
<1>4. CASE NoReading(w) \/ Unobserved(w)
  BY <1>2, <1>4 DEF NoReading, Unobserved, Typed
<1>5. CASE RefusedUnsent(w) \/ ShadowDispatch(w) \/ SendRejected(w) \/ Settled(w) \/ NotIncluded(w)
  <2>1. n \in Nonce
    BY <1>3, <1>5 DEF RefusedUnsent, ShadowDispatch, SendRejected, Settled, NotIncluded
  <2>2. nonces' \in [Lane -> LaneType]
    <3>1. GiveBack(l, n) \/ Spend(l, n)
      BY <1>5 DEF RefusedUnsent, ShadowDispatch, SendRejected, Settled, NotIncluded, l, n
    <3> QED BY <1>3, <2>1, <3>1, ReleasedTypes
  <2>3. health' \in [Lane -> HealthType]
    <3>1. health' = health \/ \E ok \in BOOLEAN : Record(l, ok)
      BY <1>5 DEF RefusedUnsent, ShadowDispatch, SendRejected, Settled, NotIncluded, l
    <3> QED BY <1>3, <3>1, RecordTypes DEF Typed
  <2> QED BY <1>2, <1>5, <2>2, <2>3
          DEF RefusedUnsent, ShadowDispatch, SendRejected, Settled, NotIncluded, Typed
<1>6. CASE SendUnanswered(w)
  <2>1. /\ n \in Nonce
        /\ Handed(l, n)
        /\ Arrives(l, n) \/ UNCHANGED pool
        /\ health' = health \/ Record(l, FALSE)
    BY <1>3, <1>6 DEF SendUnanswered, l, n
  <2>2. sent' \in [Lane -> SUBSET Nonce] /\ pool' \in [Lane -> SUBSET Nonce]
    BY <1>3, <2>1, HandedTypes
  <2>3. health' \in [Lane -> HealthType]
    BY <1>3, <2>1, RecordTypes DEF Typed
  <2> QED BY <1>2, <1>6, <2>2, <2>3 DEF SendUnanswered, Typed
<1> QED BY <1>4, <1>5, <1>6

\* An accepted send.
LEMMA AcceptedTypes ==
  ASSUME Typed, NEW w \in Worker, SendAccepted(w)
  PROVE  Typed'
<1> DEFINE l == HeldLane(w)
           n == work[w].nonce
<1>1. work \in [Worker -> WorkType] /\ l \in Lane /\ n \in Nonce
  BY DEF SendAccepted, Typed, WorkSound, HeldPhase, HeldLane
<1>2. Handed(l, n) /\ Arrives(l, n) /\ Record(l, TRUE)
  BY DEF SendAccepted
<1> HIDE DEF l, n
<1>3. sent' \in [Lane -> SUBSET Nonce] /\ pool' \in [Lane -> SUBSET Nonce]
  BY <1>1, <1>2, HandedTypes
<1>4. health' \in [Lane -> HealthType]
  BY <1>1, <1>2, RecordTypes
<1>5. work' = [work EXCEPT ![w].phase = "sent"] /\ "sent" \in Phase
  BY DEF SendAccepted, Phase
<1>6. /\ work' \in [Worker -> WorkType]
      /\ \A v \in Worker \ {w} : work'[v] = work[v]
      /\ work'[w].best = work[w].best /\ work'[w].nonce = work[w].nonce
  BY <1>1, <1>5 DEF WorkType
<1>7. WorkSound'
  BY <1>1, <1>6 DEF Typed, WorkSound, l, n, HeldLane
<1> QED BY <1>3, <1>4, <1>6, <1>7 DEF SendAccepted, Typed

\* The chain's steps.
LEMMA ChainTypes ==
  ASSUME Typed, NEW l \in Lane, Mine(l) \/ Evict(l)
  PROVE  Typed'
BY DEF Typed, Mine, Evict, WorkSound

\* The first state.
LEMMA InitTypes == Init => Typed
<1>1. Off \in WorkType /\ NewLane \in LaneType /\ NewHealth \in HealthType
  BY PoolAssumption DEF Off, NewLane, NewHealth, WorkType, LaneType, HealthType, Phase, Unset
<1> QED BY <1>1, PoolAssumption DEF Init, Typed, WorkSound, HeldPhase, Off

\* Every step.
LEMMA StepTypes ==
  ASSUME Typed, [Next]_vars
  PROVE  Typed'
<1>1. CASE \E w \in Worker : WorkerStep(w)
  BY <1>1, EarlyTypes, ExitTypes, AcceptedTypes DEF WorkerStep
<1>2. CASE \E l \in Lane : Mine(l) \/ Evict(l)
  BY <1>2, ChainTypes
<1>3. CASE UNCHANGED vars
  BY <1>3 DEF vars, Typed, WorkSound
<1> QED BY <1>1, <1>2, <1>3 DEF Next

\* The pool, its lanes, the protocol and the chain keep their types.
THEOREM PoolTypeCorrect == Spec => []TypeOK
<1>1. Typed /\ [Next]_vars => Typed'
  BY StepTypes
<1> QED BY InitTypes, TypedIsTypeOK, <1>1, PTL DEF Spec

-----------------------------------------------------------------------------
(* Exclusive lanes.                                                        *)

\* Every step but taking a lane and freeing one leaves who holds what as it was.
LEMMA HoldersStay ==
  ASSUME Typed, NEW w \in Worker, WorkerStep(w), ~Take(w), ~FreeLane(w)
  PROVE  /\ busy' = busy
         /\ \A v \in Worker : \A l \in Lane : Holds(v, l)' <=> Holds(v, l)
<1>1. work \in [Worker -> WorkType]
  BY DEF Typed
<1>2. busy' = busy
  BY Zenon DEF WorkerStep, StartSurvey, SurveyLane, ReserveNonce, NoReading, RefusedUnsent,
               ShadowDispatch, SendRejected, SendUnanswered, SendAccepted, Settled,
               NotIncluded, Unobserved
<1>3. CASE \/ NoReading(w) \/ RefusedUnsent(w) \/ ShadowDispatch(w) \/ SendRejected(w)
           \/ SendUnanswered(w) \/ Settled(w) \/ NotIncluded(w) \/ Unobserved(w)
  <2>1. work[w].phase \in HeldPhase /\ Leaves(w)
    BY <1>3, ExitLeaves
  <2> QED BY <1>2, <2>1, LeavesTypes DEF Holds, HeldLane, HeldPhase
<1>4. CASE StartSurvey(w)
  <2>1. /\ work[w].phase = "idle" /\ work'[w].phase = "survey"
        /\ \A v \in Worker \ {w} : work'[v] = work[v]
    BY <1>1, <1>4 DEF StartSurvey, Off
  <2> QED BY <1>2, <2>1 DEF Holds, HeldLane
<1>5. CASE SurveyLane(w)
  <2>1. /\ work[w].phase = "survey" /\ work'[w].phase = "survey"
        /\ \A v \in Worker \ {w} : work'[v] = work[v]
    BY <1>1, <1>5 DEF SurveyLane, WorkType
  <2> QED BY <1>2, <2>1 DEF Holds, HeldLane
<1>6. CASE ReserveNonce(w)
  <2>1. /\ work[w].phase = "holding" /\ work'[w].phase = "reserved"
        /\ work'[w].best = work[w].best
        /\ \A v \in Worker \ {w} : work'[v] = work[v]
    BY <1>1, <1>6 DEF ReserveNonce, WorkType
  <2> QED BY <1>2, <2>1 DEF Holds, HeldLane
<1>7. CASE SendAccepted(w)
  <2>1. /\ work[w].phase = "reserved" /\ work'[w].phase = "sent"
        /\ work'[w].best = work[w].best
        /\ \A v \in Worker \ {w} : work'[v] = work[v]
    BY <1>1, <1>7 DEF SendAccepted, WorkType
  <2> QED BY <1>2, <2>1 DEF Holds, HeldLane
<1> QED BY <1>3, <1>4, <1>5, <1>6, <1>7 DEF WorkerStep

\* A lane has one holder after every step if it had before.
LEMMA OneHolderStep ==
  ASSUME Typed, OneHolder, [Next]_vars
  PROVE  OneHolder'
<1>1. work \in [Worker -> WorkType] /\ busy \in [Lane -> BOOLEAN]
  BY DEF Typed
<1>2. ASSUME NEW w \in Worker, Take(w)
      PROVE  OneHolder'
  <2> DEFINE b == work[w].best
  <2>1. CASE b # 0 /\ ~busy[b]
    <3>1. /\ b \in Lane /\ busy' = [busy EXCEPT ![b] = TRUE]
          /\ work[w].phase = "survey" /\ work' = [work EXCEPT ![w].phase = "holding"]
      BY <1>1, <1>2, <2>1 DEF Take, WorkType
    <3>2. /\ work'[w].phase = "holding" /\ work'[w].best = b
          /\ \A v \in Worker \ {w} : work'[v] = work[v]
      BY <1>1, <3>1 DEF WorkType
    <3>3. \A v \in Worker, l \in Lane :
            Holds(v, l)' <=> IF v = w THEN l = b ELSE Holds(v, l)
      BY <3>2 DEF Holds, HeldLane
    <3>4. \A v \in Worker : ~Holds(v, b)
      BY <2>1, <3>1 DEF OneHolder
    <3>5. \A l \in Lane : busy'[l] <=> busy[l] \/ l = b
      BY <1>1, <3>1
    <3>6. \A l \in Lane : ~Holds(w, l)
      BY <3>1 DEF Holds
    <3> QED BY <3>1, <3>3, <3>4, <3>5, <3>6 DEF OneHolder
  <2>2. CASE ~(b # 0 /\ ~busy[b])
    <3>1. busy' = busy /\ work[w].phase = "survey" /\ work' = [work EXCEPT ![w] = Off]
      BY <1>2, <2>2 DEF Take
    <3>2. work'[w].phase = "idle" /\ \A v \in Worker \ {w} : work'[v] = work[v]
      BY <1>1, <3>1 DEF Off
    <3>3. \A v \in Worker, l \in Lane : Holds(v, l)' <=> Holds(v, l)
      BY <3>1, <3>2 DEF Holds, HeldLane
    <3> QED BY <3>1, <3>3 DEF OneHolder
  <2> QED BY <2>1, <2>2
<1>3. ASSUME NEW w \in Worker, FreeLane(w)
      PROVE  OneHolder'
  <2> DEFINE b == work[w].best
  <2>1. /\ work[w].phase = "freeing" /\ busy' = [busy EXCEPT ![b] = FALSE]
        /\ work' = [work EXCEPT ![w] = Off]
    BY <1>3 DEF FreeLane, HeldLane
  <2>2. work'[w].phase = "idle" /\ \A v \in Worker \ {w} : work'[v] = work[v]
    BY <1>1, <2>1 DEF Off
  <2>3. b \in Lane /\ Holds(w, b)
    BY <2>1 DEF Typed, WorkSound, HeldPhase, Holds, HeldLane
  <2>4. \A v \in Worker, l \in Lane : Holds(v, l)' <=> v # w /\ Holds(v, l)
    BY <2>2 DEF Holds, HeldLane
  <2>5. \A l \in Lane : busy'[l] <=> busy[l] /\ l # b
    BY <1>1, <2>1
  <2>6. \A l \in Lane : Holds(w, l) => l = b
    BY DEF Holds, HeldLane
  <2> QED BY <2>3, <2>4, <2>5, <2>6 DEF OneHolder
<1>4. ASSUME NEW w \in Worker, WorkerStep(w)
      PROVE  OneHolder'
  BY <1>2, <1>3, <1>4, HoldersStay DEF OneHolder
<1>5. ASSUME UNCHANGED <<busy, work>>
      PROVE  OneHolder'
  BY <1>5 DEF OneHolder, Holds, HeldLane
<1>6. CASE \E l \in Lane : Mine(l) \/ Evict(l)
  BY <1>5, <1>6 DEF Mine, Evict
<1>7. CASE UNCHANGED vars
  BY <1>5, <1>7 DEF vars
<1> QED BY <1>4, <1>6, <1>7 DEF Next

\* The first state has no holders and no busy lane.
LEMMA OneHolderInit == Init => OneHolder
BY DEF Init, OneHolder, Holds, Off

\* Two tickets never hold one lane, and a busy lane always has its ticket.
THEOREM LanesExclusive == Spec => []OneHolder
<1>1. Typed /\ OneHolder /\ [Next]_vars => (Typed /\ OneHolder)'
  BY StepTypes, OneHolderStep
<1> QED BY InitTypes, OneHolderInit, <1>1, PTL DEF Spec

-----------------------------------------------------------------------------
(* Fresh nonces.                                                           *)

\* What is in flight, and what has landed, is below the high-water mark.
LaneBounded(ln) ==
  /\ \A m \in ln.inFlight : m < ln.reserved
  /\ ln.confirmed = Unset \/ ln.confirmed < ln.reserved

\* n is in flight, newest, and above all that has landed.
Newest(ln, n) ==
  /\ n \in ln.inFlight
  /\ ln.reserved = n + 1
  /\ \A m \in ln.inFlight : m <= n
  /\ n > ln.confirmed

\* HeldNonceIsNewest and ConfirmedNotReused over lanes that are in order: what
\* makes the two inductive.
NonceInv ==
  /\ \A l \in Lane : LaneBounded(nonces[l])
  /\ \A w \in Worker : work[w].phase \in {"reserved", "sent"} =>
       Newest(nonces[HeldLane(w)], work[w].nonce)

\* The reservation a lane gives out is its newest nonce.
LEMMA ReserveIsNewest ==
  ASSUME NEW ln \in LaneType, LaneBounded(ln), NEW p \in Nat, NEW cut \in Nat
  PROVE  /\ LaneBounded(Reserve(ln, p, cut))
         /\ Newest(Reserve(ln, p, cut), NextNonce(ln, p))
<1> DEFINE n == NextNonce(ln, p)
           new == Reserve(ln, p, cut)
<1>1. /\ ln.inFlight \subseteq Nat /\ ln.reserved \in Int /\ ln.confirmed \in Int
      /\ ln.reserved >= -1
  BY DEF LaneType, Unset
<1>2. n \in Nat /\ n >= ln.reserved
  BY <1>1 DEF NextNonce, Unset
<1>3. new.reserved = n + 1 /\ new.confirmed = ln.confirmed
      /\ new.inFlight = Purged(ln, cut) \cup {n}
  BY ReserveType
<1>4. Purged(ln, cut) \subseteq ln.inFlight
  BY DEF Purged
<1>5. \A m \in new.inFlight : m \in Nat /\ m <= n
  BY <1>1, <1>2, <1>3, <1>4 DEF LaneBounded
<1>6. n > ln.confirmed
  BY <1>1, <1>2 DEF LaneBounded, Unset
<1> HIDE DEF n, new
<1>7. LaneBounded(new)
  BY <1>1, <1>2, <1>3, <1>5, <1>6 DEF LaneBounded
<1>8. Newest(new, n)
  BY <1>1, <1>2, <1>3, <1>5, <1>6 DEF Newest
<1> QED BY <1>7, <1>8 DEF n, new

\* A nonce that goes back while it is the newest takes the high-water mark back
\* with it; one that landed leaves the mark.
LEMMA ReleaseOfNewest ==
  ASSUME NEW ln \in LaneType, LaneBounded(ln), NEW n \in Nat, Newest(ln, n)
  PROVE  /\ LaneBounded(Release(ln, n, FALSE)) /\ Release(ln, n, FALSE).reserved = n
         /\ LaneBounded(Release(ln, n, TRUE)) /\ Release(ln, n, TRUE).reserved = ln.reserved
<1>1. /\ ln.inFlight \subseteq Nat /\ ln.reserved = n + 1 /\ ln.confirmed \in Int
      /\ n \in ln.inFlight /\ \A m \in ln.inFlight \ {n} : m < n
  BY DEF LaneType, Newest, Unset
<1>2. n > ln.confirmed
  BY DEF Newest
<1> DEFINE f == ln.inFlight \ {n}
           c == IF ln.confirmed > n THEN ln.confirmed ELSE n
           r == IF \A m \in ln.inFlight \ {n} : m < n THEN n ELSE ln.reserved
<1>3. c = n /\ r = n
  BY <1>1, <1>2
<1>4. Release(ln, n, FALSE) = [ln EXCEPT !.inFlight = f, !.reserved = r]
  BY <1>1 DEF Release, ReleaseFailed
<1>5. Release(ln, n, TRUE) = [ln EXCEPT !.inFlight = f, !.confirmed = c]
  BY <1>1 DEF Release, ReleaseLanded
<1>6. f \subseteq Nat /\ \A m \in f : m < n
  BY <1>1
<1> HIDE DEF f, c, r
<1>7. /\ Release(ln, n, FALSE).inFlight = f /\ Release(ln, n, FALSE).reserved = r
      /\ Release(ln, n, FALSE).confirmed = ln.confirmed
  BY <1>4 DEF LaneType
<1>8. /\ Release(ln, n, TRUE).inFlight = f /\ Release(ln, n, TRUE).reserved = ln.reserved
      /\ Release(ln, n, TRUE).confirmed = c
  BY <1>5 DEF LaneType
<1>9. LaneBounded(Release(ln, n, FALSE))
  BY <1>2, <1>3, <1>6, <1>7 DEF LaneBounded
<1>10. LaneBounded(Release(ln, n, TRUE))
  <2>1. \A m \in f : m < n + 1
    BY <1>6
  <2> QED BY <1>1, <1>3, <1>8, <2>1 DEF LaneBounded
<1> QED BY <1>3, <1>7, <1>8, <1>9, <1>10

\* A step of the holder of lane l that touches no other lane leaves the other
\* workers' nonces as they were.
LEMMA OwnLaneStep ==
  ASSUME Typed, OneHolder, NonceInv, NEW w \in Worker, NEW l \in Lane, Holds(w, l),
         NEW new \in LaneType, nonces' = [nonces EXCEPT ![l] = new], LaneBounded(new),
         \A v \in Worker \ {w} : work'[v] = work[v],
         \/ work'[w].phase \notin {"reserved", "sent"}
         \/ work'[w].best = l /\ Newest(new, work'[w].nonce)
  PROVE  NonceInv'
<1>1. nonces'[l] = new /\ \A k \in Lane \ {l} : nonces'[k] = nonces[k]
  BY DEF Typed
<1>2. \A k \in Lane : LaneBounded(nonces'[k])
  BY <1>1 DEF NonceInv
<1>3. ASSUME NEW v \in Worker, work'[v].phase \in {"reserved", "sent"}
      PROVE  Newest(nonces'[work'[v].best], work'[v].nonce)
  <2>1. CASE v = w
    BY <1>1, <1>3, <2>1
  <2>2. CASE v # w
    <3>1. work'[v] = work[v] /\ Holds(v, work[v].best) /\ work[v].best \in Lane
      BY <1>3, <2>2 DEF Holds, HeldLane, Typed, WorkSound, HeldPhase
    <3>2. work[v].best # l
      BY <2>2, <3>1 DEF OneHolder
    <3>3. Newest(nonces[work[v].best], work[v].nonce)
      BY <1>3, <3>1 DEF NonceInv, HeldLane
    <3> QED BY <1>1, <3>1, <3>2, <3>3
  <2> QED BY <2>1, <2>2
<1> QED BY <1>2, <1>3 DEF NonceInv, HeldLane, LaneBounded, Newest

\* A worker that leaves the protocol, with its lane untouched, given back or spent.
LEMMA ExitNonces ==
  ASSUME Typed, OneHolder, NonceInv, NEW w \in Worker,
         \/ NoReading(w) \/ RefusedUnsent(w) \/ ShadowDispatch(w) \/ SendRejected(w)
         \/ SendUnanswered(w) \/ Settled(w) \/ NotIncluded(w) \/ Unobserved(w)
  PROVE  NonceInv'
<1> DEFINE l == HeldLane(w)
           n == work[w].nonce
<1>1. work[w].phase \in HeldPhase /\ Leaves(w)
  BY ExitLeaves
<1>2. l \in Lane /\ Holds(w, l) /\ nonces[l] \in LaneType /\ LaneBounded(nonces[l])
  BY <1>1 DEF Typed, WorkSound, HeldLane, Holds, HeldPhase, NonceInv
<1>3. /\ \A v \in Worker \ {w} : work'[v] = work[v]
      /\ work'[w].phase = "freeing"
  BY <1>1, LeavesTypes
<1>4. CASE NoReading(w) \/ SendUnanswered(w) \/ Unobserved(w)
  <2>1. nonces' = nonces
    BY <1>4 DEF NoReading, SendUnanswered, Unobserved
  <2>2. nonces' = [nonces EXCEPT ![l] = nonces[l]]
    BY <2>1 DEF Typed
  <2> HIDE DEF l
  <2> QED BY <1>2, <1>3, <2>2, OwnLaneStep
<1>5. CASE RefusedUnsent(w) \/ ShadowDispatch(w) \/ SendRejected(w) \/ Settled(w) \/ NotIncluded(w)
  <2>1. work[w].phase \in {"reserved", "sent"}
    BY <1>5 DEF RefusedUnsent, ShadowDispatch, SendRejected, Settled, NotIncluded
  <2>2. n \in Nat /\ Newest(nonces[l], n)
    BY <2>1, PoolAssumption DEF Typed, WorkSound, Nonce, NonceInv
  <2>3. PICK landed \in BOOLEAN : nonces' = [nonces EXCEPT ![l] = Release(nonces[l], n, landed)]
    <3>1. GiveBack(l, n) \/ Spend(l, n)
      BY <1>5 DEF RefusedUnsent, ShadowDispatch, SendRejected, Settled, NotIncluded
    <3> QED BY <3>1 DEF GiveBack, Spend
  <2> HIDE DEF l, n
  <2>4. Release(nonces[l], n, landed) \in LaneType /\ LaneBounded(Release(nonces[l], n, landed))
    BY <1>2, <2>2, ReleaseType, ReleaseOfNewest
  <2> QED BY <1>2, <1>3, <2>3, <2>4, OwnLaneStep
<1> QED BY <1>4, <1>5

\* A reservation, and an accepted send, keep the worker's nonce the newest.
LEMMA ReserveNonces ==
  ASSUME Typed, OneHolder, NonceInv, NEW w \in Worker, ReserveNonce(w) \/ SendAccepted(w)
  PROVE  NonceInv'
<1> DEFINE l == HeldLane(w)
<1>1. work \in [Worker -> WorkType]
  BY DEF Typed
<1>2. l \in Lane /\ Holds(w, l) /\ nonces[l] \in LaneType /\ LaneBounded(nonces[l])
      /\ l = work[w].best
  BY DEF ReserveNonce, SendAccepted, Typed, WorkSound, HeldLane, Holds, HeldPhase, NonceInv
<1>3. CASE ReserveNonce(w)
  <2>1. PICK p \in Nat, cut \in Nat :
          /\ nonces' = [nonces EXCEPT ![l] = Reserve(nonces[l], p, cut)]
          /\ work' = [work EXCEPT ![w].phase = "reserved",
                                  ![w].nonce = NextNonce(nonces[l], p)]
    <3>1. \A a : 0..a \subseteq Nat
      OBVIOUS
    <3> QED BY <1>3, <3>1 DEF ReserveNonce
  <2>2. /\ Reserve(nonces[l], p, cut) \in LaneType
        /\ LaneBounded(Reserve(nonces[l], p, cut))
        /\ Newest(Reserve(nonces[l], p, cut), NextNonce(nonces[l], p))
    BY <1>2, ReserveType, ReserveIsNewest
  <2>3. /\ \A v \in Worker \ {w} : work'[v] = work[v]
        /\ work'[w].best = work[w].best
        /\ work'[w].nonce = NextNonce(nonces[l], p)
    BY <1>1, <2>1 DEF WorkType
  <2> HIDE DEF l
  <2> QED BY <1>2, <2>1, <2>2, <2>3, OwnLaneStep
<1>4. CASE SendAccepted(w)
  <2>1. /\ \A v \in Worker \ {w} : work'[v] = work[v]
        /\ work'[w].best = work[w].best
        /\ work'[w].nonce = work[w].nonce
    BY <1>1, <1>4 DEF SendAccepted, WorkType
  <2>2. Newest(nonces[l], work[w].nonce)
    BY <1>4 DEF SendAccepted, NonceInv
  <2>3. nonces' = [nonces EXCEPT ![l] = nonces[l]]
    BY <1>4 DEF SendAccepted, Typed
  <2> HIDE DEF l
  <2> QED BY <1>2, <2>1, <2>2, <2>3, OwnLaneStep
<1> QED BY <1>3, <1>4

\* Every step.
LEMMA NonceInvStep ==
  ASSUME Typed, OneHolder, NonceInv, [Next]_vars
  PROVE  NonceInv'
<1>1. ASSUME NEW w \in Worker, nonces' = nonces,
             work'[w].phase \notin {"reserved", "sent"},
             \A v \in Worker \ {w} : work'[v] = work[v]
      PROVE  NonceInv'
  BY <1>1 DEF NonceInv, HeldLane, LaneBounded, Newest
<1>2. ASSUME NEW w \in Worker, StartSurvey(w) \/ SurveyLane(w) \/ Take(w) \/ FreeLane(w)
      PROVE  NonceInv'
  <2>1. nonces' = nonces
    BY <1>2 DEF StartSurvey, SurveyLane, Take, FreeLane
  <2>2. work \in [Worker -> WorkType]
    BY DEF Typed
  <2>3. CASE StartSurvey(w)
    <3>1. work'[w].phase = "survey" /\ \A v \in Worker \ {w} : work'[v] = work[v]
      BY <2>2, <2>3 DEF StartSurvey, Off
    <3> QED BY <1>1, <2>1, <3>1
  <2>6. CASE FreeLane(w)
    BY <1>1, <2>1, <2>2, <2>6 DEF FreeLane, Off
  <2>4. CASE SurveyLane(w)
    BY <1>1, <2>1, <2>2, <2>4 DEF SurveyLane, WorkType
  <2>5. CASE Take(w)
    BY <1>1, <2>1, <2>2, <2>5 DEF Take, Off, WorkType
  <2> QED BY <1>2, <2>3, <2>4, <2>5, <2>6
<1>3. CASE \E w \in Worker : WorkerStep(w)
  BY <1>2, <1>3, ExitNonces, ReserveNonces DEF WorkerStep
<1>4. ASSUME UNCHANGED <<nonces, work>>
      PROVE  NonceInv'
  BY <1>4 DEF NonceInv, HeldLane, LaneBounded, Newest
<1>5. CASE \E l \in Lane : Mine(l) \/ Evict(l)
  BY <1>4, <1>5 DEF Mine, Evict
<1>6. CASE UNCHANGED vars
  BY <1>4, <1>6 DEF vars
<1> QED BY <1>3, <1>5, <1>6 DEF Next

\* The lanes start in order and nobody works on one.
LEMMA NonceInvInit == Init => NonceInv
BY DEF Init, NonceInv, LaneBounded, NewLane, Off

\* The three invariants together, which is what each theorem below rests on.
PoolInv == Typed /\ OneHolder /\ NonceInv

\* And they hold.
LEMMA PoolInvHolds == Spec => []PoolInv
<1>1. Init => PoolInv
  BY InitTypes, OneHolderInit, NonceInvInit DEF PoolInv
<1>2. PoolInv /\ [Next]_vars => PoolInv'
  BY StepTypes, OneHolderStep, NonceInvStep DEF PoolInv
<1> QED BY <1>1, <1>2, PTL DEF Spec

\* The nonce a ticket works with is its lane's newest and in flight, whatever was
\* purged, lost or left unanswered before it.
THEOREM NoncesNewest == Spec => []HeldNonceIsNewest
<1>1. PoolInv => HeldNonceIsNewest
  BY DEF PoolInv, NonceInv, HeldNonceIsNewest, Newest
<1> QED BY <1>1, PoolInvHolds, PTL

\* No ticket works under a nonce its lane has been told landed, however far the
\* node's answers lag.
THEOREM NoncesFresh == Spec => []ConfirmedNotReused
<1>1. PoolInv => ConfirmedNotReused
  BY DEF PoolInv, NonceInv, ConfirmedNotReused, Newest
<1> QED BY <1>1, PoolInvHolds, PTL

-----------------------------------------------------------------------------
(* No gap.                                                                 *)

\* What UnsentLeavesNoGap says of one nonce of a lane.
Covered(l, m) ==
  \/ m \in sent[l]
  \/ \E w \in Worker :
       work[w].phase = "reserved" /\ HeldLane(w) = l /\ work[w].nonce = m

\* The mempool holds nothing that was not sent, and the chain cannot have taken
\* more than that.
MempoolInv ==
  \A l \in Lane : pool[l] \subseteq sent[l] /\ mined[l] <= MaxNonce + 1

GapInv == UnsentLeavesNoGap /\ MempoolInv

\* The node counts only transactions that are in the mempool.
LEMMA PendingInPool ==
  ASSUME Typed, MempoolInv, NEW l \in Lane
  PROVE  /\ PendingCount(l) \in Nat
         /\ \A n \in mined[l]..(PendingCount(l) - 1) : n \in pool[l]
<1> DEFINE T == {k \in Nat : k >= mined[l] /\ k \notin pool[l]}
           R == OpToRel(<, Nat)
<1>1. mined[l] \in Nat /\ mined[l] <= MaxNonce + 1 /\ MaxNonce \in Nat
      /\ pool[l] \subseteq 0..MaxNonce
  BY PoolAssumption DEF Typed, MempoolInv, Nonce
<1>2. T \subseteq Nat /\ MaxNonce + 1 \in T
  BY <1>1
<1>3. PICK k \in T : \A j \in T : ~(<<j, k>> \in R)
  <2>1. IsWellFoundedOn(R, Nat)
    BY NatLessThanWellFounded
  <2> HIDE DEF T, R
  <2> QED BY <1>2, <2>1, WFMin
<1>4. k \in Nat /\ \A j \in T : ~(j < k)
  BY <1>2, <1>3 DEF OpToRel
<1>5. k \in mined[l]..(MaxNonce + 1)
  <2>1. k >= mined[l] /\ ~(MaxNonce + 1 < k)
    BY <1>2, <1>3, <1>4
  <2> HIDE DEF T
  <2> QED BY <1>1, <1>4, <2>1
<1>6. \A n \in mined[l]..(k - 1) : n \in pool[l]
  <2>1. SUFFICES ASSUME NEW n \in mined[l]..(k - 1), n \notin pool[l]
                 PROVE  FALSE
    OBVIOUS
  <2>2. n \in T /\ n < k
    BY <1>1, <1>4, <2>1
  <2> QED BY <1>4, <2>2
<1>7. k \notin pool[l]
  BY <1>3
<1>8. /\ PendingCount(l) \in mined[l]..(MaxNonce + 1)
      /\ \A n \in mined[l]..(PendingCount(l) - 1) : n \in pool[l]
  BY <1>5, <1>6, <1>7 DEF PendingCount
<1> QED BY <1>1, <1>8

\* Only the lane's holder may have the nonce that covers a hole.
LEMMA CoveredBySent ==
  ASSUME OneHolder, NEW w \in Worker, NEW l \in Lane, Holds(w, l), NEW m, Covered(l, m),
         work[w].phase # "reserved" \/ work[w].nonce # m
  PROVE  m \in sent[l]
<1>1. SUFFICES ASSUME NEW v \in Worker, work[v].phase = "reserved", HeldLane(v) = l,
                      work[v].nonce = m
               PROVE  FALSE
  BY DEF Covered
<1>2. Holds(v, l)
  BY <1>1 DEF Holds
<1> QED BY <1>1, <1>2 DEF OneHolder

\* A step that moves the high-water mark of lane l only, and only over covered
\* nonces, opens no gap.
LEMMA GapOnLane ==
  ASSUME PoolInv, GapInv, NEW w \in Worker, NEW l \in Lane, Holds(w, l),
         mined' = mined, \A k \in Lane : sent[k] \subseteq sent'[k],
         \A k \in Lane \ {l} : nonces'[k] = nonces[k],
         \A v \in Worker \ {w} : work'[v] = work[v],
         \A m \in mined[l]..(nonces'[l].reserved - 1) : Covered(l, m)'
  PROVE  UnsentLeavesNoGap'
<1>1. SUFFICES ASSUME NEW k \in Lane, k # l, NEW m \in mined[k]..(nonces[k].reserved - 1)
               PROVE  Covered(k, m)'
  BY DEF UnsentLeavesNoGap, Covered
<1>2. Covered(k, m)
  BY <1>1 DEF GapInv, UnsentLeavesNoGap, Covered
<1>3. CASE m \in sent[k]
  BY <1>3 DEF Covered
<1>4. CASE \E v \in Worker : work[v].phase = "reserved" /\ HeldLane(v) = k /\ work[v].nonce = m
  <2>1. PICK v \in Worker : work[v].phase = "reserved" /\ HeldLane(v) = k /\ work[v].nonce = m
    BY <1>4
  <2>2. v # w
    BY <1>1, <2>1 DEF Holds
  <2> QED BY <2>1, <2>2 DEF Covered, HeldLane
<1> QED BY <1>2, <1>3, <1>4 DEF Covered

\* Steps that move no mark and no nonce.
LEMMA GapSame ==
  ASSUME GapInv, nonces' = nonces, mined' = mined, sent' = sent,
         \A v \in Worker : work[v].phase = "reserved" => work'[v] = work[v]
  PROVE  UnsentLeavesNoGap'
BY DEF GapInv, UnsentLeavesNoGap, HeldLane

\* What the invariant says of one nonce below the mark.
LEMMA BelowTheMark ==
  ASSUME UnsentLeavesNoGap, NEW l \in Lane, NEW m \in mined[l]..(nonces[l].reserved - 1)
  PROVE  Covered(l, m)
BY DEF UnsentLeavesNoGap, Covered

\* What was sent stays covered.
LEMMA SentIsCovered ==
  ASSUME NEW l \in Lane, NEW m, m \in sent'[l]
  PROVE  Covered(l, m)'
BY DEF Covered

\* A reservation: below it are old nonces, covered by others' sends, and nonces the
\* node has counted, which are in the mempool and so were sent.
LEMMA GapReserve ==
  ASSUME PoolInv, GapInv, NEW w \in Worker, ReserveNonce(w)
  PROVE  UnsentLeavesNoGap'
<1>0. PICK l \in Lane : l = HeldLane(w)
  BY DEF ReserveNonce, PoolInv, Typed, WorkSound, HeldLane, HeldPhase
<1>1. /\ Holds(w, l) /\ nonces[l] \in LaneType /\ work \in [Worker -> WorkType]
      /\ nonces \in [Lane -> LaneType] /\ mined[l] \in Nat /\ work[w].phase = "holding"
  BY <1>0 DEF ReserveNonce, PoolInv, Typed, Holds
<1>2. /\ PendingCount(l) \in Nat
      /\ \A k \in mined[l]..(PendingCount(l) - 1) : k \in sent[l]
  BY PendingInPool DEF PoolInv, GapInv, MempoolInv
<1>3. PICK p \in 0..PendingCount(l), cut \in Nat :
        /\ nonces' = [nonces EXCEPT ![l] = Reserve(nonces[l], p, cut)]
        /\ work' = [work EXCEPT ![w].phase = "reserved",
                                ![w].nonce = NextNonce(nonces[l], p)]
  <2>1. \A a : 0..a \subseteq Nat
    OBVIOUS
  <2> QED BY <1>0, <2>1 DEF ReserveNonce
<1>4. PICK n \in Nat : n = NextNonce(nonces[l], p)
  BY <1>1, <1>2, ReserveType
<1>5. nonces'[l].reserved = n + 1 /\ \A k \in Lane \ {l} : nonces'[k] = nonces[k]
  <2>1. p \in Nat
    BY <1>2
  <2>2. Reserve(nonces[l], p, cut).reserved = n + 1
    BY <1>1, <1>4, <2>1, ReserveType
  <2> QED BY <1>1, <1>3, <2>2
<1>6. /\ \A v \in Worker \ {w} : work'[v] = work[v]
      /\ work'[w].phase = "reserved" /\ work'[w].nonce = n /\ work'[w].best = l
  BY <1>0, <1>1, <1>3, <1>4 DEF WorkType, HeldLane
<1>7. mined' = mined /\ sent' = sent
  BY DEF ReserveNonce
<1>8. ASSUME NEW m \in mined[l]..(nonces'[l].reserved - 1)
      PROVE  Covered(l, m)'
  <2>1. CASE m = n
    BY <1>6, <2>1 DEF Covered, HeldLane
  <2>2. CASE m # n /\ m < nonces[l].reserved
    <3>1. m \in mined[l]..(nonces[l].reserved - 1)
      BY <1>1, <1>5, <1>8, <2>2 DEF LaneType, Unset
    <3>2. Covered(l, m)
      BY <3>1, BelowTheMark DEF GapInv
    <3>3. m \in sent[l]
      BY <1>1, <3>2, CoveredBySent DEF PoolInv
    <3> QED BY <1>7, <3>3, SentIsCovered
  <2>3. CASE m # n /\ ~(m < nonces[l].reserved)
    <3>1. m \in Int /\ m >= mined[l] /\ m < n
      BY <1>1, <1>5, <1>8, <2>3
    <3>2. nonces[l].reserved \in Int /\ p \in Nat /\ p <= PendingCount(l)
      BY <1>1, <1>2 DEF LaneType, Unset
    <3>3. n = p
      BY <1>4, <2>3, <3>1, <3>2 DEF NextNonce
    <3>4. m \in mined[l]..(PendingCount(l) - 1)
      BY <1>1, <1>2, <3>1, <3>2, <3>3
    <3> QED BY <1>2, <1>7, <3>4, SentIsCovered
  <2> QED BY <2>1, <2>2, <2>3
<1> QED BY <1>1, <1>5, <1>6, <1>7, <1>8, GapOnLane

\* A nonce that goes back was the newest, so the mark comes back to it.
LEMMA GapGivenBack ==
  ASSUME PoolInv, GapInv, NEW w \in Worker,
         RefusedUnsent(w) \/ ShadowDispatch(w) \/ SendRejected(w) \/ Settled(w) \/ NotIncluded(w)
  PROVE  UnsentLeavesNoGap'
<1>1. work[w].phase \in {"reserved", "sent"} /\ Leaves(w)
  <2>1. Leaves(w)
    BY ExitLeaves
  <2>2. work[w].phase \in {"reserved", "sent"}
    BY DEF RefusedUnsent, ShadowDispatch, SendRejected, Settled, NotIncluded
  <2> QED BY <2>1, <2>2
<1>2. PICK l \in Lane : l = HeldLane(w)
  BY <1>1 DEF PoolInv, Typed, WorkSound, HeldLane, HeldPhase
<1>3. PICK n \in Nat : n = work[w].nonce
  BY <1>1, PoolAssumption DEF PoolInv, Typed, WorkSound, HeldPhase, Nonce
<1>4. /\ Holds(w, l) /\ nonces[l] \in LaneType /\ LaneBounded(nonces[l])
      /\ nonces \in [Lane -> LaneType] /\ mined[l] \in Nat /\ Newest(nonces[l], n)
  BY <1>1, <1>2, <1>3 DEF PoolInv, Typed, Holds, HeldLane, NonceInv
<1>5. \A v \in Worker \ {w} : work'[v] = work[v]
  BY <1>1, LeavesTypes DEF PoolInv, HeldPhase
<1>6. mined' = mined /\ sent' = sent
  BY DEF RefusedUnsent, ShadowDispatch, SendRejected, Settled, NotIncluded
<1>7. \/ Spend(l, n) /\ work[w].phase = "sent"
      \/ GiveBack(l, n)
  BY <1>2, <1>3 DEF RefusedUnsent, ShadowDispatch, SendRejected, Settled, NotIncluded
<1>8. /\ \A k \in Lane \ {l} : nonces'[k] = nonces[k]
      /\ \/ nonces'[l].reserved = nonces[l].reserved /\ work[w].phase = "sent"
         \/ nonces'[l].reserved = n
  <2>1. CASE Spend(l, n) /\ work[w].phase = "sent"
    BY <1>4, <2>1, ReleaseOfNewest DEF Spend
  <2>2. CASE GiveBack(l, n)
    BY <1>4, <2>2, ReleaseOfNewest DEF GiveBack
  <2> QED BY <1>7, <2>1, <2>2
<1>9. ASSUME NEW m \in mined[l]..(nonces'[l].reserved - 1)
      PROVE  Covered(l, m)'
  <2>1. nonces[l].reserved = n + 1
    BY <1>4 DEF Newest
  <2>2. m \in mined[l]..(nonces[l].reserved - 1) /\ (work[w].phase # "reserved" \/ n # m)
    BY <1>4, <1>8, <1>9, <2>1
  <2>3. Covered(l, m)
    BY <2>2, BelowTheMark DEF GapInv
  <2>4. m \in sent[l]
    BY <1>3, <1>4, <2>2, <2>3, CoveredBySent DEF PoolInv
  <2> QED BY <1>6, <2>4, SentIsCovered
<1> QED BY <1>4, <1>5, <1>6, <1>8, <1>9, GapOnLane

\* A send puts its own nonce among the sent ones.
LEMMA GapSend ==
  ASSUME PoolInv, GapInv, NEW w \in Worker, SendUnanswered(w) \/ SendAccepted(w)
  PROVE  UnsentLeavesNoGap'
<1>1. /\ work[w].phase = "reserved" /\ nonces' = nonces /\ mined' = mined
      /\ Handed(HeldLane(w), work[w].nonce)
  BY DEF SendUnanswered, SendAccepted
<1>2. PICK l \in Lane : l = HeldLane(w)
  BY <1>1 DEF PoolInv, Typed, WorkSound, HeldLane, HeldPhase
<1>3. Holds(w, l) /\ sent \in [Lane -> SUBSET Nonce] /\ work \in [Worker -> WorkType]
  BY <1>1, <1>2 DEF PoolInv, Typed, Holds
<1>4. \A v \in Worker \ {w} : work'[v] = work[v]
  <2>1. CASE SendUnanswered(w)
    BY <1>3, <2>1 DEF SendUnanswered, Leaves
  <2>2. CASE SendAccepted(w)
    BY <1>3, <2>2 DEF SendAccepted
  <2> QED BY <2>1, <2>2
<1>5. /\ \A k \in Lane : sent[k] \subseteq sent'[k]
      /\ sent'[l] = sent[l] \cup {work[w].nonce}
  BY <1>1, <1>2, <1>3 DEF Handed
<1>6. ASSUME NEW m \in mined[l]..(nonces'[l].reserved - 1)
      PROVE  Covered(l, m)'
  <2>1. Covered(l, m)
    BY <1>1, <1>6, BelowTheMark DEF GapInv
  <2>2. m = work[w].nonce \/ m \in sent[l]
    BY <1>3, <2>1, CoveredBySent DEF PoolInv
  <2> QED BY <1>5, <2>2, SentIsCovered
<1> QED BY <1>1, <1>3, <1>4, <1>5, <1>6, GapOnLane

\* Nothing enters a mempool without being sent, and the chain counts only what it
\* takes from there.
LEMMA MempoolStep ==
  ASSUME Typed, MempoolInv, [Next]_vars
  PROVE  MempoolInv'
<1>1. ASSUME NEW w \in Worker, WorkerStep(w)
      PROVE  MempoolInv'
  <2>1. mined' = mined
    BY <1>1 DEF WorkerStep, StartSurvey, SurveyLane, Take, ReserveNonce, NoReading,
                RefusedUnsent, ShadowDispatch, SendRejected, SendUnanswered, SendAccepted,
                Settled, NotIncluded, Unobserved, FreeLane
  <2>2. CASE SendUnanswered(w) \/ SendAccepted(w)
    <3>1. /\ Handed(HeldLane(w), work[w].nonce)
          /\ Arrives(HeldLane(w), work[w].nonce) \/ UNCHANGED pool
      BY <2>2 DEF SendUnanswered, SendAccepted
    <3>2. /\ sent \in [Lane -> SUBSET Nonce]
          /\ pool \in [Lane -> SUBSET Nonce]
      BY DEF Typed
    <3> QED BY <2>1, <3>1, <3>2 DEF Handed, Arrives, MempoolInv
  <2>3. CASE ~(SendUnanswered(w) \/ SendAccepted(w))
    <3>1. pool' = pool /\ sent' = sent
      BY <1>1, <2>3 DEF WorkerStep, StartSurvey, SurveyLane, Take, ReserveNonce, NoReading,
                  RefusedUnsent, ShadowDispatch, SendRejected, Settled, NotIncluded,
                  Unobserved, FreeLane
    <3> QED BY <2>1, <3>1 DEF MempoolInv
  <2> QED BY <2>2, <2>3
<1>2. ASSUME NEW l \in Lane, Mine(l)
      PROVE  MempoolInv'
  <2>1. /\ mined \in [Lane -> Nat]
        /\ pool \in [Lane -> SUBSET Nonce]
    BY DEF Typed
  <2>2. mined[l] \in 0..MaxNonce /\ MaxNonce \in Nat
    BY <1>2, <2>1, PoolAssumption DEF Mine, Nonce
  <2> QED BY <1>2, <2>1, <2>2 DEF Mine, MempoolInv
<1>3. ASSUME NEW l \in Lane, Evict(l)
      PROVE  MempoolInv'
  BY <1>3 DEF Evict, MempoolInv, Typed
<1>4. CASE UNCHANGED vars
  BY <1>4 DEF vars, MempoolInv
<1> QED BY <1>1, <1>2, <1>3, <1>4 DEF Next

\* No step opens a gap: a reservation, a release and a send by the lemmas above, the
\* chain because it only raises the count, and nothing else touches what is covered.
LEMMA GapStep ==
  ASSUME PoolInv, GapInv, [Next]_vars
  PROVE  UnsentLeavesNoGap'
<1>1. ASSUME NEW w \in Worker, StartSurvey(w) \/ SurveyLane(w) \/ Take(w) \/ NoReading(w)
                               \/ Unobserved(w) \/ FreeLane(w)
      PROVE  UnsentLeavesNoGap'
  <2>1. nonces' = nonces /\ mined' = mined /\ sent' = sent /\ work[w].phase # "reserved"
    BY <1>1 DEF StartSurvey, SurveyLane, Take, NoReading, Unobserved, FreeLane
  <2>2. work \in [Worker -> WorkType]
    BY DEF PoolInv, Typed
  <2>3. \E y : work' = [work EXCEPT ![w] = y]
    <3>1. CASE StartSurvey(w)
      BY <3>1 DEF StartSurvey
    <3>2. CASE SurveyLane(w)
      BY <3>2 DEF SurveyLane
    <3>3. CASE Take(w)
      BY <3>3 DEF Take
    <3>4. CASE NoReading(w) \/ Unobserved(w)
      BY <3>4 DEF NoReading, Unobserved, Leaves
    <3>5. CASE FreeLane(w)
      BY <3>5 DEF FreeLane
    <3> QED BY <1>1, <3>1, <3>2, <3>3, <3>4, <3>5
  <2>4. \A v \in Worker : work[v].phase = "reserved" => work'[v] = work[v]
    BY <2>1, <2>2, <2>3
  <2> QED BY <2>1, <2>4, GapSame
<1>2. CASE \E w \in Worker : WorkerStep(w)
  BY <1>1, <1>2, GapReserve, GapGivenBack, GapSend DEF WorkerStep
<1>3. ASSUME NEW l \in Lane, Mine(l)
      PROVE  UnsentLeavesNoGap'
  <2>1. mined \in [Lane -> Nat] /\ nonces \in [Lane -> LaneType]
    BY DEF PoolInv, Typed
  <2>2. nonces' = nonces /\ work' = work /\ sent' = sent
    BY <1>3 DEF Mine
  <2>3. \A k \in Lane : mined[k] \in Nat /\ mined'[k] \in Nat /\ mined[k] <= mined'[k]
    BY <1>3, <2>1 DEF Mine
  <2>4. \A k \in Lane : mined'[k]..(nonces[k].reserved - 1)
                          \subseteq mined[k]..(nonces[k].reserved - 1)
    BY <2>1, <2>3 DEF LaneType, Unset
  <2> QED BY <2>2, <2>4 DEF GapInv, UnsentLeavesNoGap, HeldLane
<1>4. ASSUME NEW l \in Lane, Evict(l)
      PROVE  UnsentLeavesNoGap'
  BY <1>4, GapSame DEF Evict
<1>5. CASE UNCHANGED vars
  BY <1>5, GapSame DEF vars
<1> QED BY <1>2, <1>3, <1>4, <1>5 DEF Next

\* A reservation that sent nothing leaves no gap: every nonce between the chain's count
\* and a lane's mark was handed to a dispatcher or is its holder's, whatever the nodes
\* answer and whatever the mempool loses.
THEOREM NoGap == Spec => []UnsentLeavesNoGap
<1>1. Init => GapInv
  BY PoolAssumption DEF Init, GapInv, UnsentLeavesNoGap, MempoolInv, NewLane, Unset
<1>2. PoolInv /\ GapInv /\ [Next]_vars => GapInv'
  BY GapStep, MempoolStep DEF PoolInv, GapInv
<1>3. GapInv => UnsentLeavesNoGap
  BY DEF GapInv
<1> QED BY <1>1, <1>2, <1>3, PoolInvHolds, PTL DEF Spec

=============================================================================
