-------------------------- MODULE ArmedLive_proofs --------------------------
(***************************************************************************)
(* Theorems about the armed lane's worker: its types, that a record of the *)
(* ledger is true of the chain and stays so, and that what has landed is   *)
(* pending or settled whatever dies when.  The invariant ArmedInv says of  *)
(* the chain's history, of the worker's memory and of the ledger's replay  *)
(* what each step needs of the last.                                       *)
(* On it rest the budget (BudgetInv), the compaction (CompactInv) and the  *)
(* tripwire (TruthfulInv).                                                 *)
(***************************************************************************)
EXTENDS ArmedLive, FoldLemmas

-----------------------------------------------------------------------------
(* Records, and the state they build.                                      *)

PlainKind == {"submitting", "refused", "expired"}
LossKind == {"landed", "abandoned"}

\* The records of the transactions X, and the states that hold some of them.
PlainRecord(X) == [kind : PlainKind, tx : X]
LossRecord(X) == [kind : LossKind, tx : X, loss : Nat, day : Nat]
CapRecord == [kind : {"loss_cap"}, day : Nat]
ArmedRecord(X) == PlainRecord(X) \cup LossRecord(X) \cup CapRecord \cup {Tripwire, Reset}

States(X) == [pending : SUBSET X, lost : Nat, capped : BOOLEAN, trip : BOOLEAN, day : Nat]

\* What a record may be, by its kind.
LEMMA RecordKinds ==
  ASSUME NEW X, NEW r \in ArmedRecord(X)
  PROVE  /\ r.kind \in PlainKind \cup LossKind \cup {"loss_cap", "tripwire", "reset"}
         /\ r.kind \in PlainKind => r \in PlainRecord(X) /\ r.tx \in X
         /\ r.kind \in LossKind => r \in LossRecord(X) /\ r.tx \in X /\ r.loss \in Nat /\ r.day \in Nat
         /\ r.kind = "loss_cap" => r \in CapRecord /\ r.day \in Nat
         /\ r.kind = "tripwire" <=> r = Tripwire
         /\ r.kind = "reset" <=> r = Reset
<1>1. CASE r \in PlainRecord(X)
  BY <1>1 DEF PlainRecord, PlainKind, LossKind, Tripwire, Reset
<1>2. CASE r \in LossRecord(X)
  BY <1>2 DEF LossRecord, PlainKind, LossKind, Tripwire, Reset
<1>3. CASE r \in CapRecord
  BY <1>3 DEF CapRecord, PlainKind, LossKind, Tripwire, Reset
<1>4. CASE r \in {Tripwire, Reset}
  BY <1>4 DEF PlainKind, LossKind, Tripwire, Reset
<1> QED BY <1>1, <1>2, <1>3, <1>4 DEF ArmedRecord

\* The records the worker makes are records.
LEMMA RecordsAre ==
  ASSUME NEW X
  PROVE  /\ \A t \in X : {Submitting(t), Refused(t), Expired(t)} \subseteq ArmedRecord(X)
         /\ \A t \in X : \A w \in Nat : \A d \in Nat : Abandoned(t, w, d) \in ArmedRecord(X)
         /\ \A t \in X : \A d \in Nat : fate[t].loss \in Nat => Landed(t, d) \in ArmedRecord(X)
         /\ \A d \in Nat : LossCap(d) \in ArmedRecord(X)
         /\ {Tripwire, Reset} \subseteq ArmedRecord(X)
<1>1. \A t \in X : {Submitting(t), Refused(t), Expired(t)} \subseteq PlainRecord(X)
  BY DEF PlainRecord, PlainKind, Submitting, Refused, Expired
<1>2. \A t \in X : \A w \in Nat : \A d \in Nat : Abandoned(t, w, d) \in LossRecord(X)
  BY DEF LossRecord, LossKind, Abandoned
<1>3. \A t \in X : \A d \in Nat : fate[t].loss \in Nat => Landed(t, d) \in LossRecord(X)
  BY DEF LossRecord, LossKind, Landed
<1>4. \A d \in Nat : LossCap(d) \in CapRecord
  BY DEF CapRecord, LossCap
<1> QED BY <1>1, <1>2, <1>3, <1>4 DEF ArmedRecord

\* Records of fewer transactions are records of more.
LEMMA RecordsGrow ==
  ASSUME NEW X, NEW Y, X \subseteq Y
  PROVE  ArmedRecord(X) \subseteq ArmedRecord(Y) /\ States(X) \subseteq States(Y)
<1>1. PlainRecord(X) \subseteq PlainRecord(Y) /\ LossRecord(X) \subseteq LossRecord(Y)
  BY DEF PlainRecord, LossRecord
<1>2. States(X) \subseteq States(Y)
  BY DEF States
<1> QED BY <1>1, <1>2 DEF ArmedRecord

\* Apply, for given transactions.
Beside(x, P, t) == {u \in P : <<x[u].sender, x[u].nonce>> = <<x[t].sender, x[t].nonce>>}

Take(x, s, r) ==
  CASE r.kind = "submitting" -> [s EXCEPT !.pending = @ \cup {r.tx}]
    [] r.kind \in {"refused", "expired"} -> [s EXCEPT !.pending = @ \ {r.tx}]
    [] r.kind \in {"landed", "abandoned"} -> [Spend(s, r) EXCEPT !.pending = @ \ Beside(x, @, r.tx)]
    [] r.kind = "loss_cap" -> IF r.day = s.day THEN [s EXCEPT !.capped = TRUE] ELSE s
    [] r.kind = "tripwire" -> [s EXCEPT !.trip = TRUE]
    [] r.kind = "reset" -> [s EXCEPT !.trip = FALSE]

\* LiveState::apply, for the transactions there are.
LEMMA ApplyIs == \A s, r : Apply(s, r) = Take(tx, s, r)
BY DEF Apply, Take, AtSlot, Beside, Slot

\* What a record does to what is pending.
Left(x, P, r) ==
  IF r.kind = "submitting" THEN P \cup {r.tx}
  ELSE IF r.kind \in {"refused", "expired"} THEN P \ {r.tx}
  ELSE IF r.kind \in LossKind THEN P \ Beside(x, P, r.tx)
  ELSE P

\* What a record does to each part of the state.
LEMMA TakeShape ==
  ASSUME NEW x, NEW X, NEW s \in States(X), NEW r \in ArmedRecord(X)
  PROVE  /\ Take(x, s, r) \in States(X)
         /\ Take(x, s, r).day = s.day
         /\ Take(x, s, r).pending = Left(x, s.pending, r)
         /\ Take(x, s, r).lost = IF r.kind \in LossKind /\ r.day = s.day THEN s.lost + r.loss ELSE s.lost
         /\ Take(x, s, r).trip <=> r.kind = "tripwire" \/ (s.trip /\ r.kind # "reset")
<1> DEFINE v == Take(x, s, r)
<1>0. /\ s.pending \in SUBSET X /\ s.lost \in Nat /\ s.capped \in BOOLEAN /\ s.trip \in BOOLEAN /\ s.day \in Nat
      /\ s = [pending |-> s.pending, lost |-> s.lost, capped |-> s.capped, trip |-> s.trip, day |-> s.day]
  BY DEF States
<1>k. /\ r.kind \in PlainKind \cup LossKind \cup {"loss_cap", "tripwire", "reset"}
      /\ r.kind \in PlainKind => r.tx \in X
      /\ r.kind \in LossKind => r.tx \in X /\ r.loss \in Nat /\ r.day \in Nat
  BY RecordKinds
<1>1. CASE r.kind = "submitting"
  <2>1. v = [pending |-> s.pending \cup {r.tx}, lost |-> s.lost, capped |-> s.capped, trip |-> s.trip, day |-> s.day]
    BY <1>0, <1>1 DEF Take
  <2>2. s.pending \cup {r.tx} \in SUBSET X
    BY <1>0, <1>1, <1>k DEF PlainKind
  <2> QED BY <1>0, <1>1, <2>1, <2>2 DEF States, Left, LossKind
<1>2. CASE r.kind \in {"refused", "expired"}
  <2>1. v = [pending |-> s.pending \ {r.tx}, lost |-> s.lost, capped |-> s.capped, trip |-> s.trip, day |-> s.day]
    BY <1>0, <1>2 DEF Take
  <2> QED BY <1>0, <1>2, <2>1 DEF States, Left, LossKind
<1>3. CASE r.kind \in LossKind
  <2> DEFINE P == s.pending \ Beside(x, s.pending, r.tx)
  <2>1. r.loss \in Nat /\ r.day \in Nat
    BY <1>3, <1>k
  <2>2. P \in SUBSET X
    BY <1>0
  <2>3. v = [Spend(s, r) EXCEPT !.pending = @ \ Beside(x, @, r.tx)]
    BY <1>3 DEF Take, LossKind
  <2>4. CASE r.day # s.day
    <3>1. v = [pending |-> P, lost |-> s.lost, capped |-> s.capped, trip |-> s.trip, day |-> s.day]
      BY <1>0, <2>3, <2>4 DEF Spend
    <3> HIDE DEF P
    <3> QED BY <1>0, <1>3, <2>2, <2>4, <3>1 DEF States, Left, LossKind, P
  <2>5. CASE r.day = s.day
    <3> DEFINE c == s.capped \/ s.lost + r.loss >= Budget
    <3>1. v = [pending |-> P, lost |-> s.lost + r.loss, capped |-> c, trip |-> s.trip, day |-> s.day]
      BY <1>0, <2>3, <2>5 DEF Spend
    <3>2. c \in BOOLEAN
      OBVIOUS
    <3> HIDE DEF P, c
    <3>3. s.lost + r.loss \in Nat
      BY <1>0, <2>1
    <3>4. v \in States(X) /\ v.day = s.day /\ v.pending = P /\ v.lost = s.lost + r.loss /\ v.trip = s.trip
      BY <1>0, <2>2, <3>1, <3>2, <3>3 DEF States
    <3>5. P = Left(x, s.pending, r)
      BY <1>3 DEF Left, LossKind, P
    <3> HIDE DEF v
    <3> QED BY <1>3, <2>5, <3>4, <3>5 DEF LossKind, v
  <2> QED BY <2>4, <2>5
<1>4. CASE r.kind = "loss_cap"
  <2>1. CASE r.day = s.day
    <3>1. v = [pending |-> s.pending, lost |-> s.lost, capped |-> TRUE, trip |-> s.trip, day |-> s.day]
      BY <1>0, <1>4, <2>1 DEF Take
    <3> HIDE DEF v
    <3>2. v \in States(X) /\ v.day = s.day /\ v.pending = s.pending /\ v.lost = s.lost /\ v.trip = s.trip
      BY <1>0, <3>1 DEF States
    <3> QED BY <1>4, <3>2 DEF Left, LossKind, v
  <2>2. CASE r.day # s.day
    <3>1. v = s
      BY <1>4, <2>2 DEF Take
    <3> QED BY <1>4, <3>1 DEF Left, LossKind
  <2> QED BY <2>1, <2>2
<1>5. CASE r.kind = "tripwire"
  <2>1. v = [pending |-> s.pending, lost |-> s.lost, capped |-> s.capped, trip |-> TRUE, day |-> s.day]
    BY <1>0, <1>5 DEF Take
  <2> HIDE DEF v
  <2>2. v \in States(X) /\ v.day = s.day /\ v.pending = s.pending /\ v.lost = s.lost /\ v.trip = TRUE
    BY <1>0, <2>1 DEF States
  <2> QED BY <1>5, <2>2 DEF Left, LossKind, v
<1>6. CASE r.kind = "reset"
  <2>1. v = [pending |-> s.pending, lost |-> s.lost, capped |-> s.capped, trip |-> FALSE, day |-> s.day]
    BY <1>0, <1>6 DEF Take
  <2> HIDE DEF v
  <2>2. v \in States(X) /\ v.day = s.day /\ v.pending = s.pending /\ v.lost = s.lost /\ v.trip = FALSE
    BY <1>0, <2>1 DEF States
  <2> QED BY <1>6, <2>2 DEF Left, LossKind, v
<1> QED BY <1>k, <1>1, <1>2, <1>3, <1>4, <1>5, <1>6 DEF PlainKind, LossKind

\* A roll changes the day, the loss and the cap, and nothing else.
LEMMA RollShape ==
  ASSUME NEW X, NEW s \in States(X), NEW d \in Nat
  PROVE  /\ Roll(s, d) \in States(X)
         /\ Roll(s, d).pending = s.pending /\ Roll(s, d).trip = s.trip
         /\ Roll(s, d).day = (IF d > s.day THEN d ELSE s.day)
         /\ Roll(s, d).lost = (IF d > s.day THEN 0 ELSE s.lost)
BY DEF Roll, States

-----------------------------------------------------------------------------
(* The replay of a ledger, for given transactions.                         *)

Retold(x, l, d) ==
  CHOOSE it : it = [s \in SUBSET DOMAIN l |->
                      IF s = {} THEN NewState(d) ELSE Take(x, it[s \ {Max(s)}], l[Max(s)])]

After(x, l, d) == Retold(x, l, d)[DOMAIN l]

\* A replay, for the transactions there are.
LEMMA ReplayIs == \A l, d : Replay(l, d) = After(tx, l, d)
BY DEF Replay, FoldLeft, MapThenFoldSet, After, Retold, Apply, Take, AtSlot, Beside, Slot

\* The replay of the ledger, now and after a step.
LEMMA DiskIs ==
  Replay(ledger, day) = After(tx, ledger, day) /\ Replay(ledger, day)' = After(tx', ledger', day')
BY DEF Replay, FoldLeft, MapThenFoldSet, After, Retold, Apply, Take, AtSlot, Beside, Slot

\* A replay begins with nothing pending.
LEMMA NewStateIs ==
  ASSUME NEW X, NEW d \in Nat
  PROVE  /\ NewState(d) \in States(X) /\ NewState(d).pending = {} /\ NewState(d).lost = 0
         /\ ~NewState(d).trip /\ NewState(d).day = d
BY DEF NewState, States

Step(x, X) == [z \in States(X) \X ArmedRecord(X) |-> Take(x, z[1], z[2])]

\* One record taken, as a function: the step of a fold.
LEMMA StepType ==
  ASSUME NEW x, NEW X
  PROVE  /\ Step(x, X) \in [States(X) \X ArmedRecord(X) -> States(X)]
         /\ \A s \in States(X) : \A r \in ArmedRecord(X) : Step(x, X)[<<s, r>>] = Take(x, s, r)
BY TakeShape DEF Step

\* It is the end of a fold of Step.
LEMMA AfterIsFold ==
  ASSUME NEW x, NEW X, NEW l \in Seq(ArmedRecord(X)), NEW d \in Nat
  PROVE  \E it : IsFold(it, NewState(d), Step(x, X), l) /\ After(x, l, d) = it[1..Len(l)]
<1> DEFINE n == Len(l)
           P == SUBSET (1..n)
           S == States(X)
           R == ArmedRecord(X)
           base == NewState(d)
           step == Step(x, X)
           Next1(f, s) == IF s = {} THEN base ELSE Take(x, f[s \ {Max(s)}], l[Max(s)])
           jt == Retold(x, l, d)
<1>1. n \in Nat /\ DOMAIN l = 1..n /\ \A i \in 1..n : l[i] \in R
  OBVIOUS
<1>2. step \in [S \X R -> S] /\ (\A s \in S : \A r \in R : step[<<s, r>>] = Take(x, s, r)) /\ base \in S
  <2>1. Step(x, X) \in [States(X) \X ArmedRecord(X) -> States(X)] /\ NewState(d) \in States(X)
    BY StepType, NewStateIs
  <2>2. \A s \in States(X) : \A r \in ArmedRecord(X) : Step(x, X)[<<s, r>>] = Take(x, s, r)
    BY StepType
  <2> QED BY <2>1, <2>2
<1>h. l \in Seq(R)
  OBVIOUS
<1>0. jt = CHOOSE it : it = [s \in SUBSET DOMAIN l |-> Next1(it, s)]
  BY DEF Retold
<1>6. After(x, l, d) = jt[DOMAIN l]
  BY DEF After
<1> HIDE DEF S, R, base, step, jt
<1>3. PICK it \in [P -> S] : IsFold(it, base, step, l)
  BY <1>2, <1>h, FoldExists
<1>p. \A s \in P : s # {} => s \ {Max(s)} \in P /\ l[Max(s)] \in R
  <2>1. ASSUME NEW s \in P, s # {} PROVE s \ {Max(s)} \in P /\ l[Max(s)] \in R
    <3>1. Max(s) \in s
      BY <1>1, <2>1, MaxOfPlaces
    <3> QED BY <1>1, <3>1
  <2> QED BY <2>1
<1>4. it = [s \in P |-> Next1(it, s)]
  <2>1. ASSUME NEW s \in P PROVE it[s] = Next1(it, s)
    <3>1. CASE s = {}
      BY <1>3, <3>1 DEF IsFold
    <3>2. CASE s # {}
      <4>1. s \ {Max(s)} \in P /\ l[Max(s)] \in R
        BY <1>p, <3>2
      <4>2. it[s \ {Max(s)}] \in S
        BY <1>3, <4>1
      <4>3. it[s] = step[<<it[s \ {Max(s)}], l[Max(s)]>>]
        BY <1>3, <3>2 DEF IsFold
      <4> QED BY <1>2, <3>2, <4>1, <4>2, <4>3
    <3> QED BY <3>1, <3>2
  <2>2. it = [s \in P |-> it[s]]
    BY <1>3
  <2> HIDE DEF Next1
  <2> QED BY <2>1, <2>2
<1>5. jt = [s \in P |-> Next1(jt, s)]
  BY <1>0, <1>1, <1>4
<1>7. jt[{}] = base
  <2>1. {} \in P
    OBVIOUS
  <2>2. jt[{}] = Next1(jt, {})
    <3> HIDE DEF Next1, P
    <3> QED BY <1>5, <2>1
  <2> QED BY <2>2
<1>8. ASSUME NEW s \in P, s # {}, jt[s \ {Max(s)}] \in S
      PROVE  jt[s] = step[<<jt[s \ {Max(s)}], l[Max(s)]>>]
  <2>1. jt[s] = Next1(jt, s)
    <3> HIDE DEF Next1, P
    <3> QED BY <1>5
  <2>2. l[Max(s)] \in R
    BY <1>8, <1>p
  <2> QED BY <1>2, <1>8, <2>1, <2>2
<1>9. jt[1..n] = it[1..n]
  <2>1. Unfolds(jt, base, step, l, S)
    BY <1>7, <1>8 DEF Unfolds
  <2>2. IsFold(it, base, step, l)
    BY <1>3
  <2>3. StaysIn(step, S, R) /\ base \in S
    BY <1>2 DEF StaysIn
  <2> HIDE DEF Next1, P
  <2>4. jt[1..Len(l)] = it[1..Len(l)]
    BY <1>h, <2>1, <2>2, <2>3, FoldUnique
  <2> QED BY <2>4
<1> QED BY <1>1, <1>3, <1>6, <1>9 DEF base, step

\* No records leave the state as it began.
LEMMA AfterEmpty == ASSUME NEW x, NEW d \in Nat PROVE After(x, <<>>, d) = NewState(d)
<1> DEFINE l == <<>>
           X == {}
<1>1. l \in Seq(ArmedRecord(X))
  OBVIOUS
<1>5. Len(l) = 0 /\ 1..0 = {}
  OBVIOUS
<1> HIDE DEF l, X
<1>2. PICK it : IsFold(it, NewState(d), Step(x, X), l) /\ After(x, l, d) = it[1..Len(l)]
  BY <1>1, AfterIsFold
<1>3. it[{}] = NewState(d)
  BY <1>2, <1>5 DEF IsFold
<1>4. After(x, l, d) = NewState(d)
  BY <1>2, <1>3, <1>5
<1> QED BY <1>4 DEF l

\* A replay is a state of the worker.
LEMMA AfterType ==
  ASSUME NEW x, NEW X, NEW l \in Seq(ArmedRecord(X)), NEW d \in Nat
  PROVE  After(x, l, d) \in States(X)
<1>1. PICK it : IsFold(it, NewState(d), Step(x, X), l) /\ After(x, l, d) = it[1..Len(l)]
  BY AfterIsFold
<1>2. it[1..Len(l)] \in States(X)
  BY <1>1, StepType, NewStateIs, FoldTyped
<1> QED BY <1>1, <1>2

\* One record more is one record taken.
LEMMA AfterAppend ==
  ASSUME NEW x, NEW X, NEW l \in Seq(ArmedRecord(X)), NEW r \in ArmedRecord(X), NEW d \in Nat
  PROVE  After(x, Append(l, r), d) = Take(x, After(x, l, d), r)
<1> DEFINE k == Append(l, r)
<1>1. PICK it : IsFold(it, NewState(d), Step(x, X), l) /\ After(x, l, d) = it[1..Len(l)]
  BY AfterIsFold
<1>2. k \in Seq(ArmedRecord(X)) /\ Len(k) = Len(l) + 1
  OBVIOUS
<1>3. PICK jt : IsFold(jt, NewState(d), Step(x, X), k) /\ After(x, k, d) = jt[1..Len(k)]
  BY <1>2, AfterIsFold
<1>4. jt[1..(Len(l) + 1)] = Step(x, X)[<<it[1..Len(l)], r>>]
  <2>1. IsFold(it, NewState(d), Step(x, X), l) /\ IsFold(jt, NewState(d), Step(x, X), Append(l, r))
    BY <1>1, <1>3
  <2> QED BY <2>1, FoldAppend
<1>5. Step(x, X)[<<After(x, l, d), r>>] = Take(x, After(x, l, d), r)
  BY AfterType, StepType
<1> QED BY <1>1, <1>2, <1>3, <1>4, <1>5

\* A record is taken alike by transactions alike.
LEMMA TakeAlike ==
  ASSUME NEW X, NEW x, NEW y, \A t \in X : x[t] = y[t], NEW s \in States(X), NEW r \in ArmedRecord(X)
  PROVE  Take(x, s, r) = Take(y, s, r)
<1>1. s.pending \subseteq X
  BY DEF States
<1>2. CASE r.kind \in LossKind
  <2>1. r.tx \in X
    BY <1>2, RecordKinds
  <2>2. Spend(s, r).pending = s.pending
    BY DEF Spend, States
  <2>3. Beside(x, s.pending, r.tx) = Beside(y, s.pending, r.tx)
    BY <1>1, <2>1 DEF Beside
  <2> QED BY <1>2, <2>2, <2>3 DEF Take, LossKind
<1>3. CASE r.kind \notin LossKind
  <2>1. r.kind \in PlainKind \cup {"loss_cap", "tripwire", "reset"}
    BY <1>3, RecordKinds
  <2> QED BY <2>1 DEF Take, PlainKind
<1> QED BY <1>2, <1>3

\* So is a ledger replayed.
LEMMA AfterAlike ==
  ASSUME NEW X, NEW x, NEW y, \A t \in X : x[t] = y[t], NEW l \in Seq(ArmedRecord(X)), NEW d \in Nat
  PROVE  After(x, l, d) = After(y, l, d)
<1>1. Step(x, X) = Step(y, X)
  <2>1. \A z \in States(X) \X ArmedRecord(X) : Take(x, z[1], z[2]) = Take(y, z[1], z[2])
    BY TakeAlike
  <2> QED BY <2>1 DEF Step
<1>2. PICK it : IsFold(it, NewState(d), Step(x, X), l) /\ After(x, l, d) = it[1..Len(l)]
  BY AfterIsFold
<1>3. PICK jt : IsFold(jt, NewState(d), Step(y, X), l) /\ After(y, l, d) = jt[1..Len(l)]
  BY AfterIsFold
<1>4. it[1..Len(l)] = jt[1..Len(l)]
  <2>1. SamePrefix(l, l, Len(l))
    BY DEF SamePrefix
  <2>2. IsFold(jt, NewState(d), Step(x, X), l)
    BY <1>1, <1>3
  <2> QED BY <1>2, <2>1, <2>2, FoldPrefix
<1> QED BY <1>2, <1>3, <1>4

\* Without the last records, none of them synced: what they took is pending
\* again, and a trip they reset is back.
Dropped(l, n) == \A i \in (n + 1)..Len(l) : l[i].kind \in {"refused", "reset"}

\* A ledger that loses its last refusals and resets has no less pending, the
\* same loss, and no trip but one it had or a lost reset had cleared.
LEMMA AfterDrop ==
  ASSUME NEW x, NEW X, NEW l \in Seq(ArmedRecord(X)), NEW n \in 0..Len(l), Dropped(l, n), NEW d \in Nat
  PROVE  LET s == After(x, l, d)
             u == After(x, SubSeq(l, 1, n), d) IN
         /\ s.pending \subseteq u.pending /\ s.lost = u.lost
         /\ (s.trip => u.trip)
         /\ u.trip => s.trip \/ \E i \in (n + 1)..Len(l) : l[i] = Reset
<1> DEFINE m == Len(l)
           Cut(k) == SubSeq(l, 1, k)
           u == After(x, Cut(n), d)
           Fits(k) == LET s == After(x, Cut(k), d) IN
                        /\ s.pending \subseteq u.pending /\ s.lost = u.lost
                        /\ (s.trip => u.trip)
                        /\ u.trip => s.trip \/ \E i \in (n + 1)..k : l[i] = Reset
           G == {j \in 0..(m - n) : Fits(n + j)}
<1>1. m \in Nat /\ n \in Nat /\ n <= m /\ m - n \in Nat
  OBVIOUS
<1>2. \A k \in 0..m : Cut(k) \in Seq(ArmedRecord(X))
  OBVIOUS
<1>3. 0 \in G
  <2>1. Fits(n)
    OBVIOUS
  <2> HIDE DEF Fits
  <2> QED BY <1>1, <2>1
<1>4. ASSUME NEW j \in 0..(m - n - 1), j \in G PROVE j + 1 \in G
  <2> DEFINE k == n + j
             r == l[k + 1]
             s == After(x, Cut(k), d)
             v == After(x, Cut(k + 1), d)
  <2>1. k \in 0..m /\ k + 1 \in 1..m /\ j + 1 \in 0..(m - n) /\ n + (j + 1) = k + 1 /\ k + 1 \in (n + 1)..m
    BY <1>1
  <2>2. Cut(k + 1) = Append(Cut(k), r)
    BY <2>1
  <2>3. r \in ArmedRecord(X) /\ r.kind \in {"refused", "reset"}
    <3>1. k + 1 \in 1..Len(l) /\ k + 1 \in (n + 1)..Len(l)
      BY <2>1
    <3> HIDE DEF k
    <3>2. r \in ArmedRecord(X)
      BY <3>1
    <3>3. r.kind \in {"refused", "reset"}
      <4> HIDE DEF m
      <4> QED BY <3>1 DEF Dropped
    <3> QED BY <3>2, <3>3
  <2>4. s \in States(X)
    <3>1. Cut(k) \in Seq(ArmedRecord(X))
      BY <1>2, <2>1
    <3> HIDE DEF k, Cut
    <3> QED BY <3>1, AfterType
  <2>5. Fits(k)
    BY <1>4
  <2> HIDE DEF Fits, Cut, k
  <2>6. v = Take(x, s, r)
    <3>1. Cut(k) \in Seq(ArmedRecord(X))
      BY <1>2, <2>1
    <3>2. After(x, Append(Cut(k), r), d) = Take(x, After(x, Cut(k), d), r)
      <4> HIDE DEF r
      <4> QED BY <2>3, <3>1, AfterAppend
    <3> QED BY <2>2, <3>2
  <2> HIDE DEF s, v, r
  <2>7. /\ v.pending = Left(x, s.pending, r) /\ v.lost = s.lost
        /\ v.trip <=> (s.trip /\ r.kind # "reset")
    BY <2>3, <2>4, <2>6, TakeShape DEF LossKind
  <2>8. v.pending \subseteq s.pending
    BY <2>3, <2>7 DEF Left
  <2>9. r.kind = "reset" => r = Reset
    BY <2>3, RecordKinds
  <2>10. /\ s.pending \subseteq u.pending /\ s.lost = u.lost /\ (s.trip => u.trip)
         /\ u.trip => s.trip \/ \E i \in (n + 1)..k : l[i] = Reset
    BY <2>5 DEF Fits, s
  <2>11. u.trip => v.trip \/ \E i \in (n + 1)..(k + 1) : l[i] = Reset
    <3>1. (n + 1)..k \subseteq (n + 1)..(k + 1) /\ k + 1 \in (n + 1)..(k + 1)
      BY <1>1, <2>1
    <3>2. r = l[k + 1]
      BY DEF r
    <3> QED BY <2>7, <2>9, <2>10, <3>1, <3>2
  <2>12. Fits(k + 1)
    BY <2>7, <2>8, <2>10, <2>11 DEF Fits, v
  <2> QED BY <2>1, <2>12
<1>5. m - n \in G
  <2>1. \A j \in 0..(m - n - 1) : j \in G => j + 1 \in G
    <3> HIDE DEF G
    <3> QED BY <1>4
  <2> HIDE DEF G
  <2>2. \A j \in 0..(m - n) : j \in G
    BY <1>1, <1>3, <2>1, InductionTo
  <2> QED BY <1>1, <2>2
<1>6. Fits(m)
  <2>1. n + (m - n) = m
    BY <1>1
  <2> HIDE DEF Fits
  <2> QED BY <1>5, <2>1
<1>7. Cut(m) = l
  OBVIOUS
<1> QED BY <1>6, <1>7

-----------------------------------------------------------------------------
(* The chain: nonces.                                                      *)

Txn == [sender : Sender, nonce : Nat, bound : Int, worst : Worst]
Fates == [is : {"none", "held", "dead", "landed"}, block : Nat, day : Nat, loss : Nat]
Theft == [sender : Sender, block : Nat]

IsChain(x, f, z) ==
  /\ x \in Seq(Txn) /\ Len(x) <= MaxTx
  /\ f \in [Tx -> Fates]
  /\ z \subseteq Theft /\ IsFiniteSet(z)

\* NonceAt, for a given chain.
LandedOf(x, f, s, b) == {t \in 1..Len(x) : x[t].sender = s /\ f[t].is = "landed" /\ f[t].block <= b}
StolenOf(z, s, b) == {u \in z : u.sender = s /\ u.block <= b}
NonceIn(x, f, z, s, b) == Cardinality(LandedOf(x, f, s, b)) + Cardinality(StolenOf(z, s, b))

\* The nonce, for the chain there is.
LEMMA NonceIs ==
  /\ \A s, b : NonceAt(s, b) = NonceIn(tx, fate, stolen, s, b)
  /\ \A s, b : NonceAt(s, b)' = NonceIn(tx', fate', stolen', s, b)
BY DEF NonceAt, NonceIn, LandedOf, StolenOf

\* What a transaction and its fate are made of.
LEMMA TxOf ==
  ASSUME NEW x, NEW f, NEW z, IsChain(x, f, z)
  PROVE  /\ Len(x) \in Nat /\ 1..Len(x) \subseteq Tx
         /\ \A t \in 1..Len(x) : x[t] \in Txn /\ f[t] \in Fates /\ t \in Tx
         /\ \A t \in 1..Len(x) : /\ x[t].sender \in Sender /\ x[t].nonce \in Nat /\ x[t].bound \in Int
                                 /\ x[t].worst \in Worst /\ x[t].worst \in Nat /\ x[t].worst > 0
                                 /\ f[t].is \in {"none", "held", "dead", "landed"}
                                 /\ f[t].block \in Nat /\ f[t].day \in Nat /\ f[t].loss \in Nat
<1>1. Len(x) \in Nat /\ \A t \in 1..Len(x) : x[t] \in Txn
  BY DEF IsChain
<1>2. MaxTx \in Nat
  BY ArmedAssumption
<1>3. \A t \in 1..Len(x) : t \in Tx
  BY <1>1, <1>2 DEF Tx, IsChain
<1>4. \A t \in 1..Len(x) : f[t] \in Fates
  BY <1>3 DEF IsChain
<1>5. \A w \in Worst : w \in Nat /\ w > 0
  BY ArmedAssumption
<1>6. \A y \in Txn : y.sender \in Sender /\ y.nonce \in Nat /\ y.bound \in Int /\ y.worst \in Worst
  BY DEF Txn
<1>7. \A y \in Fates : /\ y.is \in {"none", "held", "dead", "landed"}
                       /\ y.block \in Nat /\ y.day \in Nat /\ y.loss \in Nat
  BY DEF Fates
<1> QED BY <1>1, <1>3, <1>4, <1>5, <1>6, <1>7

\* A nonce counts at most the transactions and the uses elsewhere.
LEMMA NonceType ==
  ASSUME NEW x, NEW f, NEW z, IsChain(x, f, z), NEW s, NEW b
  PROVE  /\ IsFiniteSet(LandedOf(x, f, s, b)) /\ IsFiniteSet(StolenOf(z, s, b))
         /\ Cardinality(LandedOf(x, f, s, b)) \in Nat /\ Cardinality(StolenOf(z, s, b)) \in Nat
         /\ NonceIn(x, f, z, s, b) \in Nat
         /\ NonceIn(x, f, z, s, b) <= Len(x) + Cardinality(z)
<1>1. Len(x) \in Nat
  BY TxOf
<1>2. IsFiniteSet(1..Len(x)) /\ Cardinality(1..Len(x)) = Len(x)
  <2>1. Cardinality(1..Len(x)) = IF 1 > Len(x) THEN 0 ELSE Len(x) - 1 + 1
    BY <1>1, FS_Interval
  <2>2. IsFiniteSet(1..Len(x))
    BY <1>1, FS_Interval
  <2>3. (IF 1 > Len(x) THEN 0 ELSE Len(x) - 1 + 1) = Len(x)
    BY <1>1
  <2> QED BY <2>1, <2>2, <2>3
<1>3. LandedOf(x, f, s, b) \in SUBSET (1..Len(x)) /\ StolenOf(z, s, b) \in SUBSET z
  BY DEF LandedOf, StolenOf
<1>4. IsFiniteSet(LandedOf(x, f, s, b)) /\ Cardinality(LandedOf(x, f, s, b)) <= Len(x)
  BY <1>2, <1>3, FS_Subset
<1>5. IsFiniteSet(z)
  BY DEF IsChain
<1>6. IsFiniteSet(StolenOf(z, s, b)) /\ Cardinality(StolenOf(z, s, b)) <= Cardinality(z)
  BY <1>3, <1>5, FS_Subset
<1>7. /\ Cardinality(LandedOf(x, f, s, b)) \in Nat /\ Cardinality(StolenOf(z, s, b)) \in Nat
      /\ Cardinality(z) \in Nat
  BY <1>4, <1>5, <1>6, FS_CardinalityType
<1>8. NonceIn(x, f, z, s, b) = Cardinality(LandedOf(x, f, s, b)) + Cardinality(StolenOf(z, s, b))
  BY DEF NonceIn
<1> DEFINE k == Cardinality(LandedOf(x, f, s, b))
           m == Cardinality(StolenOf(z, s, b))
           n == Cardinality(z)
<1>9. k \in Nat /\ m \in Nat /\ n \in Nat /\ k <= Len(x) /\ m <= n
  BY <1>4, <1>6, <1>7
<1>10. NonceIn(x, f, z, s, b) = k + m
  BY <1>8
<1> HIDE DEF k, m, n
<1>11. NonceIn(x, f, z, s, b) \in Nat /\ NonceIn(x, f, z, s, b) <= Len(x) + n
  BY <1>1, <1>9, <1>10
<1> QED BY <1>4, <1>6, <1>7, <1>11 DEF n

\* No later block, no smaller nonce.
LEMMA NonceMono ==
  ASSUME NEW x, NEW f, NEW z, IsChain(x, f, z), NEW s, NEW b \in Int, NEW c \in Int, b <= c
  PROVE  NonceIn(x, f, z, s, b) <= NonceIn(x, f, z, s, c)
<1>1. LandedOf(x, f, s, b) \in SUBSET LandedOf(x, f, s, c)
  BY TxOf DEF LandedOf
<1>2. StolenOf(z, s, b) \in SUBSET StolenOf(z, s, c)
  BY DEF StolenOf, IsChain, Theft
<1>3. /\ Cardinality(LandedOf(x, f, s, b)) <= Cardinality(LandedOf(x, f, s, c))
      /\ Cardinality(StolenOf(z, s, b)) <= Cardinality(StolenOf(z, s, c))
  BY <1>1, <1>2, NonceType, FS_Subset
<1> QED BY <1>3, NonceType DEF NonceIn

\* What lands decides, and nothing else.
LEMMA NonceKept ==
  ASSUME NEW x, NEW f, NEW z, NEW y, NEW g,
         \A t : t \in 1..Len(x) /\ f[t].is = "landed" <=> t \in 1..Len(y) /\ g[t].is = "landed",
         \A t \in 1..Len(x) : f[t].is = "landed" => x[t] = y[t] /\ f[t] = g[t],
         NEW s, NEW b
  PROVE  NonceIn(y, g, z, s, b) = NonceIn(x, f, z, s, b)
<1>1. LandedOf(y, g, s, b) = LandedOf(x, f, s, b)
  BY DEF LandedOf
<1> QED BY <1>1 DEF NonceIn

\* A transaction that lands in a block no earlier one has uses a nonce of its
\* sender's from that block on.
LEMMA NonceLands ==
  ASSUME NEW x, NEW f, NEW z, NEW g, IsChain(x, f, z), NEW t \in 1..Len(x), f[t].is # "landed",
         NEW c \in Nat, g[t].is = "landed", g[t].block = c, \A u \in Tx : u # t => g[u] = f[u],
         NEW s, NEW b \in Int
  PROVE  NonceIn(x, g, z, s, b) = NonceIn(x, f, z, s, b) + (IF x[t].sender = s /\ c <= b THEN 1 ELSE 0)
<1> DEFINE L == LandedOf(x, f, s, b)
           M == LandedOf(x, g, s, b)
<1>1. \A u \in 1..Len(x) : u # t => g[u] = f[u]
  BY TxOf
<1>2. t \notin L
  BY DEF LandedOf
<1>3. IsFiniteSet(L) /\ Cardinality(L) \in Nat /\ Cardinality(StolenOf(z, s, b)) \in Nat
  BY NonceType
<1>4. CASE x[t].sender = s /\ c <= b
  <2>1. M = L \cup {t}
    BY <1>1, <1>4 DEF LandedOf
  <2> HIDE DEF L, M
  <2>2. Cardinality(M) = Cardinality(L) + 1
    BY <1>2, <1>3, <2>1, FS_AddElement
  <2> QED BY <1>3, <1>4, <2>2 DEF NonceIn, L, M
<1>5. CASE ~(x[t].sender = s /\ c <= b)
  <2>1. M = L
    BY <1>1, <1>5 DEF LandedOf
  <2> QED BY <1>3, <1>5, <2>1 DEF NonceIn
<1> QED BY <1>4, <1>5

\* So does somebody else's.
LEMMA NonceStolen ==
  ASSUME NEW x, NEW f, NEW z, IsChain(x, f, z), NEW e \in Theft, e \notin z,
         NEW w, w = z \cup {e}, NEW s, NEW b \in Int
  PROVE  NonceIn(x, f, w, s, b)
           = NonceIn(x, f, z, s, b) + (IF e.sender = s /\ e.block <= b THEN 1 ELSE 0)
<1> DEFINE L == StolenOf(z, s, b)
           M == StolenOf(w, s, b)
<1>2. e \notin L
  BY DEF StolenOf
<1>3. IsFiniteSet(L) /\ Cardinality(L) \in Nat /\ Cardinality(LandedOf(x, f, s, b)) \in Nat
  BY NonceType
<1>4. CASE e.sender = s /\ e.block <= b
  <2>1. M = L \cup {e}
    BY <1>4 DEF StolenOf
  <2> HIDE DEF L, M
  <2>2. Cardinality(M) = Cardinality(L) + 1
    BY <1>2, <1>3, <2>1, FS_AddElement
  <2> QED BY <1>3, <1>4, <2>2 DEF NonceIn, L, M
<1>5. CASE ~(e.sender = s /\ e.block <= b)
  <2>1. M = L
    BY <1>5 DEF StolenOf
  <2> QED BY <1>3, <1>5, <2>1 DEF NonceIn
<1> QED BY <1>4, <1>5

-----------------------------------------------------------------------------
(* The inductive invariant.                                                *)

Known == 1..Len(tx)
MostNonce == MaxTx + MaxMishaps

\* The bound on nonces is a number.
LEMMA MostIsNat == MostNonce \in Nat
<1>1. MaxTx \in Nat /\ MaxMishaps \in Nat
  BY ArmedAssumption
<1> QED BY <1>1 DEF MostNonce

Disk == Replay(ledger, day)

Reading == [sender : Sender, nonce : 0..MostNonce, landed : Nat]

Lines(d) == [pc : {"none", "recorded", "low", "underpriced", "settling"}, tx : Nat, now : 0..d, head : Int]
Heads(d) == [pc : {"none", "read"}, at : Int, now : 0..d, reads : SUBSET Reading]
Outboxes(X) == [records : Seq(ArmedRecord(X)), sender : Sender \cup {"none"}, nonce : -1..MostNonce]

WorldOK ==
  /\ IsChain(tx, fate, stolen)
  /\ block \in 1..MaxBlock /\ mishaps \in 0..MaxMishaps /\ Cardinality(stolen) <= mishaps

TypeInv ==
  /\ WorldOK
  /\ ledger \in Seq(ArmedRecord(Known))
  /\ mem \in States(Known) /\ mem.day <= day
  /\ nonces \in [Sender -> 0..MostNonce]
  /\ ready \in BOOLEAN /\ up \in BOOLEAN /\ excused \in BOOLEAN
  /\ turn \in {"free", "line", "head"}
  /\ line \in Lines(day) /\ head \in Heads(day) /\ outbox \in Outboxes(Known)

\* Who holds the turn, and what the tasks are in the middle of.
TurnInv ==
  /\ (turn = "line") <=> (line.pc # "none")
  /\ turn = "free" => outbox = NoOutbox
  /\ turn = "line" => ((outbox # NoOutbox) <=> (line.pc = "settling"))
  /\ turn = "head" => head.pc = "read"
  /\ outbox # NoOutbox => outbox.records # <<>> /\ outbox.sender \in Sender
  /\ head.pc = "none" => head.reads = {}
  /\ line.pc # "none" => line.tx \in Known /\ line.head <= block
  /\ line.pc = "recorded" => fate[line.tx].is = "none"
  /\ ~up => turn = "free" /\ line.pc = "none" /\ head.pc = "none"

\* Whether a transaction's nonce is used, or its bound reached without it, at
\* the block b.
Passed(x, f, z, b, t) == x[t].nonce < NonceIn(x, f, z, x[t].sender, b)
Lapsed(x, f, b, t) == f[t].is # "landed" /\ x[t].bound <= b

\* What has landed by the block b, where and when.
History(x, f, z, b) ==
  /\ \A t \in Tx : t > Len(x) => f[t].is = "none"
  /\ \A u \in z : u.block <= b
  /\ \A t \in 1..Len(x) : f[t].is = "landed" =>
       /\ f[t].block > 0 /\ f[t].block <= b /\ f[t].block <= x[t].bound
       /\ f[t].day = f[t].block \div DayBlocks /\ f[t].loss = x[t].worst
       /\ NonceIn(x, f, z, x[t].sender, f[t].block - 1) = x[t].nonce
       /\ NonceIn(x, f, z, x[t].sender, f[t].block) = x[t].nonce + 1
  /\ \A t \in 1..Len(x) : \A u \in 1..Len(x) :
       f[t].is = "landed" /\ f[u].is = "landed" /\ x[t].sender = x[u].sender /\ x[t].nonce = x[u].nonce
         => t = u

ChainInv == History(tx, fate, stolen, block)

\* A record says what is so.
Backed(x, f, z, b, r) ==
  /\ r.kind = "refused" => f[r.tx].is = "dead"
  /\ r.kind = "expired" => Lapsed(x, f, b, r.tx)
  /\ r.kind = "landed" => f[r.tx].is = "landed" /\ r.loss = x[r.tx].worst
  /\ r.kind = "abandoned" => Passed(x, f, z, b, r.tx)

BackedAll(x, f, z, b, l) == \A i \in 1..Len(l) : Backed(x, f, z, b, l[i])

RecordsInv ==
  BackedAll(tx, fate, stolen, block, ledger) /\ BackedAll(tx, fate, stolen, block, outbox.records)

\* A read is of the block before its head's.
ReadAt(x, f, z, h, r) ==
  /\ r.nonce = NonceIn(x, f, z, r.sender, h - 1)
  /\ r.landed # 0 => /\ r.landed \in 1..Len(x) /\ f[r.landed].is = "landed"
                     /\ x[r.landed].sender = r.sender /\ x[r.landed].nonce + 1 = r.nonce

HeadInv ==
  head.pc = "read" =>
    /\ head.at <= block /\ head.at \div DayBlocks <= head.now
    /\ \A r \in head.reads : ReadAt(tx, fate, stolen, head.at, r)

\* What may still land, or has, is in P or was passed.
NoneMissing(x, f, z, b, P) ==
  \A t \in 1..Len(x) : f[t].is # "dead" => t \in P \/ Passed(x, f, z, b, t) \/ Lapsed(x, f, b, t)

\* A record of l settles the nonce of t.
SettledBy(x, l, t) ==
  \E i \in 1..Len(l) : /\ l[i].kind \in LossKind
                       /\ x[l[i].tx].sender = x[t].sender /\ x[l[i].tx].nonce = x[t].nonce

\* What may still land, or has, is in P or settled in l.
NoneLost(x, f, b, l, P) ==
  \A t \in 1..Len(x) : f[t].is # "dead" => t \in P \/ SettledBy(x, l, t) \/ Lapsed(x, f, b, t)

\* For the worker as it runs, and for the next one.
PendingInv ==
  /\ up => NoneMissing(tx, fate, stolen, block, mem.pending)
  /\ NoneLost(tx, fate, block, ledger, Disk.pending)

ArmedInv == TypeInv /\ TurnInv /\ ChainInv /\ RecordsInv /\ HeadInv /\ PendingInv

-----------------------------------------------------------------------------
(* Greatest members, worst cases, and a set as a sequence.                 *)

\* The greatest of a set that may be empty.
LEMMA MostOf ==
  ASSUME NEW c \in Nat, NEW s, s \subseteq 0..c
  PROVE  Most(s) \in 0..c /\ (Most(s) # 0 => Most(s) \in s) /\ \A y \in s : y <= Most(s)
<1>1. s \cup {0} \subseteq 0..c /\ s \cup {0} # {}
  OBVIOUS
<1>2. Max(s \cup {0}) \in s \cup {0} /\ \A y \in s \cup {0} : y <= Max(s \cup {0})
  BY <1>1, MaxUpTo
<1> QED BY <1>1, <1>2 DEF Most

\* The worst cases have a bound: there are finitely many.
LEMMA WorstBounded ==
  ASSUME NEW x, NEW f, NEW z, IsChain(x, f, z)
  PROVE  \E c \in Nat : \A t \in 1..Len(x) : x[t].worst <= c
<1> DEFINE w == [t \in 1..Len(x) |-> x[t].worst]
           n == Len(x)
           G == {i \in 0..n : \E c \in Nat : \A t \in 1..i : w[t] <= c}
<1>1. n \in Nat /\ \A t \in 1..n : w[t] \in Nat
  BY TxOf
<1> HIDE DEF w, n
<1>2. 0 \in G
  BY <1>1
<1>3. ASSUME NEW i \in 0..(n - 1), i \in G PROVE i + 1 \in G
  <2>1. PICK c \in Nat : \A t \in 1..i : w[t] <= c
    BY <1>3
  <2>2. i + 1 \in 1..n /\ i + 1 \in 0..n
    BY <1>1
  <2>3. c + w[i + 1] \in Nat /\ c <= c + w[i + 1] /\ w[i + 1] <= c + w[i + 1]
    BY <1>1, <2>2
  <2>4. \A t \in 1..i : w[t] \in Nat
    BY <1>1
  <2>5. \A t \in 1..(i + 1) : w[t] <= c + w[i + 1]
    BY <2>1, <2>2, <2>3, <2>4
  <2> QED BY <2>2, <2>3, <2>5
<1>4. n \in G
  <2>1. \A i \in 0..(n - 1) : i \in G => i + 1 \in G
    <3> HIDE DEF G
    <3> QED BY <1>3
  <2> HIDE DEF G
  <2>2. \A i \in 0..n : i \in G
    BY <1>1, <1>2, <2>1, InductionTo
  <2> QED BY <1>1, <2>2
<1>5. PICK c \in Nat : \A t \in 1..n : w[t] <= c
  BY <1>4
<1> QED BY <1>5 DEF w, n

\* The most that one of P can cost.
WorstOf(x, P) == Most({x[t].worst : t \in P})

\* What a nonce can cost, for the transactions there are.
LEMMA HeldIs == /\ \A P : Held(P) = WorstOf(tx, P)
                /\ \A P : Held(P)' = WorstOf(tx', P')
BY DEF Held, WorstOf

\* It is the worst of one of its transactions.
LEMMA WorstType ==
  ASSUME NEW x, NEW f, NEW z, IsChain(x, f, z), NEW P, P \subseteq 1..Len(x)
  PROVE  /\ WorstOf(x, P) \in Nat
         /\ \A t \in P : x[t].worst <= WorstOf(x, P)
         /\ WorstOf(x, P) # 0 => \E t \in P : x[t].worst = WorstOf(x, P)
<1> DEFINE S == {x[t].worst : t \in P}
<1>1. PICK c \in Nat : \A t \in 1..Len(x) : x[t].worst <= c
  BY WorstBounded
<1>2. \A t \in P : x[t].worst \in 0..c
  <2>1. \A t \in 1..Len(x) : x[t].worst \in Nat
    BY TxOf
  <2> QED BY <1>1, <2>1
<1>3. S \subseteq 0..c
  BY <1>2
<1>4. Most(S) \in 0..c /\ (Most(S) # 0 => Most(S) \in S) /\ \A y \in S : y <= Most(S)
  <2> HIDE DEF S
  <2> QED BY <1>3, MostOf
<1>5. Most(S) \in Nat
  BY <1>4
<1>6. \A t \in P : x[t].worst <= Most(S)
  BY <1>4
<1> QED BY <1>4, <1>5, <1>6 DEF WorstOf

-----------------------------------------------------------------------------
(* How the chain grows.                                                    *)

\* What lasts from one state of the chain to a later one.
Grew(x, f, z, b, y, g, w, c) ==
  /\ IsChain(y, g, w)
  /\ c \in Nat /\ b <= c
  /\ Len(x) <= Len(y) /\ \A t \in 1..Len(x) : y[t] = x[t]
  /\ \A t \in 1..Len(x) :
       /\ f[t].is = "landed" => g[t] = f[t]
       /\ f[t].is = "dead" => g[t].is = "dead"
       /\ f[t].is # "landed" /\ g[t].is = "landed" => b < c /\ c <= x[t].bound
  /\ \A s : \A a \in Int : a <= b => NonceIn(y, g, w, s, a) = NonceIn(x, f, z, s, a)

\* The chain as it was.
LEMMA GrewNot ==
  ASSUME NEW x, NEW f, NEW z, IsChain(x, f, z), NEW b \in Nat
  PROVE  Grew(x, f, z, b, x, f, z, b)
BY TxOf DEF Grew

\* A transaction is made.
LEMMA GrewTx ==
  ASSUME NEW x, NEW f, NEW z, IsChain(x, f, z), NEW b \in Nat, History(x, f, z, b),
         NEW e \in Txn, Len(x) + 1 <= MaxTx
  PROVE  Grew(x, f, z, b, Append(x, e), f, z, b) /\ History(Append(x, e), f, z, b)
<1> DEFINE y == Append(x, e)
<1>1. Len(x) \in Nat /\ x \in Seq(Txn) /\ f \in [Tx -> Fates]
  BY DEF IsChain
<1>2. y \in Seq(Txn) /\ Len(y) = Len(x) + 1 /\ \A t \in 1..Len(x) : y[t] = x[t]
  BY <1>1
<1>3. Len(x) + 1 \in Tx
  BY <1>1, ArmedAssumption DEF Tx
<1>4. f[Len(x) + 1].is = "none"
  BY <1>1, <1>3 DEF History
<1> HIDE DEF y
<1>5. IsChain(y, f, z)
  BY <1>2 DEF IsChain
<1>6. \A s, a : NonceIn(y, f, z, s, a) = NonceIn(x, f, z, s, a)
  <2>1. \A t : t \in 1..Len(x) /\ f[t].is = "landed" <=> t \in 1..Len(y) /\ f[t].is = "landed"
    BY <1>1, <1>2, <1>4
  <2> QED BY <1>2, <2>1, NonceKept
<1>7. Grew(x, f, z, b, y, f, z, b)
  BY <1>1, <1>2, <1>5, <1>6 DEF Grew
<1>8. History(y, f, z, b)
  <2>1. \A t \in Tx : t > Len(y) => f[t].is = "none"
    BY <1>1, <1>2 DEF History, Tx
  <2>2. \A t \in 1..Len(y) : f[t].is = "landed" => t \in 1..Len(x)
    BY <1>1, <1>2, <1>4
  <2>3. \A u \in z : u.block <= b
    BY DEF History
  <2>4. \A t \in 1..Len(y) : f[t].is = "landed" =>
          /\ f[t].block > 0 /\ f[t].block <= b /\ f[t].block <= y[t].bound
          /\ f[t].day = f[t].block \div DayBlocks /\ f[t].loss = y[t].worst
          /\ NonceIn(y, f, z, y[t].sender, f[t].block - 1) = y[t].nonce
          /\ NonceIn(y, f, z, y[t].sender, f[t].block) = y[t].nonce + 1
    BY <1>2, <1>6, <2>2 DEF History
  <2>5. \A t \in 1..Len(y) : \A u \in 1..Len(y) :
          f[t].is = "landed" /\ f[u].is = "landed" /\ y[t].sender = y[u].sender /\ y[t].nonce = y[u].nonce
            => t = u
    BY <1>2, <2>2 DEF History
  <2> QED BY <2>1, <2>3, <2>4, <2>5 DEF History
<1> QED BY <1>7, <1>8 DEF y

\* A transaction is held, or refused.
LEMMA GrewFate ==
  ASSUME NEW x, NEW f, NEW z, IsChain(x, f, z), NEW b \in Nat, History(x, f, z, b),
         NEW t \in 1..Len(x), f[t].is \notin {"landed", "dead"}, NEW v \in {"held", "dead"}
  PROVE  LET g == [f EXCEPT ![t].is = v] IN Grew(x, f, z, b, x, g, z, b) /\ History(x, g, z, b)
<1> DEFINE g == [f EXCEPT ![t].is = v]
<1>1. Len(x) \in Nat /\ x \in Seq(Txn) /\ f \in [Tx -> Fates] /\ t \in Tx
  BY TxOf DEF IsChain
<1>2. /\ g \in [Tx -> Fates] /\ \A u \in Tx : u # t => g[u] = f[u]
      /\ g[t].is = v
  BY <1>1 DEF Fates
<1> HIDE DEF g
<1>3. IsChain(x, g, z)
  BY <1>2 DEF IsChain
<1>4. \A u \in 1..Len(x) : u \in Tx
  BY TxOf
<1>5. \A u \in 1..Len(x) : (g[u].is = "landed" <=> f[u].is = "landed") /\ (f[u].is = "landed" => g[u] = f[u])
  BY <1>2, <1>4
<1>6. \A s, a : NonceIn(x, g, z, s, a) = NonceIn(x, f, z, s, a)
  BY <1>5, NonceKept
<1>7. Grew(x, f, z, b, x, g, z, b)
  BY <1>1, <1>2, <1>3, <1>4, <1>5, <1>6 DEF Grew
<1>8. History(x, g, z, b)
  <2>1. \A u \in Tx : u > Len(x) => g[u].is = "none"
    BY <1>1, <1>2 DEF History
  <2> QED BY <1>5, <1>6, <2>1 DEF History
<1> QED BY <1>7, <1>8 DEF g

\* Nothing is in a block to come.
LEMMA NonceFlat ==
  ASSUME NEW x, NEW f, NEW z, IsChain(x, f, z), NEW b \in Nat, History(x, f, z, b), NEW c \in Int, b <= c, NEW s
  PROVE  NonceIn(x, f, z, s, c) = NonceIn(x, f, z, s, b)
<1>1. LandedOf(x, f, s, c) = LandedOf(x, f, s, b)
  BY TxOf DEF LandedOf, History
<1>2. StolenOf(z, s, c) = StolenOf(z, s, b)
  BY DEF StolenOf, History, IsChain, Theft
<1> QED BY <1>1, <1>2 DEF NonceIn

\* An empty block.
LEMMA GrewEmpty ==
  ASSUME NEW x, NEW f, NEW z, IsChain(x, f, z), NEW b \in Nat, History(x, f, z, b)
  PROVE  Grew(x, f, z, b, x, f, z, b + 1) /\ History(x, f, z, b + 1)
<1>1. Grew(x, f, z, b, x, f, z, b + 1)
  BY TxOf DEF Grew
<1>2. \A u \in z : u.block \in Nat
  BY DEF IsChain, Theft
<1>3. History(x, f, z, b + 1)
  BY <1>2, TxOf DEF History
<1> QED BY <1>1, <1>3

\* One of ours lands in the next block.
LEMMA GrewLands ==
  ASSUME NEW x, NEW f, NEW z, IsChain(x, f, z), NEW b \in Nat, History(x, f, z, b),
         NEW t \in 1..Len(x), f[t].is = "held", x[t].nonce = NonceIn(x, f, z, x[t].sender, b),
         b + 1 <= x[t].bound
  PROVE  LET g == [f EXCEPT ![t] = [is |-> "landed", block |-> b + 1, day |-> (b + 1) \div DayBlocks,
                                    loss |-> x[t].worst]] IN
         Grew(x, f, z, b, x, g, z, b + 1) /\ History(x, g, z, b + 1)
<1> DEFINE e == [is |-> "landed", block |-> b + 1, day |-> (b + 1) \div DayBlocks, loss |-> x[t].worst]
           g == [f EXCEPT ![t] = e]
<1>1. Len(x) \in Nat /\ x \in Seq(Txn) /\ f \in [Tx -> Fates] /\ t \in Tx
  BY TxOf DEF IsChain
<1>2. e \in Fates
  <2>1. DayBlocks \in Nat \ {0}
    BY ArmedAssumption
  <2>2. (b + 1) \div DayBlocks \in Nat
    BY <2>1
  <2>3. x[t].worst \in Nat
    BY TxOf
  <2> QED BY <2>2, <2>3 DEF Fates
<1>e. e.is = "landed" /\ e.block = b + 1 /\ e.day = (b + 1) \div DayBlocks /\ e.loss = x[t].worst
  OBVIOUS
<1> HIDE DEF e
<1>3. g \in [Tx -> Fates] /\ (\A u \in Tx : u # t => g[u] = f[u]) /\ g[t] = e
  BY <1>1, <1>2
<1> HIDE DEF g
<1>4. IsChain(x, g, z)
  BY <1>3 DEF IsChain
<1>5. \A u \in 1..Len(x) : u \in Tx
  BY TxOf
<1>6. \A s : \A a \in Int : NonceIn(x, g, z, s, a) = NonceIn(x, f, z, s, a) + (IF x[t].sender = s /\ b + 1 <= a THEN 1 ELSE 0)
  <2>1. b + 1 \in Nat /\ g[t].is = "landed" /\ g[t].block = b + 1 /\ f[t].is # "landed"
    BY <1>3, <1>e
  <2> QED BY <1>3, <2>1, NonceLands
<1>7. \A s : \A a \in Int : a <= b => NonceIn(x, g, z, s, a) = NonceIn(x, f, z, s, a)
  <2>1. \A s, a : NonceIn(x, f, z, s, a) \in Nat
    BY NonceType
  <2> QED BY <1>6, <2>1
<1>8. Grew(x, f, z, b, x, g, z, b + 1)
  <2>1. \A u \in 1..Len(x) : f[u].is = "landed" \/ f[u].is = "dead" => g[u] = f[u]
    BY <1>3, <1>5
  <2>2. \A u \in 1..Len(x) : f[u].is # "landed" /\ g[u].is = "landed" => u = t
    BY <1>3, <1>5
  <2> QED BY <1>1, <1>4, <1>7, <2>1, <2>2 DEF Grew
<1>9. History(x, g, z, b + 1)
  <2>1. \A u \in Tx : u > Len(x) => g[u].is = "none"
    BY <1>1, <1>3 DEF History
  <2>2. \A u \in z : u.block <= b + 1
    <3>1. \A u \in z : u.block \in Nat
      BY DEF IsChain, Theft
    <3> QED BY <3>1 DEF History
  <2>3. \A u \in 1..Len(x) : g[u].is = "landed" /\ u # t => f[u].is = "landed" /\ g[u] = f[u]
    BY <1>3, <1>5
  <2>4. ASSUME NEW u \in 1..Len(x), g[u].is = "landed", u # t
        PROVE  /\ g[u].block > 0 /\ g[u].block <= b + 1 /\ g[u].block <= x[u].bound
               /\ g[u].day = g[u].block \div DayBlocks /\ g[u].loss = x[u].worst
               /\ NonceIn(x, g, z, x[u].sender, g[u].block - 1) = x[u].nonce
               /\ NonceIn(x, g, z, x[u].sender, g[u].block) = x[u].nonce + 1
               /\ x[u].sender = x[t].sender => x[u].nonce # x[t].nonce
    <3>1. f[u].is = "landed" /\ g[u] = f[u] /\ f[u].block \in Nat /\ x[u].nonce \in Nat /\ x[u].bound \in Int
      BY <2>3, <2>4, TxOf
    <3>2. /\ f[u].block > 0 /\ f[u].block <= b /\ f[u].block <= x[u].bound
          /\ f[u].day = f[u].block \div DayBlocks /\ f[u].loss = x[u].worst
          /\ NonceIn(x, f, z, x[u].sender, f[u].block - 1) = x[u].nonce
          /\ NonceIn(x, f, z, x[u].sender, f[u].block) = x[u].nonce + 1
      BY <3>1 DEF History
    <3>3. /\ NonceIn(x, g, z, x[u].sender, g[u].block - 1) = x[u].nonce
          /\ NonceIn(x, g, z, x[u].sender, g[u].block) = x[u].nonce + 1
      BY <1>7, <3>1, <3>2
    <3>4. NonceIn(x, f, z, x[u].sender, f[u].block) <= NonceIn(x, f, z, x[u].sender, b)
      BY <3>1, <3>2, NonceMono
    <3>5. x[u].sender = x[t].sender => x[u].nonce # x[t].nonce
      BY <3>1, <3>2, <3>4
    <3> QED BY <3>1, <3>2, <3>3, <3>5
  <2>5. /\ g[t].block > 0 /\ g[t].block <= b + 1 /\ g[t].block <= x[t].bound
        /\ g[t].day = g[t].block \div DayBlocks /\ g[t].loss = x[t].worst
        /\ NonceIn(x, g, z, x[t].sender, g[t].block - 1) = x[t].nonce
        /\ NonceIn(x, g, z, x[t].sender, g[t].block) = x[t].nonce + 1
    <3>1. g[t].block = b + 1 /\ g[t].day = (b + 1) \div DayBlocks /\ g[t].loss = x[t].worst
      BY <1>3, <1>e
    <3>2. NonceIn(x, g, z, x[t].sender, b) = x[t].nonce
      BY <1>7
    <3>3. NonceIn(x, f, z, x[t].sender, b + 1) = x[t].nonce
      BY NonceFlat
    <3>4. NonceIn(x, g, z, x[t].sender, b + 1) = x[t].nonce + 1
      BY <1>6, <3>3
    <3>5. b + 1 - 1 = b
      OBVIOUS
    <3> QED BY <3>1, <3>2, <3>4, <3>5
  <2>6. \A u \in 1..Len(x) : \A v \in 1..Len(x) :
          g[u].is = "landed" /\ g[v].is = "landed" /\ x[u].sender = x[v].sender /\ x[u].nonce = x[v].nonce => u = v
    BY <2>3, <2>4 DEF History
  <2> QED BY <2>1, <2>2, <2>4, <2>5, <2>6 DEF History
<1> QED BY <1>8, <1>9 DEF g, e

\* The next block uses a nonce elsewhere.
LEMMA GrewStolen ==
  ASSUME NEW x, NEW f, NEW z, IsChain(x, f, z), NEW b \in Nat, History(x, f, z, b), NEW q \in Sender
  PROVE  LET w == z \cup {[sender |-> q, block |-> b + 1]} IN
         /\ Grew(x, f, z, b, x, f, w, b + 1) /\ History(x, f, w, b + 1)
         /\ Cardinality(w) = Cardinality(z) + 1
<1> DEFINE e == [sender |-> q, block |-> b + 1]
           w == z \cup {e}
<1>1. e \in Theft /\ e.block = b + 1 /\ IsFiniteSet(z)
  BY DEF Theft, IsChain
<1>2. \A u \in z : u.block \in Nat /\ u.block < b + 1
  BY DEF IsChain, Theft, History
<1>4. e \notin z
  BY <1>1, <1>2
<1>q. e.sender = q
  OBVIOUS
<1> HIDE DEF e
<1>5. IsFiniteSet(w) /\ Cardinality(w) = Cardinality(z) + 1
  BY <1>1, <1>4, FS_AddElement
<1>6. IsChain(x, f, w)
  BY <1>1, <1>5 DEF IsChain
<1>7. \A u \in w : u.block <= b + 1
  BY <1>1, <1>2
<1>w. w = z \cup {e}
  OBVIOUS
<1> HIDE DEF w
<1>3. \A s : \A a \in Int : NonceIn(x, f, w, s, a) = NonceIn(x, f, z, s, a) + (IF q = s /\ b + 1 <= a THEN 1 ELSE 0)
  BY <1>1, <1>4, <1>q, <1>w, NonceStolen
<1>8. \A s : \A a \in Int : a <= b => NonceIn(x, f, w, s, a) = NonceIn(x, f, z, s, a)
  <2>1. \A s, a : NonceIn(x, f, z, s, a) \in Nat
    BY NonceType
  <2> QED BY <1>3, <2>1
<1>9. Grew(x, f, z, b, x, f, w, b + 1)
  BY <1>6, <1>8, TxOf DEF Grew
<1>10. History(x, f, w, b + 1)
  <2>1. ASSUME NEW u \in 1..Len(x), f[u].is = "landed"
        PROVE  /\ f[u].block > 0 /\ f[u].block <= b + 1 /\ f[u].block <= x[u].bound
               /\ f[u].day = f[u].block \div DayBlocks /\ f[u].loss = x[u].worst
               /\ NonceIn(x, f, w, x[u].sender, f[u].block - 1) = x[u].nonce
               /\ NonceIn(x, f, w, x[u].sender, f[u].block) = x[u].nonce + 1
    <3>1. f[u].block \in Nat
      BY TxOf
    <3>2. f[u].block <= b
      BY <2>1 DEF History
    <3> QED BY <1>8, <2>1, <3>1, <3>2 DEF History
  <2> QED BY <1>7, <2>1 DEF History
<1> QED BY <1>5, <1>9, <1>10 DEF w, e

-----------------------------------------------------------------------------
(* What a growing chain leaves true.                                       *)

\* A nonce used stays used.
LEMMA PassedStays ==
  ASSUME NEW x, NEW f, NEW z, IsChain(x, f, z), NEW b \in Nat, NEW y, NEW g, NEW w, NEW c,
         Grew(x, f, z, b, y, g, w, c), NEW t \in 1..Len(x), Passed(x, f, z, b, t)
  PROVE  Passed(y, g, w, c, t)
<1>1. y[t] = x[t] /\ IsChain(y, g, w) /\ c \in Nat /\ b <= c
  BY DEF Grew
<1>2. NonceIn(y, g, w, x[t].sender, b) = NonceIn(x, f, z, x[t].sender, b)
  BY DEF Grew
<1>3. NonceIn(y, g, w, x[t].sender, b) <= NonceIn(y, g, w, x[t].sender, c)
  BY <1>1, NonceMono
<1>4. x[t].nonce \in Nat /\ NonceIn(y, g, w, x[t].sender, b) \in Nat /\ NonceIn(y, g, w, x[t].sender, c) \in Nat
  BY <1>1, TxOf, NonceType
<1>5. x[t].nonce < NonceIn(x, f, z, x[t].sender, b)
  BY DEF Passed
<1>6. x[t].nonce < NonceIn(y, g, w, x[t].sender, c)
  BY <1>2, <1>3, <1>4, <1>5
<1> QED BY <1>1, <1>6 DEF Passed

\* What lapsed never lands.
LEMMA LapsedStays ==
  ASSUME NEW x, NEW f, NEW z, IsChain(x, f, z), NEW b \in Nat, NEW y, NEW g, NEW w, NEW c,
         Grew(x, f, z, b, y, g, w, c), NEW t \in 1..Len(x), Lapsed(x, f, b, t)
  PROVE  Lapsed(y, g, c, t)
<1>1. y[t] = x[t] /\ c \in Nat /\ b <= c /\ x[t].bound \in Int
  BY TxOf DEF Grew
<1>2. g[t].is = "landed" => c <= x[t].bound /\ b < c
  BY DEF Grew, Lapsed
<1> QED BY <1>1, <1>2 DEF Lapsed

\* A record that is true stays true.
LEMMA BackedStays ==
  ASSUME NEW x, NEW f, NEW z, IsChain(x, f, z), NEW b \in Nat, NEW y, NEW g, NEW w, NEW c,
         Grew(x, f, z, b, y, g, w, c), NEW r \in ArmedRecord(1..Len(x)), Backed(x, f, z, b, r)
  PROVE  Backed(y, g, w, c, r)
<1>1. r.kind \in PlainKind \cup LossKind => r.tx \in 1..Len(x)
  BY RecordKinds
<1>2. r.kind = "refused" => g[r.tx].is = "dead"
  BY <1>1 DEF Backed, Grew, PlainKind
<1>3. r.kind = "expired" => Lapsed(y, g, c, r.tx)
  BY <1>1, LapsedStays DEF Backed, PlainKind
<1>4. r.kind = "landed" => g[r.tx].is = "landed" /\ r.loss = y[r.tx].worst
  BY <1>1 DEF Backed, Grew, LossKind
<1>5. r.kind = "abandoned" => Passed(y, g, w, c, r.tx)
  BY <1>1, PassedStays DEF Backed, LossKind
<1> QED BY <1>2, <1>3, <1>4, <1>5 DEF Backed

\* So do the records of a ledger.
LEMMA BackedAllStays ==
  ASSUME NEW x, NEW f, NEW z, IsChain(x, f, z), NEW b \in Nat, NEW y, NEW g, NEW w, NEW c,
         Grew(x, f, z, b, y, g, w, c), NEW l \in Seq(ArmedRecord(1..Len(x))), BackedAll(x, f, z, b, l)
  PROVE  BackedAll(y, g, w, c, l)
<1>1. \A i \in 1..Len(l) : l[i] \in ArmedRecord(1..Len(x)) /\ Backed(x, f, z, b, l[i])
  BY DEF BackedAll
<1>2. \A i \in 1..Len(l) : Backed(y, g, w, c, l[i])
  BY <1>1, BackedStays
<1> QED BY <1>2 DEF BackedAll

\* A record more, a record less, or others before it.
LEMMA BackedAppend ==
  ASSUME NEW x, NEW f, NEW z, NEW b, NEW R, NEW l \in Seq(R), NEW r \in R,
         BackedAll(x, f, z, b, l), Backed(x, f, z, b, r)
  PROVE  Append(l, r) \in Seq(R) /\ BackedAll(x, f, z, b, Append(l, r))
BY DEF BackedAll

\* A sequence of true records, without its first.
LEMMA BackedTail ==
  ASSUME NEW x, NEW f, NEW z, NEW b, NEW R, NEW l \in Seq(R), l # <<>>, BackedAll(x, f, z, b, l)
  PROVE  /\ Tail(l) \in Seq(R) /\ BackedAll(x, f, z, b, Tail(l))
         /\ l[1] \in R /\ Backed(x, f, z, b, l[1])
BY DEF BackedAll

\* One after another.
LEMMA BackedConcat ==
  ASSUME NEW x, NEW f, NEW z, NEW b, NEW R, NEW l \in Seq(R), NEW k \in Seq(R),
         BackedAll(x, f, z, b, l), BackedAll(x, f, z, b, k)
  PROVE  l \o k \in Seq(R) /\ BackedAll(x, f, z, b, l \o k)
<1>1. l \o k \in Seq(R) /\ Len(l \o k) = Len(l) + Len(k) /\ Len(l) \in Nat /\ Len(k) \in Nat
  OBVIOUS
<1>2. \A i \in 1..(Len(l) + Len(k)) : (l \o k)[i] = IF i <= Len(l) THEN l[i] ELSE k[i - Len(l)]
  OBVIOUS
<1>3. \A i \in 1..(Len(l) + Len(k)) : i <= Len(l) => i \in 1..Len(l)
  BY <1>1
<1>4. \A i \in 1..(Len(l) + Len(k)) : ~(i <= Len(l)) => i - Len(l) \in 1..Len(k)
  BY <1>1
<1>5. \A i \in 1..(Len(l) + Len(k)) : Backed(x, f, z, b, (l \o k)[i])
  BY <1>2, <1>3, <1>4 DEF BackedAll
<1> QED BY <1>1, <1>5 DEF BackedAll

\* A read stays true of its block.
LEMMA ReadStays ==
  ASSUME NEW x, NEW f, NEW z, IsChain(x, f, z), NEW b \in Nat, NEW y, NEW g, NEW w, NEW c,
         Grew(x, f, z, b, y, g, w, c), NEW h \in Int, h <= b, NEW r, ReadAt(x, f, z, h, r)
  PROVE  ReadAt(y, g, w, h, r)
<1>1. h - 1 \in Int /\ h - 1 <= b
  OBVIOUS
<1>2. NonceIn(y, g, w, r.sender, h - 1) = NonceIn(x, f, z, r.sender, h - 1)
  BY <1>1 DEF Grew
<1>3. 1..Len(x) \subseteq 1..Len(y)
  <2>1. Len(x) \in Nat /\ Len(y) \in Nat /\ Len(x) <= Len(y)
    BY TxOf DEF Grew
  <2> QED BY <2>1
<1>4. r.landed \in 1..Len(x) /\ f[r.landed].is = "landed" => g[r.landed] = f[r.landed] /\ y[r.landed] = x[r.landed]
  BY DEF Grew
<1> QED BY <1>2, <1>3, <1>4 DEF ReadAt

\* Nothing is missing, if each new one is there and whatever left is accounted for.
LEMMA NoneMissingStays ==
  ASSUME NEW x, NEW f, NEW z, IsChain(x, f, z), NEW b \in Nat, NEW y, NEW g, NEW w, NEW c,
         Grew(x, f, z, b, y, g, w, c), NEW P, NoneMissing(x, f, z, b, P), NEW Q,
         \A t \in 1..Len(y) : t \in P \/ t > Len(x) =>
           g[t].is = "dead" \/ t \in Q \/ Passed(y, g, w, c, t) \/ Lapsed(y, g, c, t)
  PROVE  NoneMissing(y, g, w, c, Q)
<1>1. Len(x) \in Nat /\ Len(y) \in Nat /\ Len(x) <= Len(y)
  BY TxOf DEF Grew
<1>2. \A t \in 1..Len(x) : f[t].is = "dead" => g[t].is = "dead"
  BY DEF Grew
<1>3. \A t \in 1..Len(x) : Passed(x, f, z, b, t) => Passed(y, g, w, c, t)
  BY PassedStays
<1>4. \A t \in 1..Len(x) : Lapsed(x, f, b, t) => Lapsed(y, g, c, t)
  BY LapsedStays
<1>5. \A t \in 1..Len(y) : t \in 1..Len(x) \/ t > Len(x)
  BY <1>1
<1> QED BY <1>2, <1>3, <1>4, <1>5 DEF NoneMissing

\* The same of what is pending or settled on disk.
LEMMA NoneLostStays ==
  ASSUME NEW x, NEW f, NEW z, IsChain(x, f, z), NEW b \in Nat, NEW y, NEW g, NEW w, NEW c,
         Grew(x, f, z, b, y, g, w, c), NEW P, NEW l, NoneLost(x, f, b, l, P), NEW Q, NEW k,
         \A t \in 1..Len(x) : SettledBy(x, l, t) => SettledBy(y, k, t),
         \A t \in 1..Len(y) : t \in P \/ t > Len(x) =>
           g[t].is = "dead" \/ t \in Q \/ SettledBy(y, k, t) \/ Lapsed(y, g, c, t)
  PROVE  NoneLost(y, g, c, k, Q)
<1>1. Len(x) \in Nat /\ Len(y) \in Nat /\ Len(x) <= Len(y)
  BY TxOf DEF Grew
<1>2. \A t \in 1..Len(x) : f[t].is = "dead" => g[t].is = "dead"
  BY DEF Grew
<1>4. \A t \in 1..Len(x) : Lapsed(x, f, b, t) => Lapsed(y, g, c, t)
  BY LapsedStays
<1>5. \A t \in 1..Len(y) : t \in 1..Len(x) \/ t > Len(x)
  BY <1>1
<1> QED BY <1>2, <1>4, <1>5 DEF NoneLost

\* A settlement lasts as long as its record.
LEMMA SettledStays ==
  ASSUME NEW x, NEW y, NEW n \in Nat, \A t \in 1..n : y[t] = x[t], NEW l \in Seq(ArmedRecord(1..n)), NEW k,
         \A i \in 1..Len(l) : l[i].kind \in LossKind => \E j \in 1..Len(k) : k[j] = l[i],
         NEW t \in 1..n, SettledBy(x, l, t)
  PROVE  SettledBy(y, k, t)
<1>1. PICK i \in 1..Len(l) : /\ l[i].kind \in LossKind
                             /\ x[l[i].tx].sender = x[t].sender /\ x[l[i].tx].nonce = x[t].nonce
  BY DEF SettledBy
<1>2. l[i] \in ArmedRecord(1..n)
  OBVIOUS
<1>3. l[i].tx \in 1..n
  BY <1>1, <1>2, RecordKinds
<1>4. PICK j \in 1..Len(k) : k[j] = l[i]
  BY <1>1
<1>5. y[k[j].tx] = x[l[i].tx] /\ y[t] = x[t] /\ k[j].kind \in LossKind
  BY <1>1, <1>3, <1>4
<1>6. y[k[j].tx].sender = y[t].sender /\ y[k[j].tx].nonce = y[t].nonce
  BY <1>1, <1>5
<1> QED BY <1>5, <1>6 DEF SettledBy

-----------------------------------------------------------------------------
(* What is pending in a ledger.                                            *)

\* The day does not matter to it.
LEMMA AfterDays ==
  ASSUME NEW x, NEW X, NEW l \in Seq(ArmedRecord(X)), NEW d \in Nat, NEW e \in Nat
  PROVE  /\ After(x, l, d).pending = After(x, l, e).pending
         /\ After(x, l, d).trip <=> After(x, l, e).trip
         /\ After(x, l, d).day = d
<1> DEFINE m == Len(l)
           Cut(k) == SubSeq(l, 1, k)
           Fits(k) == /\ After(x, Cut(k), d).pending = After(x, Cut(k), e).pending
                      /\ After(x, Cut(k), d).trip <=> After(x, Cut(k), e).trip
                      /\ After(x, Cut(k), d).day = d
           G == {k \in 0..m : Fits(k)}
<1>1. m \in Nat /\ \A k \in 0..m : Cut(k) \in Seq(ArmedRecord(X))
  OBVIOUS
<1>2. Fits(0)
  <2>1. Cut(0) = <<>>
    OBVIOUS
  <2>2. After(x, <<>>, d) = NewState(d) /\ After(x, <<>>, e) = NewState(e)
    BY AfterEmpty
  <2>3. /\ NewState(d).pending = {} /\ ~NewState(d).trip /\ NewState(d).day = d
        /\ NewState(e).pending = {} /\ ~NewState(e).trip
    BY NewStateIs
  <2> QED BY <2>1, <2>2, <2>3
<1>3. ASSUME NEW k \in 0..(m - 1), Fits(k) PROVE Fits(k + 1)
  <2> DEFINE r == l[k + 1]
             s == After(x, Cut(k), d)
             u == After(x, Cut(k), e)
  <2>1. k \in 0..m /\ k + 1 \in 1..m /\ Cut(k + 1) = Append(Cut(k), r) /\ r \in ArmedRecord(X)
    BY <1>1
  <2>2. Cut(k) \in Seq(ArmedRecord(X))
    BY <1>1, <2>1
  <2>3. Fits(k)
    BY <1>3
  <2> HIDE DEF Cut, Fits, r
  <2>4. s \in States(X) /\ u \in States(X)
    BY <2>2, AfterType
  <2>5. /\ After(x, Cut(k + 1), d) = Take(x, s, r)
        /\ After(x, Cut(k + 1), e) = Take(x, u, r)
    <3>1. /\ After(x, Append(Cut(k), r), d) = Take(x, After(x, Cut(k), d), r)
          /\ After(x, Append(Cut(k), r), e) = Take(x, After(x, Cut(k), e), r)
      BY <2>1, <2>2, AfterAppend
    <3> QED BY <2>1, <3>1
  <2>6. s.pending = u.pending /\ (s.trip <=> u.trip) /\ s.day = d
    BY <2>3 DEF Fits
  <2> HIDE DEF s, u
  <2>7. /\ Take(x, s, r).pending = Left(x, s.pending, r) /\ Take(x, u, r).pending = Left(x, u.pending, r)
        /\ Take(x, s, r).day = s.day
        /\ Take(x, s, r).trip <=> r.kind = "tripwire" \/ (s.trip /\ r.kind # "reset")
        /\ Take(x, u, r).trip <=> r.kind = "tripwire" \/ (u.trip /\ r.kind # "reset")
    BY <2>1, <2>4, TakeShape
  <2> QED BY <2>5, <2>6, <2>7 DEF Fits
<1> HIDE DEF Fits
<1>4. 0 \in G /\ \A k \in 0..(m - 1) : k \in G => k + 1 \in G
  BY <1>1, <1>2, <1>3
<1>5. \A k \in 0..m : k \in G
  <2> HIDE DEF G
  <2> QED BY <1>1, <1>4, InductionTo
<1>6. Fits(m) /\ Cut(m) = l
  BY <1>1, <1>5
<1> QED BY <1>6 DEF Fits

\* Nor do the transactions made since.
Alike(x, y, X) == \A t \in X : x[t] = y[t]

\* Nor do later transactions, nor both.
LEMMA PendingKept ==
  ASSUME NEW X, NEW x, NEW y, Alike(x, y, X), NEW l \in Seq(ArmedRecord(X)), NEW d \in Nat, NEW e \in Nat
  PROVE  After(y, l, e).pending = After(x, l, d).pending /\ (After(y, l, e).trip <=> After(x, l, d).trip)
<1>1. After(x, l, e) = After(y, l, e)
  BY AfterAlike DEF Alike
<1> QED BY <1>1, AfterDays

-----------------------------------------------------------------------------
(* What a settlement writes.                                               *)

\* There are finitely many transactions.
LEMMA KnownFinite ==
  ASSUME NEW x, NEW f, NEW z, IsChain(x, f, z), NEW P, P \subseteq 1..Len(x)
  PROVE  IsFiniteSet(P)
<1>1. IsFiniteSet(1..Len(x))
  BY TxOf, FS_Interval
<1> QED BY <1>1, FS_Subset

\* Records of a finite set, in some order.
LEMMA BackedSet ==
  ASSUME NEW x, NEW f, NEW z, NEW b, NEW R, NEW S, S \subseteq R, IsFiniteSet(S),
         \A r \in S : Backed(x, f, z, b, r)
  PROVE  SetToSeq(S) \in Seq(R) /\ BackedAll(x, f, z, b, SetToSeq(S))
<1> DEFINE l == SetToSeq(S)
<1>1. l \in Seq(S) /\ \A i \in 1..Len(l) : l[i] \in S
  BY SeqOfSet
<1> HIDE DEF l
<1>2. l \in Seq(R)
  BY <1>1
<1>3. BackedAll(x, f, z, b, l)
  BY <1>1 DEF BackedAll
<1> QED BY <1>2, <1>3 DEF l

\* A landing is in a block of the nonce's.
LEMMA LandedBy ==
  ASSUME NEW x, NEW f, NEW z, IsChain(x, f, z), NEW b \in Nat, History(x, f, z, b),
         NEW t \in 1..Len(x), f[t].is = "landed", NEW h \in Int
  PROVE  /\ f[t].block <= h <=> x[t].nonce < NonceIn(x, f, z, x[t].sender, h)
         /\ Passed(x, f, z, b, t)
<1> DEFINE N(a) == NonceIn(x, f, z, x[t].sender, a)
<1>1. f[t].block \in Nat /\ f[t].block <= b /\ N(f[t].block - 1) = x[t].nonce /\ N(f[t].block) = x[t].nonce + 1
  BY TxOf DEF History
<1>2. x[t].nonce \in Nat /\ \A a : N(a) \in Nat
  BY TxOf, NonceType
<1>3. /\ f[t].block <= h => N(f[t].block) <= N(h)
      /\ h <= f[t].block - 1 => N(h) <= N(f[t].block - 1)
      /\ N(f[t].block) <= N(b)
  <2>1. f[t].block \in Int /\ f[t].block - 1 \in Int
    BY <1>1
  <2> QED BY <1>1, <2>1, NonceMono
<1> HIDE DEF N
<1>4. f[t].block <= h => x[t].nonce < N(h)
  BY <1>1, <1>2, <1>3
<1>5. ~(f[t].block <= h) => N(h) <= x[t].nonce
  BY <1>1, <1>2, <1>3
<1>6. x[t].nonce < N(b)
  BY <1>1, <1>2, <1>3
<1>7. f[t].block <= h <=> x[t].nonce < N(h)
  BY <1>2, <1>4, <1>5
<1> QED BY <1>6, <1>7 DEF Passed, N

\* What the type invariant says of the state's parts.
LEMMA Types ==
  ASSUME TypeInv
  PROVE  /\ IsChain(tx, fate, stolen) /\ Len(tx) \in Nat
         /\ block \in Nat /\ day \in Nat /\ mishaps \in Nat
         /\ ledger \in Seq(ArmedRecord(Known)) /\ outbox.records \in Seq(ArmedRecord(Known))
         /\ mem \in States(Known) /\ mem.pending \subseteq Known /\ mem.day \in Nat
         /\ line.now \in Nat /\ line.head \in Int /\ head.now \in Nat /\ head.at \in Int
         /\ head.reads \subseteq Reading
<1>1. MaxBlock \in Nat /\ DayBlocks \in Nat \ {0} /\ MaxMishaps \in Nat
  BY ArmedAssumption
<1>2. block \in Nat /\ mishaps \in Nat
  BY <1>1 DEF TypeInv, WorldOK
<1>3. day \in Nat
  BY <1>1, <1>2 DEF day
<1>4. IsChain(tx, fate, stolen) /\ Len(tx) \in Nat
  BY TxOf DEF TypeInv, WorldOK
<1>5. mem \in States(Known) /\ mem.pending \subseteq Known /\ mem.day \in Nat
  BY DEF TypeInv, States
<1>6. line.now \in 0..day /\ line.head \in Int
  BY DEF TypeInv, Lines
<1>7. head.now \in 0..day /\ head.at \in Int /\ head.reads \subseteq Reading
  BY DEF TypeInv, Heads
<1>8. ledger \in Seq(ArmedRecord(Known)) /\ outbox.records \in Seq(ArmedRecord(Known))
  BY DEF TypeInv, Outboxes
<1> QED BY <1>2, <1>3, <1>4, <1>5, <1>6, <1>7, <1>8

\* What is left pending of a sender, by nonce.
SlotsOf(s) == {tx[t].nonce : t \in PendingOf(s)}
AtNonce(s, n) == {t \in PendingOf(s) : tx[t].nonce = n}
PastOf(r) == {n \in SlotsOf(r.sender) : n < r.nonce}
Found(r) == r.landed \in PendingOf(r.sender) /\ PastOf(r) = {r.nonce - 1}

GivenUp(s, n, now) == Abandoned(Max(AtNonce(s, n)), Held(AtNonce(s, n)), now)
Abandonments(r, now) == {GivenUp(r.sender, n, now) : n \in PastOf(r)}
Expiries(r, h) == {Expired(t) : t \in {u \in PendingOf(r.sender) : tx[u].nonce = r.nonce /\ IsPast(u, h)}}

\* The three judgements of a read.
JudgedIdle(r) ==
  [records |-> IF nonces[r.sender] # r.nonce THEN <<Tripwire>> ELSE <<>>, sender |-> r.sender, nonce |-> -1]
JudgedLost(r, now) ==
  [records |-> SetToSeq(Abandonments(r, now)) \o <<Tripwire>>, sender |-> r.sender, nonce |-> -1]
JudgedSeen(r, h, now) ==
  [records |-> (IF Found(r) THEN <<Landed(r.landed, now)>> ELSE <<>>) \o SetToSeq(Expiries(r, h)),
   sender |-> r.sender, nonce |-> r.nonce]

\* What a read is judged to be, its three cases named.
LEMMA JudgedIs ==
  \A r, h, now : Judged(r, h, now) =
    IF SlotsOf(r.sender) = {} THEN JudgedIdle(r)
    ELSE IF PastOf(r) # {} /\ ~Found(r) THEN JudgedLost(r, now)
    ELSE JudgedSeen(r, h, now)
BY DEF Judged, SlotsOf, PastOf, Found, JudgedIdle, JudgedLost, JudgedSeen, Abandonments, GivenUp, AtNonce, Expiries

\* Every record it writes is so.
LEMMA JudgedBacked ==
  ASSUME TypeInv, ChainInv, NEW r \in Reading, NEW h \in Int, h <= block, NEW now \in Nat,
         ReadAt(tx, fate, stolen, h, r)
  PROVE  /\ Judged(r, h, now).records \in Seq(ArmedRecord(Known))
         /\ BackedAll(tx, fate, stolen, block, Judged(r, h, now).records)
         /\ Judged(r, h, now).sender = r.sender /\ Judged(r, h, now).nonce \in {-1, r.nonce}
<1> DEFINE mine == PendingOf(r.sender)
           R == ArmedRecord(Known)
           B(l) == BackedAll(tx, fate, stolen, block, l)
<1>1. IsChain(tx, fate, stolen) /\ History(tx, fate, stolen, block) /\ block \in Nat
  BY Types DEF ChainInv
<1>2. mine \subseteq Known /\ \A t \in mine : tx[t].sender = r.sender
  BY Types DEF PendingOf
<1>3. r.sender \in Sender /\ r.nonce \in Nat /\ r.landed \in Nat
  BY ArmedAssumption DEF Reading, MostNonce
<1>4. \A t \in Known : /\ t \in Nat /\ t > 0 /\ tx[t].nonce \in Nat /\ tx[t].bound \in Int /\ fate[t].loss \in Nat
                       /\ fate[t].block \in Nat
  BY <1>1, TxOf DEF Known
<1>5. Tripwire \in R /\ Backed(tx, fate, stolen, block, Tripwire)
  BY RecordsAre DEF Backed, Tripwire
<1>6. <<>> \in Seq(R) /\ B(<<>>) /\ <<Tripwire>> \in Seq(R) /\ B(<<Tripwire>>)
  BY <1>5 DEF BackedAll
<1>7. CASE SlotsOf(r.sender) = {}
  <2>1. Judged(r, h, now) = JudgedIdle(r)
    BY <1>7, JudgedIs
  <2> QED BY <1>6, <2>1 DEF JudgedIdle
<1>8. CASE PastOf(r) # {} /\ ~Found(r) /\ SlotsOf(r.sender) # {}
  <2> DEFINE S == Abandonments(r, now)
  <2>1. Judged(r, h, now) = JudgedLost(r, now)
    BY <1>8, JudgedIs
  <2>2. ASSUME NEW n \in PastOf(r)
        PROVE  GivenUp(r.sender, n, now) \in R /\ Backed(tx, fate, stolen, block, GivenUp(r.sender, n, now))
    <3> DEFINE P == AtNonce(r.sender, n)
               t == Max(P)
               v == Held(P)
    <3>1. n \in SlotsOf(r.sender) /\ n < r.nonce
      BY DEF PastOf
    <3>2. P \subseteq Known /\ P # {}
      BY <1>2, <3>1 DEF SlotsOf, AtNonce
    <3>3. t \in P
      <4>1. Len(tx) \in Nat
        BY <1>1, TxOf
      <4> HIDE DEF P
      <4> QED BY <3>2, <4>1, MaxOfPlaces DEF Known
    <3>4. t \in Known /\ tx[t].nonce = n /\ tx[t].sender = r.sender
      BY <1>2, <3>2, <3>3 DEF AtNonce
    <3>5. v \in Nat
      <4> HIDE DEF P
      <4> QED BY <1>1, <3>2, WorstType, HeldIs DEF Known
    <3>6. Passed(tx, fate, stolen, block, t)
      <4>1. NonceIn(tx, fate, stolen, r.sender, h - 1) <= NonceIn(tx, fate, stolen, r.sender, block)
        BY <1>1, NonceMono
      <4>2. NonceIn(tx, fate, stolen, r.sender, h - 1) \in Nat /\ NonceIn(tx, fate, stolen, r.sender, block) \in Nat
        BY <1>1, NonceType
      <4>3. r.nonce = NonceIn(tx, fate, stolen, r.sender, h - 1)
        BY DEF ReadAt
      <4>4. tx[t].nonce < NonceIn(tx, fate, stolen, r.sender, block)
        BY <1>3, <1>4, <3>1, <3>4, <4>1, <4>2, <4>3
      <4> QED BY <3>4, <4>4 DEF Passed
    <3> HIDE DEF P, t, v
    <3>7. Abandoned(t, v, now) \in R
      BY <3>4, <3>5, RecordsAre
    <3>8. Backed(tx, fate, stolen, block, Abandoned(t, v, now))
      BY <3>6 DEF Backed, Abandoned
    <3> QED BY <3>7, <3>8 DEF GivenUp, P, t, v
  <2>3. IsFiniteSet(S)
    <3>1. IsFiniteSet(mine)
      BY <1>1, <1>2, KnownFinite DEF Known
    <3>2. IsFiniteSet(SlotsOf(r.sender))
      <4> DEFINE g == [t \in mine |-> tx[t].nonce]
      <4>1. SlotsOf(r.sender) = {g[t] : t \in mine}
        BY DEF SlotsOf
      <4>2. DOMAIN g = mine /\ g = [t \in mine |-> g[t]]
        OBVIOUS
      <4> HIDE DEF g, mine
      <4> QED BY <3>1, <4>1, <4>2, FiniteImage
    <3>3. IsFiniteSet(PastOf(r))
      <4>1. PastOf(r) \in SUBSET SlotsOf(r.sender)
        BY DEF PastOf
      <4> QED BY <3>2, <4>1, FS_Subset
    <3> DEFINE g == [n \in PastOf(r) |-> GivenUp(r.sender, n, now)]
    <3>4. S = {g[n] : n \in PastOf(r)}
      BY DEF Abandonments
    <3>5. DOMAIN g = PastOf(r) /\ g = [n \in PastOf(r) |-> g[n]]
      OBVIOUS
    <3> HIDE DEF g, S
    <3> QED BY <3>3, <3>4, <3>5, FiniteImage
  <2>4. S \subseteq R /\ \A e \in S : Backed(tx, fate, stolen, block, e)
    BY <2>2 DEF Abandonments
  <2>5. SetToSeq(S) \in Seq(R) /\ B(SetToSeq(S))
    <3> HIDE DEF S, R
    <3> QED BY <2>3, <2>4, BackedSet
  <2>6. SetToSeq(S) \o <<Tripwire>> \in Seq(R) /\ B(SetToSeq(S) \o <<Tripwire>>)
    <3> HIDE DEF S, R
    <3> QED BY <1>6, <2>5, BackedConcat
  <2> QED BY <2>1, <2>6 DEF JudgedLost
<1>9. CASE ~(PastOf(r) # {} /\ ~Found(r)) /\ SlotsOf(r.sender) # {}
  <2> DEFINE U == {u \in mine : tx[u].nonce = r.nonce /\ IsPast(u, h)}
             S == Expiries(r, h)
             k == IF Found(r) THEN <<Landed(r.landed, now)>> ELSE <<>>
  <2>1. Judged(r, h, now) = JudgedSeen(r, h, now)
    BY <1>9, JudgedIs
  <2>2. ASSUME NEW u \in U PROVE Expired(u) \in R /\ Backed(tx, fate, stolen, block, Expired(u))
    <3>1. u \in Known /\ tx[u].sender = r.sender /\ tx[u].nonce = r.nonce /\ tx[u].bound < h
      BY <1>2 DEF IsPast
    <3>2. tx[u].nonce = NonceIn(tx, fate, stolen, tx[u].sender, h - 1)
      BY <3>1 DEF ReadAt
    <3>3. fate[u].is # "landed"
      <4>1. SUFFICES ASSUME fate[u].is = "landed" PROVE FALSE
        OBVIOUS
      <4>2. fate[u].block <= tx[u].bound
        BY <1>1, <3>1, <4>1 DEF History, Known
      <4>3. fate[u].block <= h - 1
        BY <1>4, <3>1, <4>2
      <4>4. tx[u].nonce < NonceIn(tx, fate, stolen, tx[u].sender, h - 1)
        BY <1>1, <3>1, <4>1, <4>3, LandedBy DEF Known
      <4> QED BY <1>4, <3>1, <3>2, <4>4
    <3>4. tx[u].bound <= block
      BY <1>1, <1>4, <3>1
    <3>5. Expired(u) \in R
      BY <3>1, RecordsAre
    <3> QED BY <3>3, <3>4, <3>5 DEF Backed, Expired, Lapsed
  <2>3. IsFiniteSet(S)
    <3>1. U \subseteq Known
      BY <1>2
    <3>2. IsFiniteSet(U)
      <4> HIDE DEF U
      <4> QED BY <1>1, <3>1, KnownFinite DEF Known
    <3> DEFINE g == [u \in U |-> Expired(u)]
    <3>3. S = {g[u] : u \in U}
      BY DEF Expiries
    <3>4. DOMAIN g = U /\ g = [u \in U |-> g[u]]
      OBVIOUS
    <3> HIDE DEF g, S, U
    <3> QED BY <3>2, <3>3, <3>4, FiniteImage
  <2>4. S \subseteq R /\ \A e \in S : Backed(tx, fate, stolen, block, e)
    BY <2>2 DEF Expiries
  <2>5. SetToSeq(S) \in Seq(R) /\ B(SetToSeq(S))
    <3> HIDE DEF S, R
    <3> QED BY <2>3, <2>4, BackedSet
  <2>6. k \in Seq(R) /\ B(k)
    <3>1. CASE Found(r)
      <4> DEFINE t == r.landed
      <4>1. t \in mine /\ t \in Known /\ t # 0
        BY <1>2, <1>4, <3>1 DEF Found
      <4>2. fate[t].is = "landed"
        BY <4>1 DEF ReadAt
      <4>3. fate[t].loss = tx[t].worst
        BY <1>1, <4>1, <4>2 DEF History, Known
      <4>4. Landed(t, now) \in R
        BY <1>4, <4>1, RecordsAre
      <4>5. Backed(tx, fate, stolen, block, Landed(t, now))
        BY <4>2, <4>3 DEF Backed, Landed
      <4>6. k = <<Landed(t, now)>>
        BY <3>1
      <4> HIDE DEF k, t, R
      <4> QED BY <4>4, <4>5, <4>6 DEF BackedAll
    <3>2. CASE ~Found(r)
      BY <1>6, <3>2
    <3> QED BY <3>1, <3>2
  <2>7. k \o SetToSeq(S) \in Seq(R) /\ B(k \o SetToSeq(S))
    <3> HIDE DEF S, R, k
    <3> QED BY <2>5, <2>6, BackedConcat
  <2> QED BY <2>1, <2>7 DEF JudgedSeen
<1> QED BY <1>7, <1>8, <1>9

-----------------------------------------------------------------------------
(* The compacted ledger.                                                   *)

\* The compaction, for a given ledger.
LEMMA CompactedIsOf == Compacted = CompactedOf(ledger, Kept(ledger))
BY DEF Compacted, FoldLeft, MapThenFoldSet, CompactedOf, Compacting, Places

-----------------------------------------------------------------------------
(* What a step of the chain, or none, does to the rest of the state.       *)

Grows == Grew(tx, fate, stolen, block, tx', fate', stolen', block')

\* A step that leaves the chain alone.
LEMMA Stays ==
  ASSUME TypeInv, ChainInv, UNCHANGED chainVars
  PROVE  Grows /\ ChainInv' /\ Known' = Known /\ day' = day /\ tx' = tx /\ fate' = fate /\ stolen' = stolen /\ block' = block
<1>1. tx' = tx /\ fate' = fate /\ stolen' = stolen /\ block' = block
  BY DEF chainVars
<1>2. Grew(tx, fate, stolen, block, tx, fate, stolen, block)
  BY Types, GrewNot
<1>3. Grows
  BY <1>1, <1>2 DEF Grows
<1>4. ChainInv'
  BY <1>1 DEF ChainInv
<1> QED BY <1>1, <1>3, <1>4 DEF Known, day

\* What is well typed stays so as the chain grows.
LEMMA TypesGrow ==
  ASSUME TypeInv, Grows
  PROVE  /\ Known \subseteq Known' /\ day <= day' /\ day' \in Nat /\ block' \in Nat /\ block <= block'
         /\ Len(tx') \in Nat /\ Len(tx) <= Len(tx') /\ IsChain(tx', fate', stolen')
         /\ \A t \in Known : tx'[t] = tx[t]
         /\ ArmedRecord(Known) \subseteq ArmedRecord(Known')
         /\ ledger \in Seq(ArmedRecord(Known')) /\ outbox.records \in Seq(ArmedRecord(Known'))
         /\ mem \in States(Known')
         /\ mem.day <= day'
         /\ line \in Lines(day') /\ head \in Heads(day') /\ outbox \in Outboxes(Known')
<1>1. IsChain(tx', fate', stolen') /\ block' \in Nat /\ block <= block' /\ Len(tx) <= Len(tx')
  BY DEF Grows, Grew
<1>2. Len(tx) \in Nat /\ Len(tx') \in Nat
  BY <1>1, Types, TxOf
<1>3. Known \subseteq Known'
  BY <1>1, <1>2 DEF Known
<1>4. day <= day' /\ day' \in Nat /\ day \in Nat
  <2>1. DayBlocks \in Nat \ {0} /\ block \in Nat
    BY ArmedAssumption, Types
  <2>2. block \div DayBlocks <= block' \div DayBlocks /\ block' \div DayBlocks \in Nat /\ block \div DayBlocks \in Nat
    BY <1>1, <2>1, DivMono
  <2> QED BY <2>2 DEF day
<1>5. ArmedRecord(Known) \subseteq ArmedRecord(Known') /\ States(Known) \subseteq States(Known')
  BY <1>3, RecordsGrow
<1>6. Seq(ArmedRecord(Known)) \subseteq Seq(ArmedRecord(Known'))
  BY <1>5
<1>7. ledger \in Seq(ArmedRecord(Known')) /\ mem \in States(Known') /\ mem.day <= day'
  <2>1. mem.day \in Nat /\ mem.day <= day
    BY Types DEF TypeInv
  <2> QED BY <1>4, <1>5, <1>6, <2>1 DEF TypeInv
<1>8. 0..day \subseteq 0..day'
  BY <1>4
<1>9. line \in Lines(day')
  BY <1>8 DEF TypeInv, Lines
<1>10. head \in Heads(day')
  BY <1>8 DEF TypeInv, Heads
<1>11. outbox \in Outboxes(Known') /\ outbox.records \in Seq(ArmedRecord(Known'))
  BY <1>6 DEF TypeInv, Outboxes
<1>12. \A t \in Known : tx'[t] = tx[t]
  BY DEF Grows, Grew, Known
<1> QED BY <1>1, <1>2, <1>3, <1>4, <1>5, <1>7, <1>9, <1>10, <1>11, <1>12

\* The reads in hand stay true of their block.
LEMMA HeadKept ==
  ASSUME TypeInv, HeadInv, Grows, head'.pc = "read" => /\ head.pc = "read" /\ head'.at = head.at /\ head'.now = head.now
                                                       /\ head'.reads \subseteq head.reads
  PROVE  HeadInv'
<1>1. IsChain(tx, fate, stolen) /\ block \in Nat /\ head.at \in Int /\ block' \in Nat /\ block <= block'
  BY Types, TypesGrow
<1>2. SUFFICES ASSUME head'.pc = "read"
               PROVE  /\ head'.at <= block' /\ head'.at \div DayBlocks <= head'.now
                      /\ \A r \in head'.reads : ReadAt(tx', fate', stolen', head'.at, r)
  BY DEF HeadInv
<1>3. head.at <= block /\ head.at \div DayBlocks <= head.now /\ \A r \in head.reads : ReadAt(tx, fate, stolen, head.at, r)
  BY <1>2 DEF HeadInv
<1>4. head.at <= block'
  BY <1>1, <1>3
<1>5. \A r \in head.reads : ReadAt(tx', fate', stolen', head.at, r)
  BY <1>1, <1>3, ReadStays DEF Grows
<1> QED BY <1>2, <1>3, <1>4, <1>5

\* The records there were are still so.
LEMMA RecordsKept ==
  ASSUME TypeInv, RecordsInv, Grows
  PROVE  /\ BackedAll(tx', fate', stolen', block', ledger)
         /\ BackedAll(tx', fate', stolen', block', outbox.records)
<1>1. /\ IsChain(tx, fate, stolen) /\ block \in Nat
      /\ ledger \in Seq(ArmedRecord(1..Len(tx))) /\ outbox.records \in Seq(ArmedRecord(1..Len(tx)))
  BY Types DEF Known
<1> QED BY <1>1, BackedAllStays DEF RecordsInv, Grows

\* No record, and nothing taken from what is pending.
LEMMA QuietStep ==
  ASSUME TypeInv, PendingInv, Grows, Len(tx') = Len(tx), ledger' = ledger, mem'.pending = mem.pending,
         up' = up
  PROVE  PendingInv'
<1>1. IsChain(tx, fate, stolen) /\ block \in Nat
  BY Types
<1>2. NoneMissing(tx, fate, stolen, block, mem.pending)
        => NoneMissing(tx', fate', stolen', block', mem'.pending)
  <2> SUFFICES ASSUME NoneMissing(tx, fate, stolen, block, mem.pending)
               PROVE  NoneMissing(tx', fate', stolen', block', mem'.pending)
    OBVIOUS
  <2>1. \A t \in 1..Len(tx') : t \in mem.pending \/ t > Len(tx) => t \in mem'.pending
    BY Types
  <2> QED BY <1>1, <2>1, NoneMissingStays DEF Grows
<1>3. Disk'.pending = Disk.pending
  <2>1. ledger \in Seq(ArmedRecord(Known)) /\ day \in Nat /\ day' \in Nat
    BY Types, TypesGrow
  <2>2. \A t \in Known : tx[t] = tx'[t]
    BY TypesGrow
  <2>3. After(tx', ledger, day').pending = After(tx, ledger, day).pending
    <3> DEFINE X == Known
               x == tx
               y == tx'
               l == ledger
               d == day
               e == day'
    <3>1. Alike(x, y, X) /\ l \in Seq(ArmedRecord(X)) /\ d \in Nat /\ e \in Nat
      BY <2>1, <2>2 DEF Alike
    <3> HIDE DEF X, x, y, l, d, e
    <3>2. After(y, l, e).pending = After(x, l, d).pending
      BY <3>1, PendingKept
    <3> QED BY <3>2 DEF x, y, l, d, e
  <2>4. Disk = After(tx, ledger, day) /\ Disk' = After(tx', ledger, day')
    BY DiskIs DEF Disk
  <2> QED BY <2>3, <2>4
<1>4. NoneLost(tx', fate', block', ledger', Disk'.pending)
  <2>1. ledger \in Seq(ArmedRecord(1..Len(tx))) /\ Len(tx) \in Nat
    BY Types DEF Known
  <2>2. \A t \in 1..Len(tx) : tx'[t] = tx[t]
    BY TypesGrow DEF Known
  <2>3. \A t \in 1..Len(tx) : SettledBy(tx, ledger, t) => SettledBy(tx', ledger, t)
    <3>1. \A i \in 1..Len(ledger) : \E j \in 1..Len(ledger) : ledger[j] = ledger[i]
      OBVIOUS
    <3> QED BY <2>1, <2>2, <3>1, SettledStays
  <2>4. \A t \in 1..Len(tx') : t \in Disk.pending \/ t > Len(tx) => t \in Disk'.pending
    BY <1>3, <2>1
  <2>5. NoneLost(tx, fate, block, ledger, Disk.pending)
    BY DEF PendingInv
  <2> DEFINE P == Disk.pending
             Q == Disk'.pending
  <2> HIDE DEF P, Q
  <2>6. NoneLost(tx', fate', block', ledger, Q)
    <3>1. NoneLost(tx, fate, block, ledger, P) /\ \A t \in 1..Len(tx') : t \in P \/ t > Len(tx) => t \in Q
      BY <2>4, <2>5 DEF P, Q
    <3> QED BY <1>1, <2>3, <3>1, NoneLostStays DEF Grows
  <2> QED BY <2>6 DEF Q
<1> QED BY <1>2, <1>4 DEF PendingInv

-----------------------------------------------------------------------------
(* What a record does.                                                     *)

\* What it takes from what is pending will not land, or its nonce is used.
Ended(y, g, w, c, r, t) ==
  \/ g[t].is = "dead" \/ Lapsed(y, g, c, t)
  \/ /\ Passed(y, g, w, c, t)
     /\ r.kind \in LossKind /\ y[r.tx].sender = y[t].sender /\ y[r.tx].nonce = y[t].nonce

\* A true record takes only such.
LEMMA TakesOnlySettled ==
  ASSUME NEW y, NEW g, NEW w, IsChain(y, g, w), NEW c \in Nat, History(y, g, w, c),
         NEW r \in ArmedRecord(1..Len(y)), Backed(y, g, w, c, r), NEW P, P \subseteq 1..Len(y),
         NEW t \in P, t \notin Left(y, P, r)
  PROVE  Ended(y, g, w, c, r, t)
<1>1. r.kind \in PlainKind \cup LossKind \cup {"loss_cap", "tripwire", "reset"}
  BY RecordKinds
<1>2. r.kind # "submitting" /\ r.kind \notin {"loss_cap", "tripwire", "reset"}
  BY DEF Left, LossKind
<1>3. CASE r.kind = "refused"
  BY <1>3 DEF Left, Backed, Ended
<1>4. CASE r.kind = "expired"
  BY <1>4 DEF Left, Backed, Ended
<1>5. CASE r.kind \in LossKind
  <2>1. r.tx \in 1..Len(y)
    BY <1>5, RecordKinds
  <2>2. y[r.tx].sender = y[t].sender /\ y[r.tx].nonce = y[t].nonce
    BY <1>5 DEF Left, LossKind, Beside
  <2>3. Passed(y, g, w, c, r.tx)
    <3>1. CASE r.kind = "landed"
      <4>1. g[r.tx].is = "landed"
        BY <3>1 DEF Backed
      <4> QED BY <2>1, <4>1, LandedBy
    <3>2. CASE r.kind = "abandoned"
      BY <3>2 DEF Backed
    <3> QED BY <1>5, <3>1, <3>2 DEF LossKind
  <2> QED BY <1>5, <2>2, <2>3 DEF Passed, Ended
<1> QED BY <1>1, <1>2, <1>3, <1>4, <1>5 DEF PlainKind

\* So nothing that may land is missing from the memory of the worker.
LEMMA LeftMissing ==
  ASSUME NEW x, NEW f, NEW z, IsChain(x, f, z), NEW b \in Nat, NEW y, NEW g, NEW w, NEW c,
         Grew(x, f, z, b, y, g, w, c), History(y, g, w, c), Len(y) = Len(x),
         NEW r \in ArmedRecord(1..Len(y)), Backed(y, g, w, c, r),
         NEW P, P \subseteq 1..Len(y), NoneMissing(x, f, z, b, P)
  PROVE  NoneMissing(y, g, w, c, Left(y, P, r))
<1>1. IsChain(y, g, w) /\ c \in Nat /\ Len(y) \in Nat
  BY TxOf DEF Grew
<1> DEFINE Q == Left(y, P, r)
<1>2. \A t \in P : g[t].is = "dead" \/ t \in Q \/ Passed(y, g, w, c, t) \/ Lapsed(y, g, c, t)
  <2>1. \A t \in P : t \notin Left(y, P, r) => Ended(y, g, w, c, r, t)
    BY <1>1, TakesOnlySettled
  <2> QED BY <2>1 DEF Ended
<1> HIDE DEF Q
<1>3. \A t \in 1..Len(y) : t \in P \/ t > Len(x) =>
        g[t].is = "dead" \/ t \in Q \/ Passed(y, g, w, c, t) \/ Lapsed(y, g, c, t)
  BY <1>1, <1>2
<1>4. NoneMissing(y, g, w, c, Q)
  BY <1>3, NoneMissingStays
<1> QED BY <1>4 DEF Q

\* Nor from the ledger, with the record at its end.
LEMMA LeftLost ==
  ASSUME NEW x, NEW f, NEW z, IsChain(x, f, z), NEW b \in Nat, NEW y, NEW g, NEW w, NEW c,
         Grew(x, f, z, b, y, g, w, c), History(y, g, w, c), Len(y) = Len(x),
         NEW l \in Seq(ArmedRecord(1..Len(x))), NEW r \in ArmedRecord(1..Len(y)), Backed(y, g, w, c, r),
         NEW P, P \subseteq 1..Len(y), NoneLost(x, f, b, l, P)
  PROVE  NoneLost(y, g, c, Append(l, r), Left(y, P, r))
<1>1. IsChain(y, g, w) /\ c \in Nat /\ Len(y) \in Nat /\ \A t \in 1..Len(x) : y[t] = x[t]
  BY TxOf DEF Grew
<1> DEFINE Q == Left(y, P, r)
           k == Append(l, r)
           n == Len(l) + 1
<1>2. Len(k) = n /\ n \in 1..n /\ k[n] = r /\ \A i \in 1..Len(l) : i \in 1..n /\ k[i] = l[i]
  OBVIOUS
<1>3. \A t \in 1..Len(x) : SettledBy(x, l, t) => SettledBy(y, k, t)
  <2>1. \A i \in 1..Len(l) : \E j \in 1..Len(k) : k[j] = l[i]
    BY <1>2
  <2> HIDE DEF k
  <2> QED BY <1>1, <2>1, SettledStays
<1>4. \A t \in P : g[t].is = "dead" \/ t \in Q \/ SettledBy(y, k, t) \/ Lapsed(y, g, c, t)
  <2>1. ASSUME NEW t \in P, t \notin Q
        PROVE  \/ g[t].is = "dead" \/ Lapsed(y, g, c, t)
               \/ r.kind \in LossKind /\ y[r.tx].sender = y[t].sender /\ y[r.tx].nonce = y[t].nonce
    <3>1. Ended(y, g, w, c, r, t)
      BY <1>1, <2>1, TakesOnlySettled
    <3> QED BY <3>1 DEF Ended
  <2>2. \A t \in P : r.kind \in LossKind /\ y[r.tx].sender = y[t].sender /\ y[r.tx].nonce = y[t].nonce
                       => SettledBy(y, k, t)
    <3> HIDE DEF k, n
    <3> QED BY <1>2 DEF SettledBy
  <2> HIDE DEF k, n, Q
  <2> QED BY <2>1, <2>2
<1> HIDE DEF Q, k
<1>5. \A t \in 1..Len(y) : t \in P \/ t > Len(x) =>
        g[t].is = "dead" \/ t \in Q \/ SettledBy(y, k, t) \/ Lapsed(y, g, c, t)
  BY <1>1, <1>4
<1>6. NoneLost(y, g, c, k, Q)
  BY <1>3, <1>5, NoneLostStays
<1> QED BY <1>6 DEF Q, k

\* The worker's state after a record.
LEMMA MemTakes ==
  ASSUME TypeInv, NEW X, Known \subseteq X, NEW r \in ArmedRecord(X), NEW now \in 0..day
  PROVE  LET m == Apply(Roll(mem, now), r) IN
         /\ m \in States(X) /\ m.day <= day /\ m.pending = Left(tx, mem.pending, r)
<1>1. mem \in States(Known) /\ mem.day \in Nat /\ mem.day <= day /\ day \in Nat /\ now \in Nat /\ now <= day
  BY Types DEF TypeInv
<1>2. States(Known) \subseteq States(X)
  BY RecordsGrow
<1>3. mem \in States(X)
  BY <1>1, <1>2
<1> DEFINE s == Roll(mem, now)
<1>4. s \in States(X) /\ s.pending = mem.pending /\ s.day = (IF now > mem.day THEN now ELSE mem.day)
  BY <1>1, <1>3, RollShape
<1> HIDE DEF s
<1>5. s.day <= day
  BY <1>1, <1>4
<1>6. /\ Take(tx, s, r) \in States(X) /\ Take(tx, s, r).day = s.day
      /\ Take(tx, s, r).pending = Left(tx, s.pending, r)
  BY <1>4, TakeShape
<1>7. Apply(s, r) = Take(tx, s, r)
  BY ApplyIs
<1> QED BY <1>4, <1>5, <1>6, <1>7 DEF s

\* A record written, or not.
LEMMA Recorded ==
  ASSUME TypeInv, RecordsInv, PendingInv, Grows, ChainInv', tx' = tx, up' = up, day' = day,
         NEW r \in ArmedRecord(Known), Backed(tx', fate', stolen', block', r), NEW now \in 0..day, Record(r, now)
  PROVE  /\ mem' \in States(Known') /\ mem'.day <= day'
         /\ ledger' \in Seq(ArmedRecord(Known')) /\ BackedAll(tx', fate', stolen', block', ledger')
         /\ mishaps' \in 0..MaxMishaps /\ mishaps <= mishaps' /\ excused' \in BOOLEAN
         /\ PendingInv'
<1>1. /\ IsChain(tx, fate, stolen) /\ block \in Nat /\ day \in Nat /\ mishaps \in Nat /\ Len(tx) \in Nat
      /\ ledger \in Seq(ArmedRecord(Known)) /\ mem.pending \subseteq Known
  BY Types
<1>2. Known' = Known /\ Known = 1..Len(tx) /\ Known = 1..Len(tx')
  BY DEF Known
<1>3. mem' = Apply(Roll(mem, now), r)
  BY DEF Record
<1>4. mem' \in States(Known) /\ mem'.day <= day /\ mem'.pending = Left(tx, mem.pending, r)
  BY <1>3, MemTakes
<1>5. \/ ledger' = Append(ledger, r) /\ UNCHANGED <<mishaps, excused>>
      \/ mishaps < MaxMishaps /\ mishaps' = mishaps + 1 /\ excused' = TRUE /\ UNCHANGED ledger
  BY DEF Record
<1>6. mishaps' \in 0..MaxMishaps /\ mishaps <= mishaps' /\ excused' \in BOOLEAN
  <2>1. mishaps \in 0..MaxMishaps /\ excused \in BOOLEAN /\ MaxMishaps \in Nat
    BY ArmedAssumption DEF TypeInv, WorldOK
  <2>2. mishaps' = mishaps \/ (mishaps < MaxMishaps /\ mishaps' = mishaps + 1)
    BY <1>5
  <2>3. excused' \in BOOLEAN
    BY <1>5, <2>1
  <2> QED BY <2>1, <2>2, <2>3
<1>7. BackedAll(tx', fate', stolen', block', ledger)
  BY RecordsKept
<1>8. ledger' \in Seq(ArmedRecord(Known)) /\ BackedAll(tx', fate', stolen', block', ledger')
  <2>1. /\ Append(ledger, r) \in Seq(ArmedRecord(Known))
        /\ BackedAll(tx', fate', stolen', block', Append(ledger, r))
    BY <1>1, <1>7, BackedAppend
  <2> QED BY <1>1, <1>5, <1>7, <2>1
<1>h. History(tx', fate', stolen', block')
  BY DEF ChainInv
<1>9. up' => NoneMissing(tx', fate', stolen', block', mem'.pending)
  <2> SUFFICES ASSUME up' PROVE NoneMissing(tx', fate', stolen', block', mem'.pending)
    OBVIOUS
  <2>1. NoneMissing(tx, fate, stolen, block, mem.pending)
    BY DEF PendingInv
  <2>2. mem'.pending = Left(tx', mem.pending, r)
    BY <1>4
  <2>3. mem.pending \subseteq 1..Len(tx') /\ r \in ArmedRecord(1..Len(tx'))
    BY <1>1, <1>2
  <2>4. NoneMissing(tx', fate', stolen', block', Left(tx', mem.pending, r))
    BY <1>1, <1>h, <2>1, <2>3, LeftMissing DEF Grows
  <2> QED BY <2>2, <2>4
<1>10. NoneLost(tx', fate', block', ledger', Disk'.pending)
  <2>1. CASE ledger' = ledger
    <3>1. Disk'.pending = Disk.pending
      BY <2>1, DiskIs DEF Disk
    <3>2. NoneLost(tx, fate, block, ledger, Disk.pending)
      BY DEF PendingInv
    <3>3. NoneLost(tx', fate', block', ledger, Disk.pending)
      <4> DEFINE P == Disk.pending
      <4>1. \A t \in 1..Len(tx) : SettledBy(tx, ledger, t) => SettledBy(tx', ledger, t)
        OBVIOUS
      <4>2. \A t \in 1..Len(tx') : t \in P \/ t > Len(tx) => t \in P
        BY <1>1
      <4> HIDE DEF P
      <4>3. NoneLost(tx', fate', block', ledger, P)
        BY <1>1, <3>2, <4>1, <4>2, NoneLostStays DEF Grows, P
      <4> QED BY <4>3 DEF P
    <3> QED BY <2>1, <3>1, <3>3
  <2>2. CASE ledger' = Append(ledger, r)
    <3>1. Disk = After(tx, ledger, day) /\ Disk' = After(tx', ledger', day')
      BY DiskIs DEF Disk
    <3>2. Disk' = Take(tx, Disk, r)
      <4>1. After(tx, Append(ledger, r), day) = Take(tx, After(tx, ledger, day), r)
        BY <1>1, AfterAppend
      <4> QED BY <2>2, <3>1, <4>1
    <3>3. Disk \in States(Known)
      BY <1>1, <3>1, AfterType
    <3>4. Disk'.pending = Left(tx', Disk.pending, r)
      <4>1. Take(tx, Disk, r).pending = Left(tx, Disk.pending, r)
        BY <3>3, TakeShape
      <4> QED BY <3>2, <4>1
    <3>5. Disk.pending \subseteq 1..Len(tx') /\ r \in ArmedRecord(1..Len(tx')) /\ ledger \in Seq(ArmedRecord(1..Len(tx)))
      BY <1>1, <1>2, <3>3 DEF States
    <3>6. NoneLost(tx, fate, block, ledger, Disk.pending)
      BY DEF PendingInv
    <3> DEFINE P == Disk.pending
    <3>7. NoneLost(tx', fate', block', Append(ledger, r), Left(tx', P, r))
      <4>1. P \subseteq 1..Len(tx') /\ NoneLost(tx, fate, block, ledger, P)
        BY <3>5, <3>6
      <4> HIDE DEF P
      <4> QED BY <1>1, <1>h, <3>5, <4>1, LeftLost DEF Grows
    <3> QED BY <2>2, <3>4, <3>7
  <2> QED BY <1>5, <2>1, <2>2
<1> QED BY <1>2, <1>4, <1>6, <1>8, <1>9, <1>10 DEF PendingInv

-----------------------------------------------------------------------------
(* The steps of the chain and of the line.                                 *)

\* A step that leaves the worker as it is.
LEMMA ChainStepKeeps ==
  ASSUME ArmedInv, ChainStep
  PROVE  ArmedInv'
<1>1. /\ IsChain(tx, fate, stolen) /\ History(tx, fate, stolen, block) /\ block \in Nat /\ Len(tx) \in Nat
      /\ TypeInv /\ TurnInv
  BY Types DEF ArmedInv, ChainInv
<1>2. /\ block < MaxBlock /\ block' = block + 1 /\ tx' = tx
      /\ ledger' = ledger /\ mem' = mem /\ nonces' = nonces /\ ready' = ready /\ turn' = turn
      /\ line' = line /\ head' = head /\ outbox' = outbox /\ up' = up
  BY DEF ChainStep, NewBlock, workerVars
<1>3. WorldOK /\ MaxBlock \in Nat /\ MaxMishaps \in Nat
  BY <1>1, ArmedAssumption DEF TypeInv
<1>4. Known' = Known
  BY <1>2 DEF Known
<1> DEFINE OK == /\ Grows /\ ChainInv' /\ WorldOK' /\ excused' \in BOOLEAN
                 /\ \A t \in Known : fate[t].is = "none" => fate'[t].is = "none"
<1>5. OK
  <2>0. /\ mishaps \in 0..MaxMishaps /\ Cardinality(stolen) <= mishaps /\ block \in 1..MaxBlock
        /\ excused \in BOOLEAN
    BY <1>1, <1>3 DEF WorldOK, TypeInv
  <2>b. block + 1 \in 1..MaxBlock
    BY <1>2, <1>3, <2>0
  <2>1. CASE UNCHANGED <<fate, stolen, mishaps, excused>>
    <3>1. Grew(tx, fate, stolen, block, tx, fate, stolen, block + 1) /\ History(tx, fate, stolen, block + 1)
      BY <1>1, GrewEmpty
    <3>2. Grows /\ ChainInv'
      BY <1>2, <2>1, <3>1 DEF Grows, ChainInv
    <3>3. WorldOK'
      BY <1>1, <1>2, <2>0, <2>1, <2>b DEF WorldOK
    <3> QED BY <2>0, <2>1, <3>2, <3>3
  <2>2. ASSUME NEW t \in 1..Len(tx), fate[t].is = "held",
               tx[t].nonce = Nonce(tx[t].sender), block' <= tx[t].bound,
               fate' = [fate EXCEPT ![t] = [is |-> "landed", block |-> block', day |-> block' \div DayBlocks,
                                            loss |-> tx[t].worst]],
               UNCHANGED <<stolen, mishaps, excused>>
        PROVE  OK
    <3>1. tx[t].nonce = NonceIn(tx, fate, stolen, tx[t].sender, block) /\ block + 1 <= tx[t].bound
      BY <1>2, <2>2, NonceIs DEF Nonce
    <3> DEFINE g == [fate EXCEPT ![t] = [is |-> "landed", block |-> block + 1, day |-> (block + 1) \div DayBlocks,
                                         loss |-> tx[t].worst]]
    <3>2. Grew(tx, fate, stolen, block, tx, g, stolen, block + 1) /\ History(tx, g, stolen, block + 1)
      BY <1>1, <2>2, <3>1, GrewLands
    <3>3. fate' = g
      BY <1>2, <2>2
    <3>4. \A u \in Known : fate[u].is = "none" => g[u] = fate[u]
      BY <1>1, <2>2, TxOf DEF Known, IsChain
    <3> HIDE DEF g
    <3>5. Grows /\ ChainInv'
      BY <1>2, <2>2, <3>2, <3>3 DEF Grows, ChainInv
    <3>6. IsChain(tx', fate', stolen')
      BY <3>5 DEF Grows, Grew
    <3>7. WorldOK'
      BY <1>2, <2>0, <2>2, <2>b, <3>6 DEF WorldOK
    <3> QED BY <2>0, <2>2, <3>3, <3>4, <3>5, <3>7
  <2>3. ASSUME NEW s \in Sender, mishaps < MaxMishaps, mishaps' = mishaps + 1, excused' = TRUE,
               stolen' = stolen \cup {[sender |-> s, block |-> block']}, UNCHANGED fate
        PROVE  OK
    <3> DEFINE w == stolen \cup {[sender |-> s, block |-> block + 1]}
    <3>1. /\ Grew(tx, fate, stolen, block, tx, fate, w, block + 1) /\ History(tx, fate, w, block + 1)
          /\ Cardinality(w) = Cardinality(stolen) + 1
      BY <1>1, GrewStolen
    <3>2. stolen' = w
      BY <1>2, <2>3
    <3> HIDE DEF w
    <3>3. Grows /\ ChainInv'
      BY <1>2, <2>3, <3>1, <3>2 DEF Grows, ChainInv
    <3>4. IsChain(tx', fate', stolen')
      BY <3>3 DEF Grows, Grew
    <3>5. mishaps' \in 0..MaxMishaps /\ Cardinality(stolen') <= mishaps'
      <4>1. Cardinality(stolen) \in Nat
        BY <1>1, FS_CardinalityType DEF IsChain
      <4> QED BY <1>3, <2>0, <2>3, <3>1, <3>2, <4>1
    <3>6. WorldOK'
      BY <1>2, <2>b, <3>4, <3>5 DEF WorldOK
    <3> QED BY <2>3, <3>3, <3>6
  <2> HIDE DEF OK
  <2> QED BY <2>1, <2>2, <2>3 DEF ChainStep, NewBlock
<1>6. TypeInv'
  BY <1>1, <1>2, <1>5, TypesGrow DEF TypeInv
<1>7. TurnInv'
  <2>1. line.head \in Int
    BY <1>1, Types
  <2>2. line.pc # "none" => line.tx \in Known /\ line.head <= block'
    BY <1>1, <1>2, <2>1 DEF TurnInv
  <2>3. line.pc = "recorded" => fate'[line.tx].is = "none"
    BY <1>1, <1>5, <2>2 DEF TurnInv
  <2> QED BY <1>1, <1>2, <1>4, <2>2, <2>3 DEF TurnInv
<1>8. RecordsInv'
  BY <1>1, <1>2, <1>5, RecordsKept DEF RecordsInv, ArmedInv
<1>9. HeadInv'
  BY <1>1, <1>2, <1>5, HeadKept DEF ArmedInv
<1>10. PendingInv'
  BY <1>1, <1>2, <1>5, QuietStep DEF ArmedInv
<1> QED BY <1>5, <1>6, <1>7, <1>8, <1>9, <1>10 DEF ArmedInv

\* A transaction written ahead.
LEMMA WriteAheadKeeps ==
  ASSUME ArmedInv, up, outbox = NoOutbox, turn \in {"free", "line"}, NEW s \in Sender, NEW n \in Nat, NEW b \in Int, NEW w \in Worst,
         NEW now \in 0..day, NEW hd \in Int, hd <= block, WriteAhead(s, n, b, w, now, hd)
  PROVE  ArmedInv'
<1> DEFINE t == Len(tx) + 1
           e == [sender |-> s, nonce |-> n, bound |-> b, worst |-> w]
           r == Submitting(t)
<1>1. /\ IsChain(tx, fate, stolen) /\ History(tx, fate, stolen, block) /\ block \in Nat /\ Len(tx) \in Nat
      /\ day \in Nat /\ ledger \in Seq(ArmedRecord(Known)) /\ mem.pending \subseteq Known
      /\ TypeInv /\ TurnInv /\ WorldOK
  BY Types DEF ArmedInv, ChainInv, TypeInv
<1>2. /\ t <= MaxTx /\ tx' = Append(tx, e) /\ ledger' = Append(ledger, r) /\ mem' = Apply(Roll(mem, now), r)
      /\ line' = [pc |-> "recorded", tx |-> t, now |-> now, head |-> hd] /\ turn' = "line"
      /\ nonces' = nonces /\ ready' = ready /\ head' = head /\ outbox' = outbox /\ up' = up
      /\ fate' = fate /\ block' = block /\ stolen' = stolen /\ excused' = excused /\ mishaps' = mishaps
  BY DEF WriteAhead, faultVars
<1>3. e \in Txn
  BY DEF Txn
<1>4. Grows /\ ChainInv'
  <2>1. Grew(tx, fate, stolen, block, Append(tx, e), fate, stolen, block) /\ History(Append(tx, e), fate, stolen, block)
    <3> HIDE DEF e
    <3> QED BY <1>1, <1>2, <1>3, GrewTx
  <2> HIDE DEF e
  <2> QED BY <1>2, <2>1 DEF Grows, ChainInv
<1>5. Len(tx') = t /\ Known' = 1..t /\ t \in Known' /\ t \notin Known /\ Known \subseteq Known' /\ day' = day
  BY <1>1, <1>2 DEF Known, day
<1>6. fate[t].is = "none"
  <2>1. t \in Tx
    BY <1>1, <1>2, ArmedAssumption DEF Tx
  <2> QED BY <1>1, <2>1 DEF History
<1> HIDE DEF e
<1>7. r \in ArmedRecord(Known') /\ Backed(tx', fate', stolen', block', r) /\ r.kind = "submitting" /\ r.tx = t
  BY <1>5, RecordsAre DEF Backed, Submitting
<1> HIDE DEF r, t
<1>8. mem' \in States(Known') /\ mem'.day <= day' /\ mem'.pending = mem.pending \cup {t}
  <2>1. LET m == Apply(Roll(mem, now), r) IN
        m \in States(Known') /\ m.day <= day /\ m.pending = Left(tx, mem.pending, r)
    BY <1>1, <1>5, <1>7, MemTakes
  <2>2. Left(tx, mem.pending, r) = mem.pending \cup {t}
    BY <1>7 DEF Left
  <2> QED BY <1>2, <1>5, <2>1, <2>2
<1>9. ledger' \in Seq(ArmedRecord(Known')) /\ BackedAll(tx', fate', stolen', block', ledger')
  <2>1. BackedAll(tx', fate', stolen', block', ledger) /\ ledger \in Seq(ArmedRecord(Known'))
    BY <1>1, <1>4, RecordsKept, TypesGrow DEF ArmedInv
  <2>2. /\ Append(ledger, r) \in Seq(ArmedRecord(Known'))
        /\ BackedAll(tx', fate', stolen', block', Append(ledger, r))
    BY <1>7, <2>1, BackedAppend
  <2> QED BY <1>2, <2>2
<1>10. TypeInv'
  <2>1. WorldOK'
    <3>1. IsChain(tx', fate', stolen')
      BY <1>4 DEF Grows, Grew
    <3> QED BY <1>1, <1>2, <3>1 DEF WorldOK
  <2>2. line' \in Lines(day')
    <3>1. t \in Nat
      BY <1>1 DEF t
    <3> QED BY <1>2, <1>5, <3>1 DEF Lines
  <2>3. nonces \in [Sender -> 0..MostNonce] /\ ready \in BOOLEAN /\ up \in BOOLEAN /\ excused \in BOOLEAN
    BY <1>1 DEF TypeInv
  <2>4. head' \in Heads(day') /\ outbox' \in Outboxes(Known')
    BY <1>1, <1>2, <1>4, TypesGrow
  <2> QED BY <1>2, <1>8, <1>9, <2>1, <2>2, <2>3, <2>4 DEF TypeInv
<1>11. TurnInv'
  BY <1>1, <1>2, <1>5, <1>6 DEF TurnInv
<1>12. RecordsInv'
  BY <1>1, <1>2, <1>4, <1>9, RecordsKept DEF RecordsInv, ArmedInv
<1>13. HeadInv'
  BY <1>1, <1>2, <1>4, HeadKept DEF ArmedInv
<1>14. PendingInv'
  <2>1. NoneMissing(tx', fate', stolen', block', mem'.pending)
    <3>1. NoneMissing(tx, fate, stolen, block, mem.pending)
      BY DEF ArmedInv, PendingInv
    <3>2. \A u \in 1..Len(tx') : u \in mem.pending \/ u > Len(tx) => u \in mem'.pending
      BY <1>1, <1>5, <1>8 DEF t
    <3> QED BY <1>1, <1>4, <3>1, <3>2, NoneMissingStays DEF Grows
  <2>2. Disk'.pending = Disk.pending \cup {t}
    <3> DEFINE l == ledger
               y == tx'
               X == Known'
               q == After(y, l, day)
    <3>1. l \in Seq(ArmedRecord(X))
      BY <1>1, <1>4, TypesGrow
    <3>2. After(y, Append(l, r), day) = Take(y, q, r)
      <4> HIDE DEF X, y, l
      <4> QED BY <1>1, <1>7, <3>1, AfterAppend DEF X
    <3>3. q \in States(X)
      <4> HIDE DEF X, y, l
      <4> QED BY <1>1, <3>1, AfterType
    <3>4. Take(y, q, r).pending = q.pending \cup {t}
      <4>1. Take(y, q, r).pending = Left(y, q.pending, r)
        <5> HIDE DEF q, y
        <5> QED BY <1>7, <3>3, TakeShape
      <4> QED BY <1>7, <4>1 DEF Left
    <3>5. q.pending = After(tx, ledger, day).pending
      <4> DEFINE x == tx
                 Z == Known
      <4>1. Alike(x, y, Z)
        BY <1>1, <1>4, TypesGrow DEF Alike
      <4>2. l \in Seq(ArmedRecord(Z))
        BY <1>1
      <4> HIDE DEF x, Z, y, l
      <4>3. After(y, l, day).pending = After(x, l, day).pending
        BY <1>1, <4>1, <4>2, PendingKept
      <4> QED BY <4>3 DEF x, l
    <3>6. Disk = After(tx, ledger, day) /\ Disk' = After(tx', ledger', day')
      BY DiskIs DEF Disk
    <3> QED BY <1>2, <1>5, <3>2, <3>4, <3>5, <3>6
  <2>3. NoneLost(tx', fate', block', ledger', Disk'.pending)
    <3> DEFINE P == Disk.pending
               Q == Disk'.pending
    <3>1. NoneLost(tx, fate, block, ledger, P)
      BY DEF ArmedInv, PendingInv
    <3>2. \A u \in 1..Len(tx') : u \in P \/ u > Len(tx) => u \in Q
      BY <1>1, <1>5, <2>2 DEF t
    <3>3. \A u \in 1..Len(tx) : SettledBy(tx, ledger, u) => SettledBy(tx', ledger', u)
      <4>1. \A i \in 1..Len(ledger) : \E j \in 1..Len(ledger') : ledger'[j] = ledger[i]
        BY <1>1, <1>2
      <4>2. \A u \in 1..Len(tx) : tx'[u] = tx[u]
        BY <1>4 DEF Grows, Grew
      <4>3. ledger \in Seq(ArmedRecord(1..Len(tx)))
        BY <1>1 DEF Known
      <4> QED BY <1>1, <4>1, <4>2, <4>3, SettledStays
    <3> HIDE DEF P, Q
    <3>4. NoneLost(tx', fate', block', ledger', Q)
      BY <1>1, <1>4, <3>1, <3>2, <3>3, NoneLostStays DEF Grows
    <3> QED BY <3>4 DEF Q
  <2> QED BY <2>1, <2>3 DEF PendingInv
<1> QED BY <1>4, <1>10, <1>11, <1>12, <1>13, <1>14 DEF ArmedInv

\* What the conjuncts of the invariant say, together.
LEMMA Parts ==
  ASSUME ArmedInv
  PROVE  /\ TypeInv /\ TurnInv /\ ChainInv /\ RecordsInv /\ HeadInv /\ PendingInv /\ WorldOK
         /\ IsChain(tx, fate, stolen) /\ History(tx, fate, stolen, block) /\ block \in Nat /\ Len(tx) \in Nat
         /\ day \in Nat /\ ledger \in Seq(ArmedRecord(Known)) /\ mem.pending \subseteq Known
         /\ excused \in BOOLEAN /\ ready \in BOOLEAN /\ up \in BOOLEAN /\ nonces \in [Sender -> 0..MostNonce]
         /\ mem \in States(Known) /\ mem.day <= day
         /\ line \in Lines(day) /\ head \in Heads(day) /\ outbox \in Outboxes(Known)
         /\ line.pc \in {"none", "recorded", "low", "underpriced", "settling"}
         /\ line.now \in 0..day /\ line.head \in Int /\ head.now \in 0..day /\ head.at \in Int
         /\ head.pc \in {"none", "read"} /\ turn \in {"free", "line", "head"}
<1>1. TypeInv /\ TurnInv /\ ChainInv /\ RecordsInv /\ HeadInv /\ PendingInv
  BY DEF ArmedInv
<1>2. line \in Lines(day) /\ head \in Heads(day) /\ turn \in {"free", "line", "head"} /\ WorldOK
      /\ excused \in BOOLEAN /\ ready \in BOOLEAN /\ up \in BOOLEAN /\ nonces \in [Sender -> 0..MostNonce]
      /\ mem \in States(Known) /\ mem.day <= day /\ outbox \in Outboxes(Known)
  BY <1>1 DEF TypeInv
<1>3. /\ line.pc \in {"none", "recorded", "low", "underpriced", "settling"}
      /\ line.now \in 0..day /\ line.head \in Int
  BY <1>2 DEF Lines
<1>4. head.now \in 0..day /\ head.at \in Int /\ head.pc \in {"none", "read"}
  BY <1>2 DEF Heads
<1> QED BY <1>1, <1>2, <1>3, <1>4, Types DEF ChainInv

\* A line done leaves no line.
LEMMA LineOver ==
  ASSUME TypeInv
  PROVE  [NoLine EXCEPT !.now = line.now] \in Lines(day) /\ [NoLine EXCEPT !.now = line.now].pc = "none"
<1>1. line.now \in 0..day
  BY DEF TypeInv, Lines
<1>2. [NoLine EXCEPT !.now = line.now] = [pc |-> "none", tx |-> 0, now |-> line.now, head |-> 0]
  BY DEF NoLine
<1> QED BY <1>1, <1>2 DEF Lines

\* An arm is written ahead.
LEMMA SubmitKeeps ==
  ASSUME ArmedInv, NEW s \in Sender, NEW w \in Worst, NEW now \in {day - 1, day} \cap Nat,
         NEW back \in 0..Lag, NEW win \in 1..Window, Submit(s, block - back + win, w, now, block - back)
  PROVE  ArmedInv'
<1>1. up /\ turn = "free" /\ WriteAhead(s, nonces[s], block - back + win, w, now, block - back)
  BY DEF Submit
<1>2. outbox = NoOutbox /\ block \in Nat /\ day \in Nat /\ nonces[s] \in 0..MostNonce
  BY <1>1, Parts DEF TurnInv
<1>3. nonces[s] \in Nat
  BY <1>2, MostIsNat
<1>4. now \in 0..day
  BY <1>2
<1>5. back \in Nat /\ win \in Nat
  BY ArmedAssumption
<1>6. block - back + win \in Int /\ block - back \in Int /\ block - back <= block
  BY <1>2, <1>5
<1> QED BY <1>1, <1>2, <1>3, <1>4, <1>6, WriteAheadKeeps

\* So is a replacement.
LEMMA BumpKeeps ==
  ASSUME ArmedInv, NEW w \in Worst, Bump(w)
  PROVE  ArmedInv'
<1> DEFINE t == tx[line.tx]
<1>1. line.pc = "underpriced" /\ WriteAhead(t.sender, t.nonce, t.bound, w, line.now, line.head)
  BY DEF Bump
<1>2. turn = "line" /\ outbox = NoOutbox /\ up /\ line.tx \in Known /\ line.head <= block
  BY <1>1, Parts DEF TurnInv
<1>3. t.sender \in Sender /\ t.nonce \in Nat /\ t.bound \in Int
  BY <1>2, Parts, TxOf DEF Known
<1>4. line.now \in 0..day /\ line.head \in Int
  BY Parts
<1> HIDE DEF t
<1> QED BY <1>1, <1>2, <1>3, <1>4, WriteAheadKeeps

\* An answer makes the transaction held.
LEMMA AnsweredKeeps ==
  ASSUME ArmedInv, Answered
  PROVE  ArmedInv'
<1> DEFINE g == [fate EXCEPT ![line.tx].is = "held"]
<1>1. /\ line.pc = "recorded" /\ fate' = g /\ line' = [NoLine EXCEPT !.now = line.now] /\ turn' = "free"
      /\ ledger' = ledger /\ mem' = mem /\ nonces' = nonces /\ ready' = ready /\ head' = head /\ outbox' = outbox
      /\ up' = up /\ tx' = tx /\ block' = block /\ stolen' = stolen /\ excused' = excused /\ mishaps' = mishaps
  BY DEF Answered, LineDone, faultVars
<1>2. line.tx \in 1..Len(tx) /\ fate[line.tx].is = "none" /\ turn = "line" /\ outbox = NoOutbox
  BY <1>1, Parts DEF TurnInv, Known
<1>3. Grew(tx, fate, stolen, block, tx, g, stolen, block) /\ History(tx, g, stolen, block)
  BY <1>2, Parts, GrewFate
<1> HIDE DEF g
<1>4. Grows /\ ChainInv' /\ Known' = Known /\ day' = day
  BY <1>1, <1>3 DEF Grows, ChainInv, Known, day
<1>5. TypeInv'
  <2>1. WorldOK'
    <3>1. IsChain(tx', fate', stolen')
      BY <1>4 DEF Grows, Grew
    <3> QED BY <1>1, <3>1, Parts DEF WorldOK
  <2>2. line' \in Lines(day')
    BY <1>1, <1>4, Parts, LineOver
  <2> QED BY <1>1, <1>4, <2>1, <2>2, Parts DEF TypeInv
<1>6. TurnInv'
  <2>1. line'.pc = "none"
    BY <1>1, Parts, LineOver
  <2> QED BY <1>1, <1>2, <2>1, Parts DEF TurnInv
<1>7. RecordsInv'
  BY <1>1, <1>4, RecordsKept, Parts DEF RecordsInv
<1>8. HeadInv'
  BY <1>1, <1>4, HeadKept, Parts
<1>9. PendingInv'
  BY <1>1, <1>4, QuietStep, Parts
<1> QED BY <1>4, <1>5, <1>6, <1>7, <1>8, <1>9 DEF ArmedInv

\* A refusal records that it will not land.
LEMMA RefusedKeeps ==
  ASSUME ArmedInv, NEW why \in {"low", "underpriced", "other"}, RefusedFor(why)
  PROVE  ArmedInv'
<1> DEFINE g == [fate EXCEPT ![line.tx].is = "dead"]
           r == Refused(line.tx)
<1>1. /\ line.pc = "recorded" /\ fate' = g
      /\ Record(r, line.now)
      /\ \/ why = "other" /\ line' = [NoLine EXCEPT !.now = line.now] /\ turn' = "free"
         \/ why # "other" /\ line' = [line EXCEPT !.pc = why] /\ turn' = turn
      /\ nonces' = nonces /\ ready' = ready /\ head' = head /\ outbox' = outbox
      /\ up' = up /\ tx' = tx /\ block' = block /\ stolen' = stolen
  BY DEF RefusedFor, LineDone
<1>2. line.tx \in 1..Len(tx) /\ line.tx \in Known /\ fate[line.tx].is = "none" /\ turn = "line" /\ outbox = NoOutbox
      /\ line.head <= block
  BY <1>1, Parts DEF TurnInv, Known
<1>3. Grew(tx, fate, stolen, block, tx, g, stolen, block) /\ History(tx, g, stolen, block)
  BY <1>2, Parts, GrewFate
<1>4. g[line.tx].is = "dead"
  BY <1>2, Parts, TxOf DEF IsChain, Fates
<1> HIDE DEF g
<1>5. Grows /\ ChainInv' /\ Known' = Known /\ day' = day
  BY <1>1, <1>3 DEF Grows, ChainInv, Known, day
<1>6. r \in ArmedRecord(Known) /\ Backed(tx', fate', stolen', block', r)
  BY <1>1, <1>2, <1>4, RecordsAre DEF Backed, Refused
<1> HIDE DEF r
<1>7. /\ mem' \in States(Known') /\ mem'.day <= day'
      /\ ledger' \in Seq(ArmedRecord(Known')) /\ BackedAll(tx', fate', stolen', block', ledger')
      /\ mishaps' \in 0..MaxMishaps /\ mishaps <= mishaps' /\ excused' \in BOOLEAN
      /\ PendingInv'
  BY <1>1, <1>5, <1>6, Parts, Recorded
<1>8. TypeInv'
  <2>1. WorldOK'
    <3>1. IsChain(tx', fate', stolen')
      BY <1>5 DEF Grows, Grew
    <3>2. Cardinality(stolen') <= mishaps'
      <4>1. Cardinality(stolen) \in Nat
        BY Parts, FS_CardinalityType DEF IsChain
      <4> QED BY <1>1, <1>7, <4>1, Parts DEF WorldOK
    <3> QED BY <1>1, <1>7, <3>1, <3>2, Parts DEF WorldOK
  <2>2. line' \in Lines(day')
    <3>1. CASE why = "other"
      BY <1>1, <1>5, <3>1, Parts, LineOver
    <3>2. CASE why # "other"
      <4>1. line' = [line EXCEPT !.pc = why] /\ why \in {"low", "underpriced"}
        BY <1>1, <3>2
      <4> QED BY <1>5, <4>1, Parts DEF Lines
    <3> QED BY <3>1, <3>2
  <2>3. turn' \in {"free", "line", "head"}
    BY <1>1, <1>2
  <2> QED BY <1>1, <1>5, <1>7, <2>1, <2>2, <2>3, Parts DEF TypeInv
<1>9. TurnInv'
  <2>1. CASE why = "other"
    <3>1. line'.pc = "none" /\ turn' = "free"
      BY <1>1, <2>1, Parts, LineOver
    <3> QED BY <1>1, <1>2, <3>1, Parts DEF TurnInv
  <2>2. CASE why # "other"
    <3>1. line' = [line EXCEPT !.pc = why] /\ why \in {"low", "underpriced"} /\ turn' = turn
      BY <1>1, <2>2
    <3>2. line'.pc = why /\ line'.tx = line.tx /\ line'.head = line.head
      BY <3>1, Parts DEF Lines
    <3> QED BY <1>1, <1>2, <1>5, <3>1, <3>2, Parts DEF TurnInv
  <2> QED BY <2>1, <2>2
<1>10. RecordsInv'
  BY <1>1, <1>5, <1>7, RecordsKept, Parts DEF RecordsInv
<1>11. HeadInv'
  BY <1>1, <1>5, HeadKept, Parts
<1> QED BY <1>5, <1>7, <1>8, <1>9, <1>10, <1>11 DEF ArmedInv

\* A line given up.
LEMMA GivesUpKeeps ==
  ASSUME ArmedInv, GivesUp
  PROVE  ArmedInv'
<1>1. /\ line.pc \in {"underpriced", "low"} /\ line' = [NoLine EXCEPT !.now = line.now] /\ turn' = "free"
      /\ ledger' = ledger /\ mem' = mem /\ nonces' = nonces /\ ready' = ready /\ head' = head /\ outbox' = outbox
      /\ up' = up /\ UNCHANGED chainVars /\ excused' = excused /\ mishaps' = mishaps
  BY DEF GivesUp, LineDone, faultVars
<1>2. turn = "line" /\ outbox = NoOutbox
  BY <1>1, Parts DEF TurnInv
<1>3. /\ Grows /\ ChainInv' /\ Known' = Known /\ day' = day
      /\ tx' = tx /\ fate' = fate /\ stolen' = stolen /\ block' = block
  BY <1>1, Parts, Stays
<1>4. line' \in Lines(day') /\ line'.pc = "none"
  BY <1>1, <1>3, Parts, LineOver
<1>5. TypeInv'
  <2>1. WorldOK'
    BY <1>1, <1>3, Parts DEF WorldOK
  <2> QED BY <1>1, <1>3, <1>4, <2>1, Parts DEF TypeInv
<1>6. TurnInv'
  BY <1>1, <1>2, <1>4, Parts DEF TurnInv
<1>7. RecordsInv'
  BY <1>1, <1>3, RecordsKept, Parts DEF RecordsInv
<1>8. HeadInv'
  BY <1>1, <1>3, HeadKept, Parts
<1>9. PendingInv'
  BY <1>1, <1>3, QuietStep, Parts
<1> QED BY <1>3, <1>5, <1>6, <1>7, <1>8, <1>9 DEF ArmedInv

-----------------------------------------------------------------------------
(* Reads and their settlement.                                             *)

\* A read, its receipt seen or not, is of the block before.
LEMMA ReadOfIs ==
  ASSUME ArmedInv, NEW s \in Sender, NEW h \in Int, NEW r, r \in {ReadOf(s, h), Unread(ReadOf(s, h))}
  PROVE  r \in Reading /\ r.sender = s /\ ReadAt(tx, fate, stolen, h, r)
<1> DEFINE n == NonceAt(s, h - 1)
           ours == {t \in PendingOf(s) : tx[t].nonce + 1 = n /\ fate[t].is = "landed"}
           v == Most(ours)
<1>1. n = NonceIn(tx, fate, stolen, s, h - 1)
  BY NonceIs
<1>2. n \in 0..MostNonce
  <2>1. /\ NonceIn(tx, fate, stolen, s, h - 1) \in Nat
        /\ NonceIn(tx, fate, stolen, s, h - 1) <= Len(tx) + Cardinality(stolen)
    BY Parts, NonceType
  <2>2. Len(tx) <= MaxTx /\ Cardinality(stolen) <= MaxMishaps /\ Cardinality(stolen) \in Nat
    <3>1. Cardinality(stolen) \in Nat
      BY Parts, FS_CardinalityType DEF IsChain
    <3>2. Len(tx) <= MaxTx /\ Cardinality(stolen) <= mishaps /\ mishaps \in 0..MaxMishaps
      BY Parts DEF IsChain, WorldOK
    <3> QED BY <3>1, <3>2, ArmedAssumption
  <2>3. MaxTx \in Nat /\ MaxMishaps \in Nat /\ Len(tx) \in Nat
    BY Parts, ArmedAssumption
  <2> DEFINE k == NonceIn(tx, fate, stolen, s, h - 1)
             m == Cardinality(stolen)
  <2>4. k \in Nat /\ m \in Nat /\ k <= Len(tx) + m /\ Len(tx) <= MaxTx /\ m <= MaxMishaps
    BY <2>1, <2>2
  <2> HIDE DEF k, m
  <2>5. k \in 0..(MaxTx + MaxMishaps)
    BY <2>3, <2>4
  <2> QED BY <1>1, <2>5 DEF MostNonce, k
<1>3. ours \subseteq 1..Len(tx) /\ \A t \in ours : tx[t].sender = s /\ tx[t].nonce + 1 = n /\ fate[t].is = "landed"
  BY Parts DEF PendingOf, Known
<1>4. v \in Nat /\ (v # 0 => v \in ours)
  <2>1. ours \subseteq 0..Len(tx)
    BY <1>3, Parts
  <2>2. Len(tx) \in Nat
    BY Parts
  <2> HIDE DEF ours
  <2>3. Most(ours) \in 0..Len(tx) /\ (Most(ours) # 0 => Most(ours) \in ours)
    BY <2>1, <2>2, MostOf
  <2> QED BY <2>2, <2>3
<1>5. ReadOf(s, h) = [sender |-> s, nonce |-> n, landed |-> v]
  BY DEF ReadOf
<1> HIDE DEF n, v, ours
<1>6. Unread(ReadOf(s, h)) = [sender |-> s, nonce |-> n, landed |-> 0]
  BY <1>5 DEF Unread
<1>7. CASE r = ReadOf(s, h)
  <2>1. v # 0 => /\ v \in 1..Len(tx) /\ fate[v].is = "landed" /\ tx[v].sender = s /\ tx[v].nonce + 1 = n
    BY <1>3, <1>4
  <2> QED BY <1>1, <1>2, <1>4, <1>5, <1>7, <2>1 DEF Reading, ReadAt
<1>8. CASE r = Unread(ReadOf(s, h))
  BY <1>1, <1>2, <1>6, <1>8 DEF Reading, ReadAt
<1> QED BY <1>7, <1>8

\* What a settlement leaves to write.
LEMMA Settled ==
  ASSUME ArmedInv, outbox = NoOutbox, NEW r \in Reading, NEW h \in Int, h <= block, NEW now \in Nat,
         ReadAt(tx, fate, stolen, h, r), Settle(r, h, now)
  PROVE  /\ outbox' \in Outboxes(Known) /\ BackedAll(tx, fate, stolen, block, outbox'.records)
         /\ outbox' # NoOutbox => outbox'.records # <<>> /\ outbox'.sender \in Sender
         /\ nonces' \in [Sender -> 0..MostNonce]
<1> DEFINE j == Judged(r, h, now)
<1>1. /\ j.records \in Seq(ArmedRecord(Known)) /\ BackedAll(tx, fate, stolen, block, j.records)
      /\ j.sender = r.sender /\ j.nonce \in {-1, r.nonce}
  BY Parts, JudgedBacked
<1>2. r.sender \in Sender /\ r.nonce \in 0..MostNonce
  BY DEF Reading
<1>3. /\ NoOutbox \in Outboxes(Known) /\ BackedAll(tx, fate, stolen, block, NoOutbox.records)
      /\ NoOutbox.records = <<>>
  <2>1. -1 \in -1..MostNonce /\ 0 \in -1..MostNonce
    BY MostIsNat
  <2>2. <<>> \in Seq(ArmedRecord(Known)) /\ Len(<<>>) = 0
    OBVIOUS
  <2> QED BY <2>1, <2>2 DEF NoOutbox, Outboxes, BackedAll
<1>4. nonces \in [Sender -> 0..MostNonce]
  BY Parts
<1>5. j = [records |-> j.records, sender |-> j.sender, nonce |-> j.nonce]
  BY JudgedIs DEF JudgedIdle, JudgedLost, JudgedSeen
<1>6. CASE IsStale(r)
  BY <1>3, <1>4, <1>6 DEF Settle
<1>7. CASE ~IsStale(r)
  <2>1. /\ outbox' = IF j.records = <<>> THEN NoOutbox ELSE j
        /\ nonces' = IF j.records = <<>> /\ j.nonce # -1 THEN [nonces EXCEPT ![r.sender] = j.nonce] ELSE nonces
    BY <1>7 DEF Settle
  <2> HIDE DEF j
  <2>2. j.nonce \in -1..MostNonce
    BY <1>1, <1>2, MostIsNat
  <2>3. j \in Outboxes(Known)
    BY <1>1, <1>2, <1>5, <2>2 DEF Outboxes
  <2>4. nonces' \in [Sender -> 0..MostNonce]
    <3>1. j.nonce # -1 => j.nonce \in 0..MostNonce
      BY <1>1, <1>2
    <3> QED BY <1>2, <1>4, <2>1, <3>1
  <2> QED BY <1>1, <1>2, <1>3, <2>1, <2>3, <2>4
<1> QED BY <1>6, <1>7

\* The landing check inside the line's turn.
LEMMA LandingCheckKeeps ==
  ASSUME ArmedInv, LandingCheck
  PROVE  ArmedInv'
<1> DEFINE s == tx[line.tx].sender
           q == ReadOf(s, line.head)
<1>1. /\ line.pc = "low"
      /\ \/ LandingRead(q) /\ UNCHANGED <<mishaps, excused>>
         \/ mishaps < MaxMishaps /\ mishaps' = mishaps + 1 /\ excused' = TRUE /\ LandingRead(Unread(q))
  BY DEF LandingCheck
<1>2. turn = "line" /\ outbox = NoOutbox /\ line.tx \in Known /\ line.head <= block /\ line.head \in Int
  BY <1>1, Parts DEF TurnInv
<1>3. s \in Sender
  BY <1>2, Parts, TxOf DEF Known
<1>4. PICK r \in {ReadOf(s, line.head), Unread(ReadOf(s, line.head))} : LandingRead(r)
  BY <1>1
<1>5. r \in Reading /\ r.sender = s /\ ReadAt(tx, fate, stolen, line.head, r)
  <2> HIDE DEF s
  <2> QED BY <1>2, <1>3, <1>4, ReadOfIs
<1>6. mishaps' \in 0..MaxMishaps /\ mishaps <= mishaps' /\ excused' \in BOOLEAN
  <2>1. mishaps \in 0..MaxMishaps /\ excused \in BOOLEAN /\ MaxMishaps \in Nat
    BY Parts, ArmedAssumption DEF WorldOK
  <2>2. mishaps' = mishaps \/ (mishaps < MaxMishaps /\ mishaps' = mishaps + 1)
    BY <1>1
  <2>3. excused' \in BOOLEAN
    BY <1>1, <2>1
  <2> QED BY <2>1, <2>2, <2>3
<1>7. /\ Settle(r, line.head, line.now)
      /\ \/ outbox' = NoOutbox /\ line' = [NoLine EXCEPT !.now = line.now] /\ turn' = "free"
         \/ outbox' # NoOutbox /\ line' = [line EXCEPT !.pc = "settling"] /\ turn' = turn
      /\ ledger' = ledger /\ mem' = mem /\ ready' = ready /\ head' = head /\ up' = up /\ UNCHANGED chainVars
  BY <1>4 DEF LandingRead, LineDone
<1>8. /\ outbox' \in Outboxes(Known) /\ BackedAll(tx, fate, stolen, block, outbox'.records)
      /\ outbox' # NoOutbox => outbox'.records # <<>> /\ outbox'.sender \in Sender
      /\ nonces' \in [Sender -> 0..MostNonce]
  <2>1. line.now \in Nat
    BY Parts
  <2> QED BY <1>2, <1>5, <1>7, <2>1, Settled
<1>9. /\ Grows /\ ChainInv' /\ Known' = Known /\ day' = day
      /\ tx' = tx /\ fate' = fate /\ stolen' = stolen /\ block' = block
  BY <1>7, Parts, Stays
<1>10. line' \in Lines(day') /\ (outbox' = NoOutbox <=> line'.pc = "none") /\ (outbox' # NoOutbox <=> line'.pc = "settling")
       /\ (outbox' # NoOutbox => line'.tx = line.tx /\ line'.head = line.head)
  <2>1. CASE outbox' = NoOutbox
    BY <1>7, <1>9, <2>1, Parts, LineOver
  <2>2. CASE outbox' # NoOutbox
    BY <1>7, <1>9, <2>2, Parts DEF Lines
  <2> QED BY <2>1, <2>2
<1>11. TypeInv'
  <2>1. WorldOK'
    <3>1. Cardinality(stolen) \in Nat
      BY Parts, FS_CardinalityType DEF IsChain
    <3>2. Cardinality(stolen) <= mishaps' /\ block \in 1..MaxBlock /\ IsChain(tx, fate, stolen)
      BY <1>6, <3>1, Parts DEF WorldOK
    <3> QED BY <1>6, <1>9, <3>2 DEF WorldOK
  <2>2. turn' \in {"free", "line", "head"}
    BY <1>2, <1>7
  <2> QED BY <1>6, <1>7, <1>8, <1>9, <1>10, <2>1, <2>2, Parts DEF TypeInv
<1>12. TurnInv'
  <2>1. (turn' = "line" <=> line'.pc # "none") /\ (turn' = "free" => outbox' = NoOutbox) /\ turn' # "head"
    BY <1>2, <1>7, <1>10
  <2> QED BY <1>2, <1>7, <1>8, <1>9, <1>10, <2>1, Parts DEF TurnInv
<1>13. RecordsInv'
  <2>1. BackedAll(tx', fate', stolen', block', ledger)
    BY <1>9, RecordsKept, Parts
  <2> QED BY <1>7, <1>8, <1>9, <2>1 DEF RecordsInv
<1>14. HeadInv'
  BY <1>7, <1>9, HeadKept, Parts
<1>15. PendingInv'
  BY <1>7, <1>9, QuietStep, Parts
<1> QED BY <1>9, <1>11, <1>12, <1>13, <1>14, <1>15 DEF ArmedInv

\* The reads a head calls for, outside the turn.
LEMMA HeadReadsKeeps ==
  ASSUME ArmedInv, NEW asked \in SUBSET Due(block), NEW blind \in SUBSET asked, HeadReads(block, asked, blind)
  PROVE  ArmedInv'
<1> DEFINE reads == {IF s \in blind THEN Unread(ReadOf(s, block)) ELSE ReadOf(s, block) : s \in asked}
<1>1. /\ up /\ head.pc = "none" /\ mishaps + Cardinality(blind) <= MaxMishaps
      /\ mishaps' = mishaps + Cardinality(blind) /\ excused' = (excused \/ blind # {})
      /\ mem' = Roll(mem, day)
      /\ head' = [pc |-> "read", at |-> block, now |-> day, reads |-> reads]
      /\ ledger' = ledger /\ nonces' = nonces /\ ready' = ready /\ turn' = turn /\ line' = line /\ outbox' = outbox
      /\ up' = up /\ UNCHANGED chainVars
  BY DEF HeadReads
<1>2. /\ Grows /\ ChainInv' /\ Known' = Known /\ day' = day
      /\ tx' = tx /\ fate' = fate /\ stolen' = stolen /\ block' = block
  BY <1>1, Parts, Stays
<1>3. asked \subseteq Sender
  BY Parts, TxOf DEF Due, Known
<1>4. \A r \in reads : r \in Reading /\ ReadAt(tx, fate, stolen, block, r)
  <2>1. ASSUME NEW s \in asked
        PROVE  LET r == IF s \in blind THEN Unread(ReadOf(s, block)) ELSE ReadOf(s, block) IN
               r \in Reading /\ ReadAt(tx, fate, stolen, block, r)
    <3> DEFINE r == IF s \in blind THEN Unread(ReadOf(s, block)) ELSE ReadOf(s, block)
    <3>1. r \in {ReadOf(s, block), Unread(ReadOf(s, block))} /\ s \in Sender /\ block \in Int
      BY <1>3, Parts
    <3> HIDE DEF r
    <3>2. r \in Reading /\ ReadAt(tx, fate, stolen, block, r)
      BY <3>1, ReadOfIs
    <3> QED BY <3>2 DEF r
  <2> QED BY <2>1
<1> HIDE DEF reads
<1>5. mishaps' \in 0..MaxMishaps /\ mishaps <= mishaps' /\ excused' \in BOOLEAN
  <2>1. IsFiniteSet(blind)
    <3>1. IsFiniteSet(mem.pending)
      BY Parts, KnownFinite DEF Known
    <3> DEFINE U == {u \in mem.pending : IsPast(u, block)}
               g == [t \in U |-> tx[t].sender]
    <3>2. IsFiniteSet(U)
      <4>1. U \in SUBSET mem.pending
        OBVIOUS
      <4> HIDE DEF U
      <4> QED BY <3>1, <4>1, FS_Subset
    <3>3. Due(block) = {g[t] : t \in U}
      BY DEF Due
    <3>4. DOMAIN g = U /\ g = [t \in U |-> g[t]]
      OBVIOUS
    <3>5. IsFiniteSet(Due(block))
      <4> HIDE DEF g, U
      <4> QED BY <3>2, <3>3, <3>4, FiniteImage
    <3> QED BY <3>5, FS_Subset
  <2>2. Cardinality(blind) \in Nat
    BY <2>1, FS_CardinalityType
  <2>3. mishaps \in 0..MaxMishaps /\ MaxMishaps \in Nat
    BY Parts, ArmedAssumption DEF WorldOK
  <2> QED BY <1>1, <2>2, <2>3
<1>6. mem' \in States(Known) /\ mem'.day <= day /\ mem'.pending = mem.pending
  <2>1. mem.day \in Nat /\ mem.day <= day /\ day \in Nat /\ mem \in States(Known)
    BY Parts, Types
  <2> DEFINE u == Roll(mem, day)
  <2>2. u \in States(Known) /\ u.pending = mem.pending /\ u.day = (IF day > mem.day THEN day ELSE mem.day)
    BY <2>1, RollShape
  <2> HIDE DEF u
  <2>3. u.day <= day
    BY <2>1, <2>2
  <2> QED BY <1>1, <2>2, <2>3 DEF u
<1>7. head' \in Heads(day)
  BY <1>1, <1>4, Parts DEF Heads
<1>8. TypeInv'
  <2>1. WorldOK'
    <3>1. Cardinality(stolen) \in Nat
      BY Parts, FS_CardinalityType DEF IsChain
    <3>2. Cardinality(stolen) <= mishaps' /\ block \in 1..MaxBlock /\ IsChain(tx, fate, stolen)
      BY <1>5, <3>1, Parts DEF WorldOK
    <3> QED BY <1>2, <1>5, <3>2 DEF WorldOK
  <2> QED BY <1>1, <1>2, <1>5, <1>6, <1>7, <2>1, Parts DEF TypeInv
<1>9. TurnInv'
  <2>1. head'.pc = "read"
    BY <1>1
  <2> QED BY <1>1, <1>2, <2>1, Parts DEF TurnInv
<1>10. RecordsInv'
  BY <1>1, <1>2, RecordsKept, Parts DEF RecordsInv
<1>11. HeadInv'
  <2>1. /\ head'.pc = "read" /\ head'.at = block /\ head'.now = day /\ head'.reads = reads
    BY <1>1
  <2>2. block <= block /\ block \div DayBlocks <= day
    <3>1. block \in Nat /\ day \in Nat /\ day = block \div DayBlocks
      BY Parts DEF day
    <3> QED BY <3>1
  <2> QED BY <1>2, <1>4, <2>1, <2>2 DEF HeadInv
<1>12. PendingInv'
  BY <1>1, <1>2, <1>6, QuietStep, Parts
<1> QED BY <1>2, <1>8, <1>9, <1>10, <1>11, <1>12 DEF ArmedInv

\* A head done leaves no reads.
LEMMA HeadOver ==
  ASSUME day \in Nat
  PROVE  NoHead \in Heads(day) /\ NoHead.pc = "none" /\ NoHead.reads = {}
BY DEF NoHead, Heads

\* A read settled in the turn.
LEMMA HeadSettlesKeeps ==
  ASSUME ArmedInv, NEW r \in head.reads, HeadSettles(r)
  PROVE  ArmedInv'
<1>1. /\ outbox = NoOutbox /\ turn \in {"free", "head"} /\ Settle(r, head.at, head.now)
      /\ \/ /\ outbox' = NoOutbox /\ head.reads = {r}
            /\ head' = NoHead /\ turn' = "free" /\ ready' = (ready \/ mem'.pending = {})
         \/ /\ ~(outbox' = NoOutbox /\ head.reads = {r})
            /\ head' = [head EXCEPT !.reads = @ \ {r}] /\ turn' = "head" /\ ready' = ready
      /\ ledger' = ledger /\ mem' = mem /\ line' = line /\ up' = up /\ UNCHANGED chainVars
      /\ excused' = excused /\ mishaps' = mishaps
  BY DEF HeadSettles, HeadDone, faultVars
<1>2. /\ Grows /\ ChainInv' /\ Known' = Known /\ day' = day
      /\ tx' = tx /\ fate' = fate /\ stolen' = stolen /\ block' = block
  BY <1>1, Parts, Stays
<1>3. head.pc = "read" /\ line.pc = "none" /\ up
  BY <1>1, Parts DEF TurnInv
<1>4. /\ head.at <= block /\ head.at \in Int /\ head.at \div DayBlocks <= head.now /\ head.now \in Nat
      /\ ReadAt(tx, fate, stolen, head.at, r) /\ r \in Reading
  BY <1>3, Parts, Types DEF HeadInv
<1>5. /\ outbox' \in Outboxes(Known) /\ BackedAll(tx, fate, stolen, block, outbox'.records)
      /\ outbox' # NoOutbox => outbox'.records # <<>> /\ outbox'.sender \in Sender
      /\ nonces' \in [Sender -> 0..MostNonce]
  BY <1>1, <1>4, Settled
<1>6. head' \in Heads(day) /\ turn' \in {"free", "head"} /\ ready' \in BOOLEAN
  <2>1. CASE head' = NoHead
    BY <1>1, <2>1, HeadOver, Parts
  <2>2. CASE head' = [head EXCEPT !.reads = @ \ {r}] /\ turn' = "head" /\ ready' = ready
    <3>1. head' \in Heads(day)
      BY <2>2, Parts DEF Heads
    <3> QED BY <2>2, <3>1, Parts
  <2> QED BY <1>1, <2>1, <2>2
<1>7. TypeInv'
  <2>1. WorldOK'
    BY <1>1, <1>2, Parts DEF WorldOK
  <2> QED BY <1>1, <1>2, <1>5, <1>6, <2>1, Parts DEF TypeInv
<1>8. TurnInv'
  <2>1. turn' = "head" => head'.pc = "read"
    BY <1>1, <1>3, Parts DEF Heads
  <2>2. turn' = "free" => outbox' = NoOutbox
    BY <1>1
  <2>3. head'.pc = "none" => head'.reads = {}
    <3>1. CASE head' = NoHead
      BY <3>1, HeadOver, Parts
    <3>2. CASE head' = [head EXCEPT !.reads = @ \ {r}]
      BY <1>3, <3>2, Parts DEF Heads
    <3> QED BY <1>1, <3>1, <3>2
  <2> QED BY <1>1, <1>2, <1>3, <1>5, <1>6, <2>1, <2>2, <2>3, Parts DEF TurnInv
<1>9. RecordsInv'
  <2>1. BackedAll(tx', fate', stolen', block', ledger)
    BY <1>2, RecordsKept, Parts
  <2> QED BY <1>1, <1>2, <1>5, <2>1 DEF RecordsInv
<1>10. HeadInv'
  <2>1. head'.pc = "read" => head'.at = head.at /\ head'.now = head.now /\ head'.reads \subseteq head.reads
    <3>1. CASE head' = NoHead
      BY <3>1, HeadOver, Parts
    <3>2. CASE head' = [head EXCEPT !.reads = @ \ {r}]
      BY <3>2, Parts DEF Heads
    <3> QED BY <1>1, <3>1, <3>2
  <2> QED BY <1>2, <1>3, <2>1, HeadKept, Parts
<1>11. PendingInv'
  BY <1>1, <1>2, QuietStep, Parts
<1> QED BY <1>2, <1>7, <1>8, <1>9, <1>10, <1>11 DEF ArmedInv

\* The next record of a settlement.
LEMMA WriteKeeps ==
  ASSUME ArmedInv, Write
  PROVE  ArmedInv'
<1> DEFINE r == outbox.records[1]
           now == IF turn = "line" THEN line.now ELSE head.now
           rest == AfterWrite(r)
<1>1. /\ outbox # NoOutbox /\ Record(r, now)
      /\ \/ /\ rest # <<>> /\ outbox' = [outbox EXCEPT !.records = rest]
            /\ UNCHANGED <<nonces, ready, turn, line, head>>
         \/ /\ rest = <<>> /\ outbox' = NoOutbox
            /\ nonces' = IF outbox.nonce = -1 THEN nonces ELSE [nonces EXCEPT ![outbox.sender] = outbox.nonce]
            /\ \/ turn = "line" /\ LineDone /\ UNCHANGED <<head, ready>>
               \/ turn = "head" /\ head.reads = {} /\ HeadDone /\ UNCHANGED line
               \/ turn = "head" /\ head.reads # {} /\ UNCHANGED <<head, turn, ready, line>>
      /\ up' = up /\ UNCHANGED chainVars
  BY DEF Write
<1>2. /\ Grows /\ ChainInv' /\ Known' = Known /\ day' = day
      /\ tx' = tx /\ fate' = fate /\ stolen' = stolen /\ block' = block
  BY <1>1, Parts, Stays
<1>3. /\ turn \in {"line", "head"} /\ outbox.records # <<>> /\ outbox.sender \in Sender
      /\ turn = "line" => line.pc = "settling"
      /\ turn = "head" => head.pc = "read" /\ line.pc = "none"
  BY <1>1, Parts DEF TurnInv
<1>4. /\ r \in ArmedRecord(Known) /\ Backed(tx, fate, stolen, block, r)
      /\ Tail(outbox.records) \in Seq(ArmedRecord(Known))
      /\ BackedAll(tx, fate, stolen, block, Tail(outbox.records))
  <2>1. outbox.records \in Seq(ArmedRecord(Known)) /\ BackedAll(tx, fate, stolen, block, outbox.records)
    BY Parts DEF Outboxes, RecordsInv
  <2> QED BY <1>3, <2>1, BackedTail
<1>5. now \in 0..day
  BY Parts
<1>6. /\ mem' \in States(Known') /\ mem'.day <= day'
      /\ ledger' \in Seq(ArmedRecord(Known')) /\ BackedAll(tx', fate', stolen', block', ledger')
      /\ mishaps' \in 0..MaxMishaps /\ mishaps <= mishaps' /\ excused' \in BOOLEAN
      /\ PendingInv'
  <2> HIDE DEF r, now, rest
  <2> QED BY <1>1, <1>2, <1>4, <1>5, Parts, Recorded
<1>7. rest \in Seq(ArmedRecord(Known)) /\ BackedAll(tx, fate, stolen, block, rest)
  <2> DEFINE cap == <<LossCap(mem'.day)>>
  <2>1. mem'.day \in Nat
    BY <1>6 DEF States
  <2>2. LossCap(mem'.day) \in ArmedRecord(Known) /\ Backed(tx, fate, stolen, block, LossCap(mem'.day))
    <3>1. LossCap(mem'.day) \in ArmedRecord(Known)
      BY <2>1, RecordsAre
    <3> QED BY <3>1 DEF Backed, LossCap
  <2>3. cap \in Seq(ArmedRecord(Known)) /\ BackedAll(tx, fate, stolen, block, cap)
    <3> DEFINE e == LossCap(mem'.day)
               k == <<e>>
    <3>1. e \in ArmedRecord(Known) /\ Backed(tx, fate, stolen, block, e)
      BY <2>2
    <3> HIDE DEF e
    <3>2. k \in Seq(ArmedRecord(Known)) /\ BackedAll(tx, fate, stolen, block, k)
      BY <3>1 DEF BackedAll
    <3> QED BY <3>2 DEF e
  <2> HIDE DEF cap
  <2>4. /\ cap \o Tail(outbox.records) \in Seq(ArmedRecord(Known))
        /\ BackedAll(tx, fate, stolen, block, cap \o Tail(outbox.records))
    BY <1>4, <2>3, BackedConcat
  <2>5. rest \in {cap \o Tail(outbox.records), Tail(outbox.records)}
    BY DEF AfterWrite, cap
  <2> HIDE DEF rest
  <2> QED BY <1>4, <2>4, <2>5
<1> HIDE DEF rest, r, now
<1>8. /\ outbox' \in Outboxes(Known) /\ BackedAll(tx, fate, stolen, block, outbox'.records)
      /\ outbox' # NoOutbox => outbox'.records # <<>> /\ outbox'.sender \in Sender
      /\ nonces' \in [Sender -> 0..MostNonce]
      /\ outbox' = NoOutbox <=> rest = <<>>
  <2>1. CASE rest # <<>>
    <3>1. outbox' = [outbox EXCEPT !.records = rest] /\ nonces' = nonces
      BY <1>1, <2>1
    <3>2. outbox' \in Outboxes(Known) /\ outbox'.records = rest /\ outbox'.sender = outbox.sender
      BY <1>7, <3>1, Parts DEF Outboxes
    <3>3. NoOutbox.records = <<>>
      BY DEF NoOutbox
    <3> QED BY <1>3, <1>7, <2>1, <3>1, <3>2, <3>3, Parts
  <2>2. CASE rest = <<>>
    <3>1. /\ outbox' = NoOutbox
          /\ nonces' = IF outbox.nonce = -1 THEN nonces ELSE [nonces EXCEPT ![outbox.sender] = outbox.nonce]
      BY <1>1, <2>2
    <3>2. NoOutbox \in Outboxes(Known) /\ BackedAll(tx, fate, stolen, block, NoOutbox.records)
      <4>1. -1 \in -1..MostNonce /\ 0 \in -1..MostNonce
        BY MostIsNat
      <4>2. <<>> \in Seq(ArmedRecord(Known)) /\ Len(<<>>) = 0
        OBVIOUS
      <4> QED BY <4>1, <4>2 DEF NoOutbox, Outboxes, BackedAll
    <3>3. outbox.nonce # -1 => outbox.nonce \in 0..MostNonce
      BY Parts, MostIsNat DEF Outboxes
    <3>4. nonces' \in [Sender -> 0..MostNonce]
      BY <1>3, <3>1, <3>3, Parts
    <3> QED BY <2>2, <3>1, <3>2, <3>4
  <2> QED BY <2>1, <2>2
<1> DEFINE Kept4 == UNCHANGED <<ready, turn, line, head>> /\ (turn = "line" => rest # <<>>)
           Line4 == rest = <<>> /\ turn = "line" /\ LineDone /\ UNCHANGED <<head, ready>>
           Head4 == rest = <<>> /\ turn = "head" /\ HeadDone /\ UNCHANGED line
<1>9. Kept4 \/ Line4 \/ Head4
  BY <1>1, <1>3
<1>10. /\ line' \in Lines(day) /\ head' \in Heads(day) /\ ready' \in BOOLEAN /\ turn' \in {"free", "line", "head"}
       /\ head'.pc = "read" => head.pc = "read" /\ head' = head
       /\ TurnInv'
  <2>1. CASE Kept4
    <3>1. ready' = ready /\ turn' = turn /\ line' = line /\ head' = head
      BY <2>1
    <3>2. turn = "line" => outbox' # NoOutbox
      BY <1>8, <2>1
    <3>3. TurnInv'
      BY <1>1, <1>2, <1>3, <1>8, <3>1, <3>2, Parts DEF TurnInv
    <3> QED BY <3>1, <3>3, Parts
  <2>2. CASE Line4
    <3>1. /\ line' = [NoLine EXCEPT !.now = line.now] /\ turn' = "free" /\ head' = head /\ ready' = ready
          /\ outbox' = NoOutbox
      BY <1>8, <2>2 DEF LineDone
    <3>2. line' \in Lines(day) /\ line'.pc = "none"
      BY <3>1, Parts, LineOver
    <3>3. TurnInv'
      BY <1>1, <1>2, <1>3, <3>1, <3>2, Parts DEF TurnInv
    <3> QED BY <3>1, <3>2, <3>3, Parts
  <2>3. CASE Head4
    <3>1. /\ head' = NoHead /\ turn' = "free" /\ line' = line /\ ready' = (ready \/ mem'.pending = {})
          /\ outbox' = NoOutbox /\ line.pc = "none"
      BY <1>3, <1>8, <2>3 DEF HeadDone
    <3>2. head' \in Heads(day) /\ head'.pc = "none" /\ head'.reads = {} /\ ready' \in BOOLEAN
      BY <3>1, Parts, HeadOver
    <3>3. TurnInv'
      BY <1>1, <1>2, <1>3, <3>1, <3>2, Parts DEF TurnInv
    <3> QED BY <3>1, <3>2, <3>3, Parts
  <2> HIDE DEF Kept4, Line4, Head4
  <2> QED BY <1>9, <2>1, <2>2, <2>3
<1>11. TypeInv'
  <2>1. WorldOK'
    <3>1. Cardinality(stolen) \in Nat
      BY Parts, FS_CardinalityType DEF IsChain
    <3>2. Cardinality(stolen) <= mishaps' /\ block \in 1..MaxBlock /\ IsChain(tx, fate, stolen)
      BY <1>6, <3>1, Parts DEF WorldOK
    <3> QED BY <1>2, <1>6, <3>2 DEF WorldOK
  <2> QED BY <1>1, <1>2, <1>6, <1>8, <1>10, <2>1, Parts DEF TypeInv
<1>12. RecordsInv'
  BY <1>2, <1>6, <1>8 DEF RecordsInv
<1>13. HeadInv'
  BY <1>2, <1>10, HeadKept, Parts
<1> QED BY <1>2, <1>6, <1>10, <1>11, <1>12, <1>13 DEF ArmedInv

\* A transaction whose nonce a record settles is past.
LEMMA SettledPassed ==
  ASSUME NEW x, NEW f, NEW z, IsChain(x, f, z), NEW b \in Nat, History(x, f, z, b),
         NEW l \in Seq(ArmedRecord(1..Len(x))), BackedAll(x, f, z, b, l),
         NEW t \in 1..Len(x), SettledBy(x, l, t)
  PROVE  Passed(x, f, z, b, t)
<1>1. PICK i \in 1..Len(l) : /\ l[i].kind \in LossKind
                             /\ x[l[i].tx].sender = x[t].sender /\ x[l[i].tx].nonce = x[t].nonce
  BY DEF SettledBy
<1>2. l[i] \in ArmedRecord(1..Len(x)) /\ Backed(x, f, z, b, l[i])
  BY DEF BackedAll
<1>3. l[i].tx \in 1..Len(x)
  BY <1>1, <1>2, RecordKinds
<1>4. Passed(x, f, z, b, l[i].tx)
  <2>1. CASE l[i].kind = "landed"
    <3>1. f[l[i].tx].is = "landed"
      BY <1>2, <2>1 DEF Backed
    <3> QED BY <1>3, <3>1, LandedBy
  <2>2. CASE l[i].kind = "abandoned"
    BY <1>2, <2>2 DEF Backed
  <2> QED BY <1>1, <2>1, <2>2 DEF LossKind
<1> QED BY <1>1, <1>4 DEF Passed

\* What the ledger has settled is past, so a boot misses nothing.
LEMMA NoneLostMissing ==
  ASSUME NEW x, NEW f, NEW z, IsChain(x, f, z), NEW b \in Nat, History(x, f, z, b),
         NEW l \in Seq(ArmedRecord(1..Len(x))), BackedAll(x, f, z, b, l),
         NEW P, NoneLost(x, f, b, l, P)
  PROVE  NoneMissing(x, f, z, b, P)
BY SettledPassed DEF NoneLost, NoneMissing

\* Of the ledger's records, those that say what was lost stay in k.
LEMMA NoneLostIn ==
  ASSUME NEW x, NEW f, NEW b, Len(x) \in Nat, NEW l \in Seq(ArmedRecord(1..Len(x))), NEW k,
         \A i \in 1..Len(l) : l[i].kind \in LossKind => \E j \in 1..Len(k) : k[j] = l[i],
         NEW P, NEW Q, P \subseteq Q, NoneLost(x, f, b, l, P)
  PROVE  NoneLost(x, f, b, k, Q)
<1>1. \A t \in 1..Len(x) : SettledBy(x, l, t) => SettledBy(x, k, t)
  BY SettledStays
<1> QED BY <1>1 DEF NoneLost

\* Records of a ledger whose records are true.
LEMMA BackedIn ==
  ASSUME NEW x, NEW f, NEW z, NEW b, NEW l, NEW k, BackedAll(x, f, z, b, l),
         \A j \in 1..Len(k) : \E i \in 1..Len(l) : k[j] = l[i]
  PROVE  BackedAll(x, f, z, b, k)
BY DEF BackedAll

\* No worker, and nothing in hand.
LEMMA Stopped ==
  ASSUME NEW d \in Nat
  PROVE  /\ NewState(0) \in States(Known) /\ NewState(0).day = 0
         /\ [s \in Sender |-> 0] \in [Sender -> 0..MostNonce]
         /\ NoLine \in Lines(d) /\ NoLine.pc = "none" /\ NoHead \in Heads(d) /\ NoHead.pc = "none" /\ NoHead.reads = {}
         /\ NoOutbox \in Outboxes(Known) /\ NoOutbox.records = <<>>
<1>1. MostNonce \in Nat
  BY MostIsNat
<1>2. NoLine \in Lines(d) /\ NoLine.pc = "none"
  BY DEF NoLine, Lines
<1>3. NoOutbox \in Outboxes(Known) /\ NoOutbox.records = <<>>
  <2>1. <<>> \in Seq(ArmedRecord(Known)) /\ 0 \in -1..MostNonce
    BY <1>1
  <2> QED BY <2>1 DEF NoOutbox, Outboxes
<1>4. [s \in Sender |-> 0] \in [Sender -> 0..MostNonce]
  BY <1>1
<1>5. NewState(0) \in States(Known) /\ NewState(0).day = 0
  BY NewStateIs
<1>6. NoHead \in Heads(d) /\ NoHead.pc = "none" /\ NoHead.reads = {}
  BY DEF NoHead, Heads
<1> QED BY <1>2, <1>3, <1>4, <1>5, <1>6

\* A death, and the records append had not synced.
LEMMA CrashKeeps ==
  ASSUME ArmedInv, Crash
  PROVE  ArmedInv'
<1>1. PICK n \in 0..Len(ledger) :
        /\ \A i \in (n + 1)..Len(ledger) : ~Critical(ledger[i])
        /\ Idle(SubSeq(ledger, 1, n))
        /\ excused' = (excused \/ \E i \in (n + 1)..Len(ledger) : ledger[i] = Reset)
  BY DEF Crash
<1> DEFINE l == ledger
           k == SubSeq(ledger, 1, n)
<1>2. /\ up' = FALSE /\ mishaps' = mishaps /\ UNCHANGED chainVars
      /\ mem' = NewState(0) /\ nonces' = [s \in Sender |-> 0] /\ ready' = FALSE
      /\ turn' = "free" /\ line' = NoLine /\ head' = NoHead /\ outbox' = NoOutbox /\ ledger' = k
  BY <1>1 DEF Crash, Idle
<1>3. excused' \in BOOLEAN
  BY <1>1, Parts
<1>4. /\ ChainInv' /\ Known' = Known /\ day' = day
      /\ tx' = tx /\ fate' = fate /\ stolen' = stolen /\ block' = block
  BY <1>2, Parts, Stays
<1>5. /\ l \in Seq(ArmedRecord(Known)) /\ Len(l) \in Nat /\ n \in Nat /\ n <= Len(l)
      /\ k \in Seq(ArmedRecord(Known)) /\ Len(k) = n /\ \A i \in 1..n : k[i] = l[i]
  BY Parts
<1>6. Dropped(l, n)
  BY <1>1 DEF Dropped, Critical
<1>7. \A j \in 1..Len(k) : \E i \in 1..Len(l) : k[j] = l[i]
  <2> HIDE DEF k, l
  <2>1. \A j \in 1..Len(k) : j \in 1..Len(l) /\ k[j] = l[j]
    BY <1>5
  <2> QED BY <2>1
<1>8. \A i \in 1..Len(l) : l[i].kind \in LossKind => \E j \in 1..Len(k) : k[j] = l[i]
  <2> HIDE DEF k, l
  <2>1. \A i \in 1..Len(l) : l[i].kind \in LossKind => i \in 1..n
    BY <1>5, <1>6 DEF Dropped, LossKind
  <2> QED BY <1>5, <2>1
<1>9. Disk.pending \subseteq Disk'.pending
  <2>1. Disk = After(tx, l, day) /\ Disk' = After(tx, k, day)
    BY <1>2, <1>4, DiskIs DEF Disk
  <2> QED BY <1>5, <1>6, <2>1, Parts, AfterDrop
<1>10. NoneLost(tx', fate', block', ledger', Disk'.pending)
  <2> DEFINE P == Disk.pending
             Q == Disk'.pending
  <2>1. NoneLost(tx, fate, block, l, P)
    BY Parts DEF PendingInv
  <2>2. Len(tx) \in Nat /\ l \in Seq(ArmedRecord(1..Len(tx))) /\ P \subseteq Q
    BY <1>9, Parts DEF Known
  <2> HIDE DEF P, Q, k, l
  <2>3. NoneLost(tx, fate, block, k, Q)
    BY <1>8, <2>1, <2>2, NoneLostIn
  <2> QED BY <1>2, <1>4, <2>3 DEF Q
<1>11. BackedAll(tx, fate, stolen, block, k) /\ BackedAll(tx, fate, stolen, block, <<>>)
  <2>1. BackedAll(tx, fate, stolen, block, l)
    BY Parts DEF RecordsInv
  <2> HIDE DEF k, l
  <2> QED BY <1>7, <2>1, BackedIn DEF BackedAll
<1>12. TypeInv'
  <2>1. WorldOK'
    BY <1>2, <1>4, Parts DEF WorldOK
  <2>2. mem' \in States(Known) /\ mem'.day <= day
    BY <1>2, Parts, Stopped
  <2> HIDE DEF k
  <2> QED BY <1>2, <1>3, <1>4, <1>5, <2>1, <2>2, Parts, Stopped DEF TypeInv
<1>13. TurnInv'
  BY <1>2, Parts, Stopped DEF TurnInv
<1>14. RecordsInv'
  <2> HIDE DEF k
  <2> QED BY <1>2, <1>4, <1>11, Stopped, Parts DEF RecordsInv
<1>15. HeadInv'
  BY <1>2, Parts, Stopped DEF HeadInv
<1>16. PendingInv'
  BY <1>2, <1>10 DEF PendingInv
<1> QED BY <1>4, <1>12, <1>13, <1>14, <1>15, <1>16 DEF ArmedInv

\* The operator's reset.
LEMMA ResetKeeps ==
  ASSUME ArmedInv, OperatorReset
  PROVE  ArmedInv'
<1>1. /\ up = FALSE /\ up' = FALSE /\ ledger' = Append(ledger, Reset) /\ excused' \in BOOLEAN
      /\ mishaps' = mishaps /\ UNCHANGED chainVars
      /\ mem' = mem /\ nonces' = nonces /\ ready' = ready /\ turn' = turn /\ line' = line /\ head' = head
      /\ outbox' = outbox
  BY Parts DEF OperatorReset, workerVars
<1>2. /\ Grows /\ ChainInv' /\ Known' = Known /\ day' = day
      /\ tx' = tx /\ fate' = fate /\ stolen' = stolen /\ block' = block
  BY <1>1, Parts, Stays
<1>3. Reset \in ArmedRecord(Known) /\ Reset.kind = "reset"
  BY RecordsAre DEF Reset
<1>4. Backed(tx, fate, stolen, block, Reset)
  BY <1>3 DEF Backed
<1> DEFINE r == Reset
           k == Append(ledger, r)
<1>5. k \in Seq(ArmedRecord(Known)) /\ BackedAll(tx, fate, stolen, block, k)
  <2>1. BackedAll(tx, fate, stolen, block, ledger)
    BY Parts DEF RecordsInv
  <2> HIDE DEF r
  <2> QED BY <1>3, <1>4, <2>1, Parts, BackedAppend DEF r
<1>6. NoneLost(tx', fate', block', ledger', Disk'.pending)
  <2>1. Disk = After(tx, ledger, day) /\ Disk' = After(tx, k, day)
    BY <1>1, <1>2, DiskIs DEF Disk
  <2>2. Disk \in States(Known)
    BY <2>1, Parts, AfterType
  <2>3. Disk' = Take(tx, Disk, r)
    BY <1>3, <2>1, Parts, AfterAppend
  <2>4. Disk'.pending = Left(tx, Disk.pending, r)
    BY <1>3, <2>2, <2>3, TakeShape
  <2>5. Left(tx, Disk.pending, r) = Disk.pending
    BY <1>3 DEF Left, LossKind
  <2> DEFINE P == Disk.pending
  <2>6. NoneLost(tx, fate, block, ledger, P)
    BY Parts DEF PendingInv
  <2>7. \A i \in 1..Len(ledger) : \E j \in 1..Len(k) : k[j] = ledger[i]
    <3>1. Len(k) = Len(ledger) + 1 /\ \A i \in 1..Len(ledger) : i \in 1..Len(k) /\ k[i] = ledger[i]
      BY Parts
    <3> HIDE DEF k
    <3> QED BY <3>1
  <2>8. ledger \in Seq(ArmedRecord(1..Len(tx)))
    BY Parts DEF Known
  <2> HIDE DEF P, k
  <2>9. NoneLost(tx, fate, block, k, P)
    BY <2>6, <2>7, <2>8, Parts, NoneLostIn
  <2> QED BY <1>1, <1>2, <2>4, <2>5, <2>9 DEF P, k
<1> HIDE DEF k, r
<1>7. TypeInv'
  <2>1. WorldOK'
    BY <1>1, <1>2, Parts DEF WorldOK
  <2>2. ledger' \in Seq(ArmedRecord(Known))
    BY <1>1, <1>5 DEF k, r
  <2> QED BY <1>1, <1>2, <2>1, <2>2, Parts DEF TypeInv
<1>8. TurnInv'
  BY <1>1, <1>2, Parts DEF TurnInv
<1>9. RecordsInv'
  BY <1>1, <1>2, <1>5, Parts DEF RecordsInv, k, r
<1>10. HeadInv'
  BY <1>1, <1>2, HeadKept, Parts
<1>11. PendingInv'
  BY <1>1, <1>6 DEF PendingInv
<1> QED BY <1>2, <1>7, <1>8, <1>9, <1>10, <1>11 DEF ArmedInv

\* What a boot starts from: the ledger, or a compaction that replays the same.
LEMMA BootFrom ==
  ASSUME ArmedInv, NEW l, l = ledger \/ (l = Compacted /\ SameReplay(l, ledger))
  PROVE  /\ l \in Seq(ArmedRecord(Known)) /\ BackedAll(tx, fate, stolen, block, l)
         /\ Replay(l, day) \in States(Known) /\ Replay(l, day).day = day
         /\ NoneLost(tx, fate, block, l, Replay(l, day).pending)
<1>1. /\ ledger \in Seq(ArmedRecord(Known)) /\ Len(tx) \in Nat /\ day \in Nat
      /\ ledger \in Seq(ArmedRecord(1..Len(tx)))
      /\ BackedAll(tx, fate, stolen, block, ledger)
  BY Parts DEF RecordsInv, Known
<1>2. NoneLost(tx, fate, block, ledger, Replay(ledger, day).pending)
  BY Parts DEF PendingInv, Disk
<1>3. Replay(ledger, day) \in States(Known) /\ Replay(ledger, day).day = day
  <2>1. Replay(ledger, day) = After(tx, ledger, day)
    BY DiskIs
  <2> QED BY <1>1, <2>1, AfterType, AfterDays
<1>4. CASE l = ledger
  BY <1>1, <1>2, <1>3, <1>4
<1>5. CASE l = Compacted /\ SameReplay(l, ledger)
  <2> DEFINE K == Kept(ledger)
             P == Replay(ledger, day).pending
  <2>1. l = CompactedOf(ledger, K)
    BY <1>5, CompactedIsOf
  <2>2. \A i \in 1..Len(ledger) : ledger[i].kind \in LossKind => i \in K
    BY DEF Kept, LossKind
  <2>3. Replay(l, day) = Replay(ledger, day)
    BY <1>5 DEF SameReplay
  <2> HIDE DEF K, P
  <2>4. /\ l \in Seq(ArmedRecord(Known))
        /\ \A j \in 1..Len(l) : \E i \in 1..Len(ledger) : l[j] = ledger[i]
        /\ \A i \in (1..Len(ledger)) \cap K : \E j \in 1..Len(l) : l[j] = ledger[i]
    <3> DEFINE R == ArmedRecord(Known)
               m == ledger
    <3>1. m \in Seq(R)
      BY <1>1
    <3> HIDE DEF R, m
    <3>2. LET k == CompactedOf(m, K) IN
          /\ k \in Seq(R)
          /\ \A j \in 1..Len(k) : \E i \in 1..Len(m) : k[j] = m[i]
          /\ \A i \in (1..Len(m)) \cap K : \E j \in 1..Len(k) : k[j] = m[i]
      BY <3>1, CompactedRecords
    <3> QED BY <2>1, <3>2 DEF R, m
  <2>5. \A i \in 1..Len(ledger) : ledger[i].kind \in LossKind => \E j \in 1..Len(l) : l[j] = ledger[i]
    BY <2>2, <2>4
  <2>6. NoneLost(tx, fate, block, ledger, P)
    BY <1>2 DEF P
  <2>7. NoneLost(tx, fate, block, l, P)
    BY <1>1, <2>5, <2>6, NoneLostIn
  <2>8. BackedAll(tx, fate, stolen, block, l)
    BY <1>1, <2>4, BackedIn
  <2> QED BY <1>3, <2>3, <2>4, <2>7, <2>8 DEF P
<1> QED BY <1>4, <1>5

\* A tripwire at its end changes nothing of what is pending.
LEMMA TripAppended ==
  ASSUME ArmedInv, NEW l \in Seq(ArmedRecord(Known)), BackedAll(tx, fate, stolen, block, l),
         NoneLost(tx, fate, block, l, After(tx, l, day).pending),
         NEW k, k \in {l, Append(l, Tripwire)}
  PROVE  /\ k \in Seq(ArmedRecord(Known)) /\ BackedAll(tx, fate, stolen, block, k)
         /\ NoneLost(tx, fate, block, k, After(tx, k, day).pending)
<1>1. CASE k = l
  BY <1>1
<1>2. CASE k = Append(l, Tripwire)
  <2> DEFINE r == Tripwire
             P == After(tx, l, day).pending
  <2>1. r \in ArmedRecord(Known) /\ r.kind = "tripwire"
    BY RecordsAre DEF Tripwire
  <2>2. Backed(tx, fate, stolen, block, r)
    BY <2>1 DEF Backed
  <2>3. /\ After(tx, l, day) \in States(Known)
        /\ After(tx, Append(l, r), day) = Take(tx, After(tx, l, day), r)
    <3> HIDE DEF r
    <3> QED BY <2>1, Parts, AfterType, AfterAppend
  <2>4. Take(tx, After(tx, l, day), r).pending = Left(tx, P, r)
    <3> HIDE DEF r
    <3> QED BY <2>1, <2>3, TakeShape
  <2>5. Left(tx, P, r) = P
    BY <2>1 DEF Left, LossKind
  <2>6. NoneLost(tx, fate, block, l, P) /\ k = Append(l, r)
    BY <1>2
  <2> HIDE DEF r, P
  <2>7. k \in Seq(ArmedRecord(Known)) /\ BackedAll(tx, fate, stolen, block, k)
    BY <2>1, <2>2, <2>6, BackedAppend
  <2>8. \A i \in 1..Len(l) : \E j \in 1..Len(k) : k[j] = l[i]
    <3>1. Len(k) = Len(l) + 1 /\ \A i \in 1..Len(l) : i \in 1..Len(k) /\ k[i] = l[i]
      BY <2>1, <2>6
    <3> QED BY <3>1
  <2>9. l \in Seq(ArmedRecord(1..Len(tx))) /\ Len(tx) \in Nat
    BY Parts DEF Known
  <2>10. NoneLost(tx, fate, block, k, P)
    BY <2>6, <2>8, <2>9, NoneLostIn
  <2> QED BY <2>3, <2>4, <2>5, <2>6, <2>7, <2>10
<1> QED BY <1>1, <1>2

\* A boot, of the ledger or of its compaction.
LEMMA BeginKeeps ==
  ASSUME ArmedInv, NEW l, NEW b \in 0..block, Begin(l, b)
  PROVE  ArmedInv'
<1> DEFINE read == [s \in Sender |-> NonceAt(s, b)]
           state == Replay(l, day)
           trips == Surprised(l, read) # {}
<1>1. /\ ~up /\ up' = TRUE
      /\ l = ledger \/ (l = Compacted /\ SameReplay(l, ledger))
      /\ nonces' = read /\ mem' = [state EXCEPT !.trip = @ \/ trips]
      /\ ledger' = IF trips THEN Append(l, Tripwire) ELSE l
      /\ ready' = (state.pending = {})
      /\ excused' = (excused \/ \E s \in Sender : read[s] # Nonce(s))
      /\ mishaps' = mishaps /\ UNCHANGED chainVars
      /\ turn' = turn /\ line' = line /\ head' = head /\ outbox' = outbox
  BY DEF Begin
<1>2. /\ Grows /\ ChainInv' /\ Known' = Known /\ day' = day
      /\ tx' = tx /\ fate' = fate /\ stolen' = stolen /\ block' = block
  BY <1>1, Parts, Stays
<1>3. /\ l \in Seq(ArmedRecord(Known)) /\ BackedAll(tx, fate, stolen, block, l)
      /\ state \in States(Known) /\ state.day = day
      /\ NoneLost(tx, fate, block, l, state.pending)
  BY <1>1, BootFrom
<1>4. state = After(tx, l, day)
  BY ReplayIs
<1>5. ledger' \in {l, Append(l, Tripwire)}
  BY <1>1
<1> HIDE DEF state, trips
<1>6. /\ ledger' \in Seq(ArmedRecord(Known)) /\ BackedAll(tx, fate, stolen, block, ledger')
      /\ NoneLost(tx, fate, block, ledger', After(tx, ledger', day).pending)
  BY <1>3, <1>4, <1>5, TripAppended
<1>7. mem' \in States(Known) /\ mem'.pending = state.pending /\ mem'.day = day
  BY <1>1, <1>3 DEF States
<1>8. nonces' \in [Sender -> 0..MostNonce]
  <2>1. \A s \in Sender : NonceAt(s, b) \in 0..MostNonce
    <3> SUFFICES ASSUME NEW s \in Sender PROVE NonceAt(s, b) \in 0..MostNonce
      OBVIOUS
    <3>1. b + 1 \in Int /\ (b + 1) - 1 = b
      BY Parts
    <3> DEFINE h == b + 1
               r == ReadOf(s, h)
    <3>2. r \in Reading
      <4> HIDE DEF r
      <4> QED BY <3>1, ReadOfIs DEF r
    <3>3. r.nonce = NonceAt(s, b)
      BY <3>1 DEF ReadOf
    <3> HIDE DEF r
    <3> QED BY <3>2, <3>3 DEF Reading
  <2> QED BY <1>1, <2>1
<1>9. TypeInv'
  <2>1. WorldOK'
    BY <1>1, <1>2, Parts DEF WorldOK
  <2>2. ready' \in BOOLEAN /\ excused' \in BOOLEAN
    BY <1>1, Parts
  <2> HIDE DEF read
  <2> QED BY <1>1, <1>2, <1>6, <1>7, <1>8, <2>1, <2>2, Parts DEF TypeInv
<1> HIDE DEF read
<1>10. TurnInv'
  BY <1>1, <1>2, Parts DEF TurnInv
<1>11. RecordsInv'
  BY <1>1, <1>2, <1>6, Parts DEF RecordsInv
<1>12. HeadInv'
  BY <1>1, <1>2, HeadKept, Parts
<1>13. PendingInv'
  <2>1. Disk' = After(tx, ledger', day)
    BY <1>2, DiskIs DEF Disk
  <2>2. NoneMissing(tx, fate, stolen, block, state.pending)
    <3> DEFINE P == state.pending
    <3>1. l \in Seq(ArmedRecord(1..Len(tx))) /\ NoneLost(tx, fate, block, l, P)
      BY <1>3 DEF Known
    <3> HIDE DEF P
    <3>2. NoneMissing(tx, fate, stolen, block, P)
      BY <1>3, <3>1, Parts, NoneLostMissing
    <3> QED BY <3>2 DEF P
  <2>3. NoneMissing(tx', fate', stolen', block', mem'.pending)
    BY <1>2, <1>7, <2>2
  <2>4. NoneLost(tx', fate', block', ledger', Disk'.pending)
    BY <1>2, <1>6, <2>1
  <2> QED BY <2>3, <2>4 DEF PendingInv
<1> QED BY <1>2, <1>9, <1>10, <1>11, <1>12, <1>13 DEF ArmedInv

\* The invariant holds at the start.
LEMMA InitArmed == ASSUME Init PROVE ArmedInv
<1>1. /\ ledger = <<>> /\ mem = NewState(0) /\ nonces = [s \in Sender |-> 0]
      /\ ready = FALSE /\ turn = "free" /\ line = NoLine /\ head = NoHead /\ outbox = NoOutbox
      /\ up = FALSE /\ tx = <<>> /\ fate = [t \in Tx |-> [is |-> "none", block |-> 0, day |-> 0, loss |-> 0]]
      /\ block = 1 /\ stolen = {} /\ excused = FALSE /\ mishaps = 0
  BY DEF Init
<1>2. block \in Nat /\ block \in 1..MaxBlock /\ mishaps \in 0..MaxMishaps
  BY <1>1, ArmedAssumption
<1>3. day \in Nat
  <2>1. DayBlocks \in Nat \ {0} /\ 1 \in Nat
    BY ArmedAssumption
  <2>2. 1 \div DayBlocks \in Nat
    BY <2>1, DivMono
  <2> QED BY <1>1, <2>2 DEF day
<1>4. tx \in Seq(Txn) /\ Len(tx) = 0 /\ Len(tx) <= MaxTx
  BY <1>1, ArmedAssumption
<1>5. fate \in [Tx -> Fates]
  BY <1>1 DEF Fates
<1>6. IsFiniteSet(stolen) /\ Cardinality(stolen) = 0 /\ stolen \subseteq Theft
  BY <1>1, FS_EmptySet
<1>7. IsChain(tx, fate, stolen)
  BY <1>4, <1>5, <1>6 DEF IsChain
<1>8. WorldOK
  BY <1>1, <1>2, <1>6, <1>7 DEF WorldOK
<1>9. ledger \in Seq(ArmedRecord(Known)) /\ Len(ledger) = 0
  BY <1>1
<1>10. TypeInv
  <2>1. mem.day <= day /\ mem \in States(Known)
    BY <1>1, <1>3, Stopped
  <2> QED BY <1>1, <1>3, <1>8, <1>9, <2>1, Stopped DEF TypeInv
<1>11. TurnInv
  BY <1>1, <1>3, Stopped DEF TurnInv
<1>12. ChainInv
  <2>1. \A t \in Tx : fate[t].is = "none"
    BY <1>1
  <2>2. \A t : t \notin 1..Len(tx)
    BY <1>4
  <2> QED BY <1>1, <2>1, <2>2 DEF ChainInv, History
<1>13. RecordsInv
  <2>1. BackedAll(tx, fate, stolen, block, <<>>)
    BY DEF BackedAll
  <2> QED BY <1>1, <1>3, <2>1, Stopped DEF RecordsInv
<1>14. HeadInv
  BY <1>1, <1>3, Stopped DEF HeadInv
<1>15. PendingInv
  <2>1. \A t : t \notin 1..Len(tx)
    BY <1>4
  <2> QED BY <1>1, <2>1 DEF PendingInv, NoneLost
<1> QED BY <1>10, <1>11, <1>12, <1>13, <1>14, <1>15 DEF ArmedInv

\* Nothing happens.
LEMMA IdleKeeps == ASSUME ArmedInv, UNCHANGED vars PROVE ArmedInv'
<1>1. /\ ledger' = ledger /\ mem' = mem /\ nonces' = nonces /\ ready' = ready /\ turn' = turn
      /\ line' = line /\ head' = head /\ outbox' = outbox /\ up' = up
      /\ tx' = tx /\ fate' = fate /\ block' = block /\ stolen' = stolen /\ excused' = excused /\ mishaps' = mishaps
  BY DEF vars, workerVars, chainVars, faultVars
<1>2. UNCHANGED chainVars
  BY <1>1 DEF chainVars
<1>3. Grows /\ ChainInv' /\ Known' = Known /\ day' = day
  BY <1>2, Parts, Stays
<1>4. TypeInv'
  <2>1. WorldOK'
    BY <1>1, Parts DEF WorldOK
  <2> QED BY <1>1, <1>3, <2>1, Parts DEF TypeInv
<1>5. TurnInv' /\ RecordsInv' /\ HeadInv'
  BY <1>1, <1>3, Parts DEF TurnInv, RecordsInv, HeadInv
<1>6. PendingInv'
  BY <1>1, <1>3, QuietStep, Parts
<1> QED BY <1>3, <1>4, <1>5, <1>6 DEF ArmedInv

\* Every step keeps the invariant.
LEMMA NextKeeps == ASSUME ArmedInv, [Next]_vars PROVE ArmedInv'
<1>1. CASE UNCHANGED vars
  BY <1>1, IdleKeeps
<1>2. CASE ChainStep
  BY <1>2, ChainStepKeeps
<1>3. CASE LineStep
  <2>1. CASE \E s \in Sender, w \in Worst, now \in {day - 1, day} \cap Nat, back \in 0..Lag, win \in 1..Window :
               Submit(s, block - back + win, w, now, block - back)
    BY <2>1, SubmitKeeps
  <2>2. CASE \E why \in {"low", "underpriced", "other"} : RefusedFor(why)
    BY <2>2, RefusedKeeps
  <2>3. CASE \E w \in Worst : Bump(w)
    BY <2>3, BumpKeeps
  <2> QED BY <1>3, <2>1, <2>2, <2>3, AnsweredKeeps, LandingCheckKeeps, GivesUpKeeps DEF LineStep
<1>4. CASE HeadStep
  <2>1. CASE \E asked \in SUBSET Due(block) : \E blind \in SUBSET asked : HeadReads(block, asked, blind)
    BY <2>1, HeadReadsKeeps
  <2>2. CASE \E r \in head.reads : HeadSettles(r)
    BY <2>2, HeadSettlesKeeps
  <2> QED BY <1>4, <2>1, <2>2 DEF HeadStep
<1>5. CASE Write
  BY <1>5, WriteKeeps
<1>6. CASE Crash
  BY <1>6, CrashKeeps
<1>7. CASE OperatorReset
  BY <1>7, ResetKeeps
<1>8. CASE Restart
  BY <1>8, BeginKeeps DEF Restart
<1> QED BY <1>1, <1>2, <1>3, <1>4, <1>5, <1>6, <1>7, <1>8 DEF Next

\* The inductive invariant: the chain, the memory, the ledger and the work in
\* hand agree in every state of the worker, its deaths and its boots.
THEOREM ArmedInvariant == Spec => []ArmedInv
<1>1. Init => ArmedInv
  BY InitArmed
<1>2. ArmedInv /\ [Next]_vars => ArmedInv'
  BY NextKeeps
<1> QED BY <1>1, <1>2, PTL DEF Spec

\* Mutated state keeps its shape.
THEOREM ArmedTypeOK == Spec => []TypeOK
<1>1. ArmedInv => TypeOK
  <2> SUFFICES ASSUME ArmedInv PROVE TypeOK
    OBVIOUS
  <2>1. mem.pending \subseteq 1..Len(tx) /\ mem.lost \in Nat /\ mem.day \in Nat /\ mem.day <= day
    BY Parts DEF Known, States
  <2>2. mem.day \in 0..(MaxBlock \div DayBlocks)
    <3>1. DayBlocks \in Nat \ {0} /\ MaxBlock \in Nat
      BY ArmedAssumption
    <3>2. block \in Nat /\ block <= MaxBlock
      BY Parts, <3>1 DEF WorldOK
    <3>3. block \div DayBlocks <= MaxBlock \div DayBlocks /\ MaxBlock \div DayBlocks \in Nat
      BY <3>1, <3>2, DivMono
    <3> DEFINE m == MaxBlock \div DayBlocks
    <3>4. day <= m /\ m \in Nat /\ day \in Nat
      BY <3>3, Parts DEF day
    <3> HIDE DEF m
    <3>5. mem.day \in 0..m
      BY <2>1, <3>4
    <3> QED BY <3>5 DEF m
  <2>3. nonces \in [Sender -> 0..(MaxTx + MaxMishaps)]
    BY Parts DEF MostNonce
  <2>4. ((turn = "line") <=> (line.pc # "none")) /\ (turn = "free" => outbox = NoOutbox)
    BY Parts DEF TurnInv
  <2>5. ASSUME NEW i \in 1..Len(ledger), "tx" \in DOMAIN ledger[i]
        PROVE  ledger[i].tx \in 1..Len(tx)
    <3>1. ledger[i] \in ArmedRecord(Known)
      BY Parts
    <3>2. ledger[i] \in PlainRecord(Known) \cup LossRecord(Known)
      BY <2>5, <3>1 DEF ArmedRecord, CapRecord, Tripwire, Reset
    <3> QED BY <3>2 DEF PlainRecord, LossRecord, Known
  <2> QED BY <2>1, <2>2, <2>3, <2>4, <2>5 DEF TypeOK
<1> QED BY <1>1, ArmedInvariant, PTL

\* A transaction the ledger calls expired never lands afterwards, and one it
\* calls landed did: no loss goes uncounted (settle, land and the bound check).
THEOREM ArmedExpiredIsDead == Spec => []ExpiredIsDead
<1>1. ArmedInv => ExpiredIsDead
  <2> SUFFICES ASSUME ArmedInv PROVE ExpiredIsDead
    OBVIOUS
  <2>1. BackedAll(tx, fate, stolen, block, ledger)
    BY Parts DEF RecordsInv
  <2> QED BY <2>1 DEF BackedAll, Backed, Lapsed, ExpiredIsDead
<1> QED BY <1>1, ArmedInvariant, PTL

\* What landed is pending in the ledger, for the next boot to settle, or
\* accounted for by a record of it: append syncs a submission before it is sent,
\* and drops no landing and no abandonment.
THEOREM ArmedAccountedFor == Spec => []AccountedFor
<1>1. ArmedInv => AccountedFor
  <2> SUFFICES ASSUME ArmedInv, NEW t \in 1..Len(tx), fate[t].is = "landed"
               PROVE  t \in Replay(ledger, day).pending \/ Settles(t) # {}
    BY DEF AccountedFor
  <2>1. t \in Disk.pending \/ SettledBy(tx, ledger, t) \/ Lapsed(tx, fate, block, t)
    BY Parts DEF PendingInv, NoneLost
  <2>2. SettledBy(tx, ledger, t) => Settles(t) # {}
    BY DEF SettledBy, Settles, Slot, LossKind
  <2> QED BY <2>1, <2>2 DEF Disk, Lapsed
<1> QED BY <1>1, ArmedInvariant, PTL

-----------------------------------------------------------------------------
(* What transactions can cost: one of each nonce's lands.                  *)

\* The nonces of some transactions, what each costs by its worst, and the sum.
Key(x, t) == <<x[t].sender, x[t].nonce>>
Keys(x, X) == {Key(x, t) : t \in X}
CostAt(x, X, k) == WorstOf(x, {t \in X : Key(x, t) = k})
CostFn(x, X, K) == [k \in K |-> CostAt(x, X, k)]
CostOver(x, X, K) == Sum(CostFn(x, X, K), K)
Cost(x, X) == CostOver(x, X, Keys(x, X))

\* The nonces of some transactions are finitely many.
LEMMA KeysFinite ==
  ASSUME NEW x, NEW f, NEW z, IsChain(x, f, z), NEW X, X \subseteq 1..Len(x)
  PROVE  IsFiniteSet(Keys(x, X))
<1> DEFINE g == [t \in X |-> Key(x, t)]
<1>1. IsFiniteSet(X)
  BY KnownFinite
<1>2. DOMAIN g = X /\ g = [t \in X |-> g[t]] /\ Keys(x, X) = {g[t] : t \in X}
  BY DEF Keys
<1> HIDE DEF g
<1> QED BY <1>1, <1>2, FiniteImage

\* A cost is a number, and a nonce's share of it is what the worst of its transactions costs.
LEMMA CostType ==
  ASSUME NEW x, NEW f, NEW z, IsChain(x, f, z), NEW X, X \subseteq 1..Len(x)
  PROVE  /\ \A k : CostAt(x, X, k) \in Nat
         /\ \A k : k \notin Keys(x, X) => CostAt(x, X, k) = 0
         /\ \A t \in X : x[t].worst <= CostAt(x, X, Key(x, t))
         /\ \A k : CostAt(x, X, k) # 0 => \E t \in X : Key(x, t) = k /\ CostAt(x, X, k) = x[t].worst
         /\ \A K : IsFiniteSet(K) => Summable(CostFn(x, X, K), K) /\ CostOver(x, X, K) \in Nat
         /\ Cost(x, X) \in Nat
<1>1. ASSUME NEW k
      PROVE  /\ CostAt(x, X, k) \in Nat
             /\ \A t \in X : Key(x, t) = k => x[t].worst <= CostAt(x, X, k)
             /\ CostAt(x, X, k) # 0 => \E t \in X : Key(x, t) = k /\ CostAt(x, X, k) = x[t].worst
  <2> DEFINE P == {t \in X : Key(x, t) = k}
  <2>1. P \subseteq 1..Len(x)
    OBVIOUS
  <2> HIDE DEF P
  <2>2. /\ WorstOf(x, P) \in Nat /\ \A t \in P : x[t].worst <= WorstOf(x, P)
        /\ WorstOf(x, P) # 0 => \E t \in P : x[t].worst = WorstOf(x, P)
    BY <2>1, WorstType
  <2>3. CostAt(x, X, k) = WorstOf(x, P)
    BY DEF CostAt, P
  <2> QED BY <2>2, <2>3 DEF P
<1>2. \A k : k \notin Keys(x, X) => CostAt(x, X, k) = 0
  BY <1>1 DEF Keys
<1>3. ASSUME NEW K, IsFiniteSet(K) PROVE Summable(CostFn(x, X, K), K) /\ CostOver(x, X, K) \in Nat
  <2>1. Summable(CostFn(x, X, K), K)
    BY <1>1, <1>3 DEF Summable, CostFn
  <2> QED BY <2>1, SumType DEF CostOver
<1>4. Cost(x, X) \in Nat
  BY <1>3, KeysFinite DEF Cost
<1> QED BY <1>1, <1>2, <1>3, <1>4

\* Over any nonces that are enough.
LEMMA CostKeys ==
  ASSUME NEW x, NEW f, NEW z, IsChain(x, f, z), NEW X, X \subseteq 1..Len(x),
         NEW K, IsFiniteSet(K), Keys(x, X) \subseteq K
  PROVE  CostOver(x, X, K) = Cost(x, X)
<1> DEFINE I == Keys(x, X)
           w == CostFn(x, X, K)
           v == CostFn(x, X, I)
<1>1. Summable(w, K) /\ IsFiniteSet(I)
  BY CostType, KeysFinite
<1>2. \A k \in K : w[k] = CostAt(x, X, k)
  BY DEF CostFn
<1>3. \A k \in I : v[k] = CostAt(x, X, k)
  BY DEF CostFn
<1>4. \A k \in K \ I : w[k] = 0
  BY <1>2, CostType
<1>5. I \in SUBSET K /\ \A k \in I : w[k] = v[k]
  BY <1>2, <1>3
<1> HIDE DEF I, w, v
<1>6. Sum(w, K) = Sum(w, I)
  BY <1>1, <1>4, <1>5, SumOutside
<1>7. Summable(w, I)
  BY <1>1, <1>5, SummableSubset
<1>8. Sum(w, I) = Sum(v, I)
  BY <1>5, <1>7, SumSame
<1> QED BY <1>6, <1>8 DEF CostOver, Cost, w, v, I

\* Fewer transactions cost no more.
LEMMA CostLess ==
  ASSUME NEW x, NEW f, NEW z, IsChain(x, f, z), NEW Y, Y \subseteq 1..Len(x), NEW X, X \subseteq Y
  PROVE  Cost(x, X) <= Cost(x, Y)
<1> DEFINE K == Keys(x, Y)
           w == CostFn(x, X, K)
           v == CostFn(x, Y, K)
<1>1. X \subseteq 1..Len(x) /\ Keys(x, X) \subseteq K /\ IsFiniteSet(K)
  BY KeysFinite DEF Keys
<1>2. Summable(w, K) /\ Summable(v, K)
  BY <1>1, CostType
<1>3. \A k \in K : w[k] <= v[k]
  <2> SUFFICES ASSUME NEW k \in K PROVE w[k] <= v[k]
    OBVIOUS
  <2> DEFINE a == CostAt(x, X, k)
             b == CostAt(x, Y, k)
  <2>1. w[k] = a /\ v[k] = b
    BY DEF CostFn
  <2>2. a \in Nat /\ (a # 0 => \E t \in X : Key(x, t) = k /\ a = x[t].worst)
    BY <1>1, CostType
  <2>3. b \in Nat /\ \A t \in Y : Key(x, t) = k => x[t].worst <= b
    BY CostType
  <2> HIDE DEF a, b
  <2> QED BY <2>1, <2>2, <2>3
<1> HIDE DEF K, w, v
<1>4. Sum(w, K) <= Sum(v, K)
  BY <1>2, <1>3, SumMonotone
<1>5. Cost(x, X) = Sum(w, K)
  BY <1>1, CostKeys DEF CostOver, w
<1> QED BY <1>4, <1>5 DEF Cost, CostOver, v, K

\* Two sets cost no more together than one by one.
LEMMA CostUnion ==
  ASSUME NEW x, NEW f, NEW z, IsChain(x, f, z), NEW X, X \subseteq 1..Len(x), NEW Y, Y \subseteq 1..Len(x),
         NEW V, V \subseteq X \cup Y
  PROVE  Cost(x, V) <= Cost(x, X) + Cost(x, Y)
<1> DEFINE A == X \cup Y
           K == Keys(x, A)
           w == CostFn(x, X, K)
           v == CostFn(x, Y, K)
           u == CostFn(x, V, K)
           y == [k \in K |-> w[k] + v[k]]
<1>1. /\ V \subseteq 1..Len(x) /\ A \subseteq 1..Len(x)
      /\ Keys(x, X) \subseteq K /\ Keys(x, Y) \subseteq K /\ Keys(x, V) \subseteq K
  BY DEF Keys
<1>2. IsFiniteSet(K)
  <2> HIDE DEF A
  <2> QED BY <1>1, KeysFinite
<1>3. Summable(w, K) /\ Summable(v, K) /\ Summable(u, K)
  <2> HIDE DEF K
  <2> QED BY <1>1, <1>2, CostType
<1>4. \A k \in K : u[k] <= y[k]
  <2> SUFFICES ASSUME NEW k \in K PROVE u[k] <= y[k]
    OBVIOUS
  <2> DEFINE a == CostAt(x, X, k)
             b == CostAt(x, Y, k)
             c == CostAt(x, V, k)
  <2>1. y[k] = a + b /\ u[k] = c
    <3> HIDE DEF K
    <3> QED BY DEF CostFn
  <2>2. a \in Nat /\ \A t \in X : Key(x, t) = k => x[t].worst <= a
    BY CostType
  <2>3. b \in Nat /\ \A t \in Y : Key(x, t) = k => x[t].worst <= b
    BY CostType
  <2>4. c \in Nat /\ (c # 0 => \E t \in V : Key(x, t) = k /\ c = x[t].worst)
    BY <1>1, CostType
  <2>5. c <= a + b
    <3> HIDE DEF a, b, c
    <3> QED BY <2>2, <2>3, <2>4
  <2> HIDE DEF a, b, c, y, u
  <2> QED BY <2>1, <2>5
<1>5. \A k \in K : y[k] = w[k] + v[k]
  OBVIOUS
<1> HIDE DEF A, K, w, v, u, y
<1>6. Summable(y, K) /\ Sum(y, K) = Sum(w, K) + Sum(v, K)
  BY <1>3, <1>5, SumPlus
<1>7. Sum(u, K) <= Sum(y, K)
  BY <1>3, <1>4, <1>6, SumMonotone
<1>8. Cost(x, X) = Sum(w, K) /\ Cost(x, Y) = Sum(v, K) /\ Cost(x, V) = Sum(u, K)
  BY <1>1, <1>2, CostKeys DEF CostOver, w, v, u
<1> QED BY <1>6, <1>7, <1>8

\* One more costs what it costs over the worst at its nonce.
LEMMA CostAdd ==
  ASSUME NEW x, NEW f, NEW z, IsChain(x, f, z), NEW X, X \subseteq 1..Len(x), NEW t \in 1..Len(x)
  PROVE  LET h == CostAt(x, X, Key(x, t))
             e == IF x[t].worst > h THEN x[t].worst - h ELSE 0 IN
         e \in Nat /\ Cost(x, X \cup {t}) <= Cost(x, X) + e
<1> DEFINE A == X \cup {t}
           q == Key(x, t)
           h == CostAt(x, X, q)
           e == IF x[t].worst > h THEN x[t].worst - h ELSE 0
           K == Keys(x, A)
           w == CostFn(x, X, K)
           v == [k \in K |-> IF k = q THEN e ELSE 0]
           u == CostFn(x, A, K)
           y == [k \in K |-> w[k] + v[k]]
<1>1. /\ A \subseteq 1..Len(x) /\ Keys(x, X) \subseteq K /\ q \in K
  BY DEF Keys
<1>2. IsFiniteSet(K)
  <2> HIDE DEF A
  <2> QED BY <1>1, KeysFinite
<1>3. Summable(w, K) /\ Summable(u, K)
  <2> HIDE DEF K
  <2> QED BY <1>1, <1>2, CostType
<1>0. h \in Nat /\ x[t].worst \in Nat
  BY CostType, TxOf
<1>e. e \in Nat /\ x[t].worst <= h + e
  <2> HIDE DEF h
  <2> QED BY <1>0
<1> HIDE DEF e
<1>4. Summable(v, K)
  <2> HIDE DEF K
  <2> QED BY <1>2, <1>e DEF Summable
<1>5. \A k \in K : u[k] <= y[k]
  <2> SUFFICES ASSUME NEW k \in K PROVE u[k] <= y[k]
    OBVIOUS
  <2> DEFINE a == CostAt(x, X, k)
             b == IF k = q THEN e ELSE 0
             c == CostAt(x, A, k)
  <2>1. y[k] = a + b /\ u[k] = c
    <3> HIDE DEF K
    <3> QED BY DEF CostFn
  <2>2. a \in Nat /\ \A s \in X : Key(x, s) = k => x[s].worst <= a
    BY CostType
  <2>3. b \in Nat /\ (k = q => a = h /\ b = e)
    BY <1>e
  <2>4. c \in Nat /\ (c # 0 => \E s \in A : Key(x, s) = k /\ c = x[s].worst)
    <3> HIDE DEF A
    <3> QED BY <1>1, CostType
  <2>5. k = q => x[t].worst <= a + b
    BY <1>e, <2>3
  <2>6. c <= a + b
    <3> HIDE DEF a, b, c, h
    <3>1. ASSUME NEW s \in A, Key(x, s) = k, c = x[s].worst PROVE c <= a + b
      <4>1. CASE s = t
        BY <2>5, <3>1, <4>1
      <4>2. CASE s \in X
        <5>1. c <= a
          BY <2>2, <3>1, <4>2
        <5> QED BY <2>2, <2>3, <2>4, <5>1
      <4> QED BY <3>1, <4>1, <4>2
    <3> QED BY <2>2, <2>3, <2>4, <3>1
  <2> HIDE DEF a, b, c, y, u
  <2> QED BY <2>1, <2>6
<1>6. \A k \in K : y[k] = w[k] + v[k]
  OBVIOUS
<1>7. Sum(v, K) = e
  <2> DEFINE I == {q}
  <2>1. I \in SUBSET K /\ \A k \in K \ I : v[k] = 0
    BY <1>1
  <2>2. v[q] = e
    BY <1>1
  <2> HIDE DEF I, v, K
  <2>3. Sum(v, K) = Sum(v, I)
    BY <1>4, <2>1, SumOutside
  <2>4. Summable(v, I)
    BY <1>4, <2>1, SummableSubset
  <2>5. q \in I /\ I \ {q} = {}
    BY DEF I
  <2>6. Sum(v, I) = Sum(v, I \ {q}) + v[q]
    BY <2>4, <2>5, SumRemove
  <2>7. Sum(v, {}) = 0
    BY SumEmpty
  <2>8. Sum(v, I \ {q}) = 0
    BY <2>5, <2>7
  <2>9. v[q] = e
    BY <2>2
  <2> HIDE DEF q, e
  <2> QED BY <1>e, <2>3, <2>6, <2>8, <2>9
<1> HIDE DEF A, K, w, v, u, y, q, h
<1>8. Summable(y, K) /\ Sum(y, K) = Sum(w, K) + Sum(v, K)
  BY <1>3, <1>4, <1>6, SumPlus
<1>9. Sum(u, K) <= Sum(y, K)
  BY <1>3, <1>5, <1>8, SumMonotone
<1>10. Cost(x, X) = Sum(w, K) /\ Cost(x, A) = Sum(u, K)
  <2>1. Keys(x, A) \subseteq K
    BY DEF K
  <2> QED BY <1>1, <1>2, <2>1, CostKeys DEF CostOver, w, u
<1>11. Cost(x, A) <= Cost(x, X) + e
  BY <1>7, <1>8, <1>9, <1>10
<1> QED BY <1>e, <1>11 DEF A, e, h, q

\* What landed, one of a nonce, cost what it was worst to cost.
Worsts(x, U) == [t \in U |-> x[t].worst]

LEMMA CostLosses ==
  ASSUME NEW x, NEW f, NEW z, IsChain(x, f, z), NEW U, U \subseteq 1..Len(x),
         \A t \in U : \A u \in U : Key(x, t) = Key(x, u) => t = u
  PROVE  Sum(Worsts(x, U), U) = Cost(x, U)
<1> DEFINE K == Keys(x, U)
           v == CostFn(x, U, K)
           g == [t \in U |-> Key(x, t)]
           w == Worsts(x, U)
<1>1. IsFiniteSet(U)
  BY KnownFinite
<1>2. \A t \in U : \A u \in U : g[t] = g[u] => t = u
  OBVIOUS
<1>3. \A t \in U : w[t] = v[g[t]] /\ w[t] \in Nat
  <2> SUFFICES ASSUME NEW t \in U PROVE w[t] = v[g[t]] /\ w[t] \in Nat
    OBVIOUS
  <2> DEFINE k == Key(x, t)
             c == CostAt(x, U, k)
  <2>1. k \in K /\ v[k] = c /\ g[t] = k /\ w[t] = x[t].worst
    BY DEF Keys, CostFn, Worsts
  <2>2. c \in Nat /\ x[t].worst <= c /\ (c # 0 => \E s \in U : Key(x, s) = k /\ c = x[s].worst)
    BY CostType
  <2>3. x[t].worst \in Nat /\ x[t].worst > 0
    BY TxOf
  <2> HIDE DEF c
  <2> QED BY <2>1, <2>2, <2>3
<1>4. g \in [U -> K] /\ (\A k \in K : \E t \in U : g[t] = k)
  BY DEF Keys
<1> HIDE DEF K, v, g, w
<1>5. Renames(g, w, U, v, K)
  BY <1>2, <1>3, <1>4 DEF Renames
<1>6. Sum(w, U) = Sum(v, K)
  BY <1>1, <1>5, SumRenamed
<1> QED BY <1>6 DEF Cost, CostOver, K, v, w

\* Only the transactions themselves matter.
LEMMA CostAlike ==
  ASSUME NEW x, NEW y, NEW X, \A t \in X : x[t] = y[t]
  PROVE  Cost(x, X) = Cost(y, X) /\ \A k : CostAt(x, X, k) = CostAt(y, X, k)
<1>1. \A t \in X : Key(x, t) = Key(y, t)
  BY DEF Key
<1>2. Keys(x, X) = Keys(y, X)
  BY <1>1 DEF Keys
<1>3. ASSUME NEW k PROVE CostAt(x, X, k) = CostAt(y, X, k)
  <2> DEFINE P == {t \in X : Key(x, t) = k}
             Q == {t \in X : Key(y, t) = k}
  <2>1. P = Q
    BY <1>1
  <2>2. {x[t].worst : t \in P} = {y[t].worst : t \in Q}
    BY <2>1
  <2> QED BY <2>2 DEF CostAt, WorstOf
<1>4. \A K : CostFn(x, X, K) = CostFn(y, X, K)
  BY <1>3 DEF CostFn
<1> QED BY <1>2, <1>3, <1>4 DEF Cost, CostOver

-----------------------------------------------------------------------------
(* The sums of the model are costs.                                        *)

\* The transactions pending by nonce, and the fold of the model's Reserved as a function.
Slots(P) == {AtSlot(P, t) : t \in P}

HeldIter(S) ==
  CHOOSE it : it = [s \in SUBSET S |->
                      IF s = {} THEN 0 ELSE Held(CHOOSE q \in s : TRUE) + it[s \ {CHOOSE q \in s : TRUE}]]

\* What is reserved, by definition of the folds.
LEMMA ReservedByIter == \A s : Reserved(s) = HeldIter(Slots(s.pending))[Slots(s.pending)]
BY DEF Reserved, MapThenSumSet, MapThenFoldSet, HeldIter, Slots

\* What is reserved is what the pending transactions can cost (reserved).
LEMMA ReservedIs ==
  ASSUME NEW f, NEW z, IsChain(tx, f, z), NEW s, s.pending \subseteq 1..Len(tx)
  PROVE  Reserved(s) = Cost(tx, s.pending)
<1> DEFINE P == s.pending
           S == Slots(P)
           K == Keys(tx, P)
           w == CostFn(tx, P, K)
           v == [q \in S |-> Held(q)]
           n == [k \in K |-> {t \in P : Key(tx, t) = k}]
           jt == HeldIter(S)
<1>1. IsFiniteSet(K)
  BY KeysFinite
<1>2. \A t \in P : AtSlot(P, t) = {u \in P : Key(tx, u) = Key(tx, t)}
  BY DEF AtSlot, Slot, Key
<1>3. n \in [K -> S] /\ \A q \in S : \E k \in K : n[k] = q
  BY <1>2 DEF Keys, Slots
<1>4. \A k \in K : \A l \in K : n[k] = n[l] => k = l
  BY DEF Keys
<1>5. \A k \in K : w[k] = v[n[k]] /\ w[k] \in Nat
  <2> SUFFICES ASSUME NEW k \in K PROVE w[k] = v[n[k]] /\ w[k] \in Nat
    OBVIOUS
  <2>1. w[k] = CostAt(tx, P, k) /\ n[k] = {t \in P : Key(tx, t) = k} /\ n[k] \in S
    BY <1>3 DEF CostFn
  <2>2. v[n[k]] = Held(n[k])
    BY <2>1
  <2>3. Held(n[k]) = WorstOf(tx, n[k])
    BY HeldIs
  <2>4. CostAt(tx, P, k) \in Nat
    BY CostType
  <2> QED BY <2>1, <2>2, <2>3, <2>4 DEF CostAt
<1>6. \A q \in S : v[q] = Held(q)
  OBVIOUS
<1> HIDE DEF S, K, w, v, n
<1>7. Renames(n, w, K, v, S)
  BY <1>3, <1>4, <1>5 DEF Renames
<1>8. Summable(v, S) /\ Sum(w, K) = Sum(v, S)
  BY <1>1, <1>7, SumRenamed
<1>9. \A q \in SUBSET S : q # {} => v[Chosen(q)] = Held(Chosen(q))
  BY <1>6 DEF Chosen
<1>10. ASSUME NEW it
       PROVE  [q \in SUBSET S |-> IF q = {} THEN 0 ELSE v[Chosen(q)] + it[q \ {Chosen(q)}]]
              = [q \in SUBSET S |-> IF q = {} THEN 0 ELSE Held(Chosen(q)) + it[q \ {Chosen(q)}]]
  BY <1>9
<1>11. PICK it : IsSum(it, v, S)
  BY <1>8, SumExists
<1>12. it = [q \in SUBSET S |-> IF q = {} THEN 0 ELSE Held(Chosen(q)) + it[q \ {Chosen(q)}]]
  BY <1>10, <1>11 DEF IsSum
<1>13. jt = [q \in SUBSET S |-> IF q = {} THEN 0 ELSE Held(Chosen(q)) + jt[q \ {Chosen(q)}]]
  BY <1>12 DEF HeldIter, Chosen
<1> HIDE DEF jt
<1>14. IsSum(jt, v, S)
  BY <1>10, <1>13 DEF IsSum
<1>15. jt[S] = Sum(v, S)
  BY <1>8, <1>14, SumIs
<1> QED BY <1>8, <1>15, ReservedByIter DEF jt, S, P, w, K, Cost, CostOver

\* The fold of the model's sum of losses as a function.
LossAt(t) == fate[t].loss

LossIter(S) ==
  CHOOSE it : it = [s \in SUBSET S |->
                      IF s = {} THEN 0 ELSE LossAt(CHOOSE t \in s : TRUE) + it[s \ {CHOOSE t \in s : TRUE}]]

\* The losses of some transactions, by definition of the folds.
LEMMA LossesByIter == \A S : MapThenSumSet(LAMBDA t : fate[t].loss, S) = LossIter(S)[S]
BY DEF MapThenSumSet, MapThenFoldSet, LossIter, LossAt

\* What has landed cost its worst case, and one lands of a nonce: what it lost is
\* what it could cost.
LEMMA LossesAreCosts ==
  ASSUME IsChain(tx, fate, stolen), ChainInv, NEW U, U \subseteq 1..Len(tx), \A t \in U : fate[t].is = "landed"
  PROVE  MapThenSumSet(LAMBDA t : fate[t].loss, U) = Cost(tx, U)
<1> DEFINE w == Worsts(tx, U)
           jt == LossIter(U)
<1>1. \A t \in U : w[t] = fate[t].loss /\ w[t] \in Nat
  <2> SUFFICES ASSUME NEW t \in U PROVE w[t] = fate[t].loss /\ w[t] \in Nat
    OBVIOUS
  <2>1. t \in 1..Len(tx) /\ fate[t].loss = tx[t].worst
    BY DEF ChainInv, History
  <2>2. tx[t].worst \in Nat
    BY <2>1, TxOf
  <2> QED BY <2>1, <2>2 DEF Worsts
<1>2. \A t \in U : \A u \in U : Key(tx, t) = Key(tx, u) => t = u
  BY DEF ChainInv, History, Key
<1>3. Sum(w, U) = Cost(tx, U)
  BY <1>2, CostLosses
<1> HIDE DEF w
<1>4. Summable(w, U)
  BY <1>1, KnownFinite DEF Summable
<1>9. \A q \in SUBSET U : q # {} => w[Chosen(q)] = LossAt(Chosen(q))
  BY <1>1 DEF Chosen, LossAt
<1>10. ASSUME NEW it
       PROVE  [q \in SUBSET U |-> IF q = {} THEN 0 ELSE w[Chosen(q)] + it[q \ {Chosen(q)}]]
              = [q \in SUBSET U |-> IF q = {} THEN 0 ELSE LossAt(Chosen(q)) + it[q \ {Chosen(q)}]]
  BY <1>9
<1>11. PICK it : IsSum(it, w, U)
  BY <1>4, SumExists
<1>12. it = [q \in SUBSET U |-> IF q = {} THEN 0 ELSE LossAt(Chosen(q)) + it[q \ {Chosen(q)}]]
  BY <1>10, <1>11 DEF IsSum
<1>13. jt = [q \in SUBSET U |-> IF q = {} THEN 0 ELSE LossAt(Chosen(q)) + jt[q \ {Chosen(q)}]]
  BY ONLY <1>12 DEF jt, LossIter, Chosen
<1> HIDE DEF jt
<1>14. IsSum(jt, w, U)
  BY <1>10, <1>13 DEF IsSum
<1>15. jt[U] = Sum(w, U)
  BY <1>4, <1>14, SumIs
<1> QED BY <1>3, <1>15, LossesByIter DEF jt

-----------------------------------------------------------------------------
(* What can be lost, and what has been lost and is not counted.            *)

\* What landed on a day, what still may, both of them, and what landed and is not in
\* P, without those landings that a record misdated, which are in o.
LandedOn(x, f, o, d) == {t \in 1..Len(x) \ o : f[t].is = "landed" /\ f[t].day = d}
MayLand(x, f, z, b) == {t \in 1..Len(x) : f[t].is # "dead" /\ ~Passed(x, f, z, b, t) /\ ~Lapsed(x, f, b, t)}
AtRisk(x, f, o, z, b) == MayLand(x, f, z, b) \cup LandedOn(x, f, o, b \div DayBlocks)
Unsettled(x, f, o, d, P) == LandedOn(x, f, o, d) \ P

\* A growing chain on which whatever lands does so in the newest block.
Moves(x, f, z, b, y, g, w, c) ==
  /\ Grew(x, f, z, b, y, g, w, c) /\ History(x, f, z, b) /\ History(y, g, w, c)
  /\ \A t \in 1..Len(y) : g[t].is = "landed" /\ (t \in 1..Len(x) => f[t].is # "landed") =>
       t \in 1..Len(x) /\ b < c /\ g[t].block = c

\* What lands could have, and no longer can anything else of its nonce.
LEMMA NewlyLanded ==
  ASSUME NEW x, NEW f, NEW z, IsChain(x, f, z), NEW b \in Nat, NEW y, NEW g, NEW w, NEW c,
         Moves(x, f, z, b, y, g, w, c), NEW t \in 1..Len(y), g[t].is = "landed",
         t \notin 1..Len(x) \/ f[t].is # "landed"
  PROVE  t \in MayLand(x, f, z, b) /\ g[t].day = c \div DayBlocks
<1>1. IsChain(y, g, w) /\ c \in Nat /\ Grew(x, f, z, b, y, g, w, c) /\ History(y, g, w, c)
  BY DEF Moves, Grew
<1>2. t \in 1..Len(x) /\ f[t].is # "landed" /\ b < c /\ g[t].block = c
  BY DEF Moves
<1>3. g[t].day = c \div DayBlocks /\ NonceIn(y, g, w, y[t].sender, c - 1) = y[t].nonce
  BY <1>1, <1>2 DEF History
<1>4. f[t].is # "dead" /\ ~Lapsed(x, f, b, t)
  <2>1. f[t].is = "dead" => g[t].is = "dead"
    BY <1>1, <1>2 DEF Grew
  <2>2. Lapsed(x, f, b, t) => Lapsed(y, g, c, t)
    BY <1>1, <1>2, LapsedStays
  <2> QED BY <2>1, <2>2 DEF Lapsed
<1>5. ~Passed(x, f, z, b, t)
  <2> DEFINE q == x[t].sender
  <2>1. y[t] = x[t] /\ NonceIn(y, g, w, q, b) = NonceIn(x, f, z, q, b)
    BY <1>1, <1>2 DEF Grew
  <2>2. b \in Int /\ c - 1 \in Int /\ b <= c - 1
    BY <1>1, <1>2
  <2>3. NonceIn(y, g, w, q, b) <= NonceIn(y, g, w, q, c - 1)
    BY <1>1, <2>2, NonceMono
  <2>4. NonceIn(x, f, z, q, b) \in Nat /\ x[t].nonce \in Nat
    BY <1>2, NonceType, TxOf
  <2> HIDE DEF q
  <2>5. NonceIn(x, f, z, q, b) <= x[t].nonce
    BY <1>3, <2>1, <2>3 DEF q
  <2> QED BY <2>4, <2>5 DEF Passed, q
<1> QED BY <1>2, <1>3, <1>4, <1>5 DEF MayLand

\* With no new transaction no more is at risk.
LEMMA RiskMoves ==
  ASSUME NEW x, NEW f, NEW o, NEW z, IsChain(x, f, z), NEW b \in Nat, NEW y, NEW g, NEW w, NEW c,
         Moves(x, f, z, b, y, g, w, c)
  PROVE  \A t \in AtRisk(y, g, o, w, c) : t \in 1..Len(x) => t \in AtRisk(x, f, o, z, b)
<1> SUFFICES ASSUME NEW t \in AtRisk(y, g, o, w, c), t \in 1..Len(x) PROVE t \in AtRisk(x, f, o, z, b)
  OBVIOUS
<1>1. IsChain(y, g, w) /\ c \in Nat /\ Grew(x, f, z, b, y, g, w, c) /\ History(x, f, z, b) /\ t \in 1..Len(y)
  BY DEF Moves, Grew, AtRisk, MayLand, LandedOn
<1>2. CASE t \in MayLand(y, g, w, c)
  <2>1. f[t].is = "dead" => g[t].is = "dead"
    BY <1>1 DEF Grew
  <2>2. Lapsed(x, f, b, t) => Lapsed(y, g, c, t)
    BY <1>1, LapsedStays
  <2>3. Passed(x, f, z, b, t) => Passed(y, g, w, c, t)
    BY <1>1, PassedStays
  <2> QED BY <1>2, <2>1, <2>2, <2>3 DEF MayLand, AtRisk
<1>3. CASE g[t].is = "landed" /\ f[t].is # "landed"
  BY <1>1, <1>3, NewlyLanded DEF AtRisk
<1>4. CASE f[t].is = "landed" /\ t \in LandedOn(y, g, o, c \div DayBlocks)
  <2>1. f[t].day = c \div DayBlocks /\ f[t].day = f[t].block \div DayBlocks /\ f[t].block <= b /\ b <= c
    BY <1>1, <1>4 DEF Grew, History, LandedOn
  <2>2. f[t].block \in Nat /\ DayBlocks \in Nat /\ DayBlocks > 0
    BY TxOf, ArmedAssumption
  <2>3. f[t].block \div DayBlocks <= b \div DayBlocks /\ b \div DayBlocks <= c \div DayBlocks
    BY <1>1, <2>1, <2>2, DivMono
  <2>4. b \div DayBlocks \in Int /\ c \div DayBlocks \in Int
    BY <1>1, <2>2
  <2>5. f[t].day = b \div DayBlocks
    BY <2>1, <2>3, <2>4
  <2> QED BY <1>4, <2>5 DEF AtRisk, LandedOn
<1> QED BY <1>1, <1>2, <1>3, <1>4 DEF AtRisk, LandedOn

\* What landed on another day landed before.
LEMMA LandedMoves ==
  ASSUME NEW x, NEW f, NEW o, NEW z, IsChain(x, f, z), NEW b \in Nat, NEW y, NEW g, NEW w, NEW c,
         Moves(x, f, z, b, y, g, w, c), NEW d, d # c \div DayBlocks
  PROVE  LandedOn(y, g, o, d) = LandedOn(x, f, o, d)
<1>1. Grew(x, f, z, b, y, g, w, c) /\ 1..Len(x) \subseteq 1..Len(y)
  <2>1. Grew(x, f, z, b, y, g, w, c) /\ IsChain(y, g, w) /\ Len(x) <= Len(y)
    BY DEF Moves, Grew
  <2>2. Len(x) \in Nat /\ Len(y) \in Nat
    BY <2>1, TxOf
  <2> QED BY <2>1, <2>2
<1>2. ASSUME NEW t \in LandedOn(y, g, o, d) PROVE t \in 1..Len(x) /\ f[t].is = "landed"
  BY <1>2, NewlyLanded DEF LandedOn
<1>3. \A t \in 1..Len(x) : f[t].is = "landed" => g[t] = f[t]
  BY <1>1 DEF Grew
<1> QED BY <1>1, <1>2, <1>3 DEF LandedOn

\* What has landed today and is not pending was so already.
LEMMA UnsettledMoves ==
  ASSUME NEW x, NEW f, NEW o, NEW z, IsChain(x, f, z), NEW b \in Nat, NEW y, NEW g, NEW w, NEW c,
         Moves(x, f, z, b, y, g, w, c), NEW P, NoneMissing(x, f, z, b, P)
  PROVE  /\ Unsettled(y, g, o, c \div DayBlocks, P) \subseteq Unsettled(x, f, o, b \div DayBlocks, P)
         /\ c \div DayBlocks # b \div DayBlocks => Unsettled(y, g, o, c \div DayBlocks, P) = {}
<1> SUFFICES ASSUME NEW t \in Unsettled(y, g, o, c \div DayBlocks, P)
             PROVE  t \in Unsettled(x, f, o, b \div DayBlocks, P) /\ c \div DayBlocks = b \div DayBlocks
  OBVIOUS
<1>1. t \in 1..Len(y) /\ g[t].is = "landed" /\ t \notin P /\ g[t].day = c \div DayBlocks
  BY DEF Unsettled, LandedOn
<1>2. t \in 1..Len(x) /\ f[t].is = "landed"
  <2> SUFFICES ASSUME t \notin 1..Len(x) \/ f[t].is # "landed" PROVE FALSE
    OBVIOUS
  <2>1. t \in MayLand(x, f, z, b)
    BY <1>1, NewlyLanded
  <2> QED BY <1>1, <2>1 DEF MayLand, NoneMissing
<1>3. f[t].day = c \div DayBlocks /\ c \in Nat /\ f[t].day = f[t].block \div DayBlocks /\ f[t].block <= b /\ b <= c
  BY <1>1, <1>2 DEF Moves, Grew, History
<1>4. f[t].block \in Nat /\ DayBlocks \in Nat /\ DayBlocks > 0
  BY <1>2, TxOf, ArmedAssumption
<1>5. f[t].block \div DayBlocks <= b \div DayBlocks /\ b \div DayBlocks <= c \div DayBlocks
  BY <1>3, <1>4, DivMono
<1>6. b \div DayBlocks \in Int /\ c \div DayBlocks \in Int
  BY <1>3, <1>4
<1>7. c \div DayBlocks = b \div DayBlocks
  BY <1>3, <1>5, <1>6
<1> QED BY <1>1, <1>2, <1>3, <1>7 DEF Unsettled, LandedOn

\* Nothing costs nothing.
LEMMA CostEmpty == ASSUME NEW x PROVE Cost(x, {}) = 0
<1>1. Keys(x, {}) = {}
  BY DEF Keys
<1> QED BY <1>1, SumEmpty DEF Cost, CostOver

\* What a state counts for the day, and whether that covers what has landed and
\* is no longer pending.
Sofar(s, d) == IF s.day = d THEN s.lost ELSE 0
CountedIn(x, f, o, d, s) == Cost(x, Unsettled(x, f, o, d, s.pending)) <= Sofar(s, d)

\* A record of a loss is no smaller than any landing of its nonce in P; the landings
\* it is dated before are in o.
Covers(x, f, r, P) ==
  r.kind \in LossKind =>
    \A u \in P : f[u].is = "landed" /\ Key(x, u) = Key(x, r.tx) => x[u].worst <= r.loss
Dated(x, f, o, r) ==
  r.kind \in LossKind =>
    \A u \in 1..Len(x) : f[u].is = "landed" /\ Key(x, u) = Key(x, r.tx) /\ f[u].day > r.day => u \in o

\* What is unsettled is of the transactions written.
LEMMA UnsettledIn ==
  ASSUME NEW x, NEW f, NEW o, NEW d, NEW P
  PROVE  Unsettled(x, f, o, d, P) \subseteq 1..Len(x)
BY DEF Unsettled, LandedOn

\* A roll forgets no loss of the day.
LEMMA CountedRoll ==
  ASSUME NEW x, NEW f, NEW o, NEW d \in Nat, NEW X, NEW s \in States(X), s.day <= d, NEW now \in 0..d, CountedIn(x, f, o, d, s)
  PROVE  CountedIn(x, f, o, d, Roll(s, now))
<1> DEFINE m == Roll(s, now)
<1>1. /\ m.pending = s.pending /\ m.day = (IF now > s.day THEN now ELSE s.day)
      /\ m.lost = (IF now > s.day THEN 0 ELSE s.lost)
  BY RollShape
<1>2. s.day \in Nat /\ s.lost \in Nat
  BY DEF States
<1> HIDE DEF m
<1>3. Sofar(m, d) = Sofar(s, d)
  BY <1>1, <1>2 DEF Sofar
<1> QED BY <1>1, <1>3 DEF CountedIn, m

\* A record takes what has landed from what is pending only by counting it.
LEMMA CountedTake ==
  ASSUME NEW x, NEW f, NEW o, NEW p, o \subseteq p, NEW z, IsChain(x, f, z), NEW b, History(x, f, z, b), NEW d \in Nat,
         NEW s \in States(1..Len(x)), s.day <= d, CountedIn(x, f, o, d, s),
         NEW r \in ArmedRecord(1..Len(x)), Backed(x, f, z, b, r), Covers(x, f, r, s.pending),
         Dated(x, f, p, r), r.kind \in LossKind => r.day <= s.day
  PROVE  CountedIn(x, f, p, d, Take(x, s, r))
<1> DEFINE m == Take(x, s, r)
           U == Unsettled(x, f, o, d, s.pending)
           V == Unsettled(x, f, p, d, m.pending)
<1>1. /\ m.day = s.day /\ m.pending = Left(x, s.pending, r)
      /\ m.lost = IF r.kind \in LossKind /\ r.day = s.day THEN s.lost + r.loss ELSE s.lost
  BY TakeShape
<1>2. s.day \in Nat /\ s.lost \in Nat /\ s.pending \subseteq 1..Len(x)
  BY DEF States
<1>3. U \subseteq 1..Len(x) /\ V \subseteq 1..Len(x)
  BY UnsettledIn
<1>4. Cost(x, U) \in Nat /\ Cost(x, V) \in Nat /\ Cost(x, U) <= Sofar(s, d)
  BY <1>3, CostType DEF CountedIn
<1>5. r.kind \in LossKind => r.loss \in Nat /\ r.day \in Nat
  BY RecordKinds
<1>6. Sofar(s, d) \in Nat /\ Sofar(m, d) \in Nat /\ Sofar(s, d) <= Sofar(m, d)
  <2> HIDE DEF m
  <2> QED BY <1>1, <1>2, <1>5 DEF Sofar
<1>7. SUFFICES Cost(x, V) <= Sofar(m, d)
  BY DEF CountedIn
<1>8. CASE V \subseteq U
  <2>1. Cost(x, V) <= Cost(x, U)
    BY <1>3, <1>8, CostLess
  <2> HIDE DEF U, V, m
  <2> QED BY <1>4, <1>6, <2>1
<1>9. CASE ~(V \subseteq U)
  <2>1. PICK u \in V : u \notin U
    BY <1>9
  <2>2. u \in LandedOn(x, f, p, d) /\ u \in s.pending /\ u \notin Left(x, s.pending, r)
    BY <1>1, <2>1 DEF Unsettled, LandedOn
  <2>3. u \in 1..Len(x) /\ u \notin p /\ f[u].is = "landed" /\ f[u].day = d
    BY <2>2 DEF LandedOn
  <2>4. r.kind \in LossKind /\ Key(x, u) = Key(x, r.tx)
    <3>1. r.kind = "refused" \/ r.kind = "expired" => u # r.tx
      BY <2>3 DEF Backed, Lapsed
    <3> QED BY <2>2, <3>1 DEF Left, Beside, Key, LossKind
  <2>5. x[u].worst <= r.loss /\ d <= r.day
    BY <1>5, <2>2, <2>3, <2>4 DEF Covers, Dated
  <2>6. \A v \in V : v \in U \cup {u}
    <3> SUFFICES ASSUME NEW v \in V, v \notin U PROVE v = u
      OBVIOUS
    <3>1. v \in 1..Len(x) /\ f[v].is = "landed" /\ v \in s.pending /\ v \notin Left(x, s.pending, r)
      BY <1>1 DEF Unsettled, LandedOn
    <3>2. Key(x, v) = Key(x, r.tx)
      BY <2>4, <3>1 DEF Left, Beside, Key, LossKind, PlainKind
    <3> QED BY <2>3, <2>4, <3>1, <3>2 DEF History, Key
  <2>7. s.day = d /\ m.day = d /\ Sofar(s, d) = s.lost /\ Sofar(m, d) = s.lost + r.loss
    <3>1. r.day = s.day /\ s.day = d
      BY <1>2, <1>5, <2>4, <2>5
    <3> HIDE DEF m
    <3> QED BY <1>1, <2>4, <3>1 DEF Sofar
  <2> DEFINE h == CostAt(x, U, Key(x, u))
             e == IF x[u].worst > h THEN x[u].worst - h ELSE 0
             A == U \cup {u}
  <2>8. e \in Nat /\ Cost(x, A) <= Cost(x, U) + e
    BY <1>3, <2>3, CostAdd
  <2>9. h \in Nat /\ x[u].worst \in Nat
    BY <1>3, <2>3, CostType, TxOf
  <2>10. e <= r.loss
    <3> HIDE DEF h
    <3> QED BY <1>5, <2>4, <2>5, <2>9
  <2>11. V \subseteq A /\ A \subseteq 1..Len(x)
    BY <1>3, <2>3, <2>6
  <2> HIDE DEF U, V, m, e, A
  <2>12. Cost(x, V) <= Cost(x, A) /\ Cost(x, A) \in Nat
    BY <2>11, CostLess, CostType
  <2> QED BY <1>2, <1>4, <1>5, <2>4, <2>7, <2>8, <2>10, <2>12
<1> QED BY <1>8, <1>9

\* With fewer landings to count, what is counted covers them.
LEMMA CountedLess ==
  ASSUME NEW x, NEW f, NEW o, NEW p, o \subseteq p, NEW z, IsChain(x, f, z), NEW d \in Nat,
         NEW s \in States(1..Len(x)), CountedIn(x, f, o, d, s)
  PROVE  CountedIn(x, f, p, d, s)
<1> DEFINE U == Unsettled(x, f, o, d, s.pending)
           V == Unsettled(x, f, p, d, s.pending)
<1>1. V \subseteq U /\ U \subseteq 1..Len(x)
  BY DEF Unsettled, LandedOn
<1>2. Cost(x, U) <= Sofar(s, d) /\ Sofar(s, d) \in Nat
  BY DEF CountedIn, Sofar, States
<1> HIDE DEF U, V
<1>3. Cost(x, V) <= Cost(x, U) /\ Cost(x, V) \in Nat /\ Cost(x, U) \in Nat
  BY <1>1, CostLess, CostType
<1> QED BY <1>2, <1>3 DEF CountedIn, V

\* As the chain grows, what a state counts for the day still covers it.
LEMMA CountedMoves ==
  ASSUME NEW x, NEW f, NEW o, NEW z, IsChain(x, f, z), NEW b \in Nat, NEW y, NEW g, NEW w, NEW c,
         Moves(x, f, z, b, y, g, w, c), NEW s, NoneMissing(x, f, z, b, s.pending), CountedIn(x, f, o, b \div DayBlocks, s),
         Sofar(s, b \div DayBlocks) \in Nat,
         NEW q, s.pending \subseteq q.pending, Sofar(q, c \div DayBlocks) \in Nat,
         c \div DayBlocks = b \div DayBlocks => Sofar(s, b \div DayBlocks) <= Sofar(q, c \div DayBlocks)
  PROVE  CountedIn(y, g, o, c \div DayBlocks, q)
<1> DEFINE d == b \div DayBlocks
           e == c \div DayBlocks
           U == Unsettled(x, f, o, d, s.pending)
           V == Unsettled(y, g, o, e, q.pending)
           P == s.pending
           Q == q.pending
<1>1. V \subseteq U /\ (e # d => V = {})
  <2> HIDE DEF P, Q
  <2>1. NoneMissing(x, f, z, b, P) /\ P \subseteq Q
    BY DEF P, Q
  <2>2. /\ Unsettled(y, g, o, c \div DayBlocks, P) \subseteq Unsettled(x, f, o, b \div DayBlocks, P)
        /\ c \div DayBlocks # b \div DayBlocks => Unsettled(y, g, o, c \div DayBlocks, P) = {}
    BY <2>1, UnsettledMoves
  <2>3. Unsettled(y, g, o, c \div DayBlocks, Q) \subseteq Unsettled(y, g, o, c \div DayBlocks, P)
    BY <2>1 DEF Unsettled
  <2> QED BY <2>2, <2>3 DEF P, Q
<1>2. U \subseteq 1..Len(x)
  BY UnsettledIn
<1>3. Cost(y, V) = Cost(x, V)
  <2>1. \A t \in V : y[t] = x[t]
    BY <1>1, <1>2 DEF Moves, Grew
  <2> HIDE DEF V
  <2> QED BY <2>1, CostAlike
<1>4. Cost(x, V) <= Cost(x, U) /\ Cost(x, U) \in Nat
  BY <1>1, <1>2, CostLess, CostType
<1>5. Cost(x, U) <= Sofar(s, d)
  BY DEF CountedIn
<1>6. CASE e # d
  BY <1>1, <1>3, <1>6, CostEmpty DEF CountedIn
<1>7. CASE e = d
  <2>1. Sofar(s, d) <= Sofar(q, e) /\ Sofar(s, d) \in Nat /\ Sofar(q, e) \in Nat /\ Cost(x, V) \in Nat
    BY <1>1, <1>2, <1>7, CostType
  <2>2. Cost(y, V) <= Sofar(q, e)
    <3> HIDE DEF d, e, U, V
    <3> QED BY <1>3, <1>4, <1>5, <2>1
  <2> QED BY <2>2 DEF CountedIn
<1> QED BY <1>6, <1>7

\* What at most the transactions at risk cost bounds the losses of every day.
RiskIn(x, f, o, z, b) == Cost(x, AtRisk(x, f, o, z, b)) <= Budget
LossesIn(x, f, o) == \A d \in Nat : Cost(x, LandedOn(x, f, o, d)) <= Budget

\* What the chain does by itself puts no more at risk.
LEMMA RiskKept ==
  ASSUME NEW x, NEW f, NEW o, NEW z, IsChain(x, f, z), NEW b \in Nat, NEW y, NEW g, NEW w, NEW c,
         Moves(x, f, z, b, y, g, w, c), Len(y) = Len(x), RiskIn(x, f, o, z, b)
  PROVE  RiskIn(y, g, o, w, c)
<1> DEFINE A == AtRisk(x, f, o, z, b)
           B == AtRisk(y, g, o, w, c)
<1>1. A \subseteq 1..Len(x) /\ B \subseteq 1..Len(x)
  BY DEF AtRisk, MayLand, LandedOn
<1>2. B \subseteq A
  BY <1>1, RiskMoves
<1>3. \A t \in B : y[t] = x[t]
  BY <1>1 DEF Moves, Grew
<1>4. Budget \in Nat
  BY ArmedAssumption
<1> HIDE DEF A, B
<1>5. Cost(y, B) = Cost(x, B)
  BY <1>3, CostAlike
<1>6. Cost(x, B) <= Cost(x, A) /\ Cost(x, A) \in Nat /\ Cost(x, B) \in Nat
  BY <1>1, <1>2, CostLess, CostType
<1> QED BY <1>4, <1>5, <1>6 DEF RiskIn, A, B

\* What the chain does by itself keeps the losses of every day within what was at risk.
LEMMA LossesKept ==
  ASSUME NEW x, NEW f, NEW o, NEW z, IsChain(x, f, z), NEW b \in Nat, NEW y, NEW g, NEW w, NEW c,
         Moves(x, f, z, b, y, g, w, c), RiskIn(y, g, o, w, c), LossesIn(x, f, o)
  PROVE  LossesIn(y, g, o)
<1> SUFFICES ASSUME NEW d \in Nat PROVE Cost(y, LandedOn(y, g, o, d)) <= Budget
  BY DEF LossesIn
<1> DEFINE L == LandedOn(y, g, o, d)
<1>1. CASE d = c \div DayBlocks
  <2> DEFINE A == AtRisk(y, g, o, w, c)
  <2>1. L \subseteq A /\ A \subseteq 1..Len(y) /\ L \subseteq 1..Len(y)
    BY <1>1 DEF AtRisk, MayLand, LandedOn
  <2>2. IsChain(y, g, w) /\ Cost(y, A) <= Budget /\ Budget \in Nat
    BY ArmedAssumption DEF RiskIn, Moves, Grew
  <2> HIDE DEF A, L
  <2>3. Cost(y, L) <= Cost(y, A) /\ Cost(y, A) \in Nat /\ Cost(y, L) \in Nat
    BY <2>1, <2>2, CostLess, CostType
  <2> QED BY <2>2, <2>3 DEF L
<1>2. CASE d # c \div DayBlocks
  <2>1. L = LandedOn(x, f, o, d)
    BY <1>2, LandedMoves
  <2>2. \A t \in L : y[t] = x[t]
    BY <2>1 DEF LandedOn, Moves, Grew
  <2> HIDE DEF L
  <2>3. Cost(y, L) = Cost(x, L)
    BY <2>2, CostAlike
  <2> QED BY <2>1, <2>3 DEF LossesIn, L
<1> QED BY <1>1, <1>2

\* A transaction that the budget admits beside what is reserved and counted.
LEMMA RiskAdmits ==
  ASSUME NEW x, NEW f, NEW o, NEW z, IsChain(x, f, z), NEW b \in Nat, NEW y, NEW c,
         Moves(x, f, z, b, y, f, z, c), c = b, IsChain(y, f, z), Len(y) = Len(x) + 1,
         NEW s \in States(1..Len(x)), NoneMissing(x, f, z, b, s.pending), CountedIn(x, f, o, b \div DayBlocks, s),
         NEW h, h = CostAt(x, s.pending, Key(y, Len(y))),
         s.lost + Cost(x, s.pending) + (IF y[Len(y)].worst > h THEN y[Len(y)].worst - h ELSE 0) <= Budget
  PROVE  RiskIn(y, f, o, z, b)
<1> DEFINE t == Len(y)
           P == s.pending
           d == b \div DayBlocks
           U == Unsettled(x, f, o, d, P)
           V == AtRisk(y, f, o, z, b)
           A == P \cup {t}
           e == IF y[t].worst > h THEN y[t].worst - h ELSE 0
<1>1. /\ Len(x) \in Nat /\ 1..Len(x) \subseteq 1..Len(y) /\ t \in 1..Len(y) /\ P \subseteq 1..Len(x)
      /\ s.lost \in Nat /\ Budget \in Nat
      /\ \A u \in 1..Len(x) : y[u] = x[u]
  BY TxOf, ArmedAssumption DEF Moves, Grew, States
<1>2. U \subseteq 1..Len(x) /\ P \subseteq 1..Len(y)
  BY <1>1, UnsettledIn
<1>3. V \subseteq A \cup U
  <2> SUFFICES ASSUME NEW u \in V, u # t PROVE u \in P \cup U
    OBVIOUS
  <2>1. u \in 1..Len(x)
    BY <1>1 DEF AtRisk, MayLand, LandedOn
  <2>2. u \in AtRisk(x, f, o, z, b)
    BY <2>1, RiskMoves
  <2> QED BY <2>2 DEF AtRisk, MayLand, NoneMissing, Unsettled
<1>4. Cost(y, P) = Cost(x, P) /\ Cost(y, U) = Cost(x, U) /\ \A k : CostAt(y, P, k) = CostAt(x, P, k)
  <2>1. (\A u \in P : y[u] = x[u]) /\ (\A u \in U : y[u] = x[u])
    BY <1>1, <1>2
  <2> HIDE DEF P, U
  <2>2. Cost(y, P) = Cost(x, P) /\ \A k : CostAt(y, P, k) = CostAt(x, P, k)
    <3>1. \A u \in P : y[u] = x[u]
      BY <2>1
    <3> QED BY ONLY <3>1, CostAlike
  <2>3. Cost(y, U) = Cost(x, U)
    BY <2>1, CostAlike
  <2> QED BY <2>2, <2>3
<1>5. e \in Nat /\ Cost(y, A) <= Cost(y, P) + e
  <2>1. h = CostAt(y, P, Key(y, t))
    BY <1>4
  <2> HIDE DEF t, P
  <2> QED BY <1>1, <1>2, <2>1, CostAdd
<1>6. Cost(x, U) <= s.lost
  <2>1. Cost(x, U) <= Sofar(s, d) /\ Cost(x, U) \in Nat
    BY <1>2, CostType DEF CountedIn
  <2> HIDE DEF U, d
  <2> QED BY <1>1, <2>1 DEF Sofar
<1>7. A \subseteq 1..Len(y) /\ U \subseteq 1..Len(y) /\ V \subseteq 1..Len(y)
  BY <1>1, <1>2 DEF AtRisk, MayLand, LandedOn
<1>8. s.lost + Cost(x, P) + e <= Budget
  OBVIOUS
<1> HIDE DEF A, U, V, P, e, d, t
<1>9. Cost(y, V) <= Cost(y, A) + Cost(y, U)
  BY <1>3, <1>7, CostUnion
<1>10. Cost(y, V) \in Nat /\ Cost(y, A) \in Nat /\ Cost(y, U) \in Nat /\ Cost(y, P) \in Nat
  BY <1>2, <1>7, CostType
<1>11. Cost(y, V) <= Budget
  BY <1>1, <1>4, <1>5, <1>6, <1>8, <1>9, <1>10
<1> QED BY <1>11 DEF RiskIn, V

-----------------------------------------------------------------------------
(* The sums of the state, and what a step does to them.                    *)

\* What is at risk fits the budget; what has landed today and is no longer
\* pending is counted, on disk and by the worker; no day's losses pass it.  Each is
\* without the landings that a record misdated.
RiskInv == RiskIn(tx, fate, misdated, stolen, block)
CountInv == CountedIn(tx, fate, misdated, day, Disk) /\ (up => CountedIn(tx, fate, misdated, day, mem))
LossesInv == LossesIn(tx, fate, misdated)
SumInv == RiskInv /\ CountInv /\ LossesInv

\* The worker holds pending no more than the ledger does.
SubInv == up => mem.pending \subseteq Disk.pending

\* Every step moves the chain so, or not at all.
MovesNow == Moves(tx, fate, stolen, block, tx', fate', stolen', block')

\* A step that leaves the chain alone.
LEMMA MovesNot ==
  ASSUME ArmedInv, UNCHANGED chainVars
  PROVE  MovesNow
<1>1. tx' = tx /\ fate' = fate /\ stolen' = stolen /\ block' = block
  BY DEF chainVars
<1>2. Grew(tx, fate, stolen, block, tx, fate, stolen, block)
  BY Parts, GrewNot
<1> QED BY <1>1, <1>2, Parts DEF MovesNow, Moves

\* A transaction held, or refused.
LEMMA MovesFate ==
  ASSUME ArmedInv, NEW t \in 1..Len(tx), fate[t].is \notin {"landed", "dead"}, NEW v \in {"held", "dead"},
         fate' = [fate EXCEPT ![t].is = v], tx' = tx, stolen' = stolen, block' = block
  PROVE  MovesNow
<1> DEFINE g == [fate EXCEPT ![t].is = v]
<1>1. Grew(tx, fate, stolen, block, tx, g, stolen, block) /\ History(tx, g, stolen, block)
  BY Parts, GrewFate
<1>2. \A u \in 1..Len(tx) : g[u].is = "landed" => fate[u].is = "landed"
  BY Parts, TxOf DEF IsChain
<1> HIDE DEF g
<1>3. Moves(tx, fate, stolen, block, tx, g, stolen, block)
  BY <1>1, <1>2, Parts DEF Moves
<1>4. fate' = g
  BY DEF g
<1> QED BY <1>3, <1>4 DEF MovesNow

\* A transaction made.
LEMMA MovesTx ==
  ASSUME ArmedInv, NEW e \in Txn, Len(tx) + 1 <= MaxTx, tx' = Append(tx, e), fate' = fate, stolen' = stolen, block' = block
  PROVE  MovesNow /\ Len(tx') = Len(tx) + 1 /\ tx'[Len(tx')] = e
<1> DEFINE y == Append(tx, e)
<1>1. Grew(tx, fate, stolen, block, y, fate, stolen, block) /\ History(y, fate, stolen, block)
  BY Parts, GrewTx
<1>2. Len(y) = Len(tx) + 1 /\ y[Len(y)] = e /\ Len(tx) \in Nat
  BY Parts DEF IsChain
<1>3. y \in Seq(Txn) /\ tx' = y
  BY Parts DEF IsChain
<1> HIDE DEF y
<1>4. \A t \in 1..Len(y) : fate[t].is = "landed" => t \in 1..Len(tx)
  <2> SUFFICES ASSUME NEW t \in 1..Len(y), t \notin 1..Len(tx) PROVE fate[t].is # "landed"
    OBVIOUS
  <2>1. t > Len(tx) /\ t \in 1..MaxTx
    BY <1>2, ArmedAssumption
  <2> QED BY <2>1, Parts DEF History, Tx
<1>5. Moves(tx, fate, stolen, block, y, fate, stolen, block)
  BY <1>1, <1>4, Parts DEF Moves
<1> QED BY <1>2, <1>3, <1>5 DEF MovesNow

\* A block.
LEMMA MovesChain ==
  ASSUME ArmedInv, ChainStep
  PROVE  MovesNow /\ tx' = tx
<1>1. block' = block + 1 /\ tx' = tx
  BY DEF ChainStep, NewBlock
<1>2. CASE UNCHANGED <<fate, stolen, mishaps, excused>>
  <2>1. Grew(tx, fate, stolen, block, tx, fate, stolen, block + 1) /\ History(tx, fate, stolen, block + 1)
    BY Parts, GrewEmpty
  <2>2. Moves(tx, fate, stolen, block, tx, fate, stolen, block + 1)
    BY <2>1, Parts DEF Moves
  <2> QED BY <1>1, <1>2, <2>2 DEF MovesNow
<1>3. ASSUME NEW t \in 1..Len(tx), fate[t].is = "held",
             tx[t].nonce = Nonce(tx[t].sender), block' <= tx[t].bound,
             fate' = [fate EXCEPT ![t] = [is |-> "landed", block |-> block', day |-> block' \div DayBlocks,
                                          loss |-> tx[t].worst]],
             UNCHANGED <<stolen, mishaps, excused>>
      PROVE  MovesNow
  <2>1. tx[t].nonce = NonceIn(tx, fate, stolen, tx[t].sender, block) /\ block + 1 <= tx[t].bound
    BY <1>1, <1>3, NonceIs DEF Nonce
  <2> DEFINE g == [fate EXCEPT ![t] = [is |-> "landed", block |-> block + 1, day |-> (block + 1) \div DayBlocks,
                                       loss |-> tx[t].worst]]
  <2>2. Grew(tx, fate, stolen, block, tx, g, stolen, block + 1) /\ History(tx, g, stolen, block + 1)
    BY <1>3, <2>1, Parts, GrewLands
  <2>3. fate' = g
    BY <1>1, <1>3
  <2>4. \A u \in 1..Len(tx) : u # t => g[u] = fate[u]
    OBVIOUS
  <2>5. g[t].block = block + 1 /\ block < block + 1
    <3>1. t \in Tx /\ fate \in [Tx -> Fates]
      BY Parts, TxOf DEF IsChain
    <3>2. g[t] = [is |-> "landed", block |-> block + 1, day |-> (block + 1) \div DayBlocks, loss |-> tx[t].worst]
      BY <3>1
    <3>3. block < block + 1
      BY Parts
    <3> QED BY <3>2, <3>3
  <2> HIDE DEF g
  <2>6. Moves(tx, fate, stolen, block, tx, g, stolen, block + 1)
    BY <2>2, <2>4, <2>5, Parts DEF Moves
  <2> QED BY <1>1, <1>3, <2>3, <2>6 DEF MovesNow
<1>4. ASSUME NEW s \in Sender, stolen' = stolen \cup {[sender |-> s, block |-> block']}, UNCHANGED fate
      PROVE  MovesNow
  <2> DEFINE w == stolen \cup {[sender |-> s, block |-> block + 1]}
  <2>1. Grew(tx, fate, stolen, block, tx, fate, w, block + 1) /\ History(tx, fate, w, block + 1)
    BY Parts, GrewStolen
  <2>2. stolen' = w
    BY <1>1, <1>4
  <2> HIDE DEF w
  <2>3. Moves(tx, fate, stolen, block, tx, fate, w, block + 1)
    BY <2>1, Parts DEF Moves
  <2> QED BY <1>1, <1>4, <2>2, <2>3 DEF MovesNow
<1> QED BY <1>1, <1>2, <1>3, <1>4 DEF ChainStep, NewBlock

\* The replay of the ledger, as the invariant has it.
LEMMA DiskType ==
  ASSUME ArmedInv
  PROVE  /\ Disk = After(tx, ledger, day) /\ Disk \in States(Known) /\ Disk.day = day /\ Disk.lost \in Nat
         /\ Disk.pending \subseteq Known /\ Sofar(Disk, day) = Disk.lost
         /\ NoneMissing(tx, fate, stolen, block, Disk.pending)
<1>1. Disk = After(tx, ledger, day)
  BY DiskIs DEF Disk
<1>2. Disk \in States(Known) /\ Disk.day = day
  BY <1>1, Parts, AfterType, AfterDays
<1>3. Disk.lost \in Nat /\ Disk.pending \subseteq Known
  BY <1>2 DEF States
<1> DEFINE P == Disk.pending
<1>4. NoneLost(tx, fate, block, ledger, P) /\ ledger \in Seq(ArmedRecord(1..Len(tx)))
      /\ BackedAll(tx, fate, stolen, block, ledger)
  BY Parts DEF PendingInv, RecordsInv, Known
<1> HIDE DEF P
<1>5. NoneMissing(tx, fate, stolen, block, P)
  BY <1>4, Parts, NoneLostMissing
<1> QED BY <1>1, <1>2, <1>3, <1>5 DEF P, Sofar

\* What the step makes of it, but for a record.
LEMMA DiskMoves ==
  ASSUME ArmedInv, MovesNow
  PROVE  LET q == After(tx', ledger, day') IN
         /\ q \in States(Known') /\ q.day = day' /\ q.lost \in Nat /\ q.pending = Disk.pending
         /\ day' = day => q = Disk
<1> DEFINE y == tx'
           X == Known'
           q == After(y, ledger, day')
           x == tx
           Z == Known
<1>1. Grows
  BY DEF MovesNow, Moves, Grows
<1>2. ledger \in Seq(ArmedRecord(X)) /\ ledger \in Seq(ArmedRecord(Z)) /\ day' \in Nat /\ day \in Nat
  BY <1>1, Parts, TypesGrow
<1>3. Alike(x, y, Z)
  BY <1>1, Parts, TypesGrow DEF Alike
<1>4. Disk = After(x, ledger, day)
  BY DiskType
<1> HIDE DEF X, y, x, Z
<1>5. q \in States(X) /\ q.day = day'
  BY <1>2, AfterType, AfterDays
<1>6. q.pending = After(x, ledger, day).pending
  BY <1>2, <1>3, PendingKept
<1>7. day' = day => q = After(x, ledger, day)
  <2>1. \A t \in Z : x[t] = y[t]
    BY <1>3 DEF Alike
  <2> QED BY <1>2, <2>1, AfterAlike
<1>8. q.lost \in Nat
  BY <1>5 DEF States
<1> QED BY <1>4, <1>5, <1>6, <1>7, <1>8 DEF X, y, q

\* The counts as the chain moves, before any record.
LEMMA CountsMove ==
  ASSUME ArmedInv, CountInv, MovesNow
  PROVE  /\ CountedIn(tx', fate', misdated, day', After(tx', ledger, day'))
         /\ up => CountedIn(tx', fate', misdated, day', mem)
<1> DEFINE q == After(tx', ledger, day')
           s == Disk
           m == mem
<1>1. IsChain(tx, fate, stolen) /\ block \in Nat /\ Moves(tx, fate, stolen, block, tx', fate', stolen', block')
      /\ day = block \div DayBlocks /\ day' = block' \div DayBlocks /\ day \in Nat /\ day' \in Nat
  <2>1. day' \in Nat
    BY Parts, TypesGrow DEF MovesNow, Moves, Grows
  <2> QED BY <2>1, Parts DEF MovesNow, day
<1>2. NoneMissing(tx, fate, stolen, block, s.pending) /\ CountedIn(tx, fate, misdated, day, s) /\ Sofar(s, day) = s.lost /\ s.lost \in Nat
  BY DiskType DEF CountInv
<1>3. q.day = day' /\ q.lost \in Nat /\ q.pending = s.pending /\ (day' = day => q = s)
  BY DiskMoves
<1>4. up => NoneMissing(tx, fate, stolen, block, m.pending) /\ CountedIn(tx, fate, misdated, day, m)
  BY Parts DEF CountInv, PendingInv
<1>5. m.lost \in Nat /\ m.day \in Nat
  BY Parts DEF States
<1> HIDE DEF q, s, m
<1>6. Sofar(q, day') = q.lost /\ (day' = day => Sofar(s, day) <= Sofar(q, day'))
  BY <1>2, <1>3 DEF Sofar
<1>7. CountedIn(tx', fate', misdated, day', q)
  <2>1. s.pending \subseteq q.pending /\ Sofar(s, day) \in Nat /\ Sofar(q, day') \in Nat
    BY <1>2, <1>3, <1>6
  <2> QED BY <1>1, <1>2, <1>6, <2>1, CountedMoves
<1>8. ASSUME up PROVE CountedIn(tx', fate', misdated, day', m)
  <2>1. Sofar(m, day) \in Nat /\ Sofar(m, day') \in Nat /\ (day' = day => Sofar(m, day) <= Sofar(m, day'))
    BY <1>1, <1>5 DEF Sofar
  <2>2. m.pending \subseteq m.pending
    OBVIOUS
  <2> QED BY <1>1, <1>4, <1>8, <2>1, <2>2, CountedMoves
<1> QED BY <1>7, <1>8 DEF q, m

\* What is at risk, and the losses, with no new transaction.
LEMMA RisksMove ==
  ASSUME ArmedInv, SumInv, MovesNow, tx' = tx, misdated \subseteq misdated'
  PROVE  RiskInv' /\ LossesInv'
<1>1. RiskIn(tx', fate', misdated, stolen', block')
  <2>1. Len(tx') = Len(tx) /\ RiskIn(tx, fate, misdated, stolen, block)
    BY DEF SumInv, RiskInv
  <2> QED BY <2>1, Parts, RiskKept DEF MovesNow
<1>2. LossesIn(tx', fate', misdated)
  <2>1. LossesIn(tx, fate, misdated)
    BY DEF SumInv, LossesInv
  <2> QED BY <1>1, <2>1, Parts, LossesKept DEF MovesNow
<1> DEFINE y == tx'
           g == fate'
           w == stolen'
           c == block'
<1>3. IsChain(y, g, w) /\ Budget \in Nat
  BY ArmedAssumption DEF MovesNow, Moves, Grew
<1>4. RiskIn(y, g, misdated, w, c) /\ LossesIn(y, g, misdated)
  BY <1>1, <1>2
<1> HIDE DEF y, g, w, c
<1>5. ASSUME NEW A, NEW B, B \subseteq A, A \subseteq 1..Len(y), Cost(y, A) <= Budget PROVE Cost(y, B) <= Budget
  <2>1. Cost(y, B) <= Cost(y, A) /\ Cost(y, A) \in Nat /\ Cost(y, B) \in Nat
    BY <1>3, <1>5, CostLess, CostType
  <2> QED BY <1>3, <1>5, <2>1
<1>6. \A d : /\ LandedOn(y, g, misdated', d) \subseteq LandedOn(y, g, misdated, d)
             /\ LandedOn(y, g, misdated, d) \subseteq 1..Len(y)
  BY DEF LandedOn
<1>7. RiskIn(y, g, misdated', w, c)
  <2>1. /\ AtRisk(y, g, misdated', w, c) \subseteq AtRisk(y, g, misdated, w, c)
        /\ AtRisk(y, g, misdated, w, c) \subseteq 1..Len(y)
    BY <1>6 DEF AtRisk, MayLand
  <2> QED BY <1>4, <1>5, <2>1 DEF RiskIn
<1>8. LossesIn(y, g, misdated')
  BY <1>4, <1>5, <1>6 DEF LossesIn
<1> QED BY <1>7, <1>8 DEF RiskInv, LossesInv, y, g, w, c

\* A step without a record, but perhaps with a roll.
LEMMA QuietSums ==
  ASSUME ArmedInv, SumInv, MovesNow, tx' = tx, misdated' = misdated, ledger' = ledger, up' = up,
         mem' = mem \/ (mem' = Roll(mem, day) /\ day' = day)
  PROVE  SumInv'
<1>1. RiskInv' /\ LossesInv'
  BY RisksMove
<1>2. CountedIn(tx', fate', misdated, day', After(tx', ledger, day')) /\ (up => CountedIn(tx', fate', misdated, day', mem))
  BY CountsMove DEF SumInv
<1>3. Disk' = After(tx', ledger, day')
  BY DiskIs DEF Disk
<1>4. up => CountedIn(tx', fate', misdated, day', mem')
  <2> SUFFICES ASSUME up, mem' = Roll(mem, day), day' = day PROVE CountedIn(tx', fate', misdated, day', mem')
    BY <1>2
  <2>1. CountedIn(tx', fate', misdated, day, mem) /\ mem \in States(Known) /\ mem.day <= day /\ day \in Nat /\ day \in 0..day
    BY <1>2, Parts
  <2>2. CountedIn(tx', fate', misdated, day, Roll(mem, day))
    BY <2>1, CountedRoll
  <2> QED BY <2>2
<1> QED BY <1>1, <1>2, <1>3, <1>4 DEF SumInv, CountInv

\* A record, in the ledger or not.
LEMMA RecordSums ==
  ASSUME ArmedInv, ArmedInv', SumInv, SubInv, MovesNow, tx' = tx, block' = block, up' = up, up,
         NEW now \in 0..day, NEW r \in ArmedRecord(Known), Backed(tx', fate', stolen', block', r),
         Covers(tx', fate', r, Disk.pending), r.kind \in LossKind => r.day = now, Record(r, now),
         misdated \subseteq misdated', Dated(tx', fate', misdated', r)
  PROVE  SumInv'
<1>1. RiskInv' /\ LossesInv'
  BY RisksMove
<1>2. CountedIn(tx', fate', misdated, day', After(tx', ledger, day')) /\ CountedIn(tx', fate', misdated, day', mem)
  BY CountsMove DEF SumInv
<1>3. day' = day /\ day \in Nat /\ Known' = Known /\ Known = 1..Len(tx')
  BY Parts DEF day, Known
<1>4. /\ IsChain(tx', fate', stolen') /\ History(tx', fate', stolen', block')
  BY DEF ArmedInv, TypeInv, WorldOK, ChainInv
<1>5. r \in ArmedRecord(1..Len(tx'))
  BY <1>3
<1>6. CountedIn(tx', fate', misdated', day, mem')
  <2> DEFINE s == Roll(mem, now)
  <2>1. mem \in States(Known) /\ mem.day <= day /\ mem.day \in Nat /\ now \in Nat
    BY Parts DEF States
  <2>2. CountedIn(tx', fate', misdated, day, s)
    BY <1>2, <1>3, <2>1, CountedRoll
  <2>3. s \in States(Known) /\ s.pending = mem.pending /\ s.day = (IF now > mem.day THEN now ELSE mem.day)
    BY <2>1, RollShape
  <2>4. mem' = Take(tx', s, r)
    <3>1. mem' = Apply(Roll(mem, now), r)
      BY DEF Record
    <3> QED BY <3>1, ApplyIs
  <2> HIDE DEF s
  <2>5. s.day <= day /\ now <= s.day
    BY <1>3, <2>1, <2>3
  <2>6. Covers(tx', fate', r, s.pending)
    BY <2>3 DEF Covers, SubInv
  <2>7. s \in States(1..Len(tx'))
    BY <1>3, <2>3
  <2>8. CountedIn(tx', fate', misdated', day, Take(tx', s, r))
    BY <1>3, <1>4, <1>5, <2>2, <2>5, <2>6, <2>7, CountedTake
  <2> QED BY <2>4, <2>8
<1>7. CountedIn(tx', fate', misdated', day, Disk')
  <2> DEFINE q == After(tx', ledger, day)
  <2>1. q \in States(1..Len(tx')) /\ q.day = day /\ q.pending = Disk.pending /\ CountedIn(tx', fate', misdated, day, q)
    BY <1>2, <1>3, DiskMoves
  <2>2. Disk' = After(tx', ledger', day)
    BY <1>3, DiskIs DEF Disk
  <2>3. CASE ledger' = ledger
    <3> HIDE DEF q
    <3>1. CountedIn(tx', fate', misdated', day, q)
      BY <1>3, <1>4, <2>1, CountedLess
    <3> QED BY <2>2, <2>3, <3>1 DEF q
  <2>4. CASE ledger' = Append(ledger, r)
    <3>1. ledger \in Seq(ArmedRecord(1..Len(tx')))
      BY <1>3, Parts
    <3>2. After(tx', Append(ledger, r), day) = Take(tx', q, r)
      BY <1>3, <1>5, <3>1, AfterAppend
    <3> HIDE DEF q
    <3>3. Covers(tx', fate', r, q.pending) /\ q.day <= day /\ (r.kind \in LossKind => r.day <= q.day)
      <4>1. now <= day
        BY <1>3
      <4> QED BY <1>3, <2>1, <4>1
    <3>4. CountedIn(tx', fate', misdated', day, Take(tx', q, r))
      BY <1>3, <1>4, <1>5, <2>1, <3>3, CountedTake
    <3> QED BY <2>2, <2>4, <3>2, <3>4
  <2> QED BY <2>3, <2>4 DEF Record
<1> QED BY <1>1, <1>3, <1>6, <1>7 DEF SumInv, CountInv

\* A transaction written ahead: the budget admits it.
LEMMA WriteAheadSums ==
  ASSUME ArmedInv, ArmedInv', SumInv, up, NEW s \in Sender, NEW n \in Nat, NEW b \in Int, NEW w \in Worst,
         NEW now \in 0..day, NEW hd \in Int, WriteAhead(s, n, b, w, now, hd), Admits(Roll(mem, now), s, n, w)
  PROVE  SumInv'
<1> DEFINE t == Len(tx) + 1
           e == [sender |-> s, nonce |-> n, bound |-> b, worst |-> w]
           r == Submitting(t)
           m == Roll(mem, now)
           k == <<s, n>>
           P == m.pending
           h == CostAt(tx, P, k)
           y == tx'
<1>1. /\ t <= MaxTx /\ y = Append(tx, e) /\ ledger' = Append(ledger, r) /\ mem' = Apply(m, r)
      /\ up' = up /\ fate' = fate /\ block' = block /\ stolen' = stolen /\ misdated' = misdated
  BY DEF WriteAhead, faultVars
<1>2. e \in Txn /\ e.sender = s /\ e.nonce = n /\ e.worst = w
  BY DEF Txn
<1>3. day' = day /\ day \in Nat /\ Len(tx) \in Nat /\ day = block \div DayBlocks
  BY <1>1, Parts DEF day
<1>4. /\ mem \in States(Known) /\ mem.day <= day /\ mem.day \in Nat /\ now \in Nat /\ now <= day
  BY <1>3, Parts DEF States
<1>5. m \in States(Known) /\ P = mem.pending /\ m.day = (IF now > mem.day THEN now ELSE mem.day)
  BY <1>4, RollShape
<1>a. m.lost + Reserved(m) + (IF w > Held({u \in P : Slot(u) = k}) THEN w - Held({u \in P : Slot(u) = k}) ELSE 0) <= Budget
  BY DEF Admits
<1>b. Reserved(m) = Cost(tx, P)
  <2>1. m.pending \subseteq 1..Len(tx)
    BY <1>5, Parts DEF Known
  <2> HIDE DEF m
  <2> QED BY <2>1, Parts, ReservedIs
<1>c. Held({u \in P : Slot(u) = k}) = h
  <2>1. {u \in P : Slot(u) = k} = {u \in P : Key(tx, u) = k}
    BY DEF Slot, Key
  <2> QED BY <2>1, HeldIs DEF CostAt
<1>6. MovesNow /\ Len(y) = Len(tx) + 1 /\ y[Len(y)] = e
  <2> HIDE DEF e
  <2> QED BY <1>1, <1>2, MovesTx
<1>7. /\ IsChain(tx, fate, stolen) /\ block \in Nat /\ Moves(tx, fate, stolen, block, y, fate, stolen, block)
      /\ IsChain(y, fate, stolen) /\ History(y, fate, stolen, block)
  <2>1. IsChain(tx', fate', stolen') /\ History(tx', fate', stolen', block')
    BY DEF ArmedInv, TypeInv, WorldOK, ChainInv
  <2> QED BY <1>1, <1>6, <2>1, Parts DEF MovesNow
<1>8. NoneMissing(tx, fate, stolen, block, P) /\ CountedIn(tx, fate, misdated, day, m)
  <2>1. NoneMissing(tx, fate, stolen, block, mem.pending)
    BY Parts DEF PendingInv
  <2>2. CountedIn(tx, fate, misdated, day, mem)
    BY DEF SumInv, CountInv
  <2>3. CountedIn(tx, fate, misdated, day, m)
    BY <1>3, <1>4, <2>2, CountedRoll
  <2> QED BY <1>5, <2>1, <2>3
<1>9. RiskIn(y, fate, misdated, stolen, block)
  <2>1. Key(y, Len(y)) = k /\ y[Len(y)].worst = w
    BY <1>2, <1>6 DEF Key
  <2>2. m.lost + Cost(tx, m.pending) + (IF w > h THEN w - h ELSE 0) <= Budget /\ h = CostAt(tx, m.pending, Key(y, Len(y)))
    BY <1>a, <1>b, <1>c, <2>1
  <2>3. m \in States(1..Len(tx)) /\ NoneMissing(tx, fate, stolen, block, m.pending) /\ CountedIn(tx, fate, misdated, block \div DayBlocks, m)
    BY <1>3, <1>5, <1>8 DEF Known
  <2>4. m.lost + Cost(tx, m.pending) + (IF y[Len(y)].worst > h THEN y[Len(y)].worst - h ELSE 0) <= Budget
    BY <2>1, <2>2
  <2> HIDE DEF m, h, y, k, e, t, P
  <2> QED BY <1>6, <1>7, <2>2, <2>3, <2>4, RiskAdmits
<1>10. RiskInv' /\ LossesInv'
  <2>1. LossesIn(tx, fate, misdated)
    BY DEF SumInv, LossesInv
  <2>2. LossesIn(y, fate, misdated)
    <3> HIDE DEF y
    <3> QED BY <1>7, <1>9, <2>1, LossesKept
  <2> QED BY <1>1, <1>9, <2>2 DEF RiskInv, LossesInv
<1>11. CountedIn(y, fate, misdated, day, After(y, ledger, day)) /\ CountedIn(y, fate, misdated, day, mem)
  <2>1. CountInv
    BY DEF SumInv
  <2> QED BY <1>1, <1>3, <1>6, <2>1, CountsMove
<1>12. /\ r \in ArmedRecord(1..Len(y)) /\ Backed(y, fate, stolen, block, r) /\ r.kind \notin LossKind
       /\ (\A P_1 : Covers(y, fate, r, P_1)) /\ Dated(y, fate, misdated, r) /\ misdated \subseteq misdated
  <2>1. t \in 1..Len(y)
    BY <1>3, <1>6
  <2>2. r.kind = "submitting" /\ r \in ArmedRecord(1..Len(y))
    BY <2>1, RecordsAre DEF Submitting
  <2> HIDE DEF r, t
  <2> QED BY <2>2 DEF Backed, LossKind, Covers, Dated
<1>13. 1..Len(tx) \subseteq 1..Len(y) /\ mem \in States(1..Len(y)) /\ ledger \in Seq(ArmedRecord(1..Len(y)))
  <2> DEFINE X == 1..Len(tx)
             Y == 1..Len(y)
  <2>1. X \subseteq Y
    BY <1>3, <1>6
  <2>2. mem \in States(X) /\ ledger \in Seq(ArmedRecord(X))
    BY Parts DEF Known
  <2> HIDE DEF X, Y
  <2>3. mem \in States(Y) /\ ledger \in Seq(ArmedRecord(Y))
    BY <2>1, <2>2, RecordsGrow
  <2> QED BY <2>1, <2>3 DEF X, Y
<1>14. CountedIn(y, fate, misdated, day, mem')
  <2>1. mem' = Take(y, m, r)
    BY <1>1 DEF Apply, Take, Submitting
  <2>2. m \in States(1..Len(y)) /\ m.day <= day
    <3>1. m \in States(1..Len(y))
      BY <1>4, <1>13, RollShape
    <3> HIDE DEF m
    <3> QED BY <1>4, <1>5, <3>1
  <2>3. CountedIn(y, fate, misdated, day, m)
    <3> HIDE DEF y
    <3> QED BY <1>3, <1>4, <1>11, CountedRoll
  <2>4. Covers(y, fate, r, m.pending)
    BY <1>12
  <2> HIDE DEF m, r, y
  <2>5. CountedIn(y, fate, misdated, day, Take(y, m, r))
    BY <1>3, <1>7, <1>12, <2>2, <2>3, <2>4, CountedTake
  <2> QED BY <2>1, <2>5
<1>15. CountedIn(y, fate, misdated, day, Disk')
  <2> DEFINE q == After(y, ledger, day)
             l == ledger
  <2>1. q \in States(1..Len(y)) /\ q.day = day
    <3> HIDE DEF y
    <3> QED BY <1>3, <1>13, AfterType, AfterDays
  <2>2. After(y, Append(l, r), day) = Take(y, q, r)
    <3>1. l \in Seq(ArmedRecord(1..Len(y)))
      BY <1>13
    <3> HIDE DEF y, r, l
    <3> QED BY <1>3, <1>12, <3>1, AfterAppend DEF l
  <2>3. Disk' = After(y, Append(l, r), day)
    <3>1. Disk' = After(tx', ledger', day')
      BY DiskIs DEF Disk
    <3> QED BY <1>1, <1>3, <3>1
  <2>4. CountedIn(y, fate, misdated, day, q) /\ Covers(y, fate, r, q.pending) /\ q.day <= day
    BY <1>3, <1>11, <1>12, <2>1
  <2> HIDE DEF q, r, y, l
  <2>5. CountedIn(y, fate, misdated, day, Take(y, q, r))
    BY <1>3, <1>7, <1>12, <2>1, <2>4, CountedTake
  <2> QED BY <2>2, <2>3, <2>5
<1> QED BY <1>1, <1>3, <1>10, <1>14, <1>15 DEF SumInv, CountInv

\* A state with no less pending and no less counted.
LEMMA CountedMore ==
  ASSUME NEW x, NEW f, NEW o, NEW z, IsChain(x, f, z), NEW d, NEW s, NEW q, CountedIn(x, f, o, d, s),
         s.pending \subseteq q.pending, Sofar(s, d) \in Nat, Sofar(q, d) \in Nat, Sofar(s, d) <= Sofar(q, d)
  PROVE  CountedIn(x, f, o, d, q)
<1> DEFINE U == Unsettled(x, f, o, d, s.pending)
           V == Unsettled(x, f, o, d, q.pending)
<1>1. V \subseteq U /\ U \subseteq 1..Len(x)
  BY UnsettledIn DEF Unsettled
<1>2. Cost(x, V) <= Cost(x, U) /\ Cost(x, U) \in Nat /\ Cost(x, V) \in Nat
  BY <1>1, CostLess, CostType
<1>3. Cost(x, U) <= Sofar(s, d)
  BY DEF CountedIn
<1>4. Cost(x, V) <= Sofar(q, d)
  <2> HIDE DEF U, V
  <2> QED BY <1>2, <1>3
<1> QED BY <1>4 DEF CountedIn

\* A death, an operator's reset or a boot: the replay has no less pending, and counts the same.
LEMMA StillSums ==
  ASSUME ArmedInv, SumInv, UNCHANGED chainVars, misdated' = misdated,
         Disk.pending \subseteq Disk'.pending, Disk'.day = day, Disk'.lost = Disk.lost,
         up' => mem'.pending = Disk.pending /\ mem'.day = day /\ mem'.lost = Disk.lost
  PROVE  SumInv'
<1>1. MovesNow /\ tx' = tx /\ fate' = fate /\ day' = day
  BY MovesNot DEF chainVars, day
<1>2. RiskInv' /\ LossesInv'
  BY <1>1, RisksMove
<1>3. CountedIn(tx, fate, misdated, day, Disk) /\ Sofar(Disk, day) = Disk.lost /\ Disk.lost \in Nat
  BY DiskType DEF SumInv, CountInv
<1>4. CountedIn(tx, fate, misdated, day, Disk')
  <2> DEFINE q == Disk'
             s == Disk
  <2>1. Sofar(q, day) = Sofar(s, day) /\ Sofar(q, day) \in Nat /\ s.pending \subseteq q.pending
    BY <1>3 DEF Sofar
  <2>2. CountedIn(tx, fate, misdated, day, s) /\ Sofar(s, day) <= Sofar(q, day)
    BY <1>3, <2>1
  <2> HIDE DEF q, s
  <2>3. CountedIn(tx, fate, misdated, day, q)
    BY <2>1, <2>2, Parts, CountedMore
  <2> QED BY <2>3 DEF q
<1>5. up' => CountedIn(tx, fate, misdated, day, mem')
  <2> SUFFICES ASSUME up' PROVE CountedIn(tx, fate, misdated, day, mem')
    OBVIOUS
  <2>1. mem'.pending = Disk.pending /\ Sofar(mem', day) = Sofar(Disk, day)
    BY <1>3 DEF Sofar
  <2> QED BY <1>3, <2>1 DEF CountedIn
<1> QED BY <1>1, <1>2, <1>4, <1>5 DEF SumInv, CountInv

\* A death: the disk counts what it counted.
LEMMA CrashSums ==
  ASSUME ArmedInv, SumInv, Crash
  PROVE  SumInv'
<1>1. PICK n \in 0..Len(ledger) :
        /\ \A i \in (n + 1)..Len(ledger) : ~Critical(ledger[i])
        /\ ledger' = SubSeq(ledger, 1, n)
  BY DEF Crash, Idle
<1>2. UNCHANGED chainVars /\ up' = FALSE /\ misdated' = misdated
  BY DEF Crash
<1>3. tx' = tx /\ day' = day /\ Disk' = After(tx, ledger', day)
  <2>1. tx' = tx /\ day' = day
    BY <1>2 DEF chainVars, day
  <2> QED BY <2>1, DiskIs DEF Disk
<1>4. Dropped(ledger, n)
  BY <1>1 DEF Dropped, Critical
<1> DEFINE k == SubSeq(ledger, 1, n)
<1>5. Disk.pending \subseteq Disk'.pending /\ Disk'.lost = Disk.lost
  <2>1. Disk = After(tx, ledger, day) /\ Disk' = After(tx, k, day)
    BY <1>1, <1>3, DiskType
  <2> QED BY <1>4, <2>1, Parts, AfterDrop
<1>6. Disk'.day = day
  <2>1. k \in Seq(ArmedRecord(Known)) /\ Disk' = After(tx, k, day) /\ day \in Nat
    BY <1>1, <1>3, Parts
  <2> HIDE DEF k
  <2>2. After(tx, k, day).day = day
    BY <2>1, AfterDays
  <2> QED BY <2>1, <2>2
<1> QED BY <1>2, <1>5, <1>6, StillSums

\* A record that is about no transaction and no loss changes no count.
LEMMA AfterMark ==
  ASSUME NEW x, NEW X, NEW l \in Seq(ArmedRecord(X)), NEW d \in Nat, NEW r, r = Tripwire \/ r = Reset
  PROVE  LET s == After(x, l, d)
             u == After(x, Append(l, r), d) IN
         u.pending = s.pending /\ u.lost = s.lost /\ u.day = d
<1>1. r \in ArmedRecord(X) /\ r.kind \in {"tripwire", "reset"}
  BY RecordsAre DEF Tripwire, Reset
<1> DEFINE s == After(x, l, d)
<1>2. After(x, Append(l, r), d) = Take(x, s, r) /\ s \in States(X) /\ s.day = d
  BY <1>1, AfterAppend, AfterType, AfterDays
<1> HIDE DEF s
<1>3. Take(x, s, r).pending = Left(x, s.pending, r) /\ Take(x, s, r).lost = s.lost /\ Take(x, s, r).day = s.day
  BY <1>1, <1>2, TakeShape DEF LossKind
<1>4. Left(x, s.pending, r) = s.pending
  BY <1>1 DEF Left, LossKind
<1> QED BY <1>2, <1>3, <1>4 DEF s

\* A reset by the operator: it takes back a halt and no loss.
LEMMA ResetSums ==
  ASSUME ArmedInv, SumInv, OperatorReset
  PROVE  SumInv'
<1>1. UNCHANGED chainVars /\ misdated' = misdated /\ up' = up /\ ~up /\ ledger' = Append(ledger, Reset)
  BY DEF OperatorReset
<1>2. tx' = tx /\ day' = day /\ Disk' = After(tx, ledger', day) /\ Disk = After(tx, ledger, day)
  <2>1. tx' = tx /\ day' = day
    BY <1>1 DEF chainVars, day
  <2> QED BY <2>1, DiskIs DEF Disk
<1>3. Disk'.pending = Disk.pending /\ Disk'.lost = Disk.lost /\ Disk'.day = day
  <2> DEFINE r == Reset
             l == ledger
             X == Known
  <2>1. (r = Tripwire \/ r = Reset) /\ l \in Seq(ArmedRecord(X)) /\ day \in Nat
    BY Parts
  <2> HIDE DEF r, l, X
  <2>2. LET s == After(tx, l, day)
            u == After(tx, Append(l, r), day) IN
        u.pending = s.pending /\ u.lost = s.lost /\ u.day = day
    BY <2>1, AfterMark
  <2> QED BY <1>1, <1>2, <2>2 DEF r, l
<1> QED BY <1>1, <1>3, StillSums

\* What a boot takes the worker's state from, and leaves on disk.
LEMMA BeginDisk ==
  ASSUME ArmedInv, NEW l, NEW b \in 0..block, Begin(l, b)
  PROVE  /\ UNCHANGED chainVars /\ up' /\ day' = day
         /\ Disk'.pending = Disk.pending /\ Disk'.lost = Disk.lost /\ Disk'.day = day
         /\ mem'.pending = Disk.pending /\ mem'.day = day /\ mem'.lost = Disk.lost
<1> DEFINE s == Replay(l, day)
<1>1. /\ UNCHANGED chainVars /\ up' = TRUE
      /\ l = ledger \/ (l = Compacted /\ SameReplay(l, ledger))
      /\ mem'.pending = s.pending /\ mem'.day = s.day /\ mem'.lost = s.lost
      /\ ledger' \in {l, Append(l, Tripwire)}
  <2>1. l = ledger \/ (l = Compacted /\ SameReplay(l, ledger))
    BY DEF Begin
  <2>2. s \in States(Known)
    BY <2>1, BootFrom
  <2> HIDE DEF s
  <2>3. /\ UNCHANGED chainVars /\ up' = TRUE /\ \E z : mem' = [s EXCEPT !.trip = z]
        /\ ledger' \in {l, Append(l, Tripwire)}
    BY DEF Begin, s
  <2>4. mem'.pending = s.pending /\ mem'.day = s.day /\ mem'.lost = s.lost
    BY <2>2, <2>3 DEF States
  <2> QED BY <2>1, <2>3, <2>4 DEF s
<1>2. s = Disk
  BY <1>1 DEF SameReplay, Disk
<1>3. tx' = tx /\ day' = day /\ Disk' = After(tx, ledger', day) /\ s = After(tx, l, day)
  <2>1. tx' = tx /\ day' = day
    BY <1>1 DEF chainVars, day
  <2> QED BY <2>1, DiskIs, ReplayIs DEF Disk
<1>4. l \in Seq(ArmedRecord(Known))
  BY <1>1, BootFrom
<1>5. Disk'.pending = Disk.pending /\ Disk'.lost = Disk.lost /\ Disk'.day = day
  <2>1. CASE ledger' = l
    BY <1>2, <1>3, <2>1, DiskType
  <2>2. CASE ledger' = Append(l, Tripwire)
    <3> DEFINE r == Tripwire
               X == Known
    <3>1. (r = Tripwire \/ r = Reset) /\ l \in Seq(ArmedRecord(X)) /\ day \in Nat
      BY <1>4, Parts
    <3> HIDE DEF r, X
    <3>2. LET q == After(tx, l, day)
              u == After(tx, Append(l, r), day) IN
          u.pending = q.pending /\ u.lost = q.lost /\ u.day = day
      BY <3>1, AfterMark
    <3> QED BY <1>2, <1>3, <2>2, <3>2 DEF r
  <2> QED BY <1>1, <2>1, <2>2
<1> QED BY <1>1, <1>2, <1>3, <1>5, DiskType

\* A boot, of the ledger or of its compaction, counts what the disk counts.
LEMMA BeginSums ==
  ASSUME ArmedInv, SumInv, NEW l, NEW b \in 0..block, Begin(l, b)
  PROVE  SumInv'
<1>1. Disk.pending \subseteq Disk'.pending /\ misdated' = misdated
  BY BeginDisk DEF Begin
<1> QED BY <1>1, BeginDisk, StillSums

-----------------------------------------------------------------------------
(* What the ledger still calls pending and the worker does not.            *)

\* The reasons for a halt at hand: a trip, or one still to be written.
Alarms(m, o) == {i \in 1..Len(o.records) : o.records[i].kind = "tripwire"} \cup (IF m.trip THEN {0} ELSE {})

\* The nonce each sender will have when what is in hand is written.
Nexts(o, n) ==
  [s \in Sender |-> IF o # NoOutbox /\ o.sender = s /\ o.nonce # -1 THEN o.nonce ELSE n[s]]

\* The time at which what is in hand was judged.
Now == IF turn = "line" THEN line.now ELSE head.now

\* What has landed, and is pending in D but not in P, shares no nonce with P; and
\* with no alarm its nonce is used, and P is above it.
Ahead(x, f, D, P, A, N) ==
  \A u \in D \ P : f[u].is = "landed" =>
    /\ \A v \in P : Key(x, v) # Key(x, u)
    /\ A = {} => /\ x[u].nonce < N[x[u].sender]
                 /\ \A v \in P : x[v].sender = x[u].sender => x[v].nonce > x[u].nonce

\* What a record of a settlement says: a loss is dated now, and covers what landed
\* of its nonce; with no alarm it is of the lowest nonce pending, and that is used.
Sound(x, f, D, P, A, s, n, now, r) ==
  /\ r.kind \in LossKind \cup {"expired", "tripwire", "loss_cap"}
  /\ r.kind \in LossKind =>
       /\ r.day = now /\ Covers(x, f, r, D) /\ x[r.tx].sender = s
       /\ A = {} => x[r.tx].nonce < n /\ \A v \in P : x[v].sender = s => x[v].nonce >= x[r.tx].nonce

\* The parts, of the state: what the worker has ahead of the ledger, what it is about to
\* write, and the line that is about to send.
AllSound(x, f, D, P, A, s, n, now, l) == \A i \in 1..Len(l) : Sound(x, f, D, P, A, s, n, now, l[i])

AheadInv == up => Ahead(tx, fate, Disk.pending, mem.pending, Alarms(mem, outbox), Nexts(outbox, nonces))
OutInv == AllSound(tx, fate, Disk.pending, mem.pending, Alarms(mem, outbox), outbox.sender, outbox.nonce, Now, outbox.records)
LineInv == line.pc \in {"recorded", "underpriced"} => ~mem.trip /\ tx[line.tx].nonce = nonces[tx[line.tx].sender]

DoubtInv == SubInv /\ AheadInv /\ OutInv /\ LineInv

\* A record takes more from more, and adds nothing unless it submits.
LEMMA LeftLess ==
  ASSUME NEW x, NEW P, NEW r
  PROVE  /\ r.kind # "submitting" => Left(x, P, r) \subseteq P
         /\ \A Q : P \subseteq Q => Left(x, P, r) \subseteq Left(x, Q, r)
BY DEF Left, Beside

\* With no alarm there is neither a trip nor one to write.
LEMMA AlarmsAre ==
  ASSUME NEW m, NEW o
  PROVE  Alarms(m, o) = {} <=> ~m.trip /\ \A i \in 1..Len(o.records) : o.records[i].kind # "tripwire"
BY DEF Alarms

\* Nothing in hand.
LEMMA NothingInHand ==
  /\ \A m : Alarms(m, NoOutbox) = {} <=> ~m.trip
  /\ \A n : Nexts(NoOutbox, n) = [s \in Sender |-> n[s]]
  /\ \A x, f, D, P, A, s, n, now : AllSound(x, f, D, P, A, s, n, now, NoOutbox.records)
<1>1. NoOutbox.records = <<>>
  BY DEF NoOutbox
<1>2. 1..Len(NoOutbox.records) = {}
  BY <1>1
<1> QED BY <1>2 DEF Alarms, Nexts, AllSound

\* As the chain grows: what lands is still pending with the worker.
LEMMA AheadMoves ==
  ASSUME NEW x, NEW f, NEW z, IsChain(x, f, z), NEW b \in Nat, NEW g, NEW w, NEW c, Moves(x, f, z, b, x, g, w, c),
         NEW P, NoneMissing(x, f, z, b, P), NEW D, D \subseteq 1..Len(x), NEW A, NEW N, Ahead(x, f, D, P, A, N)
  PROVE  Ahead(x, g, D, P, A, N)
<1>1. ASSUME NEW u \in D \ P, g[u].is = "landed" PROVE f[u].is = "landed"
  <2> SUFFICES ASSUME f[u].is # "landed" PROVE FALSE
    OBVIOUS
  <2>1. u \in 1..Len(x)
    OBVIOUS
  <2>2. u \in MayLand(x, f, z, b)
    BY <1>1, <2>1, NewlyLanded
  <2> QED BY <2>1, <2>2 DEF MayLand, NoneMissing
<1> QED BY <1>1 DEF Ahead

\* A record of a loss is of a nonce that is used.
LEMMA LossPassed ==
  ASSUME NEW x, NEW f, NEW z, IsChain(x, f, z), NEW b \in Nat, History(x, f, z, b),
         NEW r \in ArmedRecord(1..Len(x)), Backed(x, f, z, b, r), r.kind \in LossKind
  PROVE  r.tx \in 1..Len(x) /\ Passed(x, f, z, b, r.tx)
<1>1. r.tx \in 1..Len(x)
  BY RecordKinds
<1>2. CASE r.kind = "landed"
  <2>1. f[r.tx].is = "landed"
    BY <1>2 DEF Backed
  <2>2. b \in Int
    OBVIOUS
  <2> QED BY <1>1, <2>1, <2>2, LandedBy
<1>3. CASE r.kind = "abandoned"
  BY <1>1, <1>3 DEF Backed
<1> QED BY <1>2, <1>3 DEF LossKind

\* So nothing lands of a nonce whose loss is being recorded.
LEMMA CoversMoves ==
  ASSUME NEW x, NEW f, NEW z, IsChain(x, f, z), NEW b \in Nat, NEW g, NEW w, NEW c, Moves(x, f, z, b, x, g, w, c),
         NEW r \in ArmedRecord(1..Len(x)), Backed(x, f, z, b, r), NEW D, D \subseteq 1..Len(x), Covers(x, f, r, D)
  PROVE  Covers(x, g, r, D)
<1> SUFFICES ASSUME r.kind \in LossKind, NEW u \in D, g[u].is = "landed", Key(x, u) = Key(x, r.tx)
             PROVE  x[u].worst <= r.loss
  BY DEF Covers
<1>1. Passed(x, f, z, b, r.tx)
  BY LossPassed DEF Moves
<1>2. u \in 1..Len(x) /\ Passed(x, f, z, b, u)
  BY <1>1 DEF Passed, Key
<1>3. f[u].is = "landed"
  <2> SUFFICES ASSUME f[u].is # "landed" PROVE FALSE
    OBVIOUS
  <2>1. u \in MayLand(x, f, z, b)
    BY <1>2, NewlyLanded
  <2> QED BY <1>2, <2>1 DEF MayLand
<1>4. g[u] = f[u]
  BY <1>2, <1>3 DEF Moves, Grew
<1> QED BY <1>3, <1>4 DEF Covers

\* Records that are backed stay sound: nothing of a nonce they settle lands any more.
LEMMA SoundMoves ==
  ASSUME NEW x, NEW f, NEW z, IsChain(x, f, z), NEW b \in Nat, NEW g, NEW w, NEW c, Moves(x, f, z, b, x, g, w, c),
         NEW l \in Seq(ArmedRecord(1..Len(x))), BackedAll(x, f, z, b, l), NEW D, D \subseteq 1..Len(x),
         NEW P, NEW A, NEW s, NEW n, NEW now, AllSound(x, f, D, P, A, s, n, now, l)
  PROVE  AllSound(x, g, D, P, A, s, n, now, l)
<1> SUFFICES ASSUME NEW i \in 1..Len(l) PROVE Sound(x, g, D, P, A, s, n, now, l[i])
  BY DEF AllSound
<1> DEFINE r == l[i]
<1>1. r \in ArmedRecord(1..Len(x)) /\ Backed(x, f, z, b, r) /\ Sound(x, f, D, P, A, s, n, now, r)
  BY DEF BackedAll, AllSound
<1> HIDE DEF r
<1>2. r.kind \in LossKind => Covers(x, g, r, D)
  BY <1>1, CoversMoves DEF Sound
<1>3. Sound(x, g, D, P, A, s, n, now, r)
  BY <1>1, <1>2 DEF Sound
<1> QED BY <1>3 DEF r

\* What a step makes of what the ledger calls pending.
LEMMA DiskTakes ==
  ASSUME ArmedInv, MovesNow, NEW r \in ArmedRecord(Known')
  PROVE  /\ ledger' = ledger => Disk'.pending = Disk.pending
         /\ ledger' = Append(ledger, r) => Disk'.pending = Left(tx', Disk.pending, r)
<1> DEFINE y == tx'
           X == Known'
           e == day'
           l == ledger
           q == After(y, l, e)
<1>1. q \in States(X) /\ q.pending = Disk.pending
  BY DiskMoves
<1>2. Disk' = After(y, ledger', e)
  BY DiskIs DEF Disk
<1>3. l \in Seq(ArmedRecord(X)) /\ e \in Nat
  BY Parts, TypesGrow DEF MovesNow, Moves, Grows
<1>4. CASE ledger' = Append(ledger, r)
  <2>1. r \in ArmedRecord(X) /\ Disk' = After(y, Append(l, r), e)
    BY <1>2, <1>4
  <2> HIDE DEF y, X, e, l
  <2>2. After(y, Append(l, r), e) = Take(y, After(y, l, e), r)
    BY <1>3, <2>1, AfterAppend
  <2>3. Take(y, q, r).pending = Left(y, q.pending, r)
    <3> HIDE DEF q
    <3> QED BY <1>1, <2>1, TakeShape
  <2>4. Disk'.pending = Left(y, Disk.pending, r)
    BY <1>1, <2>1, <2>2, <2>3
  <2>5. ledger' # ledger
    BY <1>3, <1>4 DEF l
  <2> QED BY <2>4, <2>5 DEF y
<1>5. CASE ledger' = ledger /\ ledger' # Append(ledger, r)
  BY <1>1, <1>2, <1>5
<1> QED BY <1>4, <1>5

\* What the parts of DoubtInv need of the type invariant.
LEMMA DoubtTypes ==
  ASSUME ArmedInv
  PROVE  /\ Disk.pending \subseteq 1..Len(tx) /\ mem.pending \subseteq 1..Len(tx)
         /\ outbox.records \in Seq(ArmedRecord(1..Len(tx))) /\ BackedAll(tx, fate, stolen, block, outbox.records)
         /\ outbox.nonce \in -1..MostNonce /\ mem.trip \in BOOLEAN
         /\ up => NoneMissing(tx, fate, stolen, block, mem.pending)
         /\ ~up => outbox = NoOutbox /\ line.pc = "none" /\ turn = "free"
BY Parts, DiskType DEF Known, RecordsInv, Outboxes, States, PendingInv, TurnInv

\* A step without a record.
LEMMA DoubtQuiet ==
  ASSUME ArmedInv, DoubtInv, MovesNow, tx' = tx, ledger' = ledger, up' = up, mem'.pending = mem.pending,
         mem'.trip = mem.trip, nonces' = nonces, outbox' = outbox, outbox = NoOutbox \/ Now' = Now, LineInv'
  PROVE  DoubtInv'
<1> DEFINE D == Disk.pending
           P == mem.pending
           A == Alarms(mem, outbox)
           N == Nexts(outbox, nonces)
           l == outbox.records
           s == outbox.sender
           n == outbox.nonce
<1>1. Disk'.pending = D
  <2>1. Tripwire \in ArmedRecord(Known')
    BY RecordsAre
  <2> QED BY <2>1, DiskTakes
<1>2. Alarms(mem', outbox') = A
  BY DEF Alarms
<1>3. Nexts(outbox', nonces') = N
  OBVIOUS
<1>4. /\ IsChain(tx, fate, stolen) /\ block \in Nat /\ Moves(tx, fate, stolen, block, tx, fate', stolen', block')
      /\ D \subseteq 1..Len(tx) /\ l \in Seq(ArmedRecord(1..Len(tx))) /\ BackedAll(tx, fate, stolen, block, l)
      /\ up => NoneMissing(tx, fate, stolen, block, P)
  BY Parts, DoubtTypes DEF MovesNow
<1>5. (up => P \subseteq D) /\ (up => Ahead(tx, fate, D, P, A, N)) /\ AllSound(tx, fate, D, P, A, s, n, Now, l)
  BY DEF DoubtInv, SubInv, AheadInv, OutInv
<1> HIDE DEF D, P, A, N, l, s, n
<1>6. up => Ahead(tx, fate', D, P, A, N)
  BY <1>4, <1>5, AheadMoves
<1>7. AllSound(tx, fate', D, P, A, s, n, Now', l)
  <2>1. CASE outbox = NoOutbox
    BY <2>1, NothingInHand DEF l
  <2>2. CASE Now' = Now
    <3>1. AllSound(tx, fate', D, P, A, s, n, Now, l)
      BY <1>4, <1>5, SoundMoves
    <3> QED BY <2>2, <3>1
  <2> QED BY <2>1, <2>2
<1>8. SubInv'
  BY <1>1, <1>5 DEF SubInv, D, P
<1>9. AheadInv'
  BY <1>1, <1>2, <1>3, <1>6 DEF AheadInv, P
<1>10. OutInv'
  BY <1>1, <1>2, <1>7 DEF OutInv, P, l, s, n
<1> QED BY <1>8, <1>9, <1>10 DEF DoubtInv

\* The state after a record, and the record in the ledger or not.
LEMMA RecordDoes ==
  ASSUME ArmedInv, MovesNow, tx' = tx, NEW r \in ArmedRecord(Known), NEW now \in 0..day, Record(r, now)
  PROVE  /\ Disk'.pending = Disk.pending \/ Disk'.pending = Left(tx, Disk.pending, r)
         /\ mem'.pending = Left(tx, mem.pending, r)
         /\ mem'.trip <=> r.kind = "tripwire" \/ (mem.trip /\ r.kind # "reset")
<1>1. r \in ArmedRecord(Known')
  BY DEF Known
<1>2. Disk'.pending = Disk.pending \/ Disk'.pending = Left(tx, Disk.pending, r)
  BY <1>1, DiskTakes DEF Record
<1> DEFINE s == Roll(mem, now)
<1>3. mem' = Take(tx, s, r)
  BY ApplyIs DEF Record
<1>4. s \in States(Known) /\ s.pending = mem.pending /\ s.trip = mem.trip
  <2>1. now \in Nat
    BY Parts
  <2> QED BY <2>1, Parts, RollShape
<1> HIDE DEF s
<1>5. /\ Take(tx, s, r).pending = Left(tx, s.pending, r)
      /\ Take(tx, s, r).trip <=> r.kind = "tripwire" \/ (s.trip /\ r.kind # "reset")
  BY <1>4, TakeShape
<1> QED BY <1>2, <1>3, <1>4, <1>5

\* The node's answer to a send.
LEMMA AnsweredDoubt ==
  ASSUME ArmedInv, DoubtInv, Answered
  PROVE  DoubtInv' /\ MovesNow
<1>1. line.pc = "recorded" /\ fate' = [fate EXCEPT ![line.tx].is = "held"]
      /\ line' = [NoLine EXCEPT !.now = line.now] /\ turn' = "free"
      /\ ledger' = ledger /\ mem' = mem /\ nonces' = nonces /\ outbox' = outbox /\ up' = up
      /\ tx' = tx /\ block' = block /\ stolen' = stolen
  BY DEF Answered, LineDone
<1>2. line.tx \in 1..Len(tx) /\ fate[line.tx].is = "none" /\ outbox = NoOutbox
  BY <1>1, Parts DEF TurnInv, Known
<1>3. MovesNow
  <2> DEFINE t == line.tx
  <2>1. t \in 1..Len(tx) /\ fate[t].is \notin {"landed", "dead"} /\ fate' = [fate EXCEPT ![t].is = "held"]
    BY <1>1, <1>2
  <2> HIDE DEF t
  <2> QED BY <1>1, <2>1, MovesFate
<1>4. LineInv'
  <2>1. line'.pc = "none"
    BY <1>1, Parts, LineOver
  <2> QED BY <2>1 DEF LineInv
<1> QED BY <1>1, <1>2, <1>3, <1>4, DoubtQuiet

\* What the chain does by itself: the worker's hands and the ledger are left alone.
LEMMA ChainDoubt ==
  ASSUME ArmedInv, DoubtInv, ChainStep
  PROVE  DoubtInv'
<1>1. MovesNow /\ tx' = tx
  BY MovesChain
<1>2. /\ ledger' = ledger /\ mem' = mem /\ nonces' = nonces /\ outbox' = outbox /\ up' = up /\ turn' = turn
      /\ line' = line /\ head' = head
  BY DEF ChainStep, workerVars
<1>3. LineInv' /\ Now' = Now
  BY <1>1, <1>2 DEF LineInv, DoubtInv, Now
<1> QED BY <1>1, <1>2, <1>3, DoubtQuiet

\* A line that gives up writes that its transaction was refused.
LEMMA GivesUpDoubt ==
  ASSUME ArmedInv, DoubtInv, GivesUp
  PROVE  DoubtInv' /\ MovesNow
<1>1. line.pc \in {"underpriced", "low"} /\ line' = [NoLine EXCEPT !.now = line.now]
      /\ ledger' = ledger /\ mem' = mem /\ nonces' = nonces /\ outbox' = outbox /\ up' = up
      /\ UNCHANGED chainVars
  BY DEF GivesUp, LineDone
<1>2. outbox = NoOutbox
  BY <1>1, Parts DEF TurnInv
<1>3. MovesNow /\ tx' = tx
  BY <1>1, MovesNot DEF chainVars
<1>4. LineInv'
  <2>1. line'.pc = "none"
    BY <1>1, Parts, LineOver
  <2> QED BY <2>1 DEF LineInv
<1> QED BY <1>1, <1>2, <1>3, <1>4, DoubtQuiet

\* The head task's readings.
LEMMA HeadReadsDoubt ==
  ASSUME ArmedInv, DoubtInv, NEW asked, NEW blind, HeadReads(block, asked, blind)
  PROVE  DoubtInv' /\ MovesNow
<1>1. head.pc = "none" /\ mem' = Roll(mem, day) /\ ledger' = ledger /\ nonces' = nonces /\ turn' = turn
      /\ line' = line /\ outbox' = outbox /\ up' = up /\ UNCHANGED chainVars
  BY DEF HeadReads
<1>2. outbox = NoOutbox \/ Now' = Now
  BY <1>1, Parts DEF TurnInv, Now
<1>3. MovesNow /\ tx' = tx
  BY <1>1, MovesNot DEF chainVars
<1>4. mem'.pending = mem.pending /\ mem'.trip = mem.trip
  BY <1>1, Parts, RollShape
<1>5. LineInv'
  BY <1>1, <1>3, <1>4 DEF LineInv, DoubtInv
<1> QED BY <1>1, <1>2, <1>3, <1>4, <1>5, DoubtQuiet

\* A refused transaction is not one that landed.
LEMMA RefusedDoubt ==
  ASSUME ArmedInv, DoubtInv, NEW why \in {"low", "underpriced", "other"}, RefusedFor(why)
  PROVE  DoubtInv' /\ MovesNow
<1> DEFINE t == line.tx
           r == Refused(t)
           D == Disk.pending
           P == mem.pending
           N == Nexts(outbox, nonces)
           A == Alarms(mem, outbox)
<1>1. /\ line.pc = "recorded" /\ fate' = [fate EXCEPT ![t].is = "dead"] /\ Record(r, line.now)
      /\ \/ line' = [NoLine EXCEPT !.now = line.now] /\ why = "other"
         \/ line' = [line EXCEPT !.pc = why]
      /\ nonces' = nonces /\ outbox' = outbox /\ up' = up /\ tx' = tx /\ block' = block /\ stolen' = stolen
  BY DEF RefusedFor, LineDone
<1>2. t \in 1..Len(tx) /\ fate[t].is = "none" /\ outbox = NoOutbox /\ up
  BY <1>1, Parts DEF TurnInv, Known
<1>3. MovesNow
  <2> HIDE DEF t
  <2>1. fate[t].is \notin {"landed", "dead"}
    BY <1>2
  <2> QED BY <1>1, <1>2, <2>1, MovesFate
<1>4. r \in ArmedRecord(Known) /\ r.kind = "refused" /\ r.tx = t /\ line.now \in 0..day
  BY <1>2, Parts, RecordsAre DEF Refused, Known
<1> HIDE DEF r, t
<1>5. /\ Disk'.pending = D \/ Disk'.pending = Left(tx, D, r)
      /\ mem'.pending = Left(tx, P, r) /\ (mem'.trip <=> mem.trip)
  BY <1>1, <1>3, <1>4, RecordDoes
<1>6. Left(tx, P, r) = P \ {t} /\ Left(tx, D, r) = D \ {t}
  BY <1>4 DEF Left
<1>7. fate'[t].is = "dead" /\ \A u \in 1..Len(tx) : u # t => fate'[u] = fate[u]
  <2>1. fate \in [Tx -> Fates] /\ 1..Len(tx) \subseteq Tx
    BY Parts, TxOf DEF IsChain
  <2> QED BY <1>1, <1>2, <2>1 DEF Fates
<1>8. D \subseteq 1..Len(tx) /\ P \subseteq D /\ Ahead(tx, fate, D, P, A, N)
  BY <1>2, DoubtTypes DEF DoubtInv, SubInv, AheadInv
<1>9. (Alarms(mem', outbox') = {} => A = {}) /\ Nexts(outbox', nonces') = N
  BY <1>1, <1>2, <1>5, NothingInHand
<1> HIDE DEF D, P, A, N
<1>10. SubInv'
  BY <1>5, <1>6, <1>8 DEF SubInv
<1>11. AheadInv'
  <2>1. Disk'.pending \subseteq D /\ mem'.pending = P \ {t}
    BY <1>5, <1>6
  <2>2. \A u \in Disk'.pending \ mem'.pending : fate'[u].is = "landed" => u \in D \ P /\ fate[u].is = "landed"
    BY <1>7, <1>8, <2>1
  <2>3. Ahead(tx, fate', Disk'.pending, mem'.pending, Alarms(mem', outbox'), N)
    BY <1>8, <1>9, <2>1, <2>2 DEF Ahead
  <2> QED BY <1>1, <1>9, <2>3 DEF AheadInv
<1>12. OutInv'
  BY <1>1, <1>2, NothingInHand DEF OutInv
<1>13. LineInv'
  <2>1. CASE line' = [NoLine EXCEPT !.now = line.now]
    <3>1. line'.pc = "none"
      BY <2>1, Parts, LineOver
    <3> QED BY <3>1 DEF LineInv
  <2>2. CASE line' = [line EXCEPT !.pc = why]
    <3>1. line'.tx = line.tx
      BY <2>2, Parts DEF Lines
    <3>2. ~mem.trip /\ tx[line.tx].nonce = nonces[tx[line.tx].sender]
      BY <1>1 DEF LineInv, DoubtInv
    <3> QED BY <1>1, <1>5, <3>1, <3>2 DEF LineInv
  <2> QED BY <1>1, <2>1, <2>2
<1> QED BY <1>3, <1>10, <1>11, <1>12, <1>13 DEF DoubtInv

\* A transaction written ahead is at the nonce that is next, with no trip.
LEMMA WriteAheadDoubt ==
  ASSUME ArmedInv, DoubtInv, up, outbox = NoOutbox, ~mem.trip,
         NEW s \in Sender, NEW n \in Nat, n = nonces[s], NEW b \in Int, NEW w \in Worst,
         NEW now \in 0..day, NEW hd \in Int, WriteAhead(s, n, b, w, now, hd)
  PROVE  DoubtInv'
<1> DEFINE t == Len(tx) + 1
           e == [sender |-> s, nonce |-> n, bound |-> b, worst |-> w]
           r == Submitting(t)
           D == Disk.pending
           P == mem.pending
           N == Nexts(outbox, nonces)
           A == Alarms(mem, outbox)
<1>1. /\ t <= MaxTx /\ tx' = Append(tx, e) /\ ledger' = Append(ledger, r) /\ mem' = Apply(Roll(mem, now), r)
      /\ line' = [pc |-> "recorded", tx |-> t, now |-> now, head |-> hd]
      /\ up' = up /\ fate' = fate /\ block' = block /\ stolen' = stolen /\ nonces' = nonces /\ outbox' = outbox
  BY DEF WriteAhead
<1>2. e \in Txn /\ e.sender = s /\ e.nonce = n
  BY DEF Txn
<1>3. Len(tx) \in Nat /\ D \subseteq 1..Len(tx) /\ P \subseteq D /\ Ahead(tx, fate, D, P, A, N)
  BY Parts, DoubtTypes DEF DoubtInv, SubInv, AheadInv
<1>4. MovesNow /\ Len(tx') = t /\ tx'[t] = e /\ \A u \in 1..Len(tx) : tx'[u] = tx[u]
  <2> HIDE DEF e
  <2>1. MovesNow /\ Len(tx') = Len(tx) + 1 /\ tx'[Len(tx')] = e
    BY <1>1, <1>2, MovesTx
  <2>2. \A u \in 1..Len(tx) : tx'[u] = tx[u]
    BY <2>1 DEF MovesNow, Moves, Grew
  <2> QED BY <2>1, <2>2
<1>5. r.kind = "submitting" /\ r.tx = t /\ r \in ArmedRecord(Known')
  <2>1. t \in Known'
    BY <1>3, <1>4 DEF Known
  <2> QED BY <2>1, RecordsAre DEF Submitting
<1> HIDE DEF r, e, t
<1>6. Disk'.pending = D \cup {t}
  BY <1>1, <1>4, <1>5, DiskTakes DEF Left
<1>7. mem'.pending = P \cup {t} /\ ~mem'.trip
  <2> DEFINE m == Roll(mem, now)
  <2>1. m \in States(Known') /\ m.pending = P /\ m.trip = mem.trip
    <3>1. mem \in States(Known') /\ now \in Nat
      BY <1>4, Parts, TypesGrow DEF MovesNow, Moves, Grows
    <3> QED BY <3>1, RollShape
  <2>2. mem' = Take(tx, m, r)
    BY <1>1, ApplyIs
  <2> HIDE DEF m
  <2>3. /\ Take(tx, m, r).pending = Left(tx, m.pending, r)
        /\ Take(tx, m, r).trip <=> r.kind = "tripwire" \/ (m.trip /\ r.kind # "reset")
    BY <1>5, <2>1, TakeShape
  <2> QED BY <1>5, <2>1, <2>2, <2>3 DEF Left
<1>8. A = {} /\ Nexts(outbox', nonces') = N /\ \A q \in Sender : N[q] = nonces[q]
  BY <1>1, NothingInHand
<1> HIDE DEF A, N, D, P
<1>9. SubInv'
  BY <1>3, <1>6, <1>7 DEF SubInv
<1>10. AheadInv'
  <2> SUFFICES ASSUME NEW u \in Disk'.pending \ mem'.pending, fate[u].is = "landed"
               PROVE  /\ \A v \in mem'.pending : Key(tx', v) # Key(tx', u)
                      /\ tx'[u].nonce < N[tx'[u].sender]
                      /\ \A v \in mem'.pending : tx'[v].sender = tx'[u].sender => tx'[v].nonce > tx'[u].nonce
    BY <1>1, <1>8 DEF AheadInv, Ahead
  <2>1. u \in D \ P /\ u \in 1..Len(tx) /\ tx'[u] = tx[u]
    BY <1>3, <1>4, <1>6, <1>7
  <2>2. /\ \A v \in P : Key(tx, v) # Key(tx, u)
        /\ tx[u].nonce < N[tx[u].sender]
        /\ \A v \in P : tx[v].sender = tx[u].sender => tx[v].nonce > tx[u].nonce
    BY <1>3, <1>8, <2>1 DEF Ahead
  <2>3. \A v \in P : tx'[v] = tx[v]
    BY <1>3, <1>4
  <2>4. tx'[t].sender = s /\ tx'[t].nonce = nonces[s]
    BY <1>2, <1>4
  <2>5. tx[u].sender = s => tx[u].nonce < nonces[s] /\ tx[u].nonce \in Nat /\ nonces[s] \in Nat
    <3>1. tx[u].nonce \in Nat
      BY <2>1, Parts, TxOf
    <3> QED BY <1>8, <2>2, <3>1
  <2>6. Key(tx', t) # Key(tx', u)
    BY <2>1, <2>4, <2>5 DEF Key
  <2>7. tx'[t].sender = tx'[u].sender => tx'[t].nonce > tx'[u].nonce
    BY <2>1, <2>4, <2>5
  <2> QED BY <1>7, <2>1, <2>2, <2>3, <2>6, <2>7 DEF Key
<1>11. OutInv'
  BY <1>1, NothingInHand DEF OutInv
<1>12. LineInv'
  BY <1>1, <1>2, <1>4, <1>7 DEF LineInv
<1> QED BY <1>9, <1>10, <1>11, <1>12 DEF DoubtInv

\* The least of a set of numbers.
LEMMA LeastOf ==
  ASSUME NEW s, s \subseteq Nat, s # {}
  PROVE  Min(s) \in s /\ \A y \in s : Min(s) <= y
<1>1. PICK c \in s : TRUE
  OBVIOUS
<1> DEFINE k == {c - v : v \in {u \in s : u <= c}}
<1>2. c \in Nat /\ k \subseteq 0..c /\ c - c \in k
  OBVIOUS
<1>3. Max(k) \in k /\ \A y \in k : y <= Max(k)
  <2> HIDE DEF k
  <2> QED BY <1>2, MaxUpTo
<1>4. PICK m \in s : m <= c /\ Max(k) = c - m
  BY <1>3
<1>5. \A y \in s : m <= y
  <2> SUFFICES ASSUME NEW y \in s, y < m PROVE FALSE
    OBVIOUS
  <2>1. y <= c /\ y \in Nat /\ m \in Nat
    BY <1>2, <1>4
  <2>2. c - y \in k
    BY <2>1
  <2>3. c - y <= c - m
    BY <1>3, <1>4, <2>2
  <2> QED BY <1>2, <2>1, <2>3
<1>6. \E x \in s : \A y \in s : x <= y
  BY <1>5
<1> QED BY <1>6 DEF Min

\* A sound record with fewer transactions pending, and more alarms.
LEMMA SoundLess ==
  ASSUME NEW x, NEW f, NEW D, NEW P, NEW A, NEW s, NEW n, NEW now, NEW r, Sound(x, f, D, P, A, s, n, now, r),
         NEW E, E \subseteq D, NEW Q, Q \subseteq P, NEW B, B = {} => A = {}
  PROVE  Sound(x, f, E, Q, B, s, n, now, r)
BY DEF Sound, Covers

\* What is written leaves the rest as sound as it was.
LEMMA WriteDoubt ==
  ASSUME ArmedInv, DoubtInv, Write
  PROVE  DoubtInv'
<1> DEFINE r == outbox.records[1]
           rest == AfterWrite(r)
           D == Disk.pending
           P == mem.pending
           N == Nexts(outbox, nonces)
           A == Alarms(mem, outbox)
           s == outbox.sender
           n == outbox.nonce
           l == outbox.records
<1>1. /\ outbox # NoOutbox /\ Record(r, Now)
      /\ \/ /\ rest # <<>> /\ outbox' = [outbox EXCEPT !.records = rest]
            /\ UNCHANGED <<nonces, ready, turn, line, head>>
         \/ /\ rest = <<>> /\ outbox' = NoOutbox
            /\ nonces' = IF n = -1 THEN nonces ELSE [nonces EXCEPT ![s] = n]
            /\ \/ turn = "line" /\ LineDone
               \/ turn = "head" /\ UNCHANGED line
      /\ up' = up /\ UNCHANGED chainVars
  BY DEF Write, Now
<1>2. /\ turn \in {"line", "head"} /\ l # <<>> /\ s \in Sender /\ up
      /\ turn = "line" => line.pc = "settling"
      /\ turn = "head" => line.pc = "none"
  BY <1>1, Parts DEF TurnInv
<1>3. MovesNow /\ tx' = tx /\ fate' = fate
  BY <1>1, MovesNot DEF chainVars
<1>4. l \in Seq(ArmedRecord(Known)) /\ r \in ArmedRecord(Known) /\ Backed(tx, fate, stolen, block, r) /\ Len(l) \in Nat /\ 1 \in 1..Len(l)
      /\ Tail(l) \in Seq(ArmedRecord(Known)) /\ \A i \in 1..Len(Tail(l)) : i + 1 \in 1..Len(l) /\ Tail(l)[i] = l[i + 1]
  <2>1. l \in Seq(ArmedRecord(Known)) /\ BackedAll(tx, fate, stolen, block, l)
    BY Parts DEF Outboxes, RecordsInv
  <2>2. Len(l) \in Nat /\ 1 \in 1..Len(l) /\ \A i \in 1..Len(Tail(l)) : i + 1 \in 1..Len(l) /\ Tail(l)[i] = l[i + 1]
    BY <1>2, <2>1
  <2> QED BY <1>2, <2>1, <2>2, BackedTail
<1>5. /\ P \subseteq D /\ D \subseteq 1..Len(tx) /\ Ahead(tx, fate, D, P, A, N) /\ AllSound(tx, fate, D, P, A, s, n, Now, l)
  BY <1>2, DoubtTypes DEF DoubtInv, SubInv, AheadInv, OutInv
<1>6. Sound(tx, fate, D, P, A, s, n, Now, r)
  BY <1>4, <1>5 DEF AllSound
<1>7. r.kind \in LossKind \cup {"expired", "tripwire", "loss_cap"}
  BY <1>6 DEF Sound
<1>8. Now \in 0..day /\ n \in -1..MostNonce /\ nonces \in [Sender -> 0..MostNonce]
  BY Parts DEF Now, Outboxes
<1>9. /\ Disk'.pending = D \/ Disk'.pending = Left(tx, D, r)
      /\ mem'.pending = Left(tx, P, r)
      /\ mem'.trip <=> r.kind = "tripwire" \/ mem.trip
  <2> HIDE DEF r, D, P
  <2>1. Record(r, Now) /\ r \in ArmedRecord(Known)
    BY <1>1, <1>4
  <2>2. r.kind # "reset"
    BY <1>7 DEF LossKind
  <2>3. /\ Disk'.pending = Disk.pending \/ Disk'.pending = Left(tx, Disk.pending, r)
        /\ mem'.pending = Left(tx, mem.pending, r)
        /\ mem'.trip <=> r.kind = "tripwire" \/ (mem.trip /\ r.kind # "reset")
    BY <1>3, <1>8, <2>1, RecordDoes
  <2> QED BY <2>2, <2>3 DEF D, P
<1>10. Left(tx, P, r) \subseteq P /\ Left(tx, D, r) \subseteq D /\ Left(tx, P, r) \subseteq Left(tx, D, r)
  <2>1. r.kind # "submitting"
    BY <1>7 DEF LossKind
  <2> QED BY <1>5, <2>1, LeftLess
<1>11. \A i \in 1..Len(rest) : rest[i].kind = "loss_cap" \/ \E k \in 1..Len(l) : rest[i] = l[k]
  <2> DEFINE cap == LossCap(mem'.day)
  <2>1. \A i \in 1..Len(Tail(l)) : \E k \in 1..Len(l) : Tail(l)[i] = l[k]
    BY <1>4
  <2>2. CASE rest = Tail(l)
    BY <2>1, <2>2
  <2>3. CASE rest = <<cap>> \o Tail(l)
    <3> DEFINE q == Tail(l)
    <3>1. cap.kind = "loss_cap" /\ Len(q) \in Nat
      BY <1>4 DEF LossCap
    <3> HIDE DEF cap, q
    <3>2. rest = <<cap>> \o q /\ q \in Seq(ArmedRecord(Known))
      BY <1>4, <2>3 DEF q
    <3> HIDE DEF rest
    <3>3. \A i \in 1..Len(rest) : rest[i] = cap \/ (i - 1 \in 1..Len(q) /\ rest[i] = q[i - 1])
      BY <3>2
    <3> QED BY <2>1, <3>1, <3>3 DEF q
  <2> QED BY <2>2, <2>3 DEF AfterWrite
<1>12. r.kind # "tripwire" => \A k \in 1..Len(l) : l[k].kind = "tripwire" => \E i \in 1..Len(rest) : rest[i].kind = "tripwire"
  <2> SUFFICES ASSUME r.kind # "tripwire", NEW k \in 1..Len(l), l[k].kind = "tripwire"
               PROVE  \E i \in 1..Len(rest) : rest[i].kind = "tripwire"
    OBVIOUS
  <2> DEFINE q == Tail(l)
             cap == LossCap(mem'.day)
  <2>1. k - 1 \in 1..Len(q) /\ q[k - 1] = l[k] /\ Len(q) \in Nat
    BY <1>2, <1>4
  <2>2. CASE rest = q
    BY <2>1, <2>2
  <2>3. CASE rest = <<cap>> \o q
    <3>1. rest = <<cap>> \o q /\ q \in Seq(ArmedRecord(Known))
      BY <1>4, <2>3
    <3> HIDE DEF rest, q, cap
    <3>2. k \in 1..Len(rest) /\ rest[k] = q[k - 1]
      BY <2>1, <3>1
    <3> QED BY <2>1, <3>2
  <2> QED BY <2>2, <2>3 DEF AfterWrite
<1> DEFINE B == Alarms(mem', outbox')
<1>13. outbox'.records = rest /\ (rest # <<>> => outbox'.sender = s /\ outbox'.nonce = n /\ nonces' = nonces /\ outbox' # NoOutbox /\ Now' = Now)
       /\ (rest = <<>> => outbox' = NoOutbox)
  <2>1. CASE rest = <<>>
    <3>1. outbox' = NoOutbox /\ NoOutbox.records = <<>>
      BY <1>1, <2>1 DEF NoOutbox
    <3> QED BY <2>1, <3>1
  <2>2. CASE rest # <<>>
    <3> HIDE DEF rest
    <3>1. outbox' = [outbox EXCEPT !.records = rest] /\ UNCHANGED <<nonces, turn, line, head>>
      BY <1>1, <2>2
    <3>2. outbox'.records = rest /\ outbox'.sender = s /\ outbox'.nonce = n
      BY <3>1, Parts DEF Outboxes
    <3>3. NoOutbox.records = <<>>
      BY DEF NoOutbox
    <3> QED BY <2>2, <3>1, <3>2, <3>3 DEF Now
  <2> QED BY <2>1, <2>2
<1>14. B = {} => A = {}
  <2> SUFFICES ASSUME B = {} PROVE A = {}
    OBVIOUS
  <2>1. ~mem'.trip /\ \A i \in 1..Len(rest) : rest[i].kind # "tripwire"
    <3>1. ~mem'.trip /\ \A i \in 1..Len(outbox'.records) : outbox'.records[i].kind # "tripwire"
      BY AlarmsAre
    <3> HIDE DEF rest
    <3> QED BY <1>13, <3>1
  <2>2. ~mem.trip /\ r.kind # "tripwire"
    BY <1>9, <2>1
  <2>3. \A k \in 1..Len(l) : l[k].kind # "tripwire"
    <3> HIDE DEF r, l, rest
    <3> QED BY <1>12, <2>1, <2>2
  <2> QED BY <2>2, <2>3, AlarmsAre
<1>15. Nexts(outbox', nonces') = N
  <2>1. CASE rest = <<>>
    <3>1. outbox' = NoOutbox /\ nonces' = IF n = -1 THEN nonces ELSE [nonces EXCEPT ![s] = n]
      BY <1>1, <2>1
    <3>2. \A q \in Sender : nonces'[q] = N[q]
      BY <1>1, <1>2, <1>8, <3>1 DEF Nexts
    <3>3. DOMAIN N = Sender
      BY DEF Nexts
    <3>4. Nexts(outbox', nonces') = [q \in Sender |-> nonces'[q]]
      BY <3>1 DEF Nexts
    <3> QED BY <3>2, <3>4 DEF Nexts
  <2>2. CASE rest # <<>>
    <3> HIDE DEF rest
    <3> QED BY <1>1, <1>13, <2>2 DEF Nexts
  <2> QED BY <2>1, <2>2
<1>16. SubInv'
  BY <1>5, <1>9, <1>10 DEF SubInv
<1> HIDE DEF rest, B, r, N, A, s, n, l, D, P
<1>17. AheadInv'
  <2> DEFINE E == Disk'.pending
             Q == mem'.pending
  <2>1. E \subseteq D /\ Q \subseteq P /\ Q = Left(tx, P, r)
    BY <1>9, <1>10
  <2>2. SUFFICES ASSUME NEW u \in E \ Q, fate[u].is = "landed"
                 PROVE  /\ \A v \in Q : Key(tx, v) # Key(tx, u)
                        /\ B = {} => /\ tx[u].nonce < N[tx[u].sender]
                                     /\ \A v \in Q : tx[v].sender = tx[u].sender => tx[v].nonce > tx[u].nonce
    BY <1>3, <1>15 DEF AheadInv, Ahead, B
  <2>3. CASE u \notin P
    BY <1>5, <1>14, <2>1, <2>2, <2>3 DEF Ahead
  <2>4. CASE u \in P
    <3>1. u \in P /\ u \notin Left(tx, P, r) /\ u \in D /\ u \in 1..Len(tx)
      BY <1>5, <2>1, <2>2, <2>4
    <3>2. r.kind = "expired" => u # r.tx
      BY <1>4, <2>2 DEF Backed, Lapsed
    <3>3. r.kind \in LossKind /\ Key(tx, u) = Key(tx, r.tx)
      BY <1>7, <3>1, <3>2 DEF Left, Beside, Key, LossKind
    <3>4. \A v \in Q : v \in P /\ Key(tx, v) # Key(tx, u)
      BY <2>1, <3>3 DEF Left, Beside, Key, LossKind
    <3>5. ASSUME B = {}
          PROVE  /\ tx[u].nonce < N[tx[u].sender]
                 /\ \A v \in Q : tx[v].sender = tx[u].sender => tx[v].nonce > tx[u].nonce
      <4>1. /\ tx[r.tx].sender = s /\ tx[r.tx].nonce < n
            /\ \A v \in P : tx[v].sender = s => tx[v].nonce >= tx[r.tx].nonce
        BY <1>6, <1>14, <3>3, <3>5 DEF Sound
      <4>2. tx[u].sender = s /\ tx[u].nonce = tx[r.tx].nonce /\ tx[u].nonce \in Nat
        BY <3>1, <3>3, <4>1, Parts, TxOf DEF Key
      <4>3. N[s] = n
        BY <1>1, <1>2, <1>8, <4>1, <4>2, MostIsNat DEF N, Nexts, s, n
      <4>4. \A v \in Q : tx[v].sender = s => tx[v].nonce # tx[u].nonce
        BY <3>4, <4>2 DEF Key
      <4>5. \A v \in Q : tx[v].nonce \in Nat
        BY <1>5, <2>1, Parts, TxOf
      <4> QED BY <3>4, <4>1, <4>2, <4>3, <4>4, <4>5
    <3> QED BY <3>4, <3>5
  <2> QED BY <2>3, <2>4
<1>18. OutInv'
  <2>1. CASE rest = <<>>
    BY <1>13, <2>1, NothingInHand DEF OutInv
  <2>2. CASE rest # <<>>
    <3>1. Disk'.pending \subseteq D /\ mem'.pending \subseteq P
      BY <1>9, <1>10
    <3>2. ASSUME NEW i \in 1..Len(rest)
          PROVE  Sound(tx, fate, Disk'.pending, mem'.pending, B, s, n, Now, rest[i])
      <4>1. CASE rest[i].kind = "loss_cap"
        BY <4>1 DEF Sound, LossKind
      <4>2. CASE \E k \in 1..Len(l) : rest[i] = l[k]
        <5>1. Sound(tx, fate, D, P, A, s, n, Now, rest[i])
          BY <1>5, <4>2 DEF AllSound
        <5> QED BY <1>14, <3>1, <5>1, SoundLess
      <4> QED BY <1>11, <4>1, <4>2
    <3> QED BY <1>3, <1>13, <2>2, <3>2 DEF OutInv, AllSound, B
  <2> QED BY <2>1, <2>2
<1>19. LineInv'
  <2>1. line'.pc \in {"none", "settling"}
    <3>1. CASE line' = line
      BY <1>2, <3>1
    <3>2. CASE LineDone
      BY <3>2, Parts, LineOver DEF LineDone
    <3> QED BY <1>1, <3>1, <3>2
  <2> QED BY <2>1 DEF LineInv
<1> QED BY <1>16, <1>17, <1>18, <1>19 DEF DoubtInv

\* Ahead depends on the next nonces only where they are less.
LEMMA AheadMore ==
  ASSUME NEW x, NEW f, NEW D, NEW P, NEW A, NEW N, Ahead(x, f, D, P, A, N), NEW B, B = {} => A = {}, NEW M,
         B = {} => \A u \in D \ P : f[u].is = "landed" /\ x[u].nonce < N[x[u].sender]
                     /\ (\A v \in P : x[v].sender = x[u].sender => x[v].nonce > x[u].nonce)
                     => x[u].nonce < M[x[u].sender]
  PROVE  Ahead(x, f, D, P, B, M)
BY DEF Ahead

\* The records of a judgement are from these sets.
LEMMA JudgedRecords ==
  ASSUME ArmedInv, NEW r \in Reading, NEW h \in Int, NEW now \in Nat
  PROVE  /\ LET l == SetToSeq(Abandonments(r, now)) IN
            l \in Seq(Abandonments(r, now)) /\ \A i \in 1..Len(l) : l[i] \in Abandonments(r, now)
         /\ LET l == SetToSeq(Expiries(r, h)) IN
            l \in Seq(Expiries(r, h)) /\ \A i \in 1..Len(l) : l[i] \in Expiries(r, h)
<1> DEFINE mine == PendingOf(r.sender)
           U == {u \in mine : tx[u].nonce = r.nonce /\ IsPast(u, h)}
           S == Abandonments(r, now)
           E == Expiries(r, h)
           p == [t \in mine |-> tx[t].nonce]
           g == [n \in PastOf(r) |-> GivenUp(r.sender, n, now)]
           e == [u \in U |-> Expired(u)]
<1>1. IsFiniteSet(mine) /\ IsFiniteSet(U)
  <2>1. mine \subseteq 1..Len(tx) /\ U \subseteq 1..Len(tx)
    BY Parts DEF PendingOf, Known
  <2> HIDE DEF mine, U
  <2> QED BY <2>1, Parts, KnownFinite
<1>2. /\ SlotsOf(r.sender) = {p[t] : t \in mine} /\ S = {g[n] : n \in PastOf(r)} /\ E = {e[u] : u \in U}
      /\ DOMAIN p = mine /\ DOMAIN g = PastOf(r) /\ DOMAIN e = U
      /\ p = [t \in mine |-> p[t]] /\ g = [n \in PastOf(r) |-> g[n]] /\ e = [u \in U |-> e[u]]
  BY DEF SlotsOf, Abandonments, Expiries
<1>3. PastOf(r) \in SUBSET SlotsOf(r.sender)
  BY DEF PastOf
<1> HIDE DEF mine, U, S, E, p, g, e
<1>4. IsFiniteSet(SlotsOf(r.sender))
  BY <1>1, <1>2, FiniteImage
<1>5. IsFiniteSet(PastOf(r))
  BY <1>3, <1>4, FS_Subset
<1>6. IsFiniteSet(S) /\ IsFiniteSet(E)
  BY <1>1, <1>2, <1>5, FiniteImage
<1>7. SetToSeq(S) \in Seq(S) /\ \A i \in 1..Len(SetToSeq(S)) : SetToSeq(S)[i] \in S
  BY <1>6, SeqOfSet
<1>8. SetToSeq(E) \in Seq(E) /\ \A i \in 1..Len(SetToSeq(E)) : SetToSeq(E)[i] \in E
  BY <1>6, SeqOfSet
<1> QED BY <1>7, <1>8 DEF S, E

\* What is given up covers what landed of its nonce: the worker has no other
\* transaction of it out of sight.
LEMMA GivenUpSound ==
  ASSUME ArmedInv, DoubtInv, up, NEW r \in Reading, NEW now \in Nat,
         NEW e \in Abandonments(r, now), NEW A, A # {}, NEW n
  PROVE  Sound(tx, fate, Disk.pending, mem.pending, A, r.sender, n, now, e)
<1>1. PICK k \in PastOf(r) : e = GivenUp(r.sender, k, now)
  BY DEF Abandonments
<1> DEFINE Q == AtNonce(r.sender, k)
           t == Max(Q)
           v == Held(Q)
<1>2. k \in SlotsOf(r.sender) /\ k < r.nonce
  BY DEF PastOf
<1>3. Q \subseteq 1..Len(tx) /\ Q # {} /\ Q \subseteq mem.pending
  BY <1>2, Parts DEF SlotsOf, AtNonce, PendingOf, Known
<1>4. t \in Q
  <2>1. Len(tx) \in Nat
    BY Parts
  <2> HIDE DEF Q
  <2> QED BY <1>3, <2>1, MaxOfPlaces
<1>5. tx[t].sender = r.sender /\ tx[t].nonce = k /\ t \in mem.pending
  BY <1>3, <1>4 DEF AtNonce, PendingOf
<1>6. \A u \in Q : tx[u].worst <= v
  <2> HIDE DEF Q
  <2> QED BY <1>3, Parts, WorstType, HeldIs
<1>7. e = Abandoned(t, v, now)
  BY <1>1 DEF GivenUp
<1> HIDE DEF t, v
<1>8. e.kind = "abandoned" /\ e.tx = t /\ e.loss = v /\ e.day = now
  BY <1>7 DEF Abandoned
<1>9. ASSUME NEW u \in Disk.pending, fate[u].is = "landed", Key(tx, u) = Key(tx, t)
      PROVE  tx[u].worst <= v
  <2>1. u \in mem.pending
    <3>1. Ahead(tx, fate, Disk.pending, mem.pending, Alarms(mem, outbox), Nexts(outbox, nonces))
      BY DEF DoubtInv, AheadInv
    <3> QED BY <1>5, <1>9, <3>1 DEF Ahead
  <2>2. tx[u].sender = r.sender /\ tx[u].nonce = k
    BY <1>5, <1>9 DEF Key
  <2>3. u \in PendingOf(r.sender) /\ u \in Q
    BY <2>1, <2>2 DEF PendingOf, AtNonce
  <2> QED BY <1>6, <2>3
<1>10. Covers(tx, fate, e, Disk.pending)
  BY <1>8, <1>9 DEF Covers
<1> QED BY <1>5, <1>8, <1>10 DEF Sound, LossKind

\* A landing found covers itself, and is of the lowest nonce pending.
LEMMA LandedSound ==
  ASSUME ArmedInv, DoubtInv, NEW r \in Reading, NEW now \in Nat, NEW h, ReadAt(tx, fate, stolen, h, r),
         Found(r), NEW A
  PROVE  Sound(tx, fate, Disk.pending, mem.pending, A, r.sender, r.nonce, now, Landed(r.landed, now))
<1> DEFINE t == r.landed
           e == Landed(t, now)
<1>1. t \in PendingOf(r.sender) /\ PastOf(r) = {r.nonce - 1}
  BY DEF Found
<1>2. t \in mem.pending /\ t \in 1..Len(tx) /\ tx[t].sender = r.sender /\ t # 0
  BY <1>1, Parts DEF PendingOf, Known
<1>3. fate[t].is = "landed" /\ tx[t].nonce + 1 = r.nonce
  BY <1>2 DEF ReadAt
<1>4. tx[t].nonce \in Nat /\ r.nonce \in Nat
  BY <1>2, <1>3, Parts, TxOf
<1>5. fate[t].loss = tx[t].worst
  BY <1>2, <1>3, Parts DEF History
<1>6. e.kind = "landed" /\ e.tx = t /\ e.loss = fate[t].loss /\ e.day = now
  BY DEF Landed
<1> HIDE DEF e, t
<1>7. ASSUME NEW u \in Disk.pending, fate[u].is = "landed", Key(tx, u) = Key(tx, t) PROVE u = t
  <2>1. u \in 1..Len(tx)
    BY DoubtTypes
  <2> QED BY <1>2, <1>3, <1>7, <2>1, Parts DEF History, Key
<1>8. tx[t].worst \in Nat
  BY <1>2, Parts, TxOf
<1>9. Covers(tx, fate, e, Disk.pending)
  BY <1>5, <1>6, <1>7, <1>8 DEF Covers
<1>10. ASSUME NEW v \in mem.pending, tx[v].sender = r.sender PROVE tx[v].nonce >= tx[t].nonce
  <2>1. v \in PendingOf(r.sender) /\ tx[v].nonce \in Nat /\ tx[v].nonce \in SlotsOf(r.sender)
    <3>1. v \in PendingOf(r.sender) /\ v \in 1..Len(tx)
      BY <1>10, DoubtTypes DEF PendingOf
    <3> QED BY <3>1, Parts, TxOf DEF SlotsOf
  <2>2. tx[v].nonce < r.nonce => tx[v].nonce = r.nonce - 1
    BY <1>1, <2>1 DEF PastOf
  <2> QED BY <1>3, <1>4, <2>1, <2>2
<1>11. tx[t].nonce < r.nonce
  BY <1>3, <1>4
<1>12. Sound(tx, fate, Disk.pending, mem.pending, A, r.sender, r.nonce, now, e)
  BY <1>2, <1>6, <1>9, <1>10, <1>11 DEF Sound, LossKind
<1> QED BY <1>12 DEF e, t

\* An expiry, and a tripwire, say nothing of a loss.
LEMMA PlainSound ==
  ASSUME NEW x, NEW f, NEW D, NEW P, NEW A, NEW s, NEW n, NEW now, NEW e, e.kind \in {"expired", "tripwire", "loss_cap"}
  PROVE  Sound(x, f, D, P, A, s, n, now, e)
BY DEF Sound, LossKind

\* One element more, at the end.
LEMMA WithLast ==
  ASSUME NEW R, NEW l \in Seq(R), NEW e
  PROVE  /\ Len(l \o <<e>>) = Len(l) + 1 /\ Len(l) \in Nat
         /\ \A i \in 1..Len(l) : (l \o <<e>>)[i] = l[i]
         /\ (l \o <<e>>)[Len(l) + 1] = e
OBVIOUS

\* What a judgement leaves to write is sound, and the nonces it leaves are ahead.
LEMMA SettleDoubt ==
  ASSUME ArmedInv, DoubtInv, up, outbox = NoOutbox, NEW r \in Reading, NEW h \in Int, NEW now \in Nat,
         ReadAt(tx, fate, stolen, h, r), Settle(r, h, now)
  PROVE  /\ Ahead(tx, fate, Disk.pending, mem.pending, Alarms(mem, outbox'), Nexts(outbox', nonces'))
         /\ AllSound(tx, fate, Disk.pending, mem.pending, Alarms(mem, outbox'), outbox'.sender, outbox'.nonce, now,
                     outbox'.records)
<1> DEFINE D == Disk.pending
           P == mem.pending
           A == Alarms(mem, outbox)
           N == Nexts(outbox, nonces)
           B == Alarms(mem, outbox')
           M == Nexts(outbox', nonces')
           j == Judged(r, h, now)
           S == Abandonments(r, now)
           E == Expiries(r, h)
           a == SetToSeq(S)
           x == SetToSeq(E)
<1>1. Ahead(tx, fate, D, P, A, N) /\ P \subseteq 1..Len(tx) /\ D \subseteq 1..Len(tx)
  BY DoubtTypes DEF DoubtInv, AheadInv
<1>2. r.sender \in Sender /\ r.nonce \in Nat /\ nonces \in [Sender -> 0..MostNonce] /\ mem.trip \in BOOLEAN
  BY Parts, DoubtTypes, MostIsNat DEF Reading
<1>3. A = {} <=> ~mem.trip
  BY NothingInHand
<1>4. B = {} => A = {}
  BY <1>3, AlarmsAre
<1>5. a \in Seq(S) /\ (\A i \in 1..Len(a) : a[i] \in S) /\ x \in Seq(E) /\ (\A i \in 1..Len(x) : x[i] \in E)
  BY JudgedRecords
<1>6. CASE IsStale(r)
  <2>1. outbox' = outbox /\ nonces' = nonces
    BY <1>6 DEF Settle
  <2>2. Alarms(mem, outbox') = A /\ Nexts(outbox', nonces') = N
    BY <2>1
  <2> QED BY <1>1, <2>1, <2>2, NothingInHand
<1>7. SUFFICES ASSUME ~IsStale(r)
               PROVE  Ahead(tx, fate, D, P, B, M) /\ AllSound(tx, fate, D, P, B, outbox'.sender, outbox'.nonce, now, outbox'.records)
  BY <1>6
<1>8. /\ outbox' = IF j.records = <<>> THEN NoOutbox ELSE j
      /\ nonces' = IF j.records = <<>> /\ j.nonce # -1 THEN [nonces EXCEPT ![r.sender] = j.nonce] ELSE nonces
  BY <1>7 DEF Settle
<1>9. CASE SlotsOf(r.sender) = {}
  <2>1. j = JudgedIdle(r)
    BY <1>9, JudgedIs
  <2>2. CASE nonces[r.sender] = r.nonce
    <3>1. j.records = <<>> /\ j.nonce = -1
      BY <2>1, <2>2 DEF JudgedIdle
    <3>2. outbox' = NoOutbox /\ outbox' = outbox /\ nonces' = nonces
      BY <1>8, <3>1
    <3>3. B = A /\ M = N
      BY <3>2
    <3> HIDE DEF A, B, M, N
    <3> QED BY <1>1, <3>2, <3>3, NothingInHand
  <2>3. CASE nonces[r.sender] # r.nonce
    <3>1. j.records = <<Tripwire>>
      BY <2>1, <2>3 DEF JudgedIdle
    <3>2. outbox' = j /\ Len(j.records) = 1 /\ j.records[1].kind = "tripwire"
      BY <1>8, <3>1 DEF Tripwire
    <3>3. B # {}
      BY <3>2, AlarmsAre
    <3> HIDE DEF B, A, M, N, j
    <3>4. Ahead(tx, fate, D, P, B, M)
      BY <1>1, <1>4, <3>3 DEF Ahead
    <3> QED BY <3>2, <3>4, PlainSound DEF AllSound
  <2> QED BY <2>2, <2>3
<1>10. CASE PastOf(r) # {} /\ ~Found(r) /\ SlotsOf(r.sender) # {}
  <2>1. j = JudgedLost(r, now)
    BY <1>10, JudgedIs
  <2> DEFINE w == <<Tripwire>>
  <2>2. j.records = a \o w /\ j.sender = r.sender
    BY <2>1 DEF JudgedLost
  <2>3. Tripwire.kind = "tripwire"
    BY DEF Tripwire
  <2> HIDE DEF a, S
  <2>4. /\ Len(a \o w) = Len(a) + 1 /\ Len(a) \in Nat
        /\ \A i \in 1..Len(a) : (a \o w)[i] = a[i]
        /\ (a \o w)[Len(a) + 1] = Tripwire
    BY <1>5, WithLast
  <2> HIDE DEF w
  <2>5. a \o w # <<>>
    BY <2>4
  <2>6. outbox' = j
    BY <1>8, <2>2, <2>5
  <2>7. B # {}
    <3> DEFINE o == outbox'
               n == Len(a) + 1
    <3>1. o.records = a \o w /\ n \in 1..Len(a \o w) /\ (a \o w)[n].kind = "tripwire"
      BY <2>2, <2>3, <2>4, <2>6
    <3> HIDE DEF o, n
    <3>2. Alarms(mem, o) # {}
      BY <3>1, AlarmsAre
    <3> QED BY <3>2 DEF o
  <2> HIDE DEF B, A, M, N, j
  <2>8. Ahead(tx, fate, D, P, B, M)
    BY <1>1, <1>4, <2>7 DEF Ahead
  <2>9. ASSUME NEW i \in 1..Len(j.records) PROVE Sound(tx, fate, D, P, B, j.sender, j.nonce, now, j.records[i])
    <3>1. CASE i \in 1..Len(a)
      <4>1. j.records[i] \in S
        BY <1>5, <2>2, <2>4, <3>1
      <4> QED BY <2>2, <2>7, <4>1, GivenUpSound DEF S
    <3>2. CASE i = Len(a) + 1
      BY <2>2, <2>3, <2>4, <3>2, PlainSound
    <3> QED BY <2>2, <2>4, <2>9, <3>1, <3>2
  <2> QED BY <2>6, <2>8, <2>9 DEF AllSound
<1>11. CASE ~(PastOf(r) # {} /\ ~Found(r)) /\ SlotsOf(r.sender) # {}
  <2>1. j = JudgedSeen(r, h, now)
    BY <1>11, JudgedIs
  <2> DEFINE k == IF Found(r) THEN <<Landed(r.landed, now)>> ELSE <<>>
  <2>2. j.records = k \o x /\ j.sender = r.sender /\ j.nonce = r.nonce
    BY <2>1 DEF JudgedSeen
  <2>3. k = <<>> \/ (Found(r) /\ k = <<Landed(r.landed, now)>>)
    OBVIOUS
  <2> HIDE DEF k, j, x, E
  <2>4. ASSUME NEW i \in 1..Len(k \o x)
        PROVE  (k \o x)[i] \in E \/ (Found(r) /\ (k \o x)[i] = Landed(r.landed, now))
    <3>1. CASE k = <<>>
      <4>1. k \o x = x
        BY <1>5, <3>1
      <4> QED BY <1>5, <2>4, <4>1
    <3>2. CASE Found(r) /\ k = <<Landed(r.landed, now)>>
      <4> DEFINE e == Landed(r.landed, now)
      <4>1. k = <<e>>
        BY <3>2
      <4> HIDE DEF e
      <4>2. i = 1 => (k \o x)[i] = e
        BY <1>5, <4>1
      <4>3. i # 1 => i - 1 \in 1..Len(x) /\ (k \o x)[i] = x[i - 1]
        BY <1>5, <2>4, <4>1
      <4> QED BY <1>5, <3>2, <4>2, <4>3 DEF e
    <3> QED BY <2>3, <3>1, <3>2
  <2>5. \A e \in E : e.kind = "expired"
    BY DEF E, Expiries, Expired
  <2>6. outbox' # NoOutbox => outbox' = j
    BY <1>8
  <2>7. AllSound(tx, fate, D, P, B, outbox'.sender, outbox'.nonce, now, outbox'.records)
    <3>1. CASE outbox' = NoOutbox
      BY <3>1, NothingInHand
    <3>2. CASE outbox' = j
      <4> HIDE DEF B
      <4>1. ASSUME NEW i \in 1..Len(k \o x) PROVE Sound(tx, fate, D, P, B, r.sender, r.nonce, now, (k \o x)[i])
        <5>1. CASE (k \o x)[i] \in E
          BY <2>5, <5>1, PlainSound
        <5>2. CASE Found(r) /\ (k \o x)[i] = Landed(r.landed, now)
          BY <5>2, LandedSound
        <5> QED BY <2>4, <5>1, <5>2
      <4> QED BY <2>2, <3>2, <4>1 DEF AllSound
    <3> QED BY <2>6, <3>1, <3>2
  <2>8. M[r.sender] = r.nonce /\ \A q \in Sender : q # r.sender => M[q] = N[q]
    <3>1. \A q \in Sender : N[q] = nonces[q]
      BY NothingInHand
    <3>2. r.nonce # -1
      BY <1>2
    <3>3. CASE j.records = <<>>
      <4>1. outbox' = NoOutbox /\ nonces' = [nonces EXCEPT ![r.sender] = r.nonce]
        BY <1>8, <2>2, <3>2, <3>3
      <4>2. \A q \in Sender : M[q] = nonces'[q]
        BY <4>1 DEF Nexts
      <4>3. nonces'[r.sender] = r.nonce /\ \A q \in Sender : q # r.sender => nonces'[q] = nonces[q]
        BY <1>2, <4>1
      <4> HIDE DEF M, N
      <4> QED BY <1>2, <3>1, <4>2, <4>3
    <3>4. CASE j.records # <<>>
      <4>1. outbox' = j /\ nonces' = nonces
        BY <1>8, <3>4
      <4>2. outbox' # NoOutbox
        BY <3>4, <4>1 DEF NoOutbox
      <4>3. M[r.sender] = r.nonce /\ \A q \in Sender : q # r.sender => M[q] = nonces[q]
        BY <1>2, <2>2, <3>2, <4>1, <4>2 DEF Nexts
      <4> HIDE DEF M, N
      <4> QED BY <3>1, <4>3
    <3> QED BY <3>3, <3>4
  <2>9. ASSUME NEW u \in D \ P, tx[u].nonce < N[tx[u].sender],
               \A v \in P : tx[v].sender = tx[u].sender => tx[v].nonce > tx[u].nonce
        PROVE  tx[u].nonce < M[tx[u].sender]
    <3>1. u \in 1..Len(tx) /\ tx[u].sender \in Sender /\ tx[u].nonce \in Nat
      BY <1>1, Parts, TxOf
    <3>2. CASE tx[u].sender # r.sender
      <4> HIDE DEF M, N
      <4> QED BY <2>8, <2>9, <3>1, <3>2
    <3>3. CASE tx[u].sender = r.sender
      <4> DEFINE Z == SlotsOf(r.sender)
      <4>1. Z \subseteq Nat /\ Z # {}
        <5>1. \A t \in PendingOf(r.sender) : t \in 1..Len(tx) /\ tx[t].nonce \in Nat
          BY <1>1, Parts, TxOf DEF PendingOf
        <5> QED BY <1>11, <5>1 DEF SlotsOf
      <4>2. \A m \in Z : m > tx[u].nonce
        BY <2>9, <3>3 DEF SlotsOf, PendingOf
      <4>3. ~(r.nonce < Min(Z))
        <5>1. IsStale(r) <=> r.nonce < (IF Z = {} THEN nonces[r.sender] ELSE Min(Z))
          BY DEF IsStale, SlotsOf
        <5> HIDE DEF Z
        <5> QED BY <1>7, <4>1, <5>1
      <4> HIDE DEF Z
      <4>4. Min(Z) \in Z
        BY <4>1, LeastOf
      <4>5. Min(Z) \in Nat /\ Min(Z) > tx[u].nonce
        BY <4>1, <4>2, <4>4
      <4>6. tx[u].nonce < r.nonce
        BY <1>2, <3>1, <4>3, <4>5
      <4> HIDE DEF M, N
      <4> QED BY <2>8, <3>3, <4>6
    <3> QED BY <3>2, <3>3
  <2>10. Ahead(tx, fate, D, P, B, M)
    <3> HIDE DEF A, B, M, N, D, P
    <3> QED BY <1>1, <1>4, <2>9, AheadMore
  <2> QED BY <2>7, <2>10
<1> QED BY <1>9, <1>10, <1>11

\* A settlement judged: what it leaves to write is sound.
LEMMA SettledDoubt ==
  ASSUME ArmedInv, DoubtInv, up, outbox = NoOutbox, NEW r \in Reading, NEW h \in Int, NEW now \in Nat,
         ReadAt(tx, fate, stolen, h, r), Settle(r, h, now),
         UNCHANGED chainVars, ledger' = ledger, mem' = mem, up' = up, outbox' # NoOutbox => Now' = now, LineInv'
  PROVE  DoubtInv'
<1> DEFINE D == Disk.pending
           P == mem.pending
           B == Alarms(mem, outbox')
           M == Nexts(outbox', nonces')
           s == outbox'.sender
           n == outbox'.nonce
           l == outbox'.records
<1>1. MovesNow /\ tx' = tx /\ fate' = fate
  BY MovesNot DEF chainVars
<1>2. Disk'.pending = D
  <2>1. Tripwire \in ArmedRecord(Known')
    BY RecordsAre
  <2> QED BY <1>1, <2>1, DiskTakes
<1>3. Ahead(tx, fate, D, P, B, M) /\ AllSound(tx, fate, D, P, B, s, n, now, l)
  BY SettleDoubt
<1>4. Alarms(mem', outbox') = B
  BY DEF Alarms
<1> HIDE DEF D, P, B, M, s, n, l
<1>5. SubInv'
  BY <1>2 DEF SubInv, DoubtInv, D
<1>6. AheadInv'
  BY <1>1, <1>2, <1>3, <1>4 DEF AheadInv, P, M
<1>7. OutInv'
  <2>1. CASE outbox' = NoOutbox
    BY <2>1, NothingInHand DEF OutInv
  <2>2. CASE Now' = now
    BY <1>1, <1>2, <1>3, <1>4, <2>2 DEF OutInv, P, s, n, l
  <2> QED BY <2>1, <2>2
<1> QED BY <1>5, <1>6, <1>7 DEF DoubtInv

\* A line that reads its sender before a bump, and settles what the reading tells it.
LEMMA LandingCheckDoubt ==
  ASSUME ArmedInv, DoubtInv, LandingCheck
  PROVE  DoubtInv'
<1> DEFINE s == tx[line.tx].sender
           q == ReadOf(s, line.head)
<1>1. /\ line.pc = "low"
      /\ LandingRead(q) \/ LandingRead(Unread(q))
  BY DEF LandingCheck
<1>2. turn = "line" /\ up /\ outbox = NoOutbox /\ line.tx \in Known /\ line.head <= block /\ line.head \in Int /\ line.now \in Nat
  BY <1>1, Parts DEF TurnInv
<1>3. s \in Sender
  BY <1>2, Parts, TxOf DEF Known
<1>4. PICK r \in {ReadOf(s, line.head), Unread(ReadOf(s, line.head))} : LandingRead(r)
  BY <1>1
<1>5. r \in Reading /\ r.sender = s /\ ReadAt(tx, fate, stolen, line.head, r)
  <2> HIDE DEF s
  <2> QED BY <1>2, <1>3, <1>4, ReadOfIs
<1>6. /\ Settle(r, line.head, line.now)
      /\ \/ outbox' = NoOutbox /\ line' = [NoLine EXCEPT !.now = line.now] /\ turn' = "free"
         \/ outbox' # NoOutbox /\ line' = [line EXCEPT !.pc = "settling"] /\ turn' = turn
      /\ ledger' = ledger /\ mem' = mem /\ up' = up /\ UNCHANGED chainVars
  BY <1>4 DEF LandingRead, LineDone
<1>7. line'.pc \in {"none", "settling"} /\ (outbox' # NoOutbox => line'.now = line.now)
  <2>1. CASE outbox' = NoOutbox /\ line' = [NoLine EXCEPT !.now = line.now]
    BY <2>1, Parts, LineOver
  <2>2. CASE outbox' # NoOutbox /\ line' = [line EXCEPT !.pc = "settling"]
    BY <2>2, Parts DEF Lines
  <2> QED BY <1>6, <2>1, <2>2
<1>8. LineInv' /\ (outbox' # NoOutbox => Now' = line.now)
  BY <1>2, <1>6, <1>7 DEF LineInv, Now
<1> HIDE DEF s, q
<1> DEFINE now == line.now
           h == line.head
<1>9. now \in Nat /\ h \in Int /\ ReadAt(tx, fate, stolen, h, r) /\ Settle(r, h, now)
       /\ (outbox' # NoOutbox => Now' = now)
  BY <1>2, <1>5, <1>6, <1>8
<1> HIDE DEF now, h
<1> QED BY <1>2, <1>5, <1>6, <1>8, <1>9, SettledDoubt

\* The head task settles what it read.
LEMMA HeadSettlesDoubt ==
  ASSUME ArmedInv, DoubtInv, NEW r \in head.reads, HeadSettles(r)
  PROVE  DoubtInv'
<1> DEFINE now == head.now
           h == head.at
<1>1. /\ outbox = NoOutbox /\ turn \in {"free", "head"} /\ Settle(r, h, now)
      /\ \/ /\ outbox' = NoOutbox /\ head.reads = {r} /\ head' = NoHead /\ turn' = "free"
         \/ /\ ~(outbox' = NoOutbox /\ head.reads = {r})
            /\ head' = [head EXCEPT !.reads = @ \ {r}] /\ turn' = "head"
      /\ ledger' = ledger /\ mem' = mem /\ line' = line /\ up' = up /\ UNCHANGED chainVars
  BY DEF HeadSettles, HeadDone
<1>2. head.pc = "read" /\ line.pc = "none" /\ up
  BY <1>1, Parts DEF TurnInv
<1>3. /\ h <= block /\ h \in Int /\ now \in Nat
      /\ ReadAt(tx, fate, stolen, h, r) /\ r \in Reading
  BY <1>2, Parts, Types DEF HeadInv
<1>4. LineInv'
  BY <1>1, <1>2 DEF LineInv
<1>5. outbox' # NoOutbox => Now' = now
  BY <1>1, Parts DEF Now, Heads
<1> HIDE DEF now, h
<1> QED BY <1>1, <1>2, <1>3, <1>4, <1>5, SettledDoubt

\* A worker that is down, or holds pending all that the ledger does, is in no doubt.
LEMMA NoDoubt ==
  ASSUME ~up' \/ mem'.pending = Disk'.pending, outbox' = NoOutbox, line'.pc = "none"
  PROVE  DoubtInv'
<1>1. OutInv'
  BY NothingInHand DEF OutInv
<1>2. AheadInv' /\ SubInv'
  BY DEF AheadInv, Ahead, SubInv
<1>3. LineInv'
  BY DEF LineInv
<1> QED BY <1>1, <1>2, <1>3 DEF DoubtInv

-----------------------------------------------------------------------------
(* Every step.                                                             *)

\* The invariant of the budget.
BudgetInv == ArmedInv /\ DoubtInv /\ SumInv

\* An arm is admitted, and so is a replacement.
LEMMA SubmitBudget ==
  ASSUME ArmedInv, ArmedInv', DoubtInv, SumInv, NEW s \in Sender, NEW w \in Worst, NEW now \in {day - 1, day} \cap Nat,
         NEW back \in 0..Lag, NEW win \in 1..Window, Submit(s, block - back + win, w, now, block - back)
  PROVE  DoubtInv' /\ SumInv'
<1> DEFINE n == nonces[s]
           b == block - back + win
           hd == block - back
<1>1. /\ up /\ turn = "free" /\ WriteAhead(s, n, b, w, now, hd) /\ ~IsHalted(Roll(mem, now)) /\ Admits(Roll(mem, now), s, n, w)
  BY DEF Submit
<1>2. outbox = NoOutbox /\ block \in Nat /\ day \in Nat /\ n \in 0..MostNonce
  BY <1>1, Parts DEF TurnInv
<1>3. n \in Nat /\ n = nonces[s]
  BY <1>2, MostIsNat
<1>4. now \in 0..day /\ now \in Nat
  BY <1>2
<1>5. back \in Nat /\ win \in Nat
  BY ArmedAssumption
<1>6. b \in Int /\ hd \in Int
  BY <1>2, <1>5
<1>7. ~mem.trip
  BY <1>1, <1>4, Parts, RollShape DEF IsHalted
<1> HIDE DEF n, b, hd
<1>8. DoubtInv'
  BY <1>1, <1>2, <1>3, <1>4, <1>6, <1>7, WriteAheadDoubt
<1>9. SumInv'
  BY <1>1, <1>2, <1>3, <1>4, <1>6, WriteAheadSums
<1> QED BY <1>8, <1>9

\* A bump writes ahead a dearer transaction at the same nonce.
LEMMA BumpBudget ==
  ASSUME ArmedInv, ArmedInv', DoubtInv, SumInv, NEW w \in Worst, Bump(w)
  PROVE  DoubtInv' /\ SumInv'
<1> DEFINE t == tx[line.tx]
           s == t.sender
           n == t.nonce
           b == t.bound
           now == line.now
           hd == line.head
<1>1. line.pc = "underpriced" /\ Admits(Roll(mem, now), s, n, w) /\ WriteAhead(s, n, b, w, now, hd)
  BY DEF Bump
<1>2. outbox = NoOutbox /\ up /\ line.tx \in Known
  BY <1>1, Parts DEF TurnInv
<1>3. s \in Sender /\ n \in Nat /\ b \in Int
  BY <1>2, Parts, TxOf DEF Known
<1>4. now \in 0..day /\ hd \in Int
  BY Parts
<1>5. ~mem.trip /\ n = nonces[s]
  BY <1>1 DEF LineInv, DoubtInv
<1> HIDE DEF s, n, b, now, hd
<1>6. DoubtInv'
  BY <1>1, <1>2, <1>3, <1>4, <1>5, WriteAheadDoubt
<1>7. SumInv'
  BY <1>1, <1>2, <1>3, <1>4, WriteAheadSums
<1> QED BY <1>6, <1>7

\* A refusal settles nothing that has landed.
LEMMA RefusedBudget ==
  ASSUME ArmedInv, ArmedInv', DoubtInv, SumInv, NEW why \in {"low", "underpriced", "other"}, RefusedFor(why)
  PROVE  DoubtInv' /\ SumInv'
<1> DEFINE t == line.tx
           r == Refused(t)
           now == line.now
<1>1. DoubtInv' /\ MovesNow
  BY RefusedDoubt
<1>2. line.pc = "recorded" /\ fate' = [fate EXCEPT ![t].is = "dead"] /\ Record(r, now)
      /\ up' = up /\ tx' = tx /\ block' = block /\ misdated' = misdated
  BY DEF RefusedFor
<1>3. t \in 1..Len(tx) /\ up
  BY <1>2, Parts DEF TurnInv, Known
<1>4. fate'[t].is = "dead"
  <2>1. fate \in [Tx -> Fates] /\ 1..Len(tx) \subseteq Tx
    BY Parts, TxOf DEF IsChain
  <2> QED BY <1>2, <1>3, <2>1 DEF Fates
<1>5. r \in ArmedRecord(Known) /\ r.kind = "refused" /\ r.tx = t
  BY <1>3, RecordsAre DEF Refused, Known
<1>6. now \in 0..day
  BY Parts
<1> HIDE DEF r, t, now
<1>7. Backed(tx', fate', stolen', block', r) /\ Covers(tx', fate', r, Disk.pending) /\ r.kind \notin LossKind
      /\ Dated(tx', fate', misdated', r)
  BY <1>4, <1>5 DEF Backed, Covers, Dated, LossKind
<1>8. SubInv
  BY DEF DoubtInv
<1>9. SumInv'
  BY <1>1, <1>2, <1>3, <1>5, <1>6, <1>7, <1>8, RecordSums
<1> QED BY <1>1, <1>9

\* A record written counts what it takes from what is pending.
LEMMA WriteBudget ==
  ASSUME ArmedInv, ArmedInv', DoubtInv, SumInv, Write
  PROVE  DoubtInv' /\ SumInv'
<1> DEFINE r == outbox.records[1]
<1>1. /\ outbox # NoOutbox /\ Record(r, Now) /\ up' = up /\ UNCHANGED chainVars
      /\ misdated' = misdated \cup Misdates(r)
  BY DEF Write, Now
<1>2. outbox.records # <<>> /\ up
  BY <1>1, Parts DEF TurnInv
<1>3. MovesNow /\ tx' = tx /\ fate' = fate /\ block' = block /\ stolen' = stolen
  BY <1>1, MovesNot DEF chainVars
<1>4. r \in ArmedRecord(Known) /\ Backed(tx, fate, stolen, block, r) /\ 1 \in 1..Len(outbox.records)
  <2>1. outbox.records \in Seq(ArmedRecord(Known)) /\ BackedAll(tx, fate, stolen, block, outbox.records)
    BY Parts DEF Outboxes, RecordsInv
  <2>2. Len(outbox.records) \in Nat /\ 1 \in 1..Len(outbox.records)
    BY <1>2, <2>1
  <2> QED BY <1>2, <2>1, <2>2, BackedTail
<1>5. Covers(tx, fate, r, Disk.pending) /\ (r.kind \in LossKind => r.day = Now)
  <2>1. Sound(tx, fate, Disk.pending, mem.pending, Alarms(mem, outbox), outbox.sender, outbox.nonce, Now, r)
    BY <1>4 DEF DoubtInv, OutInv, AllSound
  <2> HIDE DEF r
  <2> QED BY <2>1 DEF Sound, Covers
<1>6. Now \in 0..day
  BY Parts DEF Now
<1> DEFINE now == Now
<1>7. now \in 0..day /\ Record(r, now) /\ (r.kind \in LossKind => r.day = now)
  BY <1>1, <1>5, <1>6
<1>8. Backed(tx', fate', stolen', block', r) /\ Covers(tx', fate', r, Disk.pending) /\ SubInv
  BY <1>3, <1>4, <1>5 DEF DoubtInv
<1> HIDE DEF now, r
<1>9. misdated \subseteq misdated' /\ Dated(tx', fate', misdated', r)
  <2>1. r.kind \in LossKind => \A u \in 1..Len(tx) :
          fate[u].is = "landed" /\ Key(tx, u) = Key(tx, r.tx) /\ fate[u].day > r.day => u \in Misdates(r)
    BY DEF Misdates, AtSlot, Slot, Key, LossKind
  <2> QED BY <1>1, <1>3, <2>1 DEF Dated
<1>10. SumInv'
  BY <1>1, <1>2, <1>3, <1>4, <1>7, <1>8, <1>9, RecordSums
<1> QED BY <1>10, WriteDoubt

\* The head task's readings leave every sum alone.
LEMMA HeadReadsBudget ==
  ASSUME ArmedInv, DoubtInv, SumInv, NEW asked, NEW blind, HeadReads(block, asked, blind)
  PROVE  DoubtInv' /\ SumInv'
<1>1. DoubtInv' /\ MovesNow
  BY HeadReadsDoubt
<1>2. mem' = Roll(mem, day) /\ ledger' = ledger /\ up' = up /\ tx' = tx /\ day' = day /\ misdated' = misdated
  BY DEF HeadReads, chainVars, day
<1> QED BY <1>1, <1>2, QuietSums

\* The settlements, before any record is written.
LEMMA SettlesBudget ==
  ASSUME ArmedInv, DoubtInv, SumInv, LandingCheck \/ \E r \in head.reads : HeadSettles(r)
  PROVE  DoubtInv' /\ SumInv'
<1>1. ledger' = ledger /\ up' = up /\ UNCHANGED chainVars /\ mem' = mem /\ misdated' = misdated
  BY DEF LandingCheck, LandingRead, HeadSettles, faultVars
<1>2. MovesNow /\ tx' = tx
  BY <1>1, MovesNot DEF chainVars
<1> QED BY <1>1, <1>2, QuietSums, LandingCheckDoubt, HeadSettlesDoubt

\* A line that ends with no record.
LEMMA LineEndsBudget ==
  ASSUME ArmedInv, DoubtInv, SumInv, Answered \/ GivesUp
  PROVE  DoubtInv' /\ SumInv'
<1>1. ledger' = ledger /\ up' = up /\ tx' = tx /\ mem' = mem /\ misdated' = misdated
  BY DEF Answered, GivesUp, chainVars, faultVars
<1>2. DoubtInv' /\ MovesNow
  BY AnsweredDoubt, GivesUpDoubt
<1> QED BY <1>1, <1>2, QuietSums

\* A block, or nothing.
LEMMA ChainBudget ==
  ASSUME ArmedInv, DoubtInv, SumInv, ChainStep \/ UNCHANGED vars
  PROVE  DoubtInv' /\ SumInv'
<1>1. CASE ChainStep
  <2>1. ledger' = ledger /\ up' = up /\ mem' = mem /\ misdated' = misdated
    BY <1>1 DEF ChainStep, workerVars
  <2> QED BY <1>1, <2>1, MovesChain, QuietSums, ChainDoubt
<1>2. CASE UNCHANGED vars
  <2>1. /\ ledger' = ledger /\ mem' = mem /\ nonces' = nonces /\ turn' = turn
        /\ line' = line /\ head' = head /\ outbox' = outbox /\ up' = up /\ UNCHANGED chainVars /\ tx' = tx
        /\ misdated' = misdated
    BY <1>2 DEF vars, workerVars, chainVars, faultVars
  <2>2. MovesNow
    BY <2>1, MovesNot
  <2>3. LineInv' /\ Now' = Now
    BY <2>1 DEF LineInv, DoubtInv, Now
  <2> QED BY <2>1, <2>2, <2>3, DoubtQuiet, QuietSums
<1> QED BY <1>1, <1>2

\* Deaths, the operator and boots.
LEMMA LifeBudget ==
  ASSUME ArmedInv, ArmedInv', SumInv, Crash \/ OperatorReset \/ Restart
  PROVE  DoubtInv' /\ SumInv'
<1>1. CASE Crash
  <2>1. up' = FALSE /\ outbox' = NoOutbox /\ line' = NoLine /\ NoLine.pc = "none"
    BY <1>1 DEF Crash, Idle, NoLine
  <2>2. DoubtInv'
    BY <2>1, NoDoubt
  <2> QED BY <1>1, <2>2, CrashSums
<1>2. CASE OperatorReset
  <2>1. ~up /\ up' = up /\ outbox' = outbox /\ line' = line
    BY <1>2 DEF OperatorReset, workerVars
  <2>2. outbox = NoOutbox /\ line.pc = "none"
    BY <2>1, Parts DEF TurnInv
  <2>3. DoubtInv'
    BY <2>1, <2>2, NoDoubt
  <2> QED BY <1>2, <2>3, ResetSums
<1>3. ASSUME NEW l, NEW b \in 0..block, Begin(l, b) PROVE DoubtInv' /\ SumInv'
  <2>1. ~up /\ outbox' = outbox /\ line' = line
    BY <1>3 DEF Begin
  <2>2. outbox = NoOutbox /\ line.pc = "none"
    BY <2>1, Parts DEF TurnInv
  <2>3. mem'.pending = Disk'.pending
    BY <1>3, BeginDisk
  <2>4. DoubtInv'
    BY <2>1, <2>2, <2>3, NoDoubt
  <2> QED BY <1>3, <2>4, BeginSums
<1> QED BY <1>1, <1>2, <1>3 DEF Restart

\* Every step keeps the sums.
LEMMA NextBudget == ASSUME BudgetInv, [Next]_vars PROVE BudgetInv'
<1>1. ArmedInv /\ DoubtInv /\ SumInv /\ ArmedInv'
  BY NextKeeps DEF BudgetInv
<1>2. SUFFICES DoubtInv' /\ SumInv'
  BY <1>1 DEF BudgetInv
<1>3. CASE ChainStep \/ UNCHANGED vars
  BY <1>1, <1>3, ChainBudget
<1>4. CASE LineStep
  <2>1. CASE \E s \in Sender, w \in Worst, now \in {day - 1, day} \cap Nat, back \in 0..Lag, win \in 1..Window :
               Submit(s, block - back + win, w, now, block - back)
    BY <1>1, <2>1, SubmitBudget
  <2>2. CASE \E why \in {"low", "underpriced", "other"} : RefusedFor(why)
    BY <1>1, <2>2, RefusedBudget
  <2>3. CASE \E w \in Worst : Bump(w)
    BY <1>1, <2>3, BumpBudget
  <2>4. CASE Answered \/ GivesUp
    BY <1>1, <2>4, LineEndsBudget
  <2>5. CASE LandingCheck
    BY <1>1, <2>5, SettlesBudget
  <2> QED BY <1>4, <2>1, <2>2, <2>3, <2>4, <2>5 DEF LineStep
<1>5. CASE HeadStep
  <2>1. CASE \E asked \in SUBSET Due(block) : \E blind \in SUBSET asked : HeadReads(block, asked, blind)
    BY <1>1, <2>1, HeadReadsBudget
  <2>2. CASE \E r \in head.reads : HeadSettles(r)
    BY <1>1, <2>2, SettlesBudget
  <2> QED BY <1>5, <2>1, <2>2 DEF HeadStep
<1>6. CASE Write
  BY <1>1, <1>6, WriteBudget
<1>7. CASE Crash \/ OperatorReset \/ Restart
  BY <1>1, <1>7, LifeBudget
<1> QED BY <1>3, <1>4, <1>5, <1>6, <1>7 DEF Next

\* Nothing is at risk at the start.
LEMMA InitBudget == ASSUME Init PROVE BudgetInv
<1>1. ArmedInv
  BY InitArmed
<1>2. ledger = <<>> /\ up = FALSE /\ tx = <<>> /\ outbox = NoOutbox /\ line = NoLine
  BY DEF Init
<1>3. Len(tx) = 0 /\ 1..Len(tx) = {} /\ Budget \in Nat /\ day \in Nat
  BY <1>1, <1>2, Parts, ArmedAssumption
<1>4. RiskInv
  <2>1. AtRisk(tx, fate, misdated, stolen, block) = {}
    BY <1>3 DEF AtRisk, MayLand, LandedOn
  <2> QED BY <1>3, <2>1, CostEmpty DEF RiskInv, RiskIn
<1>5. LossesInv
  <2> SUFFICES ASSUME NEW d \in Nat PROVE Cost(tx, LandedOn(tx, fate, misdated, d)) <= Budget
    BY DEF LossesInv, LossesIn
  <2> DEFINE U == LandedOn(tx, fate, misdated, d)
  <2>1. U = {}
    BY <1>3 DEF LandedOn
  <2> HIDE DEF U
  <2>2. Cost(tx, U) = 0
    BY <2>1, CostEmpty
  <2> QED BY <1>3, <2>2 DEF U
<1>6. CountInv
  <2> DEFINE U == Unsettled(tx, fate, misdated, day, Disk.pending)
  <2>1. U = {}
    BY <1>3 DEF Unsettled, LandedOn
  <2>2. Sofar(Disk, day) \in Nat
    BY <1>1, DiskType
  <2> HIDE DEF U
  <2>3. Cost(tx, U) = 0
    BY <2>1, CostEmpty
  <2> QED BY <1>2, <2>2, <2>3 DEF CountInv, CountedIn, U
<1>7. DoubtInv
  <2>1. line.pc = "none"
    BY <1>2 DEF NoLine
  <2> QED BY <1>2, <2>1, NothingInHand DEF DoubtInv, SubInv, AheadInv, OutInv, LineInv
<1> QED BY <1>1, <1>4, <1>5, <1>6, <1>7 DEF BudgetInv, SumInv

\* What is at risk, counted and reserved stays within the budget in every state, the
\* landings that a record misdated aside.
THEOREM ArmedBudgetInvariant == Spec => []BudgetInv
<1>1. Init => BudgetInv
  BY InitBudget
<1>2. BudgetInv /\ [Next]_vars => BudgetInv'
  BY NextBudget
<1> QED BY <1>1, <1>2, PTL DEF Spec

\* However submissions, replacements, landings, the turn of the day, deaths and
\* compactions fall, no day's true losses pass the budget, but for the landings that
\* landing_check booked to the day before theirs (admits, reserved, settle).
THEOREM ArmedBudgetHolds == Spec => []BudgetHolds
<1>1. BudgetInv => BudgetHolds
  <2> SUFFICES ASSUME BudgetInv, NEW d \in 0..(MaxBlock \div DayBlocks)
               PROVE  MapThenSumSet(LAMBDA t : fate[t].loss,
                        {t \in 1..Len(tx) \ misdated : fate[t].is = "landed" /\ fate[t].day = d}) <= Budget
    BY DEF BudgetHolds
  <2>1. ArmedInv /\ SumInv
    BY DEF BudgetInv
  <2>2. d \in Nat
    <3>1. DayBlocks \in Nat \ {0} /\ MaxBlock \in Nat /\ MaxBlock <= MaxBlock
      BY ArmedAssumption
    <3>2. MaxBlock \div DayBlocks \in Nat
      BY <3>1, DivMono
    <3> QED BY <3>2
  <2> DEFINE U == LandedOn(tx, fate, misdated, d)
  <2>3. U \subseteq 1..Len(tx) /\ (\A t \in U : fate[t].is = "landed") /\ IsChain(tx, fate, stolen) /\ ChainInv
    BY <2>1, Parts DEF LandedOn
  <2>4. Cost(tx, U) <= Budget
    BY <2>1, <2>2 DEF SumInv, LossesInv, LossesIn
  <2> HIDE DEF U
  <2>5. MapThenSumSet(LAMBDA t : fate[t].loss, U) = Cost(tx, U)
    BY <2>3, LossesAreCosts
  <2> QED BY <2>4, <2>5 DEF U, LandedOn
<1> QED BY <1>1, ArmedBudgetInvariant, PTL

-----------------------------------------------------------------------------
(* Where a ledger leaves each sender.                                      *)

Sightings == [Sender -> Int]

Seen(x, v, r) ==
  CASE r.kind \in {"submitting", "expired"} -> [v EXCEPT ![x[r.tx].sender] = x[r.tx].nonce]
    [] r.kind = "landed" -> [v EXCEPT ![x[r.tx].sender] = x[r.tx].nonce + 1]
    [] r.kind = "abandoned" -> [v EXCEPT ![x[r.tx].sender] = -1]
    [] r.kind = "reset" -> [s \in Sender |-> -1]
    [] OTHER -> v

NoSight == [s \in Sender |-> -1]

Watched(x, l) ==
  CHOOSE it : it = [s \in SUBSET DOMAIN l |->
                      IF s = {} THEN NoSight ELSE Seen(x, it[s \ {Max(s)}], l[Max(s)])]

Sighted(x, l) == Watched(x, l)[DOMAIN l]

\* Where a ledger leaves each sender, for the transactions there are.
LEMMA ViewsAre == \A l : Views(l) = Sighted(tx, l)
BY DEF Views, FoldLeft, MapThenFoldSet, Sighted, Watched, Viewed, Seen, NoSight

\* The transactions of X have senders and nonces.
Placed(x, X) == \A t \in X : x[t].sender \in Sender /\ x[t].nonce \in Int

\* A record says where its sender is, or forgets it.
Tells(x, r, s) == r.kind \in {"submitting", "expired", "landed"} /\ x[r.tx].sender = s
Told(x, r) == IF r.kind = "landed" THEN x[r.tx].nonce + 1 ELSE x[r.tx].nonce
Forgets(x, r, s) == r.kind = "reset" \/ (r.kind = "abandoned" /\ x[r.tx].sender = s)

\* What a record does to each sender.
LEMMA SeenShape ==
  ASSUME NEW X, NEW x, Placed(x, X), NEW v \in Sightings, NEW r \in ArmedRecord(X)
  PROVE  /\ Seen(x, v, r) \in Sightings
         /\ \A s \in Sender :
              Seen(x, v, r)[s] = IF Tells(x, r, s) THEN Told(x, r) ELSE IF Forgets(x, r, s) THEN -1 ELSE v[s]
<1>k. /\ r.kind \in PlainKind \cup LossKind \cup {"loss_cap", "tripwire", "reset"}
      /\ r.kind \in PlainKind \cup LossKind => r.tx \in X
  BY RecordKinds
<1>1. CASE r.kind \in {"submitting", "expired"}
  <2>1. x[r.tx].sender \in Sender /\ x[r.tx].nonce \in Int
    BY <1>1, <1>k DEF Placed, PlainKind
  <2>2. Seen(x, v, r) = [v EXCEPT ![x[r.tx].sender] = x[r.tx].nonce]
    BY <1>1 DEF Seen
  <2> QED BY <1>1, <2>1, <2>2 DEF Sightings, Tells, Told, Forgets
<1>2. CASE r.kind = "landed"
  <2>1. x[r.tx].sender \in Sender /\ x[r.tx].nonce + 1 \in Int
    BY <1>2, <1>k DEF Placed, LossKind
  <2>2. Seen(x, v, r) = [v EXCEPT ![x[r.tx].sender] = x[r.tx].nonce + 1]
    BY <1>2 DEF Seen
  <2> QED BY <1>2, <2>1, <2>2 DEF Sightings, Tells, Told, Forgets
<1>3. CASE r.kind = "abandoned"
  <2>1. x[r.tx].sender \in Sender
    BY <1>3, <1>k DEF Placed, LossKind
  <2>2. Seen(x, v, r) = [v EXCEPT ![x[r.tx].sender] = -1]
    BY <1>3 DEF Seen
  <2> QED BY <1>3, <2>1, <2>2 DEF Sightings, Tells, Told, Forgets
<1>4. CASE r.kind = "reset"
  <2>2. Seen(x, v, r) = [s \in Sender |-> -1]
    BY <1>4 DEF Seen
  <2> QED BY <1>4, <2>2 DEF Sightings, Tells, Told, Forgets
<1>5. CASE r.kind \in {"refused", "loss_cap", "tripwire"}
  <2>2. Seen(x, v, r) = v
    BY <1>5 DEF Seen
  <2> QED BY <1>5, <2>2 DEF Sightings, Tells, Told, Forgets
<1> QED BY <1>k, <1>1, <1>2, <1>3, <1>4, <1>5 DEF PlainKind, LossKind

\* At first no sender is anywhere.
LEMMA NoSightIs == NoSight \in Sightings /\ \A s \in Sender : NoSight[s] = -1
BY DEF NoSight, Sightings

Sight(x, X) == [z \in Sightings \X ArmedRecord(X) |-> Seen(x, z[1], z[2])]

\* One record seen, as a function: the step of a fold.
LEMMA SightType ==
  ASSUME NEW x, NEW X, Placed(x, X)
  PROVE  /\ Sight(x, X) \in [Sightings \X ArmedRecord(X) -> Sightings]
         /\ \A v \in Sightings : \A r \in ArmedRecord(X) : Sight(x, X)[<<v, r>>] = Seen(x, v, r)
BY SeenShape DEF Sight

\* The views are the end of a fold of Sight.
LEMMA SightedIsFold ==
  ASSUME NEW x, NEW X, Placed(x, X), NEW l \in Seq(ArmedRecord(X))
  PROVE  \E it : IsFold(it, NoSight, Sight(x, X), l) /\ Sighted(x, l) = it[1..Len(l)]
<1> DEFINE n == Len(l)
           P == SUBSET (1..n)
           S == Sightings
           R == ArmedRecord(X)
           base == NoSight
           step == Sight(x, X)
           Next1(f, s) == IF s = {} THEN base ELSE Seen(x, f[s \ {Max(s)}], l[Max(s)])
           jt == Watched(x, l)
<1>1. n \in Nat /\ DOMAIN l = 1..n /\ \A i \in 1..n : l[i] \in R
  OBVIOUS
<1>2. step \in [S \X R -> S] /\ (\A s \in S : \A r \in R : step[<<s, r>>] = Seen(x, s, r)) /\ base \in S
  <2>1. Sight(x, X) \in [Sightings \X ArmedRecord(X) -> Sightings] /\ NoSight \in Sightings
    BY SightType, NoSightIs
  <2>2. \A s \in Sightings : \A r \in ArmedRecord(X) : Sight(x, X)[<<s, r>>] = Seen(x, s, r)
    BY SightType
  <2> QED BY <2>1, <2>2
<1>h. l \in Seq(R)
  OBVIOUS
<1>0. jt = CHOOSE it : it = [s \in SUBSET DOMAIN l |-> Next1(it, s)]
  BY DEF Watched
<1>6. Sighted(x, l) = jt[DOMAIN l]
  BY DEF Sighted
<1> HIDE DEF S, R, base, step, jt
<1>3. PICK it \in [P -> S] : IsFold(it, base, step, l)
  BY <1>2, <1>h, FoldExists
<1>p. \A s \in P : s # {} => s \ {Max(s)} \in P /\ l[Max(s)] \in R
  <2>1. ASSUME NEW s \in P, s # {} PROVE s \ {Max(s)} \in P /\ l[Max(s)] \in R
    <3>1. Max(s) \in s
      BY <1>1, <2>1, MaxOfPlaces
    <3> QED BY <1>1, <3>1
  <2> QED BY <2>1
<1>4. it = [s \in P |-> Next1(it, s)]
  <2>1. ASSUME NEW s \in P PROVE it[s] = Next1(it, s)
    <3>1. CASE s = {}
      BY <1>3, <3>1 DEF IsFold
    <3>2. CASE s # {}
      <4>1. s \ {Max(s)} \in P /\ l[Max(s)] \in R
        BY <1>p, <3>2
      <4>2. it[s \ {Max(s)}] \in S
        BY <1>3, <4>1
      <4>3. it[s] = step[<<it[s \ {Max(s)}], l[Max(s)]>>]
        BY <1>3, <3>2 DEF IsFold
      <4> QED BY <1>2, <3>2, <4>1, <4>2, <4>3
    <3> QED BY <3>1, <3>2
  <2>2. it = [s \in P |-> it[s]]
    BY <1>3
  <2> HIDE DEF Next1
  <2> QED BY <2>1, <2>2
<1>5. jt = [s \in P |-> Next1(jt, s)]
  BY <1>0, <1>1, <1>4
<1>7. jt[{}] = base
  <2>1. {} \in P
    OBVIOUS
  <2>2. jt[{}] = Next1(jt, {})
    <3> HIDE DEF Next1, P
    <3> QED BY <1>5, <2>1
  <2> QED BY <2>2
<1>8. ASSUME NEW s \in P, s # {}, jt[s \ {Max(s)}] \in S
      PROVE  jt[s] = step[<<jt[s \ {Max(s)}], l[Max(s)]>>]
  <2>1. jt[s] = Next1(jt, s)
    <3> HIDE DEF Next1, P
    <3> QED BY <1>5
  <2>2. l[Max(s)] \in R
    BY <1>8, <1>p
  <2> QED BY <1>2, <1>8, <2>1, <2>2
<1>9. jt[1..n] = it[1..n]
  <2>1. Unfolds(jt, base, step, l, S)
    BY <1>7, <1>8 DEF Unfolds
  <2>2. IsFold(it, base, step, l)
    BY <1>3
  <2>3. StaysIn(step, S, R) /\ base \in S
    BY <1>2 DEF StaysIn
  <2> HIDE DEF Next1, P
  <2>4. jt[1..Len(l)] = it[1..Len(l)]
    BY <1>h, <2>1, <2>2, <2>3, FoldUnique
  <2> QED BY <2>4
<1> QED BY <1>1, <1>3, <1>6, <1>9 DEF base, step

\* They place every sender.
LEMMA SightedType ==
  ASSUME NEW x, NEW X, Placed(x, X), NEW l \in Seq(ArmedRecord(X))
  PROVE  Sighted(x, l) \in Sightings
<1>1. PICK it : IsFold(it, NoSight, Sight(x, X), l) /\ Sighted(x, l) = it[1..Len(l)]
  BY SightedIsFold
<1>2. it[1..Len(l)] \in Sightings
  BY <1>1, SightType, NoSightIs, FoldTyped
<1> QED BY <1>1, <1>2

\* One record more is one record seen.
LEMMA SightedAppend ==
  ASSUME NEW x, NEW X, Placed(x, X), NEW l \in Seq(ArmedRecord(X)), NEW r \in ArmedRecord(X)
  PROVE  Sighted(x, Append(l, r)) = Seen(x, Sighted(x, l), r)
<1> DEFINE k == Append(l, r)
<1>1. PICK it : IsFold(it, NoSight, Sight(x, X), l) /\ Sighted(x, l) = it[1..Len(l)]
  BY SightedIsFold
<1>2. k \in Seq(ArmedRecord(X)) /\ Len(k) = Len(l) + 1
  OBVIOUS
<1>3. PICK jt : IsFold(jt, NoSight, Sight(x, X), k) /\ Sighted(x, k) = jt[1..Len(k)]
  BY <1>2, SightedIsFold
<1>4. jt[1..(Len(l) + 1)] = Sight(x, X)[<<it[1..Len(l)], r>>]
  <2>1. IsFold(it, NoSight, Sight(x, X), l) /\ IsFold(jt, NoSight, Sight(x, X), Append(l, r))
    BY <1>1, <1>3
  <2> QED BY <2>1, FoldAppend
<1>5. Sight(x, X)[<<Sighted(x, l), r>>] = Seen(x, Sighted(x, l), r)
  BY SightedType, SightType
<1> QED BY <1>1, <1>2, <1>3, <1>4, <1>5

\* No records place no sender.
LEMMA SightedEmpty == ASSUME NEW x PROVE Sighted(x, <<>>) = NoSight
<1> DEFINE l == <<>>
           X == {}
<1>1. l \in Seq(ArmedRecord(X)) /\ Placed(x, X)
  BY DEF Placed
<1>5. Len(l) = 0 /\ 1..0 = {}
  OBVIOUS
<1> HIDE DEF l, X
<1>2. PICK it : IsFold(it, NoSight, Sight(x, X), l) /\ Sighted(x, l) = it[1..Len(l)]
  BY <1>1, SightedIsFold
<1>3. it[{}] = NoSight
  BY <1>2, <1>5 DEF IsFold
<1>4. Sighted(x, l) = NoSight
  BY <1>2, <1>3, <1>5
<1> QED BY <1>4 DEF l


-----------------------------------------------------------------------------
(* A compaction replays as the ledger does.                                *)

\* What of a state is not what is pending.
Same(s, u) == s.lost = u.lost /\ (s.capped <=> u.capped) /\ (s.trip <=> u.trip) /\ s.day = u.day

\* What caps the day.
LEMMA TakeCaps ==
  ASSUME NEW x, NEW X, NEW s \in States(X), NEW r \in ArmedRecord(X)
  PROVE  Take(x, s, r).capped
           <=> \/ s.capped
               \/ r.kind \in LossKind /\ r.day = s.day /\ s.lost + r.loss >= Budget
               \/ r.kind = "loss_cap" /\ r.day = s.day
<1>0. s = [pending |-> s.pending, lost |-> s.lost, capped |-> s.capped, trip |-> s.trip, day |-> s.day]
  BY DEF States
<1>k. r.kind \in PlainKind \cup LossKind \cup {"loss_cap", "tripwire", "reset"}
  BY RecordKinds
<1>1. CASE r.kind \in PlainKind \cup {"tripwire", "reset"}
  <2>1. Take(x, s, r).capped = s.capped
    BY <1>0, <1>1 DEF Take, PlainKind
  <2> QED BY <1>1, <2>1 DEF PlainKind, LossKind
<1>3. CASE r.kind \in LossKind
  <2> DEFINE P == s.pending \ Beside(x, s.pending, r.tx)
  <2>1. Take(x, s, r) = [Spend(s, r) EXCEPT !.pending = @ \ Beside(x, @, r.tx)]
    BY <1>3 DEF Take, LossKind
  <2>4. CASE r.day # s.day
    <3>1. Take(x, s, r) = [pending |-> P, lost |-> s.lost, capped |-> s.capped, trip |-> s.trip, day |-> s.day]
      BY <1>0, <2>1, <2>4 DEF Spend
    <3> HIDE DEF P
    <3>2. Take(x, s, r).capped = s.capped
      BY <3>1
    <3> QED BY <1>3, <2>4, <3>2 DEF LossKind
  <2>5. CASE r.day = s.day
    <3> DEFINE c == s.capped \/ s.lost + r.loss >= Budget
    <3>1. Take(x, s, r) = [pending |-> P, lost |-> s.lost + r.loss, capped |-> c, trip |-> s.trip, day |-> s.day]
      BY <1>0, <2>1, <2>5 DEF Spend
    <3> HIDE DEF P, c
    <3>2. Take(x, s, r).capped = c
      BY <3>1
    <3> QED BY <1>3, <2>5, <3>2 DEF LossKind, c
  <2> QED BY <2>4, <2>5
<1>4. CASE r.kind = "loss_cap"
  <2>1. CASE r.day = s.day
    <3>1. Take(x, s, r).capped = TRUE
      BY <1>0, <1>4, <2>1 DEF Take
    <3> QED BY <1>4, <2>1, <3>1
  <2>2. CASE r.day # s.day
    <3>1. Take(x, s, r) = s
      BY <1>4, <2>2 DEF Take
    <3> QED BY <1>4, <2>2, <3>1 DEF LossKind
  <2> QED BY <2>1, <2>2
<1> QED BY <1>k, <1>1, <1>3, <1>4

\* The same record, taken by states that differ in what is pending, or a record of
\* what is pending taken by one of them, leaves them to differ in that only.
LEMMA TakeSame ==
  ASSUME NEW x, NEW X, NEW s \in States(X), NEW u \in States(X), Same(s, u), NEW r \in ArmedRecord(X)
  PROVE  /\ Same(Take(x, s, r), Take(x, u, r))
         /\ r.kind \in PlainKind => Same(Take(x, s, r), u)
<1> DEFINE v == Take(x, s, r)
           w == Take(x, u, r)
           Counts == r.kind \in LossKind /\ r.day = s.day
           Caps == \/ r.kind \in LossKind /\ r.day = s.day /\ s.lost + r.loss >= Budget
                   \/ r.kind = "loss_cap" /\ r.day = s.day
<1>0. s.lost = u.lost /\ (s.capped <=> u.capped) /\ (s.trip <=> u.trip) /\ s.day = u.day
  BY DEF Same
<1>1. /\ v.day = s.day /\ v.lost = (IF Counts THEN s.lost + r.loss ELSE s.lost)
      /\ v.trip <=> r.kind = "tripwire" \/ (s.trip /\ r.kind # "reset")
  BY TakeShape
<1>2. /\ w.day = s.day /\ w.lost = (IF Counts THEN s.lost + r.loss ELSE s.lost)
      /\ w.trip <=> r.kind = "tripwire" \/ (s.trip /\ r.kind # "reset")
  <2>1. /\ w.day = u.day /\ w.lost = (IF r.kind \in LossKind /\ r.day = u.day THEN u.lost + r.loss ELSE u.lost)
        /\ w.trip <=> r.kind = "tripwire" \/ (u.trip /\ r.kind # "reset")
    BY TakeShape
  <2> HIDE DEF w
  <2> QED BY <1>0, <2>1
<1>3. v.capped <=> s.capped \/ Caps
  BY TakeCaps
<1>4. w.capped <=> s.capped \/ Caps
  <2>1. w.capped <=> \/ u.capped
                     \/ r.kind \in LossKind /\ r.day = u.day /\ u.lost + r.loss >= Budget
                     \/ r.kind = "loss_cap" /\ r.day = u.day
    BY TakeCaps
  <2> HIDE DEF w
  <2> QED BY <1>0, <2>1
<1>5. r.kind \in PlainKind => ~Counts /\ ~Caps /\ r.kind # "tripwire" /\ r.kind # "reset"
  BY DEF PlainKind, LossKind
<1> HIDE DEF v, w, Counts, Caps
<1>6. Same(v, w)
  BY <1>1, <1>2, <1>3, <1>4 DEF Same
<1>7. r.kind \in PlainKind => Same(v, u)
  BY <1>0, <1>1, <1>3, <1>5 DEF Same
<1> QED BY <1>6, <1>7 DEF v, w

\* Of two replays, the second is of what is kept of the first's records.
Keeps(s, u, keep) == Same(s, u) /\ u.pending \subseteq keep /\ s.pending \cap keep \subseteq u.pending

\* The record k, taken by both or, where it is not kept, by the first.
BothTake(x, s, u, r, keep, k, K, v, w) ==
  /\ Keeps(s, u, keep)
  /\ r.kind \notin PlainKind => k \in K
  /\ r.kind \in {"submitting", "refused"} => (k \in K <=> r.tx \in keep)
  /\ v = Take(x, s, r) /\ w = IF k \in K THEN Take(x, u, r) ELSE u

\* What that leaves of the two.
BothTook(X, s, u, r, keep, k, K, v, w) ==
  /\ v \in States(X) /\ w \in States(X) /\ Keeps(v, w, keep)
  /\ \A t \in w.pending \ v.pending : t \in u.pending \ s.pending \/ (r.kind = "expired" /\ r.tx = t)
  /\ r.kind = "expired" /\ k \in K => r.tx \notin w.pending
  /\ \A t \in w.pending \ u.pending : r.kind = "submitting" /\ r.tx = t

\* Then they differ in what is pending only by what expired, unless the expiry is kept.
LEMMA KeepsStep ==
  ASSUME NEW x, NEW X, NEW s \in States(X), NEW u \in States(X), NEW r \in ArmedRecord(X), NEW keep,
         NEW k, NEW K, NEW v, NEW w, BothTake(x, s, u, r, keep, k, K, v, w)
  PROVE  BothTook(X, s, u, r, keep, k, K, v, w)
<1> USE DEF BothTake, BothTook
<1>k. r.kind \in PlainKind \cup LossKind \cup {"loss_cap", "tripwire", "reset"}
  BY RecordKinds
<1>1. /\ v \in States(X) /\ v.pending = Left(x, s.pending, r)
      /\ w \in States(X) /\ w.pending = IF k \in K THEN Left(x, u.pending, r) ELSE u.pending
  <2>1. /\ Take(x, s, r) \in States(X) /\ Take(x, s, r).pending = Left(x, s.pending, r)
        /\ Take(x, u, r) \in States(X) /\ Take(x, u, r).pending = Left(x, u.pending, r)
    BY TakeShape
  <2> QED BY <2>1
<1>2. Same(v, w)
  <2>1. Same(s, u) /\ (k \in K \/ r.kind \in PlainKind)
    BY DEF Keeps
  <2> QED BY <2>1, TakeSame DEF Same
<1>3. s.pending \cap keep \subseteq u.pending /\ u.pending \subseteq keep
  BY DEF Keeps
<1>a. CASE r.kind = "submitting"
  <2>1. v.pending = s.pending \cup {r.tx} /\ w.pending = IF k \in K THEN u.pending \cup {r.tx} ELSE u.pending
    BY <1>1, <1>a DEF Left
  <2> QED BY <1>1, <1>2, <1>3, <1>a, <2>1 DEF Keeps
<1>b. CASE r.kind = "refused"
  <2>1. v.pending = s.pending \ {r.tx} /\ w.pending = IF k \in K THEN u.pending \ {r.tx} ELSE u.pending
    BY <1>1, <1>b DEF Left
  <2> QED BY <1>1, <1>2, <1>3, <1>b, <2>1 DEF Keeps
<1>c. CASE r.kind = "expired"
  <2>1. v.pending = s.pending \ {r.tx} /\ w.pending = IF k \in K THEN u.pending \ {r.tx} ELSE u.pending
    BY <1>1, <1>c DEF Left
  <2> QED BY <1>1, <1>2, <1>3, <1>c, <2>1 DEF Keeps
<1>d. CASE r.kind \in LossKind
  <2>1. k \in K
    BY <1>d DEF PlainKind, LossKind
  <2>2. v.pending = s.pending \ Beside(x, s.pending, r.tx) /\ w.pending = u.pending \ Beside(x, u.pending, r.tx)
    BY <1>1, <1>d, <2>1 DEF Left, LossKind
  <2>3. /\ v.pending = {t \in s.pending : t \notin Beside(x, {t}, r.tx)}
        /\ w.pending = {t \in u.pending : t \notin Beside(x, {t}, r.tx)}
    BY <2>2 DEF Beside
  <2>4. r.kind # "expired" /\ r.kind # "submitting"
    BY <1>d DEF LossKind
  <2> QED BY <1>1, <1>2, <1>3, <2>3, <2>4 DEF Keeps
<1>e. CASE r.kind \in {"loss_cap", "tripwire", "reset"}
  <2>1. k \in K
    BY <1>e DEF PlainKind
  <2>2. v.pending = s.pending /\ w.pending = u.pending
    BY <1>1, <1>e, <2>1 DEF Left, LossKind
  <2> QED BY <1>1, <1>2, <1>3, <1>e, <2>2 DEF Keeps
<1> QED BY <1>k, <1>a, <1>b, <1>c, <1>d, <1>e DEF PlainKind

\* The records of a beginning of the ledger.
LEMMA CutAppend ==
  ASSUME NEW R, NEW l \in Seq(R), NEW n \in 0..(Len(l) - 1)
  PROVE  /\ n + 1 \in 1..Len(l) /\ l[n + 1] \in R /\ SubSeq(l, 1, n) \in Seq(R)
         /\ SubSeq(l, 1, n + 1) = Append(SubSeq(l, 1, n), l[n + 1])
<1>1. n + 1 \in 1..Len(l) /\ n \in Nat
  OBVIOUS
<1>2. l[n + 1] \in R
  BY <1>1
<1>3. SubSeq(l, 1, n) \in Seq(R)
  OBVIOUS
<1>4. SubSeq(l, 1, n + 1) = Append(SubSeq(l, 1, n), l[n + 1])
  OBVIOUS
<1> QED BY <1>1, <1>2, <1>3, <1>4

\* None of a ledger, and all.
LEMMA CutEnds ==
  ASSUME NEW R, NEW l \in Seq(R)
  PROVE  SubSeq(l, 1, 0) = <<>> /\ SubSeq(l, 1, Len(l)) = l
OBVIOUS

\* No expired transaction is submitted again.
NoRevival(l) ==
  \A i \in 1..Len(l) : \A j \in 1..Len(l) :
    i < j /\ l[i].kind = "expired" /\ l[j].kind = "submitting" => l[i].tx # l[j].tx

\* Pins and Kept, for given transactions.
PinsOf(x, l) ==
  {i \in 1..Len(l) :
     /\ l[i].kind \in {"submitting", "expired", "landed"}
     /\ \A j \in (i + 1)..Len(l) :
          l[j].kind \in {"submitting", "expired", "landed"} => x[l[j].tx].sender # x[l[i].tx].sender}

KeepOf(x, l, d) ==
  After(x, l, d).pending \cup {l[i].tx : i \in {j \in PinsOf(x, l) : l[j].kind # "landed"}}

KeptOf(x, l, d) ==
  {i \in 1..Len(l) :
     \/ l[i].kind \in {"landed", "abandoned", "loss_cap", "tripwire", "reset"}
     \/ l[i].kind \in {"submitting", "refused"} /\ l[i].tx \in KeepOf(x, l, d)
     \/ l[i].kind = "expired" /\ i \in PinsOf(x, l)}

\* The records compact keeps, for the transactions there are.
LEMMA KeptIs == Kept(ledger) = KeptOf(tx, ledger, day)
<1>1. Replay(ledger, day) = After(tx, ledger, day)
  BY DiskIs
<1>2. Pins(ledger) = PinsOf(tx, ledger)
  BY DEF Pins, PinsOf
<1> QED BY <1>1, <1>2 DEF Kept, KeptOf, KeepOf


\* The kept records rebuild the state: a transaction pending has every record of it
\* kept, and one that is not is gone by the records kept, or has none.
LEMMA CompactsState ==
  ASSUME NEW x, NEW X, NEW l \in Seq(ArmedRecord(X)), NoRevival(l), NEW d \in Nat
  PROVE  After(x, CompactedOf(l, KeptOf(x, l, d)), d) = After(x, l, d)
<1> DEFINE R == ArmedRecord(X)
           K == KeptOf(x, l, d)
           keep == KeepOf(x, l, d)
           m == Len(l)
           Cut(n) == SubSeq(l, 1, n)
<1>1. PICK out : IsCompaction(out, l, K, R) /\ CompactedOf(l, K) = out[m]
  BY CompactionExists
<1> DEFINE s(n) == After(x, Cut(n), d)
           u(n) == After(x, out[n], d)
           Expires(t, n) == \E i \in 1..n : l[i].kind = "expired" /\ l[i].tx = t
           Holds(n) == /\ Keeps(s(n), u(n), keep)
                       /\ \A t \in u(n).pending \ s(n).pending : Expires(t, n)
                       /\ \A i \in 1..n : i \in K /\ l[i].kind = "expired" => l[i].tx \notin u(n).pending
           G == {n \in 0..m : Holds(n)}
<1>2. m \in Nat /\ \A n \in 0..m : out[n] \in Seq(R)
  BY <1>1 DEF IsCompaction
<1>3. \A n \in 0..m : Cut(n) \in Seq(R)
  OBVIOUS
<1>4. \A n \in 0..m : s(n) \in States(X) /\ u(n) \in States(X)
  <2> HIDE DEF Cut
  <2> QED BY <1>2, <1>3, AfterType
<1>5. 0 \in G
  <2>1. Cut(0) = <<>> /\ out[0] = <<>>
    BY <1>1, CutEnds DEF IsCompaction
  <2>2. s(0) = NewState(d) /\ u(0) = NewState(d)
    BY <2>1, AfterEmpty
  <2>3. NewState(d).pending = {}
    BY NewStateIs
  <2> HIDE DEF s, u
  <2>4. Holds(0)
    BY <1>2, <2>2, <2>3 DEF Keeps, Same
  <2> HIDE DEF Holds
  <2> QED BY <1>2, <2>4
<1>6. ASSUME NEW n \in 0..(m - 1), n \in G PROVE n + 1 \in G
  <2> DEFINE r == l[n + 1]
             in == n + 1 \in K
  <2>1. /\ n \in 0..m /\ n \in Nat /\ n + 1 \in 0..m /\ n + 1 \in 1..m /\ r \in R /\ Cut(n + 1) = Append(Cut(n), r)
    <3>1. n + 1 \in 1..Len(l) /\ l[n + 1] \in R /\ SubSeq(l, 1, n + 1) = Append(SubSeq(l, 1, n), l[n + 1])
      <4> HIDE DEF R
      <4>1. n \in 0..(Len(l) - 1) /\ l \in Seq(R)
        BY DEF R
      <4> QED BY <4>1, CutAppend
    <3>2. n \in 0..m /\ n \in Nat /\ n + 1 \in 0..m
      BY <1>2
    <3> QED BY <3>1, <3>2
  <2>2. out[n + 1] = IF in THEN Append(out[n], r) ELSE out[n]
    BY <1>1 DEF IsCompaction
  <2>3. s(n + 1) = Take(x, s(n), r)
    <3>1. Cut(n) \in Seq(ArmedRecord(X))
      BY <1>3, <2>1
    <3> HIDE DEF Cut, r
    <3>2. After(x, Append(Cut(n), r), d) = Take(x, After(x, Cut(n), d), r)
      BY <2>1, <3>1, AfterAppend
    <3> QED BY <2>1, <3>2
  <2>4. u(n + 1) = IF in THEN Take(x, u(n), r) ELSE u(n)
    <3>1. out[n] \in Seq(ArmedRecord(X))
      BY <1>2, <2>1
    <3> HIDE DEF r, in
    <3>2. After(x, Append(out[n], r), d) = Take(x, After(x, out[n], d), r)
      BY <2>1, <3>1, AfterAppend
    <3> QED BY <2>2, <3>2
  <2>5. /\ r.kind \notin PlainKind => in
        /\ r.kind \in {"submitting", "refused"} => (in <=> r.tx \in keep)
    <3>k. r.kind \in PlainKind \cup LossKind \cup {"loss_cap", "tripwire", "reset"}
      <4> HIDE DEF r
      <4> QED BY <2>1, RecordKinds
    <3> HIDE DEF keep
    <3>1. in <=> \/ r.kind \in {"landed", "abandoned", "loss_cap", "tripwire", "reset"}
                 \/ r.kind \in {"submitting", "refused"} /\ r.tx \in keep
                 \/ r.kind = "expired" /\ n + 1 \in PinsOf(x, l)
      BY <2>1 DEF KeptOf, keep
    <3> HIDE DEF r, in
    <3> QED BY <3>k, <3>1 DEF PlainKind, LossKind
  <2>6. Holds(n)
    BY <1>6
  <2> HIDE DEF K, keep
  <2> DEFINE a == s(n)
             b == u(n)
             v == s(n + 1)
             w == u(n + 1)
  <2>7. a \in States(X) /\ b \in States(X)
    BY <1>4, <2>1
  <2>8. v = Take(x, a, r) /\ w = (IF in THEN Take(x, b, r) ELSE b) /\ Keeps(a, b, keep)
    BY <2>3, <2>4, <2>6
  <2>9. \A t \in b.pending \ a.pending : Expires(t, n)
    BY <2>6
  <2>10. \A i \in 1..n : i \in K /\ l[i].kind = "expired" => l[i].tx \notin b.pending
    BY <2>6
  <2> HIDE DEF s, u, a, b, v, w, r, in
  <2> USE DEF in
  <2>11. /\ Keeps(v, w, keep)
         /\ \A t \in w.pending \ v.pending : t \in b.pending \ a.pending \/ (r.kind = "expired" /\ r.tx = t)
         /\ r.kind = "expired" /\ in => r.tx \notin w.pending
         /\ \A t \in w.pending \ b.pending : r.kind = "submitting" /\ r.tx = t
    <3> DEFINE k == n + 1
    <3>1. r \in ArmedRecord(X) /\ (in <=> k \in K)
      BY <2>1
    <3> HIDE DEF k, in, R
    <3>2. BothTake(x, a, b, r, keep, k, K, v, w)
      BY <2>5, <2>8, <3>1 DEF BothTake
    <3>3. BothTook(X, a, b, r, keep, k, K, v, w)
      BY ONLY <2>7, <3>1, <3>2, KeepsStep
    <3> QED BY <3>1, <3>3 DEF BothTook
  <2>12. \A i \in 1..(n + 1) : i \in 1..n \/ i = n + 1
    BY <2>1
  <2>13. 1..n \subseteq 1..(n + 1) /\ n + 1 \in 1..(n + 1)
    BY <2>1
  <2>14. \A t \in w.pending \ v.pending : Expires(t, n + 1)
    <3>1. SUFFICES ASSUME NEW t \in w.pending \ v.pending PROVE Expires(t, n + 1)
      OBVIOUS
    <3>2. CASE t \in b.pending \ a.pending
      BY <2>9, <2>13, <3>2
    <3>3. CASE r.kind = "expired" /\ r.tx = t
      BY <2>13, <3>3 DEF r
    <3> QED BY <2>11, <3>2, <3>3
  <2>15. \A i \in 1..(n + 1) : i \in K /\ l[i].kind = "expired" => l[i].tx \notin w.pending
    <3>1. SUFFICES ASSUME NEW i \in 1..(n + 1), i \in K, l[i].kind = "expired", l[i].tx \in w.pending PROVE FALSE
      OBVIOUS
    <3>2. CASE i = n + 1
      BY <2>11, <3>1, <3>2 DEF r, in
    <3>3. CASE i \in 1..n
      <4>1. l[i].tx \notin b.pending
        BY <2>10, <3>1, <3>3
      <4>2. r.kind = "submitting" /\ r.tx = l[i].tx
        BY <2>11, <3>1, <4>1
      <4>3. i \in 1..m /\ i < n + 1
        BY <1>2, <2>1, <3>3
      <4> QED BY <2>1, <3>1, <4>2, <4>3 DEF NoRevival, r
    <3> QED BY <2>12, <3>2, <3>3
  <2>16. Holds(n + 1)
    BY <2>11, <2>14, <2>15 DEF v, w
  <2> HIDE DEF Holds
  <2> QED BY <2>1, <2>16
<1>7. Holds(m)
  <2>1. \A n \in 0..(m - 1) : n \in G => n + 1 \in G
    <3> HIDE DEF G
    <3> QED BY <1>6
  <2> HIDE DEF G
  <2>2. \A n \in 0..m : n \in G
    BY <1>2, <1>5, <2>1, InductionTo
  <2>3. m \in G
    BY <1>2, <2>2
  <2> QED BY <2>3 DEF G
<1> DEFINE a == After(x, l, d)
           b == After(x, out[m], d)
<1>8. s(m) = a /\ u(m) = b
  BY CutEnds
<1>9. /\ Keeps(a, b, keep) /\ a \in States(X) /\ b \in States(X)
      /\ \A t \in b.pending \ a.pending : Expires(t, m)
      /\ \A i \in 1..m : i \in K /\ l[i].kind = "expired" => l[i].tx \notin b.pending
  <2> HIDE DEF s, u, a, b, keep, K
  <2>1. m \in 0..m
    BY <1>2
  <2>2. a \in States(X) /\ b \in States(X)
    BY <1>4, <1>8, <2>1
  <2> QED BY <1>7, <1>8, <2>2
<1>10. a.pending \subseteq b.pending
  <2>1. a.pending \subseteq keep
    BY DEF KeepOf
  <2> HIDE DEF a, b, keep
  <2> QED BY <1>9, <2>1 DEF Keeps
<1>11. ASSUME NEW t \in b.pending \ a.pending PROVE FALSE
  <2>1. t \in keep
    <3> HIDE DEF a, b, keep
    <3> QED BY <1>9, <1>11 DEF Keeps
  <2>2. PICK i \in PinsOf(x, l) : l[i].kind # "landed" /\ l[i].tx = t
    BY <1>11, <2>1 DEF KeepOf
  <2>3. PICK j \in 1..m : l[j].kind = "expired" /\ l[j].tx = t
    <3> HIDE DEF a, b, keep
    <3> QED BY <1>9, <1>11
  <2>4. /\ i \in 1..m /\ l[i].kind \in {"submitting", "expired"}
        /\ \A k \in (i + 1)..m : l[k].kind \in {"submitting", "expired", "landed"} => x[l[k].tx].sender # x[l[i].tx].sender
    BY <2>2 DEF PinsOf
  <2>5. CASE l[i].kind = "expired"
    <3>1. i \in K
      BY <2>2, <2>4, <2>5 DEF KeptOf
    <3> HIDE DEF a, b, keep, K
    <3> QED BY <1>9, <1>11, <2>2, <2>4, <2>5, <3>1
  <2>6. CASE l[i].kind = "submitting"
    <3>1. ~(j < i)
      BY <2>2, <2>3, <2>4, <2>6 DEF NoRevival
    <3>2. j # i
      BY <2>3, <2>6
    <3>3. j \in (i + 1)..m
      <4>1. i \in Nat /\ j \in Nat /\ j <= m
        BY <2>3, <2>4
      <4> QED BY <1>2, <3>1, <3>2, <4>1
    <3> QED BY <2>2, <2>3, <2>4, <3>3
  <2> QED BY <2>4, <2>5, <2>6
<1>12. a.pending = b.pending
  BY <1>10, <1>11
<1>13. a = b
  <2> HIDE DEF a, b, keep
  <2>1. a.lost = b.lost /\ (a.capped <=> b.capped) /\ (a.trip <=> b.trip) /\ a.day = b.day
    BY <1>9 DEF Keeps, Same
  <2>2. /\ a = [pending |-> a.pending, lost |-> a.lost, capped |-> a.capped, trip |-> a.trip, day |-> a.day]
        /\ b = [pending |-> b.pending, lost |-> b.lost, capped |-> b.capped, trip |-> b.trip, day |-> b.day]
        /\ a.capped \in BOOLEAN /\ b.capped \in BOOLEAN /\ a.trip \in BOOLEAN /\ b.trip \in BOOLEAN
    BY <1>9 DEF States
  <2>3. a.capped = b.capped /\ a.trip = b.trip
    BY <2>1, <2>2
  <2> QED BY <1>12, <2>1, <2>2, <2>3
<1> QED BY <1>1, <1>13

\* A sender a record places is pinned, then or later.
LEMMA PinAfter ==
  ASSUME NEW x, NEW X, NEW l \in Seq(ArmedRecord(X)), NEW i \in 1..Len(l), NEW s, Tells(x, l[i], s)
  PROVE  \E p \in PinsOf(x, l) : i <= p /\ Tells(x, l[p], s)
<1> DEFINE T == {k \in 1..Len(l) : Tells(x, l[k], s)}
           p == Max(T)
<1>1. i \in T /\ T \subseteq 1..Len(l) /\ Len(l) \in Nat
  OBVIOUS
<1>2. p \in T /\ \A y \in T : y <= p
  <2> HIDE DEF T
  <2> QED BY <1>1, MaxOfPlaces
<1> HIDE DEF p
<1>3. \A j \in (p + 1)..Len(l) : j \notin T /\ j \in 1..Len(l)
  <2>1. p \in Nat /\ \A j \in (p + 1)..Len(l) : j \in 1..Len(l) /\ ~(j <= p)
    BY <1>1, <1>2
  <2> HIDE DEF T
  <2> QED BY <1>2, <2>1
<1>4. p \in PinsOf(x, l)
  BY <1>2, <1>3 DEF PinsOf, Tells
<1> QED BY <1>1, <1>2, <1>4

\* The kept records place each sender where all of them do: none is dropped after
\* the last that places it.
LEMMA CompactsViews ==
  ASSUME NEW x, NEW X, Placed(x, X), NEW l \in Seq(ArmedRecord(X)), NEW d \in Nat
  PROVE  Sighted(x, CompactedOf(l, KeptOf(x, l, d))) = Sighted(x, l)
<1> DEFINE R == ArmedRecord(X)
           K == KeptOf(x, l, d)
           m == Len(l)
           Cut(n) == SubSeq(l, 1, n)
<1>1. PICK out : IsCompaction(out, l, K, R) /\ CompactedOf(l, K) = out[m]
  BY CompactionExists
<1> DEFINE v(n) == Sighted(x, Cut(n))
           w(n) == Sighted(x, out[n])
           Holds(n) == \A s \in Sender : (\A p \in PinsOf(x, l) : Tells(x, l[p], s) => p <= n) => v(n)[s] = w(n)[s]
           G == {n \in 0..m : Holds(n)}
<1>2. m \in Nat /\ \A n \in 0..m : out[n] \in Seq(R)
  BY <1>1 DEF IsCompaction
<1>3. \A n \in 0..m : Cut(n) \in Seq(R)
  OBVIOUS
<1>4. \A n \in 0..m : v(n) \in Sightings /\ w(n) \in Sightings
  <2> HIDE DEF Cut
  <2> QED BY <1>2, <1>3, SightedType
<1>5. 0 \in G
  <2>1. Cut(0) = <<>> /\ out[0] = <<>>
    BY <1>1, CutEnds DEF IsCompaction
  <2>2. v(0) = NoSight /\ w(0) = NoSight
    BY <2>1, SightedEmpty
  <2> HIDE DEF v, w
  <2> QED BY <1>2, <2>2
<1>6. ASSUME NEW n \in 0..(m - 1), n \in G PROVE n + 1 \in G
  <2> DEFINE r == l[n + 1]
             in == n + 1 \in K
  <2>1. /\ n \in 0..m /\ n \in Nat /\ n + 1 \in 0..m /\ n + 1 \in 1..m /\ r \in R /\ Cut(n + 1) = Append(Cut(n), r)
    <3>1. n + 1 \in 1..Len(l) /\ l[n + 1] \in R /\ SubSeq(l, 1, n + 1) = Append(SubSeq(l, 1, n), l[n + 1])
      <4> HIDE DEF R
      <4>1. n \in 0..(Len(l) - 1) /\ l \in Seq(R)
        BY DEF R
      <4> QED BY <4>1, CutAppend
    <3>2. n \in 0..m /\ n \in Nat /\ n + 1 \in 0..m
      BY <1>2
    <3> QED BY <3>1, <3>2
  <2>2. out[n + 1] = IF in THEN Append(out[n], r) ELSE out[n]
    BY <1>1 DEF IsCompaction
  <2>3. v(n + 1) = Seen(x, v(n), r)
    <3>1. Cut(n) \in Seq(ArmedRecord(X))
      BY <1>3, <2>1
    <3> HIDE DEF Cut, r
    <3>2. Sighted(x, Append(Cut(n), r)) = Seen(x, Sighted(x, Cut(n)), r)
      BY <2>1, <3>1, SightedAppend
    <3> QED BY <2>1, <3>2
  <2>4. w(n + 1) = IF in THEN Seen(x, w(n), r) ELSE w(n)
    <3>1. out[n] \in Seq(ArmedRecord(X))
      BY <1>2, <2>1
    <3> HIDE DEF r, in
    <3>2. Sighted(x, Append(out[n], r)) = Seen(x, Sighted(x, out[n]), r)
      BY <2>1, <3>1, SightedAppend
    <3> QED BY <2>2, <3>2
  <2>5. /\ r.kind \in {"landed", "abandoned", "loss_cap", "tripwire", "reset"} => in
        /\ n + 1 \in PinsOf(x, l) => in
    <3>1. n + 1 \in PinsOf(x, l) /\ r.kind # "landed" => r.tx \in KeepOf(x, l, d)
      BY DEF KeepOf
    <3>2. n + 1 \in PinsOf(x, l) => r.kind \in {"submitting", "expired", "landed"}
      BY DEF PinsOf
    <3> QED BY <2>1, <3>1, <3>2 DEF KeptOf
  <2>6. Holds(n)
    BY <1>6
  <2>7. v(n) \in Sightings /\ w(n) \in Sightings
    BY <1>4, <2>1
  <2> HIDE DEF K, v, w, r, in
  <2> SUFFICES ASSUME NEW s \in Sender, \A p \in PinsOf(x, l) : Tells(x, l[p], s) => p <= n + 1
               PROVE  v(n + 1)[s] = w(n + 1)[s]
    BY <2>1
  <2>8. /\ Seen(x, v(n), r)[s] = IF Tells(x, r, s) THEN Told(x, r) ELSE IF Forgets(x, r, s) THEN -1 ELSE v(n)[s]
        /\ Seen(x, w(n), r)[s] = IF Tells(x, r, s) THEN Told(x, r) ELSE IF Forgets(x, r, s) THEN -1 ELSE w(n)[s]
    BY <2>1, <2>7, SeenShape
  <2>9. Forgets(x, r, s) => in
    BY <2>5 DEF Forgets
  <2>10. CASE n + 1 \in PinsOf(x, l) /\ Tells(x, r, s)
    BY <2>3, <2>4, <2>5, <2>8, <2>10
  <2>11. CASE ~(n + 1 \in PinsOf(x, l) /\ Tells(x, r, s))
    <3>1. \A p \in PinsOf(x, l) : Tells(x, l[p], s) => p <= n
      <4>1. ASSUME NEW p \in PinsOf(x, l), Tells(x, l[p], s) PROVE p <= n
        <5>1. p \in 1..m /\ p <= n + 1
          BY <4>1 DEF PinsOf
        <5>2. p # n + 1
          BY <2>11, <4>1 DEF r
        <5> QED BY <1>2, <2>1, <5>1, <5>2
      <4> QED BY <4>1
    <3>2. v(n)[s] = w(n)[s]
      BY <2>6, <3>1
    <3>3. ~Tells(x, r, s)
      <4>1. SUFFICES ASSUME Tells(x, r, s) PROVE FALSE
        OBVIOUS
      <4>2. PICK p \in PinsOf(x, l) : n + 1 <= p /\ Tells(x, l[p], s)
        BY <2>1, <4>1, PinAfter DEF r
      <4>3. p <= n /\ p \in 1..m
        BY <3>1, <4>2 DEF PinsOf
      <4> QED BY <1>2, <2>1, <4>2, <4>3
    <3> QED BY <2>3, <2>4, <2>8, <2>9, <3>2, <3>3
  <2> QED BY <2>10, <2>11
<1>7. Holds(m)
  <2>1. \A n \in 0..(m - 1) : n \in G => n + 1 \in G
    <3> HIDE DEF G
    <3> QED BY <1>6
  <2> HIDE DEF G
  <2>2. \A n \in 0..m : n \in G
    BY <1>2, <1>5, <2>1, InductionTo
  <2>3. m \in G
    BY <1>2, <2>2
  <2> QED BY <2>3 DEF G
<1> DEFINE a == Sighted(x, l)
           b == Sighted(x, out[m])
<1>8. v(m) = a /\ w(m) = b
  BY CutEnds
<1>9. a \in Sightings /\ b \in Sightings
  <2> HIDE DEF v, w, a, b
  <2>1. m \in 0..m
    BY <1>2
  <2> QED BY <1>4, <1>8, <2>1
<1>10. \A s \in Sender : a[s] = b[s]
  <2>1. \A p \in PinsOf(x, l) : p <= m
    BY <1>2 DEF PinsOf
  <2> HIDE DEF v, w, a, b
  <2> QED BY <1>7, <1>8, <2>1
<1>11. a = b
  <2> HIDE DEF a, b
  <2> QED BY <1>9, <1>10 DEF Sightings
<1> QED BY <1>1, <1>11


\* A record more, not of what expired.
LEMMA RevivalAppend ==
  ASSUME NEW R, NEW l \in Seq(R), NoRevival(l), NEW r,
         r.kind = "submitting" => \A i \in 1..Len(l) : l[i].kind = "expired" => l[i].tx # r.tx
  PROVE  NoRevival(Append(l, r))
<1> DEFINE k == Append(l, r)
<1>1. /\ Len(k) = Len(l) + 1 /\ Len(l) \in Nat
      /\ \A i \in 1..Len(l) : k[i] = l[i]
      /\ k[Len(l) + 1] = r
  OBVIOUS
<1> HIDE DEF k
<1>2. ASSUME NEW i \in 1..Len(k), NEW j \in 1..Len(k), i < j, k[i].kind = "expired", k[j].kind = "submitting"
      PROVE  k[i].tx # k[j].tx
  <2>1. i \in 1..Len(l)
    BY <1>1, <1>2
  <2>2. CASE j \in 1..Len(l)
    BY <1>1, <1>2, <2>1, <2>2 DEF NoRevival
  <2>3. CASE j = Len(l) + 1
    BY <1>1, <1>2, <2>1, <2>3
  <2> QED BY <1>1, <2>2, <2>3
<1> QED BY <1>2 DEF NoRevival, k

\* A ledger cut short.
LEMMA RevivalCut ==
  ASSUME NEW R, NEW l \in Seq(R), NoRevival(l), NEW n \in 0..Len(l)
  PROVE  NoRevival(SubSeq(l, 1, n))
<1> DEFINE k == SubSeq(l, 1, n)
<1>1. Len(k) = n /\ n \in Nat /\ n <= Len(l) /\ Len(l) \in Nat /\ \A i \in 1..n : k[i] = l[i] /\ i \in 1..Len(l)
  OBVIOUS
<1> HIDE DEF k
<1> QED BY <1>1 DEF NoRevival, k

\* A ledger compacted, whatever is kept.
LEMMA RevivalCompacted ==
  ASSUME NEW R, NEW l \in Seq(R), NoRevival(l), NEW K
  PROVE  NoRevival(CompactedOf(l, K))
<1>1. PICK out : IsCompaction(out, l, K, R) /\ CompactedOf(l, K) = out[Len(l)]
  BY CompactionExists
<1> DEFINE m == Len(l)
           From(k, n) == \A j \in 1..Len(k) : \E i \in 1..n : k[j] = l[i]
           G == {n \in 0..m : From(out[n], n) /\ NoRevival(out[n])}
<1>2. m \in Nat /\ \A n \in 0..m : out[n] \in Seq(R)
  BY <1>1 DEF IsCompaction
<1>3. 0 \in G
  <2>1. out[0] = <<>>
    BY <1>1 DEF IsCompaction
  <2>2. From(<<>>, 0) /\ NoRevival(<<>>)
    BY DEF NoRevival
  <2> QED BY <1>2, <2>1, <2>2
<1>4. ASSUME NEW n \in 0..(m - 1), n \in G PROVE n + 1 \in G
  <2> DEFINE k == out[n]
             r == l[n + 1]
             a == Append(k, r)
  <2>1. n \in 0..m /\ n + 1 \in 1..m /\ n + 1 \in 0..m /\ n \in Nat /\ 1..n \subseteq 1..(n + 1) /\ n + 1 \in 1..(n + 1)
    BY <1>2
  <2>2. out[n + 1] = IF n + 1 \in K THEN a ELSE k
    BY <1>1 DEF IsCompaction
  <2>3. k \in Seq(R) /\ From(k, n) /\ NoRevival(k)
    BY <1>2, <1>4, <2>1
  <2>4. CASE n + 1 \in K
    <3>1. /\ Len(a) = Len(k) + 1 /\ Len(k) \in Nat
          /\ \A j \in 1..Len(k) : a[j] = k[j]
          /\ a[Len(k) + 1] = r
      <4> HIDE DEF From, k, r
      <4> QED BY <2>3
    <3>2. out[n + 1] = a
      BY <2>2, <2>4
    <3>3. ASSUME r.kind = "submitting", NEW j \in 1..Len(k), k[j].kind = "expired" PROVE k[j].tx # r.tx
      <4>1. PICK i \in 1..n : k[j] = l[i]
        BY <2>3
      <4>2. i \in 1..m /\ i < n + 1
        BY <1>2, <2>1
      <4> QED BY <2>1, <3>3, <4>1, <4>2 DEF NoRevival
    <3>4. NoRevival(a)
      <4> HIDE DEF From, k, r
      <4> QED BY <2>3, <3>3, RevivalAppend
    <3>5. From(a, n + 1)
      <4> HIDE DEF k, a
      <4>1. \A j \in 1..Len(a) : j \in 1..Len(k) \/ j = Len(k) + 1
        BY <3>1
      <4> QED BY <2>1, <2>3, <3>1, <4>1
    <3> QED BY <2>1, <3>2, <3>4, <3>5
  <2>5. CASE n + 1 \notin K
    <3>1. From(k, n + 1)
      BY <2>1, <2>3
    <3> QED BY <2>1, <2>2, <2>3, <2>5, <3>1
  <2> QED BY <2>4, <2>5
<1>5. m \in G
  <2>1. \A n \in 0..(m - 1) : n \in G => n + 1 \in G
    <3> HIDE DEF G
    <3> QED BY <1>4
  <2> HIDE DEF G
  <2>2. \A n \in 0..m : n \in G
    BY <1>2, <1>3, <2>1, InductionTo
  <2> QED BY <1>2, <2>2
<1> QED BY <1>1, <1>5

\* The inductive invariant: what expired stays so.
CompactInv == BudgetInv /\ NoRevival(ledger)

\* Every step submits only what is new.
LEMMA NextRevival ==
  ASSUME CompactInv, [Next]_vars
  PROVE  NoRevival(ledger')
<1>1. ArmedInv /\ OutInv /\ NoRevival(ledger) /\ ledger \in Seq(ArmedRecord(Known))
  BY Parts DEF CompactInv, BudgetInv, DoubtInv
<1>2. ASSUME NEW r, ledger' = Append(ledger, r), r.kind # "submitting" PROVE NoRevival(ledger')
  BY <1>1, <1>2, RevivalAppend
<1>3. ASSUME ledger' = ledger PROVE NoRevival(ledger')
  BY <1>1, <1>3
<1>4. ASSUME NEW s, NEW n, NEW b, NEW w, NEW now, NEW hd, WriteAhead(s, n, b, w, now, hd) PROVE NoRevival(ledger')
  <2> DEFINE r == Submitting(Len(tx) + 1)
  <2>1. ledger' = Append(ledger, r) /\ r.tx = Len(tx) + 1
    BY <1>4 DEF WriteAhead, Submitting
  <2>2. ASSUME NEW i \in 1..Len(ledger), ledger[i].kind = "expired" PROVE ledger[i].tx # r.tx
    <3>1. ledger[i] \in ArmedRecord(Known)
      BY <1>1
    <3>2. ledger[i].tx \in Known
      BY <2>2, <3>1, RecordKinds DEF PlainKind
    <3>3. Len(tx) \in Nat
      BY <1>1, Parts
    <3> QED BY <2>1, <3>2, <3>3 DEF Known
  <2> HIDE DEF r
  <2> QED BY <1>1, <2>1, <2>2, RevivalAppend
<1>5. CASE UNCHANGED vars \/ ChainStep
  BY <1>3, <1>5 DEF ChainStep, vars
<1>6. CASE LineStep
  <2>1. CASE \E s \in Sender, w \in Worst, now \in {day - 1, day} \cap Nat, back \in 0..Lag, win \in 1..Window :
               Submit(s, block - back + win, w, now, block - back)
    BY <1>4, <2>1 DEF Submit
  <2>2. CASE \E why \in {"low", "underpriced", "other"} : RefusedFor(why)
    <3>1. ledger' = ledger \/ ledger' = Append(ledger, Refused(line.tx))
      BY <2>2 DEF RefusedFor, Record
    <3>2. Refused(line.tx).kind # "submitting"
      BY DEF Refused
    <3> QED BY <1>2, <1>3, <3>1, <3>2
  <2>3. CASE \E w \in Worst : Bump(w)
    BY <1>4, <2>3 DEF Bump
  <2>4. CASE Answered \/ GivesUp \/ LandingCheck
    BY <1>3, <2>4 DEF Answered, GivesUp, LandingCheck, LandingRead
  <2> QED BY <1>6, <2>1, <2>2, <2>3, <2>4 DEF LineStep
<1>7. CASE HeadStep
  BY <1>3, <1>7 DEF HeadStep, HeadReads, HeadSettles
<1>8. CASE Write
  <2> DEFINE r == outbox.records[1]
  <2>1. ledger' = ledger \/ ledger' = Append(ledger, r)
    BY <1>8 DEF Write, Record
  <2>2. r.kind # "submitting"
    <3>1. outbox # NoOutbox
      BY <1>8 DEF Write
    <3>2. outbox.records # <<>> /\ outbox.records \in Seq(ArmedRecord(Known))
      BY <1>1, <3>1, Parts DEF TurnInv, Outboxes
    <3>3. 1 \in 1..Len(outbox.records)
      BY <3>2
    <3> QED BY <1>1, <3>3 DEF OutInv, AllSound, Sound, LossKind
  <2> HIDE DEF r
  <2> QED BY <1>2, <1>3, <2>1, <2>2
<1>9. CASE Crash
  <2>1. PICK n \in 0..Len(ledger) : ledger' = SubSeq(ledger, 1, n)
    BY <1>9 DEF Crash, Idle
  <2> QED BY <1>1, <2>1, RevivalCut
<1>10. CASE OperatorReset
  <2>1. ledger' = Append(ledger, Reset) /\ Reset.kind # "submitting"
    BY <1>10 DEF OperatorReset, Reset
  <2> QED BY <1>2, <2>1
<1>11. CASE Restart
  <2>1. PICK l : /\ l = ledger \/ l = Compacted
                 /\ ledger' \in {l, Append(l, Tripwire)}
    BY <1>11 DEF Restart, Begin
  <2>2. l \in Seq(ArmedRecord(Known)) /\ NoRevival(l)
    <3>1. CASE l = ledger
      BY <1>1, <3>1
    <3>2. CASE l = Compacted
      <4> DEFINE R == ArmedRecord(Known)
                 K == Kept(ledger)
                 m == ledger
      <4>1. l = CompactedOf(m, K) /\ m \in Seq(R) /\ NoRevival(m)
        BY <1>1, <3>2, CompactedIsOf
      <4> HIDE DEF R, K, m
      <4>2. CompactedOf(m, K) \in Seq(R)
        BY <4>1, CompactedRecords
      <4>3. NoRevival(CompactedOf(m, K))
        BY <4>1, RevivalCompacted
      <4> QED BY <4>1, <4>2, <4>3 DEF R
    <3> QED BY <2>1, <3>1, <3>2
  <2>3. Tripwire.kind # "submitting"
    BY DEF Tripwire
  <2>4. NoRevival(Append(l, Tripwire))
    <3> DEFINE r == Tripwire
    <3>1. r.kind # "submitting"
      BY <2>3
    <3> HIDE DEF r
    <3>2. NoRevival(Append(l, r))
      BY <2>2, <3>1, RevivalAppend
    <3> QED BY <3>2 DEF r
  <2> QED BY <2>1, <2>2, <2>4
<1> QED BY <1>5, <1>6, <1>7, <1>8, <1>9, <1>10, <1>11 DEF Next

\* What expired is not submitted again.
THEOREM ArmedCompactInvariant == Spec => []CompactInv
<1>1. Init => CompactInv
  <2> SUFFICES ASSUME Init PROVE CompactInv
    OBVIOUS
  <2>1. ledger = <<>>
    BY DEF Init
  <2> QED BY <2>1, InitBudget DEF CompactInv, NoRevival
<1>2. CompactInv /\ [Next]_vars => CompactInv'
  BY NextBudget, NextRevival DEF CompactInv
<1> QED BY <1>1, <1>2, PTL DEF Spec

\* A compacted ledger replays as the whole one did, and leaves each sender where it
\* was: compact drops no record a boot would miss, whatever was refused, expired,
\* replaced or reset before it, so no boot refuses to compact.
THEOREM ArmedCompactReplaysSame == Spec => []CompactReplaysSame
<1>1. CompactInv => CompactReplaysSame
  <2> SUFFICES ASSUME CompactInv PROVE CompactReplaysSame
    OBVIOUS
  <2>1. ArmedInv /\ NoRevival(ledger)
    BY DEF CompactInv, BudgetInv
  <2> DEFINE l == ledger
             K == KeptOf(tx, ledger, day)
             c == CompactedOf(ledger, K)
  <2>2. l \in Seq(ArmedRecord(Known)) /\ day \in Nat /\ NoRevival(l)
    BY <2>1, Parts
  <2>3. Placed(tx, Known)
    <3>1. IsChain(tx, fate, stolen)
      BY <2>1, Parts
    <3>2. \A t \in Known : tx[t].sender \in Sender /\ tx[t].nonce \in Nat
      BY <3>1, TxOf DEF Known, Txn
    <3> QED BY <3>2 DEF Placed
  <2>4. Compacted = c
    BY CompactedIsOf, KeptIs
  <2>5. After(tx, c, day) = After(tx, l, day)
    BY <2>2, CompactsState
  <2>6. Sighted(tx, c) = Sighted(tx, l)
    BY <2>2, <2>3, CompactsViews
  <2> HIDE DEF K, c
  <2>7. /\ Replay(c, day) = After(tx, c, day) /\ Replay(l, day) = After(tx, l, day)
        /\ Views(c) = Sighted(tx, c) /\ Views(l) = Sighted(tx, l)
    BY ReplayIs, ViewsAre
  <2> QED BY <2>4, <2>5, <2>6, <2>7 DEF CompactReplaysSame, SameReplay
<1> QED BY <1>1, ArmedCompactInvariant, PTL

-----------------------------------------------------------------------------
(* Without a reason to trip.                                               *)

\* The transactions of the refusals a ledger ends with, which a death may forget.
Ending(l) == {i \in 1..Len(l) : \A j \in i..Len(l) : l[j].kind = "refused"}
Undone(l) == {l[i].tx : i \in Ending(l)}

\* The sender s is at the nonce n: all of it that is pending in D, or may be again,
\* is of that nonce, the ledger left it there or nowhere, and the chain is
\* there or, with one of D, just past it.
AtPlace(x, f, k, D, W, e, s, n) ==
  /\ \A t \in D \cup W : x[t].sender = s => x[t].nonce = n
  /\ e \in {-1, n}
  /\ k = n \/ (k = n + 1 /\ \E u \in D : x[u].sender = s /\ f[u].is = "landed")

\* What a settlement in hand makes of its sender's nonce, and where the worker,
\* when it is ready or has nothing of the sender, has any other.
InStep(x, o, N, rd, D, s, n) ==
  IF o # NoOutbox /\ o.sender = s
  THEN n = IF o.records[1].kind = "landed" THEN o.nonce - 1 ELSE o.nonce
  ELSE (rd \/ \A t \in D : x[t].sender # s) => N[s] = n

\* A settlement in hand abandons nothing.
OutSeen(x, D, o) ==
  o # NoOutbox =>
    /\ o.nonce # -1
    /\ \A i \in 1..Len(o.records) : LET r == o.records[i] IN
         /\ r.kind \in {"landed", "expired", "loss_cap"}
         /\ r.kind = "landed" => i = 1 /\ r.tx \in D /\ x[r.tx].sender = o.sender /\ x[r.tx].nonce + 1 = o.nonce
         /\ r.kind = "expired" => x[r.tx].sender = o.sender /\ x[r.tx].nonce = o.nonce

\* A read that passed what is pending found what landed.
ReadsSeen(x, D, R) ==
  \A r \in R : \A t \in D : x[t].sender = r.sender /\ x[t].nonce < r.nonce => r.landed \in D

Stands(s, n) ==
  AtPlace(tx, fate, NonceIn(tx, fate, stolen, s, block), Disk.pending, Undone(ledger), Sighted(tx, ledger)[s], s, n)

Knows(s, n) == InStep(tx, outbox, nonces, ready, Disk.pending, s, n)

PlaceInv == \A s \in Sender : \E n \in Nat : Stands(s, n) /\ (up => Knows(s, n))

WorkerInv ==
  /\ mem.pending = Disk.pending /\ ~mem.trip
  /\ OutSeen(tx, Disk.pending, outbox) /\ ReadsSeen(tx, Disk.pending, head.reads)
  /\ line.pc # "none" => ready

TruthInv == ~excused => PlaceInv /\ ~Disk.trip /\ (up => WorkerInv)

\* One record more: only a refusal can be undone.
LEMMA UndoneAppend ==
  ASSUME NEW R, NEW l \in Seq(R), NEW r
  PROVE  Undone(Append(l, r)) = IF r.kind = "refused" THEN Undone(l) \cup {r.tx} ELSE {}
<1> DEFINE k == Append(l, r)
           m == Len(l)
<1>1. m \in Nat /\ Len(k) = m + 1 /\ k[m + 1] = r /\ \A i \in 1..m : k[i] = l[i]
  OBVIOUS
<1>2. CASE r.kind # "refused"
  <2>1. \A i \in 1..Len(k) : Len(k) \in i..Len(k)
    BY <1>1
  <2>2. Ending(k) = {}
    <3> HIDE DEF k, m
    <3> QED BY <1>1, <1>2, <2>1 DEF Ending
  <2> QED BY <1>2, <2>2 DEF Undone
<1>3. CASE r.kind = "refused"
  <2>1. \A i \in 1..m : i \in Ending(k) <=> i \in Ending(l)
    <3> TAKE i \in 1..m
    <3>1. \A j \in i..Len(k) : j = m + 1 \/ (j \in i..m /\ j \in 1..m)
      BY <1>1
    <3>2. \A j \in i..m : j \in i..Len(k) /\ j \in 1..m
      BY <1>1
    <3>3. i \in 1..Len(k)
      BY <1>1
    <3> HIDE DEF k
    <3> QED BY <1>1, <1>3, <3>1, <3>2, <3>3 DEF Ending
  <2>2. m + 1 \in Ending(k)
    <3>1. \A j \in (m + 1)..Len(k) : j = m + 1
      BY <1>1
    <3>2. m + 1 \in 1..Len(k)
      BY <1>1
    <3> HIDE DEF k, m
    <3> QED BY <1>1, <1>3, <3>1, <3>2 DEF Ending
  <2>3. \A i \in Ending(k) : i \in 1..m \/ i = m + 1
    BY <1>1 DEF Ending
  <2>4. Ending(l) \subseteq 1..m
    BY DEF Ending
  <2> HIDE DEF k, m
  <2>5. \A t : t \in Undone(k) <=> t \in Undone(l) \/ t = r.tx
    <3>1. ASSUME NEW t \in Undone(k) PROVE t \in Undone(l) \/ t = r.tx
      BY <1>1, <2>1, <2>3, <3>1 DEF Undone
    <3>2. ASSUME NEW t \in Undone(l) PROVE t \in Undone(k)
      BY <1>1, <2>1, <2>4, <3>2 DEF Undone
    <3>3. r.tx \in Undone(k)
      BY <1>1, <2>2 DEF Undone
    <3> QED BY <3>1, <3>2, <3>3
  <2> QED BY <1>3, <2>5 DEF k
<1> QED BY <1>2, <1>3

\* A death undoes refusals at most.
Refusals(l, n) == \A i \in (n + 1)..Len(l) : l[i].kind = "refused"

\* A ledger cut short by them can forget no more than it could.
LEMMA UndoneCut ==
  ASSUME NEW R, NEW l \in Seq(R), NEW n \in 0..Len(l), Refusals(l, n)
  PROVE  /\ Undone(SubSeq(l, 1, n)) \subseteq Undone(l)
         /\ \A i \in (n + 1)..Len(l) : l[i].tx \in Undone(l)
<1> DEFINE k == SubSeq(l, 1, n)
<1>1. Len(l) \in Nat /\ n \in Nat /\ Len(k) = n /\ \A i \in 1..n : k[i] = l[i] /\ i \in 1..Len(l)
  OBVIOUS
<1> HIDE DEF k
<1>2. ASSUME NEW i \in (n + 1)..Len(l) PROVE i \in Ending(l)
  <2>1. i \in 1..Len(l) /\ \A j \in i..Len(l) : j \in (n + 1)..Len(l)
    BY <1>1
  <2> QED BY <2>1 DEF Ending, Refusals
<1>3. ASSUME NEW i \in Ending(k) PROVE i \in Ending(l) /\ i \in 1..n
  <2>1. i \in 1..n
    BY <1>1 DEF Ending
  <2>2. \A j \in i..Len(l) : (j \in i..n /\ j \in 1..n) \/ j \in (n + 1)..Len(l)
    BY <1>1, <2>1
  <2> QED BY <1>1, <2>1, <2>2 DEF Ending, Refusals
<1> QED BY <1>1, <1>2, <1>3 DEF Undone, k

\* The disk after such a death: what was refused may be pending again.
LEMMA CutByRefusals ==
  ASSUME NEW x, NEW X, Placed(x, X), NEW l \in Seq(ArmedRecord(X)), NEW n \in 0..Len(l), Refusals(l, n), NEW d \in Nat
  PROVE  /\ After(x, l, d).pending \subseteq After(x, SubSeq(l, 1, n), d).pending
         /\ After(x, SubSeq(l, 1, n), d).pending \subseteq After(x, l, d).pending \cup Undone(l)
         /\ After(x, SubSeq(l, 1, n), d).trip <=> After(x, l, d).trip
         /\ Sighted(x, SubSeq(l, 1, n)) = Sighted(x, l)
<1> DEFINE m == Len(l)
           Cut(j) == SubSeq(l, 1, j)
           s(j) == After(x, Cut(j), d)
           v(j) == Sighted(x, Cut(j))
           a == s(n)
           Holds(j) == /\ s(j).pending \subseteq a.pending /\ a.pending \subseteq s(j).pending \cup Undone(l)
                       /\ (s(j).trip <=> a.trip) /\ v(j) = v(n)
           G == {j \in 0..m : j < n \/ Holds(j)}
<1>1. m \in Nat /\ n \in 0..m /\ \A j \in 0..m : Cut(j) \in Seq(ArmedRecord(X))
  OBVIOUS
<1>2. \A j \in 0..m : s(j) \in States(X) /\ v(j) \in Sightings
  <2> HIDE DEF Cut
  <2> QED BY <1>1, AfterType, SightedType
<1>3. Holds(n)
  OBVIOUS
<1>4. ASSUME NEW j \in 0..(m - 1), j >= n, Holds(j) PROVE Holds(j + 1)
  <2> DEFINE r == l[j + 1]
  <2>1. j \in 0..m /\ j + 1 \in 0..m /\ j + 1 \in (n + 1)..m
    BY <1>1, <1>4
  <2>2. r.kind = "refused" /\ r.tx \in Undone(l)
    BY <2>1, UndoneCut DEF Refusals
  <2>3. r \in ArmedRecord(X) /\ Cut(j + 1) = Append(Cut(j), r)
    <3> DEFINE R == ArmedRecord(X)
    <3>1. l \in Seq(R)
      OBVIOUS
    <3> HIDE DEF R
    <3>2. l[j + 1] \in R /\ SubSeq(l, 1, j + 1) = Append(SubSeq(l, 1, j), l[j + 1])
      BY <3>1, CutAppend
    <3> QED BY <3>2 DEF R
  <2> HIDE DEF r, Cut
  <2>4. s(j + 1) = Take(x, s(j), r) /\ v(j + 1) = Seen(x, v(j), r)
    <3> DEFINE q == Cut(j)
    <3>1. q \in Seq(ArmedRecord(X))
      BY <1>1, <2>1
    <3> HIDE DEF q
    <3>2. After(x, Append(q, r), d) = Take(x, After(x, q, d), r) /\ Sighted(x, Append(q, r)) = Seen(x, Sighted(x, q), r)
      BY <2>3, <3>1, AfterAppend, SightedAppend
    <3> QED BY <2>3, <3>2 DEF q
  <2>5. Seen(x, v(j), r) = v(j)
    BY <2>2 DEF Seen
  <2> DEFINE b == s(j)
  <2>6. b \in States(X)
    BY <1>2, <2>1
  <2> HIDE DEF s, v
  <2>7. Take(x, b, r).pending = Left(x, b.pending, r) /\ (Take(x, b, r).trip <=> b.trip)
    <3> HIDE DEF b
    <3> QED BY <2>2, <2>3, <2>6, TakeShape
  <2>8. Left(x, b.pending, r) = b.pending \ {r.tx}
    BY <2>2 DEF Left
  <2> QED BY <1>4, <2>2, <2>4, <2>5, <2>7, <2>8
<1> HIDE DEF Holds, Cut
<1>5. \A j \in 0..m : j \in G
  <2>1. 0 \in G
    <3>1. n = 0 \/ 0 < n
      BY <1>1
    <3> QED BY <1>1, <1>3, <3>1
  <2>2. ASSUME NEW j \in 0..(m - 1), j \in G PROVE j + 1 \in G
    <3>1. j + 1 \in 0..m /\ (j + 1 < n \/ j + 1 = n \/ j >= n)
      BY <1>1
    <3>2. j >= n => Holds(j)
      BY <1>1, <2>2
    <3> QED BY <1>3, <1>4, <3>1, <3>2
  <2> HIDE DEF G
  <2> QED BY <1>1, <2>1, <2>2, InductionTo
<1>6. Holds(m)
  BY <1>1, <1>5
<1>7. Cut(m) = l
  BY CutEnds DEF Cut
<1> QED BY <1>6, <1>7 DEF Holds, Cut


\* What follows the last record that is no refusal: nothing else does, and
\* compact keeps that record.
LEMMA LastStands ==
  ASSUME NEW x, NEW X, NEW l \in Seq(ArmedRecord(X)), NEW d, NEW p \in 1..Len(l),
         l[p].kind # "refused", Refusals(l, p)
  PROVE  p \in KeptOf(x, l, d)
<1>1. l[p] \in ArmedRecord(X)
  OBVIOUS
<1>2. l[p].kind \in PlainKind \cup LossKind \cup {"loss_cap", "tripwire", "reset"}
  BY <1>1, RecordKinds
<1>3. CASE l[p].kind \in LossKind \cup {"loss_cap", "tripwire", "reset"}
  BY <1>3 DEF KeptOf, LossKind
<1>4. CASE l[p].kind \in {"submitting", "expired"}
  <2>1. p \in PinsOf(x, l)
    BY <1>4 DEF PinsOf, Refusals
  <2>2. l[p].tx \in KeepOf(x, l, d)
    BY <1>4, <2>1 DEF KeepOf
  <2> QED BY <1>4, <2>1, <2>2 DEF KeptOf
<1> QED BY <1>2, <1>3, <1>4 DEF PlainKind

\* A compaction leaves no more to undo.
LEMMA UndoneKept ==
  ASSUME NEW x, NEW X, NEW l \in Seq(ArmedRecord(X)), NEW d
  PROVE  Undone(CompactedOf(l, KeptOf(x, l, d))) \subseteq Undone(l)
<1> DEFINE R == ArmedRecord(X)
           K == KeptOf(x, l, d)
           m == Len(l)
           T == {i \in 1..m : l[i].kind # "refused"}
           p == IF T = {} THEN 0 ELSE Max(T)
<1>1. PICK out : IsCompaction(out, l, K, R) /\ CompactedOf(l, K) = out[m]
  BY CompactionExists
<1>2. m \in Nat /\ T \subseteq 1..m /\ \A n \in 0..m : out[n] \in Seq(R)
  BY <1>1 DEF IsCompaction
<1>3. p \in 0..m /\ (p # 0 => p \in T) /\ \A y \in T : y <= p
  <2>1. T # {} => Max(T) \in T /\ \A y \in T : y <= Max(T)
    <3> HIDE DEF T
    <3> QED BY <1>2, MaxOfPlaces
  <2>2. CASE T = {}
    BY <1>2, <2>2
  <2>3. CASE T # {}
    <3>1. p = Max(T)
      BY <2>3
    <3> DEFINE q == Max(T)
    <3>2. q \in T /\ q \in 1..m /\ \A y \in T : y <= q
      <4> HIDE DEF T
      <4> QED BY <1>2, <2>1, <2>3
    <3> HIDE DEF T, q, p
    <3>3. q \in 0..m
      BY <1>2, <3>2
    <3> QED BY <3>1, <3>2, <3>3 DEF q
  <2> QED BY <2>2, <2>3
<1> HIDE DEF p
<1>4. \A i \in (p + 1)..m : l[i].kind = "refused"
  <2>1. ASSUME NEW i \in (p + 1)..m, l[i].kind # "refused" PROVE FALSE
    <3>1. i \in 1..m /\ ~(i <= p)
      BY <1>2, <1>3, <2>1
    <3>2. i \in T
      BY <2>1, <3>1
    <3> HIDE DEF T
    <3> QED BY <1>3, <3>1, <3>2
  <2> QED BY <2>1
<1>5. p # 0 => p \in K /\ l[p].kind # "refused"
  <2>1. ASSUME p # 0 PROVE p \in 1..Len(l) /\ l[p].kind # "refused" /\ Refusals(l, p)
    BY <1>2, <1>3, <1>4, <2>1 DEF Refusals
  <2>2. p # 0 => p \in KeptOf(x, l, d)
    BY <2>1, LastStands
  <2> QED BY <2>1, <2>2
<1> DEFINE G == {n \in 0..m : n < p \/ Undone(out[n]) \subseteq Undone(l)}
<1> HIDE DEF K, T
<1>6. 0 \in G
  <2>1. out[0] = <<>>
    BY <1>1 DEF IsCompaction
  <2>2. Undone(<<>>) = {}
    BY DEF Undone, Ending
  <2> QED BY <1>2, <2>1, <2>2
<1>7. ASSUME NEW n \in 0..(m - 1), n \in G PROVE n + 1 \in G
  <2> DEFINE r == l[n + 1]
  <2>1. n + 1 \in 0..m /\ n \in 0..m /\ n + 1 \in 1..m /\ (n + 1 < p \/ n + 1 = p \/ (n >= p /\ n + 1 \in (p + 1)..m))
    BY <1>2, <1>3
  <2>2. out[n + 1] = (IF n + 1 \in K THEN Append(out[n], r) ELSE out[n]) /\ out[n] \in Seq(R)
    BY <1>1, <1>2, <2>1 DEF IsCompaction
  <2>3. Undone(Append(out[n], r)) = IF r.kind = "refused" THEN Undone(out[n]) \cup {r.tx} ELSE {}
    <3> DEFINE k == out[n]
    <3>1. k \in Seq(R)
      BY <2>2
    <3> HIDE DEF k, r, R
    <3>2. Undone(Append(k, r)) = IF r.kind = "refused" THEN Undone(k) \cup {r.tx} ELSE {}
      BY <3>1, UndoneAppend
    <3> QED BY <3>2 DEF k
  <2>4. CASE n + 1 = p
    <3>1. n + 1 \in K /\ r.kind # "refused"
      BY <1>5, <2>1, <2>4
    <3>2. Undone(out[n + 1]) = {}
      BY <2>2, <2>3, <3>1
    <3> QED BY <2>1, <3>2
  <2>5. CASE n >= p /\ n + 1 \in (p + 1)..m
    <3>1. r.kind = "refused" /\ r.tx \in Undone(l)
      <4>1. r.kind = "refused"
        BY <1>4, <2>5
      <4>2. n + 1 \in Ending(l)
        <5>1. \A j \in (n + 1)..m : j \in (p + 1)..m
          BY <1>2, <1>3, <2>5
        <5> QED BY <1>4, <2>1, <5>1 DEF Ending
      <4> QED BY <4>1, <4>2 DEF Undone
    <3>2. Undone(out[n]) \subseteq Undone(l)
      <4>1. ~(n < p)
        BY <1>3, <2>1, <2>5
      <4> QED BY <1>7, <4>1
    <3>3. Undone(out[n + 1]) \subseteq Undone(l)
      <4> HIDE DEF r
      <4> QED BY <2>2, <2>3, <3>1, <3>2
    <3> QED BY <2>1, <3>3
  <2>6. CASE n + 1 < p
    BY <2>1, <2>6
  <2> QED BY <2>1, <2>4, <2>5, <2>6
<1>8. m \in G
  <2> HIDE DEF G
  <2>1. \A n \in 0..m : n \in G
    BY <1>2, <1>6, <1>7, InductionTo
  <2> QED BY <1>2, <2>1
<1> QED BY <1>1, <1>2, <1>3, <1>8 DEF K

\* A view depends on the transactions the records are of.
LEMMA SightedAlike ==
  ASSUME NEW x, NEW y, NEW X, Placed(x, X), Alike(x, y, X), NEW l \in Seq(ArmedRecord(X))
  PROVE  Sighted(x, l) = Sighted(y, l)
<1>1. Placed(y, X)
  BY DEF Placed, Alike
<1>2. Sight(x, X) = Sight(y, X)
  <2>1. \A z \in Sightings \X ArmedRecord(X) : Seen(x, z[1], z[2]) = Seen(y, z[1], z[2])
    <3> TAKE z \in Sightings \X ArmedRecord(X)
    <3> DEFINE r == z[2]
    <3>1. r \in ArmedRecord(X)
      OBVIOUS
    <3> HIDE DEF r
    <3>2. r.kind \in {"submitting", "expired", "landed", "abandoned"} => r.tx \in X
      BY <3>1, RecordKinds DEF PlainKind, LossKind
    <3>3. r.kind \in {"submitting", "expired", "landed", "abandoned"} => x[r.tx] = y[r.tx]
      BY <3>2 DEF Alike
    <3>4. Seen(x, z[1], r) = Seen(y, z[1], r)
      BY <3>3 DEF Seen
    <3> QED BY <3>4 DEF r
  <2> QED BY <2>1 DEF Sight
<1>3. PICK it : IsFold(it, NoSight, Sight(x, X), l) /\ Sighted(x, l) = it[1..Len(l)]
  BY SightedIsFold
<1>4. PICK jt : IsFold(jt, NoSight, Sight(y, X), l) /\ Sighted(y, l) = jt[1..Len(l)]
  BY <1>1, SightedIsFold
<1>5. it[1..Len(l)] = jt[1..Len(l)]
  <2>1. SamePrefix(l, l, Len(l))
    BY DEF SamePrefix
  <2>2. IsFold(jt, NoSight, Sight(x, X), l)
    BY <1>2, <1>4
  <2> QED BY <1>3, <2>1, <2>2, FoldPrefix
<1> QED BY <1>3, <1>4, <1>5


\* What the lemmas of this part need of the invariants.
LEMMA TruthTypes ==
  ASSUME ArmedInv
  PROVE  /\ Disk.pending \subseteq Known /\ Undone(ledger) \subseteq Known /\ Placed(tx, Known)
         /\ Sighted(tx, ledger) \in Sightings
         /\ \A s : NonceIn(tx, fate, stolen, s, block) \in Nat
         /\ \A t \in Known : tx[t].sender \in Sender /\ tx[t].nonce \in Nat /\ t > 0
<1>1. IsChain(tx, fate, stolen) /\ ledger \in Seq(ArmedRecord(Known))
  BY Parts
<1>2. \A t \in Known : tx[t].sender \in Sender /\ tx[t].nonce \in Nat /\ t > 0
  BY <1>1, TxOf DEF Known
<1>3. Placed(tx, Known)
  BY <1>2 DEF Placed
<1>4. Undone(ledger) \subseteq Known
  <2> SUFFICES ASSUME NEW i \in Ending(ledger) PROVE ledger[i].tx \in Known
    BY DEF Undone
  <2>1. i \in 1..Len(ledger) /\ i \in i..Len(ledger)
    BY <1>1 DEF Ending
  <2>2. ledger[i].kind = "refused" /\ ledger[i] \in ArmedRecord(Known)
    BY <1>1, <2>1 DEF Ending
  <2> QED BY <2>2, RecordKinds DEF PlainKind
<1>5. Sighted(tx, ledger) \in Sightings
  BY <1>1, <1>3, SightedType
<1>6. \A s : NonceIn(tx, fate, stolen, s, block) \in Nat
  BY <1>1, NonceType
<1>7. Disk.pending \subseteq Known
  BY DoubtTypes DEF Known
<1> QED BY <1>2, <1>3, <1>4, <1>5, <1>6, <1>7

\* The disk after a step that writes nothing, or one record.
LEMMA Retells ==
  ASSUME ArmedInv, MovesNow, NEW r \in ArmedRecord(Known')
  PROVE  /\ ledger' = ledger =>
              /\ Disk'.pending = Disk.pending /\ (Disk'.trip <=> Disk.trip)
              /\ Sighted(tx', ledger') = Sighted(tx, ledger) /\ Undone(ledger') = Undone(ledger)
         /\ ledger' = Append(ledger, r) =>
              /\ Disk'.pending = Left(tx', Disk.pending, r)
              /\ Disk'.trip <=> r.kind = "tripwire" \/ (Disk.trip /\ r.kind # "reset")
              /\ Sighted(tx', ledger') = Seen(tx', Sighted(tx, ledger), r)
              /\ Undone(ledger') = IF r.kind = "refused" THEN Undone(ledger) \cup {r.tx} ELSE {}
<1> DEFINE y == tx'
           X == Known'
           e == day'
           l == ledger
           q == After(y, l, e)
<1>1. Grows /\ TypeInv
  BY Parts DEF MovesNow, Moves, Grows
<1>2. l \in Seq(ArmedRecord(X)) /\ e \in Nat /\ Known \subseteq X /\ Alike(tx, y, Known) /\ IsChain(tx', fate', stolen')
  BY <1>1, TypesGrow DEF Alike
<1>3. l \in Seq(ArmedRecord(Known)) /\ day \in Nat
  BY Parts
<1>4. Placed(y, X)
  <2>1. \A t \in X : y[t].sender \in Sender /\ y[t].nonce \in Nat
    BY <1>2, TxOf DEF Known
  <2> QED BY <2>1 DEF Placed
<1>5. Disk.trip <=> q.trip
  <2>1. After(y, l, e).trip <=> After(tx, l, day).trip
    <3> HIDE DEF y, l, e
    <3> QED BY <1>2, <1>3, PendingKept
  <2> QED BY <2>1, DiskIs DEF Disk
<1>6. Sighted(y, l) = Sighted(tx, l)
  BY <1>2, <1>3, TruthTypes, SightedAlike
<1>7. q \in States(X)
  BY <1>2, AfterType
<1>8. Disk' = After(y, ledger', e)
  BY DiskIs DEF Disk
<1>9. ledger' = l => Disk'.pending = Disk.pending
  BY DiskTakes
<1>10. ledger' = Append(l, r) => Disk'.pending = Left(y, Disk.pending, r)
  BY DiskTakes
<1>11. ASSUME ledger' = Append(l, r)
       PROVE  /\ Disk'.trip <=> r.kind = "tripwire" \/ (Disk.trip /\ r.kind # "reset")
              /\ Sighted(y, ledger') = Seen(y, Sighted(tx, l), r)
              /\ Undone(ledger') = IF r.kind = "refused" THEN Undone(l) \cup {r.tx} ELSE {}
  <2>1. r \in ArmedRecord(X)
    OBVIOUS
  <2> DEFINE k == ledger'
  <2>2. k = Append(l, r)
    BY <1>11
  <2> HIDE DEF X, y, e, l, k
  <2>3. After(y, Append(l, r), e) = Take(y, After(y, l, e), r)
    BY <1>2, <2>1, AfterAppend
  <2>4. Sighted(y, Append(l, r)) = Seen(y, Sighted(y, l), r)
    BY <1>2, <1>4, <2>1, SightedAppend
  <2>5. Undone(Append(l, r)) = IF r.kind = "refused" THEN Undone(l) \cup {r.tx} ELSE {}
    <3> DEFINE R == ArmedRecord(X)
    <3>1. l \in Seq(R)
      BY <1>2
    <3> HIDE DEF R
    <3> QED BY <3>1, UndoneAppend
  <2>6. Take(y, q, r).trip <=> r.kind = "tripwire" \/ (q.trip /\ r.kind # "reset")
    <3> HIDE DEF q
    <3> QED BY <1>7, <2>1, TakeShape
  <2>7. Disk' = Take(y, q, r)
    BY <1>8, <2>2, <2>3 DEF k
  <2> QED BY <1>5, <1>6, <2>2, <2>4, <2>5, <2>6, <2>7 DEF k
<1>12. ledger' = l => (Disk'.trip <=> Disk.trip) /\ Sighted(y, ledger') = Sighted(tx, l) /\ Undone(ledger') = Undone(l)
  BY <1>5, <1>6, <1>8
<1> QED BY <1>9, <1>10, <1>11, <1>12

\* A step without a record, at which no nonce is used.
LEMMA TruthQuiet ==
  ASSUME ArmedInv, TruthInv, ~excused, MovesNow, tx' = tx, ledger' = ledger, up' = up,
         \A s \in Sender : NonceIn(tx', fate', stolen', s, block') = NonceIn(tx, fate, stolen, s, block),
         mem'.pending = mem.pending, mem'.trip = mem.trip,
         up => OutSeen(tx, Disk.pending, outbox') /\ ReadsSeen(tx, Disk.pending, head'.reads) /\ (line'.pc # "none" => ready'),
         up => \A s \in Sender : \A n \in Nat :
                 Stands(s, n) /\ Knows(s, n) => InStep(tx, outbox', nonces', ready', Disk.pending, s, n)
  PROVE  TruthInv'
<1>1. /\ Disk'.pending = Disk.pending /\ (Disk'.trip <=> Disk.trip)
      /\ Sighted(tx', ledger') = Sighted(tx, ledger) /\ Undone(ledger') = Undone(ledger)
  <2>1. Tripwire \in ArmedRecord(Known')
    BY RecordsAre
  <2> QED BY <2>1, Retells
<1>2. PlaceInv /\ ~Disk.trip /\ (up => WorkerInv)
  BY DEF TruthInv
<1>3. \A t \in Known : fate[t].is = "landed" => fate'[t] = fate[t]
  BY DEF MovesNow, Moves, Grew, Known
<1>4. Disk.pending \subseteq Known
  BY TruthTypes
<1>5. PlaceInv'
  <2> SUFFICES ASSUME NEW s \in Sender PROVE \E n \in Nat : Stands(s, n)' /\ (up' => Knows(s, n)')
    BY DEF PlaceInv
  <2>1. PICK n \in Nat : Stands(s, n) /\ (up => Knows(s, n))
    BY <1>2 DEF PlaceInv
  <2>2. Stands(s, n)'
    <3> DEFINE D == Disk.pending
    <3>1. \A u \in D : fate[u].is = "landed" => fate'[u].is = "landed"
      BY <1>3, <1>4
    <3>2. AtPlace(tx, fate', NonceIn(tx, fate, stolen, s, block), D, Undone(ledger), Sighted(tx, ledger)[s], s, n)
      BY <2>1, <3>1 DEF Stands, AtPlace
    <3> QED BY <1>1, <3>2 DEF Stands
  <2>3. up' => Knows(s, n)'
    BY <1>1, <2>1 DEF Knows
  <2> QED BY <2>2, <2>3
<1>6. up' => WorkerInv'
  BY <1>1, <1>2 DEF WorkerInv
<1> QED BY <1>1, <1>2, <1>5, <1>6 DEF TruthInv


\* Where a sender that stands at n is, of what the worker and the disk both have.
LEMMA StandsAt ==
  ASSUME ArmedInv, NEW s \in Sender, NEW n \in Nat, Stands(s, n)
  PROVE  /\ \A t \in Disk.pending : tx[t].sender = s => tx[t].nonce = n
         /\ \A b \in Int : b <= block => NonceIn(tx, fate, stolen, s, b) \in Nat
                                         /\ NonceIn(tx, fate, stolen, s, b) <= NonceIn(tx, fate, stolen, s, block)
         /\ NonceIn(tx, fate, stolen, s, block) <= n + 1
         /\ (\A t \in Disk.pending : tx[t].sender # s) => NonceIn(tx, fate, stolen, s, block) = n
         /\ NonceIn(tx, fate, stolen, s, block) # n =>
              /\ NonceIn(tx, fate, stolen, s, block) = n + 1
              /\ \E u \in Disk.pending : tx[u].sender = s /\ fate[u].is = "landed"
<1> DEFINE k == NonceIn(tx, fate, stolen, s, block)
<1>1. /\ \A t \in Disk.pending : tx[t].sender = s => tx[t].nonce = n
      /\ k = n \/ (k = n + 1 /\ \E u \in Disk.pending : tx[u].sender = s /\ fate[u].is = "landed")
  BY DEF Stands, AtPlace
<1>2. k \in Nat
  BY TruthTypes
<1>3. ASSUME NEW b \in Int, b <= block
      PROVE  NonceIn(tx, fate, stolen, s, b) \in Nat /\ NonceIn(tx, fate, stolen, s, b) <= k
  BY <1>3, Parts, NonceType, NonceMono
<1> HIDE DEF k
<1>4. k <= n + 1
  BY <1>1
<1> QED BY <1>1, <1>2, <1>3, <1>4 DEF k

\* A read that passed what is pending saw the landing that passed it.
LEMMA ReadSees ==
  ASSUME ArmedInv, TruthInv, ~excused, up, NEW s \in Sender, NEW h \in Int, h <= block,
         NEW t \in Disk.pending, tx[t].sender = s, tx[t].nonce < ReadOf(s, h).nonce
  PROVE  ReadOf(s, h).landed \in Disk.pending
<1> DEFINE k == NonceAt(s, h - 1)
           ours == {v \in PendingOf(s) : tx[v].nonce + 1 = k /\ fate[v].is = "landed"}
<1>1. ReadOf(s, h).nonce = k /\ ReadOf(s, h).landed = Most(ours)
  BY DEF ReadOf
<1>2. PICK n \in Nat : Stands(s, n)
  BY DEF TruthInv, PlaceInv
<1>3. mem.pending = Disk.pending
  BY DEF TruthInv, WorkerInv
<1>4. tx[t].nonce = n
  BY <1>2, StandsAt
<1>5. k \in Nat /\ k <= NonceIn(tx, fate, stolen, s, block)
  <2>1. h - 1 \in Int /\ h - 1 <= block
    BY Parts
  <2>2. k = NonceIn(tx, fate, stolen, s, h - 1)
    BY NonceIs
  <2> HIDE DEF k
  <2> QED BY <1>2, <2>1, <2>2, StandsAt
<1>6. n < k
  BY <1>1, <1>4
<1>7. /\ NonceIn(tx, fate, stolen, s, block) = n + 1
      /\ \E u \in Disk.pending : tx[u].sender = s /\ fate[u].is = "landed"
  <2> HIDE DEF k
  <2>1. NonceIn(tx, fate, stolen, s, block) # n
    BY <1>5, <1>6
  <2> QED BY <1>2, <2>1, StandsAt
<1>8. PICK u \in Disk.pending : tx[u].sender = s /\ fate[u].is = "landed"
  BY <1>7
<1>9. k = n + 1
  <2> HIDE DEF k
  <2> QED BY <1>5, <1>6, <1>7
<1>10. u \in ours
  <2>1. tx[u].nonce = n
    BY <1>2, <1>8, StandsAt
  <2> HIDE DEF k
  <2> QED BY <1>3, <1>8, <1>9, <2>1 DEF PendingOf
<1>11. Len(tx) \in Nat /\ ours \subseteq 0..Len(tx) /\ ours \subseteq Disk.pending /\ u > 0
  <2>1. Len(tx) \in Nat /\ Disk.pending \subseteq 1..Len(tx) /\ u > 0
    BY Parts, TruthTypes DEF Known
  <2> QED BY <1>3, <2>1 DEF PendingOf
<1> HIDE DEF ours
<1>12. Most(ours) \in ours
  <2>1. Most(ours) \in 0..Len(tx) /\ (Most(ours) # 0 => Most(ours) \in ours) /\ u <= Most(ours)
    BY <1>10, <1>11, MostOf
  <2>2. u \in 1..Len(tx)
    BY TruthTypes DEF Known
  <2> QED BY <1>11, <2>1, <2>2
<1> QED BY <1>1, <1>11, <1>12

\* A settlement without a reason to trip: nothing to write, one landing, or
\* expiries.
LEMMA SettleTruth ==
  ASSUME ArmedInv, TruthInv, ~excused, up, outbox = NoOutbox, NEW r \in Reading, NEW h \in Int, h <= block, NEW now \in Nat,
         ReadAt(tx, fate, stolen, h, r),
         \A t \in Disk.pending : tx[t].sender = r.sender /\ tx[t].nonce < r.nonce => r.landed \in Disk.pending,
         Settle(r, h, now)
  PROVE  /\ OutSeen(tx, Disk.pending, outbox')
         /\ \A s \in Sender : \A n \in Nat :
              Stands(s, n) /\ Knows(s, n) => InStep(tx, outbox', nonces', ready, Disk.pending, s, n)
<1> DEFINE D == Disk.pending
           j == Judged(r, h, now)
           q == r.sender
           E == Expiries(r, h)
           e == SetToSeq(E)
           Mine == PendingOf(q)
<1>1. mem.pending = D /\ PlaceInv
  BY DEF TruthInv, WorkerInv
<1>2. q \in Sender /\ r.nonce \in Nat /\ nonces \in [Sender -> 0..MostNonce]
  BY Parts, MostIsNat DEF Reading
<1>3. PICK n \in Nat : Stands(q, n) /\ Knows(q, n)
  BY <1>1, <1>2 DEF PlaceInv
<1>4. \A t : t \in Mine <=> t \in D /\ tx[t].sender = q
  BY <1>1 DEF PendingOf
<1>5. \A t \in Mine : tx[t].nonce = n
  BY <1>2, <1>3, <1>4, StandsAt
<1>6. r.nonce <= n + 1 /\ (Mine = {} => r.nonce <= n)
  <2> DEFINE k == NonceIn(tx, fate, stolen, q, block)
  <2>1. r.nonce = NonceIn(tx, fate, stolen, q, h - 1) /\ h - 1 \in Int /\ h - 1 <= block
    BY Parts DEF ReadAt
  <2>2. r.nonce <= k /\ k <= n + 1 /\ k \in Nat
    BY <1>2, <1>3, <2>1, StandsAt, TruthTypes
  <2>3. Mine = {} => k = n
    BY <1>2, <1>3, <1>4, StandsAt
  <2> HIDE DEF k
  <2> QED BY <1>2, <2>2, <2>3
<1>7. \A s \in Sender : \A m \in Nat : Stands(s, m) /\ s = q /\ Mine # {} => m = n
  BY <1>4, <1>5, StandsAt
<1>8. SlotsOf(q) = IF Mine = {} THEN {} ELSE {n}
  BY <1>5 DEF SlotsOf
<1>9. PastOf(r) = IF n < r.nonce THEN SlotsOf(q) ELSE {}
  BY <1>8 DEF PastOf
<1>10. outbox' = NoOutbox /\ nonces' = nonces => OutSeen(tx, D, outbox') /\
         \A s \in Sender : \A m \in Nat : Knows(s, m) => InStep(tx, outbox', nonces', ready, D, s, m)
  BY DEF Knows, InStep, OutSeen
<1>11. CASE IsStale(r)
  <2>1. outbox' = NoOutbox /\ nonces' = nonces
    BY <1>11 DEF Settle
  <2> QED BY <1>10, <2>1
<1>12. SUFFICES ASSUME ~IsStale(r)
                PROVE  /\ OutSeen(tx, D, outbox')
                       /\ \A s \in Sender : \A m \in Nat :
                            Stands(s, m) /\ Knows(s, m) => InStep(tx, outbox', nonces', ready, D, s, m)
  BY <1>11
<1>13. /\ outbox' = IF j.records = <<>> THEN NoOutbox ELSE j
       /\ nonces' = IF j.records = <<>> /\ j.nonce # -1 THEN [nonces EXCEPT ![q] = j.nonce] ELSE nonces
  BY <1>12 DEF Settle
<1>14. ~(r.nonce < (IF SlotsOf(q) = {} THEN nonces[q] ELSE Min(SlotsOf(q))))
  BY <1>12 DEF IsStale, SlotsOf
<1> HIDE DEF Mine
<1>15. CASE Mine = {}
  <2>1. nonces[q] = n
    <3>1. \A t \in D : tx[t].sender # q
      BY <1>4, <1>15
    <3> QED BY <1>3, <3>1 DEF Knows, InStep
  <2>2. SlotsOf(q) = {}
    BY <1>8, <1>15
  <2>3. r.nonce = n
    BY <1>2, <1>6, <1>14, <1>15, <2>1, <2>2
  <2>4. j = JudgedIdle(r)
    BY <2>2, JudgedIs
  <2>5. j.records = <<>> /\ j.nonce = -1
    BY <2>1, <2>3, <2>4 DEF JudgedIdle
  <2> QED BY <1>10, <1>13, <2>5
<1>16. CASE Mine # {}
  <2>1. SlotsOf(q) = {n}
    BY <1>8, <1>16
  <2>2. n <= r.nonce
    <3>1. n \in {n} /\ {n} \subseteq Nat
      OBVIOUS
    <3> DEFINE Z == {n}
    <3>2. Min(Z) \in Z
      <4>1. Z \subseteq Nat /\ Z # {}
        BY <3>1
      <4> HIDE DEF Z
      <4> QED BY <4>1, LeastOf
    <3>3. Min({n}) = n
      BY <3>2
    <3>4. SlotsOf(q) # {}
      BY <2>1
    <3>5. ~(r.nonce < Min({n}))
      BY <1>14, <2>1, <3>4
    <3> QED BY <1>2, <3>3, <3>5
  <2>3. r.nonce = n + 1 => Found(r)
    <3> SUFFICES ASSUME r.nonce = n + 1 PROVE Found(r)
      OBVIOUS
    <3>1. PICK t \in Mine : TRUE
      BY <1>16
    <3>2. t \in D /\ tx[t].sender = q /\ tx[t].nonce < r.nonce
      BY <1>4, <1>5
    <3>3. r.landed \in D
      BY <3>2
    <3>4. r.landed \in Known /\ r.landed > 0
      BY <3>3, TruthTypes
    <3>5. tx[r.landed].sender = q
      BY <3>4 DEF ReadAt
    <3>6. r.landed \in Mine
      BY <1>4, <3>3, <3>5
    <3>7. PastOf(r) = {r.nonce - 1}
      BY <1>9, <2>1
    <3> QED BY <3>6, <3>7 DEF Found, Mine
  <2>4. r.nonce = n => ~Found(r) /\ PastOf(r) = {}
    BY <1>9 DEF Found
  <2>5. r.nonce = n \/ r.nonce = n + 1
    BY <1>2, <1>6, <2>2
  <2>6. j = JudgedSeen(r, h, now)
    BY <2>1, <2>3, <2>4, <2>5, JudgedIs
  <2>7. e \in Seq(E) /\ \A i \in 1..Len(e) : e[i] \in E
    BY JudgedRecords
  <2>8. \A x \in E : x.kind = "expired" /\ x.tx \in Mine /\ tx[x.tx].nonce = r.nonce
    BY DEF E, Expiries, Expired, Mine
  <2>9. j.sender = q /\ j.nonce = r.nonce /\ r.nonce # -1
    BY <1>2, <2>6 DEF JudgedSeen
  <2> HIDE DEF E, e, D
  <2>10. CASE r.nonce = n
    <3>1. j.records = e
      <4>1. j.records = <<>> \o e
        BY <2>4, <2>6, <2>10 DEF JudgedSeen, e, E
      <4> QED BY <2>7, <4>1
    <3> HIDE DEF j
    <3>2. CASE e = <<>>
      <4>1. outbox' = NoOutbox /\ nonces' = [nonces EXCEPT ![q] = n]
        BY <1>13, <2>9, <2>10, <3>1, <3>2
      <4>2. nonces'[q] = n /\ \A s \in Sender : s # q => nonces'[s] = nonces[s]
        BY <1>2, <4>1
      <4> HIDE DEF q
      <4> QED BY <1>7, <1>16, <4>1, <4>2 DEF OutSeen, Knows, InStep, D
    <3>3. CASE e # <<>>
      <4>1. outbox' = j /\ nonces' = nonces
        BY <1>13, <3>1, <3>3
      <4>2. 1 \in 1..Len(e)
        BY <2>7, <3>3
      <4>3. ASSUME NEW i \in 1..Len(e) PROVE e[i].kind = "expired" /\ tx[e[i].tx].sender = q /\ tx[e[i].tx].nonce = r.nonce
        BY <1>4, <2>7, <2>8
      <4>4. j # NoOutbox
        BY <3>1, <3>3 DEF NoOutbox
      <4> HIDE DEF q
      <4>5. OutSeen(tx, D, outbox')
        BY <2>9, <3>1, <4>1, <4>3 DEF OutSeen
      <4>6. e[1].kind = "expired"
        BY <4>2, <4>3
      <4> QED BY <1>7, <1>16, <2>9, <2>10, <3>1, <4>1, <4>4, <4>5, <4>6 DEF Knows, InStep, D
    <3> QED BY <3>2, <3>3
  <2>11. CASE r.nonce = n + 1
    <3> DEFINE l == Landed(r.landed, now)
    <3>1. E = {}
      <4>1. n + 1 # n
        OBVIOUS
      <4> QED BY <1>5, <2>8, <2>11, <4>1
    <3>2. e = <<>>
      BY <2>7, <3>1
    <3>3. j.records = <<l>>
      <4>1. j.records = <<l>> \o e
        BY <2>3, <2>6, <2>11 DEF JudgedSeen, e, E
      <4> HIDE DEF l
      <4> QED BY <3>2, <4>1
    <3>4. l.kind = "landed" /\ l.tx = r.landed
      BY DEF Landed
    <3>5. r.landed \in D /\ tx[r.landed].sender = q /\ tx[r.landed].nonce + 1 = r.nonce
      <4>1. r.landed \in Mine
        BY <2>3, <2>11 DEF Found, Mine
      <4> QED BY <1>4, <1>5, <2>11, <4>1 DEF D
    <3> HIDE DEF j, l
    <3>6. Len(<<l>>) = 1 /\ <<l>>[1] = l /\ <<l>> # <<>>
      OBVIOUS
    <3>7. outbox' = j /\ nonces' = nonces
      BY <1>13, <3>3
    <3>8. j # NoOutbox
      BY <3>3 DEF NoOutbox
    <3>9. OutSeen(tx, D, outbox')
      <4>1. \A i \in 1..Len(j.records) : i = 1
        BY <3>3, <3>6
      <4>2. j.records[1] = l
        BY <3>3
      <4> QED BY <2>9, <3>4, <3>5, <3>7, <4>1, <4>2 DEF OutSeen
    <3>10. j.records[1].kind = "landed" /\ n = j.nonce - 1
      BY <2>9, <2>11, <3>3, <3>4
    <3> HIDE DEF q
    <3> QED BY <1>7, <1>16, <2>9, <3>7, <3>8, <3>9, <3>10 DEF Knows, InStep, D
  <2> QED BY <2>5, <2>10, <2>11
<1> QED BY <1>15, <1>16


\* While the height stands, so do the nonces.
LEMMA NoncesStay ==
  ASSUME ArmedInv, MovesNow, block' = block
  PROVE  \A s : NonceIn(tx', fate', stolen', s, block') = NonceIn(tx, fate, stolen, s, block)
<1>1. block \in Int /\ block <= block
  BY Parts
<1> QED BY <1>1 DEF MovesNow, Moves, Grew

\* With a reason to trip there is nothing to show.
LEMMA Excused == ASSUME excused' PROVE TruthInv'
BY DEF TruthInv

\* The worker's, when there is no reason to trip.
LEMMA TruthUp ==
  ASSUME ArmedInv, TruthInv, ~excused, up
  PROVE  /\ mem.pending = Disk.pending /\ ~mem.trip /\ OutSeen(tx, Disk.pending, outbox)
         /\ ReadsSeen(tx, Disk.pending, head.reads) /\ (line.pc # "none" => ready)
         /\ \A s \in Sender : \E n \in Nat : Stands(s, n) /\ Knows(s, n)
BY DEF TruthInv, WorkerInv, PlaceInv

\* The end of a line's turn.
LEMMA LineEndsTruth ==
  ASSUME ArmedInv, DoubtInv, TruthInv, Answered \/ GivesUp \/ UNCHANGED vars
  PROVE  TruthInv'
<1>1. /\ ledger' = ledger /\ mem' = mem /\ nonces' = nonces /\ ready' = ready /\ head' = head /\ outbox' = outbox
      /\ up' = up /\ tx' = tx /\ block' = block /\ excused' = excused
      /\ line' = [NoLine EXCEPT !.now = line.now] \/ line' = line
  BY DEF Answered, GivesUp, LineDone, vars, workerVars, chainVars, faultVars
<1>2. MovesNow
  <2>1. CASE UNCHANGED vars
    <3>1. UNCHANGED chainVars
      BY <2>1 DEF vars
    <3> QED BY <3>1, MovesNot
  <2> QED BY <2>1, AnsweredDoubt, GivesUpDoubt
<1>3. line'.pc # "none" => line.pc # "none"
  BY <1>1, Parts, LineOver
<1> SUFFICES ASSUME ~excused' PROVE TruthInv'
  BY Excused
<1>4. \A s : NonceIn(tx', fate', stolen', s, block') = NonceIn(tx, fate, stolen, s, block)
  BY <1>1, <1>2, NoncesStay
<1>5. \A s \in Sender : \A n \in Nat : Stands(s, n) /\ Knows(s, n) => InStep(tx, outbox', nonces', ready', Disk.pending, s, n)
  BY <1>1 DEF Knows
<1> QED BY <1>1, <1>2, <1>3, <1>4, <1>5, TruthUp, TruthQuiet

\* The landing check inside a line's turn.
LEMMA LandingCheckTruth ==
  ASSUME ArmedInv, TruthInv, LandingCheck
  PROVE  TruthInv'
<1> SUFFICES ASSUME ~excused' PROVE TruthInv'
  BY Excused
<1> DEFINE s == tx[line.tx].sender
           h == line.head
           now == line.now
           r == ReadOf(s, h)
<1>1. line.pc = "low" /\ LandingRead(r) /\ excused' = excused
  BY DEF LandingCheck
<1>2. turn = "line" /\ up /\ outbox = NoOutbox /\ line.tx \in Known /\ h <= block /\ h \in Int /\ now \in Nat
  BY <1>1, Parts DEF TurnInv
<1>3. s \in Sender
  BY <1>2, Parts, TxOf DEF Known
<1> HIDE DEF s, h, now
<1>4. r \in Reading /\ r.sender = s /\ ReadAt(tx, fate, stolen, h, r)
  <2>1. r \in {ReadOf(s, h), Unread(ReadOf(s, h))}
    OBVIOUS
  <2> HIDE DEF r
  <2> QED BY <1>2, <1>3, <2>1, ReadOfIs
<1>5. \A t \in Disk.pending : tx[t].sender = r.sender /\ tx[t].nonce < r.nonce => r.landed \in Disk.pending
  BY <1>1, <1>2, <1>3, <1>4, ReadSees
<1>6. /\ Settle(r, h, now) /\ ledger' = ledger /\ mem' = mem /\ ready' = ready /\ head' = head /\ up' = up
      /\ UNCHANGED chainVars
  BY <1>1 DEF LandingRead, h, now
<1>7. MovesNow /\ tx' = tx /\ block' = block
  BY <1>6, MovesNot DEF chainVars
<1>8. \A q : NonceIn(tx', fate', stolen', q, block') = NonceIn(tx, fate, stolen, q, block)
  BY <1>7, NoncesStay
<1> HIDE DEF r
<1>9. /\ OutSeen(tx, Disk.pending, outbox')
      /\ \A q \in Sender : \A n \in Nat : Stands(q, n) /\ Knows(q, n) => InStep(tx, outbox', nonces', ready, Disk.pending, q, n)
  BY <1>1, <1>2, <1>4, <1>5, <1>6, SettleTruth
<1>10. ready
  BY <1>1, <1>2, TruthUp
<1> QED BY <1>1, <1>2, <1>6, <1>7, <1>8, <1>9, <1>10, TruthUp, TruthQuiet

\* The head task's reads, each of a receipt that was there.
LEMMA HeadReadsTruth ==
  ASSUME ArmedInv, DoubtInv, TruthInv, NEW asked \in SUBSET Due(block), NEW blind \in SUBSET asked, HeadReads(block, asked, blind)
  PROVE  TruthInv'
<1> SUFFICES ASSUME ~excused' PROVE TruthInv'
  BY Excused
<1>1. /\ up /\ blind = {} /\ excused' = excused /\ mem' = Roll(mem, day) /\ head' = [pc |-> "read", at |-> block, now |-> day,
              reads |-> {IF s \in blind THEN Unread(ReadOf(s, block)) ELSE ReadOf(s, block) : s \in asked}]
      /\ ledger' = ledger /\ nonces' = nonces /\ ready' = ready /\ line' = line /\ outbox' = outbox
      /\ up' = up /\ UNCHANGED chainVars
  BY Parts DEF HeadReads
<1>2. MovesNow /\ tx' = tx /\ block' = block
  BY <1>1, HeadReadsDoubt DEF chainVars
<1>3. \A s : NonceIn(tx', fate', stolen', s, block') = NonceIn(tx, fate, stolen, s, block)
  BY <1>2, NoncesStay
<1>4. mem'.pending = mem.pending /\ mem'.trip = mem.trip
  BY <1>1, Parts, RollShape
<1>5. ReadsSeen(tx, Disk.pending, head'.reads)
  <2>1. head'.reads = {ReadOf(s, block) : s \in asked}
    BY <1>1
  <2>2. \A s \in asked : s \in Sender
    BY Parts, TxOf DEF Due, Known
  <2>3. ASSUME NEW s \in asked, NEW t \in Disk.pending, tx[t].sender = ReadOf(s, block).sender, tx[t].nonce < ReadOf(s, block).nonce
        PROVE  ReadOf(s, block).landed \in Disk.pending
    <3>1. ReadOf(s, block).sender = s
      BY DEF ReadOf
    <3>2. block \in Int /\ block <= block
      BY Parts
    <3> QED BY <1>1, <2>2, <2>3, <3>1, <3>2, ReadSees
  <2> HIDE DEF ReadOf
  <2> QED BY <2>1, <2>3 DEF ReadsSeen
<1>6. \A s \in Sender : \A n \in Nat : Stands(s, n) /\ Knows(s, n) => InStep(tx, outbox', nonces', ready', Disk.pending, s, n)
  BY <1>1 DEF Knows
<1> QED BY <1>1, <1>2, <1>3, <1>4, <1>5, <1>6, TruthUp, TruthQuiet

\* A read judged by the head task.
LEMMA HeadSettlesTruth ==
  ASSUME ArmedInv, TruthInv, NEW r \in head.reads, HeadSettles(r)
  PROVE  TruthInv'
<1> SUFFICES ASSUME ~excused' PROVE TruthInv'
  BY Excused
<1> DEFINE now == head.now
           h == head.at
<1>1. /\ outbox = NoOutbox /\ turn \in {"free", "head"} /\ Settle(r, h, now) /\ excused' = excused
      /\ \/ head' = NoHead /\ ready' = (ready \/ mem'.pending = {})
         \/ head' = [head EXCEPT !.reads = @ \ {r}] /\ ready' = ready
      /\ ledger' = ledger /\ mem' = mem /\ line' = line /\ up' = up /\ UNCHANGED chainVars
  BY DEF HeadSettles, HeadDone, faultVars
<1>2. head.pc = "read" /\ line.pc = "none" /\ up
  BY <1>1, Parts DEF TurnInv
<1>3. h <= block /\ h \in Int /\ now \in Nat /\ ReadAt(tx, fate, stolen, h, r) /\ r \in Reading
  BY <1>2, Parts, Types DEF HeadInv
<1>4. MovesNow /\ tx' = tx /\ block' = block
  BY <1>1, MovesNot DEF chainVars
<1>5. \A q : NonceIn(tx', fate', stolen', q, block') = NonceIn(tx, fate, stolen, q, block)
  BY <1>4, NoncesStay
<1>6. mem.pending = Disk.pending /\ ReadsSeen(tx, Disk.pending, head.reads)
  BY <1>1, <1>2, TruthUp
<1>7. \A t \in Disk.pending : tx[t].sender = r.sender /\ tx[t].nonce < r.nonce => r.landed \in Disk.pending
  BY <1>6 DEF ReadsSeen
<1> HIDE DEF now, h
<1>8. /\ OutSeen(tx, Disk.pending, outbox')
      /\ \A q \in Sender : \A n \in Nat : Stands(q, n) /\ Knows(q, n) => InStep(tx, outbox', nonces', ready, Disk.pending, q, n)
  BY <1>1, <1>2, <1>3, <1>7, SettleTruth
<1>9. \A q \in Sender : \A n \in Nat : Stands(q, n) /\ Knows(q, n) => InStep(tx, outbox', nonces', ready', Disk.pending, q, n)
  <2>1. (ready' => ready) \/ Disk.pending = {}
    BY <1>1, <1>6
  <2>2. CASE Disk.pending = {}
    BY <1>8, <2>2 DEF InStep
  <2>3. CASE ready' => ready
    BY <1>8, <2>3 DEF InStep
  <2> QED BY <2>1, <2>2, <2>3
<1>10. head'.reads \subseteq head.reads
  BY <1>1, Parts DEF NoHead, Heads
<1>11. ReadsSeen(tx, Disk.pending, head'.reads)
  BY <1>6, <1>10 DEF ReadsSeen
<1> QED BY <1>1, <1>2, <1>4, <1>5, <1>8, <1>9, <1>11, TruthQuiet

\* A block: what lands was pending on disk.
LEMMA ChainTruth ==
  ASSUME ArmedInv, TruthInv, ChainStep
  PROVE  TruthInv'
<1> SUFFICES ASSUME ~excused' PROVE TruthInv'
  BY Excused
<1> DEFINE D == Disk.pending
           b == block + 1
<1>1. /\ block' = b /\ tx' = tx /\ ledger' = ledger /\ mem' = mem /\ nonces' = nonces /\ ready' = ready
      /\ line' = line /\ head' = head /\ outbox' = outbox /\ up' = up
  BY DEF ChainStep, NewBlock, workerVars
<1>2. MovesNow
  BY MovesChain
<1>3. b \in Nat /\ block \in Nat /\ block <= b /\ IsChain(tx, fate, stolen) /\ History(tx, fate, stolen, block)
  BY Parts
<1>4. \A s : NonceIn(tx, fate, stolen, s, b) = NonceIn(tx, fate, stolen, s, block)
  <2> HIDE DEF b
  <2>1. b \in Int
    BY <1>3
  <2> QED BY <1>3, <2>1, NonceFlat
<1>5. \A s \in Sender : \A n \in Nat : Stands(s, n) /\ Knows(s, n) => InStep(tx, outbox', nonces', ready', D, s, n)
  BY <1>1 DEF Knows
<1>6. CASE UNCHANGED <<fate, stolen, mishaps, excused>>
  <2>1. \A s : NonceIn(tx', fate', stolen', s, block') = NonceIn(tx, fate, stolen, s, block)
    BY <1>1, <1>4, <1>6
  <2> HIDE DEF b
  <2> QED BY <1>1, <1>2, <1>5, <1>6, <2>1, TruthUp, TruthQuiet DEF D
<1>7. ASSUME NEW t \in 1..Len(tx), fate[t].is = "held", tx[t].nonce = Nonce(tx[t].sender), block' <= tx[t].bound,
             fate' = [fate EXCEPT ![t] = [is |-> "landed", block |-> block', day |-> block' \div DayBlocks, loss |-> tx[t].worst]],
             UNCHANGED <<stolen, mishaps, excused>>
      PROVE  TruthInv'
  <2> DEFINE q == tx[t].sender
             k == NonceIn(tx, fate, stolen, q, block)
  <2>1. q \in Sender /\ tx[t].nonce = k /\ k \in Nat /\ tx[t].bound \in Int /\ t \in Tx
    BY <1>3, <1>7, TxOf, NonceIs, NonceType DEF Nonce
  <2>2. t \in D
    <3>1. ~Passed(tx, fate, stolen, block, t)
      BY <2>1 DEF Passed
    <3>2. ~SettledBy(tx, ledger, t)
      <4>1. BackedAll(tx, fate, stolen, block, ledger) /\ ledger \in Seq(ArmedRecord(1..Len(tx)))
        BY Parts DEF RecordsInv, Known
      <4> QED BY <1>3, <1>7, <3>1, <4>1, SettledPassed
    <3>3. ~Lapsed(tx, fate, block, t)
      BY <1>1, <1>3, <1>7, <2>1 DEF Lapsed
    <3> QED BY <1>7, <3>2, <3>3, Parts DEF PendingInv, NoneLost
  <2> HIDE DEF q, k, b, D
  <2>3. /\ fate'[t].is = "landed" /\ fate'[t].block = b /\ \A u \in Tx : u # t => fate'[u] = fate[u]
    BY <1>1, <1>3, <1>7, <2>1 DEF IsChain
  <2>4. \A s : NonceIn(tx', fate', stolen', s, block') = NonceIn(tx, fate, stolen, s, block) + (IF s = q THEN 1 ELSE 0)
    <3> TAKE s
    <3>1. /\ fate[t].is # "landed" /\ b \in Nat /\ b \in Int
      BY <1>3, <1>7
    <3> DEFINE g == fate'
    <3>2. g[t].is = "landed" /\ g[t].block = b /\ \A u \in Tx : u # t => g[u] = fate[u]
      BY <2>3
    <3> HIDE DEF g
    <3>3. NonceIn(tx, g, stolen, s, b) = NonceIn(tx, fate, stolen, s, b) + (IF tx[t].sender = s /\ b <= b THEN 1 ELSE 0)
      BY <1>3, <1>7, <3>1, <3>2, NonceLands
    <3> QED BY <1>1, <1>3, <1>4, <1>7, <3>3 DEF q, g
  <2>5. /\ Disk'.pending = D /\ (Disk'.trip <=> Disk.trip)
        /\ Sighted(tx', ledger') = Sighted(tx, ledger) /\ Undone(ledger') = Undone(ledger)
    <3>1. Tripwire \in ArmedRecord(Known')
      BY RecordsAre
    <3> QED BY <1>1, <1>2, <3>1, Retells DEF D
  <2>6. ~excused /\ PlaceInv /\ ~Disk.trip /\ (up => WorkerInv)
    BY <1>7 DEF TruthInv
  <2>7. PlaceInv'
    <3> SUFFICES ASSUME NEW s \in Sender PROVE \E n \in Nat : Stands(s, n)' /\ (up' => Knows(s, n)')
      BY DEF PlaceInv
    <3>1. PICK n \in Nat : Stands(s, n) /\ (up => Knows(s, n))
      BY <2>6 DEF PlaceInv
    <3>2. up' => Knows(s, n)'
      BY <1>1, <2>5, <3>1 DEF Knows, D
    <3>3. \A u \in D : fate[u].is = "landed" => fate'[u].is = "landed"
      <4>1. D \subseteq Tx
        BY <1>3, TruthTypes, TxOf DEF D, Known
      <4> QED BY <2>3, <4>1
    <3> DEFINE j == NonceIn(tx, fate, stolen, s, block)
               w == Undone(ledger)
               e == Sighted(tx, ledger)[s]
    <3>4. AtPlace(tx, fate, j, D, w, e, s, n)
      BY <3>1 DEF Stands, D
    <3>5. Stands(s, n)' <=> AtPlace(tx, fate', j + (IF s = q THEN 1 ELSE 0), D, w, e, s, n)
      BY <1>1, <2>4, <2>5 DEF Stands
    <3>6. j \in Nat
      BY TruthTypes
    <3>7. s = q => n = k /\ j = k
      BY <2>1, <2>2, <3>4 DEF AtPlace, q, k
    <3> HIDE DEF j, w, e
    <3>8. CASE s = q
      <4>1. AtPlace(tx, fate', k + 1, D, w, e, s, n)
        BY <2>2, <2>3, <3>4, <3>7, <3>8 DEF AtPlace, q
      <4>2. j + (IF s = q THEN 1 ELSE 0) = k + 1
        BY <3>7, <3>8
      <4> QED BY <3>2, <3>5, <4>1, <4>2
    <3>9. CASE s # q
      <4>1. AtPlace(tx, fate', j, D, w, e, s, n)
        BY <3>3, <3>4 DEF AtPlace
      <4>2. j + (IF s = q THEN 1 ELSE 0) = j
        BY <3>6, <3>9
      <4> QED BY <3>2, <3>5, <4>1, <4>2
    <3> QED BY <3>8, <3>9
  <2>8. up' => WorkerInv'
    BY <1>1, <2>5, <2>6 DEF WorkerInv, D
  <2> QED BY <2>5, <2>6, <2>7, <2>8 DEF TruthInv
<1>8. CASE excused' = TRUE
  BY <1>8
<1> HIDE DEF b, D
<1> QED BY <1>6, <1>7, <1>8 DEF ChainStep, NewBlock


\* What a read found of what is pending had landed.
LEMMA ReadsLanded ==
  ASSUME ArmedInv, NEW r \in head.reads, r.landed \in Disk.pending
  PROVE  fate[r.landed].is = "landed"
<1>1. head.pc = "read"
  BY Parts DEF TurnInv
<1>2. ReadAt(tx, fate, stolen, head.at, r)
  BY <1>1, Parts DEF HeadInv
<1>3. r.landed \in Known /\ \A t \in Known : t # 0
  BY Parts, TruthTypes DEF Known
<1> QED BY <1>2, <1>3 DEF ReadAt

\* A refusal: the transaction was at its sender's nonce.
LEMMA RefusedTruth ==
  ASSUME ArmedInv, DoubtInv, TruthInv, NEW why \in {"low", "underpriced", "other"}, RefusedFor(why)
  PROVE  TruthInv'
<1> SUFFICES ASSUME ~excused' PROVE TruthInv'
  BY Excused
<1> DEFINE t == line.tx
           r == Refused(t)
           D == Disk.pending
           W == Undone(ledger)
<1>1. /\ line.pc = "recorded" /\ fate' = [fate EXCEPT ![t].is = "dead"] /\ Record(r, line.now)
      /\ nonces' = nonces /\ ready' = ready /\ head' = head /\ outbox' = outbox /\ up' = up /\ tx' = tx /\ block' = block
  BY DEF RefusedFor
<1>2. t \in Known /\ fate[t].is = "none" /\ outbox = NoOutbox /\ up
  BY <1>1, Parts DEF TurnInv
<1>3. MovesNow
  BY RefusedDoubt
<1>4. r \in ArmedRecord(Known) /\ r.kind = "refused" /\ r.tx = t /\ line.now \in 0..day
  BY <1>2, Parts, RecordsAre DEF Refused
<1>5. tx[t].nonce = nonces[tx[t].sender]
  BY <1>1 DEF DoubtInv, LineInv
<1> HIDE DEF r, t
<1>6. ledger' = Append(ledger, r) /\ excused' = excused
  BY <1>1 DEF Record
<1>7. /\ mem.pending = D /\ ~mem.trip /\ ~Disk.trip /\ ReadsSeen(tx, D, head.reads) /\ ready
      /\ \A s \in Sender : \E n \in Nat : Stands(s, n) /\ Knows(s, n)
  BY <1>1, <1>2, <1>6, TruthUp DEF TruthInv
<1>8. /\ Disk'.pending = D \ {t} /\ ~Disk'.trip
      /\ Sighted(tx', ledger') = Sighted(tx, ledger) /\ Undone(ledger') = W \cup {t}
  <2>1. r \in ArmedRecord(Known')
    BY <1>1, <1>4 DEF Known
  <2>2. Left(tx', D, r) = D \ {t} /\ \A v : Seen(tx', v, r) = v
    BY <1>4 DEF Left, Seen
  <2> QED BY <1>3, <1>4, <1>6, <1>7, <2>1, <2>2, Retells
<1>9. mem'.pending = D \ {t} /\ ~mem'.trip
  <2>1. Left(tx, mem.pending, r) = mem.pending \ {t}
    BY <1>4 DEF Left
  <2> QED BY <1>1, <1>3, <1>4, <1>7, <2>1, RecordDoes
<1>10. \A s : NonceIn(tx', fate', stolen', s, block') = NonceIn(tx, fate, stolen, s, block)
  BY <1>1, <1>3, NoncesStay
<1>11. \A u \in D : fate[u].is = "landed" => u # t /\ fate'[u].is = "landed"
  <2>1. D \subseteq Known
    BY TruthTypes
  <2> QED BY <1>2, <1>3, <2>1 DEF MovesNow, Moves, Grew, Known
<1>12. PlaceInv'
  <2> SUFFICES ASSUME NEW s \in Sender PROVE \E n \in Nat : Stands(s, n)' /\ (up' => Knows(s, n)')
    BY DEF PlaceInv
  <2>1. PICK n \in Nat : Stands(s, n) /\ Knows(s, n)
    BY <1>7
  <2> DEFINE k == NonceIn(tx, fate, stolen, s, block)
             e == Sighted(tx, ledger)[s]
             E == D \ {t}
             V == W \cup {t}
  <2>2. nonces[s] = n
    BY <1>2, <1>7, <2>1 DEF Knows, InStep
  <2>3. AtPlace(tx, fate, k, D, W, e, s, n)
    BY <2>1 DEF Stands
  <2> HIDE DEF k, e, D, W
  <2>4. AtPlace(tx, fate', k, E, V, e, s, n)
    BY <1>5, <1>11, <2>2, <2>3 DEF AtPlace
  <2>5. Stands(s, n)'
    BY <1>1, <1>8, <1>10, <2>4 DEF Stands, k, e
  <2>6. Knows(s, n)'
    BY <1>1, <1>2, <2>2 DEF Knows, InStep
  <2> QED BY <2>5, <2>6
<1>13. ReadsSeen(tx, D \ {t}, head.reads)
  <2>1. \A q \in head.reads : q.landed \in D => q.landed # t
    BY <1>11, ReadsLanded
  <2> QED BY <1>7, <2>1 DEF ReadsSeen
<1>14. WorkerInv'
  BY <1>1, <1>2, <1>7, <1>8, <1>9, <1>13 DEF WorkerInv, OutSeen
<1> QED BY <1>8, <1>12, <1>14 DEF TruthInv


\* A transaction written ahead is at its sender's place.
LEMMA WriteAheadTruth ==
  ASSUME ArmedInv, TruthInv, up, outbox = NoOutbox, ready,
         NEW s \in Sender, NEW n \in Nat, n = nonces[s], NEW b \in Int, NEW w \in Worst,
         NEW now \in 0..day, NEW hd \in Int, WriteAhead(s, n, b, w, now, hd)
  PROVE  TruthInv'
<1> SUFFICES ASSUME ~excused' PROVE TruthInv'
  BY Excused
<1> DEFINE t == Len(tx) + 1
           e == [sender |-> s, nonce |-> n, bound |-> b, worst |-> w]
           r == Submitting(t)
           D == Disk.pending
<1>1. /\ t <= MaxTx /\ tx' = Append(tx, e) /\ ledger' = Append(ledger, r) /\ mem' = Apply(Roll(mem, now), r)
      /\ up' = up /\ fate' = fate /\ block' = block /\ stolen' = stolen /\ nonces' = nonces /\ outbox' = outbox
      /\ ready' = ready /\ head' = head /\ excused' = excused
  BY DEF WriteAhead, faultVars
<1>2. e \in Txn /\ e.sender = s /\ e.nonce = n
  BY DEF Txn
<1>3. MovesNow /\ Len(tx') = t /\ tx'[t] = e /\ \A u \in 1..Len(tx) : tx'[u] = tx[u]
  <2> HIDE DEF e
  <2>1. MovesNow /\ Len(tx') = Len(tx) + 1 /\ tx'[Len(tx')] = e
    BY <1>1, <1>2, MovesTx
  <2>2. \A u \in 1..Len(tx) : tx'[u] = tx[u]
    BY <2>1 DEF MovesNow, Moves, Grew
  <2> QED BY <2>1, <2>2
<1>4. r.kind = "submitting" /\ r.tx = t /\ r \in ArmedRecord(Known')
  <2>1. t \in Known'
    BY <1>3, Parts DEF Known
  <2> QED BY <2>1, RecordsAre DEF Submitting
<1>5. tx'[t].sender = s /\ tx'[t].nonce = n
  BY <1>2, <1>3
<1> HIDE DEF r, e, t
<1>6. /\ mem.pending = D /\ ~mem.trip /\ ~Disk.trip /\ ReadsSeen(tx, D, head.reads)
      /\ \A q \in Sender : \E m \in Nat : Stands(q, m) /\ Knows(q, m)
  BY <1>1, TruthUp DEF TruthInv
<1>7. D \subseteq 1..Len(tx) /\ \A u \in D : tx'[u] = tx[u]
  BY <1>3, TruthTypes DEF Known
<1> DEFINE v == Sighted(tx, ledger)
<1>8. /\ Disk'.pending = D \cup {t} /\ ~Disk'.trip
      /\ Undone(ledger') = {} /\ \A q \in Sender : Sighted(tx', ledger')[q] = IF q = s THEN n ELSE v[q]
  <2>1. Left(tx', D, r) = D \cup {t}
    BY <1>4 DEF Left
  <2>2. Sighted(tx', ledger') = Seen(tx', v, r)
    BY <1>1, <1>3, <1>4, Retells
  <2>3. v \in Sightings /\ Placed(tx', Known')
    <3>1. Placed(tx', Known')
      <4>1. IsChain(tx', fate', stolen')
        BY <1>3, Parts, TypesGrow DEF MovesNow, Moves, Grows
      <4> QED BY <4>1, TxOf DEF Placed, Known
    <3> QED BY <3>1, TruthTypes
  <2> DEFINE X == Known'
             y == tx'
  <2>4. \A q \in Sender : Seen(y, v, r)[q] = IF Tells(y, r, q) THEN Told(y, r) ELSE IF Forgets(y, r, q) THEN -1 ELSE v[q]
    <3>1. v \in Sightings /\ Placed(y, X) /\ r \in ArmedRecord(X)
      BY <1>4, <2>3
    <3> HIDE DEF X, y, v
    <3> QED BY <3>1, SeenShape
  <2>5. \A q \in Sender : Seen(tx', v, r)[q] = IF q = s THEN n ELSE v[q]
    BY <1>4, <1>5, <2>4 DEF Tells, Told, Forgets
  <2> QED BY <1>1, <1>3, <1>4, <1>6, <2>1, <2>2, <2>5, Retells
<1>9. mem'.pending = D \cup {t} /\ ~mem'.trip
  <2> DEFINE m == Roll(mem, now)
  <2>1. m \in States(Known') /\ m.pending = D /\ m.trip = mem.trip
    <3>1. mem \in States(Known') /\ now \in Nat
      BY <1>3, Parts, TypesGrow DEF MovesNow, Moves, Grows
    <3> QED BY <1>6, <3>1, RollShape
  <2>2. mem' = Take(tx, m, r)
    BY <1>1, ApplyIs
  <2> HIDE DEF m
  <2>3. /\ Take(tx, m, r).pending = Left(tx, m.pending, r)
        /\ Take(tx, m, r).trip <=> r.kind = "tripwire" \/ (m.trip /\ r.kind # "reset")
    BY <1>4, <2>1, TakeShape
  <2> QED BY <1>4, <1>6, <2>1, <2>2, <2>3 DEF Left
<1>10. \A q : NonceIn(tx', fate', stolen', q, block') = NonceIn(tx, fate, stolen, q, block)
  BY <1>1, <1>3, NoncesStay
<1>11. PlaceInv'
  <2> SUFFICES ASSUME NEW q \in Sender PROVE \E m \in Nat : Stands(q, m)' /\ (up' => Knows(q, m)')
    BY DEF PlaceInv
  <2>1. PICK m \in Nat : Stands(q, m) /\ Knows(q, m)
    BY <1>6
  <2> DEFINE k == NonceIn(tx, fate, stolen, q, block)
             W == Undone(ledger)
             c == v[q]
             E == D \cup {t}
  <2>2. nonces[q] = m
    BY <2>1 DEF Knows, InStep
  <2>3. AtPlace(tx, fate, k, D, W, c, q, m)
    BY <2>1 DEF Stands
  <2> DEFINE g == IF q = s THEN n ELSE c
  <2>4. q = s => m = n
    BY <2>2
  <2> HIDE DEF k, c, D, W, v
  <2>5. AtPlace(tx', fate, k, E, {}, g, q, m)
    <3>1. \A u \in E : tx'[u].sender = q => tx'[u].nonce = m
      BY <1>5, <1>7, <2>3, <2>4 DEF AtPlace
    <3>2. g \in {-1, m}
      BY <2>3, <2>4 DEF AtPlace
    <3>3. k = m \/ (k = m + 1 /\ \E u \in E : tx'[u].sender = q /\ fate[u].is = "landed")
      BY <1>7, <2>3 DEF AtPlace
    <3> QED BY <3>1, <3>2, <3>3 DEF AtPlace
  <2>6. Stands(q, m)'
    BY <1>1, <1>8, <1>10, <2>5 DEF Stands, k, c
  <2>7. Knows(q, m)'
    BY <1>1, <2>2 DEF Knows, InStep
  <2> QED BY <2>6, <2>7
<1>12. ReadsSeen(tx', D \cup {t}, head.reads)
  <2> SUFFICES ASSUME NEW z \in head.reads, NEW u \in D \cup {t}, tx'[u].sender = z.sender, tx'[u].nonce < z.nonce
               PROVE  z.landed \in D
    BY DEF ReadsSeen
  <2>1. CASE u \in D
    BY <1>6, <1>7, <2>1 DEF ReadsSeen
  <2>2. CASE u = t
    <3>1. z.sender = s /\ n < z.nonce
      BY <1>5, <2>2
    <3>2. z.nonce = NonceIn(tx, fate, stolen, s, head.at - 1) /\ head.at - 1 \in Int /\ head.at - 1 <= block
      <4>1. head.pc = "read" /\ block \in Nat /\ head.at \in Int
        BY Parts DEF TurnInv
      <4>2. head.at <= block /\ ReadAt(tx, fate, stolen, head.at, z)
        BY <4>1, Parts DEF HeadInv
      <4> QED BY <3>1, <4>1, <4>2 DEF ReadAt
    <3>3. Stands(s, n)
      <4>1. PICK m \in Nat : Stands(s, m) /\ Knows(s, m)
        BY <1>6
      <4> QED BY <4>1 DEF Knows, InStep
    <3> DEFINE k == NonceIn(tx, fate, stolen, s, block)
               a == head.at - 1
    <3>4. z.nonce \in Nat /\ k \in Nat /\ z.nonce <= k
      <4>1. NonceIn(tx, fate, stolen, s, a) \in Nat /\ NonceIn(tx, fate, stolen, s, a) <= k
        <5> HIDE DEF a
        <5>1. a \in Int /\ a <= block
          BY <3>2 DEF a
        <5> QED BY <3>3, <5>1, StandsAt
      <4> QED BY <3>2, <4>1, TruthTypes
    <3>5. k # n
      <4> HIDE DEF k
      <4> QED BY <3>1, <3>4
    <3>6. PICK o \in D : tx[o].sender = s /\ fate[o].is = "landed"
      BY <3>3, <3>5, StandsAt
    <3>7. tx[o].nonce = n
      BY <3>3, <3>6, StandsAt
    <3> QED BY <1>6, <3>1, <3>6, <3>7 DEF ReadsSeen
  <2> QED BY <2>1, <2>2
<1>13. WorkerInv'
  BY <1>1, <1>8, <1>9, <1>12 DEF WorkerInv, OutSeen
<1> QED BY <1>8, <1>11, <1>13 DEF TruthInv


\* An arm is at its sender's place.
LEMMA SubmitTruth ==
  ASSUME ArmedInv, TruthInv, NEW s \in Sender, NEW w \in Worst, NEW now \in {day - 1, day} \cap Nat,
         NEW back \in 0..Lag, NEW win \in 1..Window, Submit(s, block - back + win, w, now, block - back)
  PROVE  TruthInv'
<1> DEFINE n == nonces[s]
           b == block - back + win
           hd == block - back
<1>1. up /\ turn = "free" /\ ready /\ WriteAhead(s, n, b, w, now, hd)
  BY DEF Submit
<1>2. outbox = NoOutbox /\ block \in Nat /\ day \in Nat /\ n \in 0..MostNonce
  BY <1>1, Parts DEF TurnInv
<1>3. n \in Nat /\ n = nonces[s]
  BY <1>2, MostIsNat
<1>4. now \in 0..day
  BY <1>2
<1>5. back \in Nat /\ win \in Nat
  BY ArmedAssumption
<1>6. b \in Int /\ hd \in Int
  BY <1>2, <1>5
<1> HIDE DEF n, b, hd
<1> QED BY <1>1, <1>2, <1>3, <1>4, <1>6, WriteAheadTruth

\* So is a bump.
LEMMA BumpTruth ==
  ASSUME ArmedInv, DoubtInv, TruthInv, NEW w \in Worst, Bump(w)
  PROVE  TruthInv'
<1> SUFFICES ASSUME ~excused' PROVE TruthInv'
  BY Excused
<1> DEFINE t == tx[line.tx]
           s == t.sender
           n == t.nonce
           b == t.bound
           now == line.now
           hd == line.head
<1>1. line.pc = "underpriced" /\ WriteAhead(s, n, b, w, now, hd)
  BY DEF Bump
<1>2. outbox = NoOutbox /\ up /\ line.tx \in Known
  BY <1>1, Parts DEF TurnInv
<1>3. s \in Sender /\ n \in Nat /\ b \in Int
  BY <1>2, Parts, TxOf DEF Known
<1>4. now \in 0..day /\ hd \in Int
  BY Parts
<1>5. n = nonces[s]
  BY <1>1 DEF LineInv, DoubtInv
<1>6. ready
  <2>1. ~excused
    BY <1>1 DEF WriteAhead, faultVars
  <2> QED BY <1>1, <1>2, <2>1, TruthUp
<1> HIDE DEF s, n, b, now, hd
<1> QED BY <1>1, <1>2, <1>3, <1>4, <1>5, <1>6, WriteAheadTruth

\* A death, which forgets refusals at most.
LEMMA CrashTruth ==
  ASSUME ArmedInv, TruthInv, Crash
  PROVE  TruthInv'
<1> SUFFICES ASSUME ~excused' PROVE TruthInv'
  BY Excused
<1>1. PICK n \in 0..Len(ledger) :
        /\ \A i \in (n + 1)..Len(ledger) : ~Critical(ledger[i])
        /\ ledger' = SubSeq(ledger, 1, n)
        /\ excused' = (excused \/ \E i \in (n + 1)..Len(ledger) : ledger[i] = Reset)
  BY DEF Crash, Idle
<1>2. UNCHANGED chainVars /\ up' = FALSE /\ tx' = tx /\ day' = day /\ block' = block
  BY DEF Crash, chainVars, day
<1>3. ~excused /\ \A i \in (n + 1)..Len(ledger) : ledger[i] # Reset
  BY <1>1
<1> DEFINE l == ledger
           k == SubSeq(ledger, 1, n)
<1>4. l \in Seq(ArmedRecord(Known)) /\ Len(l) \in Nat /\ n \in Nat /\ Placed(tx, Known) /\ day \in Nat
  BY Parts, TruthTypes
<1>5. Refusals(l, n)
  <2> SUFFICES ASSUME NEW i \in (n + 1)..Len(l) PROVE l[i].kind = "refused"
    BY DEF Refusals
  <2>1. l[i] \in ArmedRecord(Known)
    BY <1>4
  <2>2. l[i].kind \in {"refused", "reset"} /\ l[i] # Reset
    BY <1>1, <1>3 DEF Critical
  <2>3. l[i].kind # "reset"
    BY <2>1, <2>2 DEF ArmedRecord, PlainRecord, PlainKind, LossRecord, LossKind, CapRecord, Tripwire
  <2> QED BY <2>2, <2>3
<1>6. /\ After(tx, l, day).pending \subseteq After(tx, k, day).pending
      /\ After(tx, k, day).pending \subseteq After(tx, l, day).pending \cup Undone(l)
      /\ After(tx, k, day).trip <=> After(tx, l, day).trip
      /\ Sighted(tx, k) = Sighted(tx, l)
  <2> DEFINE X == Known
             x == tx
             d == day
  <2>1. n \in 0..Len(l)
    BY <1>1
  <2> HIDE DEF l, X, x, d
  <2>2. Placed(x, X) /\ l \in Seq(ArmedRecord(X)) /\ d \in Nat
    BY <1>4 DEF X, x, d
  <2>3. /\ After(x, l, d).pending \subseteq After(x, SubSeq(l, 1, n), d).pending
        /\ After(x, SubSeq(l, 1, n), d).pending \subseteq After(x, l, d).pending \cup Undone(l)
        /\ After(x, SubSeq(l, 1, n), d).trip <=> After(x, l, d).trip
        /\ Sighted(x, SubSeq(l, 1, n)) = Sighted(x, l)
    BY <1>5, <2>1, <2>2, CutByRefusals
  <2> QED BY <2>3 DEF x, d, l
<1>7. Undone(k) \subseteq Undone(l)
  <2> DEFINE R == ArmedRecord(Known)
  <2>1. l \in Seq(R) /\ n \in 0..Len(l)
    BY <1>1, <1>4
  <2> HIDE DEF R, l
  <2>2. Undone(SubSeq(l, 1, n)) \subseteq Undone(l)
    BY <1>5, <2>1, UndoneCut
  <2> QED BY <2>2 DEF l
<1>8. Disk = After(tx, l, day) /\ Disk' = After(tx, k, day) /\ ledger' = k
  BY <1>1, <1>2, DiskIs DEF Disk
<1>9. \A s : NonceIn(tx', fate', stolen', s, block') = NonceIn(tx, fate, stolen, s, block)
  BY <1>2 DEF chainVars
<1>10. PlaceInv /\ ~Disk.trip
  BY <1>3 DEF TruthInv
<1> HIDE DEF k, l
<1>11. PlaceInv'
  <2> SUFFICES ASSUME NEW s \in Sender PROVE \E m \in Nat : Stands(s, m)'
    BY <1>2 DEF PlaceInv
  <2>1. PICK m \in Nat : Stands(s, m)
    BY <1>10 DEF PlaceInv
  <2> DEFINE j == NonceIn(tx, fate, stolen, s, block)
             D == After(tx, l, day).pending
             E == After(tx, k, day).pending
             W == Undone(l)
             V == Undone(k)
             e == Sighted(tx, l)[s]
  <2>2. AtPlace(tx, fate, j, D, W, e, s, m)
    BY <1>8, <2>1 DEF Stands, l
  <2>3. D \subseteq E /\ E \cup V \subseteq D \cup W
    BY <1>6, <1>7
  <2>4. fate' = fate
    BY <1>2 DEF chainVars
  <2>5. e = Sighted(tx', ledger')[s]
    BY <1>2, <1>6, <1>8
  <2> HIDE DEF j, D, E, W, V, e
  <2>6. AtPlace(tx, fate, j, E, V, e, s, m)
    BY <2>2, <2>3 DEF AtPlace
  <2>7. Stands(s, m)'
    BY <1>2, <1>8, <1>9, <2>4, <2>5, <2>6 DEF Stands, j, E, V
  <2> QED BY <2>7
<1> QED BY <1>2, <1>6, <1>8, <1>10, <1>11 DEF TruthInv

\* A reset: with nothing pending, every sender is where the chain is.
LEMMA ResetTruth ==
  ASSUME ArmedInv, OperatorReset
  PROVE  TruthInv'
<1> SUFFICES ASSUME ~excused' PROVE TruthInv'
  BY Excused
<1>1. UNCHANGED chainVars /\ up' = up /\ ~up /\ ledger' = Append(ledger, Reset) /\ Disk.pending = {}
  BY DEF OperatorReset, Disk
<1>2. MovesNow /\ tx' = tx
  BY <1>1, MovesNot DEF chainVars
<1>3. Disk'.pending = {} /\ ~Disk'.trip /\ Undone(ledger') = {} /\ \A s \in Sender : Sighted(tx', ledger')[s] = -1
  <2> DEFINE r == Reset
  <2>1. r \in ArmedRecord(Known') /\ r.kind = "reset"
    BY RecordsAre DEF Reset
  <2>2. ledger' = Append(ledger, r)
    BY <1>1
  <2> HIDE DEF r
  <2>3. Left(tx', Disk.pending, r) = {}
    BY <1>1, <2>1 DEF Left, LossKind
  <2>4. Seen(tx', Sighted(tx, ledger), r) = [s \in Sender |-> -1]
    BY <2>1 DEF Seen
  <2> QED BY <1>2, <2>1, <2>2, <2>3, <2>4, Retells
<1>4. PlaceInv'
  <2> SUFFICES ASSUME NEW s \in Sender PROVE \E n \in Nat : Stands(s, n)'
    BY <1>1 DEF PlaceInv
  <2>1. PICK k \in Nat : k = NonceIn(tx', fate', stolen', s, block')
    BY <1>1, TruthTypes DEF chainVars
  <2>2. Stands(s, k)'
    BY <1>3, <2>1 DEF Stands, AtPlace
  <2> QED BY <2>1, <2>2
<1> QED BY <1>1, <1>3, <1>4 DEF TruthInv

\* A boot: no sender is elsewhere than its ledger left it without something
\* pending that moved it.
LEMMA BeginTruth ==
  ASSUME ArmedInv, TruthInv, NEW l, NEW b \in 0..block, Begin(l, b)
  PROVE  TruthInv'
<1> SUFFICES ASSUME ~excused' PROVE TruthInv'
  BY Excused
<1> DEFINE read == [s \in Sender |-> NonceAt(s, b)]
           state == Replay(l, day)
           trips == Surprised(l, read) # {}
           D == Disk.pending
           W == Undone(ledger)
<1>1. /\ ~up /\ up'
      /\ l = ledger \/ (l = Compacted /\ SameReplay(l, ledger))
      /\ nonces' = read /\ mem' = [state EXCEPT !.trip = @ \/ trips]
      /\ ledger' = IF trips THEN Append(l, Tripwire) ELSE l
      /\ ready' = (state.pending = {})
      /\ excused' = (excused \/ \E s \in Sender : read[s] # Nonce(s))
      /\ UNCHANGED chainVars /\ line' = line /\ head' = head /\ outbox' = outbox
  BY DEF Begin
<1>2. /\ ~excused /\ PlaceInv /\ ~Disk.trip
      /\ \A s \in Sender : read[s] = NonceIn(tx, fate, stolen, s, block)
  <2> HIDE DEF read
  <2> QED BY <1>1, NonceIs DEF TruthInv, Nonce
<1>3. state = Disk /\ Views(l) = Sighted(tx, ledger)
  BY <1>1, ViewsAre DEF SameReplay, Disk
<1>4. ~trips
  <2> SUFFICES ASSUME NEW s \in Sender, Views(l)[s] \notin {-1, read[s]}, \A t \in state.pending : tx[t].sender # s
               PROVE  FALSE
    BY DEF Surprised
  <2>1. PICK n \in Nat : Stands(s, n)
    BY <1>2 DEF PlaceInv
  <2>2. NonceIn(tx, fate, stolen, s, block) = n
    BY <1>3, <2>1, StandsAt
  <2>3. Views(l)[s] \in {-1, n}
    BY <1>3, <2>1 DEF Stands, AtPlace
  <2> QED BY <1>2, <2>2, <2>3
<1>5. ledger' = l /\ mem'.pending = D /\ ~mem'.trip
  <2>1. state \in States(Known)
    BY <1>1, BootFrom
  <2> HIDE DEF state, trips
  <2>2. mem'.trip <=> state.trip \/ trips
    BY <1>1, <2>1 DEF States
  <2> QED BY <1>1, <1>2, <1>3, <1>4, <2>2, BeginDisk
<1>6. tx' = tx /\ fate' = fate /\ stolen' = stolen /\ block' = block /\ day' = day
  BY <1>1 DEF chainVars, day
<1>7. Disk'.pending = D /\ ~Disk'.trip
  <2>1. Disk' = After(tx', ledger', day')
    BY DiskIs DEF Disk
  <2>2. state = After(tx, l, day)
    BY ReplayIs
  <2>3. Disk' = Disk
    BY <1>3, <1>5, <1>6, <2>1, <2>2
  <2> QED BY <1>2, <2>3
<1>8. Sighted(tx', ledger') = Sighted(tx, ledger)
  BY <1>3, <1>5, <1>6, ViewsAre
<1>9. Undone(ledger') \subseteq W
  <2>1. CASE l = ledger
    BY <1>5, <2>1
  <2>2. CASE l = Compacted
    <3> DEFINE X == Known
               d == day
    <3>1. l = CompactedOf(ledger, KeptOf(tx, ledger, d))
      BY <2>2, CompactedIsOf, KeptIs
    <3>2. ledger \in Seq(ArmedRecord(X))
      BY Parts
    <3> HIDE DEF X, d
    <3>3. Undone(CompactedOf(ledger, KeptOf(tx, ledger, d))) \subseteq Undone(ledger)
      BY <3>2, UndoneKept
    <3> QED BY <1>5, <3>1, <3>3
  <2> QED BY <1>1, <2>1, <2>2
<1>10. outbox = NoOutbox /\ head.reads = {} /\ line.pc = "none"
  BY <1>1, Parts DEF TurnInv
<1>11. PlaceInv'
  <2> SUFFICES ASSUME NEW s \in Sender PROVE \E m \in Nat : Stands(s, m)' /\ Knows(s, m)'
    BY DEF PlaceInv
  <2>1. PICK m \in Nat : Stands(s, m)
    BY <1>2 DEF PlaceInv
  <2> DEFINE j == NonceIn(tx, fate, stolen, s, block)
             V == Undone(ledger')
             e == Sighted(tx, ledger)[s]
  <2>2. AtPlace(tx, fate, j, D, W, e, s, m)
    BY <2>1 DEF Stands
  <2>3. Stands(s, m)'
    <3> HIDE DEF j, D, W, e
    <3>1. AtPlace(tx, fate, j, D, V, e, s, m)
      <4> HIDE DEF V
      <4> QED BY <1>9, <2>2 DEF AtPlace, V
    <3> QED BY <1>6, <1>7, <1>8, <3>1 DEF Stands, j, D, e
  <2>4. (\A t \in D : tx[t].sender # s) => nonces'[s] = m
    BY <1>1, <1>2, <2>1, StandsAt
  <2>5. ready' => D = {}
    BY <1>1, <1>3
  <2> HIDE DEF D
  <2>6. Knows(s, m)'
    BY <1>1, <1>6, <1>7, <1>10, <2>4, <2>5 DEF Knows, InStep
  <2> QED BY <2>3, <2>6
<1>12. WorkerInv'
  BY <1>1, <1>5, <1>7, <1>10 DEF WorkerInv, OutSeen, ReadsSeen
<1> QED BY <1>7, <1>11, <1>12 DEF TruthInv


\* A record of a settlement that abandons nothing.
Clean(D, s, c, r) ==
  /\ r.kind \in {"landed", "expired", "loss_cap"}
  /\ r.kind = "landed" => r.tx \in D /\ tx[r.tx].sender = s /\ tx[r.tx].nonce + 1 = c
  /\ r.kind = "expired" => tx[r.tx].sender = s /\ tx[r.tx].nonce = c

\* What it leaves pending, of its sender and of the others.
LEMMA CleanLeaves ==
  ASSUME ArmedInv, NEW r \in ArmedRecord(Known), Backed(tx, fate, stolen, block, r),
         NEW s \in Sender, NEW c, Clean(Disk.pending, s, c, r)
  PROVE  /\ Left(tx, Disk.pending, r) \subseteq Disk.pending
         /\ \A t \in Disk.pending \ Left(tx, Disk.pending, r) :
              tx[t].sender = s /\ (fate[t].is = "landed" => r.kind = "landed")
         /\ \A q \in Sender : Seen(tx, Sighted(tx, ledger), r)[q]
              = IF q = s /\ r.kind # "loss_cap" THEN c ELSE Sighted(tx, ledger)[q]
<1> DEFINE D == Disk.pending
           v == Sighted(tx, ledger)
<1>1. Left(tx, D, r) \subseteq D
  BY DEF Left, Beside, Clean
<1>2. ASSUME NEW t \in D \ Left(tx, D, r) PROVE tx[t].sender = s /\ (fate[t].is = "landed" => r.kind = "landed")
  <2>1. CASE r.kind = "landed"
    BY <1>2, <2>1 DEF Left, Beside, Clean, LossKind
  <2>2. CASE r.kind = "expired"
    BY <1>2, <2>2 DEF Left, Clean, Backed, Lapsed
  <2>3. CASE r.kind = "loss_cap"
    BY <1>2, <2>3 DEF Left, LossKind
  <2> QED BY <2>1, <2>2, <2>3 DEF Clean
<1>3. \A q \in Sender : Seen(tx, v, r)[q] = IF q = s /\ r.kind # "loss_cap" THEN c ELSE v[q]
  <2> DEFINE X == Known
             x == tx
  <2>1. Placed(x, X) /\ v \in Sightings /\ r \in ArmedRecord(X)
    BY TruthTypes
  <2> HIDE DEF X, x, v
  <2>2. \A q \in Sender : Seen(x, v, r)[q] = IF Tells(x, r, q) THEN Told(x, r) ELSE IF Forgets(x, r, q) THEN -1 ELSE v[q]
    BY <2>1, SeenShape
  <2> QED BY <2>2 DEF Tells, Told, Forgets, Clean, x
<1> QED BY <1>1, <1>2, <1>3

\* Where it leaves its sender.
LEMMA CleanPlace ==
  ASSUME ArmedInv, NEW r \in ArmedRecord(Known), Backed(tx, fate, stolen, block, r),
         NEW s \in Sender, NEW c \in Int, Clean(Disk.pending, s, c, r),
         NEW n \in Nat, Stands(s, n), n = IF r.kind = "landed" THEN c - 1 ELSE c
  PROVE  /\ c \in Nat
         /\ AtPlace(tx, fate, NonceIn(tx, fate, stolen, s, block), Left(tx, Disk.pending, r), {},
                    Seen(tx, Sighted(tx, ledger), r)[s], s, c)
         /\ r.kind = "landed" => \A t \in Left(tx, Disk.pending, r) : tx[t].sender # s
<1> DEFINE D == Disk.pending
           E == Left(tx, D, r)
           k == NonceIn(tx, fate, stolen, s, block)
           e == Sighted(tx, ledger)[s]
           g == Seen(tx, Sighted(tx, ledger), r)[s]
<1>1. /\ E \subseteq D /\ g = IF r.kind # "loss_cap" THEN c ELSE e
      /\ \A t \in D \ E : fate[t].is = "landed" => r.kind = "landed"
  BY CleanLeaves
<1>2. /\ \A t \in D : tx[t].sender = s => tx[t].nonce = n
      /\ e \in {-1, n}
      /\ k = n \/ (k = n + 1 /\ \E u \in D : tx[u].sender = s /\ fate[u].is = "landed")
  BY DEF Stands, AtPlace
<1>3. CASE r.kind = "landed"
  <2>1. r.tx \in D /\ tx[r.tx].sender = s /\ c = n + 1 /\ tx[r.tx].nonce = n
    BY <1>2, <1>3 DEF Clean
  <2>2. \A t \in E : tx[t].sender # s
    BY <1>2, <1>3, <2>1 DEF Left, Beside, LossKind
  <2>3. k = n + 1
    <3> DEFINE X == Known
    <3>1. Passed(tx, fate, stolen, block, r.tx)
      <4>1. r.kind \in LossKind /\ r \in ArmedRecord(1..Len(tx))
        BY <1>3 DEF LossKind, Known
      <4> QED BY <4>1, Parts, LossPassed
    <3>2. n < k
      BY <2>1, <3>1 DEF Passed
    <3> HIDE DEF k
    <3> QED BY <1>2, <3>2
  <2> HIDE DEF E, k, g, e
  <2> QED BY <1>1, <1>3, <2>1, <2>2, <2>3 DEF AtPlace, E, k, g
<1>4. CASE r.kind # "landed"
  <2>1. c = n /\ g \in {-1, n}
    BY <1>1, <1>2, <1>4
  <2>2. \A u \in D : fate[u].is = "landed" => u \in E
    BY <1>1, <1>4
  <2> HIDE DEF E, k, g, e, D
  <2>3. AtPlace(tx, fate, k, E, {}, g, s, c)
    BY <1>1, <1>2, <2>1, <2>2 DEF AtPlace
  <2> QED BY <1>4, <2>1, <2>3 DEF E, k, g, D
<1> QED BY <1>3, <1>4


\* What is left of a settlement after its first record.
LEMMA WriteLeaves ==
  ASSUME ArmedInv, Write
  PROVE  LET l == outbox.records
             rest == AfterWrite(l[1]) IN
         /\ outbox # NoOutbox /\ outbox.sender \in Sender /\ up /\ Now \in 0..day /\ outbox.nonce \in Int
         /\ Record(l[1], Now) /\ 1 \in 1..Len(l) /\ l[1] \in ArmedRecord(Known) /\ Backed(tx, fate, stolen, block, l[1])
         /\ \A i \in 1..Len(rest) : rest[i].kind = "loss_cap" \/ \E j \in 1..Len(l) : j # 1 /\ rest[i] = l[j]
         /\ \/ /\ rest # <<>> /\ outbox'.records = rest /\ 1 \in 1..Len(rest) /\ outbox' # NoOutbox
               /\ outbox'.sender = outbox.sender /\ outbox'.nonce = outbox.nonce
               /\ nonces' = nonces /\ ready' = ready
            \/ /\ outbox' = NoOutbox
               /\ nonces' = IF outbox.nonce = -1 THEN nonces ELSE [nonces EXCEPT ![outbox.sender] = outbox.nonce]
               /\ ready' = ready \/ ready' = (ready \/ mem'.pending = {})
         /\ head'.reads \subseteq head.reads /\ (line'.pc # "none" => line'.pc = line.pc /\ ready' = ready)
         /\ up' = up /\ UNCHANGED chainVars
<1> DEFINE l == outbox.records
           r == l[1]
           rest == AfterWrite(r)
<1>1. outbox # NoOutbox /\ Record(r, Now) /\ up' = up /\ UNCHANGED chainVars
  BY DEF Write, Now
<1>2. \/ /\ rest # <<>> /\ outbox' = [outbox EXCEPT !.records = rest]
         /\ nonces' = nonces /\ ready' = ready /\ line' = line /\ head' = head
      \/ /\ rest = <<>> /\ outbox' = NoOutbox
         /\ nonces' = IF outbox.nonce = -1 THEN nonces ELSE [nonces EXCEPT ![outbox.sender] = outbox.nonce]
         /\ \/ turn = "line" /\ LineDone /\ head' = head /\ ready' = ready
            \/ turn = "head" /\ head.reads = {} /\ HeadDone /\ line' = line
            \/ turn = "head" /\ head' = head /\ ready' = ready /\ line' = line
  BY DEF Write
<1>3. /\ turn \in {"line", "head"} /\ l # <<>> /\ outbox.sender \in Sender /\ up
      /\ turn = "head" => line.pc = "none"
  BY <1>1, Parts DEF TurnInv
<1>4. /\ l \in Seq(ArmedRecord(Known)) /\ r \in ArmedRecord(Known) /\ Backed(tx, fate, stolen, block, r) /\ 1 \in 1..Len(l)
      /\ Tail(l) \in Seq(ArmedRecord(Known)) /\ \A i \in 1..Len(Tail(l)) : i + 1 \in 1..Len(l) /\ Tail(l)[i] = l[i + 1]
  <2>1. l \in Seq(ArmedRecord(Known)) /\ BackedAll(tx, fate, stolen, block, l)
    BY Parts DEF Outboxes, RecordsInv
  <2>2. Len(l) \in Nat /\ 1 \in 1..Len(l) /\ \A i \in 1..Len(Tail(l)) : i + 1 \in 1..Len(l) /\ Tail(l)[i] = l[i + 1]
    BY <1>3, <2>1
  <2> QED BY <1>3, <2>1, <2>2, BackedTail
<1>5. Now \in 0..day /\ outbox.nonce \in Int
  <2>1. outbox.nonce \in -1..MostNonce
    BY Parts DEF Outboxes
  <2> QED BY <2>1, Parts DEF Now
<1> HIDE DEF rest
<1>6. /\ \A i \in 1..Len(rest) : rest[i].kind = "loss_cap" \/ \E j \in 1..Len(l) : j # 1 /\ rest[i] = l[j]
      /\ rest # <<>> => 1 \in 1..Len(rest)
  <2> DEFINE cap == LossCap(mem'.day)
             q == Tail(l)
  <2>1. \A i \in 1..Len(q) : \E j \in 1..Len(l) : j # 1 /\ q[i] = l[j]
    <3> SUFFICES ASSUME NEW i \in 1..Len(q) PROVE \E j \in 1..Len(l) : j # 1 /\ q[i] = l[j]
      OBVIOUS
    <3>1. i + 1 \in 1..Len(l) /\ i + 1 # 1
      BY <1>4
    <3> QED BY <1>4, <3>1
  <2>2. CASE rest = q
    <3>1. q # <<>> => 1 \in 1..Len(q)
      <4>1. q \in Seq(ArmedRecord(Known))
        BY <1>4
      <4> HIDE DEF q
      <4> QED BY <4>1
    <3> QED BY <2>1, <2>2, <3>1
  <2>3. CASE rest = <<cap>> \o q
    <3>1. cap.kind = "loss_cap" /\ Len(q) \in Nat
      BY <1>4 DEF LossCap
    <3> HIDE DEF cap, q
    <3>2. rest = <<cap>> \o q /\ q \in Seq(ArmedRecord(Known))
      BY <1>4, <2>3 DEF q
    <3>3. Len(rest) = Len(q) + 1 /\ \A i \in 1..Len(rest) : rest[i] = cap \/ (i - 1 \in 1..Len(q) /\ rest[i] = q[i - 1])
      BY <3>2
    <3>4. 1 \in 1..Len(rest)
      BY <3>1, <3>3
    <3> QED BY <2>1, <3>1, <3>3, <3>4
  <2> QED BY <2>2, <2>3 DEF AfterWrite, rest
<1>7. \/ /\ rest # <<>> /\ outbox'.records = rest /\ 1 \in 1..Len(rest) /\ outbox' # NoOutbox
         /\ outbox'.sender = outbox.sender /\ outbox'.nonce = outbox.nonce
         /\ nonces' = nonces /\ ready' = ready
      \/ /\ outbox' = NoOutbox
         /\ nonces' = IF outbox.nonce = -1 THEN nonces ELSE [nonces EXCEPT ![outbox.sender] = outbox.nonce]
         /\ ready' = ready \/ ready' = (ready \/ mem'.pending = {})
  <2>1. ASSUME rest # <<>>, outbox' = [outbox EXCEPT !.records = rest]
        PROVE  outbox'.records = rest /\ outbox'.sender = outbox.sender /\ outbox'.nonce = outbox.nonce /\ outbox' # NoOutbox
    <3>1. outbox'.records = rest /\ outbox'.sender = outbox.sender /\ outbox'.nonce = outbox.nonce
      BY <2>1, Parts DEF Outboxes
    <3>2. NoOutbox.records = <<>>
      BY DEF NoOutbox
    <3> QED BY <2>1, <3>1, <3>2
  <2> QED BY <1>2, <1>6, <2>1 DEF HeadDone
<1>8. head'.reads \subseteq head.reads
  BY <1>2 DEF HeadDone, NoHead
<1>9. line'.pc # "none" => line'.pc = line.pc /\ ready' = ready
  <2>1. CASE LineDone
    <3>1. line'.pc = "none"
      BY <2>1, Parts, LineOver DEF LineDone
    <3> QED BY <3>1
  <2>2. CASE line' = line /\ (turn = "head" \/ ready' = ready)
    BY <1>3, <2>2
  <2> QED BY <1>2, <2>1, <2>2
<1> QED BY <1>1, <1>3, <1>4, <1>5, <1>6, <1>7, <1>8, <1>9 DEF rest


\* A record written: its sender is left where the settlement will have it.
LEMMA WriteTruth ==
  ASSUME ArmedInv, DoubtInv, TruthInv, Write
  PROVE  TruthInv'
<1> SUFFICES ASSUME ~excused' PROVE TruthInv'
  BY Excused
<1> DEFINE l == outbox.records
           r == l[1]
           rest == AfterWrite(r)
           D == Disk.pending
           E == Left(tx, D, r)
           v == Sighted(tx, ledger)
<1>0. PICK s, c : s = outbox.sender /\ c = outbox.nonce
  OBVIOUS
<1>1. /\ outbox # NoOutbox /\ s \in Sender /\ up /\ Now \in 0..day /\ c \in Int
      /\ Record(r, Now) /\ 1 \in 1..Len(l) /\ r \in ArmedRecord(Known) /\ Backed(tx, fate, stolen, block, r)
      /\ \A i \in 1..Len(rest) : rest[i].kind = "loss_cap" \/ \E j \in 1..Len(l) : j # 1 /\ rest[i] = l[j]
      /\ \/ /\ rest # <<>> /\ outbox'.records = rest /\ 1 \in 1..Len(rest) /\ outbox' # NoOutbox
            /\ outbox'.sender = s /\ outbox'.nonce = c
            /\ nonces' = nonces /\ ready' = ready
         \/ /\ outbox' = NoOutbox
            /\ nonces' = IF c = -1 THEN nonces ELSE [nonces EXCEPT ![s] = c]
            /\ ready' = ready \/ ready' = (ready \/ mem'.pending = {})
      /\ head'.reads \subseteq head.reads /\ (line'.pc # "none" => line'.pc = line.pc /\ ready' = ready)
      /\ up' = up /\ UNCHANGED chainVars
  BY <1>0, WriteLeaves
<1>2. MovesNow /\ tx' = tx /\ fate' = fate /\ stolen' = stolen /\ block' = block
  BY <1>1, MovesNot DEF chainVars
<1>3. ledger' = Append(ledger, r) /\ excused' = excused
  BY <1>1 DEF Record
<1>4. /\ mem.pending = D /\ ~mem.trip /\ ~Disk.trip /\ OutSeen(tx, D, outbox) /\ ReadsSeen(tx, D, head.reads)
      /\ (line.pc # "none" => ready)
      /\ \A q \in Sender : \E n \in Nat : Stands(q, n) /\ Knows(q, n)
  BY <1>1, <1>3, TruthUp DEF TruthInv
<1>5. /\ c # -1
      /\ \A i \in 1..Len(l) : Clean(D, s, c, l[i]) /\ (l[i].kind = "landed" => i = 1)
  BY <1>0, <1>1, <1>4 DEF OutSeen, Clean
<1>6. Clean(D, s, c, r)
  BY <1>1, <1>5
<1> HIDE DEF l, r, rest
<1>7. r.kind \in {"landed", "expired", "loss_cap"}
  BY <1>6 DEF Clean
<1>8. /\ Disk'.pending = E /\ ~Disk'.trip
      /\ Sighted(tx', ledger') = Seen(tx, v, r) /\ Undone(ledger') = {}
  <2>1. r \in ArmedRecord(Known')
    BY <1>1, <1>2 DEF Known
  <2> QED BY <1>2, <1>3, <1>4, <1>7, <2>1, Retells
<1>9. mem'.pending = E /\ ~mem'.trip
  BY <1>1, <1>2, <1>4, <1>7, RecordDoes
<1>10. /\ E \subseteq D
       /\ \A t \in D \ E : tx[t].sender = s /\ (fate[t].is = "landed" => r.kind = "landed")
       /\ \A q \in Sender : Seen(tx, v, r)[q] = IF q = s /\ r.kind # "loss_cap" THEN c ELSE v[q]
  BY <1>1, <1>6, CleanLeaves
<1>11. \A q : NonceIn(tx', fate', stolen', q, block') = NonceIn(tx, fate, stolen, q, block)
  BY <1>2
<1>12. PICK m \in Nat : Stands(s, m) /\ m = IF r.kind = "landed" THEN c - 1 ELSE c
  <2>1. PICK m \in Nat : Stands(s, m) /\ Knows(s, m)
    BY <1>1, <1>4
  <2> QED BY <1>0, <1>1, <2>1 DEF Knows, InStep, r, l
<1>13. /\ c \in Nat
       /\ AtPlace(tx, fate, NonceIn(tx, fate, stolen, s, block), E, {}, Seen(tx, v, r)[s], s, c)
       /\ r.kind = "landed" => \A t \in E : tx[t].sender # s
  BY <1>1, <1>6, <1>12, CleanPlace
<1>14. \A i \in 1..Len(rest) : /\ rest[i].kind \in {"expired", "loss_cap"}
                               /\ rest[i].kind = "expired" => tx[rest[i].tx].sender = s /\ tx[rest[i].tx].nonce = c
  BY <1>1, <1>5 DEF Clean
<1>15. Stands(s, c)'
  <2> HIDE DEF E, v
  <2> QED BY <1>2, <1>8, <1>11, <1>13 DEF Stands
<1>16. \A q \in Sender \ {s} : \A n \in Nat : Stands(q, n) => Stands(q, n)'
  <2> SUFFICES ASSUME NEW q \in Sender \ {s}, NEW n \in Nat, Stands(q, n) PROVE Stands(q, n)'
    OBVIOUS
  <2> DEFINE k == NonceIn(tx, fate, stolen, q, block)
             W == Undone(ledger)
             e == v[q]
  <2>1. AtPlace(tx, fate, k, D, W, e, q, n)
    BY DEF Stands
  <2>2. E \subseteq D /\ \A u \in D : tx[u].sender = q => u \in E
    BY <1>10
  <2>3. Seen(tx, v, r)[q] = e
    BY <1>10
  <2> HIDE DEF k, W, e, D, E, v
  <2>4. AtPlace(tx, fate, k, E, {}, e, q, n)
    BY <2>1, <2>2 DEF AtPlace
  <2> QED BY <1>2, <1>8, <1>11, <2>3, <2>4 DEF Stands, k
<1>17. Knows(s, c)'
  <2>1. CASE outbox' = NoOutbox /\ nonces' = [nonces EXCEPT ![s] = c]
    <3>1. nonces'[s] = c
      BY <1>1, <2>1, Parts
    <3> QED BY <2>1, <3>1 DEF Knows, InStep
  <2>2. CASE outbox'.records = rest /\ 1 \in 1..Len(rest) /\ outbox' # NoOutbox /\ outbox'.sender = s /\ outbox'.nonce = c
    <3>1. outbox'.records[1].kind # "landed"
      BY <1>14, <2>2
    <3> QED BY <2>2, <3>1 DEF Knows, InStep
  <2> QED BY <1>1, <1>5, <2>1, <2>2
<1>18. \A q \in Sender \ {s} : \A n \in Nat : Knows(q, n) => Knows(q, n)'
  <2> SUFFICES ASSUME NEW q \in Sender \ {s}, NEW n \in Nat, Knows(q, n) PROVE Knows(q, n)'
    OBVIOUS
  <2>1. (ready \/ \A t \in D : tx[t].sender # q) => nonces[q] = n
    BY <1>0 DEF Knows, InStep
  <2>2. nonces'[q] = nonces[q]
    BY <1>1, Parts
  <2>3. \A u \in D : tx[u].sender = q => u \in E
    BY <1>10
  <2>4. (ready' => ready) \/ E = {}
    BY <1>1, <1>9
  <2>5. ~(outbox' # NoOutbox /\ outbox'.sender = q)
    BY <1>1
  <2> HIDE DEF D, E
  <2>6. (ready' \/ \A t \in E : tx[t].sender # q) => nonces'[q] = n
    BY <2>1, <2>2, <2>3, <2>4
  <2> QED BY <1>2, <1>8, <2>5, <2>6 DEF Knows, InStep
<1>19. PlaceInv'
  <2> SUFFICES ASSUME NEW q \in Sender PROVE \E n \in Nat : Stands(q, n)' /\ Knows(q, n)'
    BY DEF PlaceInv
  <2>1. CASE q = s
    BY <1>13, <1>15, <1>17, <2>1
  <2>2. CASE q # s
    BY <1>4, <1>16, <1>18, <2>2
  <2> QED BY <2>1, <2>2
<1>20. OutSeen(tx, E, outbox')
  <2>1. CASE outbox' = NoOutbox
    BY <2>1 DEF OutSeen
  <2>2. CASE outbox'.records = rest /\ outbox'.sender = s /\ outbox'.nonce = c
    BY <1>5, <1>14, <2>2 DEF OutSeen
  <2> QED BY <1>1, <2>1, <2>2
<1>21. ReadsSeen(tx, E, head'.reads)
  <2> SUFFICES ASSUME NEW z \in head.reads, NEW t \in E, tx[t].sender = z.sender, tx[t].nonce < z.nonce
               PROVE  z.landed \in E
    BY <1>1 DEF ReadsSeen
  <2>1. z.landed \in D
    BY <1>4, <1>10 DEF ReadsSeen
  <2>2. fate[z.landed].is = "landed" /\ tx[z.landed].sender = z.sender
    <3>1. head.pc = "read"
      BY Parts DEF TurnInv
    <3>2. ReadAt(tx, fate, stolen, head.at, z)
      BY <3>1, Parts DEF HeadInv
    <3>3. z.landed \in Known /\ \A u \in Known : u # 0
      BY <2>1, Parts, TruthTypes DEF Known
    <3> QED BY <3>2, <3>3 DEF ReadAt
  <2> HIDE DEF D, E
  <2> QED BY <1>10, <1>13, <2>1, <2>2
<1>22. line'.pc # "none" => ready'
  BY <1>1, <1>4
<1>23. WorkerInv'
  BY <1>2, <1>8, <1>9, <1>20, <1>21, <1>22 DEF WorkerInv
<1> QED BY <1>8, <1>19, <1>23 DEF TruthInv


\* A worker that is not up has not tripped.
Untripped == ~up => ~mem.trip

\* The inductive invariant: without a reason every sender is in its place.
TruthfulInv == BudgetInv /\ TruthInv /\ Untripped

\* At the start nothing is pending, nor undone.
LEMMA InitTruth == ASSUME Init PROVE TruthInv /\ Untripped
<1>1. ArmedInv
  BY InitArmed
<1>2. ledger = <<>> /\ up = FALSE /\ mem = NewState(0)
  BY DEF Init
<1>3. Disk = NewState(day) /\ day \in Nat
  BY <1>1, <1>2, Parts, DiskIs, AfterEmpty DEF Disk
<1>4. Disk.pending = {} /\ ~Disk.trip /\ ~mem.trip
  BY <1>2, <1>3 DEF NewState
<1>5. Undone(ledger) = {} /\ \A s \in Sender : Sighted(tx, ledger)[s] = -1
  <2>1. Ending(ledger) = {}
    BY <1>2 DEF Ending
  <2> QED BY <1>2, <2>1, SightedEmpty, NoSightIs DEF Undone
<1>6. PlaceInv
  <2> SUFFICES ASSUME NEW s \in Sender PROVE \E n \in Nat : Stands(s, n)
    BY <1>2 DEF PlaceInv
  <2> DEFINE k == NonceIn(tx, fate, stolen, s, block)
  <2>1. k \in Nat
    BY <1>1, TruthTypes
  <2>2. Stands(s, k)
    <3> HIDE DEF k
    <3> QED BY <1>4, <1>5 DEF Stands, AtPlace, k
  <2> QED BY <2>1, <2>2
<1> QED BY <1>2, <1>4, <1>6 DEF TruthInv, Untripped

\* A worker trips only when up.
LEMMA UntrippedStays ==
  ASSUME ArmedInv, Untripped, [Next]_vars
  PROVE  Untripped'
<1>1. CASE UNCHANGED vars \/ ChainStep \/ OperatorReset
  BY <1>1 DEF Untripped, vars, ChainStep, OperatorReset, workerVars
<1>2. CASE LineStep
  <2>1. up' = up /\ (up \/ line.pc # "none")
    BY <1>2 DEF LineStep, Submit, WriteAhead, Answered, RefusedFor, Bump, LandingCheck, LandingRead, GivesUp
  <2> QED BY <2>1, Parts DEF Untripped, TurnInv
<1>3. CASE HeadStep
  <2>1. up' = up /\ (up \/ head.reads # {})
    BY <1>3 DEF HeadStep, HeadReads, HeadSettles
  <2> QED BY <2>1, Parts DEF Untripped, TurnInv
<1>4. CASE Write
  BY <1>4, WriteLeaves DEF Untripped
<1>5. CASE Crash
  BY <1>5, NewStateIs DEF Untripped, Crash, Idle, NewState
<1>6. CASE Restart
  BY <1>6 DEF Untripped, Restart, Begin
<1> QED BY <1>1, <1>2, <1>3, <1>4, <1>5, <1>6 DEF Next

\* Every step leaves every sender in its place, or has a reason to trip.
LEMMA NextTruth ==
  ASSUME ArmedInv, DoubtInv, TruthInv, [Next]_vars
  PROVE  TruthInv'
<1>1. CASE UNCHANGED vars \/ Answered \/ GivesUp
  BY <1>1, LineEndsTruth
<1>2. CASE ChainStep
  BY <1>2, ChainTruth
<1>3. CASE LineStep
  <2>1. CASE \E s \in Sender, w \in Worst, now \in {day - 1, day} \cap Nat, back \in 0..Lag, win \in 1..Window :
               Submit(s, block - back + win, w, now, block - back)
    BY <2>1, SubmitTruth
  <2>2. CASE \E why \in {"low", "underpriced", "other"} : RefusedFor(why)
    BY <2>2, RefusedTruth
  <2>3. CASE \E w \in Worst : Bump(w)
    BY <2>3, BumpTruth
  <2>4. CASE LandingCheck
    BY <2>4, LandingCheckTruth
  <2> QED BY <1>1, <1>3, <2>1, <2>2, <2>3, <2>4 DEF LineStep
<1>4. CASE HeadStep
  BY <1>4, HeadReadsTruth, HeadSettlesTruth DEF HeadStep
<1>5. CASE Write
  BY <1>5, WriteTruth
<1>6. CASE Crash
  BY <1>6, CrashTruth
<1>7. CASE OperatorReset
  BY <1>7, ResetTruth
<1>8. CASE Restart
  BY <1>8, BeginTruth DEF Restart
<1> QED BY <1>1, <1>2, <1>3, <1>4, <1>5, <1>6, <1>7, <1>8 DEF Next

\* Without another use of a key, a receipt that was not there, a record that was not
\* written or a node at boot that was behind, every sender is where the ledger, the
\* worker and the chain agree it is.
THEOREM ArmedTruthInvariant == Spec => []TruthfulInv
<1>1. Init => TruthfulInv
  BY InitBudget, InitTruth DEF TruthfulInv
<1>2. TruthfulInv /\ [Next]_vars => TruthfulInv'
  BY NextBudget, NextTruth, UntrippedStays DEF TruthfulInv, BudgetInv
<1> QED BY <1>1, <1>2, PTL DEF Spec

\* The lane trips, in a settlement or at a boot, only for something this worker
\* cannot account for, however its submissions, refusals, replacements, landings,
\* expiries, deaths and compactions fall.
THEOREM ArmedTripwireTruthful == Spec => []TripwireTruthful
<1>1. TruthfulInv => TripwireTruthful
  BY Parts DEF TruthfulInv, BudgetInv, TruthInv, WorkerInv, Untripped, TripwireTruthful
<1> QED BY <1>1, ArmedTruthInvariant, PTL
=============================================================================
