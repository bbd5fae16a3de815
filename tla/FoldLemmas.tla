----------------------------- MODULE FoldLemmas -----------------------------
(***************************************************************************)
(* Induction and folds in first-order form.  The library's induction       *)
(* theorems and the community modules' folds take operators; here a        *)
(* predicate is a set, a step of a fold a function, and a summand a        *)
(* function, so that the facts can be cited with the modules' own          *)
(* operators in their place.  The last part is about the fold that keeps   *)
(* some places of a sequence.                                              *)
(***************************************************************************)
EXTENDS Integers, Sequences, FiniteSets, SequencesExt,
        FiniteSetTheorems, WellFoundedInduction, TLAPS

\* Induction up to n, for the set G of what has the property.
LEMMA InductionTo ==
  ASSUME NEW n \in Nat, NEW G, 0 \in G, \A i \in 0..(n - 1) : i \in G => i + 1 \in G
  PROVE  \A i \in 0..n : i \in G
<1> DEFINE Bad == {i \in 0..n : i \notin G}
<1>1. SUFFICES ASSUME Bad # {} PROVE FALSE
  OBVIOUS
<1>2. Bad \subseteq Nat
  OBVIOUS
<1>3. PICK m \in Bad : \A k \in Bad : ~(<<k, m>> \in OpToRel(<, Nat))
  <2> HIDE DEF Bad
  <2> QED BY <1>1, <1>2, NatLessThanWellFounded, WFMin
<1>4. \A k \in Bad : ~(k < m)
  BY <1>2, <1>3 DEF OpToRel
<1>5. m # 0
  OBVIOUS
<1> QED BY <1>4, <1>5

\* An interval from one, without its end.
LEMMA IntervalEnd ==
  ASSUME NEW n \in Nat
  PROVE  n + 1 \in 1..(n + 1) /\ 1..(n + 1) # {} /\ (1..(n + 1)) \ {n + 1} = 1..n
<1>1. n + 1 \in 1..(n + 1)
  OBVIOUS
<1>2. \A i : i \in (1..(n + 1)) \ {n + 1} <=> i \in 1..n
  OBVIOUS
<1> QED BY <1>1, <1>2

\* The greatest of an interval, and of a set that holds its end.
LEMMA MaxOfInterval ==
  ASSUME NEW n \in Nat, NEW s, s \subseteq 1..n, n \in s
  PROVE  Max(s) = n
<1>1. n \in s /\ \A y \in s : n >= y
  OBVIOUS
<1>2. \A x \in s : (\A y \in s : x >= y) => x = n
  OBVIOUS
<1> QED BY <1>1, <1>2 DEF Max

\* The greatest of any places in a sequence.
LEMMA MaxOfPlaces ==
  ASSUME NEW n \in Nat, NEW s, s \subseteq 1..n, s # {}
  PROVE  Max(s) \in s /\ \A y \in s : y <= Max(s)
<1> DEFINE HasMax(r) == \E m \in r : \A y \in r : m >= y
           G == {k \in 0..n : \A r \in SUBSET (1..k) : r # {} => HasMax(r)}
<1>1. 0 \in G
  <2>1. \A r \in SUBSET (1..0) : r = {}
    OBVIOUS
  <2>2. 0 \in 0..n
    BY SMT
  <2>3. \A r \in SUBSET (1..0) : r # {} => HasMax(r)
    BY <2>1
  <2> HIDE DEF HasMax
  <2> QED BY <2>2, <2>3
<1>2. ASSUME NEW k \in 0..(n - 1), k \in G PROVE k + 1 \in G
  <2>1. k + 1 \in 0..n /\ k \in Nat
    OBVIOUS
  <2>2. ASSUME NEW r \in SUBSET (1..(k + 1)), r # {} PROVE HasMax(r)
    <3>1. CASE k + 1 \in r
      <4>1. \A y \in r : k + 1 >= y
        BY <2>1
      <4> QED BY <3>1, <4>1
    <3>2. CASE k + 1 \notin r
      <4>1. r \in SUBSET (1..k)
        BY <2>1, <3>2
      <4> QED BY <1>2, <2>2, <4>1
    <3> QED BY <3>1, <3>2
  <2> HIDE DEF HasMax
  <2> QED BY <2>1, <2>2
<1>3. \A i \in 0..(n - 1) : i \in G => i + 1 \in G
  <2> HIDE DEF G
  <2> QED BY <1>2
<1>4. n \in G
  <2> HIDE DEF G
  <2>1. \A i \in 0..n : i \in G
    BY <1>1, <1>3, InductionTo
  <2> QED BY <2>1
<1>5. PICK m \in s : \A y \in s : m >= y
  BY <1>4
<1>6. Max(s) \in s /\ \A y \in s : Max(s) >= y
  BY <1>5 DEF Max
<1> QED BY <1>6

\* The greatest of a set of naturals with a bound.
LEMMA MaxUpTo ==
  ASSUME NEW c \in Nat, NEW s, s \subseteq 0..c, s # {}
  PROVE  Max(s) \in s /\ \A y \in s : y <= Max(s)
<1>1. CASE s = {0}
  <2>1. \E m \in s : \A y \in s : m >= y
    BY <1>1
  <2> QED BY <2>1 DEF Max
<1>2. CASE s # {0}
  <2> DEFINE r == s \ {0}
  <2>1. r \subseteq 1..c /\ r # {}
    BY <1>2
  <2>2. PICK m \in r : \A y \in r : m >= y
    BY <2>1, MaxOfPlaces
  <2>3. m \in s /\ \A y \in s : m >= y
    BY <2>1, <2>2
  <2>4. Max(s) \in s /\ \A y \in s : Max(s) >= y
    BY <2>3 DEF Max
  <2> QED BY <2>4
<1> QED BY <1>1, <1>2

LEMMA DivMono ==
  ASSUME NEW d \in Nat \ {0}, NEW a \in Nat, NEW b \in Nat, a <= b
  PROVE  a \div d <= b \div d /\ a \div d \in Nat /\ b \div d \in Nat
OBVIOUS

\* The values of a function over a finite set are finitely many.
LEMMA FiniteImage ==
  ASSUME NEW S, IsFiniteSet(S), NEW f, DOMAIN f = S, f = [x \in S |-> f[x]]
  PROVE  IsFiniteSet({f[x] : x \in S})
<1> DEFINE T == {f[x] : x \in S}
<1>1. f \in [S -> T]
  OBVIOUS
<1>2. f \in Surjection(S, T)
  BY <1>1 DEF Surjection
<1> QED BY <1>2, FS_Surjection

\* The members of a finite set, in some order.
LEMMA SeqOfSet ==
  ASSUME NEW S, IsFiniteSet(S)
  PROVE  /\ SetToSeq(S) \in Seq(S)
         /\ \A e \in S : \E i \in 1..Len(SetToSeq(S)) : SetToSeq(S)[i] = e
         /\ \A i \in 1..Len(SetToSeq(S)) : SetToSeq(S)[i] \in S
         /\ S # {} => SetToSeq(S) # <<>>
<1> DEFINE n == Cardinality(S)
           f == SetToSeq(S)
<1>1. n \in Nat /\ ExistsBijection(1..n, S)
  BY FS_CardinalityType
<1>2. \E g \in [1..n -> S] : IsInjective(g)
  <2>1. PICK g \in Bijection(1..n, S) : TRUE
    BY <1>1 DEF ExistsBijection
  <2> QED BY <2>1 DEF Bijection, Injection, IsInjective
<1>3. f \in [1..n -> S] /\ IsInjective(f)
  BY <1>2 DEF SetToSeq
<1>4. f \in Surjection(1..n, S)
  <2>1. f \in Injection(1..n, S)
    BY <1>3 DEF Injection, IsInjective
  <2>2. Cardinality(1..n) = n
    <3>1. Cardinality(1..n) = IF 1 > n THEN 0 ELSE n - 1 + 1
      BY <1>1, FS_Interval
    <3> HIDE DEF n
    <3> QED BY <1>1, <3>1
  <2> QED BY <2>1, <2>2, FS_Injection
<1> HIDE DEF n, f
<1>5. f \in Seq(S) /\ Len(f) = n
  BY <1>1, <1>3
<1>6. \A e \in S : \E i \in 1..n : f[i] = e
  BY <1>4 DEF Surjection
<1>7. \A i \in 1..n : f[i] \in S
  BY <1>3
<1>8. S # {} => f # <<>>
  <2>1. SUFFICES ASSUME S # {} PROVE f # <<>>
    OBVIOUS
  <2>2. PICK e \in S : TRUE
    BY <2>1
  <2>3. PICK i \in 1..n : f[i] = e
    BY <1>6
  <2>4. n # 0
    BY <1>1, <2>3
  <2> QED BY <1>5, <2>4
<1> QED BY <1>5, <1>6, <1>7, <1>8 DEF f

-----------------------------------------------------------------------------
(* Folds over sequences.                                                   *)

\* What FoldLeft builds on the way: a value for each set of places.
IsFold(it, base, step, l) ==
  it = [s \in SUBSET (1..Len(l)) |->
          IF s = {} THEN base ELSE step[<<it[s \ {Max(s)}], l[Max(s)]>>]]

\* It exists, and keeps the step's type.
LEMMA FoldExists ==
  ASSUME NEW S, NEW R, NEW base \in S, NEW step \in [S \X R -> S], NEW l \in Seq(R)
  PROVE  \E it \in [SUBSET (1..Len(l)) -> S] : IsFold(it, base, step, l)
<1> DEFINE N == Len(l)
           Good(it, n) == \A s \in SUBSET (1..n) :
             it[s] = IF s = {} THEN base ELSE step[<<it[s \ {Max(s)}], l[Max(s)]>>]
           G == {n \in 0..N : \E it \in [SUBSET (1..n) -> S] : Good(it, n)}
<1>1. N \in Nat /\ \A i \in 1..N : l[i] \in R
  OBVIOUS
<1>2. 0 \in G
  <2> DEFINE it == [s \in SUBSET (1..0) |-> base]
  <2>1. it \in [SUBSET (1..0) -> S]
    OBVIOUS
  <2>2. Good(it, 0)
    <3>1. \A s \in SUBSET (1..0) : s = {}
      OBVIOUS
    <3> QED BY <3>1
  <2>3. \E z \in [SUBSET (1..0) -> S] : Good(z, 0)
    <3> HIDE DEF it, Good
    <3> QED BY <2>1, <2>2
  <2>4. 0 \in 0..N
    BY <1>1
  <2> HIDE DEF N, Good
  <2> QED BY <2>3, <2>4
<1>3. ASSUME NEW n \in 0..(N - 1), n \in G PROVE n + 1 \in G
  <2>1. PICK old \in [SUBSET (1..n) -> S] : Good(old, n)
    BY <1>3
  <2> DEFINE it == [s \in SUBSET (1..(n + 1)) |->
                      IF n + 1 \in s THEN step[<<old[s \ {n + 1}], l[n + 1]>>] ELSE old[s]]
  <2>2. n \in Nat /\ n + 1 \in 1..N /\ n + 1 \in 0..N
    BY <1>1
  <2>3. \A s \in SUBSET (1..(n + 1)) :
          s \ {n + 1} \in SUBSET (1..n) /\ (n + 1 \notin s => s \in SUBSET (1..n))
    BY <2>2
  <2>4. it \in [SUBSET (1..(n + 1)) -> S]
    <3>1. ASSUME NEW s \in SUBSET (1..(n + 1)) PROVE it[s] \in S
      <4>1. old[s \ {n + 1}] \in S /\ l[n + 1] \in R
        BY <1>1, <2>2, <2>3
      <4>2. step[<<old[s \ {n + 1}], l[n + 1]>>] \in S
        BY <4>1
      <4>3. n + 1 \notin s => old[s] \in S
        BY <2>3
      <4> QED BY <4>2, <4>3
    <3> HIDE DEF it
    <3>2. it = [s \in SUBSET (1..(n + 1)) |-> it[s]]
      BY DEF it
    <3> QED BY <3>1, <3>2
  <2>5. \A s \in SUBSET (1..n) : it[s] = old[s] /\ s \in SUBSET (1..(n + 1)) /\ n + 1 \notin s
    BY <2>2
  <2>6. Good(it, n + 1)
    <3> SUFFICES ASSUME NEW s \in SUBSET (1..(n + 1))
                 PROVE  it[s] = IF s = {} THEN base ELSE step[<<it[s \ {Max(s)}], l[Max(s)]>>]
      OBVIOUS
    <3>1. CASE n + 1 \in s
      <4>1. Max(s) = n + 1
        <5>1. s \subseteq 1..(n + 1) /\ n + 1 \in Nat
          BY <2>2
        <5> QED BY <3>1, <5>1, MaxOfInterval
      <4>2. it[s \ {n + 1}] = old[s \ {n + 1}]
        BY <2>3, <2>5
      <4>3. it[s] = step[<<old[s \ {n + 1}], l[n + 1]>>]
        BY <3>1
      <4>4. s # {}
        BY <3>1
      <4> HIDE DEF it
      <4>5. it[s] = step[<<it[s \ {n + 1}], l[n + 1]>>]
        BY <4>2, <4>3
      <4>6. it[s] = step[<<it[s \ {Max(s)}], l[Max(s)]>>]
        BY <4>1, <4>5
      <4> QED BY <4>4, <4>6
    <3>2. CASE n + 1 \notin s
      <4>1. s \in SUBSET (1..n)
        BY <2>3, <3>2
      <4>2. it[s] = old[s]
        BY <2>5, <4>1
      <4>3. s \ {Max(s)} \in SUBSET (1..n)
        BY <4>1
      <4>4. it[s \ {Max(s)}] = old[s \ {Max(s)}]
        BY <2>5, <4>3
      <4> QED BY <2>1, <4>1, <4>2, <4>4
    <3> QED BY <3>1, <3>2
  <2>7. \E z \in [SUBSET (1..(n + 1)) -> S] : Good(z, n + 1)
    <3> HIDE DEF it, Good
    <3> QED BY <2>4, <2>6
  <2> HIDE DEF N, Good
  <2> QED BY <2>2, <2>7
<1>4. N \in G
  <2>1. \A i \in 0..(N - 1) : i \in G => i + 1 \in G
    <3> HIDE DEF G, N
    <3> QED BY <1>3
  <2> HIDE DEF G, N
  <2>2. \A i \in 0..N : i \in G
    BY <1>1, <1>2, <2>1, InductionTo
  <2> QED BY <1>1, <2>2
<1>5. PICK it \in [SUBSET (1..N) -> S] : Good(it, N)
  BY <1>4
<1>6. it = [s \in SUBSET (1..N) |-> it[s]]
  BY <1>5
<1>7. it = [s \in SUBSET (1..N) |-> IF s = {} THEN base ELSE step[<<it[s \ {Max(s)}], l[Max(s)]>>]]
  BY <1>5, <1>6
<1> QED BY <1>5, <1>7 DEF IsFold

\* Two sequences with the same first n elements.
SamePrefix(l, k, n) ==
  n \in Nat /\ 1..n \subseteq 1..Len(l) /\ 1..n \subseteq 1..Len(k) /\ \A i \in 1..n : l[i] = k[i]

\* Its value for the first n places depends on those alone.
LEMMA FoldPrefix ==
  ASSUME NEW l, NEW k, NEW n, SamePrefix(l, k, n), NEW base, NEW step,
         NEW it, NEW jt, IsFold(it, base, step, l), IsFold(jt, base, step, k)
  PROVE  it[1..n] = jt[1..n]
<1> USE DEF SamePrefix
<1> DEFINE G == {i \in 0..n : it[1..i] = jt[1..i]}
<1>1. 0 \in G
  <2>1. 1..0 = {} /\ {} \in SUBSET (1..Len(l)) /\ {} \in SUBSET (1..Len(k))
    OBVIOUS
  <2>2. it[{}] = base /\ jt[{}] = base
    BY <2>1 DEF IsFold
  <2>3. it[1..0] = base /\ jt[1..0] = base
    BY <2>1, <2>2
  <2> QED BY <2>3
<1>2. ASSUME NEW i \in 0..(n - 1), i \in G PROVE i + 1 \in G
  <2>1. /\ i + 1 \in 1..n /\ i + 1 \in Nat /\ i + 1 \in 0..n
        /\ i + 1 \in 1..Len(l) /\ i + 1 \in 1..Len(k)
    <3>1. i + 1 \in 1..n /\ i + 1 \in Nat /\ i + 1 \in 0..n
      OBVIOUS
    <3> QED BY <3>1
  <2>2. /\ 1..(i + 1) \in SUBSET (1..Len(l)) /\ 1..(i + 1) \in SUBSET (1..Len(k))
        /\ 1..(i + 1) # {} /\ (1..(i + 1)) \ {i + 1} = 1..i
    <3>1. 1..(i + 1) \subseteq 1..Len(l) /\ 1..(i + 1) \subseteq 1..Len(k)
      <4>1. 1..(i + 1) \subseteq 1..n
        BY <2>1
      <4> QED BY <4>1
    <3>2. i \in Nat
      OBVIOUS
    <3>3. 1..(i + 1) # {} /\ (1..(i + 1)) \ {i + 1} = 1..i
      BY <3>2, IntervalEnd
    <3> QED BY <3>1, <3>3
  <2>3. Max(1..(i + 1)) = i + 1
    <3>1. 1..(i + 1) \subseteq 1..(i + 1) /\ i + 1 \in 1..(i + 1)
      BY <2>1
    <3> QED BY <2>1, <3>1, MaxOfInterval
  <2>4. /\ it[1..(i + 1)] = step[<<it[(1..(i + 1)) \ {Max(1..(i + 1))}], l[Max(1..(i + 1))]>>]
        /\ jt[1..(i + 1)] = step[<<jt[(1..(i + 1)) \ {Max(1..(i + 1))}], k[Max(1..(i + 1))]>>]
    <3> DEFINE I == 1..(i + 1)
    <3>1. I \in SUBSET (1..Len(l)) /\ I \in SUBSET (1..Len(k)) /\ I # {}
      BY <2>2
    <3> HIDE DEF I
    <3>2. /\ it[I] = step[<<it[I \ {Max(I)}], l[Max(I)]>>]
          /\ jt[I] = step[<<jt[I \ {Max(I)}], k[Max(I)]>>]
      BY <3>1 DEF IsFold
    <3> QED BY <3>2 DEF I
  <2>5. /\ it[1..(i + 1)] = step[<<it[1..i], l[i + 1]>>]
        /\ jt[1..(i + 1)] = step[<<jt[1..i], k[i + 1]>>]
    BY <2>2, <2>3, <2>4
  <2>6. l[i + 1] = k[i + 1]
    BY <2>1
  <2>7. it[1..i] = jt[1..i]
    BY <1>2
  <2> QED BY <2>1, <2>5, <2>6, <2>7
<1>3. n \in G
  <2>1. \A i \in 0..(n - 1) : i \in G => i + 1 \in G
    <3> HIDE DEF G
    <3> QED BY <1>2
  <2> HIDE DEF G
  <2>2. \A i \in 0..n : i \in G
    BY <1>1, <2>1, InductionTo
  <2> QED BY <2>2
<1> QED BY <1>3

\* And it keeps the step's type.
LEMMA FoldTyped ==
  ASSUME NEW S, NEW R, NEW base \in S, NEW step \in [S \X R -> S], NEW l \in Seq(R),
         NEW it, IsFold(it, base, step, l)
  PROVE  it[1..Len(l)] \in S
<1> DEFINE n == Len(l)
           G == {i \in 0..n : it[1..i] \in S}
<1>1. n \in Nat /\ \A i \in 1..n : l[i] \in R
  OBVIOUS
<1>2. IsFold(it, base, step, l) /\ n = Len(l)
  OBVIOUS
<1> HIDE DEF n
<1>3. 0 \in G
  <2>1. 1..0 = {} /\ {} \in SUBSET (1..n)
    BY <1>1
  <2>2. it[{}] = base
    BY <1>2, <2>1 DEF IsFold
  <2> QED BY <1>1, <2>1, <2>2
<1>4. ASSUME NEW i \in 0..(n - 1), i \in G PROVE i + 1 \in G
  <2> DEFINE I == 1..(i + 1)
  <2>1. i \in Nat /\ i + 1 \in 1..n /\ i + 1 \in 0..n
    BY <1>1
  <2>2. I \subseteq 1..n
    BY <1>1, <2>1
  <2>3. I # {} /\ I \ {i + 1} = 1..i /\ i + 1 \in I
    BY <2>1, IntervalEnd
  <2>4. Max(I) = i + 1
    <3>1. I \subseteq 1..(i + 1) /\ i + 1 \in Nat
      BY <2>1
    <3> HIDE DEF I
    <3> QED BY <2>3, <3>1, MaxOfInterval
  <2> HIDE DEF I
  <2>5. it[I] = step[<<it[I \ {Max(I)}], l[Max(I)]>>]
    <3>1. I \in SUBSET (1..Len(l)) /\ I # {}
      BY <1>2, <2>2, <2>3
    <3> QED BY <1>2, <3>1 DEF IsFold
  <2>6. it[I] = step[<<it[1..i], l[i + 1]>>]
    BY <2>3, <2>4, <2>5
  <2>7. it[1..i] \in S /\ l[i + 1] \in R
    BY <1>1, <1>4, <2>1
  <2>8. it[I] \in S
    BY <2>6, <2>7
  <2> QED BY <2>1, <2>8 DEF I
<1>5. n \in G
  <2>1. \A i \in 0..(n - 1) : i \in G => i + 1 \in G
    <3> HIDE DEF G
    <3> QED BY <1>4
  <2> HIDE DEF G
  <2>2. \A i \in 0..n : i \in G
    BY <1>1, <1>3, <2>1, InductionTo
  <2> QED BY <1>1, <2>2
<1> QED BY <1>2, <1>5

\* What holds of the value so far, for each number of places, holds at the end.
LEMMA FoldAlong ==
  ASSUME NEW R, NEW base, NEW step, NEW l \in Seq(R), NEW it, IsFold(it, base, step, l),
         NEW S, base \in S[0],
         \A n \in Nat : n < Len(l) => \A x \in S[n] : step[<<x, l[n + 1]>>] \in S[n + 1]
  PROVE  it[1..Len(l)] \in S[Len(l)]
<1> DEFINE n == Len(l)
           G == {i \in 0..n : it[1..i] \in S[i]}
<1>1. n \in Nat
  OBVIOUS
<1>2. IsFold(it, base, step, l) /\ n = Len(l)
  OBVIOUS
<1> HIDE DEF n
<1>3. 0 \in G
  <2>1. 1..0 = {} /\ {} \in SUBSET (1..n)
    BY <1>1
  <2>2. it[{}] = base
    BY <1>2, <2>1 DEF IsFold
  <2> QED BY <1>1, <2>1, <2>2
<1>4. ASSUME NEW i \in 0..(n - 1), i \in G PROVE i + 1 \in G
  <2> DEFINE I == 1..(i + 1)
  <2>1. i \in Nat /\ i < n /\ i + 1 \in 1..n /\ i + 1 \in 0..n
    BY <1>1
  <2>2. I \subseteq 1..n
    BY <1>1, <2>1
  <2>3. I # {} /\ I \ {i + 1} = 1..i /\ i + 1 \in I
    BY <2>1, IntervalEnd
  <2>4. Max(I) = i + 1
    <3>1. I \subseteq 1..(i + 1) /\ i + 1 \in Nat
      BY <2>1
    <3> HIDE DEF I
    <3> QED BY <2>3, <3>1, MaxOfInterval
  <2> HIDE DEF I
  <2>5. it[I] = step[<<it[I \ {Max(I)}], l[Max(I)]>>]
    <3>1. I \in SUBSET (1..Len(l)) /\ I # {}
      BY <1>2, <2>2, <2>3
    <3> QED BY <1>2, <3>1 DEF IsFold
  <2>6. it[I] = step[<<it[1..i], l[i + 1]>>]
    BY <2>3, <2>4, <2>5
  <2>7. it[1..i] \in S[i]
    BY <1>4
  <2>8. step[<<it[1..i], l[i + 1]>>] \in S[i + 1]
    BY <1>2, <2>1, <2>7
  <2> QED BY <2>1, <2>6, <2>8 DEF I
<1>5. n \in G
  <2>1. \A i \in 0..(n - 1) : i \in G => i + 1 \in G
    <3> HIDE DEF G
    <3> QED BY <1>4
  <2> HIDE DEF G
  <2>2. \A i \in 0..n : i \in G
    BY <1>1, <1>3, <2>1, InductionTo
  <2> QED BY <1>1, <2>2
<1> QED BY <1>2, <1>5

\* One element more is one step more.
LEMMA FoldAppend ==
  ASSUME NEW R, NEW base, NEW step, NEW l \in Seq(R), NEW r \in R,
         NEW it, NEW jt, IsFold(it, base, step, l), IsFold(jt, base, step, Append(l, r))
  PROVE  jt[1..(Len(l) + 1)] = step[<<it[1..Len(l)], r>>]
<1> DEFINE n == Len(l)
           k == Append(l, r)
           I == 1..(n + 1)
<1>1. n \in Nat /\ k \in Seq(R) /\ Len(k) = n + 1 /\ k[n + 1] = r /\ \A i \in 1..n : l[i] = k[i]
  OBVIOUS
<1> HIDE DEF n, k
<1>2. it[1..n] = jt[1..n]
  <2>1. IsFold(it, base, step, l) /\ IsFold(jt, base, step, k)
    BY DEF k
  <2>2. 1..n \subseteq 1..Len(l)
    BY DEF n
  <2>3. 1..n \subseteq 1..Len(k)
    BY <1>1
  <2>4. SamePrefix(l, k, n)
    BY <1>1, <2>2, <2>3 DEF SamePrefix
  <2> QED BY <2>1, <2>4, FoldPrefix
<1>3. I \in SUBSET (1..Len(k)) /\ I # {} /\ I \ {n + 1} = 1..n /\ n + 1 \in I
  BY <1>1, IntervalEnd
<1>4. Max(I) = n + 1
  <2>1. I \subseteq 1..(n + 1) /\ n + 1 \in Nat
    BY <1>1
  <2> HIDE DEF I
  <2> QED BY <1>3, <2>1, MaxOfInterval
<1> HIDE DEF I
<1>5. jt[I] = step[<<jt[I \ {Max(I)}], k[Max(I)]>>]
  <2>1. IsFold(jt, base, step, k)
    BY DEF k
  <2> QED BY <1>3, <2>1 DEF IsFold
<1>6. jt[I] = step[<<jt[1..n], r>>]
  BY <1>1, <1>3, <1>4, <1>5
<1> QED BY <1>2, <1>6 DEF I, n

\* A step keeps a type; a function unfolds like the fold wherever its values are
\* of that type.
StaysIn(step, S, R) == \A x \in S : \A r \in R : step[<<x, r>>] \in S

Unfolds(jt, base, step, l, S) ==
  /\ jt[{}] = base
  /\ \A s \in SUBSET (1..Len(l)) :
       s # {} /\ jt[s \ {Max(s)}] \in S => jt[s] = step[<<jt[s \ {Max(s)}], l[Max(s)]>>]

\* Whatever unfolds like the fold ends where the fold ends.
LEMMA FoldUnique ==
  ASSUME NEW S, NEW R, NEW base \in S, NEW step, StaysIn(step, S, R), NEW l \in Seq(R),
         NEW it, IsFold(it, base, step, l), NEW jt, Unfolds(jt, base, step, l, S)
  PROVE  jt[1..Len(l)] = it[1..Len(l)] /\ jt[1..Len(l)] \in S
<1> DEFINE n == Len(l)
           G == {i \in 0..n : it[1..i] = jt[1..i] /\ jt[1..i] \in S}
<1>1. n \in Nat /\ \A i \in 1..n : l[i] \in R
  OBVIOUS
<1>2. 0 \in G
  <2>1. 1..0 = {} /\ {} \in SUBSET (1..n)
    OBVIOUS
  <2>2. it[{}] = base
    BY <2>1 DEF IsFold
  <2> QED BY <1>1, <2>1, <2>2 DEF Unfolds
<1>3. ASSUME NEW i \in 0..(n - 1), i \in G PROVE i + 1 \in G
  <2> DEFINE I == 1..(i + 1)
  <2>1. i \in Nat /\ i + 1 \in 0..n /\ i + 1 \in 1..n /\ I \in SUBSET (1..n)
    BY <1>1
  <2>2. I # {} /\ I \ {i + 1} = 1..i /\ i + 1 \in I
    BY <2>1, IntervalEnd
  <2>3. Max(I) = i + 1
    <3>1. I \subseteq 1..(i + 1) /\ i + 1 \in Nat
      BY <2>1
    <3> HIDE DEF I
    <3> QED BY <2>2, <3>1, MaxOfInterval
  <2> HIDE DEF I
  <2>4. it[1..i] = jt[1..i] /\ jt[1..i] \in S
    BY <1>3
  <2>5. it[I] = step[<<it[1..i], l[i + 1]>>]
    BY <2>1, <2>2, <2>3 DEF IsFold
  <2>6. jt[I] = step[<<jt[1..i], l[i + 1]>>]
    BY <2>1, <2>2, <2>3, <2>4 DEF Unfolds
  <2>7. jt[I] \in S
    <3>1. l[i + 1] \in R
      BY <1>1, <2>1
    <3> QED BY <2>4, <2>6, <3>1 DEF StaysIn
  <2>8. it[1..(i + 1)] = jt[1..(i + 1)] /\ jt[1..(i + 1)] \in S
    BY <2>4, <2>5, <2>6, <2>7 DEF I
  <2> QED BY <2>1, <2>8
<1>4. \A i \in 0..(n - 1) : i \in G => i + 1 \in G
  <2> HIDE DEF G
  <2> QED BY <1>3
<1>5. n \in G
  <2> HIDE DEF G
  <2>1. \A i \in 0..n : i \in G
    BY <1>1, <1>2, <1>4, InductionTo
  <2> QED BY <1>1, <2>1
<1> QED BY <1>5

-----------------------------------------------------------------------------
(* Sums over finite sets.                                                  *)

Chosen(s) == CHOOSE x \in s : TRUE

\* What MapThenSumSet builds on the way: the sum of every subset.
IsSum(it, w, T) ==
  it = [s \in SUBSET T |-> IF s = {} THEN 0 ELSE w[Chosen(s)] + it[s \ {Chosen(s)}]]

\* A summand that is a number for every element, of a set that is finite.
Summable(w, T) == IsFiniteSet(T) /\ \A x \in T : w[x] \in Nat

Sum(w, T) == (CHOOSE it : IsSum(it, w, T))[T]

\* An element is chosen, and the rest is smaller by one.
LEMMA ChosenRest ==
  ASSUME NEW T, IsFiniteSet(T), NEW s \in SUBSET T, s # {}
  PROVE  /\ Chosen(s) \in s
         /\ \A y \in s : /\ s \ {y} \in SUBSET T
                         /\ Cardinality(s) \in Nat \ {0}
                         /\ Cardinality(s \ {y}) = Cardinality(s) - 1
<1>1. Chosen(s) \in s
  BY DEF Chosen
<1>2. IsFiniteSet(s)
  BY FS_Subset
<1>3. Cardinality(s) \in Nat /\ Cardinality(s) # 0
  BY <1>2, FS_CardinalityType, FS_EmptySet
<1>4. \A y \in s : Cardinality(s \ {y}) = Cardinality(s) - 1
  BY <1>2, FS_RemoveElement
<1> QED BY <1>1, <1>3, <1>4

\* Every subset has a size within the whole's.
LEMMA SubsetSize ==
  ASSUME NEW T, IsFiniteSet(T), NEW s \in SUBSET T
  PROVE  /\ Cardinality(T) \in Nat /\ Cardinality(s) \in 0..Cardinality(T)
         /\ (Cardinality(s) = 0 <=> s = {})
<1>1. IsFiniteSet(s) /\ Cardinality(s) <= Cardinality(T)
  BY FS_Subset
<1>2. Cardinality(T) \in Nat /\ Cardinality(s) \in Nat
  BY <1>1, FS_CardinalityType
<1>3. Cardinality(s) = 0 <=> s = {}
  BY <1>1, FS_EmptySet
<1> QED BY <1>1, <1>2, <1>3

\* The sums of a finite set exist.
LEMMA SumExists ==
  ASSUME NEW T, NEW w, Summable(w, T)
  PROVE  \E it \in [SUBSET T -> Nat] : IsSum(it, w, T)
<1> DEFINE N == Cardinality(T)
           F(n) == {s \in SUBSET T : Cardinality(s) <= n}
           Good(it, n) == \A s \in F(n) :
             it[s] = IF s = {} THEN 0 ELSE w[Chosen(s)] + it[s \ {Chosen(s)}]
           G == {n \in 0..N : \E it \in [F(n) -> Nat] : Good(it, n)}
<1>1. IsFiniteSet(T) /\ N \in Nat /\ \A x \in T : w[x] \in Nat
  BY FS_CardinalityType DEF Summable
<1>2. \A s \in SUBSET T : Cardinality(s) \in 0..N /\ (Cardinality(s) = 0 <=> s = {})
  BY <1>1, SubsetSize
<1>3. \A s \in SUBSET T : s # {} => /\ Chosen(s) \in s /\ s \ {Chosen(s)} \in SUBSET T
                                    /\ Cardinality(s \ {Chosen(s)}) = Cardinality(s) - 1
  BY <1>1, ChosenRest
<1> HIDE DEF N
<1>4. 0 \in G
  <2> DEFINE it == [s \in F(0) |-> 0]
  <2>1. it \in [F(0) -> Nat]
    OBVIOUS
  <2>2. \A s \in F(0) : s = {}
    BY <1>1, <1>2
  <2>3. Good(it, 0)
    BY <2>2
  <2>4. \E z \in [F(0) -> Nat] : Good(z, 0)
    <3> HIDE DEF it, Good, F
    <3> QED BY <2>1, <2>3
  <2>5. 0 \in 0..N
    BY <1>1
  <2> HIDE DEF F, Good
  <2> QED BY <2>4, <2>5
<1>5. ASSUME NEW n \in 0..(N - 1), n \in G PROVE n + 1 \in G
  <2>1. PICK old \in [F(n) -> Nat] : Good(old, n)
    BY <1>5
  <2>2. n \in Nat /\ n + 1 \in 0..N
    BY <1>1
  <2> DEFINE it == [s \in F(n + 1) |->
                      IF s \in F(n) THEN old[s] ELSE w[Chosen(s)] + old[s \ {Chosen(s)}]]
  <2>3. \A s \in F(n + 1) : s # {} => s \ {Chosen(s)} \in F(n) /\ Chosen(s) \in T
    <3> SUFFICES ASSUME NEW s \in F(n + 1), s # {} PROVE s \ {Chosen(s)} \in F(n) /\ Chosen(s) \in T
      OBVIOUS
    <3>1. Cardinality(s) \in 0..N /\ Cardinality(s) <= n + 1
      BY <1>2
    <3>2. Chosen(s) \in s /\ s \ {Chosen(s)} \in SUBSET T
          /\ Cardinality(s \ {Chosen(s)}) = Cardinality(s) - 1
      BY <1>3
    <3>3. Cardinality(s) - 1 <= n
      BY <1>1, <2>2, <3>1
    <3> QED BY <3>2, <3>3
  <2>4. \A s \in F(n) : s \in F(n + 1) /\ (s # {} => s \ {Chosen(s)} \in F(n))
    <3> SUFFICES ASSUME NEW s \in F(n) PROVE s \in F(n + 1)
      BY <2>3
    <3>1. Cardinality(s) \in 0..N /\ Cardinality(s) <= n
      BY <1>2
    <3>2. Cardinality(s) <= n + 1
      BY <1>1, <2>2, <3>1
    <3> QED BY <3>2
  <2>5. \A s \in F(n + 1) : s \notin F(n) => s # {}
    <3>1. {} \in F(n)
      BY <1>1, <1>2, <2>2
    <3> QED BY <3>1
  <2> HIDE DEF F
  <2>6. it \in [F(n + 1) -> Nat]
    <3>1. ASSUME NEW s \in F(n + 1) PROVE it[s] \in Nat
      <4>1. CASE s \in F(n)
        BY <4>1
      <4>2. CASE s \notin F(n)
        <5>1. w[Chosen(s)] \in Nat /\ old[s \ {Chosen(s)}] \in Nat
          BY <1>1, <2>3, <2>5, <4>2
        <5> QED BY <4>2, <5>1
      <4> QED BY <4>1, <4>2
    <3>2. it = [s \in F(n + 1) |-> it[s]]
      OBVIOUS
    <3> HIDE DEF it
    <3> QED BY <3>1, <3>2
  <2>7. \A s \in F(n + 1) :
          it[s] = IF s = {} THEN 0 ELSE w[Chosen(s)] + it[s \ {Chosen(s)}]
    <3> SUFFICES ASSUME NEW s \in F(n + 1)
                 PROVE  it[s] = IF s = {} THEN 0 ELSE w[Chosen(s)] + it[s \ {Chosen(s)}]
      OBVIOUS
    <3>1. s # {} => it[s \ {Chosen(s)}] = old[s \ {Chosen(s)}]
      BY <2>3, <2>4
    <3>2. CASE s \in F(n)
      <4>1. old[s] = IF s = {} THEN 0 ELSE w[Chosen(s)] + old[s \ {Chosen(s)}]
        BY <2>1, <3>2
      <4>2. it[s] = old[s]
        BY <3>2
      <4> HIDE DEF it
      <4> QED BY <3>1, <4>1, <4>2
    <3>3. CASE s \notin F(n)
      <4>1. it[s] = w[Chosen(s)] + old[s \ {Chosen(s)}]
        BY <3>3
      <4> HIDE DEF it
      <4> QED BY <2>5, <3>1, <3>3, <4>1
    <3> QED BY <3>2, <3>3
  <2>8. \E z \in [F(n + 1) -> Nat] : Good(z, n + 1)
    <3>1. Good(it, n + 1)
      BY <2>7
    <3> HIDE DEF it, Good
    <3> QED BY <2>6, <3>1
  <2> HIDE DEF Good
  <2> QED BY <2>2, <2>8
<1>6. N \in G
  <2>1. \A i \in 0..(N - 1) : i \in G => i + 1 \in G
    <3> HIDE DEF G
    <3> QED BY <1>5
  <2> HIDE DEF G
  <2>2. \A i \in 0..N : i \in G
    BY <1>1, <1>4, <2>1, InductionTo
  <2> QED BY <1>1, <2>2
<1>7. PICK it \in [F(N) -> Nat] : Good(it, N)
  BY <1>6
<1>8. F(N) = SUBSET T
  <2>1. \A s \in SUBSET T : s \in F(N)
    BY <1>1, <1>2
  <2> QED BY <2>1
<1>9. it \in [SUBSET T -> Nat]
      /\ \A s \in SUBSET T : it[s] = IF s = {} THEN 0 ELSE w[Chosen(s)] + it[s \ {Chosen(s)}]
  BY <1>7, <1>8
<1>10. it = [s \in SUBSET T |-> it[s]]
  BY <1>9
<1>11. it = [s \in SUBSET T |-> IF s = {} THEN 0 ELSE w[Chosen(s)] + it[s \ {Chosen(s)}]]
  BY <1>9, <1>10
<1> QED BY <1>9, <1>11 DEF IsSum

\* The sums as they unfold, by size: every set that is not empty splits at an
\* element of its own.
LEMMA SumUnfold ==
  ASSUME NEW T, NEW w, NEW it, IsSum(it, w, T), NEW s \in SUBSET T
  PROVE  it[s] = IF s = {} THEN 0 ELSE w[Chosen(s)] + it[s \ {Chosen(s)}]
BY DEF IsSum

\* The sums of a set's subsets are the sums of the subsets.
LEMMA SumRestricts ==
  ASSUME NEW T, NEW w, NEW it, IsSum(it, w, T), NEW u \in SUBSET T
  PROVE  IsSum([s \in SUBSET u |-> it[s]], w, u)
<1> DEFINE jt == [s \in SUBSET u |-> it[s]]
<1>1. ASSUME NEW s \in SUBSET u
      PROVE  jt[s] = IF s = {} THEN 0 ELSE w[Chosen(s)] + jt[s \ {Chosen(s)}]
  <2>1. it[s] = IF s = {} THEN 0 ELSE w[Chosen(s)] + it[s \ {Chosen(s)}]
    BY SumUnfold
  <2>2. jt[s] = it[s] /\ jt[s \ {Chosen(s)}] = it[s \ {Chosen(s)}]
    OBVIOUS
  <2> HIDE DEF jt
  <2> QED BY <2>1, <2>2
<1>2. jt = [s \in SUBSET u |-> jt[s]]
  OBVIOUS
<1> HIDE DEF jt
<1>3. jt = [s \in SUBSET u |-> IF s = {} THEN 0 ELSE w[Chosen(s)] + jt[s \ {Chosen(s)}]]
  BY <1>1, <1>2
<1>4. IsSum(jt, w, u)
  BY <1>3 DEF IsSum
<1> QED BY <1>4 DEF jt

\* No summand greater, no sum greater.
LEMMA SumLess ==
  ASSUME NEW T, NEW w, NEW v, Summable(w, T), Summable(v, T), \A x \in T : w[x] <= v[x],
         NEW it, NEW jt, IsSum(it, w, T), IsSum(jt, v, T)
  PROVE  it[T] \in Nat /\ jt[T] \in Nat /\ it[T] <= jt[T]
<1> DEFINE N == Cardinality(T)
           Fine(s) == it[s] \in Nat /\ jt[s] \in Nat /\ it[s] <= jt[s]
           G == {n \in 0..N : \A s \in SUBSET T : Cardinality(s) = n => Fine(s)}
<1>1. IsFiniteSet(T) /\ N \in Nat /\ \A x \in T : w[x] \in Nat /\ v[x] \in Nat
  BY FS_CardinalityType DEF Summable
<1>2. \A s \in SUBSET T : Cardinality(s) \in 0..N /\ (Cardinality(s) = 0 <=> s = {})
  BY <1>1, SubsetSize
<1> HIDE DEF N
<1>3. 0 \in G
  <2>1. it[{}] = 0 /\ jt[{}] = 0
    BY SumUnfold
  <2> QED BY <1>1, <1>2, <2>1
<1>4. ASSUME NEW n \in 0..(N - 1), n \in G PROVE n + 1 \in G
  <2>1. n + 1 \in 0..N /\ n \in Nat
    BY <1>1
  <2>2. ASSUME NEW s \in SUBSET T, Cardinality(s) = n + 1 PROVE Fine(s)
    <3> DEFINE x == Chosen(s)
               u == s \ {x}
    <3>1. s # {}
      BY <1>2, <2>1, <2>2
    <3>2. x \in s /\ u \in SUBSET T /\ Cardinality(u) = n
      BY <1>1, <2>1, <2>2, <3>1, ChosenRest
    <3>3. Fine(u)
      BY <1>4, <3>2
    <3>4. it[s] = w[x] + it[u] /\ jt[s] = v[x] + jt[u]
      <4>1. it[s] = IF s = {} THEN 0 ELSE w[Chosen(s)] + it[s \ {Chosen(s)}]
        BY SumUnfold
      <4>2. jt[s] = IF s = {} THEN 0 ELSE v[Chosen(s)] + jt[s \ {Chosen(s)}]
        BY SumUnfold
      <4> QED BY <3>1, <4>1, <4>2
    <3>5. w[x] \in Nat /\ v[x] \in Nat /\ w[x] <= v[x]
      BY <1>1, <3>2
    <3> HIDE DEF x, u
    <3> QED BY <3>3, <3>4, <3>5
  <2> HIDE DEF Fine
  <2> QED BY <2>1, <2>2
<1>5. N \in G
  <2>1. \A i \in 0..(N - 1) : i \in G => i + 1 \in G
    <3> HIDE DEF G
    <3> QED BY <1>4
  <2> HIDE DEF G
  <2>2. \A i \in 0..N : i \in G
    BY <1>1, <1>3, <2>1, InductionTo
  <2> QED BY <1>1, <2>2
<1>6. Cardinality(T) = N
  BY DEF N
<1> QED BY <1>5, <1>6

\* Every subset of a summable set is summable.
LEMMA SummableSubset ==
  ASSUME NEW T, NEW w, Summable(w, T), NEW u \in SUBSET T
  PROVE  Summable(w, u)
BY FS_Subset DEF Summable

\* The sum of every subset is a number.
LEMMA SumNat ==
  ASSUME NEW T, NEW w, Summable(w, T), NEW it, IsSum(it, w, T), NEW u \in SUBSET T
  PROVE  it[u] \in Nat
<1> DEFINE jt == [s \in SUBSET u |-> it[s]]
<1>1. Summable(w, u)
  BY SummableSubset
<1>2. IsSum(jt, w, u)
  BY SumRestricts
<1>3. jt[u] = it[u]
  OBVIOUS
<1> HIDE DEF jt
<1>4. \A x \in u : w[x] <= w[x]
  BY <1>1 DEF Summable
<1>5. jt[u] \in Nat
  BY <1>1, <1>2, <1>4, SumLess
<1> QED BY <1>3, <1>5

\* One element less, whichever it is.
LEMMA SumWithout ==
  ASSUME NEW T, NEW w, Summable(w, T), NEW it, IsSum(it, w, T), NEW z \in T
  PROVE  it[T \ {z}] \in Nat /\ it[T] = it[T \ {z}] + w[z]
<1> DEFINE N == Cardinality(T)
           Splits(s) == it[s] \in Nat /\ \A y \in s : it[s] = it[s \ {y}] + w[y]
           G == {n \in 0..N : \A s \in SUBSET T : Cardinality(s) = n => Splits(s)}
<1>1. IsFiniteSet(T) /\ N \in Nat /\ \A x \in T : w[x] \in Nat
  BY FS_CardinalityType DEF Summable
<1>2. \A s \in SUBSET T : Cardinality(s) \in 0..N /\ (Cardinality(s) = 0 <=> s = {})
  BY <1>1, SubsetSize
<1> HIDE DEF N
<1>3. 0 \in G
  <2>1. it[{}] = 0
    BY SumUnfold
  <2> QED BY <1>1, <1>2, <2>1
<1>4. ASSUME NEW n \in 0..(N - 1), n \in G PROVE n + 1 \in G
  <2>1. n + 1 \in 0..N /\ n \in Nat
    BY <1>1
  <2>2. ASSUME NEW s \in SUBSET T, Cardinality(s) = n + 1 PROVE Splits(s)
    <3> DEFINE x == Chosen(s)
    <3>1. s # {}
      BY <1>2, <2>1, <2>2
    <3>2. x \in s /\ \A y \in s : s \ {y} \in SUBSET T /\ Cardinality(s \ {y}) = n
      BY <1>1, <2>1, <2>2, <3>1, ChosenRest
    <3>3. it[s] = it[s \ {x}] + w[x] /\ w[x] \in Nat /\ it[s \ {x}] \in Nat
      <4>1. it[s] = IF s = {} THEN 0 ELSE w[Chosen(s)] + it[s \ {Chosen(s)}]
        BY SumUnfold
      <4>2. w[x] \in Nat /\ Splits(s \ {x})
        BY <1>1, <1>4, <3>2
      <4>3. it[s] = w[x] + it[s \ {x}] /\ it[s \ {x}] \in Nat
        BY <3>1, <4>1, <4>2
      <4> HIDE DEF x
      <4> QED BY <4>2, <4>3
    <3> HIDE DEF x
    <3>4. ASSUME NEW y \in s PROVE it[s] = it[s \ {y}] + w[y]
      <4>1. CASE y = x
        BY <3>3, <4>1
      <4>2. CASE y # x
        <5>1. Splits(s \ {x}) /\ Splits(s \ {y}) /\ y \in s \ {x} /\ x \in s \ {y}
          BY <1>4, <3>2, <4>2
        <5>2. (s \ {x}) \ {y} = (s \ {y}) \ {x}
          OBVIOUS
        <5>3. /\ it[s \ {x}] = it[(s \ {x}) \ {y}] + w[y]
              /\ it[s \ {y}] = it[(s \ {x}) \ {y}] + w[x]
              /\ it[s \ {y}] \in Nat
          BY <5>1, <5>2
        <5>4. it[(s \ {x}) \ {y}] \in Nat
          <6>1. (s \ {x}) \ {y} \in SUBSET T
            OBVIOUS
          <6> QED BY <6>1, SumNat
        <5>5. w[x] \in Nat /\ w[y] \in Nat
          BY <1>1, <3>2
        <5> DEFINE rest == it[(s \ {x}) \ {y}]
        <5>6. /\ it[s \ {x}] = rest + w[y] /\ it[s \ {y}] = rest + w[x] /\ rest \in Nat
          BY <5>3, <5>4
        <5> HIDE DEF rest
        <5> QED BY <3>3, <5>5, <5>6
      <4> QED BY <4>1, <4>2
    <3>5. it[s] \in Nat
      BY SumNat
    <3> QED BY <3>4, <3>5
  <2> HIDE DEF Splits
  <2> QED BY <2>1, <2>2
<1>5. N \in G
  <2>1. \A i \in 0..(N - 1) : i \in G => i + 1 \in G
    <3> HIDE DEF G
    <3> QED BY <1>4
  <2> HIDE DEF G
  <2>2. \A i \in 0..N : i \in G
    BY <1>1, <1>3, <2>1, InductionTo
  <2> QED BY <1>1, <2>2
<1>6. Cardinality(T) = N
  BY DEF N
<1>7. it[T \ {z}] \in Nat
  <2>1. T \ {z} \in SUBSET T
    OBVIOUS
  <2> QED BY <2>1, SumNat
<1> QED BY <1>5, <1>6, <1>7

\* Whatever satisfies the recursion is the sum.
LEMMA SumIs ==
  ASSUME NEW T, NEW w, Summable(w, T), NEW it, IsSum(it, w, T)
  PROVE  it[T] = Sum(w, T) /\ Sum(w, T) \in Nat
<1> DEFINE jt == CHOOSE z : IsSum(z, w, T)
<1>1. IsSum(jt, w, T)
  BY SumExists
<1>2. Sum(w, T) = jt[T]
  BY DEF Sum
<1>3. \A x \in T : w[x] <= w[x]
  BY DEF Summable
<1> HIDE DEF jt
<1>4. it[T] \in Nat /\ jt[T] \in Nat /\ it[T] <= jt[T]
  BY <1>1, <1>3, SumLess
<1>5. jt[T] <= it[T]
  BY <1>1, <1>3, SumLess
<1> QED BY <1>2, <1>4, <1>5

\* A sum of numbers is a number.
LEMMA SumType ==
  ASSUME NEW T, NEW w, Summable(w, T)
  PROVE  Sum(w, T) \in Nat
BY SumExists, SumIs

\* Of nothing, zero.
LEMMA SumEmpty ==
  ASSUME NEW w
  PROVE  Sum(w, {}) = 0
<1>1. Summable(w, {})
  BY FS_EmptySet DEF Summable
<1>2. PICK it : IsSum(it, w, {})
  BY <1>1, SumExists
<1>3. it[{}] = 0
  BY <1>2, SumUnfold
<1>4. it[{}] = Sum(w, {})
  BY <1>1, <1>2, SumIs
<1> QED BY <1>3, <1>4

\* An element more adds its summand.
LEMMA SumRemove ==
  ASSUME NEW T, NEW w, Summable(w, T), NEW z \in T
  PROVE  Sum(w, T) = Sum(w, T \ {z}) + w[z] /\ Sum(w, T \ {z}) \in Nat
<1> DEFINE u == T \ {z}
<1>1. PICK it : IsSum(it, w, T)
  BY SumExists
<1>2. it[T] = Sum(w, T)
  BY <1>1, SumIs
<1>3. it[T] = it[u] + w[z]
  BY <1>1, SumWithout
<1> DEFINE jt == [s \in SUBSET u |-> it[s]]
<1>4. u \in SUBSET T /\ jt[u] = it[u]
  OBVIOUS
<1> HIDE DEF u
<1>5. IsSum(jt, w, u) /\ Summable(w, u)
  BY <1>1, <1>4, SumRestricts, SummableSubset
<1> HIDE DEF jt
<1>6. jt[u] = Sum(w, u) /\ Sum(w, u) \in Nat
  BY <1>5, SumIs
<1> QED BY <1>2, <1>3, <1>4, <1>6 DEF u

\* No summand greater, no sum greater.
LEMMA SumMonotone ==
  ASSUME NEW T, NEW w, NEW v, Summable(w, T), Summable(v, T), \A x \in T : w[x] <= v[x]
  PROVE  Sum(w, T) <= Sum(v, T)
<1>1. PICK it : IsSum(it, w, T)
  BY SumExists
<1>2. PICK jt : IsSum(jt, v, T)
  BY SumExists
<1>3. it[T] = Sum(w, T) /\ jt[T] = Sum(v, T)
  BY <1>1, <1>2, SumIs
<1>4. it[T] <= jt[T]
  BY <1>1, <1>2, SumLess
<1> QED BY <1>3, <1>4

\* The same summands, the same sum.
LEMMA SumSame ==
  ASSUME NEW T, NEW w, NEW v, Summable(w, T), \A x \in T : w[x] = v[x]
  PROVE  Sum(w, T) = Sum(v, T)
<1>1. Summable(v, T) /\ \A x \in T : w[x] <= v[x] /\ v[x] <= w[x]
  BY DEF Summable
<1>2. Sum(w, T) <= Sum(v, T) /\ Sum(v, T) <= Sum(w, T)
  BY <1>1, SumMonotone
<1>3. Sum(w, T) \in Nat /\ Sum(v, T) \in Nat
  BY <1>1, SumType
<1> QED BY <1>2, <1>3

\* A subset sums to no more.
LEMMA SumSubset ==
  ASSUME NEW T, NEW w, Summable(w, T), NEW u \in SUBSET T
  PROVE  Sum(w, u) <= Sum(w, T)
<1> DEFINE N == Cardinality(T)
           Bounds(s) == \A r \in SUBSET s : Sum(w, r) <= Sum(w, s)
           G == {n \in 0..N : \A s \in SUBSET T : Cardinality(s) = n => Bounds(s)}
<1>1. IsFiniteSet(T) /\ N \in Nat
  BY FS_CardinalityType DEF Summable
<1>2. \A s \in SUBSET T : Cardinality(s) \in 0..N /\ (Cardinality(s) = 0 <=> s = {})
  BY <1>1, SubsetSize
<1>3. \A s \in SUBSET T : Summable(w, s) /\ Sum(w, s) \in Nat
  BY SummableSubset, SumType
<1> HIDE DEF N
<1>4. 0 \in G
  <2>1. ASSUME NEW s \in SUBSET T, Cardinality(s) = 0, NEW r \in SUBSET s
        PROVE  Sum(w, r) <= Sum(w, s)
    <3>1. r = s
      BY <1>2, <2>1
    <3>2. Sum(w, s) \in Nat
      BY <1>3
    <3> QED BY <3>1, <3>2
  <2> QED BY <1>1, <2>1
<1>5. ASSUME NEW n \in 0..(N - 1), n \in G PROVE n + 1 \in G
  <2>1. n + 1 \in 0..N /\ n \in Nat
    BY <1>1
  <2>2. ASSUME NEW s \in SUBSET T, Cardinality(s) = n + 1, NEW r \in SUBSET s
        PROVE  Sum(w, r) <= Sum(w, s)
    <3>1. Sum(w, s) \in Nat /\ Sum(w, r) \in Nat
      BY <1>3
    <3>2. CASE r = s
      BY <3>1, <3>2
    <3>3. CASE r # s
      <4>1. PICK y \in s : y \notin r
        BY <3>3
      <4>2. s \ {y} \in SUBSET T /\ Cardinality(s \ {y}) = n
        BY <1>1, <2>1, <2>2, ChosenRest
      <4>3. Sum(w, r) <= Sum(w, s \ {y})
        BY <1>5, <4>1, <4>2
      <4>4. Sum(w, s) = Sum(w, s \ {y}) + w[y] /\ Sum(w, s \ {y}) \in Nat
        BY <1>3, SumRemove
      <4>5. w[y] \in Nat
        BY DEF Summable
      <4> QED BY <3>1, <4>3, <4>4, <4>5
    <3> QED BY <3>2, <3>3
  <2>3. \A s \in SUBSET T : Cardinality(s) = n + 1 => Bounds(s)
    BY <2>2
  <2> HIDE DEF Bounds
  <2> QED BY <2>1, <2>3
<1>6. N \in G
  <2>1. \A i \in 0..(N - 1) : i \in G => i + 1 \in G
    <3> HIDE DEF G
    <3> QED BY <1>5
  <2> HIDE DEF G
  <2>2. \A i \in 0..N : i \in G
    BY <1>1, <1>4, <2>1, InductionTo
  <2> QED BY <1>1, <2>2
<1>7. Cardinality(T) = N
  BY DEF N
<1> QED BY <1>6, <1>7

\* Induction over the subsets of a finite set, for the set G of those that have
\* the property.
LEMMA SubsetInduction ==
  ASSUME NEW T, IsFiniteSet(T), NEW G, {} \in G,
         \A u \in SUBSET T : \A z \in T \ u : u \in G => u \cup {z} \in G
  PROVE  T \in G
<1> DEFINE N == Cardinality(T)
           H == {n \in 0..N : \A s \in SUBSET T : Cardinality(s) = n => s \in G}
<1>1. N \in Nat
  BY FS_CardinalityType
<1>2. \A s \in SUBSET T : Cardinality(s) \in 0..N /\ (Cardinality(s) = 0 <=> s = {})
  BY SubsetSize
<1>3. 0 \in H
  BY <1>1, <1>2
<1>4. ASSUME NEW n \in 0..(N - 1), n \in H PROVE n + 1 \in H
  <2>1. n + 1 \in 0..N /\ n \in Nat
    BY <1>1
  <2>2. ASSUME NEW s \in SUBSET T, Cardinality(s) = n + 1 PROVE s \in G
    <3> DEFINE z == Chosen(s)
               u == s \ {z}
    <3>1. s # {}
      BY <1>2, <2>1, <2>2
    <3>2. z \in s /\ u \in SUBSET T /\ Cardinality(u) = n
      BY <2>1, <2>2, <3>1, ChosenRest
    <3>3. u \in G
      BY <1>4, <3>2
    <3>4. z \in T \ u /\ s = u \cup {z}
      BY <3>2
    <3> HIDE DEF u, z
    <3> QED BY <3>2, <3>3, <3>4
  <2> QED BY <2>1, <2>2
<1>5. N \in H
  <2>1. \A i \in 0..(N - 1) : i \in H => i + 1 \in H
    <3> HIDE DEF H, N
    <3> QED BY <1>4
  <2> HIDE DEF H, N
  <2>2. \A i \in 0..N : i \in H
    BY <1>1, <1>3, <2>1, InductionTo
  <2> QED BY <1>1, <2>2
<1> QED BY <1>5

\* One element more.
LEMMA SumAdd ==
  ASSUME NEW T, NEW w, Summable(w, T), NEW u \in SUBSET T, NEW z \in T \ u
  PROVE  Sum(w, u \cup {z}) = Sum(w, u) + w[z] /\ Sum(w, u) \in Nat /\ w[z] \in Nat
<1> DEFINE v == u \cup {z}
<1>1. v \in SUBSET T /\ z \in v /\ v \ {z} = u
  OBVIOUS
<1>2. Summable(w, v)
  BY <1>1, SummableSubset
<1> HIDE DEF v
<1>3. Sum(w, v) = Sum(w, v \ {z}) + w[z] /\ Sum(w, v \ {z}) \in Nat
  BY <1>1, <1>2, SumRemove
<1> QED BY <1>1, <1>3 DEF v, Summable

\* Two summands at once.
LEMMA SumPlus ==
  ASSUME NEW T, NEW w, NEW v, NEW y, Summable(w, T), Summable(v, T), \A x \in T : y[x] = w[x] + v[x]
  PROVE  Summable(y, T) /\ Sum(y, T) = Sum(w, T) + Sum(v, T)
<1>1. IsFiniteSet(T) /\ \A x \in T : w[x] \in Nat /\ v[x] \in Nat
  BY DEF Summable
<1>2. Summable(y, T)
  BY <1>1 DEF Summable
<1> DEFINE G == {u \in SUBSET T : Sum(y, u) = Sum(w, u) + Sum(v, u)}
<1>3. {} \in G
  BY SumEmpty
<1>4. \A u \in SUBSET T : \A z \in T \ u : u \in G => u \cup {z} \in G
  <2> SUFFICES ASSUME NEW u \in SUBSET T, NEW z \in T \ u, u \in G PROVE u \cup {z} \in G
    OBVIOUS
  <2>1. Sum(y, u \cup {z}) = Sum(y, u) + y[z]
    BY <1>2, SumAdd
  <2>2. Sum(w, u \cup {z}) = Sum(w, u) + w[z] /\ Sum(w, u) \in Nat /\ w[z] \in Nat
    BY SumAdd
  <2>3. Sum(v, u \cup {z}) = Sum(v, u) + v[z] /\ Sum(v, u) \in Nat /\ v[z] \in Nat
    BY SumAdd
  <2> QED BY <2>1, <2>2, <2>3
<1>5. T \in G
  <2> HIDE DEF G
  <2> QED BY <1>1, <1>3, <1>4, SubsetInduction
<1> QED BY <1>2, <1>5

\* What is nothing outside u is summed over u.
LEMMA SumOutside ==
  ASSUME NEW T, NEW w, Summable(w, T), NEW u \in SUBSET T, \A x \in T \ u : w[x] = 0
  PROVE  Sum(w, T) = Sum(w, u)
<1>1. IsFiniteSet(T)
  BY DEF Summable
<1> DEFINE D == T \ u
           G == {s \in SUBSET D : Sum(w, u \cup s) = Sum(w, u)}
<1>2. {} \in G
  <2>1. u \cup {} = u
    OBVIOUS
  <2> QED BY <2>1
<1>3. \A s \in SUBSET D : \A z \in D \ s : s \in G => s \cup {z} \in G
  <2> SUFFICES ASSUME NEW s \in SUBSET D, NEW z \in D \ s, s \in G PROVE s \cup {z} \in G
    OBVIOUS
  <2> DEFINE v == u \cup s
  <2>1. v \in SUBSET T /\ z \in T \ v /\ w[z] = 0 /\ u \cup (s \cup {z}) = v \cup {z}
    OBVIOUS
  <2>2. Sum(w, v) = Sum(w, u) /\ s \cup {z} \in SUBSET D
    OBVIOUS
  <2> HIDE DEF v, D
  <2>3. Sum(w, v \cup {z}) = Sum(w, v) + w[z] /\ Sum(w, v) \in Nat
    BY <2>1, SumAdd
  <2>4. Sum(w, u \cup (s \cup {z})) = Sum(w, u)
    BY <2>1, <2>2, <2>3
  <2> QED BY <2>2, <2>4
<1>4. D \in G
  <2>1. IsFiniteSet(D)
    BY <1>1, FS_Subset
  <2> HIDE DEF G, D
  <2> QED BY <1>2, <1>3, <2>1, SubsetInduction
<1>5. u \cup D = T
  OBVIOUS
<1> QED BY <1>4, <1>5

\* f names each of T by one of I, and v counts what w does.
Renames(f, w, T, v, I) ==
  /\ f \in [T -> I]
  /\ \A x \in T : \A y \in T : f[x] = f[y] => x = y
  /\ \A k \in I : \E x \in T : f[x] = k
  /\ \A x \in T : w[x] = v[f[x]] /\ w[x] \in Nat

\* The same summands under other names.
LEMMA SumRenamed ==
  ASSUME NEW T, IsFiniteSet(T), NEW I, NEW f, NEW w, NEW v, Renames(f, w, T, v, I)
  PROVE  Summable(v, I) /\ Sum(w, T) = Sum(v, I)
<1> DEFINE Img(u) == {f[x] : x \in u}
           G == {u \in SUBSET T : Sum(w, u) = Sum(v, Img(u))}
<1> USE DEF Renames
<1>1. Summable(w, T)
  BY DEF Summable
<1>2. Summable(v, I)
  <2> DEFINE g == [x \in T |-> f[x]]
  <2>1. IsFiniteSet({g[x] : x \in T})
    <3>1. DOMAIN g = T /\ g = [x \in T |-> g[x]]
      OBVIOUS
    <3> HIDE DEF g
    <3> QED BY <3>1, FiniteImage
  <2>2. {g[x] : x \in T} = I
    OBVIOUS
  <2>3. \A k \in I : v[k] \in Nat
    OBVIOUS
  <2> QED BY <2>1, <2>2, <2>3 DEF Summable
<1>3. {} \in G
  <2>1. Img({}) = {}
    OBVIOUS
  <2>2. Sum(w, {}) = Sum(v, {})
    BY SumEmpty
  <2> QED BY <2>1, <2>2
<1>4. \A u \in SUBSET T : \A z \in T \ u : u \in G => u \cup {z} \in G
  <2> SUFFICES ASSUME NEW u \in SUBSET T, NEW z \in T \ u, u \in G PROVE u \cup {z} \in G
    OBVIOUS
  <2> DEFINE J == Img(u)
             k == f[z]
  <2>1. J \in SUBSET I /\ k \in I \ J /\ Img(u \cup {z}) = J \cup {k}
    OBVIOUS
  <2>2. Sum(w, u) = Sum(v, J) /\ w[z] = v[k] /\ u \cup {z} \in SUBSET T
    OBVIOUS
  <2> HIDE DEF J, k
  <2>3. Sum(w, u \cup {z}) = Sum(w, u) + w[z]
    BY <1>1, SumAdd
  <2>4. Sum(v, J \cup {k}) = Sum(v, J) + v[k]
    BY <1>2, <2>1, SumAdd
  <2>5. Sum(w, u \cup {z}) = Sum(v, Img(u \cup {z}))
    BY <2>1, <2>2, <2>3, <2>4
  <2> QED BY <2>2, <2>5
<1>5. T \in G
  <2> HIDE DEF G
  <2> QED BY <1>3, <1>4, SubsetInduction
<1>6. Img(T) = I
  OBVIOUS
<1> QED BY <1>2, <1>5, <1>6

-----------------------------------------------------------------------------
(* A sequence, of which the elements at some places are kept.              *)

\* A fold over the places of a sequence that keeps the elements at the places of K.
Places(l) == [i \in 1..Len(l) |-> i]

Compacting(l, K) ==
  CHOOSE it : it = [s \in SUBSET DOMAIN Places(l) |->
                      IF s = {} THEN <<>>
                      ELSE IF Places(l)[Max(s)] \in K THEN Append(it[s \ {Max(s)}], l[Places(l)[Max(s)]])
                      ELSE it[s \ {Max(s)}]]

CompactedOf(l, K) == Compacting(l, K)[DOMAIN Places(l)]

\* The compaction of every beginning of l, from the one before.
IsCompaction(out, l, K, R) ==
  /\ out \in [0..Len(l) -> Seq(R)]
  /\ out[0] = <<>>
  /\ \A n \in 0..(Len(l) - 1) : out[n + 1] = IF n + 1 \in K THEN Append(out[n], l[n + 1]) ELSE out[n]

\* It is built an element at a time.
LEMMA CompactionExists ==
  ASSUME NEW R, NEW l \in Seq(R), NEW K
  PROVE  \E out : IsCompaction(out, l, K, R) /\ CompactedOf(l, K) = out[Len(l)]
<1> DEFINE m == Len(l)
           ids == Places(l)
           S == Seq(R)
           I == 1..m
           P == SUBSET (1..m)
           step == [z \in S \X I |-> IF z[2] \in K THEN Append(z[1], l[z[2]]) ELSE z[1]]
           Next1(f, s) == IF s = {} THEN <<>>
                          ELSE IF ids[Max(s)] \in K THEN Append(f[s \ {Max(s)}], l[ids[Max(s)]])
                          ELSE f[s \ {Max(s)}]
           jt == Compacting(l, K)
<1>1. m \in Nat /\ \A i \in I : l[i] \in R
  OBVIOUS
<1>2. ids \in Seq(I) /\ Len(ids) = m /\ DOMAIN ids = 1..m /\ \A i \in I : ids[i] = i
  BY <1>1 DEF Places
<1>3. \A k \in S : \A i \in I : step[<<k, i>>] = IF i \in K THEN Append(k, l[i]) ELSE k
  OBVIOUS
<1>4. \A k \in S : \A i \in I : step[<<k, i>>] \in S
  <2>1. \A k \in S : \A i \in I : Append(k, l[i]) \in S
    BY <1>1
  <2> HIDE DEF S, I, step
  <2> QED BY <1>3, <2>1
<1>5. step \in [S \X I -> S] /\ <<>> \in S
  <2>1. \A z \in S \X I : step[z] \in S
    BY <1>4
  <2>2. step = [z \in S \X I |-> step[z]]
    OBVIOUS
  <2> HIDE DEF step
  <2> QED BY <2>1, <2>2
<1>0. jt = CHOOSE it : it = [s \in SUBSET DOMAIN ids |-> Next1(it, s)]
  BY DEF Compacting
<1> HIDE DEF S, step, jt, ids
<1>6. PICK it \in [SUBSET (1..Len(ids)) -> S] : IsFold(it, <<>>, step, ids)
  <2>1. \E it \in [SUBSET (1..Len(ids)) -> S] : IsFold(it, <<>>, step, ids)
    <3> DEFINE base == <<>>
    <3>1. base \in S /\ step \in [S \X I -> S] /\ ids \in Seq(I)
      BY <1>2, <1>5
    <3> HIDE DEF I, base, P, Next1
    <3>2. \E it \in [SUBSET (1..Len(ids)) -> S] : IsFold(it, base, step, ids)
      BY ONLY <3>1, FoldExists
    <3> QED BY <3>2 DEF base
  <2> QED BY <2>1
<1>7. \A s \in P : s # {} => s \ {Max(s)} \in P /\ Max(s) \in I
  <2>1. ASSUME NEW s \in P, s # {} PROVE Max(s) \in s
    BY <1>1, <2>1, MaxOfPlaces
  <2> QED BY <2>1
<1>8. \A s \in P : it[s] = IF s = {} THEN <<>> ELSE step[<<it[s \ {Max(s)}], ids[Max(s)]>>]
  BY <1>2, <1>6 DEF IsFold
<1>9. it = [s \in P |-> Next1(it, s)]
  <2>1. ASSUME NEW s \in P PROVE it[s] = Next1(it, s)
    <3>1. CASE s = {}
      BY <1>8, <3>1
    <3>2. CASE s # {}
      <4>1. s \ {Max(s)} \in P /\ Max(s) \in I
        BY <1>7, <3>2
      <4>2. it[s \ {Max(s)}] \in S
        BY <1>2, <1>6, <4>1
      <4>3. it[s] = step[<<it[s \ {Max(s)}], ids[Max(s)]>>]
        BY <1>8, <3>2
      <4>4. ids[Max(s)] = Max(s)
        BY <1>2, <4>1
      <4> HIDE DEF I
      <4> QED BY <1>3, <3>2, <4>1, <4>2, <4>3, <4>4
    <3> QED BY <3>1, <3>2
  <2>2. it = [s \in P |-> it[s]]
    BY <1>2, <1>6
  <2> HIDE DEF Next1
  <2> QED BY <2>1, <2>2
<1>10. jt = [s \in P |-> Next1(jt, s)]
  BY <1>0, <1>2, <1>9
<1>11. jt[1..m] = it[1..m]
  <2>1. jt[{}] = <<>>
    <3>1. {} \in P
      OBVIOUS
    <3>2. jt[{}] = Next1(jt, {})
      <4> HIDE DEF Next1, P
      <4> QED BY <1>10, <3>1
    <3> QED BY <3>2
  <2>2. ASSUME NEW s \in P, s # {}, jt[s \ {Max(s)}] \in S
        PROVE  jt[s] = step[<<jt[s \ {Max(s)}], ids[Max(s)]>>]
    <3>1. jt[s] = Next1(jt, s)
      <4> HIDE DEF Next1, P
      <4> QED BY <1>10
    <3>2. Max(s) \in I /\ ids[Max(s)] = Max(s)
      BY <1>2, <1>7, <2>2
    <3> HIDE DEF I
    <3> QED BY <1>3, <2>2, <3>1, <3>2
  <2>3. Unfolds(jt, <<>>, step, ids, S)
    BY <1>2, <2>1, <2>2 DEF Unfolds
  <2>4. StaysIn(step, S, I)
    BY <1>4 DEF StaysIn
  <2>5. IsFold(it, <<>>, step, ids)
    BY <1>6
  <2> HIDE DEF Next1, P, I
  <2>6. jt[1..Len(ids)] = it[1..Len(ids)]
    BY <1>2, <1>5, <2>3, <2>4, <2>5, FoldUnique
  <2> QED BY <1>2, <2>6
<1> DEFINE out == [n \in 0..m |-> it[1..n]]
<1>12. out \in [0..m -> S]
  <2>1. \A n \in 0..m : 1..n \in P
    BY <1>1
  <2> QED BY <1>2, <1>6, <2>1
<1>13. out[0] = <<>>
  <2>1. out[0] = it[1..0] /\ 1..0 = {} /\ {} \in P
    BY <1>1
  <2> QED BY <1>8, <2>1
<1>14. ASSUME NEW n \in 0..(m - 1)
       PROVE  out[n + 1] = IF n + 1 \in K THEN Append(out[n], l[n + 1]) ELSE out[n]
  <2>1. n \in Nat /\ n + 1 \in I /\ n \in 0..m /\ n + 1 \in 0..m /\ 1..(n + 1) \in P /\ 1..n \in P
    BY <1>1
  <2>2. 1..(n + 1) # {} /\ (1..(n + 1)) \ {n + 1} = 1..n
    BY <2>1, IntervalEnd
  <2>3. Max(1..(n + 1)) = n + 1
    <3> DEFINE k == n + 1
               s == 1..k
    <3>1. k \in Nat /\ s \subseteq 1..k /\ k \in s
      BY <2>1
    <3> HIDE DEF k, s
    <3>2. Max(s) = k
      BY <3>1, MaxOfInterval
    <3> QED BY <3>2 DEF k, s
  <2>4. it[1..(n + 1)] = step[<<it[1..n], n + 1>>]
    BY <1>2, <1>8, <2>1, <2>2, <2>3
  <2>5. it[1..n] \in S
    BY <1>2, <1>6, <2>1
  <2>6. step[<<it[1..n], n + 1>>] = IF n + 1 \in K THEN Append(it[1..n], l[n + 1]) ELSE it[1..n]
    <3> HIDE DEF I
    <3> QED BY <1>3, <2>1, <2>5
  <2>7. out[n] = it[1..n] /\ out[n + 1] = it[1..(n + 1)]
    BY <2>1
  <2> QED BY <2>4, <2>6, <2>7
<1>15. CompactedOf(l, K) = out[m]
  <2>1. CompactedOf(l, K) = jt[1..m]
    BY <1>2 DEF CompactedOf, jt, ids
  <2>2. out[m] = it[1..m]
    BY <1>1
  <2> QED BY <1>11, <2>1, <2>2
<1> HIDE DEF out
<1> QED BY <1>12, <1>13, <1>14, <1>15 DEF IsCompaction, S

\* Its elements are l's, and every one kept is there.
LEMMA CompactedRecords ==
  ASSUME NEW R, NEW l \in Seq(R), NEW K
  PROVE  LET k == CompactedOf(l, K) IN
         /\ k \in Seq(R)
         /\ \A j \in 1..Len(k) : \E i \in 1..Len(l) : k[j] = l[i]
         /\ \A i \in (1..Len(l)) \cap K : \E j \in 1..Len(k) : k[j] = l[i]
<1>1. PICK out : IsCompaction(out, l, K, R) /\ CompactedOf(l, K) = out[Len(l)]
  BY CompactionExists
<1> DEFINE m == Len(l)
           From(k) == \A j \in 1..Len(k) : \E i \in 1..m : k[j] = l[i]
           Holds(k, n) == \A i \in 1..n : i \in K => \E j \in 1..Len(k) : k[j] = l[i]
           G == {n \in 0..m : From(out[n]) /\ Holds(out[n], n)}
<1>2. m \in Nat /\ \A n \in 0..m : out[n] \in Seq(R)
  BY <1>1 DEF IsCompaction
<1>3. 0 \in G
  <2>1. out[0] = <<>>
    BY <1>1 DEF IsCompaction
  <2> QED BY <1>2, <2>1
<1>4. ASSUME NEW n \in 0..(m - 1), n \in G PROVE n + 1 \in G
  <2>1. n \in 0..m /\ n + 1 \in 1..m /\ n + 1 \in 0..m /\ n \in Nat
    BY <1>2
  <2>2. out[n + 1] = IF n + 1 \in K THEN Append(out[n], l[n + 1]) ELSE out[n]
    BY <1>1 DEF IsCompaction
  <2>3. out[n] \in Seq(R) /\ From(out[n]) /\ Holds(out[n], n) /\ l[n + 1] \in R
    BY <1>2, <1>4, <2>1
  <2>4. CASE n + 1 \in K
    <3> DEFINE k == out[n]
               a == Append(k, l[n + 1])
    <3>1. /\ Len(a) = Len(k) + 1 /\ Len(k) \in Nat
          /\ \A j \in 1..Len(k) : a[j] = k[j]
          /\ a[Len(k) + 1] = l[n + 1]
      <4> HIDE DEF From, Holds
      <4> QED BY <2>3
    <3>2. out[n + 1] = a
      BY <2>2, <2>4
    <3> HIDE DEF k, a
    <3>3. From(k) /\ Holds(k, n)
      BY <2>3 DEF k
    <3>4. From(a)
      <4>1. \A j \in 1..Len(a) : j \in 1..Len(k) \/ j = Len(k) + 1
        BY <3>1
      <4> QED BY <2>1, <3>1, <3>3, <4>1
    <3>5. Holds(a, n + 1)
      <4>1. \A i \in 1..(n + 1) : i \in 1..n \/ i = n + 1
        BY <2>1
      <4>2. Len(k) + 1 \in 1..Len(a) /\ 1..Len(k) \subseteq 1..Len(a)
        BY <3>1
      <4> QED BY <3>1, <3>3, <4>1, <4>2
    <3> QED BY <2>1, <3>2, <3>4, <3>5
  <2>5. CASE n + 1 \notin K
    <3>1. \A i \in 1..(n + 1) : i \in 1..n \/ i = n + 1
      BY <2>1
    <3>2. out[n + 1] = out[n]
      BY <2>2, <2>5
    <3>3. Holds(out[n], n + 1)
      BY <2>3, <2>5, <3>1
    <3> HIDE DEF From, Holds
    <3> QED BY <2>1, <2>3, <3>2, <3>3
  <2> QED BY <2>4, <2>5
<1>5. m \in G
  <2>1. \A n \in 0..(m - 1) : n \in G => n + 1 \in G
    <3> HIDE DEF G
    <3> QED BY <1>4
  <2> HIDE DEF G
  <2>2. \A n \in 0..m : n \in G
    BY <1>2, <1>3, <2>1, InductionTo
  <2> QED BY <1>2, <2>2
<1>6. out[m] \in Seq(R) /\ From(out[m]) /\ Holds(out[m], m)
  BY <1>2, <1>5
<1> QED BY <1>1, <1>6
=============================================================================
