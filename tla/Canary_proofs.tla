--------------------------- MODULE Canary_proofs ---------------------------
(***************************************************************************)
(* Theorems about the live canary: its types, that its ledger forgets no   *)
(* transaction, that no nonce is in flight twice, that its losses are      *)
(* bounded, that its tripwire is truthful, and that no send goes past a    *)
(* halt.                                                                   *)
(***************************************************************************)
EXTENDS Canary, FoldLemmas

-----------------------------------------------------------------------------
(* Records, totals and the replay of a ledger.                             *)

Why == {"none", "unresolved", "unexplained", "loss_cap", "reverts", "refusals", "done", "tripwire"}

Totals == [lost : Nat, reverts : Nat, refusals : Nat, landed : Nat, halted : Why, open : SUBSET Tx]

EndKind == {"landed", "reverted", "refused", "unexplained"}
OutcomeKind == EndKind \cup {"silent", "unresolved"}

SentRecord == [kind : {"sent"}, tx : Tx]
OutcomeRecord == [kind : OutcomeKind, tx : Tx, loss : Nat]
HaltedRecord == [kind : {"halted"}, why : Why \ {"none"}]
CanaryRecord == SentRecord \cup OutcomeRecord \cup HaltedRecord \cup {ResetRecord}

\* What a record may be, by its kind.
LEMMA RecordKinds ==
  ASSUME NEW r \in CanaryRecord
  PROVE  /\ r.kind \in {"sent", "halted", "reset"} \cup OutcomeKind
         /\ r.kind = "sent" => r \in SentRecord
         /\ r.kind \in OutcomeKind => r \in OutcomeRecord
         /\ r.kind = "halted" => r \in HaltedRecord
         /\ r.kind = "reset" <=> r = ResetRecord
<1>1. CASE r \in SentRecord
  BY <1>1 DEF SentRecord, OutcomeKind, EndKind, ResetRecord
<1>2. CASE r \in OutcomeRecord
  BY <1>2 DEF OutcomeRecord, OutcomeKind, EndKind, ResetRecord
<1>3. CASE r \in HaltedRecord
  BY <1>3 DEF HaltedRecord, OutcomeKind, EndKind, ResetRecord
<1>4. CASE r = ResetRecord
  BY <1>4 DEF OutcomeKind, EndKind, ResetRecord
<1> QED BY <1>1, <1>2, <1>3, <1>4 DEF CanaryRecord

\* A new state is one.
LEMMA NewStateType == NewState \in Totals
BY DEF NewState, Totals, Why

\* A record counts towards the totals: the types, what it does to the open
\* sends and to the losses, and that it halts nothing by itself.
LEMMA CountShape ==
  ASSUME NEW s \in Totals, NEW r \in SentRecord \cup OutcomeRecord
  PROVE  /\ Count(s, r) \in Totals
         /\ Count(s, r).halted = s.halted
         /\ Count(s, r).open = IF r.kind = "sent" THEN s.open \cup {r.tx}
                               ELSE IF r.kind \in EndKind THEN s.open \ {r.tx} ELSE s.open
         /\ Count(s, r).lost = IF r.kind \in {"landed", "reverted"} THEN s.lost + r.loss ELSE s.lost
<1>0. s = [lost |-> s.lost, reverts |-> s.reverts, refusals |-> s.refusals, landed |-> s.landed,
           halted |-> s.halted, open |-> s.open]
  BY DEF Totals
<1>1. r.tx \in Tx /\ r.kind \in {"sent"} \cup OutcomeKind /\ (r.kind \in OutcomeKind => r.loss \in Nat)
  BY DEF SentRecord, OutcomeRecord, OutcomeKind, EndKind
<1>2. CASE r.kind = "sent"
  BY <1>1, <1>2 DEF Count, Totals, EndKind
<1>3. CASE r.kind = "landed"
  <2>1. Count(s, r) = [s EXCEPT !.open = @ \ {r.tx}, !.landed = @ + 1,
                            !.lost = @ + r.loss, !.reverts = 0, !.refusals = 0]
    BY <1>3 DEF Count
  <2>2. Count(s, r) = [lost |-> s.lost + r.loss, reverts |-> 0, refusals |-> 0, landed |-> s.landed + 1,
                      halted |-> s.halted, open |-> s.open \ {r.tx}]
    BY <1>0, <2>1
  <2>3. /\ s.lost \in Nat /\ s.reverts \in Nat /\ s.refusals \in Nat /\ s.landed \in Nat
        /\ s.halted \in Why /\ s.open \ {r.tx} \in SUBSET Tx
    BY DEF Totals
  <2>4. r.loss \in Nat
    BY <1>1, <1>3 DEF OutcomeKind, EndKind
  <2>5. Count(s, r) \in Totals
    BY <2>2, <2>3, <2>4 DEF Totals
  <2> QED BY <1>3, <2>2, <2>5 DEF EndKind
<1>4. CASE r.kind = "reverted"
  <2>1. Count(s, r) = [s EXCEPT !.open = @ \ {r.tx}, !.lost = @ + r.loss,
                            !.reverts = @ + 1, !.refusals = 0]
    BY <1>4 DEF Count
  <2>2. Count(s, r) = [lost |-> s.lost + r.loss, reverts |-> s.reverts + 1, refusals |-> 0,
                      landed |-> s.landed, halted |-> s.halted, open |-> s.open \ {r.tx}]
    BY <1>0, <2>1
  <2>3. /\ s.lost \in Nat /\ s.reverts \in Nat /\ s.refusals \in Nat /\ s.landed \in Nat
        /\ s.halted \in Why /\ s.open \ {r.tx} \in SUBSET Tx
    BY DEF Totals
  <2>4. r.loss \in Nat
    BY <1>1, <1>4 DEF OutcomeKind, EndKind
  <2>5. Count(s, r) \in Totals
    BY <2>2, <2>3, <2>4 DEF Totals
  <2> QED BY <1>4, <2>2, <2>5 DEF EndKind
<1>5. CASE r.kind = "refused"
  <2>1. Count(s, r) = [s EXCEPT !.open = @ \ {r.tx}, !.refusals = @ + 1]
    BY <1>5 DEF Count
  <2>2. Count(s, r) = [lost |-> s.lost, reverts |-> s.reverts, refusals |-> s.refusals + 1,
                      landed |-> s.landed, halted |-> s.halted, open |-> s.open \ {r.tx}]
    BY <1>0, <2>1
  <2>3. /\ s.lost \in Nat /\ s.reverts \in Nat /\ s.refusals \in Nat /\ s.landed \in Nat
        /\ s.halted \in Why /\ s.open \ {r.tx} \in SUBSET Tx
    BY DEF Totals
  <2>5. Count(s, r) \in Totals
    BY <2>2, <2>3 DEF Totals
  <2> QED BY <1>5, <2>2, <2>5 DEF EndKind
<1>6. CASE r.kind = "unexplained"
  BY <1>1, <1>6 DEF Count, Totals, EndKind, OutcomeKind
<1>7. CASE r.kind \in {"silent", "unresolved"}
  BY <1>1, <1>7 DEF Count, Totals, EndKind, OutcomeKind
<1> QED BY <1>1, <1>2, <1>3, <1>4, <1>5, <1>6, <1>7 DEF OutcomeKind, EndKind

\* A halt trips if none has, and touches nothing else.
LEMMA TripShape ==
  ASSUME NEW s \in Totals, NEW why \in Why
  PROVE  /\ Trip(s, why) \in Totals
         /\ Trip(s, why).halted = IF s.halted = "none" THEN why ELSE s.halted
         /\ Trip(s, why).open = s.open
         /\ Trip(s, why).lost = s.lost
BY DEF Trip, Totals

\* A cause is a reason to halt that no tripwire gives; a loss at its cap, an
\* answer that never came and an outcome nobody can explain always are one.
LEMMA CauseShape ==
  ASSUME NEW s, NEW r
  PROVE  /\ Cause(r, s) \in Why \ {"tripwire"}
         /\ s.lost >= LossCap \/ r.kind \in {"silent", "unresolved", "unexplained"}
              => Cause(r, s) # "none"
<1>1. CASE r.kind \in {"silent", "unresolved", "unexplained"}
  BY <1>1 DEF Cause, Why
<1>2. CASE r.kind \notin {"silent", "unresolved", "unexplained"}
  BY <1>2 DEF Cause, Why
<1> QED BY <1>1, <1>2

\* A record applied.
LEMMA ApplyShape ==
  ASSUME NEW s \in Totals, NEW r \in CanaryRecord
  PROVE  /\ Apply(s, r) \in Totals
         /\ Apply(s, r).open = IF r.kind = "sent" THEN s.open \cup {r.tx}
                               ELSE IF r.kind \in EndKind THEN s.open \ {r.tx} ELSE s.open
         /\ Apply(s, r).lost = IF r.kind = "reset" THEN 0
                               ELSE IF r.kind \in {"landed", "reverted"} THEN s.lost + r.loss
                               ELSE s.lost
         /\ Apply(s, r).lost >= LossCap => Apply(s, r).halted # "none"
         /\ r.kind \in {"silent", "unresolved", "unexplained"} => Apply(s, r).halted # "none"
         /\ Apply(s, r).halted = "tripwire" => s.halted = "tripwire" \/ r = Halted("tripwire")
         /\ r.kind # "reset" /\ s.halted # "none" => Apply(s, r).halted # "none"
<1>1. CASE r.kind = "halted"
  <2>1. r \in HaltedRecord
    BY <1>1, RecordKinds
  <2>2. r.why \in Why \ {"none"} /\ r = Halted(r.why)
    BY <2>1 DEF HaltedRecord, Halted
  <2>3. Apply(s, r) = [s EXCEPT !.halted = r.why]
    BY <1>1 DEF Apply
  <2>4. Apply(s, r) \in Totals /\ Apply(s, r).halted = r.why
        /\ Apply(s, r).open = s.open /\ Apply(s, r).lost = s.lost
    BY <2>2, <2>3 DEF Totals
  <2> QED BY <1>1, <2>2, <2>4 DEF EndKind
<1>2. CASE r.kind = "reset"
  <2>1. Apply(s, r) = [NewState EXCEPT !.open = s.open]
    BY <1>2 DEF Apply
  <2>2. Apply(s, r) = [lost |-> 0, reverts |-> 0, refusals |-> 0, landed |-> 0,
                       halted |-> "none", open |-> s.open]
    BY <2>1 DEF NewState
  <2>3. s.open \in SUBSET Tx
    BY DEF Totals
  <2>4. LossCap \in Nat \ {0}
    BY CanaryAssumption
  <2> QED BY <1>2, <2>2, <2>3, <2>4 DEF EndKind, Totals, Why
<1>3. CASE r.kind \notin {"halted", "reset"}
  <2>1. r \in SentRecord \cup OutcomeRecord
    BY <1>3, RecordKinds DEF OutcomeKind, EndKind
  <2> DEFINE c == Count(s, r)
  <2>2. Apply(s, r) = Trip(c, Cause(r, c))
    BY <1>3 DEF Apply
  <2>3. /\ c \in Totals /\ c.halted = s.halted
        /\ c.open = IF r.kind = "sent" THEN s.open \cup {r.tx}
                    ELSE IF r.kind \in EndKind THEN s.open \ {r.tx} ELSE s.open
        /\ c.lost = IF r.kind \in {"landed", "reverted"} THEN s.lost + r.loss ELSE s.lost
    BY <2>1, CountShape
  <2>4. /\ Cause(r, c) \in Why \ {"tripwire"}
        /\ c.lost >= LossCap \/ r.kind \in {"silent", "unresolved", "unexplained"}
             => Cause(r, c) # "none"
    BY CauseShape
  <2> HIDE DEF c
  <2>5. /\ Trip(c, Cause(r, c)) \in Totals
        /\ Trip(c, Cause(r, c)).halted = IF c.halted = "none" THEN Cause(r, c) ELSE c.halted
        /\ Trip(c, Cause(r, c)).open = c.open
        /\ Trip(c, Cause(r, c)).lost = c.lost
    BY <2>3, <2>4, TripShape
  <2> QED BY <1>3, <2>2, <2>3, <2>4, <2>5
<1> QED BY <1>1, <1>2, <1>3

\* Replay is the fold of Apply.
Step == [p \in Totals \X CanaryRecord |-> Apply(p[1], p[2])]

ReplayIter(l) ==
  CHOOSE it : it = [s \in SUBSET DOMAIN l |->
                      IF s = {} THEN NewState ELSE Apply(it[s \ {Max(s)}], l[Max(s)])]

\* By definition of the folds.
LEMMA ReplayByIter == \A l : Replay(l) = ReplayIter(l)[DOMAIN l]
BY DEF Replay, FoldLeft, MapThenFoldSet, ReplayIter

\* The replay is the end of a fold of Step.
LEMMA ReplayIsFold ==
  ASSUME NEW l \in Seq(CanaryRecord)
  PROVE  \E it : IsFold(it, NewState, Step, l) /\ Replay(l) = it[1..Len(l)]
<1> DEFINE n == Len(l)
           P == SUBSET (1..n)
           Next1(f, s) == IF s = {} THEN NewState ELSE Apply(f[s \ {Max(s)}], l[Max(s)])
<1>1. n \in Nat /\ DOMAIN l = 1..n /\ \A i \in 1..n : l[i] \in CanaryRecord
  OBVIOUS
<1>2. Step \in [Totals \X CanaryRecord -> Totals]
  BY ApplyShape DEF Step
<1>3. PICK it \in [P -> Totals] : IsFold(it, NewState, Step, l)
  BY <1>2, NewStateType, FoldExists
<1>4. it = [s \in P |-> Next1(it, s)]
  <2>1. ASSUME NEW s \in P PROVE it[s] = Next1(it, s)
    <3>1. CASE s = {}
      BY <1>3, <3>1 DEF IsFold
    <3>2. CASE s # {}
      <4>1. Max(s) \in s
        BY <1>1, <3>2, MaxOfPlaces
      <4>2. s \ {Max(s)} \in P /\ l[Max(s)] \in CanaryRecord
        BY <1>1, <4>1
      <4>3. it[s \ {Max(s)}] \in Totals
        BY <1>3, <4>2
      <4>4. it[s] = Step[<<it[s \ {Max(s)}], l[Max(s)]>>]
        BY <1>3, <3>2 DEF IsFold
      <4>5. Step[<<it[s \ {Max(s)}], l[Max(s)]>>] = Apply(it[s \ {Max(s)}], l[Max(s)])
        BY <4>2, <4>3 DEF Step
      <4> QED BY <3>2, <4>4, <4>5
    <3> QED BY <3>1, <3>2
  <2>2. it = [s \in P |-> it[s]]
    BY <1>3
  <2> HIDE DEF Next1
  <2> QED BY <2>1, <2>2
<1> DEFINE jt == ReplayIter(l)
<1>5. jt = [s \in P |-> Next1(jt, s)]
  BY <1>1, <1>4 DEF ReplayIter
<1> DEFINE G == {i \in 0..n : it[1..i] = jt[1..i]}
<1> HIDE DEF n, jt
<1>6. 0 \in G
  <2>1. 1..0 = {} /\ {} \in P
    OBVIOUS
  <2>2. it[{}] = NewState /\ jt[{}] = NewState
    BY <1>4, <1>5, <2>1
  <2> QED BY <1>1, <2>1, <2>2
<1>7. ASSUME NEW i \in 0..(n - 1), i \in G PROVE i + 1 \in G
  <2> DEFINE I == 1..(i + 1)
  <2>1. i \in Nat /\ i + 1 \in 0..n /\ i + 1 \in Nat /\ I \in P
    BY <1>1
  <2>2. I # {} /\ I \ {i + 1} = 1..i /\ i + 1 \in I
    BY <2>1, IntervalEnd
  <2>3. Max(I) = i + 1
    <3>1. I \subseteq 1..(i + 1)
      OBVIOUS
    <3> HIDE DEF I
    <3> QED BY <2>1, <2>2, <3>1, MaxOfInterval
  <2> HIDE DEF I, Next1
  <2>4. it[I] = Next1(it, I) /\ jt[I] = Next1(jt, I)
    BY <1>4, <1>5, <2>1
  <2>5. it[I] = Apply(it[1..i], l[i + 1]) /\ jt[I] = Apply(jt[1..i], l[i + 1])
    BY <2>2, <2>3, <2>4 DEF Next1
  <2>6. it[I] = jt[I]
    BY <1>7, <2>5
  <2> QED BY <2>1, <2>6 DEF I
<1>8. n \in G
  <2>1. \A i \in 0..(n - 1) : i \in G => i + 1 \in G
    <3> HIDE DEF G
    <3> QED BY <1>7
  <2> HIDE DEF G
  <2>2. \A i \in 0..n : i \in G
    BY <1>1, <1>6, <2>1, InductionTo
  <2> QED BY <1>1, <2>2
<1>9. Replay(l) = jt[1..n]
  BY <1>1, ReplayByIter DEF jt
<1> QED BY <1>3, <1>8, <1>9 DEF n

\* The replay of nothing, its type, and of one record more.
LEMMA ReplayEmpty == Replay(<<>>) = NewState
<1>1. PICK it : IsFold(it, NewState, Step, <<>>) /\ Replay(<<>>) = it[1..0]
  <2>1. <<>> \in Seq(CanaryRecord) /\ Len(<<>>) = 0
    OBVIOUS
  <2> QED BY <2>1, ReplayIsFold
<1>2. 1..0 = {}
  OBVIOUS
<1>3. it[{}] = NewState
  BY <1>1 DEF IsFold
<1> QED BY <1>1, <1>2, <1>3

LEMMA ReplayType ==
  ASSUME NEW l \in Seq(CanaryRecord)
  PROVE  Replay(l) \in Totals
<1>1. Step \in [Totals \X CanaryRecord -> Totals]
  BY ApplyShape DEF Step
<1>2. PICK it : IsFold(it, NewState, Step, l) /\ Replay(l) = it[1..Len(l)]
  BY ReplayIsFold
<1>3. it[1..Len(l)] \in Totals
  <2> HIDE DEF Step
  <2> QED BY <1>1, <1>2, NewStateType, FoldTyped
<1> QED BY <1>2, <1>3

LEMMA ReplayAppend ==
  ASSUME NEW l \in Seq(CanaryRecord), NEW r \in CanaryRecord
  PROVE  Replay(Append(l, r)) = Apply(Replay(l), r)
<1> DEFINE k == Append(l, r)
<1>1. Step \in [Totals \X CanaryRecord -> Totals]
  BY ApplyShape DEF Step
<1>2. PICK it : IsFold(it, NewState, Step, l) /\ Replay(l) = it[1..Len(l)]
  BY ReplayIsFold
<1>3. k \in Seq(CanaryRecord) /\ Len(k) = Len(l) + 1
  OBVIOUS
<1>4. PICK jt : IsFold(jt, NewState, Step, k) /\ Replay(k) = jt[1..Len(k)]
  BY <1>3, ReplayIsFold
<1>5. jt[1..(Len(l) + 1)] = Step[<<it[1..Len(l)], r>>]
  <2>1. IsFold(it, NewState, Step, l) /\ IsFold(jt, NewState, Step, Append(l, r))
    BY <1>2, <1>4
  <2> HIDE DEF Step
  <2> QED BY <2>1, FoldAppend
<1>6. Step[<<Replay(l), r>>] = Apply(Replay(l), r)
  BY ReplayType DEF Step
<1> QED BY <1>2, <1>3, <1>4, <1>5, <1>6

-----------------------------------------------------------------------------
(* Types.                                                                  *)

Pc == {"idle", "signed", "clear", "written", "asked", "watched", "halting", "closing"}
Endings == {"none", "rejected", "unanswered", "landed", "reverted", "unexplained", "timeout",
            "unjournaled"}
Fates == {"none", "wire", "pending", "dead"} \cup Mined
Finding == {"none", "landed", "reverted", "failed"}
Lanes == [reserved : Nat \cup {Unset}, inFlight : SUBSET Nat, confirmed : Nat \cup {Unset}]

Strays == {<<>>} \cup {<<r>> : r \in CanaryRecord}
FileOk(end, stray) ==
  end \in {"clean", "ragged", "broken"} /\ stray \in Strays /\ (stray # <<>> => end = "ragged")

\* What is on disk.
Disks == {d \in [lines : Seq(CanaryRecord), end : {"clean", "ragged", "broken"}, stray : Strays] :
            FileOk(d.end, d.stray)}

FileType == file \in [end : {"clean", "ragged", "broken"}, stray : Strays] /\ FileOk(file.end, file.stray)
LedgerType ==
  /\ ledger \in Seq(CanaryRecord) /\ FileType /\ mem \in Totals
  /\ missed \subseteq Tx /\ lapsed \subseteq Tx /\ faults \in Nat
HeadType == sentCount \in Nat /\ bootNonce \in Nat \cup {Unset} /\ {tripping, shortBoot} \subseteq BOOLEAN
LoopType ==
  /\ send \in [pc : Pc, tx : Tx \cup {0}, ending : Endings]
  /\ send.pc # "idle" => send.tx \in Tx
  /\ lane \in Lanes
BootType ==
  /\ stage \in {"down", "resolving", "closing", "up"}
  /\ found \in [Tx -> Finding]
  /\ ticket \in [Tx -> {"none", "open", "landed", "reverted", "failed", "never_left"}]
ChainType ==
  /\ fate \in [Tx -> Fates]
  /\ nonceOf \in [Tx -> Nat \cup {Unset}]
  /\ mined \in Nat /\ foreign \in Nat
OperType == resets \in Nat /\ crashes \in Nat

\* A Halted record is written for a halt that is there.
HaltsOnCause == send.pc = "halting" \/ tripping => mem.halted # "none"

CanaryTypes ==
  LedgerType /\ HeadType /\ LoopType /\ BootType /\ ChainType /\ OperType /\ HaltsOnCause

\* What the run checks follows from it.
LEMMA TypesGiveTypeOK == CanaryTypes => TypeOK
<1> SUFFICES ASSUME CanaryTypes PROVE TypeOK
  OBVIOUS
<1>1. LedgerType /\ HeadType /\ LoopType /\ BootType /\ ChainType
  BY DEF CanaryTypes
<1>2. ASSUME NEW i \in 1..Len(ledger)
      PROVE  \/ ledger[i].kind \in {"sent", "landed", "reverted", "refused", "silent",
                                    "unresolved", "unexplained"} /\ ledger[i].tx \in Tx
             \/ ledger[i].kind = "halted" /\ ledger[i].why # "none"
             \/ ledger[i] = ResetRecord
  <2> DEFINE r == ledger[i]
  <2>1. r \in CanaryRecord
    BY <1>1 DEF LedgerType
  <2> HIDE DEF r
  <2>2. r \in SentRecord \/ r \in OutcomeRecord \/ r \in HaltedRecord \/ r = ResetRecord
    BY <2>1 DEF CanaryRecord
  <2>3. \/ r.kind \in {"sent", "landed", "reverted", "refused", "silent",
                       "unresolved", "unexplained"} /\ r.tx \in Tx
        \/ r.kind = "halted" /\ r.why # "none"
        \/ r = ResetRecord
    BY <2>2 DEF SentRecord, OutcomeRecord, HaltedRecord, OutcomeKind, EndKind
  <2> QED BY <2>3 DEF r
<1>3. mem.open \subseteq Tx /\ {mem.lost, mem.reverts, mem.refusals, mem.landed, sentCount} \subseteq Nat
  BY <1>1 DEF LedgerType, HeadType, Totals
<1>4. bootNonce \in Nat \cup {Unset} /\ missed \subseteq Tx
  BY <1>1 DEF LedgerType, HeadType
<1>5. send.pc \in {"idle", "signed", "clear", "written", "asked", "watched", "halting", "closing"}
  BY <1>1 DEF LoopType, Pc
<1>6. /\ stage \in {"down", "resolving", "closing", "up"}
      /\ ticket \in [Tx -> {"none", "open", "landed", "reverted", "failed", "never_left"}]
      /\ fate \in [Tx -> {"none", "wire", "pending", "dead"} \cup Mined]
  BY <1>1 DEF BootType, ChainType, Fates
<1>7. /\ lapsed \subseteq Tx /\ file.end \in {"clean", "ragged", "broken"} /\ Len(file.stray) \in {0, 1}
      /\ file.stray # <<>> => file.end = "ragged"
  BY <1>1 DEF LedgerType, FileType, FileOk, Strays
<1> QED BY <1>2, <1>3, <1>4, <1>5, <1>6, <1>7 DEF TypeOK

\* The records the canary writes are records.
LEMMA RecordsAre ==
  ASSUME NEW t \in Tx
  PROVE  /\ Sent(t) \in SentRecord /\ Sent(t).kind = "sent" /\ Sent(t).tx = t
         /\ \A k \in OutcomeKind : /\ Outcome(t, k) \in OutcomeRecord /\ Outcome(t, k).kind = k
                                   /\ Outcome(t, k).tx = t /\ Outcome(t, k).loss = LossOf(fate[t])
         /\ Settled(t) \in {"landed", "reverted", "unexplained"}
         /\ LossOf(fate[t]) \in 0..2
<1>1. LossOf(fate[t]) \in 0..2
  BY DEF LossOf
<1>2. Sent(t) \in SentRecord /\ Sent(t).kind = "sent" /\ Sent(t).tx = t
  BY DEF Sent, SentRecord
<1>3. \A k \in OutcomeKind : /\ Outcome(t, k) \in OutcomeRecord /\ Outcome(t, k).kind = k
                             /\ Outcome(t, k).tx = t /\ Outcome(t, k).loss = LossOf(fate[t])
  BY <1>1 DEF Outcome, OutcomeRecord
<1>4. Settled(t) \in {"landed", "reverted", "unexplained"}
  BY DEF Settled
<1> QED BY <1>1, <1>2, <1>3, <1>4

LEMMA HaltedIs ==
  ASSUME NEW why \in Why \ {"none"}
  PROVE  Halted(why) \in CanaryRecord /\ Halted(why).kind = "halted" /\ Halted(why).why = why
BY DEF Halted, HaltedRecord, CanaryRecord

\* What an append makes of the file: it went in whole, its start only, or failed
\* somewhere.
LEMMA WholeIs ==
  ASSUME NEW d \in Disks, NEW r \in CanaryRecord
  PROVE  Whole(d, r) \in Disks /\ Whole(d, r).lines = Append(d.lines, r) /\ Whole(d, r).stray = <<>>
BY DEF Whole, Disks, FileOk, Strays

LEMMA CutIs ==
  ASSUME NEW d \in Disks, NEW rest \in Strays, rest # <<>> => d.end = "clean"
  PROVE  Cut(d, rest) \in Disks /\ Cut(d, rest).lines = d.lines /\ Cut(d, rest).stray = rest
BY DEF Cut, Disks, FileOk, Strays

LEMMA PartialIs ==
  ASSUME NEW d \in Disks, NEW r \in CanaryRecord, NEW e \in Partial(d, r)
  PROVE  /\ e \in Disks /\ e.lines \in {d.lines, Append(d.lines, r)}
         /\ e.stray \in {d.stray, <<>>, <<r>>}
<1>1. <<>> \in Strays /\ <<r>> \in Strays
  BY DEF Strays
<1>2. CASE e = d \/ e = Whole(d, r)
  BY <1>2, WholeIs
<1>3. CASE e = Cut(d, <<>>)
  BY <1>1, <1>3, CutIs
<1>4. CASE d.end = "clean" /\ e = Cut(d, <<r>>)
  BY <1>1, <1>4, CutIs
<1> QED BY <1>2, <1>3, <1>4 DEF Partial

LEMMA DiskIs ==
  ASSUME LedgerType
  PROVE  disk \in Disks /\ disk.lines = ledger /\ disk.stray = file.stray /\ disk.end = file.end
BY DEF LedgerType, FileType, disk, Disks

LEMMA BecomesIs ==
  ASSUME NEW d \in Disks, Becomes(d)
  PROVE  /\ ledger' = d.lines /\ ledger' \in Seq(CanaryRecord) /\ FileType'
         /\ file'.stray = d.stray /\ file'.end = d.end
BY DEF Becomes, Disks, FileType, FileOk

\* What a record that is taken, one that is not, and a halt's leave.
LEMMA RecordedIs ==
  ASSUME LedgerType, NEW r \in CanaryRecord, Recorded(r)
  PROVE  /\ ledger' = Append(ledger, r) /\ ledger' \in Seq(CanaryRecord) /\ FileType'
         /\ file'.stray = <<>> /\ mem' = Apply(mem, r) /\ UNCHANGED <<faults, missed, lapsed>>
<1>1. disk \in Disks /\ disk.lines = ledger
  BY DiskIs
<1> DEFINE d == Whole(disk, r)
<1>2. d \in Disks /\ d.lines = Append(ledger, r) /\ d.stray = <<>>
  BY <1>1, WholeIs
<1>3. Becomes(d) /\ mem' = Apply(mem, r) /\ UNCHANGED <<faults, missed, lapsed>>
  BY DEF Recorded
<1> HIDE DEF d
<1> QED BY <1>2, <1>3, BecomesIs

LEMMA UnrecordedIs ==
  ASSUME LedgerType, NEW r \in CanaryRecord, Unrecorded(r)
  PROVE  /\ ledger' \in {ledger, Append(ledger, r)} /\ ledger' \in Seq(CanaryRecord) /\ FileType'
         /\ file'.stray \in {file.stray, <<>>, <<r>>} /\ faults' = faults + 1
         /\ missed' = (IF r.kind = "sent" THEN missed ELSE missed \cup {r.tx})
         /\ UNCHANGED <<mem, lapsed>>
<1>1. disk \in Disks /\ disk.lines = ledger /\ disk.stray = file.stray
  BY DiskIs
<1>2. PICK d \in Partial(disk, r) : Becomes(d)
  BY DEF Unrecorded
<1>3. d \in Disks /\ d.lines \in {ledger, Append(ledger, r)} /\ d.stray \in {file.stray, <<>>, <<r>>}
  BY <1>1, PartialIs
<1>4. /\ faults' = faults + 1 /\ UNCHANGED <<mem, lapsed>>
      /\ missed' = (IF r.kind = "sent" THEN missed ELSE missed \cup {r.tx})
  BY DEF Unrecorded
<1> QED BY <1>2, <1>3, <1>4, BecomesIs

LEMMA WriteHaltShape ==
  ASSUME LedgerType, mem.halted # "none", WriteHalt
  PROVE  LET h == Halted(mem.halted) IN
         /\ h \in CanaryRecord /\ ledger' \in {ledger, Append(ledger, h)}
         /\ ledger' \in Seq(CanaryRecord) /\ FileType'
         /\ file'.stray \in {file.stray, <<>>, <<h>>}
         /\ faults' \in Nat /\ UNCHANGED <<missed, lapsed>>
<1> DEFINE h == Halted(mem.halted)
<1>1. h \in CanaryRecord
  BY HaltedIs DEF LedgerType, Totals
<1> HIDE DEF h
<1>2. disk \in Disks /\ disk.lines = ledger /\ disk.stray = file.stray
  BY DiskIs
<1>3. faults' \in Nat /\ UNCHANGED <<missed, lapsed>>
  BY DEF WriteHalt, LedgerType
<1>4. CASE Becomes(Whole(disk, h))
  <2>1. /\ Whole(disk, h) \in Disks /\ Whole(disk, h).lines = Append(ledger, h)
        /\ Whole(disk, h).stray = <<>>
    BY <1>1, <1>2, WholeIs
  <2> QED BY <1>1, <1>3, <1>4, <2>1, BecomesIs DEF h
<1>5. ASSUME NEW d \in Partial(disk, h), Becomes(d)
      PROVE  /\ ledger' \in {ledger, Append(ledger, h)} /\ ledger' \in Seq(CanaryRecord) /\ FileType'
             /\ file'.stray \in {file.stray, <<>>, <<h>>}
  <2>1. d \in Disks /\ d.lines \in {ledger, Append(ledger, h)} /\ d.stray \in {file.stray, <<>>, <<h>>}
    BY <1>1, <1>2, PartialIs
  <2> QED BY <1>5, <2>1, BecomesIs
<1> QED BY <1>1, <1>3, <1>4, <1>5 DEF WriteHalt, h

\* A record of a send or an outcome is appended and applied, or the append fails.
LEMMA RecordedTypes ==
  ASSUME LedgerType, NEW r \in CanaryRecord, Recorded(r)
  PROVE  LedgerType'
<1>1. Apply(mem, r) \in Totals
  BY ApplyShape DEF LedgerType
<1> QED BY <1>1, RecordedIs DEF LedgerType

LEMMA UnrecordedTypes ==
  ASSUME LedgerType, NEW r \in SentRecord \cup OutcomeRecord, Unrecorded(r)
  PROVE  LedgerType'
<1>1. r \in CanaryRecord /\ r.tx \in Tx
  BY DEF CanaryRecord, SentRecord, OutcomeRecord
<1>2. missed' \subseteq Tx /\ faults' \in Nat
  BY <1>1, UnrecordedIs DEF LedgerType
<1> QED BY <1>1, <1>2, UnrecordedIs DEF LedgerType

LEMMA WriteHaltTypes ==
  ASSUME LedgerType, mem.halted # "none", WriteHalt, UNCHANGED mem
  PROVE  LedgerType'
BY WriteHaltShape DEF LedgerType

-----------------------------------------------------------------------------
(* The chain's nonces.                                                     *)

\* The trader's pending nonce is one: among MaxTx + 1 nonces one has no
\* transaction in the mempool, and below the least of these all have.
LEMMA PendingExists ==
  ASSUME ChainType
  PROVE  /\ PendingNonce \in mined..(mined + MaxTx)
         /\ \A m \in mined..(PendingNonce - 1) : \E t \in Tx : fate[t] = "pending" /\ nonceOf[t] = m
         /\ \A t \in Tx : ~(fate[t] = "pending" /\ nonceOf[t] = PendingNonce)
<1> DEFINE S == mined..(mined + MaxTx)
           Takes(t, n) == fate[t] = "pending" /\ nonceOf[t] = n
           Free == {n \in S : \A t \in Tx : ~Takes(t, n)}
<1>1. mined \in Nat /\ MaxTx \in Nat
  BY CanaryAssumption DEF ChainType
<1>2. Free # {}
  <2> SUFFICES ASSUME Free = {} PROVE FALSE
    OBVIOUS
  <2>1. \A n \in S : \E t \in Tx : Takes(t, n)
    OBVIOUS
  <2> DEFINE f == [n \in S |-> CHOOSE t \in Tx : Takes(t, n)]
  <2>2. \A n \in S : f[n] \in Tx /\ Takes(f[n], n)
    <3> HIDE DEF Takes, S
    <3> QED BY <2>1
  <2>3. f \in [S -> Tx]
    BY <2>2
  <2>4. IsFiniteSet(S) /\ IsFiniteSet(Tx) /\ Cardinality(Tx) < Cardinality(S)
    <3>1. IsFiniteSet(S) /\ Cardinality(S) = MaxTx + 1
      <4>1. ~(mined > mined + MaxTx) /\ (mined + MaxTx) - mined + 1 = MaxTx + 1
        BY <1>1
      <4>2. mined \in Int /\ mined + MaxTx \in Int
        BY <1>1
      <4> QED BY <4>1, <4>2, FS_Interval
    <3>2. IsFiniteSet(Tx) /\ Cardinality(Tx) = MaxTx
      <4>1. 1 \in Int /\ MaxTx \in Int /\ (1 > MaxTx => MaxTx = 0) /\ MaxTx - 1 + 1 = MaxTx
        BY <1>1
      <4> QED BY <4>1, FS_Interval DEF Tx
    <3> QED BY <1>1, <3>1, <3>2
  <2> HIDE DEF f, S
  <2>5. PICK x, y \in S : x # y /\ f[x] = f[y]
    BY <2>3, <2>4, FS_PigeonHole
  <2> QED BY <2>2, <2>5
<1>3. Free \subseteq Nat
  BY <1>1
<1>4. PICK n \in Free : \A k \in Free : ~(<<k, n>> \in OpToRel(<, Nat))
  <2> HIDE DEF Free
  <2> QED BY <1>2, <1>3, NatLessThanWellFounded, WFMin
<1>5. \A k \in Free : ~(k < n)
  BY <1>3, <1>4 DEF OpToRel
<1>6. \A m \in mined..(n - 1) : \E t \in Tx : Takes(t, m)
  <2> SUFFICES ASSUME NEW m \in mined..(n - 1) PROVE \E t \in Tx : Takes(t, m)
    OBVIOUS
  <2>1. m \in S /\ m < n
    BY <1>1, <1>3
  <2>2. m \notin Free
    BY <1>5, <2>1
  <2> HIDE DEF Takes, S
  <2> QED BY <2>1, <2>2
<1>7. n \in S /\ \A t \in Tx : ~Takes(t, n)
  OBVIOUS
<1> QED BY <1>6, <1>7 DEF PendingNonce

\* What the node may say is a count no greater than the pending nonce.
LEMMA ViewsAre ==
  ASSUME ChainType
  PROVE  PendingNonce \in Nat /\ mined <= PendingNonce /\ \A n \in Views : n \in Nat /\ n <= PendingNonce
<1>1. PendingNonce \in mined..(mined + MaxTx) /\ mined \in Nat /\ MaxTx \in Nat
  BY PendingExists, CanaryAssumption DEF ChainType
<1>2. PendingNonce \in Nat /\ mined <= PendingNonce
  BY <1>1
<1> QED BY <1>2 DEF Views

\* The lane's operations keep its type.
LEMMA LaneOps ==
  ASSUME NEW ln \in Lanes
  PROVE  /\ \A p \in Nat : NextNonce(ln, p) \in Nat /\ Reserve(ln, p, 0) \in Lanes
         /\ \A n : Release(ln, n, TRUE) \in Lanes /\ Release(ln, n, FALSE) \in Lanes
<1>1. ASSUME NEW p \in Nat PROVE NextNonce(ln, p) \in Nat /\ Reserve(ln, p, 0) \in Lanes
  <2>1. NextNonce(ln, p) \in Nat
    BY DEF NextNonce, Lanes, Unset
  <2>2. Purged(ln, 0) \subseteq Nat
    BY DEF Purged, Lanes
  <2>3. NextNonce(ln, p) + 1 \in Nat
    BY <2>1
  <2> HIDE DEF NextNonce
  <2> QED BY <2>1, <2>2, <2>3 DEF Reserve, Lanes
<1>2. ASSUME NEW n PROVE Release(ln, n, TRUE) \in Lanes /\ Release(ln, n, FALSE) \in Lanes
  <2>1. n \in ln.inFlight => n \in Nat
    BY DEF Lanes
  <2>2. n \in ln.inFlight => ReleaseLanded(ln, n) \in Lanes
    BY <2>1 DEF ReleaseLanded, Lanes
  <2>3. n \in ln.inFlight => ReleaseFailed(ln, n) \in Lanes
    BY <2>1 DEF ReleaseFailed, Lanes
  <2> QED BY <2>2, <2>3 DEF Release
<1> QED BY <1>1, <1>2

-----------------------------------------------------------------------------
(* Types: one lemma per action.                                            *)

\* What a step leaves alone keeps its type.
LEMMA QuietTypes ==
  /\ LedgerType /\ UNCHANGED <<ledgerVars, mem>> => LedgerType'
  /\ HeadType /\ UNCHANGED <<sentCount, headVars>> => HeadType'
  /\ LoopType /\ UNCHANGED <<send, lane>> => LoopType'
  /\ BootType /\ UNCHANGED <<bootVars, ticket>> => BootType'
  /\ ChainType /\ UNCHANGED <<chainVars, nonceOf>> => ChainType'
  /\ OperType /\ UNCHANGED operVars => OperType'
<1>1. LedgerType /\ UNCHANGED <<ledgerVars, mem>> => LedgerType'
  BY DEF LedgerType, FileType, ledgerVars
<1>2. HeadType /\ UNCHANGED <<sentCount, headVars>> => HeadType'
  BY DEF HeadType, headVars
<1>3. LoopType /\ UNCHANGED <<send, lane>> => LoopType'
  BY DEF LoopType
<1>4. BootType /\ UNCHANGED <<bootVars, ticket>> => BootType'
  BY DEF BootType, bootVars
<1>5. ChainType /\ UNCHANGED <<chainVars, nonceOf>> => ChainType'
  BY DEF ChainType, chainVars
<1>6. OperType /\ UNCHANGED operVars => OperType'
  BY DEF OperType, operVars
<1> QED BY <1>1, <1>2, <1>3, <1>4, <1>5, <1>6

\* The capture loop and the head task run in a process that is up.
OnlyWhenUp == stage # "up" => send = Idle /\ ~tripping /\ bootNonce = Unset

LEMMA OnlyWhenUpKept ==
  ASSUME OnlyWhenUp, [Next]_vars
  PROVE  OnlyWhenUp'
<1>1. ASSUME NEW t \in Tx, Admit(t) \/ CheckHold(t) \/ WriteAhead(t) \/ HandOff(t) \/ Answer(t)
                          \/ Observe(t) \/ RecordHalt(t) \/ Close(t)
      PROVE  OnlyWhenUp'
  <2>1. stage = "up" /\ UNCHANGED stage
    BY <1>1 DEF OnlyWhenUp, Admit, CheckHold, WriteAhead, HandOff, Answer, Observe, RecordHalt,
                Close, At, Idle, bootVars
  <2> QED BY <2>1 DEF OnlyWhenUp
<1>2. ASSUME HeadStep PROVE OnlyWhenUp'
  BY <1>2 DEF OnlyWhenUp, HeadStep, ReadNonce, RecordTripwire, bootVars
<1>3. ASSUME ChainStep \/ OperatorReset \/ UNCHANGED vars PROVE OnlyWhenUp'
  BY <1>3 DEF OnlyWhenUp, ChainStep, OperatorReset, vars, headVars, bootVars
<1>4. ASSUME Crash PROVE OnlyWhenUp'
  BY <1>4 DEF OnlyWhenUp, Crash
<1>5. ASSUME Open PROVE OnlyWhenUp'
  BY <1>5 DEF OnlyWhenUp, Open, headVars
<1>6. ASSUME BootCloses PROVE OnlyWhenUp'
  BY <1>6 DEF OnlyWhenUp, BootCloses, headVars
<1>7. ASSUME NEW t \in Tx, ResolveOpen(t) PROVE OnlyWhenUp'
  BY <1>7 DEF OnlyWhenUp, ResolveOpen, headVars
<1> QED BY <1>1, <1>2, <1>3, <1>4, <1>5, <1>6, <1>7 DEF Next, CaptureStep, Boot

\* The capture loop's place, when it moves on with a transaction.
LEMMA SendTypes ==
  ASSUME NEW t \in Tx
  PROVE  /\ \A pc \in Pc : Goes(pc, t) =>
              send' \in [pc : Pc, tx : Tx \cup {0}, ending : Endings] /\ send'.tx \in Tx /\ send'.pc = pc
         /\ \A e \in Endings : Ends(t, e) =>
              send' \in [pc : Pc, tx : Tx \cup {0}, ending : Endings] /\ send'.tx \in Tx
              /\ send'.pc = "closing"
BY DEF Goes, Ends, Pc, Endings

LEMMA AdmitTypes ==
  ASSUME CanaryTypes, NEW t \in Tx, Admit(t)
  PROVE  CanaryTypes'
<1> USE DEF CanaryTypes
<1>1. LedgerType' /\ HeadType' /\ OperType'
  BY QuietTypes DEF Admit
<1>2. PICK p \in Views : lane' = Reserve(lane, p, 0)
                         /\ nonceOf' = [nonceOf EXCEPT ![t] = NextNonce(lane, p)]
  BY DEF Admit
<1>3. p \in Nat
  BY ViewsAre
<1>4. lane' \in Lanes /\ NextNonce(lane, p) \in Nat
  BY <1>2, <1>3, LaneOps DEF LoopType
<1>5. LoopType'
  BY <1>4, SendTypes DEF Admit, LoopType, Pc
<1>6. nonceOf' \in [Tx -> Nat \cup {Unset}]
  BY <1>2, <1>4 DEF ChainType
<1>7. ChainType'
  BY <1>6 DEF ChainType, Admit, chainVars
<1>8. BootType'
  BY DEF BootType, Admit, bootVars
<1>9. HaltsOnCause'
  BY DEF HaltsOnCause, Admit, Goes, headVars
<1> QED BY <1>1, <1>5, <1>7, <1>8, <1>9

LEMMA CheckHoldTypes ==
  ASSUME CanaryTypes, NEW t \in Tx, CheckHold(t)
  PROVE  CanaryTypes'
<1> USE DEF CanaryTypes
<1>1. LedgerType' /\ HeadType' /\ OperType' /\ BootType' /\ ChainType'
  BY QuietTypes DEF CheckHold
<1>2. LoopType'
  BY SendTypes DEF CheckHold, LoopType, Pc, Endings
<1>3. HaltsOnCause'
  BY DEF HaltsOnCause, CheckHold, Goes, Ends, headVars
<1> QED BY <1>1, <1>2, <1>3

LEMMA WriteAheadTypes ==
  ASSUME CanaryTypes, NEW t \in Tx, WriteAhead(t)
  PROVE  CanaryTypes'
<1> USE DEF CanaryTypes
<1>1. OperType' /\ BootType' /\ ChainType' /\ UNCHANGED <<headVars, lane>>
  BY QuietTypes DEF WriteAhead
<1>2. Sent(t) \in SentRecord /\ Sent(t) \in CanaryRecord
  BY RecordsAre DEF CanaryRecord
<1>3. CASE Recorded(Sent(t)) /\ Goes("written", t) /\ sentCount' = sentCount + 1
  <2>1. LedgerType'
    BY <1>2, <1>3, RecordedTypes
  <2>2. LoopType'
    BY <1>1, <1>3, SendTypes DEF LoopType, Pc
  <2>3. HeadType'
    BY <1>1, <1>3 DEF HeadType, headVars
  <2>4. mem'.halted # "none" \/ mem.halted = "none"
    <3>1. mem' = Apply(mem, Sent(t)) /\ Sent(t).kind # "reset"
      BY <1>3 DEF Recorded, Sent
    <3> QED BY <1>2, <3>1, ApplyShape DEF LedgerType
  <2>5. HaltsOnCause'
    BY <1>1, <1>3, <2>4 DEF HaltsOnCause, Goes, headVars
  <2> QED BY <1>1, <2>1, <2>2, <2>3, <2>5
<1>4. CASE Unrecorded(Sent(t)) /\ Ends(t, "rejected") /\ UNCHANGED sentCount
  <2>1. LedgerType'
    BY <1>2, <1>4, UnrecordedTypes
  <2>2. LoopType'
    BY <1>1, <1>4, SendTypes DEF LoopType, Endings
  <2>3. HeadType'
    BY <1>1, <1>4 DEF HeadType, headVars
  <2>4. HaltsOnCause'
    BY <1>1, <1>4 DEF HaltsOnCause, Ends, Unrecorded, headVars
  <2> QED BY <1>1, <2>1, <2>2, <2>3, <2>4
<1> QED BY <1>3, <1>4 DEF WriteAhead

LEMMA HandOffTypes ==
  ASSUME CanaryTypes, NEW t \in Tx, HandOff(t)
  PROVE  CanaryTypes'
<1> USE DEF CanaryTypes
<1>1. LedgerType' /\ HeadType' /\ OperType' /\ BootType'
  BY QuietTypes DEF HandOff
<1>2. LoopType'
  BY SendTypes DEF HandOff, LoopType, Pc
<1>3. ChainType'
  BY DEF HandOff, ChainType, Fates
<1>4. HaltsOnCause'
  BY DEF HaltsOnCause, HandOff, Goes, headVars
<1> QED BY <1>1, <1>2, <1>3, <1>4

\* An outcome's record, or none: whichever halt it trips is one.
LEMMA SettleTypes ==
  ASSUME CanaryTypes, NEW t \in Tx, NEW kind \in OutcomeKind, NEW e \in Endings,
         Settle(t, kind, e), UNCHANGED <<lane, headVars>>
  PROVE  LedgerType' /\ LoopType' /\ HaltsOnCause'
<1> USE DEF CanaryTypes
<1>1. /\ Outcome(t, kind) \in OutcomeRecord /\ Outcome(t, kind) \in CanaryRecord
      /\ Outcome(t, kind).kind # "reset"
  BY RecordsAre DEF CanaryRecord, OutcomeKind, EndKind
<1>2. CASE /\ Recorded(Outcome(t, kind))
           /\ send' = [pc |-> IF mem'.halted # mem.halted THEN "halting" ELSE "closing",
                       tx |-> t, ending |-> e]
  <2>1. LedgerType'
    BY <1>1, <1>2, RecordedTypes
  <2>2. LoopType'
    BY <1>2 DEF LoopType, Pc
  <2>3. mem' = Apply(mem, Outcome(t, kind))
    BY <1>2 DEF Recorded
  <2>4. mem.halted # "none" => mem'.halted # "none"
    BY <1>1, <2>3, ApplyShape DEF LedgerType
  <2>5. send'.pc = "halting" => mem'.halted # mem.halted
    BY <1>2
  <2>6. HaltsOnCause'
    BY <2>4, <2>5 DEF HaltsOnCause, headVars
  <2> QED BY <2>1, <2>2, <2>6
<1>3. CASE Unrecorded(Outcome(t, kind)) /\ Ends(t, e)
  <2>1. LedgerType'
    BY <1>1, <1>3, UnrecordedTypes
  <2>2. LoopType'
    BY <1>3, SendTypes DEF LoopType
  <2>3. HaltsOnCause'
    BY <1>3 DEF HaltsOnCause, Unrecorded, Ends, headVars
  <2> QED BY <2>1, <2>2, <2>3
<1> QED BY <1>2, <1>3 DEF Settle

LEMMA AnswerTypes ==
  ASSUME CanaryTypes, NEW t \in Tx, Answer(t)
  PROVE  CanaryTypes'
<1> USE DEF CanaryTypes
<1>1. HeadType' /\ OperType' /\ BootType' /\ UNCHANGED <<lane, headVars, nonceOf, mined, foreign>>
  BY QuietTypes DEF Answer
<1>2. CASE Goes("watched", t) /\ UNCHANGED <<ledgerVars, mem, fate>>
  <2>1. LedgerType' /\ ChainType'
    BY <1>1, <1>2, QuietTypes DEF chainVars
  <2>2. LoopType'
    BY <1>1, <1>2, SendTypes DEF LoopType, Pc
  <2>3. HaltsOnCause'
    BY <1>1, <1>2 DEF HaltsOnCause, Goes, headVars
  <2> QED BY <1>1, <2>1, <2>2, <2>3
<1>3. CASE Settle(t, "refused", "rejected") /\ fate' = [fate EXCEPT ![t] = "dead"]
  <2>1. LedgerType' /\ LoopType' /\ HaltsOnCause'
    BY <1>1, <1>3, SettleTypes DEF OutcomeKind, EndKind, Endings
  <2>2. ChainType'
    BY <1>1, <1>3 DEF ChainType, Fates
  <2> QED BY <1>1, <2>1, <2>2
<1>4. CASE Settle(t, "silent", "unanswered") /\ UNCHANGED fate
  <2>1. LedgerType' /\ LoopType' /\ HaltsOnCause'
    BY <1>1, <1>4, SettleTypes DEF OutcomeKind, EndKind, Endings
  <2>2. ChainType'
    BY <1>1, <1>4, QuietTypes DEF chainVars
  <2> QED BY <1>1, <2>1, <2>2
<1> QED BY <1>2, <1>3, <1>4 DEF Answer

LEMMA ObserveTypes ==
  ASSUME CanaryTypes, NEW t \in Tx, Observe(t)
  PROVE  CanaryTypes'
<1> USE DEF CanaryTypes
<1>1. /\ HeadType' /\ OperType' /\ BootType' /\ ChainType'
      /\ UNCHANGED <<lane, headVars>>
  BY QuietTypes DEF Observe
<1>2. CASE Settle(t, Settled(t), Ending(t))
  <2>1. Settled(t) \in OutcomeKind /\ Ending(t) \in Endings
    BY RecordsAre DEF OutcomeKind, EndKind, Ending, Endings
  <2>2. LedgerType' /\ LoopType' /\ HaltsOnCause'
    BY <1>1, <1>2, <2>1, SettleTypes
  <2> QED BY <1>1, <2>2
<1>3. CASE Settle(t, "unresolved", "timeout")
  <2>1. LedgerType' /\ LoopType' /\ HaltsOnCause'
    BY <1>1, <1>3, SettleTypes DEF OutcomeKind, EndKind, Endings
  <2> QED BY <1>1, <2>1
<1>4. CASE Lapses(t)
  <2>1. LedgerType'
    BY <1>4 DEF Lapses, LedgerType, FileType
  <2>2. LoopType'
    BY <1>1, <1>4, SendTypes DEF Lapses, LoopType, Endings
  <2>3. HaltsOnCause'
    BY <1>1, <1>4 DEF Lapses, HaltsOnCause, Ends, headVars
  <2> QED BY <1>1, <2>1, <2>2, <2>3
<1> QED BY <1>2, <1>3, <1>4 DEF Observe

LEMMA RecordHaltTypes ==
  ASSUME CanaryTypes, NEW t \in Tx, RecordHalt(t)
  PROVE  CanaryTypes'
<1> USE DEF CanaryTypes
<1>1. HeadType' /\ OperType' /\ BootType' /\ ChainType' /\ UNCHANGED <<mem, lane, headVars>>
  BY QuietTypes DEF RecordHalt
<1>2. mem.halted # "none" /\ WriteHalt /\ Ends(t, send.ending) /\ send.ending \in Endings
  BY DEF RecordHalt, At, HaltsOnCause, LoopType
<1>3. LedgerType'
  BY <1>1, <1>2, WriteHaltTypes
<1>4. LoopType'
  BY <1>1, <1>2, SendTypes DEF LoopType
<1>5. HaltsOnCause'
  BY <1>1, <1>2 DEF HaltsOnCause
<1> QED BY <1>1, <1>3, <1>4, <1>5

LEMMA CloseTypes ==
  ASSUME CanaryTypes, NEW t \in Tx, Close(t)
  PROVE  CanaryTypes'
<1> USE DEF CanaryTypes
<1>1. LedgerType' /\ HeadType' /\ OperType' /\ ChainType'
  BY QuietTypes DEF Close
<1>2. LaneAfter(nonceOf[t], send.ending) \in Lanes
  BY LaneOps DEF LaneAfter, LoopType
<1>3. LoopType'
  BY <1>2 DEF Close, LoopType, Idle, Pc, Endings
<1>4. BootType'
  BY DEF Close, BootType, bootVars
<1>5. HaltsOnCause'
  BY DEF HaltsOnCause, Close, Idle, headVars
<1> QED BY <1>1, <1>3, <1>4, <1>5

LEMMA ReadNonceTypes ==
  ASSUME CanaryTypes, ReadNonce
  PROVE  CanaryTypes'
<1> USE DEF CanaryTypes
<1>1. LoopType' /\ OperType' /\ BootType' /\ ChainType' /\ UNCHANGED <<ledgerVars, sentCount, send>>
  BY QuietTypes DEF ReadNonce
<1>2. PICK now \in Views :
        LET boot == IF bootNonce = Unset THEN now ELSE bootNonce IN
        /\ bootNonce' = boot
        /\ shortBoot' = (shortBoot \/ (bootNonce = Unset /\ now < PendingNonce))
        /\ mem' = IF BeyondOurs(boot, now) THEN Trip(mem, "tripwire") ELSE mem
        /\ tripping' = (mem' # mem)
  BY DEF ReadNonce
<1>3. now \in Nat
  BY ViewsAre
<1>4. HeadType'
  BY <1>1, <1>2, <1>3 DEF HeadType
<1>5. /\ Trip(mem, "tripwire") \in Totals
      /\ Trip(mem, "tripwire").halted = IF mem.halted = "none" THEN "tripwire" ELSE mem.halted
  BY TripShape DEF Why, LedgerType
<1>6. LedgerType'
  BY <1>1, <1>2, <1>5 DEF LedgerType, FileType, ledgerVars
<1>7. mem' # mem => mem'.halted # "none"
  BY <1>2, <1>5
<1>8. HaltsOnCause'
  BY <1>1, <1>2, <1>7 DEF HaltsOnCause
<1> QED BY <1>1, <1>4, <1>6, <1>8

LEMMA RecordTripwireTypes ==
  ASSUME CanaryTypes, RecordTripwire
  PROVE  CanaryTypes'
<1> USE DEF CanaryTypes
<1>1. LoopType' /\ OperType' /\ BootType' /\ ChainType' /\ UNCHANGED <<mem, send, sentCount, bootNonce, shortBoot>>
  BY QuietTypes DEF RecordTripwire
<1>2. LedgerType'
  BY <1>1, WriteHaltTypes DEF RecordTripwire, HaltsOnCause
<1>3. HeadType' /\ HaltsOnCause'
  BY <1>1 DEF RecordTripwire, HeadType, HaltsOnCause
<1> QED BY <1>1, <1>2, <1>3

LEMMA ChainTypes ==
  ASSUME CanaryTypes, ChainStep
  PROVE  CanaryTypes'
<1> USE DEF CanaryTypes
<1>1. LedgerType' /\ HeadType' /\ LoopType' /\ OperType' /\ BootType' /\ UNCHANGED <<mem, send, tripping>>
  BY QuietTypes DEF ChainStep, headVars
<1>2. Kill(mined, fate) \in [Tx -> Fates]
  BY DEF Kill, ChainType, Fates
<1>3. /\ \A t \in Tx, f \in Mined : [Kill(mined, fate) EXCEPT ![t] = f] \in [Tx -> Fates]
      /\ \A t \in Tx : [fate EXCEPT ![t] = "pending"] \in [Tx -> Fates]
  BY <1>2 DEF Fates, ChainType
<1>4. ChainType'
  BY <1>2, <1>3 DEF ChainStep, ForeignUse, Reaches, Mine, ChainType
<1>5. HaltsOnCause'
  BY <1>1 DEF HaltsOnCause
<1> QED BY <1>1, <1>4, <1>5

\* A death leaves what is on disk, but maybe for the start of one line more.
LEMMA CrashFile ==
  ASSUME LedgerType, Crash
  PROVE  /\ UNCHANGED <<ledger, faults, missed, lapsed>> /\ FileType'
         /\ file'.stray \in {file.stray, <<>>}
<1>1. disk \in Disks /\ disk.lines = ledger /\ disk.stray = file.stray
  BY DiskIs
<1> DEFINE c == Cut(disk, <<>>)
<1>2. c \in Disks /\ c.lines = ledger /\ c.stray = <<>>
  BY <1>1, CutIs DEF Strays
<1>3. Becomes(disk) \/ Becomes(c)
  BY DEF Crash
<1>4. UNCHANGED <<faults, missed, lapsed>>
  BY DEF Crash
<1> HIDE DEF c
<1> QED BY <1>1, <1>2, <1>3, <1>4, BecomesIs

LEMMA CrashTypes ==
  ASSUME CanaryTypes, Crash
  PROVE  CanaryTypes'
<1> USE DEF CanaryTypes
<1>1. ChainType' /\ UNCHANGED <<shortBoot, ticket, resets>>
  BY QuietTypes DEF Crash
<1>2. LedgerType'
  BY CrashFile, NewStateType DEF Crash, LedgerType
<1>3. HeadType'
  BY <1>1 DEF Crash, HeadType
<1>6. OperType' /\ HaltsOnCause'
  BY <1>1 DEF Crash, OperType, HaltsOnCause, Idle
<1>4. LoopType'
  BY DEF Crash, LoopType, Idle, NewLane, Lanes, Pc, Endings
<1>5. BootType'
  BY <1>1 DEF Crash, BootType, Finding
<1> QED BY <1>1, <1>2, <1>3, <1>4, <1>5, <1>6

\* The operator's record goes in whole, into whatever is there.
LEMMA ResetFile ==
  ASSUME LedgerType, OperatorReset
  PROVE  /\ ledger' = Append(ledger, ResetRecord) /\ ledger' \in Seq(CanaryRecord) /\ FileType'
         /\ file'.stray = <<>>
<1> DEFINE d == Whole(disk, ResetRecord)
<1>1. d \in Disks /\ d.lines = Append(ledger, ResetRecord) /\ d.stray = <<>>
  BY DiskIs, WholeIs DEF CanaryRecord
<1>2. Becomes(d)
  BY DEF OperatorReset
<1> HIDE DEF d
<1> QED BY <1>1, <1>2, BecomesIs

LEMMA OperatorResetTypes ==
  ASSUME CanaryTypes, OperatorReset
  PROVE  CanaryTypes'
<1> USE DEF CanaryTypes
<1>1. /\ HeadType' /\ LoopType' /\ BootType' /\ ChainType'
      /\ UNCHANGED <<faults, missed, lapsed, mem, send, tripping, crashes>>
  BY QuietTypes DEF OperatorReset, headVars
<1>2. ledger' \in Seq(CanaryRecord) /\ FileType'
  BY ResetFile
<1>3. LedgerType' /\ OperType' /\ HaltsOnCause'
  BY <1>1, <1>2 DEF OperatorReset, LedgerType, OperType, HaltsOnCause
<1> QED BY <1>1, <1>3

LEMMA OpenTypes ==
  ASSUME CanaryTypes, OnlyWhenUp, Open
  PROVE  CanaryTypes'
<1> USE DEF CanaryTypes
<1>1. HeadType' /\ LoopType' /\ ChainType' /\ OperType'
      /\ UNCHANGED <<ledgerVars, found, ticket, send, tripping>>
  BY QuietTypes DEF Open, headVars
<1>2. Replay(Legible) \in Totals
  <2>1. Legible \in Seq(CanaryRecord)
    <3>1. ledger \in Seq(CanaryRecord) /\ (file.stray = <<>> \/ \E r \in CanaryRecord : file.stray = <<r>>)
      BY DEF LedgerType, FileType, Strays
    <3>2. ledger \o <<>> = ledger /\ \A r \in CanaryRecord : ledger \o <<r>> \in Seq(CanaryRecord)
      BY <3>1
    <3> QED BY <3>1, <3>2 DEF Legible
  <2> QED BY <2>1, ReplayType
<1>3. LedgerType' /\ BootType'
  BY <1>1, <1>2 DEF Open, LedgerType, BootType, FileType, ledgerVars
<1>4. send.pc = "idle" /\ ~tripping
  BY DEF Open, OnlyWhenUp, Idle
<1>5. HaltsOnCause'
  BY <1>1, <1>4 DEF HaltsOnCause
<1> QED BY <1>1, <1>3, <1>5

\* A sequence followed by one more element or by none.
LEMMA OneMore ==
  ASSUME NEW l \in Seq(CanaryRecord), NEW r \in CanaryRecord
  PROVE  l \o <<>> = l /\ l \o <<r>> = Append(l, r) /\ Append(l, r) \in Seq(CanaryRecord)
OBVIOUS

\* What boot finds of one open send: either its outcome is applied and recorded,
\* or the record fails, or there is nothing to record; then the Halted record,
\* if a halt tripped.
Halts(l) == ledger' = l \/ (mem'.halted # "none" /\ ledger' = Append(l, Halted(mem'.halted)))

\* What the Halted record behind a halt boot has just tripped makes of a file.
LEMMA BootWritesIs ==
  ASSUME mem \in Totals, mem' \in Totals, mem.halted # "none" => mem'.halted # "none",
         NEW d \in Disks, NEW n \in Nat, BootWrites(d, n), faults \in Nat
  PROVE  /\ Halts(d.lines) /\ ledger' \in Seq(CanaryRecord) /\ FileType' /\ faults' \in Nat
         /\ \/ file'.stray \in {d.stray, <<>>}
            \/ mem'.halted # "none" /\ file'.stray = <<Halted(mem'.halted)>>
<1> DEFINE h == Halted(mem'.halted)
           e0 == Whole(d, h)
<1>1. mem'.halted # mem.halted => h \in CanaryRecord /\ mem'.halted # "none"
  <2>1. mem'.halted # mem.halted => mem'.halted \in Why \ {"none"}
    BY DEF Totals
  <2> QED BY <2>1, HaltedIs
<1> HIDE DEF h
<1>2. mem'.halted # mem.halted => e0 \in Disks /\ e0.lines = Append(d.lines, h) /\ e0.stray = <<>>
  BY <1>1, WholeIs
<1> HIDE DEF e0
<1>3. CASE faults' = faults + n /\ Becomes(IF mem'.halted # mem.halted THEN e0 ELSE d)
  <2>1. faults' \in Nat
    BY <1>3
  <2>2. CASE mem'.halted # mem.halted
    <3>1. ledger' = Append(d.lines, h) /\ ledger' \in Seq(CanaryRecord) /\ FileType' /\ file'.stray = <<>>
      BY <1>2, <1>3, <2>2, BecomesIs
    <3> QED BY <1>1, <2>1, <2>2, <3>1 DEF Halts, h
  <2>3. CASE mem'.halted = mem.halted
    <3>1. ledger' = d.lines /\ ledger' \in Seq(CanaryRecord) /\ FileType' /\ file'.stray = d.stray
      BY <1>3, <2>3, BecomesIs
    <3> QED BY <2>1, <3>1 DEF Halts
  <2> QED BY <2>2, <2>3
<1>4. ASSUME mem'.halted # mem.halted, faults' = faults + n + 1, NEW e \in Partial(d, h), Becomes(e)
      PROVE  /\ Halts(d.lines) /\ ledger' \in Seq(CanaryRecord) /\ FileType' /\ faults' \in Nat
             /\ file'.stray \in {d.stray, <<>>, <<h>>} /\ mem'.halted # "none"
  <2>1. e \in Disks /\ e.lines \in {d.lines, Append(d.lines, h)} /\ e.stray \in {d.stray, <<>>, <<h>>}
    BY <1>1, <1>4, PartialIs
  <2>2. ledger' = e.lines /\ ledger' \in Seq(CanaryRecord) /\ FileType' /\ file'.stray = e.stray
    BY <1>4, <2>1, BecomesIs
  <2>3. faults' \in Nat
    BY <1>4
  <2> QED BY <1>1, <1>4, <2>1, <2>2, <2>3 DEF Halts, h
<1>5. \/ faults' = faults + n /\ Becomes(IF mem'.halted # mem.halted THEN e0 ELSE d)
      \/ mem'.halted # mem.halted /\ faults' = faults + n + 1 /\ \E e \in Partial(d, h) : Becomes(e)
  BY DEF BootWrites, h, e0
<1> QED BY <1>3, <1>4, <1>5 DEF h

\* A line boot leaves that lacks only its newline: one that was there, the outcome
\* it looked up, or its Halted record.
StrayAfter(r) ==
  \/ file'.stray \in {file.stray, <<>>, <<r>>}
  \/ mem'.halted # "none" /\ file'.stray = <<Halted(mem'.halted)>>

LEMMA ResolveShape ==
  ASSUME LedgerType, NEW t \in Tx, ResolveOpen(t)
  PROVE  LET r == Outcome(t, Settled(t)) IN
         /\ faults' \in Nat /\ FileType' /\ ledger' \in Seq(CanaryRecord) /\ UNCHANGED lapsed
         /\ mem.halted # "none" => mem'.halted # "none"
         /\ \/ /\ fate[t] \in Mined /\ UNCHANGED missed
               /\ mem' = Apply(mem, r) /\ Halts(Append(ledger, r))
               /\ \/ file'.stray = <<>>
                  \/ mem'.halted # "none" /\ file'.stray = <<Halted(mem'.halted)>>
               /\ found' = [found EXCEPT ![t] = IF Settled(t) = "unexplained" THEN "failed" ELSE Settled(t)]
            \/ /\ fate[t] \in Mined /\ missed' = missed \cup {t}
               /\ mem' \in {mem, Trip(mem, "unresolved")}
               /\ Halts(ledger) \/ Halts(Append(ledger, r))
               /\ StrayAfter(r)
               /\ found' = [found EXCEPT ![t] = IF Settled(t) = "unexplained" THEN "failed" ELSE Settled(t)]
            \/ /\ UNCHANGED missed
               /\ mem' = Trip(mem, "unresolved") /\ mem'.halted # "none" /\ Halts(ledger)
               /\ \/ file'.stray \in {file.stray, <<>>}
                  \/ file'.stray = <<Halted(mem'.halted)>>
               /\ found' = [found EXCEPT ![t] = "failed"]
<1> DEFINE r == Outcome(t, Settled(t))
<1>1. /\ r \in CanaryRecord /\ r.kind # "reset"
      /\ ledger \in Seq(CanaryRecord) /\ mem \in Totals /\ faults \in Nat
  BY RecordsAre DEF CanaryRecord, OutcomeKind, EndKind, LedgerType
<1> HIDE DEF r
<1>2. /\ Apply(mem, r) \in Totals /\ (mem.halted # "none" => Apply(mem, r).halted # "none")
      /\ Trip(mem, "unresolved") \in Totals /\ Trip(mem, "unresolved").halted # "none"
  <2>1. Apply(mem, r) \in Totals /\ (mem.halted # "none" => Apply(mem, r).halted # "none")
    BY <1>1, ApplyShape
  <2>2. "unresolved" \in Why \ {"none"}
    BY DEF Why
  <2>3. Trip(mem, "unresolved") \in Totals /\ Trip(mem, "unresolved").halted # "none"
    BY <1>1, <2>2, TripShape
  <2> QED BY <2>1, <2>3
<1>3. disk \in Disks /\ disk.lines = ledger /\ disk.stray = file.stray
  BY DiskIs
<1>4. UNCHANGED lapsed
  BY DEF ResolveOpen
<1>5. CASE fate[t] \in Mined /\ mem' = Apply(mem, r) /\ BootWrites(Whole(disk, r), 0) /\ UNCHANGED missed
           /\ found' = [found EXCEPT ![t] = IF Settled(t) = "unexplained" THEN "failed" ELSE Settled(t)]
  <2> DEFINE d == Whole(disk, r)
  <2>1. d \in Disks /\ d.lines = Append(ledger, r) /\ d.stray = <<>> /\ BootWrites(d, 0)
    BY <1>1, <1>3, <1>5, WholeIs
  <2> HIDE DEF d
  <2>2. /\ Halts(d.lines) /\ ledger' \in Seq(CanaryRecord) /\ FileType' /\ faults' \in Nat
        /\ \/ file'.stray \in {d.stray, <<>>}
           \/ mem'.halted # "none" /\ file'.stray = <<Halted(mem'.halted)>>
    BY <1>1, <1>2, <1>5, <2>1, BootWritesIs
  <2> QED BY <1>2, <1>4, <1>5, <2>1, <2>2 DEF r
<1>6. CASE /\ fate[t] \in Mined /\ missed' = missed \cup {t}
           /\ mem' = IF Settled(t) = "unexplained" THEN Trip(mem, "unresolved") ELSE mem
           /\ \E d \in Partial(disk, r) : BootWrites(d, 1)
           /\ found' = [found EXCEPT ![t] = IF Settled(t) = "unexplained" THEN "failed" ELSE Settled(t)]
  <2>1. mem' \in {mem, Trip(mem, "unresolved")}
    BY <1>6
  <2>2. PICK d \in Partial(disk, r) : BootWrites(d, 1)
    BY <1>6
  <2>3. d \in Disks /\ d.lines \in {ledger, Append(ledger, r)} /\ d.stray \in {file.stray, <<>>, <<r>>}
    BY <1>1, <1>3, PartialIs
  <2>4. mem' \in Totals /\ (mem.halted # "none" => mem'.halted # "none")
    BY <1>1, <1>2, <2>1
  <2>5. /\ Halts(d.lines) /\ ledger' \in Seq(CanaryRecord) /\ FileType' /\ faults' \in Nat
        /\ \/ file'.stray \in {d.stray, <<>>}
           \/ mem'.halted # "none" /\ file'.stray = <<Halted(mem'.halted)>>
    BY <1>1, <2>2, <2>3, <2>4, BootWritesIs
  <2>6. StrayAfter(r) /\ (Halts(ledger) \/ Halts(Append(ledger, r)))
    BY <2>3, <2>5 DEF StrayAfter
  <2> QED BY <1>4, <1>6, <2>1, <2>4, <2>5, <2>6 DEF r
<1>7. CASE FoundNothing(t)
  <2>1. mem' = Trip(mem, "unresolved") /\ BootWrites(disk, 0) /\ UNCHANGED missed
        /\ found' = [found EXCEPT ![t] = "failed"]
    BY <1>7 DEF FoundNothing
  <2>2. /\ Halts(ledger) /\ ledger' \in Seq(CanaryRecord) /\ FileType' /\ faults' \in Nat
        /\ \/ file'.stray \in {file.stray, <<>>}
           \/ mem'.halted # "none" /\ file'.stray = <<Halted(mem'.halted)>>
    BY <1>1, <1>2, <1>3, <2>1, BootWritesIs
  <2> QED BY <1>2, <1>4, <2>1, <2>2
<1>8. FoundReceipt(t) \/ FoundNothing(t)
  BY DEF ResolveOpen
<1>9. FoundReceipt(t) => \/ /\ fate[t] \in Mined /\ mem' = Apply(mem, r) /\ BootWrites(Whole(disk, r), 0)
                            /\ UNCHANGED missed
                            /\ found' = [found EXCEPT ![t] = IF Settled(t) = "unexplained" THEN "failed" ELSE Settled(t)]
                         \/ /\ fate[t] \in Mined /\ missed' = missed \cup {t}
                            /\ mem' = IF Settled(t) = "unexplained" THEN Trip(mem, "unresolved") ELSE mem
                            /\ \E d \in Partial(disk, r) : BootWrites(d, 1)
                            /\ found' = [found EXCEPT ![t] = IF Settled(t) = "unexplained" THEN "failed" ELSE Settled(t)]
  BY DEF FoundReceipt, r
<1> QED BY <1>5, <1>6, <1>7, <1>8, <1>9

LEMMA ResolveTypes ==
  ASSUME CanaryTypes, OnlyWhenUp, NEW t \in Tx, ResolveOpen(t)
  PROVE  CanaryTypes'
<1> USE DEF CanaryTypes
<1>1. /\ HeadType' /\ LoopType' /\ ChainType' /\ OperType'
      /\ UNCHANGED <<send, tripping, stage, ticket>> /\ stage # "up"
  BY QuietTypes DEF ResolveOpen, headVars
<1> DEFINE r == Outcome(t, Settled(t))
<1>2. r \in CanaryRecord /\ Settled(t) \in {"landed", "reverted", "unexplained"}
  BY RecordsAre DEF CanaryRecord, OutcomeKind, EndKind
<1>3. /\ Apply(mem, r) \in Totals /\ Trip(mem, "unresolved") \in Totals
      /\ Append(ledger, r) \in Seq(CanaryRecord)
  <2> HIDE DEF r
  <2>1. mem \in Totals /\ ledger \in Seq(CanaryRecord) /\ "unresolved" \in Why
    BY DEF LedgerType, Why
  <2>2. Apply(mem, r) \in Totals
    BY <1>2, <2>1, ApplyShape
  <2>3. Trip(mem, "unresolved") \in Totals
    BY <2>1, TripShape
  <2> QED BY <1>2, <2>1, <2>2, <2>3
<1>4. /\ mem' \in Totals /\ missed' \subseteq Tx /\ faults' \in Nat
  BY <1>3, ResolveShape DEF LedgerType
<1> HIDE DEF r
<1>5. ledger' \in Seq(CanaryRecord) /\ FileType' /\ UNCHANGED lapsed
  BY ResolveShape
<1>6. found' \in [Tx -> Finding]
  BY <1>2, ResolveShape DEF BootType, Finding
<1>7. BootType'
  BY <1>1, <1>6 DEF BootType
<1>8. HaltsOnCause'
  BY <1>1 DEF HaltsOnCause, OnlyWhenUp, Idle
<1> QED BY <1>1, <1>4, <1>5, <1>7, <1>8 DEF LedgerType

LEMMA BootClosesTypes ==
  ASSUME CanaryTypes, BootCloses
  PROVE  CanaryTypes'
<1> USE DEF CanaryTypes
<1>1. LedgerType' /\ HeadType' /\ LoopType' /\ ChainType' /\ OperType' /\ UNCHANGED <<mem, send, tripping>>
  BY QuietTypes DEF BootCloses, headVars
<1>2. BootType'
  BY DEF BootCloses, BootType, Finding
<1>3. HaltsOnCause'
  BY <1>1 DEF HaltsOnCause
<1> QED BY <1>1, <1>2, <1>3

TypeInv == CanaryTypes /\ OnlyWhenUp

LEMMA TypeInit == Init => TypeInv
<1> SUFFICES ASSUME Init PROVE TypeInv
  OBVIOUS
<1> USE DEF Init
<1>1. LedgerType
  BY NewStateType DEF LedgerType, FileType, FileOk, Strays
<1>2. HeadType
  BY DEF HeadType
<1>3. LoopType
  BY DEF LoopType, Idle, NewLane, Lanes, Pc, Endings
<1>4. BootType /\ ChainType /\ OperType
  BY DEF BootType, ChainType, OperType, Finding, Fates
<1>5. HaltsOnCause /\ OnlyWhenUp
  BY DEF HaltsOnCause, OnlyWhenUp, Idle
<1> QED BY <1>1, <1>2, <1>3, <1>4, <1>5 DEF TypeInv, CanaryTypes

LEMMA TypeStep == TypeInv /\ [Next]_vars => TypeInv'
<1> SUFFICES ASSUME TypeInv, [Next]_vars PROVE TypeInv'
  OBVIOUS
<1>1. CanaryTypes /\ OnlyWhenUp /\ OnlyWhenUp'
  BY OnlyWhenUpKept DEF TypeInv
<1>2. CanaryTypes'
  <2>1. ASSUME NEW t \in Tx, Admit(t) \/ CheckHold(t) \/ WriteAhead(t) \/ HandOff(t) \/ Answer(t)
                            \/ Observe(t) \/ RecordHalt(t) \/ Close(t)
        PROVE  CanaryTypes'
    BY <1>1, <2>1, AdmitTypes, CheckHoldTypes, WriteAheadTypes, HandOffTypes, AnswerTypes,
       ObserveTypes, RecordHaltTypes, CloseTypes
  <2>2. ASSUME HeadStep PROVE CanaryTypes'
    BY <1>1, <2>2, ReadNonceTypes, RecordTripwireTypes DEF HeadStep
  <2>3. ASSUME ChainStep \/ Crash \/ OperatorReset PROVE CanaryTypes'
    BY <1>1, <2>3, ChainTypes, CrashTypes, OperatorResetTypes
  <2>4. ASSUME Boot PROVE CanaryTypes'
    BY <1>1, <2>4, OpenTypes, BootClosesTypes, ResolveTypes DEF Boot
  <2>5. ASSUME UNCHANGED vars PROVE CanaryTypes'
    BY <1>1, <2>5, QuietTypes DEF CanaryTypes, HaltsOnCause, vars, headVars
  <2> QED BY <2>1, <2>2, <2>3, <2>4, <2>5 DEF Next, CaptureStep
<1> QED BY <1>1, <1>2 DEF TypeInv

\* The canary's ledger, its totals in memory, the capture loop, the head task,
\* the boot and the chain keep their types, for any limits and any bounds.
THEOREM CanaryTypeCorrect == Spec => []TypeOK
<1>1. Init => TypeInv
  BY TypeInit
<1>2. TypeInv /\ [Next]_vars => TypeInv'
  BY TypeStep
<1>3. TypeInv => TypeOK
  BY TypesGiveTypeOK DEF TypeInv
<1> QED BY <1>1, <1>2, <1>3, PTL DEF Spec

-----------------------------------------------------------------------------
(* What one step does to the ledger and to the chain.                      *)

\* The totals boot would start from.
Kept == Replay(ledger)

InFlight(t) == fate[t] \in {"wire", "pending"}

Grew == Len(ledger) <= Len(ledger') /\ \A i \in 1..Len(ledger) : ledger'[i] = ledger[i]

\* One record more on disk.
LEMMA GrowsBy ==
  ASSUME LedgerType, NEW r \in CanaryRecord, ledger' = Append(ledger, r)
  PROVE  /\ Kept \in Totals /\ Kept' = Apply(Kept, r) /\ Kept' \in Totals
         /\ Kept'.open = IF r.kind = "sent" THEN Kept.open \cup {r.tx}
                         ELSE IF r.kind \in EndKind THEN Kept.open \ {r.tx} ELSE Kept.open
         /\ Grew /\ \E i \in 1..Len(ledger') : ledger'[i] = r
<1>1. ledger \in Seq(CanaryRecord)
  BY DEF LedgerType
<1>2. Kept \in Totals /\ Kept' = Apply(Kept, r)
  BY <1>1, ReplayType, ReplayAppend DEF Kept
<1>3. Grew
  BY <1>1 DEF Grew
<1>4. Len(ledger') = Len(ledger) + 1 /\ ledger'[Len(ledger) + 1] = r /\ Len(ledger) + 1 \in 1..Len(ledger')
  BY <1>1
<1> QED BY <1>2, <1>3, <1>4, ApplyShape

\* A Halted record behind a ledger leaves what is open and what is lost, and
\* halts for the reason memory has.
LEMMA HaltsKeep ==
  ASSUME NEW l \in Seq(CanaryRecord), mem' \in Totals, Halts(l)
  PROVE  /\ Kept' \in Totals /\ Replay(l) \in Totals
         /\ Kept'.open = Replay(l).open /\ Kept'.lost = Replay(l).lost
         /\ Kept'.halted = "tripwire" => Replay(l).halted = "tripwire" \/ mem'.halted = "tripwire"
         /\ Len(l) <= Len(ledger') /\ \A i \in 1..Len(l) : ledger'[i] = l[i]
         /\ Replay(l).halted # "none" => Kept'.halted # "none"
<1>1. Replay(l) \in Totals
  BY ReplayType
<1>2. CASE ledger' = l
  <2>1. Kept' = Replay(l)
    BY <1>2 DEF Kept
  <2> QED BY <1>1, <1>2, <2>1
<1>3. CASE mem'.halted # "none" /\ ledger' = Append(l, Halted(mem'.halted))
  <2> DEFINE h == Halted(mem'.halted)
  <2>1. h \in CanaryRecord /\ h.kind = "halted" /\ h.why = mem'.halted
    BY <1>3, HaltedIs DEF Totals
  <2>2. h = Halted("tripwire") => mem'.halted = "tripwire"
    BY <2>1 DEF Halted
  <2> HIDE DEF h
  <2>3. Kept' = Apply(Replay(l), h)
    BY <1>3, <2>1, ReplayAppend DEF Kept, h
  <2>4. /\ Kept' \in Totals /\ Kept'.open = Replay(l).open /\ Kept'.lost = Replay(l).lost
        /\ Kept'.halted = "tripwire" => Replay(l).halted = "tripwire" \/ h = Halted("tripwire")
        /\ Replay(l).halted # "none" => Kept'.halted # "none"
    BY <1>1, <2>1, <2>3, ApplyShape DEF EndKind
  <2>5. Len(l) <= Len(ledger') /\ \A i \in 1..Len(l) : ledger'[i] = l[i]
    BY <1>3
  <2> QED BY <1>1, <2>2, <2>4, <2>5
<1> QED BY <1>2, <1>3 DEF Halts

\* A halt written after it was tripped is one behind the ledger.
LEMMA WriteHaltIs ==
  ASSUME LedgerType, WriteHalt, mem.halted # "none", UNCHANGED mem
  PROVE  Halts(ledger) /\ UNCHANGED <<missed, lapsed>>
BY WriteHaltShape DEF Halts

\* What an outcome leaves on disk and in memory.
LEMMA SettleMoves ==
  ASSUME NEW t \in Tx, NEW kind, NEW e, Settle(t, kind, e)
  PROVE  send'.pc \in {"halting", "closing"} /\ send'.tx = t /\ send'.ending = e /\ UNCHANGED lapsed
BY DEF Settle, Recorded, Unrecorded, Ends

LEMMA SettleShape ==
  ASSUME LedgerType, NEW t \in Tx, NEW kind \in OutcomeKind, NEW e, Settle(t, kind, e)
  PROVE  LET r == Outcome(t, kind) IN
         /\ \/ /\ ledger' = Append(ledger, r) /\ mem' = Apply(mem, r) /\ missed' = missed
               /\ file'.stray = <<>>
            \/ /\ ledger' \in {ledger, Append(ledger, r)} /\ mem' = mem /\ missed' = missed \cup {t}
               /\ file'.stray \in {file.stray, <<>>, <<r>>}
         /\ send'.pc \in {"halting", "closing"} /\ send'.tx = t /\ UNCHANGED lapsed
<1> DEFINE r == Outcome(t, kind)
<1>1. r \in CanaryRecord /\ r.kind = kind /\ kind # "sent" /\ r.tx = t
  BY RecordsAre DEF CanaryRecord, OutcomeKind, EndKind
<1>2. Recorded(r) \/ Unrecorded(r)
  BY DEF Settle
<1> HIDE DEF r
<1>3. \/ ledger' = Append(ledger, r) /\ mem' = Apply(mem, r) /\ missed' = missed /\ file'.stray = <<>>
      \/ ledger' \in {ledger, Append(ledger, r)} /\ mem' = mem /\ missed' = missed \cup {t}
         /\ file'.stray \in {file.stray, <<>>, <<r>>}
  <2>1. CASE Recorded(r)
    BY <1>1, <2>1, RecordedIs
  <2>2. CASE Unrecorded(r)
    BY <1>1, <2>2, UnrecordedIs
  <2> QED BY <1>2, <2>1, <2>2
<1> QED BY <1>3, SettleMoves DEF r

\* What reading the file adds to the ledger: nothing, or the one line that lacks
\* its newline only.
LEMMA LegibleIs ==
  ASSUME LedgerType
  PROVE  \/ file.stray = <<>> /\ Legible = ledger
         \/ \E r \in CanaryRecord : file.stray = <<r>> /\ Legible = Append(ledger, r)
<1>1. ledger \in Seq(CanaryRecord) /\ (file.stray = <<>> \/ \E r \in CanaryRecord : file.stray = <<r>>)
  BY DEF LedgerType, FileType, Strays
<1>2. ledger \o <<>> = ledger /\ \A r \in CanaryRecord : ledger \o <<r>> = Append(ledger, r)
  BY <1>1
<1> QED BY <1>1, <1>2 DEF Legible

\* What Open replays.
LEMMA OpenedIs ==
  ASSUME LedgerType
  PROVE  \/ file.stray = <<>> /\ Replay(Legible) = Kept
         \/ \E r \in CanaryRecord : file.stray = <<r>> /\ Replay(Legible) = Apply(Kept, r)
<1>1. ledger \in Seq(CanaryRecord)
  BY DEF LedgerType
<1> QED BY <1>1, LegibleIs, ReplayAppend DEF Kept

\* A step of the chain: what was on the wire reaches the mempool, what was there
\* is mined in its turn or loses its nonce, and nothing else changes.
LEMMA ChainEffect ==
  ASSUME CanaryTypes, ChainStep
  PROVE  /\ \A u \in Tx :
              \/ fate'[u] = fate[u]
              \/ fate[u] = "wire" /\ fate'[u] = "pending"
              \/ fate[u] = "pending" /\ fate'[u] = "dead"
              \/ fate[u] = "pending" /\ fate'[u] \in Mined /\ nonceOf[u] = mined /\ mined' = mined + 1
         /\ mined' \in {mined, mined + 1} /\ foreign' >= foreign
         /\ mined' = mined \/ foreign' > 0 \/ \E u \in Tx : fate'[u] \in Mined /\ nonceOf[u] = mined
<1>1. fate \in [Tx -> Fates] /\ mined \in Nat /\ foreign \in Nat
  BY DEF CanaryTypes, ChainType
<1>2. \A u \in Tx : Kill(mined, fate)[u] = IF nonceOf[u] = mined /\ fate[u] = "pending" THEN "dead" ELSE fate[u]
  BY DEF Kill
<1>3. Kill(mined, fate) = [t \in Tx |-> Kill(mined, fate)[t]]
  BY DEF Kill
<1>4. CASE ForeignUse
  <2>1. fate' = Kill(mined, fate) /\ mined' = mined + 1 /\ foreign' = foreign + 1
    BY <1>4 DEF ForeignUse
  <2> QED BY <1>1, <1>2, <2>1
<1>5. ASSUME NEW t \in Tx, Reaches(t)
      PROVE  fate' = [fate EXCEPT ![t] = "pending"] /\ fate[t] = "wire" /\ mined' = mined /\ foreign' = foreign
  BY <1>5 DEF Reaches
<1>6. CASE \E t \in Tx : Reaches(t)
  BY <1>1, <1>5, <1>6
<1>7. ASSUME NEW t \in Tx, Mine(t)
      PROVE  /\ \A u \in Tx :
                  \/ fate'[u] = fate[u]
                  \/ fate[u] = "pending" /\ fate'[u] = "dead"
                  \/ fate[u] = "pending" /\ fate'[u] \in Mined /\ nonceOf[u] = mined
             /\ mined' = mined + 1 /\ foreign' = foreign /\ fate'[t] \in Mined /\ nonceOf[t] = mined
  <2>1. PICK f \in Mined : fate' = [Kill(mined, fate) EXCEPT ![t] = f]
    BY <1>7 DEF Mine
  <2>2. mined' = mined + 1 /\ foreign' = foreign /\ fate[t] = "pending" /\ nonceOf[t] = mined
    BY <1>7 DEF Mine
  <2> HIDE DEF Mined
  <2>3. fate'[t] = f
    BY <1>3, <2>1
  <2>4. \A u \in Tx : u # t => fate'[u] = Kill(mined, fate)[u]
    BY <1>3, <2>1
  <2> QED BY <1>2, <2>2, <2>3, <2>4
<1>8. CASE \E t \in Tx : Mine(t)
  <2> HIDE DEF Mined
  <2> QED BY <1>1, <1>7, <1>8
<1> QED BY <1>4, <1>6, <1>8 DEF ChainStep

-----------------------------------------------------------------------------
(* The capture loop: what it sends is new, and has its ticket and its nonce. *)

SendInv ==
  /\ send.pc # "idle" => ticket[send.tx] = "open" /\ nonceOf[send.tx] \in Nat
  /\ send.pc \in {"signed", "clear", "written"} => fate[send.tx] = "none"
  /\ \A t \in Tx : /\ ticket[t] = "none" => fate[t] = "none"
                   /\ fate[t] # "none" => nonceOf[t] \in Nat

LEMMA SendInit == Init => SendInv
BY DEF Init, SendInv, Idle

LEMMA SendStep ==
  ASSUME TypeInv, SendInv, [Next]_vars
  PROVE  SendInv'
<1>1. CanaryTypes /\ OnlyWhenUp /\ send.pc \in Pc /\ (send.pc # "idle" => send.tx \in Tx)
      /\ ticket \in [Tx -> {"none", "open", "landed", "reverted", "failed", "never_left"}]
      /\ fate \in [Tx -> Fates] /\ nonceOf \in [Tx -> Nat \cup {Unset}]
  BY DEF TypeInv, CanaryTypes, LoopType, BootType, ChainType
<1>2. ASSUME NEW t \in Tx, Admit(t) PROVE SendInv'
  <2>1. PICK p \in Views : lane' = Reserve(lane, p, 0)
                           /\ nonceOf' = [nonceOf EXCEPT ![t] = NextNonce(lane, p)]
    BY <1>2 DEF Admit
  <2>2. NextNonce(lane, p) \in Nat
    BY <1>1, <2>1, ViewsAre, LaneOps DEF CanaryTypes, LoopType
  <2>3. nonceOf'[t] \in Nat /\ \A u \in Tx : u # t => nonceOf'[u] = nonceOf[u]
    BY <1>1, <2>1, <2>2
  <2>4. ticket'[t] = "open" /\ ticket[t] = "none" /\ \A u \in Tx : u # t => ticket'[u] = ticket[u]
    BY <1>1, <1>2 DEF Admit
  <2>5. send' = [pc |-> "signed", tx |-> t, ending |-> "none"] /\ UNCHANGED fate
    BY <1>2 DEF Admit, Goes, chainVars
  <2> QED BY <2>3, <2>4, <2>5 DEF SendInv
<1>3. ASSUME NEW t \in Tx, CheckHold(t) \/ WriteAhead(t) PROVE SendInv'
  <2>1. send.tx = t /\ send.pc \in {"signed", "clear"} /\ send'.tx = t /\ UNCHANGED <<ticket, nonceOf, fate>>
    BY <1>3 DEF CheckHold, WriteAhead, At, Goes, Ends, chainVars
  <2> QED BY <2>1 DEF SendInv
<1>4. ASSUME NEW t \in Tx, HandOff(t) PROVE SendInv'
  <2>1. /\ send.tx = t /\ send.pc = "written" /\ send' = [pc |-> "asked", tx |-> t, ending |-> "none"]
        /\ UNCHANGED <<ticket, nonceOf>> /\ fate' = [fate EXCEPT ![t] = "wire"]
    BY <1>4 DEF HandOff, At, Goes
  <2>2. ticket[t] = "open" /\ nonceOf[t] \in Nat
    BY <2>1 DEF SendInv
  <2>3. \A u \in Tx : u # t => fate'[u] = fate[u]
    BY <1>1, <2>1
  <2> QED BY <2>1, <2>2, <2>3 DEF SendInv
<1>5. ASSUME NEW t \in Tx, Answer(t) PROVE SendInv'
  <2>1. /\ send.tx = t /\ send.pc = "asked" /\ UNCHANGED <<ticket, nonceOf>>
        /\ fate' = fate \/ (fate' = [fate EXCEPT ![t] = "dead"] /\ fate[t] \in {"wire", "dead"})
    BY <1>5 DEF Answer, At
  <2>2. send'.tx = t /\ send'.pc \in {"watched", "halting", "closing"}
    BY <1>5, SettleMoves DEF Answer, Goes
  <2>3. \A u \in Tx : fate'[u] = fate[u] \/ (fate[u] # "none" /\ fate'[u] # "none")
    BY <1>1, <2>1
  <2> QED BY <2>1, <2>2, <2>3 DEF SendInv
<1>6. ASSUME NEW t \in Tx, Observe(t) \/ RecordHalt(t) PROVE SendInv'
  <2>1. send.tx = t /\ send.pc \in {"watched", "halting"} /\ UNCHANGED <<ticket, nonceOf, fate>>
    BY <1>6 DEF Observe, RecordHalt, At, chainVars
  <2>2. send'.tx = t /\ send'.pc \in {"halting", "closing"}
    BY <1>6, SettleMoves DEF Observe, RecordHalt, Ends, Lapses
  <2> QED BY <2>1, <2>2 DEF SendInv
<1>7. ASSUME NEW t \in Tx, Close(t) PROVE SendInv'
  <2>1. send' = Idle /\ UNCHANGED <<nonceOf, fate>> /\ ticket'[t] # "none"
        /\ \A u \in Tx : u # t => ticket'[u] = ticket[u]
    BY <1>1, <1>7 DEF Close, chainVars
  <2> QED BY <2>1 DEF SendInv, Idle
<1>8. ASSUME ChainStep PROVE SendInv'
  <2>1. UNCHANGED <<send, ticket, nonceOf>>
    BY <1>8 DEF ChainStep
  <2>2. \A u \in Tx : (fate'[u] = "none" <=> fate[u] = "none")
    BY <1>1, <1>8, ChainEffect DEF Mined
  <2> QED BY <1>1, <2>1, <2>2 DEF SendInv
<1>9. ASSUME Crash PROVE SendInv'
  BY <1>9 DEF Crash, SendInv, Idle, chainVars
<1>10. ASSUME BootCloses PROVE SendInv'
  <2>1. send.pc = "idle" /\ UNCHANGED <<send, nonceOf, fate>>
    BY <1>1, <1>10 DEF BootCloses, OnlyWhenUp, Idle, chainVars
  <2>2. \A u \in Tx : ticket'[u] = "none" => ticket[u] = "none"
    BY <1>1, <1>10 DEF BootCloses
  <2> QED BY <2>1, <2>2 DEF SendInv
<1>11. ASSUME HeadStep \/ OperatorReset \/ Open \/ (\E t \in Tx : ResolveOpen(t)) \/ UNCHANGED vars
       PROVE  SendInv'
  <2>1. UNCHANGED <<send, ticket, nonceOf, fate>>
    BY <1>11 DEF HeadStep, ReadNonce, RecordTripwire, OperatorReset, Open, ResolveOpen, vars, chainVars
  <2> QED BY <2>1 DEF SendInv
<1> QED BY <1>2, <1>3, <1>4, <1>5, <1>6, <1>7, <1>8, <1>9, <1>10, <1>11 DEF Next, CaptureStep, Boot

-----------------------------------------------------------------------------
(* The line that lacks its newline only.                                   *)

\* It never is a reset's, its outcome is one the canary missed, and it closes only
\* what can land no more.
Excused(r) ==
  /\ r.kind # "reset"
  /\ r.kind \in OutcomeKind => r.tx \in missed
  /\ r.kind \in EndKind => fate[r.tx] = "dead" \/ (fate[r.tx] \in Mined /\ r.kind = Settled(r.tx))

StrayInv == \A r \in CanaryRecord : file.stray = <<r>> => Excused(r)

LEMMA StrayInit == Init => StrayInv
BY DEF Init, StrayInv

\* What is settled on the chain stays so, and what is missed.
LEMMA StrayStays ==
  ASSUME StrayInv, missed \subseteq missed', NEW r \in CanaryRecord, file.stray = <<r>>,
         \A u \in Tx : fate[u] \in Mined \cup {"dead"} => fate'[u] = fate[u]
  PROVE  Excused(r)'
<1>1. Excused(r)
  BY DEF StrayInv
<1>2. r.kind \in OutcomeKind => r.tx \in Tx
  BY RecordKinds DEF OutcomeRecord
<1>3. r.kind \in EndKind => r.kind \in OutcomeKind
  BY DEF OutcomeKind
<1>4. r.kind \in EndKind => fate'[r.tx] = fate[r.tx] /\ Settled(r.tx)' = Settled(r.tx)
  BY <1>1, <1>2, <1>3 DEF Excused, Settled
<1> QED BY <1>1, <1>4 DEF Excused

\* The file kept what it had, or lost it.
LEMMA QuietStray ==
  ASSUME StrayInv, missed \subseteq missed', file'.stray \in {file.stray, <<>>},
         \A u \in Tx : fate[u] \in Mined \cup {"dead"} => fate'[u] = fate[u]
  PROVE  StrayInv'
<1>1. ASSUME NEW r \in CanaryRecord, file'.stray = <<r>> PROVE Excused(r)'
  <2>1. file.stray = <<r>>
    BY <1>1
  <2> QED BY <2>1, StrayStays
<1> QED BY <1>1 DEF StrayInv

\* ... or it got a line that is excused itself.
LEMMA LoudStray ==
  ASSUME StrayInv, missed \subseteq missed', NEW n \in CanaryRecord, Excused(n)',
         file'.stray \in {file.stray, <<>>, <<n>>},
         \A u \in Tx : fate[u] \in Mined \cup {"dead"} => fate'[u] = fate[u]
  PROVE  StrayInv'
<1>1. ASSUME NEW r \in CanaryRecord, file'.stray = <<r>> PROVE Excused(r)'
  <2>1. CASE file.stray = <<r>>
    BY <2>1, StrayStays
  <2>2. CASE <<n>> = <<r>>
    <3>1. n = r
      BY <2>2
    <3> QED BY <3>1
  <2> QED BY <1>1, <2>1, <2>2
<1> QED BY <1>1 DEF StrayInv

\* A Halted record closes nothing.
LEMMA HaltedExcused ==
  ASSUME NEW why \in Why \ {"none"}
  PROVE  Halted(why) \in CanaryRecord /\ Excused(Halted(why)) /\ Excused(Halted(why))'
BY HaltedIs DEF Excused, OutcomeKind, EndKind, Halted

\* A settlement leaves the outcome it missed, and that outcome is so.
LEMMA SettleStray ==
  ASSUME LedgerType, StrayInv, NEW t \in Tx, NEW kind \in OutcomeKind, NEW e, Settle(t, kind, e),
         \A u \in Tx : fate[u] \in Mined \cup {"dead"} => fate'[u] = fate[u],
         kind \in EndKind => fate'[t] = "dead" \/ (fate'[t] \in Mined /\ kind = Settled(t)')
  PROVE  StrayInv'
<1> DEFINE r == Outcome(t, kind)
<1>1. r \in CanaryRecord /\ r.kind = kind /\ r.tx = t
  BY RecordsAre DEF CanaryRecord
<1>2. \/ missed' = missed /\ file'.stray = <<>>
      \/ missed' = missed \cup {t} /\ file'.stray \in {file.stray, <<>>, <<r>>}
  BY SettleShape
<1> HIDE DEF r
<1>3. CASE missed' = missed /\ file'.stray = <<>>
  BY <1>3, QuietStray
<1>4. CASE missed' = missed \cup {t} /\ file'.stray \in {file.stray, <<>>, <<r>>}
  <2>1. PICK n \in CanaryRecord : n = r
    BY <1>1
  <2>2. n.kind = kind /\ n.tx = t /\ kind # "reset" /\ t \in missed'
    BY <1>1, <1>4, <2>1 DEF OutcomeKind, EndKind
  <2>3. Excused(n)'
    BY <2>2 DEF Excused
  <2> QED BY <1>4, <2>1, <2>3, LoudStray
<1> QED BY <1>2, <1>3, <1>4

\* So for every step.
LEMMA StrayStep ==
  ASSUME TypeInv, TypeInv', SendInv, StrayInv, [Next]_vars
  PROVE  StrayInv'
<1>1. CanaryTypes /\ OnlyWhenUp /\ LedgerType /\ mem \in Totals /\ mem' \in Totals /\ fate \in [Tx -> Fates]
  BY DEF TypeInv, CanaryTypes, LedgerType, ChainType
<1>2. ASSUME NEW t \in Tx, Admit(t) \/ CheckHold(t) \/ Close(t) PROVE StrayInv'
  <2>1. UNCHANGED <<file, missed, fate>>
    BY <1>2 DEF Admit, CheckHold, Close, ledgerVars, chainVars
  <2> QED BY <2>1, QuietStray
<1>3. ASSUME NEW t \in Tx, WriteAhead(t) PROVE StrayInv'
  <2>1. Sent(t) \in CanaryRecord /\ Sent(t).kind = "sent"
    BY RecordsAre DEF CanaryRecord
  <2>2. UNCHANGED fate
    BY <1>3 DEF WriteAhead, chainVars
  <2>3. Recorded(Sent(t)) \/ Unrecorded(Sent(t))
    BY <1>3 DEF WriteAhead
  <2>4. file'.stray \in {file.stray, <<>>, <<Sent(t)>>} /\ missed' = missed
    BY <1>1, <2>1, <2>3, RecordedIs, UnrecordedIs
  <2>5. PICK n \in CanaryRecord : n = Sent(t)
    BY <2>1
  <2>6. Excused(n)'
    BY <2>1, <2>5 DEF Excused, OutcomeKind, EndKind
  <2> QED BY <2>2, <2>4, <2>5, <2>6, LoudStray
<1>4. ASSUME NEW t \in Tx, HandOff(t) PROVE StrayInv'
  <2>1. UNCHANGED <<file, missed>> /\ fate' = [fate EXCEPT ![t] = "wire"] /\ fate[t] = "none"
    BY <1>4 DEF HandOff, At, ledgerVars, SendInv
  <2>2. \A u \in Tx : fate[u] \in Mined \cup {"dead"} => fate'[u] = fate[u]
    BY <1>1, <2>1 DEF Mined
  <2> QED BY <2>1, <2>2, QuietStray
<1>5. ASSUME NEW t \in Tx, Answer(t) PROVE StrayInv'
  <2>1. CASE Goes("watched", t) /\ UNCHANGED <<ledgerVars, mem, fate>>
    <3>1. UNCHANGED <<file, missed, fate>>
      BY <2>1 DEF ledgerVars
    <3> QED BY <3>1, QuietStray
  <2>2. CASE fate[t] \in {"wire", "dead"} /\ Settle(t, "refused", "rejected") /\ fate' = [fate EXCEPT ![t] = "dead"]
    <3>1. fate'[t] = "dead" /\ \A u \in Tx : u # t => fate'[u] = fate[u]
      BY <1>1, <2>2
    <3>2. \A u \in Tx : fate[u] \in Mined \cup {"dead"} => fate'[u] = fate[u]
      BY <2>2, <3>1 DEF Mined
    <3>3. "refused" \in OutcomeKind
      BY DEF OutcomeKind, EndKind
    <3> QED BY <1>1, <2>2, <3>1, <3>2, <3>3, SettleStray
  <2>3. CASE Settle(t, "silent", "unanswered") /\ UNCHANGED fate
    <3>1. "silent" \in OutcomeKind /\ "silent" \notin EndKind
      BY DEF OutcomeKind, EndKind
    <3> QED BY <1>1, <2>3, <3>1, SettleStray
  <2> QED BY <1>5, <2>1, <2>2, <2>3 DEF Answer
<1>6. ASSUME NEW t \in Tx, Observe(t) PROVE StrayInv'
  <2>1. UNCHANGED fate
    BY <1>6 DEF Observe, chainVars
  <2>2. CASE fate[t] \in Mined /\ Settle(t, Settled(t), Ending(t))
    <3>1. PICK k \in OutcomeKind : k = Settled(t)
      BY RecordsAre DEF OutcomeKind, EndKind
    <3>2. k = Settled(t)'
      BY <2>1, <3>1 DEF Settled
    <3>3. Settle(t, k, Ending(t))
      BY <2>2, <3>1
    <3> QED BY <1>1, <2>1, <2>2, <3>2, <3>3, SettleStray
  <2>3. CASE Settle(t, "unresolved", "timeout")
    <3>1. "unresolved" \in OutcomeKind /\ "unresolved" \notin EndKind
      BY DEF OutcomeKind, EndKind
    <3> QED BY <1>1, <2>1, <2>3, <3>1, SettleStray
  <2>4. CASE Lapses(t)
    <3>1. UNCHANGED <<file, missed>>
      BY <2>4 DEF Lapses
    <3> QED BY <2>1, <3>1, QuietStray
  <2> QED BY <1>6, <2>2, <2>3, <2>4 DEF Observe
<1>7. ASSUME WriteHalt, mem.halted # "none", UNCHANGED fate PROVE StrayInv'
  <2>1. PICK why \in Why \ {"none"} : why = mem.halted
    BY <1>1, <1>7 DEF Totals
  <2>2. file'.stray \in {file.stray, <<>>, <<Halted(why)>>} /\ missed' = missed
    BY <1>1, <1>7, <2>1, WriteHaltShape
  <2>3. Halted(why) \in CanaryRecord /\ Excused(Halted(why))'
    BY HaltedExcused
  <2> QED BY <1>7, <2>2, <2>3, LoudStray
<1>8. ASSUME NEW t \in Tx, RecordHalt(t) PROVE StrayInv'
  <2>1. WriteHalt /\ mem.halted # "none" /\ UNCHANGED fate
    BY <1>1, <1>8 DEF RecordHalt, At, chainVars, CanaryTypes, HaltsOnCause
  <2> QED BY <1>7, <2>1
<1>9. ASSUME RecordTripwire PROVE StrayInv'
  <2>1. WriteHalt /\ mem.halted # "none" /\ UNCHANGED fate
    BY <1>1, <1>9 DEF RecordTripwire, chainVars, CanaryTypes, HaltsOnCause
  <2> QED BY <1>7, <2>1
<1>10. ASSUME ChainStep PROVE StrayInv'
  <2>1. UNCHANGED <<file, missed>>
    BY <1>10 DEF ChainStep, ledgerVars
  <2>2. \A u \in Tx : fate[u] \in Mined \cup {"dead"} => fate'[u] = fate[u]
    BY <1>1, <1>10, ChainEffect DEF Mined
  <2> QED BY <2>1, <2>2, QuietStray
<1>11. ASSUME Crash PROVE StrayInv'
  <2>1. UNCHANGED fate /\ missed' = missed /\ file'.stray \in {file.stray, <<>>}
    BY <1>1, <1>11, CrashFile DEF Crash, chainVars
  <2> QED BY <2>1, QuietStray
<1>12. ASSUME OperatorReset PROVE StrayInv'
  <2>1. UNCHANGED fate /\ missed' = missed /\ file'.stray = <<>>
    BY <1>1, <1>12, ResetFile DEF OperatorReset, chainVars
  <2> QED BY <2>1, QuietStray
<1>13. ASSUME ReadNonce \/ Open \/ BootCloses \/ UNCHANGED vars PROVE StrayInv'
  <2>1. UNCHANGED <<file, missed, fate>>
    BY <1>13 DEF ReadNonce, Open, BootCloses, vars, ledgerVars, chainVars
  <2> QED BY <2>1, QuietStray
<1>14. ASSUME NEW t \in Tx, ResolveOpen(t) PROVE StrayInv'
  <2>1. UNCHANGED fate
    BY <1>14 DEF ResolveOpen, chainVars
  <2>2. PICK r \in CanaryRecord : r = Outcome(t, Settled(t))
    BY RecordsAre DEF CanaryRecord, OutcomeKind, EndKind
  <2>3. r.kind = Settled(t) /\ r.tx = t /\ Settled(t) \in EndKind /\ Settled(t)' = Settled(t)
    BY <2>1, <2>2, RecordsAre DEF OutcomeKind, EndKind, Settled
  <2>4. mem'.halted # "none" => mem'.halted \in Why \ {"none"}
    BY <1>1 DEF Totals
  <2>5. /\ missed \subseteq missed'
        /\ \/ file'.stray \in {file.stray, <<>>}
           \/ mem'.halted # "none" /\ file'.stray = <<Halted(mem'.halted)>>
           \/ fate[t] \in Mined /\ missed' = missed \cup {t} /\ file'.stray = <<r>>
    BY <1>1, <1>14, <2>2, ResolveShape DEF StrayAfter
  <2>6. CASE file'.stray \in {file.stray, <<>>}
    BY <2>1, <2>5, <2>6, QuietStray
  <2>7. CASE mem'.halted # "none" /\ file'.stray = <<Halted(mem'.halted)>>
    <3>1. PICK why \in Why \ {"none"} : why = mem'.halted
      BY <2>4, <2>7
    <3>2. Halted(why) \in CanaryRecord /\ Excused(Halted(why))'
      BY HaltedExcused
    <3>3. file'.stray = <<Halted(why)>>
      BY <2>7, <3>1
    <3> QED BY <2>1, <2>5, <3>2, <3>3, LoudStray
  <2>8. CASE fate[t] \in Mined /\ missed' = missed \cup {t} /\ file'.stray = <<r>>
    <3>1. Excused(r)'
      <4>1. r.kind # "reset" /\ r.tx \in missed' /\ fate'[r.tx] \in Mined
        BY <2>1, <2>3, <2>8 DEF EndKind
      <4> QED BY <2>3, <4>1 DEF Excused
    <3> QED BY <2>1, <2>5, <2>8, <3>1, LoudStray
  <2> QED BY <2>5, <2>6, <2>7, <2>8
<1> QED
  BY <1>2, <1>3, <1>4, <1>5, <1>6, <1>8, <1>9, <1>10, <1>11, <1>12, <1>13, <1>14
     DEF Next, CaptureStep, HeadStep, Boot

-----------------------------------------------------------------------------
(* Nothing that was sent is forgotten.                                     *)

\* A transaction that left is open on disk, or was mined and has its outcome
\* there.
Remembered(t) ==
  fate[t] \notin {"none", "dead"} =>
    \/ t \in Kept.open
    \/ fate[t] \in Mined /\ OutcomeOf(ledger, t, Settled(t))

\* It is so of every transaction; the one about to be handed off is open on disk
\* and in memory; and a running process has open whatever may still land.
KnownInv ==
  /\ \A t \in Tx : Remembered(t)
  /\ send.pc = "written" => send.tx \in Kept.open /\ send.tx \in mem.open
  /\ stage # "down" => \A t \in Tx : InFlight(t) => t \in mem.open

\* What the next open reads remembers it too.
LEMMA KnownMeans == TypeInv /\ StrayInv /\ KnownInv => NothingForgotten
<1> SUFFICES ASSUME TypeInv, StrayInv, KnownInv, NEW t \in Tx, fate[t] \notin {"none", "dead"}
             PROVE  \/ t \in Replay(Legible).open
                    \/ fate[t] \in Mined /\ OutcomeOf(Legible, t, Settled(t))
  BY DEF NothingForgotten
<1>1. LedgerType /\ ledger \in Seq(CanaryRecord) /\ Kept \in Totals
  BY ReplayType DEF TypeInv, CanaryTypes, LedgerType, Kept
<1>2. t \in Kept.open \/ (fate[t] \in Mined /\ OutcomeOf(ledger, t, Settled(t)))
  BY DEF KnownInv, Remembered
<1>3. CASE file.stray = <<>> /\ Legible = ledger
  BY <1>2, <1>3 DEF Kept
<1>4. ASSUME NEW r \in CanaryRecord, file.stray = <<r>>, Legible = Append(ledger, r)
      PROVE  \/ t \in Replay(Legible).open
             \/ fate[t] \in Mined /\ OutcomeOf(Legible, t, Settled(t))
  <2>1. Replay(Legible) = Apply(Kept, r) /\ Excused(r)
    BY <1>1, <1>4, ReplayAppend DEF Kept, StrayInv
  <2>2. Apply(Kept, r).open = IF r.kind = "sent" THEN Kept.open \cup {r.tx}
                              ELSE IF r.kind \in EndKind THEN Kept.open \ {r.tx} ELSE Kept.open
    BY <1>1, ApplyShape
  <2>3. Len(Legible) = Len(ledger) + 1 /\ Legible[Len(ledger) + 1] = r
        /\ (\A i \in 1..Len(ledger) : i \in 1..Len(Legible) /\ Legible[i] = ledger[i])
        /\ Len(ledger) + 1 \in 1..Len(Legible)
    BY <1>1, <1>4
  <2>4. CASE OutcomeOf(ledger, t, Settled(t)) /\ fate[t] \in Mined
    BY <2>3, <2>4 DEF OutcomeOf
  <2>5. CASE t \in Kept.open
    <3>1. CASE r.kind \in EndKind /\ r.tx = t
      <4>1. fate[t] \in Mined /\ r.kind = Settled(t)
        BY <2>1, <3>1 DEF Excused
      <4>2. OutcomeOf(Legible, t, Settled(t))
        BY <2>3, <3>1, <4>1 DEF OutcomeOf
      <4> QED BY <4>1, <4>2
    <3>2. CASE ~(r.kind \in EndKind /\ r.tx = t)
      BY <2>1, <2>2, <2>5, <3>2
    <3> QED BY <3>1, <3>2
  <2> QED BY <1>2, <2>4, <2>5
<1> QED BY <1>1, <1>3, <1>4, LegibleIs

LEMMA KnownInit == Init => KnownInv
BY DEF Init, KnownInv, Remembered, Idle

\* A ledger that grew and closed nothing of t remembers t.
LEMMA StaysRemembered ==
  ASSUME NEW t \in Tx, Remembered(t), Grew, Len(ledger) \in Nat, Len(ledger') \in Nat,
         fate'[t] = fate[t], t \in Kept.open => t \in Kept'.open
  PROVE  Remembered(t)'
<1>1. CASE fate[t] \notin {"none", "dead"} /\ t \notin Kept.open
  <2>1. fate[t] \in Mined /\ OutcomeOf(ledger, t, Settled(t)) /\ Settled(t)' = Settled(t)
    BY <1>1 DEF Remembered, Settled
  <2>2. PICK i \in 1..Len(ledger) : ledger[i].kind = Settled(t) /\ ledger[i].tx = t
    BY <2>1 DEF OutcomeOf
  <2>3. i \in 1..Len(ledger') /\ ledger'[i] = ledger[i]
    BY <2>2 DEF Grew
  <2>4. OutcomeOf(ledger, t, Settled(t))'
    BY <2>1, <2>2, <2>3 DEF OutcomeOf
  <2> QED BY <2>1, <2>4 DEF Remembered
<1>2. CASE fate[t] \in {"none", "dead"} \/ t \in Kept.open
  BY <1>2 DEF Remembered
<1> QED BY <1>1, <1>2

\* A ledger left alone has grown by nothing.
LEMMA SameLedger ==
  ASSUME LedgerType, UNCHANGED ledger
  PROVE  Grew /\ Kept' = Kept /\ Len(ledger) \in Nat /\ Len(ledger') \in Nat
BY DEF Grew, Kept, LedgerType

\* Every step that appends at most a Halted or a reset record, and takes no
\* transaction further than the chain does.
LEMMA QuietKnown ==
  ASSUME TypeInv, TypeInv', KnownInv,
         Halts(ledger) \/ ledger' = Append(ledger, ResetRecord),
         \A t \in Tx : \/ fate'[t] = fate[t]
                       \/ fate[t] = "wire" /\ fate'[t] = "pending"
                       \/ fate[t] = "pending" /\ fate'[t] \in Mined \cup {"dead"},
         send'.pc = "written" => UNCHANGED <<send, mem>>,
         stage' # "down" => UNCHANGED stage /\ mem'.open = mem.open
  PROVE  KnownInv'
<1>1. LedgerType /\ LedgerType' /\ mem' \in Totals /\ ledger \in Seq(CanaryRecord)
  BY DEF TypeInv, CanaryTypes, LedgerType
<1>2. Kept'.open = Kept.open /\ Grew
  <2>1. CASE Halts(ledger)
    BY <1>1, <2>1, HaltsKeep DEF Kept, Grew
  <2>2. CASE ledger' = Append(ledger, ResetRecord)
    <3>1. ResetRecord \in CanaryRecord /\ ResetRecord.kind = "reset"
      BY DEF CanaryRecord, ResetRecord
    <3> QED BY <1>1, <2>2, <3>1, GrowsBy DEF EndKind
  <2> QED BY <2>1, <2>2
<1>3. Len(ledger) \in Nat /\ Len(ledger') \in Nat
  BY <1>1 DEF LedgerType
<1>4. ASSUME NEW t \in Tx PROVE Remembered(t)'
  <2>1. CASE fate'[t] = fate[t]
    BY <1>2, <1>3, <2>1, StaysRemembered DEF KnownInv
  <2>2. CASE fate[t] \in {"wire", "pending"}
    BY <1>2, <2>2 DEF KnownInv, Remembered, Mined
  <2> QED BY <2>1, <2>2
<1>5. send'.pc = "written" => send'.tx \in Kept'.open /\ send'.tx \in mem'.open
  BY <1>2 DEF KnownInv
<1>6. stage' # "down" => \A t \in Tx : InFlight(t)' => t \in mem'.open
  BY DEF KnownInv, InFlight, Mined
<1> QED BY <1>4, <1>5, <1>6 DEF KnownInv

\* What settling or finding out leaves of the other transactions.
LEMMA OutcomeKnown ==
  ASSUME TypeInv, KnownInv, NEW t \in Tx, NEW kind \in OutcomeKind, NEW l,
         l \in {ledger, Append(ledger, Outcome(t, kind))}, l \in Seq(CanaryRecord),
         mem' \in Totals, Halts(l), mem'.open = mem.open \/ mem'.open = mem.open \ {t},
         \A u \in Tx : u # t => fate'[u] = fate[u]
  PROVE  \A u \in Tx : u # t => Remembered(u)' /\ (stage # "down" /\ InFlight(u)' => u \in mem'.open)
<1>1. LedgerType /\ ledger \in Seq(CanaryRecord)
  BY DEF TypeInv, CanaryTypes, LedgerType
<1>2. Outcome(t, kind) \in CanaryRecord /\ Outcome(t, kind).kind = kind /\ Outcome(t, kind).tx = t
  BY RecordsAre DEF CanaryRecord
<1>3. /\ Kept.open \ {t} \subseteq Kept'.open
      /\ Len(l) <= Len(ledger') /\ \A i \in 1..Len(l) : ledger'[i] = l[i]
  <2>1. Kept'.open = Replay(l).open
        /\ Len(l) <= Len(ledger') /\ \A i \in 1..Len(l) : ledger'[i] = l[i]
    BY HaltsKeep
  <2>2. Kept.open \ {t} \subseteq Replay(l).open
    <3>1. CASE l = ledger
      BY <3>1 DEF Kept
    <3>2. CASE l = Append(ledger, Outcome(t, kind))
      <4>1. Replay(l) = Apply(Kept, Outcome(t, kind)) /\ Kept \in Totals
        BY <1>1, <1>2, <3>2, ReplayAppend, ReplayType DEF Kept
      <4>2. Apply(Kept, Outcome(t, kind)).open
                = IF kind = "sent" THEN Kept.open \cup {t}
                  ELSE IF kind \in EndKind THEN Kept.open \ {t} ELSE Kept.open
        <5> DEFINE o == Outcome(t, kind)
                   k == Kept
        <5>1. o \in CanaryRecord /\ o.kind = kind /\ o.tx = t /\ k \in Totals
          BY <1>2, <4>1
        <5> HIDE DEF o, k
        <5>2. Apply(k, o).open = IF o.kind = "sent" THEN k.open \cup {o.tx}
                                 ELSE IF o.kind \in EndKind THEN k.open \ {o.tx} ELSE k.open
          BY <5>1, ApplyShape
        <5>3. Apply(k, o).open = IF kind = "sent" THEN k.open \cup {t}
                                 ELSE IF kind \in EndKind THEN k.open \ {t} ELSE k.open
          BY <5>1, <5>2
        <5> QED BY <5>3 DEF o, k
      <4> QED BY <4>1, <4>2
    <3> QED BY <3>1, <3>2
  <2> QED BY <2>1, <2>2
<1>4. Grew /\ Len(ledger) \in Nat /\ Len(ledger') \in Nat
  <2>1. Len(ledger) <= Len(l) /\ (\A i \in 1..Len(ledger) : l[i] = ledger[i]) /\ Len(l) \in Nat
    BY <1>1, <1>2
  <2>2. Len(ledger) \in Nat
    BY <1>1
  <2>3. ledger' \in Seq(CanaryRecord)
    BY HaltedIs DEF Halts, Totals
  <2> QED BY <1>3, <2>1, <2>2, <2>3 DEF Grew
<1> SUFFICES ASSUME NEW u \in Tx, u # t
             PROVE  Remembered(u)' /\ (stage # "down" /\ InFlight(u)' => u \in mem'.open)
  OBVIOUS
<1>5. Remembered(u)'
  BY <1>3, <1>4, StaysRemembered DEF KnownInv
<1>6. stage # "down" /\ InFlight(u)' => u \in mem'.open
  BY DEF KnownInv, InFlight
<1> QED BY <1>5, <1>6

\* A refusal, a silence or a receipt, settled by the capture loop.
LEMMA SettleKnown ==
  ASSUME TypeInv, TypeInv', KnownInv, NEW t \in Tx, NEW kind \in OutcomeKind, NEW e,
         Settle(t, kind, e), send.pc \in {"asked", "watched"}, stage = "up", stage' = "up",
         \A u \in Tx : u # t => fate'[u] = fate[u],
         \/ kind = "refused" /\ fate'[t] = "dead"
         \/ kind \in {"silent", "unresolved"} /\ fate'[t] = fate[t]
         \/ kind = Settled(t) /\ fate[t] \in Mined /\ fate'[t] = fate[t]
  PROVE  KnownInv'
<1> DEFINE r == Outcome(t, kind)
<1>1. LedgerType /\ ledger \in Seq(CanaryRecord) /\ mem \in Totals /\ mem' \in Totals /\ ledger' \in Seq(CanaryRecord)
  BY DEF TypeInv, CanaryTypes, LedgerType
<1>2. r \in CanaryRecord /\ r.kind = kind /\ r.tx = t /\ kind # "sent"
  BY RecordsAre DEF CanaryRecord, OutcomeKind, EndKind
<1>3. /\ \/ ledger' = Append(ledger, r) /\ mem' = Apply(mem, r)
         \/ ledger' \in {ledger, Append(ledger, r)} /\ mem' = mem
      /\ send'.pc \in {"halting", "closing"} /\ send'.tx = t
  BY <1>1, SettleShape
<1> HIDE DEF r
<1>4. Apply(mem, r).open = IF kind \in EndKind THEN mem.open \ {t} ELSE mem.open
  BY <1>1, <1>2, ApplyShape
<1>5. mem'.open = mem.open \/ (kind \in EndKind /\ mem'.open = mem.open \ {t})
  BY <1>3, <1>4
<1>6. \A u \in Tx : u # t => Remembered(u)' /\ (stage # "down" /\ InFlight(u)' => u \in mem'.open)
  <2>1. ledger' \in {ledger, Append(ledger, Outcome(t, kind))} /\ Halts(ledger')
    BY <1>3 DEF Halts, r
  <2> QED BY <1>1, <1>5, <2>1, OutcomeKnown
<1>7. Remembered(t)'
  <2>1. CASE ledger' = ledger
    <3>1. CASE fate'[t] = fate[t]
      <4>1. Grew /\ Kept' = Kept /\ Len(ledger) \in Nat /\ Len(ledger') \in Nat
        BY <1>1, <2>1, SameLedger
      <4> QED BY <3>1, <4>1, StaysRemembered DEF KnownInv
    <3>2. CASE fate'[t] = "dead"
      BY <3>2 DEF Remembered
    <3> QED BY <3>1, <3>2
  <2>2. CASE ledger' = Append(ledger, r)
    <3>1. /\ Kept'.open = IF kind \in EndKind THEN Kept.open \ {t} ELSE Kept.open
          /\ Grew /\ \E i \in 1..Len(ledger') : ledger'[i] = r
      BY <1>1, <1>2, <2>2, GrowsBy
    <3>2. CASE kind = "refused"
      BY <3>2 DEF Remembered, Settled
    <3>3. CASE kind \in {"silent", "unresolved"}
      <4>1. Kept'.open = Kept.open
        BY <3>1, <3>3 DEF EndKind
      <4>2. fate'[t] = fate[t] /\ Remembered(t)
        BY <3>3 DEF Settled, KnownInv
      <4>3. Len(ledger) \in Nat /\ Len(ledger') \in Nat
        BY <1>1
      <4> QED BY <3>1, <4>1, <4>2, <4>3, StaysRemembered
    <3>4. CASE kind = Settled(t) /\ fate[t] \in Mined /\ fate'[t] = fate[t]
      <4>1. Settled(t)' = kind
        BY <3>4 DEF Settled
      <4>2. OutcomeOf(ledger, t, Settled(t))'
        BY <1>2, <3>1, <4>1 DEF OutcomeOf
      <4> QED BY <3>4, <4>2 DEF Remembered
    <3> QED BY <3>2, <3>3, <3>4
  <2> QED BY <1>3, <2>1, <2>2
<1>8. InFlight(t)' => t \in mem'.open
  <2>1. CASE kind \in {"silent", "unresolved"} /\ fate'[t] = fate[t]
    <3>1. mem'.open = mem.open
      BY <1>5, <2>1 DEF EndKind
    <3> QED BY <2>1, <3>1 DEF KnownInv, InFlight
  <2>2. CASE fate'[t] = "dead" \/ fate'[t] \in Mined
    BY <2>2 DEF InFlight, Mined
  <2> QED BY <2>1, <2>2
<1> QED BY <1>3, <1>6, <1>7, <1>8 DEF KnownInv

LEMMA KnownStep ==
  ASSUME TypeInv, TypeInv', SendInv, StrayInv, KnownInv, [Next]_vars
  PROVE  KnownInv'
<1>1. CanaryTypes /\ OnlyWhenUp /\ LedgerType /\ mem \in Totals /\ mem' \in Totals
      /\ ledger \in Seq(CanaryRecord) /\ fate \in [Tx -> Fates]
  BY DEF TypeInv, CanaryTypes, LedgerType, ChainType
<1>2. ASSUME NEW t \in Tx, Admit(t) \/ CheckHold(t) \/ Close(t) PROVE KnownInv'
  <2>1. UNCHANGED <<ledger, mem, fate, stage>> /\ send'.pc # "written"
    BY <1>2 DEF Admit, CheckHold, Close, Goes, Ends, Idle, ledgerVars, chainVars, bootVars
  <2> QED BY <2>1, QuietKnown DEF Halts
<1>3. ASSUME NEW t \in Tx, WriteAhead(t) PROVE KnownInv'
  <2>1. Sent(t) \in CanaryRecord /\ Sent(t).kind = "sent" /\ Sent(t).tx = t
    BY RecordsAre DEF CanaryRecord
  <2>2. UNCHANGED <<fate, stage>>
    BY <1>3 DEF WriteAhead, chainVars, bootVars
  <2>3. /\ \/ ledger' = Append(ledger, Sent(t)) /\ mem' = Apply(mem, Sent(t))
           \/ ledger' \in {ledger, Append(ledger, Sent(t))} /\ mem' = mem /\ send'.pc = "closing"
        /\ send'.tx = t
    BY <1>1, <1>3, <2>1, RecordedIs, UnrecordedIs DEF WriteAhead, Goes, Ends
  <2>4. ledger' = Append(ledger, Sent(t)) => Kept'.open = Kept.open \cup {t} /\ Grew
    BY <1>1, <2>1, GrowsBy
  <2>5. ledger' = ledger => Kept'.open = Kept.open /\ Grew
    BY <1>1, SameLedger
  <2>6. mem' = Apply(mem, Sent(t)) => mem'.open = mem.open \cup {t}
    BY <1>1, <2>1, ApplyShape
  <2>7. ASSUME NEW u \in Tx PROVE Remembered(u)'
    <3>1. Len(ledger) \in Nat /\ Len(ledger') \in Nat
      BY DEF TypeInv, CanaryTypes, LedgerType
    <3>2. Grew /\ (u \in Kept.open => u \in Kept'.open) /\ fate'[u] = fate[u]
      BY <2>2, <2>3, <2>4, <2>5
    <3> QED BY <3>1, <3>2, StaysRemembered DEF KnownInv
  <2>8. send'.pc = "written" => send'.tx \in Kept'.open /\ send'.tx \in mem'.open
    BY <2>3, <2>4, <2>6
  <2>9. stage' # "down" => \A u \in Tx : InFlight(u)' => u \in mem'.open
    BY <2>2, <2>3, <2>6 DEF KnownInv, InFlight
  <2> QED BY <2>7, <2>8, <2>9 DEF KnownInv
<1>4. ASSUME NEW t \in Tx, HandOff(t) PROVE KnownInv'
  <2>1. /\ send.pc = "written" /\ send.tx = t /\ UNCHANGED <<ledger, mem, stage>>
        /\ fate' = [fate EXCEPT ![t] = "wire"] /\ send'.pc = "asked"
    BY <1>4 DEF HandOff, At, Goes, ledgerVars, bootVars
  <2>2. t \in Kept.open /\ t \in mem.open /\ Kept' = Kept /\ Grew
        /\ Len(ledger) \in Nat /\ Len(ledger') \in Nat
    BY <1>1, <2>1, SameLedger DEF KnownInv
  <2>3. fate'[t] = "wire" /\ \A u \in Tx : u # t => fate'[u] = fate[u]
    BY <1>1, <2>1
  <2>4. ASSUME NEW u \in Tx PROVE Remembered(u)'
    <3>1. CASE u = t
      BY <2>2, <3>1 DEF Remembered
    <3>2. CASE u # t
      BY <2>2, <2>3, <3>2, StaysRemembered DEF KnownInv
    <3> QED BY <3>1, <3>2
  <2>5. \A u \in Tx : stage' # "down" /\ InFlight(u)' => u \in mem'.open
    BY <2>1, <2>2, <2>3 DEF KnownInv, InFlight
  <2> QED BY <2>1, <2>4, <2>5 DEF KnownInv
<1>5. ASSUME NEW t \in Tx, Answer(t) PROVE KnownInv'
  <2>1. send.pc = "asked" /\ stage = "up" /\ stage' = "up"
    BY <1>1, <1>5 DEF Answer, At, OnlyWhenUp, Idle, bootVars
  <2>2. CASE Goes("watched", t) /\ UNCHANGED <<ledgerVars, mem, fate>>
    <3>1. UNCHANGED <<ledger, mem, fate, stage>> /\ send'.pc = "watched"
      BY <2>1, <2>2 DEF Goes, ledgerVars
    <3> QED BY <3>1, QuietKnown DEF Halts
  <2>3. CASE Settle(t, "refused", "rejected") /\ fate' = [fate EXCEPT ![t] = "dead"]
    <3>1. fate'[t] = "dead" /\ \A u \in Tx : u # t => fate'[u] = fate[u]
      BY <1>1, <2>3
    <3> QED BY <2>1, <2>3, <3>1, SettleKnown DEF OutcomeKind, EndKind
  <2>4. CASE Settle(t, "silent", "unanswered") /\ UNCHANGED fate
    BY <2>1, <2>4, SettleKnown DEF OutcomeKind, EndKind
  <2> QED BY <1>5, <2>2, <2>3, <2>4 DEF Answer
<1>6. ASSUME NEW t \in Tx, Observe(t) PROVE KnownInv'
  <2>1. send.pc = "watched" /\ stage = "up" /\ stage' = "up" /\ UNCHANGED fate
    BY <1>1, <1>6 DEF Observe, At, OnlyWhenUp, Idle, bootVars, chainVars
  <2>2. CASE fate[t] \in Mined /\ Settle(t, Settled(t), Ending(t))
    <3>1. Settled(t) \in OutcomeKind
      BY RecordsAre DEF OutcomeKind, EndKind
    <3> QED BY <2>1, <2>2, <3>1, SettleKnown
  <2>3. CASE Settle(t, "unresolved", "timeout")
    BY <2>1, <2>3, SettleKnown DEF OutcomeKind, EndKind
  <2>4. CASE Lapses(t)
    <3>1. UNCHANGED <<ledger, mem, fate, stage>> /\ send'.pc = "closing"
      BY <2>1, <2>4 DEF Lapses, Ends
    <3> QED BY <3>1, QuietKnown DEF Halts
  <2> QED BY <1>6, <2>2, <2>3, <2>4 DEF Observe
<1>7. ASSUME NEW t \in Tx, RecordHalt(t) PROVE KnownInv'
  <2>1. UNCHANGED <<mem, fate, stage>> /\ send'.pc = "closing" /\ WriteHalt /\ mem.halted # "none"
    BY <1>1, <1>7 DEF RecordHalt, At, Ends, chainVars, bootVars, CanaryTypes, HaltsOnCause
  <2> QED BY <1>1, <2>1, WriteHaltIs, QuietKnown
<1>8. ASSUME ReadNonce PROVE KnownInv'
  <2>1. UNCHANGED <<ledger, fate, stage, send>>
    BY <1>8 DEF ReadNonce, ledgerVars, chainVars, bootVars
  <2>2. mem' \in {mem, Trip(mem, "tripwire")}
    BY <1>8 DEF ReadNonce
  <2>3. Trip(mem, "tripwire").open = mem.open
    BY <1>1, TripShape DEF Why
  <2>4. mem'.open = mem.open
    BY <2>2, <2>3
  <2>5. Kept' = Kept /\ Grew /\ Len(ledger) \in Nat /\ Len(ledger') \in Nat
    BY <1>1, <2>1, SameLedger
  <2>6. \A t \in Tx : Remembered(t)'
    BY <2>1, <2>5, StaysRemembered DEF KnownInv
  <2> QED BY <2>1, <2>4, <2>5, <2>6 DEF KnownInv, InFlight
<1>9. ASSUME RecordTripwire PROVE KnownInv'
  <2>1. UNCHANGED <<mem, fate, stage, send>> /\ WriteHalt /\ mem.halted # "none"
    BY <1>1, <1>9 DEF RecordTripwire, chainVars, bootVars, CanaryTypes, HaltsOnCause
  <2> QED BY <1>1, <2>1, WriteHaltIs, QuietKnown
<1>10. ASSUME ChainStep PROVE KnownInv'
  <2>1. UNCHANGED <<ledger, mem, stage, send>>
    BY <1>10 DEF ChainStep, ledgerVars, bootVars
  <2>2. \A u \in Tx : \/ fate'[u] = fate[u]
                      \/ fate[u] = "wire" /\ fate'[u] = "pending"
                      \/ fate[u] = "pending" /\ fate'[u] \in Mined \cup {"dead"}
    BY <1>1, <1>10, ChainEffect
  <2> QED BY <2>1, <2>2, QuietKnown DEF Halts
<1>11. ASSUME Crash PROVE KnownInv'
  <2>1. UNCHANGED <<ledger, fate>> /\ stage' = "down" /\ send'.pc = "idle"
    BY <1>1, <1>11, CrashFile DEF Crash, Idle, chainVars
  <2> QED BY <2>1, QuietKnown DEF Halts
<1>12. ASSUME OperatorReset PROVE KnownInv'
  <2>1. ledger' = Append(ledger, ResetRecord) /\ UNCHANGED <<mem, fate, stage, send>>
    BY <1>1, <1>12, ResetFile DEF OperatorReset, chainVars, bootVars
  <2> QED BY <2>1, QuietKnown
<1>13. ASSUME Open PROVE KnownInv'
  <2>1. UNCHANGED <<ledger, fate, send>> /\ mem' = Replay(Legible) /\ send.pc = "idle"
    BY <1>1, <1>13 DEF Open, OnlyWhenUp, Idle, ledgerVars, chainVars
  <2>2. Kept' = Kept /\ Grew /\ Len(ledger) \in Nat /\ Len(ledger') \in Nat
    BY <1>1, <2>1, SameLedger
  <2>3. \A t \in Tx : Remembered(t)'
    BY <2>1, <2>2, StaysRemembered DEF KnownInv
  <2>4. ASSUME NEW t \in Tx, InFlight(t) PROVE t \in mem'.open
    <3>1. t \in Kept.open /\ Kept \in Totals
      BY <1>1, <2>4, ReplayType DEF KnownInv, Remembered, InFlight, Mined, Kept
    <3>2. ASSUME NEW r \in CanaryRecord, file.stray = <<r>>, mem' = Apply(Kept, r) PROVE t \in mem'.open
      <4>1. Excused(r)
        BY <3>2 DEF StrayInv
      <4>2. ~(r.kind \in EndKind /\ r.tx = t)
        BY <2>4, <4>1 DEF Excused, InFlight, Mined
      <4>3. Apply(Kept, r).open = IF r.kind = "sent" THEN Kept.open \cup {r.tx}
                                  ELSE IF r.kind \in EndKind THEN Kept.open \ {r.tx} ELSE Kept.open
        BY <3>1, ApplyShape
      <4> QED BY <3>1, <3>2, <4>2, <4>3
    <3> QED BY <1>1, <2>1, <3>1, <3>2, OpenedIs
  <2> QED BY <2>1, <2>3, <2>4 DEF KnownInv, InFlight
<1>14. ASSUME NEW t \in Tx, ResolveOpen(t) PROVE KnownInv'
  <2> DEFINE r == Outcome(t, Settled(t))
  <2>1. UNCHANGED <<fate, stage, send>> /\ send.pc = "idle" /\ stage = "resolving"
    BY <1>1, <1>14 DEF ResolveOpen, OnlyWhenUp, Idle, chainVars
  <2>2. Settled(t) \in OutcomeKind /\ Settled(t) \in EndKind
    BY RecordsAre DEF OutcomeKind, EndKind
  <2>3. r \in CanaryRecord /\ r.kind = Settled(t) /\ r.tx = t /\ Append(ledger, r) \in Seq(CanaryRecord)
    BY <1>1, <2>2, RecordsAre DEF CanaryRecord
  <2>4. \/ fate[t] \in Mined /\ (mem' = Apply(mem, r) \/ mem' \in {mem, Trip(mem, "unresolved")})
           /\ (Halts(ledger) \/ Halts(Append(ledger, r)))
        \/ mem' = Trip(mem, "unresolved") /\ Halts(ledger)
    BY <1>1, <1>14, ResolveShape
  <2> HIDE DEF r
  <2>5. Apply(mem, r).open = mem.open \ {t}
    BY <1>1, <2>2, <2>3, ApplyShape DEF EndKind
  <2>6. Trip(mem, "unresolved").open = mem.open
    BY <1>1, TripShape DEF Why
  <2>7. CASE Halts(ledger) /\ mem'.open = mem.open
    BY <2>1, <2>7, QuietKnown
  <2>8. CASE fate[t] \in Mined /\ (Halts(ledger) \/ Halts(Append(ledger, r)))
             /\ mem'.open \in {mem.open, mem.open \ {t}}
    <3>1. PICK l \in {ledger, Append(ledger, r)} : Halts(l)
      BY <2>8
    <3>2. l \in Seq(CanaryRecord) /\ l \in {ledger, Append(ledger, Outcome(t, Settled(t)))}
      BY <1>1, <2>3 DEF r
    <3>3. \A u \in Tx : u # t => Remembered(u)' /\ (stage # "down" /\ InFlight(u)' => u \in mem'.open)
      BY <1>1, <2>1, <2>2, <2>8, <3>1, <3>2, OutcomeKnown
    <3>4. Len(l) <= Len(ledger') /\ (\A i \in 1..Len(l) : ledger'[i] = l[i])
          /\ Kept'.open = Replay(l).open
      BY <1>1, <3>1, <3>2, HaltsKeep
    <3>5. Remembered(t)'
      <4>1. CASE l = ledger
        <5>1. Grew /\ Len(ledger) \in Nat /\ Len(ledger') \in Nat /\ Kept'.open = Kept.open
          <6>1. Kept'.open = Kept.open /\ Grew
            BY <3>4, <4>1 DEF Kept, Grew
          <6>2. Len(ledger) \in Nat /\ Len(ledger') \in Nat
            BY DEF TypeInv, CanaryTypes, LedgerType
          <6> QED BY <6>1, <6>2
        <5> QED BY <2>1, <5>1, StaysRemembered DEF KnownInv
      <4>2. CASE l = Append(ledger, r)
        <5>1. Len(l) = Len(ledger) + 1 /\ l[Len(ledger) + 1] = r /\ Len(ledger) \in Nat
          BY <1>1, <2>3, <4>2
        <5>2. Len(ledger') \in Nat
          BY DEF TypeInv, CanaryTypes, LedgerType
        <5>3. Len(ledger) + 1 \in 1..Len(ledger') /\ ledger'[Len(ledger) + 1] = r
          BY <3>4, <5>1, <5>2
        <5>4. Settled(t)' = Settled(t) /\ fate'[t] \in Mined
          BY <2>1, <2>8 DEF Settled
        <5>5. OutcomeOf(ledger, t, Settled(t))'
          BY <2>3, <5>3, <5>4 DEF OutcomeOf
        <5> QED BY <5>4, <5>5 DEF Remembered
      <4> QED BY <3>1, <4>1, <4>2
    <3>6. ~InFlight(t)'
      BY <2>1, <2>8 DEF InFlight, Mined
    <3> QED BY <2>1, <3>3, <3>5, <3>6 DEF KnownInv
  <2> QED BY <2>4, <2>5, <2>6, <2>7, <2>8
<1>15. ASSUME BootCloses \/ UNCHANGED vars PROVE KnownInv'
  <2>1. UNCHANGED <<ledger, mem, fate, send>> /\ (stage' # "down" => stage # "down")
    BY <1>15 DEF BootCloses, vars, ledgerVars, chainVars, bootVars
  <2>2. Kept' = Kept /\ Grew /\ Len(ledger) \in Nat /\ Len(ledger') \in Nat
    BY <1>1, <2>1, SameLedger
  <2>3. \A t \in Tx : Remembered(t)'
    BY <2>1, <2>2, StaysRemembered DEF KnownInv
  <2> QED BY <2>1, <2>2, <2>3 DEF KnownInv, InFlight
<1> QED
  BY <1>2, <1>3, <1>4, <1>5, <1>6, <1>7, <1>8, <1>9, <1>10, <1>11, <1>12, <1>13, <1>14, <1>15
     DEF Next, CaptureStep, HeadStep, Boot

\* ledger.rs: "a crash can never leave a sent transaction the canary does not
\* know about".  Whatever left the process and may still land is open in what the
\* next open reads, whatever was mined is open there or has its true outcome.
THEOREM NothingIsForgotten == Spec => []NothingForgotten
<1> DEFINE I == TypeInv /\ SendInv /\ StrayInv /\ KnownInv
<1>1. Init => I
  BY TypeInit, SendInit, StrayInit, KnownInit
<1>2. I /\ [Next]_vars => I'
  BY TypeStep, SendStep, StrayStep, KnownStep
<1>3. I => NothingForgotten
  BY KnownMeans
<1> QED BY <1>1, <1>2, <1>3, PTL DEF Spec
-----------------------------------------------------------------------------
(* The lane: a nonce that was given out is below its mark.                  *)

\* The nonce in hand is; so a send the plane stopped following keeps its own.
LaneInv ==
  /\ send.pc # "idle" => nonceOf[send.tx] < lane.reserved
  /\ send.pc # "idle" /\ send.tx \in lapsed => send.pc = "closing" /\ send.ending = "unjournaled"
  /\ \A t \in lapsed : ticket[t] # "none"

LEMMA LaneInit == Init => LaneInv
BY DEF Init, LaneInv, Idle

\* What one admission makes of the mark.
LEMMA ReserveIs ==
  ASSUME NEW ln \in Lanes, NEW p \in Nat
  PROVE  /\ NextNonce(ln, p) \in Nat /\ NextNonce(ln, p) < Reserve(ln, p, 0).reserved
         /\ ln.reserved <= NextNonce(ln, p)
         /\ ln.reserved <= Reserve(ln, p, 0).reserved
<1>1. ln.reserved \in Nat \cup {Unset} /\ Unset = -1
  BY DEF Lanes, Unset
<1>2. NextNonce(ln, p) \in Nat /\ ln.reserved <= NextNonce(ln, p)
  BY <1>1 DEF NextNonce
<1>3. Reserve(ln, p, 0).reserved = NextNonce(ln, p) + 1
  <2> DEFINE n == NextNonce(ln, p)
             q == Purged(ln, 0) \cup {n}
  <2>1. ln = [reserved |-> ln.reserved, inFlight |-> ln.inFlight, confirmed |-> ln.confirmed]
    BY DEF Lanes
  <2>2. Reserve(ln, p, 0) = [ln EXCEPT !.reserved = n + 1, !.inFlight = q]
    BY DEF Reserve
  <2> HIDE DEF n, q
  <2>3. Reserve(ln, p, 0) = [reserved |-> n + 1, inFlight |-> q, confirmed |-> ln.confirmed]
    BY <2>1, <2>2
  <2> QED BY <2>3 DEF n
<1> QED BY <1>1, <1>2, <1>3

\* What an ending does to the mark: it stays, or goes back to the nonce in hand.
LEMMA MarkAfter ==
  ASSUME LoopType, NEW n \in Nat, NEW e
  PROVE  /\ LaneAfter(n, e).reserved = lane.reserved \/ LaneAfter(n, e).reserved = n
         /\ e = "unjournaled" => LaneAfter(n, e) = lane
<1>0. lane = [reserved |-> lane.reserved, inFlight |-> lane.inFlight, confirmed |-> lane.confirmed]
  BY DEF LoopType, Lanes
<1>1. ReleaseLanded(lane, n).reserved = lane.reserved
  <2> DEFINE c == IF lane.confirmed > n THEN lane.confirmed ELSE n
             q == lane.inFlight \ {n}
  <2>1. ReleaseLanded(lane, n) = [lane EXCEPT !.inFlight = q, !.confirmed = c]
    BY DEF ReleaseLanded
  <2> HIDE DEF c, q
  <2>2. ReleaseLanded(lane, n) = [reserved |-> lane.reserved, inFlight |-> q, confirmed |-> c]
    BY <1>0, <2>1
  <2> QED BY <2>2
<1>2. ReleaseFailed(lane, n).reserved \in {lane.reserved, n}
  <2> DEFINE m == IF \A k \in lane.inFlight \ {n} : k < n THEN n ELSE lane.reserved
             q == lane.inFlight \ {n}
  <2>1. ReleaseFailed(lane, n) = [lane EXCEPT !.inFlight = q, !.reserved = m]
    BY DEF ReleaseFailed
  <2>2. m \in {lane.reserved, n}
    OBVIOUS
  <2> HIDE DEF m, q
  <2>3. ReleaseFailed(lane, n) = [reserved |-> m, inFlight |-> q, confirmed |-> lane.confirmed]
    BY <1>0, <2>1
  <2> QED BY <2>2, <2>3
<1>3. \A b \in BOOLEAN : Release(lane, n, b).reserved \in {lane.reserved, n}
  BY <1>1, <1>2 DEF Release
<1> QED BY <1>3 DEF LaneAfter

LEMMA LaneStep ==
  ASSUME TypeInv, SendInv, LaneInv, [Next]_vars
  PROVE  LaneInv'
<1>1. CanaryTypes /\ OnlyWhenUp /\ lane \in Lanes /\ send.pc \in Pc
      /\ send \in [pc : Pc, tx : Tx \cup {0}, ending : Endings]
      /\ ticket \in [Tx -> {"none", "open", "landed", "reverted", "failed", "never_left"}]
      /\ nonceOf \in [Tx -> Nat \cup {Unset}] /\ lapsed \subseteq Tx /\ LedgerType
  BY DEF TypeInv, CanaryTypes, LoopType, BootType, ChainType, LedgerType
<1>2. ASSUME NEW t \in Tx, Admit(t) PROVE LaneInv'
  <2>1. PICK p \in Views : lane' = Reserve(lane, p, 0)
                           /\ nonceOf' = [nonceOf EXCEPT ![t] = NextNonce(lane, p)]
    BY <1>2 DEF Admit
  <2>2. p \in Nat
    BY <1>1, <2>1, ViewsAre DEF CanaryTypes
  <2>3. nonceOf'[t] < lane'.reserved
    BY <1>1, <2>1, <2>2, ReserveIs
  <2>4. /\ send'.tx = t /\ ticket[t] = "none" /\ UNCHANGED lapsed
        /\ \A u \in Tx : ticket[u] # "none" => ticket'[u] # "none"
    BY <1>1, <1>2 DEF Admit, Goes, ledgerVars
  <2> QED BY <1>1, <2>3, <2>4 DEF LaneInv
<1>3. ASSUME NEW t \in Tx, CheckHold(t) \/ WriteAhead(t) \/ HandOff(t) \/ Answer(t) \/ RecordHalt(t)
      PROVE  LaneInv'
  <2>1. /\ send.tx = t /\ send.pc \notin {"idle", "closing"} /\ UNCHANGED <<lane, nonceOf, ticket>>
    BY <1>3 DEF CheckHold, WriteAhead, HandOff, Answer, RecordHalt, At
  <2>2. send'.tx = t /\ UNCHANGED lapsed
    BY <1>3, SettleMoves DEF CheckHold, WriteAhead, HandOff, Answer, RecordHalt, Goes, Ends, ledgerVars,
                Recorded, Unrecorded, WriteHalt
  <2> QED BY <2>1, <2>2 DEF LaneInv
<1>4. ASSUME NEW t \in Tx, Observe(t) PROVE LaneInv'
  <2>1. send.tx = t /\ send.pc = "watched" /\ UNCHANGED <<lane, nonceOf, ticket>>
    BY <1>4 DEF Observe, At
  <2>2. \/ send'.tx = t /\ UNCHANGED lapsed
        \/ send'.tx = t /\ lapsed' = lapsed \cup {t} /\ send'.pc = "closing" /\ send'.ending = "unjournaled"
    BY <1>4, SettleMoves DEF Observe, Lapses, Ends
  <2>3. ticket[t] = "open"
    BY <2>1 DEF SendInv
  <2> QED BY <2>1, <2>2, <2>3 DEF LaneInv
<1>5. ASSUME NEW t \in Tx, Close(t) PROVE LaneInv'
  <2>1. send' = Idle /\ UNCHANGED lapsed /\ \A u \in Tx : ticket[u] # "none" => ticket'[u] # "none"
    BY <1>1, <1>5 DEF Close, ledgerVars
  <2> QED BY <1>1, <2>1 DEF LaneInv, Idle
<1>6. ASSUME Crash PROVE LaneInv'
  <2>1. send' = Idle /\ UNCHANGED <<lapsed, ticket>>
    BY <1>6 DEF Crash
  <2> QED BY <2>1 DEF LaneInv, Idle
<1>7. ASSUME BootCloses PROVE LaneInv'
  <2>1. send.pc = "idle" /\ UNCHANGED <<send, lapsed>> /\ \A u \in Tx : ticket[u] # "none" => ticket'[u] # "none"
    BY <1>1, <1>7 DEF BootCloses, OnlyWhenUp, Idle, ledgerVars
  <2> QED BY <1>1, <2>1 DEF LaneInv
<1>8. ASSUME HeadStep \/ ChainStep \/ OperatorReset \/ Open \/ (\E t \in Tx : ResolveOpen(t)) \/ UNCHANGED vars
      PROVE  LaneInv'
  <2>1. UNCHANGED <<send, lane, nonceOf, ticket, lapsed>>
    BY <1>8 DEF HeadStep, ReadNonce, RecordTripwire, WriteHalt, ChainStep, OperatorReset, Open, ResolveOpen,
                vars, ledgerVars
  <2> QED BY <2>1 DEF LaneInv
<1> QED BY <1>2, <1>3, <1>4, <1>5, <1>6, <1>7, <1>8 DEF Next, CaptureStep, Boot

-----------------------------------------------------------------------------
(* No nonce is in flight twice.                                             *)

\* The capture loop has a send between its record and its answer.
Watching(t) == send.tx = t /\ send.pc \in {"written", "asked", "watched"}

\* The loop is past its last look at the halt, or would pass it.
Running == mem.halted = "none" \/ send.pc \in {"signed", "clear", "written", "asked", "watched"}

\* A send the plane stopped following keeps a nonce below every later one.
Parked(t) ==
  /\ t \in lapsed /\ nonceOf[t] < lane.reserved
  /\ send.pc # "idle" => send.tx = t \/ nonceOf[t] < nonceOf[send.tx]

Pairs ==
  \A t, u \in Tx : t # u /\ InFlight(t) /\ InFlight(u) /\ nonceOf[t] = nonceOf[u] => t \in missed \/ u \in missed

\* While the loop may send, nothing is open but the send in hand, what the ledger
\* refused to close and what was parked; while boot may hand over without a halt,
\* every open send is still to be looked for or was refused its close.
AloneInv ==
  /\ stage = "down" => \A t \in Tx : found[t] = "none"
  /\ stage = "up" /\ Running => \A t \in mem.open : t \in missed \/ Watching(t) \/ Parked(t)
  /\ stage \in {"resolving", "closing"} /\ mem.halted = "none" =>
       \A t \in mem.open : found[t] = "none" \/ t \in missed
  /\ stage = "closing" => ToResolve = {}
  /\ Pairs

LEMMA AloneMeans == AloneInv => NonceNotReused
BY DEF AloneInv, Pairs, InFlight, NonceNotReused

LEMMA AloneInit == Init => AloneInv
BY DEF Init, AloneInv, Pairs, InFlight

\* Nothing is put on the wire and nothing missed is forgotten.
LEMMA PairsKept ==
  ASSUME Pairs, missed \subseteq missed', \A u \in Tx : InFlight(u)' => InFlight(u) /\ nonceOf'[u] = nonceOf[u]
  PROVE  Pairs'
BY DEF Pairs

\* A step of the loop that settles the send it watched, or gives it up.
LEMMA SettleAlone ==
  ASSUME TypeInv, TypeInv', AloneInv, NEW t \in Tx, NEW kind \in OutcomeKind, NEW e,
         Settle(t, kind, e), send.pc \in {"asked", "watched"}, send.tx = t, stage = "up", stage' = "up",
         UNCHANGED <<lane, nonceOf>>,
         \A u \in Tx : InFlight(u)' => InFlight(u)
  PROVE  AloneInv'
<1> DEFINE r == Outcome(t, kind)
<1>1. ledger \in Seq(CanaryRecord) /\ mem \in Totals /\ mem' \in Totals /\ LedgerType
  BY DEF TypeInv, CanaryTypes, LedgerType
<1>2. r \in CanaryRecord /\ r.kind = kind /\ r.tx = t /\ kind # "sent"
  BY RecordsAre DEF CanaryRecord, OutcomeKind, EndKind
<1>3. /\ \/ mem' = Apply(mem, r) /\ missed' = missed
         \/ mem' = mem /\ missed' = missed \cup {t}
      /\ send'.pc \in {"halting", "closing"} /\ send'.tx = t /\ UNCHANGED lapsed
  BY <1>1, <1>2, SettleShape
<1> HIDE DEF r
<1>4. kind \in EndKind => Apply(mem, r).open = mem.open \ {t}
  BY <1>1, <1>2, ApplyShape
<1>5. kind \notin EndKind => Apply(mem, r).halted # "none"
  BY <1>1, <1>2, ApplyShape DEF OutcomeKind
<1>6. \A u \in mem.open : u \in missed \/ u = t \/ Parked(u)
  BY DEF AloneInv, Running, Watching
<1>7. \A u \in Tx : u # t /\ Parked(u) => Parked(u)'
  BY <1>3 DEF Parked
<1>8. mem.open \subseteq Tx
  BY <1>1 DEF Totals
<1>9. stage' = "up" /\ Running' => \A u \in mem'.open : u \in missed' \/ Parked(u)'
  <2>1. SUFFICES ASSUME mem'.halted = "none", NEW u \in mem'.open PROVE u \in missed' \/ Parked(u)'
    BY <1>3 DEF Running
  <2>2. CASE mem' = Apply(mem, r) /\ missed' = missed
    BY <1>4, <1>5, <1>6, <1>7, <1>8, <2>1, <2>2
  <2>3. CASE mem' = mem /\ missed' = missed \cup {t}
    BY <1>6, <1>7, <1>8, <2>3
  <2> QED BY <1>3, <2>2, <2>3
<1>10. Pairs'
  <2>1. missed \subseteq missed'
    BY <1>3
  <2> QED BY <2>1, PairsKept DEF AloneInv
<1> QED BY <1>9, <1>10 DEF AloneInv

LEMMA AloneStep ==
  ASSUME TypeInv, TypeInv', SendInv, LaneInv, KnownInv, AloneInv, [Next]_vars
  PROVE  AloneInv'
<1>1. CanaryTypes /\ OnlyWhenUp /\ mem \in Totals /\ mem' \in Totals /\ fate \in [Tx -> Fates]
      /\ found \in [Tx -> Finding] /\ LedgerType /\ lane \in Lanes /\ lapsed \subseteq Tx
      /\ nonceOf \in [Tx -> Nat \cup {Unset}] /\ mem.open \subseteq Tx
  BY DEF TypeInv, CanaryTypes, LedgerType, ChainType, BootType, LoopType, Totals
<1>2. ASSUME NEW t \in Tx, CheckHold(t) PROVE AloneInv'
  <2>1. stage = "up" /\ UNCHANGED <<mem, missed, lapsed, fate, stage, lane, nonceOf>> /\ send.tx = t /\ send'.tx = t
        /\ send.pc # "idle"
    BY <1>1, <1>2 DEF CheckHold, At, Goes, Ends, OnlyWhenUp, Idle, ledgerVars, chainVars, bootVars
  <2>2. Running' => Running
    BY <1>2, <2>1 DEF CheckHold, At, Goes, Ends, Running
  <2>3. \A u \in mem.open : ~Watching(u)
    BY <1>2 DEF CheckHold, At, Watching
  <2>4. \A u \in Tx : Parked(u) => Parked(u)'
    BY <2>1 DEF Parked
  <2> QED BY <1>1, <2>1, <2>2, <2>3, <2>4, PairsKept DEF AloneInv, InFlight
<1>17. ASSUME NEW t \in Tx, Admit(t) PROVE AloneInv'
  <2>1. stage = "up" /\ UNCHANGED <<mem, missed, lapsed, fate, stage>> /\ send.pc = "idle" /\ send'.tx = t
        /\ ticket[t] = "none" /\ mem.halted = "none"
    BY <1>17 DEF Admit, Goes, ledgerVars, chainVars, bootVars
  <2>2. PICK p \in Views : lane' = Reserve(lane, p, 0)
                           /\ nonceOf' = [nonceOf EXCEPT ![t] = NextNonce(lane, p)]
    BY <1>17 DEF Admit
  <2>3. p \in Nat
    BY <1>1, <2>2, ViewsAre DEF CanaryTypes
  <2>4. lane.reserved <= nonceOf'[t] /\ nonceOf'[t] < lane'.reserved /\ nonceOf'[t] \in Nat
        /\ \A u \in Tx : u # t => nonceOf'[u] = nonceOf[u]
    BY <1>1, <2>2, <2>3, ReserveIs
  <2>5. lane.reserved \in Nat \cup {Unset} /\ lane'.reserved \in Nat \cup {Unset} /\ Unset \in Int
    <3>1. lane' \in Lanes
      BY <1>1, <2>2, <2>3, LaneOps
    <3> QED BY <1>1, <3>1 DEF Lanes, Unset
  <2>6. t \notin lapsed /\ fate[t] = "none"
    BY <2>1 DEF LaneInv, SendInv
  <2>7. ASSUME NEW u \in Tx, Parked(u) PROVE Parked(u)'
    <3>1. u # t /\ nonceOf'[u] = nonceOf[u] /\ nonceOf[u] < lane.reserved /\ u \in lapsed
      BY <2>4, <2>6, <2>7 DEF Parked
    <3>2. nonceOf[u] \in Nat \cup {Unset}
      BY <1>1
    <3>3. nonceOf'[u] < nonceOf'[t] /\ nonceOf'[u] < lane'.reserved
      BY <2>4, <2>5, <3>1, <3>2
    <3> QED BY <2>1, <3>1, <3>3 DEF Parked
  <2>8. \A u \in mem.open : u \in missed \/ Parked(u)
    BY <2>1 DEF AloneInv, Running, Watching
  <2>9. \A u \in Tx : InFlight(u)' => InFlight(u) /\ nonceOf'[u] = nonceOf[u]
    BY <2>1, <2>4, <2>6 DEF InFlight
  <2>10. Pairs'
    BY <2>1, <2>9, PairsKept DEF AloneInv
  <2> QED BY <1>1, <2>1, <2>7, <2>8, <2>10 DEF AloneInv
<1>18. ASSUME NEW t \in Tx, Close(t) PROVE AloneInv'
  <2>1. stage = "up" /\ UNCHANGED <<mem, missed, lapsed, fate, stage, nonceOf>> /\ send.pc = "closing" /\ send.tx = t
        /\ send' = Idle /\ lane' = LaneAfter(nonceOf[t], send.ending)
    BY <1>1, <1>18 DEF Close, At, OnlyWhenUp, Idle, ledgerVars, chainVars, bootVars
  <2>2. Running' => Running
    BY <2>1 DEF Running, Idle
  <2>3. nonceOf[t] \in Nat
    BY <2>1 DEF SendInv
  <2>4. ASSUME NEW u \in Tx, Parked(u) PROVE Parked(u)'
    <3>1. u \in lapsed /\ nonceOf[u] < lane.reserved
      BY <2>4 DEF Parked
    <3>2. nonceOf[u] < lane'.reserved
      <4>1. CASE u = t
        <5>1. send.ending = "unjournaled"
          BY <2>1, <3>1, <4>1 DEF LaneInv
        <5> QED BY <1>1, <2>1, <2>3, <3>1, <5>1, MarkAfter DEF CanaryTypes
      <4>2. CASE u # t
        <5>1. nonceOf[u] < nonceOf[t]
          BY <2>1, <2>4, <4>2 DEF Parked
        <5>2. lane'.reserved = lane.reserved \/ lane'.reserved = nonceOf[t]
          BY <1>1, <2>1, <2>3, MarkAfter DEF CanaryTypes
        <5> QED BY <3>1, <5>1, <5>2
      <4> QED BY <4>1, <4>2
    <3> QED BY <2>1, <3>1, <3>2 DEF Parked, Idle
  <2>5. stage = "up" /\ Running => \A u \in mem.open : u \in missed \/ Parked(u)
    BY <2>1 DEF AloneInv, Watching
  <2>6. Pairs'
    BY <2>1, PairsKept DEF AloneInv, InFlight
  <2> QED BY <1>1, <2>1, <2>2, <2>4, <2>5, <2>6 DEF AloneInv
<1>3. ASSUME NEW t \in Tx, WriteAhead(t) PROVE AloneInv'
  <2>1. Sent(t) \in CanaryRecord /\ Sent(t).kind = "sent" /\ Sent(t).tx = t
    BY RecordsAre DEF CanaryRecord
  <2>2. stage = "up" /\ UNCHANGED <<fate, stage>> /\ At("clear", t)
    BY <1>1, <1>3 DEF WriteAhead, At, OnlyWhenUp, Idle, chainVars, bootVars
  <2>3. \A u \in mem.open : u \in missed \/ Parked(u)
    BY <2>2 DEF AloneInv, Running, Watching, At
  <2>4. Apply(mem, Sent(t)).open = mem.open \cup {t}
    BY <1>1, <2>1, ApplyShape
  <2>5. /\ \/ mem' = Apply(mem, Sent(t)) /\ send'.pc = "written" /\ send'.tx = t
           \/ mem' = mem
        /\ UNCHANGED <<missed, lapsed, lane, nonceOf>> /\ send'.tx = t
    BY <1>3, <2>1 DEF WriteAhead, Recorded, Unrecorded, Goes, Ends
  <2>9. \A u \in Tx : Parked(u) => Parked(u)'
    BY <2>2, <2>5 DEF Parked, At
  <2>6. \A u \in mem'.open : u \in missed' \/ Watching(u)' \/ Parked(u)'
    BY <1>1, <2>3, <2>4, <2>5, <2>9 DEF Watching
  <2>7. Pairs'
    BY <2>2, <2>5, PairsKept DEF AloneInv, InFlight
  <2> QED BY <2>2, <2>6, <2>7 DEF AloneInv
<1>4. ASSUME NEW t \in Tx, HandOff(t) PROVE AloneInv'
  <2>1. /\ send.pc = "written" /\ send.tx = t /\ UNCHANGED <<mem, missed, lapsed, stage, lane, nonceOf>>
        /\ fate' = [fate EXCEPT ![t] = "wire"] /\ send'.pc = "asked" /\ send'.tx = t
    BY <1>4 DEF HandOff, At, Goes, ledgerVars, bootVars
  <2>2. stage = "up"
    BY <1>1, <2>1 DEF OnlyWhenUp, Idle
  <2>3. \A u \in mem.open : u \in missed \/ u = t \/ Parked(u)
    BY <2>1, <2>2 DEF AloneInv, Running, Watching
  <2>8. \A u \in Tx : Parked(u) => Parked(u)' /\ (u = t \/ nonceOf[u] < nonceOf[t])
    BY <2>1 DEF Parked
  <2>4. \A u \in Tx : u # t => fate'[u] = fate[u]
    BY <1>1, <2>1
  <2>5. \A u \in Tx : u # t /\ InFlight(u)' => u \in missed' \/ nonceOf'[u] < nonceOf'[t]
    BY <2>1, <2>2, <2>3, <2>4, <2>8 DEF KnownInv, InFlight
  <2>6. Pairs'
    <3>1. SUFFICES ASSUME NEW u \in Tx, NEW v \in Tx, u # v, InFlight(u)', InFlight(v)', nonceOf'[u] = nonceOf'[v]
                   PROVE  u \in missed' \/ v \in missed'
      BY DEF Pairs
    <3>2. nonceOf'[u] \in Int /\ nonceOf'[v] \in Int
      BY <1>1, <2>1 DEF Unset
    <3>3. CASE u = t \/ v = t
      BY <2>5, <3>1, <3>2, <3>3
    <3>4. CASE u # t /\ v # t
      BY <2>1, <2>4, <3>1, <3>4 DEF AloneInv, Pairs, InFlight
    <3> QED BY <3>3, <3>4
  <2>7. \A u \in mem'.open : u \in missed' \/ Watching(u)' \/ Parked(u)'
    BY <1>1, <2>1, <2>3, <2>8 DEF Watching
  <2> QED BY <2>1, <2>2, <2>6, <2>7 DEF AloneInv
<1>5. ASSUME NEW t \in Tx, Answer(t) PROVE AloneInv'
  <2>1. send.pc = "asked" /\ send.tx = t /\ stage = "up" /\ stage' = "up" /\ UNCHANGED <<lane, nonceOf>>
    BY <1>1, <1>5 DEF Answer, At, OnlyWhenUp, Idle, bootVars
  <2>2. CASE Goes("watched", t) /\ UNCHANGED <<ledgerVars, mem, fate>>
    <3>1. UNCHANGED <<mem, missed, lapsed, fate>> /\ send'.pc = "watched" /\ send'.tx = t
      BY <2>2 DEF Goes, ledgerVars
    <3>3. \A u \in Tx : Parked(u) => Parked(u)'
      BY <2>1, <3>1 DEF Parked
    <3>2. \A u \in mem'.open : u \in missed' \/ Watching(u)' \/ Parked(u)'
      BY <1>1, <2>1, <3>1, <3>3 DEF AloneInv, Running, Watching
    <3> QED BY <2>1, <3>1, <3>2, PairsKept DEF AloneInv, InFlight
  <2>3. CASE Settle(t, "refused", "rejected") /\ fate' = [fate EXCEPT ![t] = "dead"]
    <3>1. \A u \in Tx : InFlight(u)' => InFlight(u)
      BY <1>1, <2>3 DEF InFlight
    <3> QED BY <2>1, <2>3, <3>1, SettleAlone DEF OutcomeKind, EndKind
  <2>4. CASE Settle(t, "silent", "unanswered") /\ UNCHANGED fate
    <3>1. \A u \in Tx : InFlight(u)' => InFlight(u)
      BY <2>4 DEF InFlight
    <3> QED BY <2>1, <2>4, <3>1, SettleAlone DEF OutcomeKind, EndKind
  <2> QED BY <1>5, <2>2, <2>3, <2>4 DEF Answer
<1>6. ASSUME NEW t \in Tx, Observe(t) PROVE AloneInv'
  <2>1. send.pc = "watched" /\ send.tx = t /\ stage = "up" /\ stage' = "up" /\ UNCHANGED <<fate, lane, nonceOf>>
    BY <1>1, <1>6 DEF Observe, At, OnlyWhenUp, Idle, bootVars, chainVars
  <2>2. \A u \in Tx : InFlight(u)' => InFlight(u)
    BY <2>1 DEF InFlight
  <2>3. Lapses(t) \/ \E kind \in OutcomeKind, e \in Endings : Settle(t, kind, e)
    <3>1. Settled(t) \in OutcomeKind /\ Ending(t) \in Endings
      BY RecordsAre DEF OutcomeKind, EndKind, Ending, Endings
    <3>2. "unresolved" \in OutcomeKind /\ "timeout" \in Endings
      BY DEF OutcomeKind, Endings
    <3> QED BY <1>6, <3>1, <3>2 DEF Observe
  <2>4. CASE \E kind \in OutcomeKind, e \in Endings : Settle(t, kind, e)
    <3>1. PICK kind \in OutcomeKind, e \in Endings : Settle(t, kind, e)
      BY <2>4
    <3> QED BY <2>1, <2>2, <3>1, SettleAlone
  <2>5. CASE Lapses(t)
    <3>1. UNCHANGED <<mem, missed>> /\ lapsed' = lapsed \cup {t} /\ send'.pc = "closing" /\ send'.tx = t
      BY <2>5 DEF Lapses, Ends
    <3>2. \A u \in Tx : u = t \/ Parked(u) => Parked(u)'
      BY <2>1, <3>1 DEF Parked, LaneInv
    <3>3. \A u \in mem'.open : u \in missed' \/ Parked(u)'
      BY <1>1, <2>1, <3>1, <3>2 DEF AloneInv, Running, Watching
    <3>4. Pairs'
      BY <2>1, <2>2, <3>1, PairsKept DEF AloneInv
    <3> QED BY <2>1, <3>1, <3>3, <3>4 DEF AloneInv
  <2> QED BY <2>3, <2>4, <2>5
<1>7. ASSUME NEW t \in Tx, RecordHalt(t) PROVE AloneInv'
  <2>1. UNCHANGED <<mem, fate, stage, nonceOf>> /\ send'.pc = "closing" /\ stage = "up" /\ WriteHalt /\ mem.halted # "none"
    BY <1>1, <1>7 DEF RecordHalt, At, Ends, chainVars, bootVars, CanaryTypes, HaltsOnCause, OnlyWhenUp, Idle
  <2>2. ~Running' /\ missed' = missed
    BY <1>1, <2>1, WriteHaltIs DEF Running
  <2> QED BY <2>1, <2>2, PairsKept DEF AloneInv, InFlight
<1>8. ASSUME ReadNonce PROVE AloneInv'
  <2>1. UNCHANGED <<missed, lapsed, fate, stage, send, lane, nonceOf>> /\ stage = "up"
    BY <1>8 DEF ReadNonce, ledgerVars, chainVars, bootVars
  <2>2. mem' \in {mem, Trip(mem, "tripwire")}
    BY <1>8 DEF ReadNonce
  <2>3. Trip(mem, "tripwire").open = mem.open /\ Trip(mem, "tripwire").halted # "none"
    BY <1>1, TripShape DEF Why
  <2>4. mem'.open = mem.open /\ (Running' => Running)
    BY <2>1, <2>2, <2>3 DEF Running
  <2>5. \A u : (Watching(u)' <=> Watching(u)) /\ (Parked(u)' <=> Parked(u))
    BY <2>1 DEF Watching, Parked
  <2>6. Pairs'
    BY <2>1, PairsKept DEF AloneInv, InFlight
  <2> QED BY <2>1, <2>4, <2>5, <2>6 DEF AloneInv
<1>9. ASSUME RecordTripwire PROVE AloneInv'
  <2>1. UNCHANGED <<mem, fate, found, stage, send, lane, nonceOf>> /\ WriteHalt /\ mem.halted # "none"
    BY <1>9, <1>1 DEF RecordTripwire, chainVars, bootVars, CanaryTypes, HaltsOnCause
  <2>2. missed' = missed /\ lapsed' = lapsed
    BY <1>1, <2>1, WriteHaltIs
  <2>3. \A u : (Watching(u)' <=> Watching(u)) /\ (Parked(u)' <=> Parked(u))
    BY <2>1, <2>2 DEF Watching, Parked
  <2>4. Pairs'
    BY <2>1, <2>2, PairsKept DEF AloneInv, InFlight
  <2> QED BY <2>1, <2>2, <2>3, <2>4 DEF AloneInv, Running, ToResolve
<1>10. ASSUME ChainStep PROVE AloneInv'
  <2>1. UNCHANGED <<missed, lapsed, mem, found, stage, send, lane, nonceOf>>
    BY <1>10 DEF ChainStep, ledgerVars, bootVars
  <2>2. \A u \in Tx : InFlight(u)' => InFlight(u)
    BY <1>1, <1>10, ChainEffect DEF InFlight, Mined
  <2>3. Pairs'
    BY <2>1, <2>2, PairsKept DEF AloneInv
  <2>4. \A u : (Watching(u)' <=> Watching(u)) /\ (Parked(u)' <=> Parked(u))
    BY <2>1 DEF Watching, Parked
  <2> QED BY <2>1, <2>3, <2>4 DEF AloneInv, Running, ToResolve
<1>11. ASSUME Crash PROVE AloneInv'
  <2>1. UNCHANGED <<missed, fate, nonceOf>> /\ stage' = "down" /\ \A t \in Tx : found'[t] = "none"
    BY <1>11 DEF Crash, chainVars
  <2> QED BY <2>1, PairsKept DEF AloneInv, InFlight
<1>12. ASSUME OperatorReset PROVE AloneInv'
  <2>1. stage = "down" /\ UNCHANGED <<missed, fate, stage, found, nonceOf>>
    BY <1>12 DEF OperatorReset, chainVars, bootVars
  <2> QED BY <2>1, PairsKept DEF AloneInv, InFlight
<1>13. ASSUME Open PROVE AloneInv'
  <2>1. UNCHANGED <<missed, fate, found, nonceOf>> /\ stage = "down" /\ stage' = "resolving" /\ mem'.open \subseteq Tx
    BY <1>1, <1>13 DEF Open, ledgerVars, chainVars, Totals
  <2> QED BY <2>1, PairsKept DEF AloneInv, InFlight
<1>14. ASSUME NEW t \in Tx, ResolveOpen(t) PROVE AloneInv'
  <2> DEFINE r == Outcome(t, Settled(t))
  <2>1. UNCHANGED <<fate, stage, nonceOf>> /\ stage = "resolving"
    BY <1>1, <1>14 DEF ResolveOpen, chainVars
  <2>2. r \in CanaryRecord /\ r.kind = Settled(t) /\ r.tx = t /\ Settled(t) \in EndKind
    BY RecordsAre DEF CanaryRecord, OutcomeKind, EndKind
  <2>3. /\ mem.halted # "none" => mem'.halted # "none"
        /\ \/ mem' = Apply(mem, r) /\ missed' = missed
           \/ mem' \in {mem, Trip(mem, "unresolved")} /\ missed' = missed \cup {t}
           \/ mem'.halted # "none" /\ missed' = missed
        /\ \E f : found' = [found EXCEPT ![t] = f]
    BY <1>1, <1>14, ResolveShape DEF CanaryTypes
  <2> HIDE DEF r
  <2>4. Apply(mem, r).open = mem.open \ {t}
    BY <1>1, <2>2, ApplyShape DEF EndKind
  <2>5. Trip(mem, "unresolved").open = mem.open
    BY <1>1, TripShape DEF Why
  <2>6. \A u \in Tx : u # t => found'[u] = found[u]
    BY <1>1, <2>3
  <2>7. mem'.halted = "none" => \A u \in mem'.open : found'[u] = "none" \/ u \in missed'
    <3>1. mem.open \subseteq Tx
      BY <1>1 DEF Totals
    <3>2. mem.halted = "none" => \A u \in mem.open : found[u] = "none" \/ u \in missed
      BY <2>1 DEF AloneInv
    <3> QED BY <2>3, <2>4, <2>5, <2>6, <3>1, <3>2
  <2>8. Pairs'
    BY <2>1, <2>3, PairsKept DEF AloneInv, InFlight
  <2> QED BY <2>1, <2>7, <2>8 DEF AloneInv
<1>15. ASSUME BootCloses PROVE AloneInv'
  <2>1. UNCHANGED <<mem, missed, fate, send, nonceOf>> /\ stage \in {"resolving", "closing"} /\ send.pc = "idle"
    BY <1>1, <1>15 DEF BootCloses, ledgerVars, chainVars, OnlyWhenUp, Idle
  <2>2. ToResolve = {}
    BY <1>15 DEF BootCloses, AloneInv
  <2>3. mem.halted = "none" => \A u \in mem.open : u \in missed
    BY <2>1, <2>2 DEF AloneInv, ToResolve
  <2>4. \/ stage' = "up"
        \/ stage' = "closing" /\ UNCHANGED found
    BY <1>15 DEF BootCloses
  <2>5. stage' = "up" /\ Running' => \A u \in mem'.open : u \in missed'
    BY <2>1, <2>3 DEF Running
  <2>6. Pairs'
    BY <2>1, PairsKept DEF AloneInv, InFlight
  <2>7. stage' = "closing" => ToResolve' = {}
    BY <2>1, <2>2, <2>4 DEF ToResolve
  <2>8. CASE stage' = "up"
    BY <2>5, <2>6, <2>8 DEF AloneInv
  <2>9. CASE stage' = "closing" /\ UNCHANGED found
    BY <2>1, <2>3, <2>6, <2>7, <2>9 DEF AloneInv
  <2> QED BY <2>4, <2>8, <2>9
<1>16. ASSUME UNCHANGED vars PROVE AloneInv'
  <2>1. UNCHANGED <<mem, missed, lapsed, fate, send, stage, found, lane, nonceOf>>
    BY <1>16 DEF vars, ledgerVars, chainVars, bootVars
  <2>2. \A u : (Watching(u)' <=> Watching(u)) /\ (Parked(u)' <=> Parked(u))
    BY <2>1 DEF Watching, Parked
  <2>3. Pairs'
    BY <2>1, PairsKept DEF AloneInv, InFlight
  <2> QED BY <2>1, <2>2, <2>3 DEF AloneInv, Running, ToResolve
<1> QED
  BY <1>2, <1>3, <1>4, <1>5, <1>6, <1>7, <1>8, <1>9, <1>10, <1>11, <1>12, <1>13, <1>14, <1>15, <1>16,
     <1>17, <1>18
     DEF Next, CaptureStep, HeadStep, Boot

\* The spec's section 7: "a released nonce is never reused while the transaction
\* may still land".  Of two transactions of one nonce that may both land, the
\* ledger refused the outcome of one.
THEOREM NonceIsNotReused == Spec => []NonceNotReused
<1> DEFINE I == TypeInv /\ SendInv /\ StrayInv /\ KnownInv /\ LaneInv /\ AloneInv
<1>1. Init => I
  BY TypeInit, SendInit, StrayInit, KnownInit, LaneInit, AloneInit
<1>2. I /\ [Next]_vars => I'
  BY TypeStep, SendStep, StrayStep, KnownStep, LaneStep, AloneStep
<1>3. I => NonceNotReused
  BY AloneMeans
<1> QED BY <1>1, <1>2, <1>3, PTL DEF Spec
-----------------------------------------------------------------------------
(* The tripwire is truthful.                                               *)

\* What one step does to the transactions: a nonce once used stays, an outcome
\* on the chain is final, only the send in hand is put on the wire, and nonces
\* are used one by one, each by a transaction of ours or by a stranger's.
LEMMA OneStep ==
  ASSUME TypeInv, SendInv, [Next]_vars
  PROVE  /\ \A u \in Tx : fate[u] # "none" => nonceOf'[u] = nonceOf[u]
         /\ \A u \in Tx : fate[u] \in Mined => fate'[u] = fate[u]
         /\ \A u \in Tx : fate'[u] \in Mined =>
              \/ fate'[u] = fate[u]
              \/ fate[u] = "pending" /\ nonceOf[u] = mined /\ mined' = mined + 1
         /\ \A u \in Tx : InFlight(u)' => InFlight(u) \/ (send.pc = "written" /\ send.tx = u)
         /\ mined' \in {mined, mined + 1} /\ foreign' >= foreign
         /\ mined' = mined \/ foreign' > 0 \/ \E u \in Tx : fate'[u] \in Mined /\ nonceOf[u] = mined
<1>1. CanaryTypes /\ fate \in [Tx -> Fates] /\ nonceOf \in [Tx -> Nat \cup {Unset}]
      /\ mined \in Nat /\ foreign \in Nat
  BY DEF TypeInv, CanaryTypes, ChainType
<1>2. CASE UNCHANGED <<fate, mined, foreign, nonceOf>>
  BY <1>1, <1>2 DEF InFlight
<1>3. ASSUME NEW t \in Tx, Admit(t) PROVE UNCHANGED <<fate, mined, foreign>>
                                          /\ \A u \in Tx : fate[u] # "none" => nonceOf'[u] = nonceOf[u]
  <2>1. fate[t] = "none" /\ UNCHANGED <<fate, mined, foreign>>
    BY <1>3 DEF Admit, SendInv, chainVars
  <2>2. \E n : nonceOf' = [nonceOf EXCEPT ![t] = n]
    BY <1>3 DEF Admit
  <2> QED BY <1>1, <2>1, <2>2
<1>4. ASSUME NEW t \in Tx, HandOff(t) PROVE /\ UNCHANGED <<mined, foreign, nonceOf>>
                                            /\ send.pc = "written" /\ send.tx = t /\ fate[t] = "none"
                                            /\ fate'[t] = "wire" /\ \A u \in Tx : u # t => fate'[u] = fate[u]
  <2>1. send.pc = "written" /\ send.tx = t /\ fate' = [fate EXCEPT ![t] = "wire"]
        /\ UNCHANGED <<mined, foreign, nonceOf>>
    BY <1>4 DEF HandOff, At
  <2> QED BY <1>1, <2>1 DEF SendInv
<1>5. ASSUME NEW t \in Tx, Answer(t) PROVE /\ UNCHANGED <<mined, foreign, nonceOf>>
                                           /\ fate'[t] = fate[t] \/ (fate[t] \in {"wire", "dead"} /\ fate'[t] = "dead")
                                           /\ \A u \in Tx : u # t => fate'[u] = fate[u]
  <2>1. /\ UNCHANGED <<mined, foreign, nonceOf>>
        /\ fate' = fate \/ (fate' = [fate EXCEPT ![t] = "dead"] /\ fate[t] \in {"wire", "dead"})
    BY <1>5 DEF Answer
  <2>2. CASE fate' = fate
    BY <2>1, <2>2
  <2>3. CASE fate' = [fate EXCEPT ![t] = "dead"] /\ fate[t] \in {"wire", "dead"}
    <3>1. fate'[t] = "dead" /\ \A u \in Tx : u # t => fate'[u] = fate[u]
      BY <1>1, <2>3
    <3> QED BY <2>1, <2>3, <3>1
  <2> QED BY <2>1, <2>2, <2>3
<1>6. CASE ChainStep
  <2>1. UNCHANGED nonceOf
    BY <1>6 DEF ChainStep
  <2> QED BY <1>1, <1>6, <2>1, ChainEffect DEF InFlight, Mined
<1>7. CASE \E t \in Tx : Admit(t)
  BY <1>1, <1>3, <1>7 DEF InFlight
<1>8. CASE \E t \in Tx : HandOff(t)
  <2>1. PICK t \in Tx : HandOff(t)
    BY <1>8
  <2> QED BY <1>1, <1>4, <2>1 DEF InFlight, Mined
<1>9. CASE \E t \in Tx : Answer(t)
  <2>1. PICK t \in Tx : Answer(t)
    BY <1>9
  <2> QED BY <1>1, <1>5, <2>1 DEF InFlight, Mined
<1>10. CASE \E t \in Tx : CheckHold(t) \/ WriteAhead(t) \/ Observe(t) \/ RecordHalt(t) \/ Close(t)
  BY <1>2, <1>10 DEF CheckHold, WriteAhead, Observe, RecordHalt, Close, chainVars
<1>11. CASE HeadStep \/ Crash \/ OperatorReset \/ Boot \/ UNCHANGED vars
  BY <1>2, <1>11 DEF HeadStep, ReadNonce, RecordTripwire, Crash, OperatorReset, Boot, Open, BootCloses,
                     ResolveOpen, vars, chainVars
<1> QED BY <1>6, <1>7, <1>8, <1>9, <1>10, <1>11 DEF Next, CaptureStep

\* What was mined has a used nonce; and while the key is used here alone, every
\* used nonce is one of ours.
ChainInv ==
  /\ \A t \in Tx : fate[t] \in Mined => nonceOf[t] < mined
  /\ foreign = 0 => \A m \in 0..(mined - 1) : \E t \in Tx : fate[t] \in Mined /\ nonceOf[t] = m

LEMMA ChainInit == Init => ChainInv
BY DEF Init, ChainInv, Mined

LEMMA ChainKept ==
  ASSUME TypeInv, SendInv, ChainInv, [Next]_vars
  PROVE  ChainInv'
<1>1. mined \in Nat /\ foreign \in Nat /\ nonceOf \in [Tx -> Nat \cup {Unset}]
  BY DEF TypeInv, CanaryTypes, ChainType
<1> HIDE DEF Mined
<1>2. /\ \A u \in Tx : fate[u] \in Mined => fate'[u] = fate[u] /\ nonceOf'[u] = nonceOf[u]
      /\ \A u \in Tx : fate'[u] \in Mined =>
           \/ fate[u] \in Mined
           \/ nonceOf[u] = mined /\ mined' = mined + 1
      /\ \A u \in Tx : fate'[u] \in Mined => nonceOf'[u] = nonceOf[u]
      /\ mined' \in {mined, mined + 1} /\ foreign' >= foreign
      /\ mined' = mined \/ foreign' > 0 \/ \E u \in Tx : fate'[u] \in Mined /\ nonceOf[u] = mined
  BY OneStep DEF Mined
<1>3. ASSUME NEW u \in Tx, fate'[u] \in Mined PROVE nonceOf'[u] < mined'
  BY <1>1, <1>2, <1>3, Z3 DEF ChainInv, Unset
<1>4. ASSUME foreign' = 0, NEW m \in Nat, m < mined'
      PROVE  \E t \in Tx : fate'[t] \in Mined /\ nonceOf'[t] = m
  <2>1. foreign = 0
    BY <1>1, <1>2, <1>4
  <2>2. CASE m < mined
    <3>1. m \in 0..(mined - 1)
      BY <1>1, <2>2
    <3>2. PICK t \in Tx : fate[t] \in Mined /\ nonceOf[t] = m
      BY <2>1, <3>1 DEF ChainInv
    <3> QED BY <1>2, <3>2
  <2>3. CASE m = mined /\ mined' = mined + 1
    BY <1>1, <1>2, <1>4, <2>3
  <2>0. mined' \in Nat
    BY <1>1, <1>2
  <2>5. m < mined \/ (m = mined /\ mined' = mined + 1)
    BY <1>1, <1>2, <1>4, <2>0
  <2> QED BY <2>2, <2>3, <2>5
<1>5. \A m \in 0..(mined' - 1) : m \in Nat /\ m < mined'
  <2>1. mined' \in Nat
    BY <1>1, <1>2
  <2>2. \A n \in Nat : \A m \in 0..(n - 1) : m \in Nat /\ m < n
    OBVIOUS
  <2> QED BY <2>1, <2>2
<1> QED BY <1>3, <1>4, <1>5 DEF ChainInv

\* The sends of this life that a nonce beyond the boot's may come from: no more
\* than were counted.
Explains(H) ==
  /\ H \subseteq Tx /\ Cardinality(H) <= sentCount
  /\ \A t \in Tx : InFlight(t) => t \in H
  /\ send.pc = "written" => send.tx \in H
  /\ bootNonce # Unset /\ ~shortBoot =>
       \A t \in Tx : fate[t] \in Mined /\ nonceOf[t] >= bootNonce => t \in H

\* The tripwire was right; while nothing is halted and the key is used here
\* alone, the sends counted explain every nonce; and boot hands over nothing that
\* may still land without a halt.
TripInv ==
  /\ mem.halted = "tripwire" \/ Kept.halted = "tripwire" => foreign > 0 \/ shortBoot
  /\ stage \in {"resolving", "closing"} /\ mem.halted = "none" =>
       \A t \in Tx : InFlight(t) => found[t] = "none"
  /\ stage = "up" /\ mem.halted = "none" /\ foreign = 0 => \E H : Explains(H)

\* So was one whose line lacks its newline only.
TripStray == file.stray = <<Halted("tripwire")>> => foreign > 0 \/ shortBoot

LEMMA TripStrayInit == Init => TripStray
BY DEF Init, TripStray

\* What a step leaves behind the last newline.
LEMMA StrayMoves ==
  ASSUME TypeInv, TypeInv', [Next]_vars
  PROVE  \/ file'.stray \in {file.stray, <<>>}
         \/ \E n \in CanaryRecord : n.kind # "halted" /\ file'.stray = <<n>>
         \/ file'.stray = <<Halted(mem'.halted)>>
<1>1. CanaryTypes /\ LedgerType /\ mem \in Totals /\ mem' \in Totals
  BY DEF TypeInv, CanaryTypes, LedgerType
<1> DEFINE G == \/ file'.stray \in {file.stray, <<>>}
                \/ \E n \in CanaryRecord : n.kind # "halted" /\ file'.stray = <<n>>
                \/ file'.stray = <<Halted(mem'.halted)>>
<1>2. ASSUME NEW t \in Tx, NEW kind \in OutcomeKind, NEW e, Settle(t, kind, e) PROVE G
  <2>1. Outcome(t, kind) \in CanaryRecord /\ Outcome(t, kind).kind # "halted"
    BY RecordsAre DEF CanaryRecord, OutcomeKind, EndKind
  <2>2. file'.stray \in {file.stray, <<>>, <<Outcome(t, kind)>>}
    BY <1>1, <1>2, SettleShape
  <2> QED BY <2>1, <2>2
<1>3. ASSUME NEW t \in Tx, WriteAhead(t) PROVE G
  <2>1. Sent(t) \in CanaryRecord /\ Sent(t).kind # "halted"
    BY RecordsAre DEF CanaryRecord
  <2>2. file'.stray \in {file.stray, <<>>, <<Sent(t)>>}
    BY <1>1, <1>3, <2>1, RecordedIs, UnrecordedIs DEF WriteAhead
  <2> QED BY <2>1, <2>2
<1>4. ASSUME NEW t \in Tx, Answer(t) PROVE G
  <2>1. UNCHANGED ledgerVars \/ Settle(t, "refused", "rejected") \/ Settle(t, "silent", "unanswered")
    BY <1>4 DEF Answer
  <2>2. {"refused", "silent"} \subseteq OutcomeKind
    BY DEF OutcomeKind, EndKind
  <2> QED BY <1>2, <2>1, <2>2 DEF ledgerVars
<1>5. ASSUME NEW t \in Tx, Observe(t) PROVE G
  <2>1. Settle(t, Settled(t), Ending(t)) \/ Settle(t, "unresolved", "timeout") \/ UNCHANGED file
    BY <1>5 DEF Observe, Lapses
  <2>2. Settled(t) \in OutcomeKind /\ "unresolved" \in OutcomeKind
    BY RecordsAre DEF OutcomeKind, EndKind
  <2> QED BY <1>2, <2>1, <2>2
<1>6. ASSUME (\E t \in Tx : RecordHalt(t)) \/ RecordTripwire PROVE G
  <2>1. WriteHalt /\ mem.halted # "none" /\ UNCHANGED mem
    BY <1>1, <1>6 DEF RecordHalt, RecordTripwire, At, CanaryTypes, HaltsOnCause
  <2> QED BY <1>1, <2>1, WriteHaltShape
<1>7. ASSUME Crash PROVE G
  BY <1>1, <1>7, CrashFile
<1>8. ASSUME OperatorReset PROVE G
  BY <1>1, <1>8, ResetFile
<1>9. ASSUME NEW t \in Tx, ResolveOpen(t) PROVE G
  <2>1. PICK r \in CanaryRecord : r = Outcome(t, Settled(t)) /\ r.kind # "halted"
    BY RecordsAre DEF CanaryRecord, OutcomeKind, EndKind
  <2> QED BY <1>1, <1>9, <2>1, ResolveShape DEF StrayAfter
<1>10. ASSUME \/ \E t \in Tx : Admit(t) \/ CheckHold(t) \/ HandOff(t) \/ Close(t)
              \/ ReadNonce \/ ChainStep \/ Open \/ BootCloses \/ UNCHANGED vars
       PROVE  G
  BY <1>10 DEF Admit, CheckHold, HandOff, Close, ReadNonce, ChainStep, Open, BootCloses, vars, ledgerVars
<1> QED
  BY <1>3, <1>4, <1>5, <1>6, <1>7, <1>8, <1>9, <1>10 DEF Next, CaptureStep, HeadStep, Boot

LEMMA TripStrayStep ==
  ASSUME TypeInv, TypeInv', SendInv, TripInv', TripStray, [Next]_vars
  PROVE  TripStray'
<1>1. foreign \in Nat /\ foreign' >= foreign /\ foreign' \in Nat
  BY OneStep DEF TypeInv, CanaryTypes, ChainType
<1>2. shortBoot => shortBoot'
  <2>1. CASE UNCHANGED shortBoot
    BY <2>1
  <2>2. CASE ReadNonce
    BY <2>2 DEF ReadNonce
  <2> QED BY <2>1, <2>2 DEF Next, CaptureStep, HeadStep, Boot, Admit, CheckHold, WriteAhead, HandOff, Answer,
       Observe, RecordHalt, Close, RecordTripwire, ChainStep, Crash, OperatorReset, Open, BootCloses,
       ResolveOpen, vars, headVars
<1>3. SUFFICES ASSUME file'.stray = <<Halted("tripwire")>> PROVE foreign' > 0 \/ shortBoot'
  BY DEF TripStray
<1>4. CASE file'.stray \in {file.stray, <<>>}
  BY <1>1, <1>2, <1>3, <1>4 DEF TripStray
<1>5. ASSUME NEW n \in CanaryRecord, n.kind # "halted", file'.stray = <<n>> PROVE FALSE
  <2>1. n = Halted("tripwire")
    BY <1>3, <1>5
  <2> QED BY <1>5, <2>1 DEF Halted
<1>6. CASE file'.stray = <<Halted(mem'.halted)>>
  <2>1. Halted(mem'.halted) = Halted("tripwire")
    BY <1>3, <1>6
  <2>2. mem'.halted = "tripwire"
    BY <2>1 DEF Halted
  <2> QED BY <2>2 DEF TripInv
<1> QED BY <1>4, <1>5, <1>6, StrayMoves

LEMMA TripMeans == TripInv => TripwireTruthful
BY DEF TripInv, TripwireTruthful

LEMMA TripInit == Init => TripInv
<1> SUFFICES ASSUME Init PROVE TripInv
  OBVIOUS
<1>1. Kept = NewState
  BY ReplayEmpty DEF Init, Kept
<1> QED BY <1>1 DEF Init, TripInv, NewState

\* Between the boot's nonce and one the node shows, each is used or pending; a
\* set that explains them has one transaction for each.
LEMMA ExplainsAll ==
  ASSUME TypeInv, SendInv, ChainInv, foreign = 0, ~shortBoot, bootNonce # Unset,
         NEW H, Explains(H), NEW now \in Views
  PROVE  now <= bootNonce + sentCount
<1>1. mined \in Nat /\ ChainType /\ bootNonce \in Nat /\ sentCount \in Nat /\ MaxTx \in Nat
  BY CanaryAssumption DEF TypeInv, CanaryTypes, ChainType, HeadType
<1>2. now \in Nat /\ now <= PendingNonce /\ PendingNonce \in Nat
  BY <1>1, ViewsAre
<1>3. IsFiniteSet(H) /\ Cardinality(H) \in Nat
  <2>1. IsFiniteSet(Tx)
    BY <1>1, FS_Interval DEF Tx
  <2>2. H \in SUBSET Tx
    BY DEF Explains
  <2>3. IsFiniteSet(H)
    BY <2>1, <2>2, FS_Subset
  <2> QED BY <2>3, FS_CardinalityType
<1>4. ASSUME NEW m \in bootNonce..(now - 1) PROVE \E t \in H : nonceOf[t] = m
  <2>1. CASE m < mined
    <3>1. m \in 0..(mined - 1)
      BY <1>1, <2>1
    <3>2. PICK t \in Tx : fate[t] \in Mined /\ nonceOf[t] = m
      BY <3>1 DEF ChainInv
    <3>3. nonceOf[t] >= bootNonce
      BY <1>1, <3>2
    <3> QED BY <3>2, <3>3 DEF Explains
  <2>2. CASE m >= mined
    <3>1. m \in mined..(PendingNonce - 1)
      BY <1>1, <1>2, <2>2
    <3>2. PICK t \in Tx : fate[t] = "pending" /\ nonceOf[t] = m
      BY <1>1, <3>1, PendingExists
    <3> QED BY <3>2 DEF Explains, InFlight
  <2> QED BY <1>1, <2>1, <2>2
<1> DEFINE I == bootNonce..(now - 1)
           f == [m \in I |-> CHOOSE t \in H : nonceOf[t] = m]
<1>5. \A m \in I : f[m] \in H /\ nonceOf[f[m]] = m
  BY <1>4
<1>6. f \in Injection(I, H)
  <2>1. f \in [I -> H]
    BY <1>5
  <2>2. \A a, b \in I : f[a] = f[b] => a = b
    BY <1>5
  <2> HIDE DEF f, I
  <2> QED BY <2>1, <2>2 DEF Injection, IsInjective
<1>7. Cardinality(I) <= Cardinality(H)
  <2> HIDE DEF f, I
  <2> QED BY <1>3, <1>6, FS_Injection
<1>8. Cardinality(I) = IF bootNonce > now - 1 THEN 0 ELSE (now - 1) - bootNonce + 1
  BY <1>1, <1>2, FS_Interval
<1>9. Cardinality(H) <= sentCount
  BY DEF Explains
<1> HIDE DEF I
<1> QED BY <1>1, <1>2, <1>3, <1>7, <1>8, <1>9
\* A step that counts no send, reads no nonce and puts nothing of its own on the
\* wire is explained as before.
LEMMA StaysExplained ==
  ASSUME TypeInv, SendInv, ChainInv, [Next]_vars, NEW H, Explains(H),
         UNCHANGED <<sentCount, bootNonce, shortBoot>>,
         send'.pc = "written" => UNCHANGED send
  PROVE  Explains(H)'
<1>1. mined \in Nat /\ nonceOf \in [Tx -> Nat \cup {Unset}] /\ (send.pc # "idle" => send.tx \in Tx)
  BY DEF TypeInv, CanaryTypes, ChainType, LoopType
<1>2. \A u \in Tx : InFlight(u)' => u \in H
  <2>1. \A u \in Tx : InFlight(u)' => InFlight(u) \/ (send.pc = "written" /\ send.tx = u)
    BY OneStep
  <2> QED BY <2>1 DEF Explains
<1>3. bootNonce # Unset /\ ~shortBoot =>
        \A t \in Tx : fate'[t] \in Mined /\ nonceOf'[t] >= bootNonce => t \in H
  <2>1. SUFFICES ASSUME bootNonce # Unset, ~shortBoot, NEW t \in Tx,
                        fate'[t] \in Mined, nonceOf'[t] >= bootNonce
                 PROVE  t \in H
    OBVIOUS
  <2>2. fate'[t] = fate[t] \/ fate[t] = "pending"
    BY <2>1, OneStep
  <2>3. CASE fate[t] = "pending"
    BY <2>3 DEF Explains, InFlight
  <2>4. CASE fate'[t] = fate[t]
    <3>1. fate[t] # "none"
      BY <2>1, <2>4 DEF Mined
    <3>2. nonceOf'[t] = nonceOf[t]
      BY <3>1, OneStep
    <3> QED BY <2>1, <2>4, <3>2 DEF Explains
  <2> QED BY <2>2, <2>3, <2>4
<1> QED BY <1>2, <1>3 DEF Explains

\* What was halted by the tripwire before, on disk or in memory, was right.
LEMMA TripReasonKept ==
  ASSUME TypeInv, TypeInv', SendInv, TripInv, [Next]_vars, shortBoot => shortBoot',
         mem'.halted = "tripwire" => mem.halted = "tripwire" \/ Kept.halted = "tripwire" \/ foreign' > 0 \/ shortBoot',
         Kept'.halted = "tripwire" => Kept.halted = "tripwire" \/ mem'.halted = "tripwire"
  PROVE  mem'.halted = "tripwire" \/ Kept'.halted = "tripwire" => foreign' > 0 \/ shortBoot'
<1>1. foreign' >= foreign /\ foreign \in Nat
  BY OneStep DEF TypeInv, CanaryTypes, ChainType
<1>2. foreign' \in Nat
  BY DEF TypeInv, CanaryTypes, ChainType
<1> QED BY <1>1, <1>2 DEF TripInv

\* Nothing an outcome, a send or a reset puts in the ledger is a tripwire's halt.
LEMMA GrowsQuietly ==
  ASSUME TypeInv, NEW r \in CanaryRecord, r.kind # "halted", ledger' \in {ledger, Append(ledger, r)}
  PROVE  Kept'.halted = "tripwire" => Kept.halted = "tripwire"
<1>1. LedgerType /\ ledger \in Seq(CanaryRecord)
  BY DEF TypeInv, CanaryTypes, LedgerType
<1>2. CASE ledger' = ledger
  BY <1>2 DEF Kept
<1>3. CASE ledger' = Append(ledger, r)
  <2>1. Kept' = Apply(Kept, r) /\ Kept \in Totals
    BY <1>1, <1>3, GrowsBy
  <2>2. r # Halted("tripwire")
    BY DEF Halted
  <2> QED BY <2>1, <2>2, ApplyShape
<1> QED BY <1>2, <1>3

\* And memory applies none.
LEMMA AppliesQuietly ==
  ASSUME TypeInv, NEW r \in CanaryRecord, r.kind # "halted"
  PROVE  Apply(mem, r).halted = "tripwire" => mem.halted = "tripwire"
<1>1. mem \in Totals
  BY DEF TypeInv, CanaryTypes, LedgerType
<1>2. r # Halted("tripwire")
  BY DEF Halted
<1> QED BY <1>1, <1>2, ApplyShape

LEMMA SettleTrip ==
  ASSUME TypeInv, TypeInv', SendInv, ChainInv, TripInv, [Next]_vars, NEW t \in Tx,
         NEW kind \in OutcomeKind, NEW e, Settle(t, kind, e), stage = "up", stage' = "up",
         UNCHANGED <<sentCount, bootNonce, shortBoot, foreign>>
  PROVE  TripInv'
<1> DEFINE r == Outcome(t, kind)
<1>1. r \in CanaryRecord /\ r.kind \notin {"halted", "reset"} /\ kind # "sent"
  BY RecordsAre DEF CanaryRecord, OutcomeKind, EndKind
<1>2. /\ ledger' \in {ledger, Append(ledger, r)} /\ mem' \in {mem, Apply(mem, r)}
      /\ send'.pc \in {"halting", "closing"}
  BY SettleShape DEF TypeInv, CanaryTypes
<1> HIDE DEF r
<1>3. mem'.halted = "tripwire" => mem.halted = "tripwire"
  BY <1>1, <1>2, AppliesQuietly
<1>4. Kept'.halted = "tripwire" => Kept.halted = "tripwire"
  BY <1>1, <1>2, GrowsQuietly
<1>5. mem'.halted = "tripwire" \/ Kept'.halted = "tripwire" => foreign' > 0 \/ shortBoot'
  BY <1>3, <1>4, TripReasonKept
<1>6. mem'.halted = "none" => mem.halted = "none"
  <2>1. mem \in Totals
    BY DEF TypeInv, CanaryTypes, LedgerType
  <2> QED BY <1>1, <1>2, <2>1, ApplyShape
<1>7. mem'.halted = "none" /\ foreign' = 0 => \E H : Explains(H)'
  <2>1. SUFFICES ASSUME mem'.halted = "none", foreign' = 0 PROVE \E H : Explains(H)'
    OBVIOUS
  <2>2. PICK H : Explains(H)
    BY <1>6, <2>1 DEF TripInv
  <2> QED BY <1>2, <2>2, StaysExplained
<1> QED BY <1>5, <1>7 DEF TripInv

LEMMA TripStep ==
  ASSUME TypeInv, TypeInv', SendInv, KnownInv, AloneInv, ChainInv, TripInv, TripStray, [Next]_vars
  PROVE  TripInv'
<1>1. /\ CanaryTypes /\ OnlyWhenUp /\ OnlyWhenUp' /\ mem \in Totals /\ mem' \in Totals /\ fate \in [Tx -> Fates]
      /\ found \in [Tx -> Finding] /\ ledger \in Seq(CanaryRecord) /\ sentCount \in Nat /\ LedgerType
      /\ mined \in Nat /\ foreign \in Nat /\ foreign' \in Nat /\ nonceOf \in [Tx -> Nat \cup {Unset}]
  BY DEF TypeInv, CanaryTypes, LedgerType, ChainType, BootType, HeadType
<1>2. ASSUME NEW t \in Tx, Admit(t) \/ CheckHold(t) \/ HandOff(t) \/ Close(t) PROVE TripInv'
  <2>1. stage = "up" /\ UNCHANGED <<mem, ledger, foreign, stage, sentCount, bootNonce, shortBoot>>
        /\ send'.pc # "written"
    BY <1>1, <1>2 DEF Admit, CheckHold, HandOff, Close, At, Goes, Ends, OnlyWhenUp, Idle, ledgerVars, chainVars,
                      bootVars, headVars
  <2>2. \A H : Explains(H) => Explains(H)'
    BY <2>1, StaysExplained
  <2>3. Kept' = Kept
    BY <2>1 DEF Kept
  <2> QED BY <2>1, <2>2, <2>3 DEF TripInv
<1>3. ASSUME NEW t \in Tx, WriteAhead(t) PROVE TripInv'
  <2>1. Sent(t) \in CanaryRecord /\ Sent(t).kind = "sent" /\ Sent(t).tx = t
    BY RecordsAre DEF CanaryRecord
  <2>2. stage = "up" /\ send.pc = "clear" /\ UNCHANGED <<fate, foreign, stage, bootNonce, shortBoot, nonceOf>>
    BY <1>1, <1>3 DEF WriteAhead, At, OnlyWhenUp, Idle, chainVars, bootVars, headVars
  <2>3. /\ ledger' \in {ledger, Append(ledger, Sent(t))} /\ mem' \in {mem, Apply(mem, Sent(t))}
        /\ \/ sentCount' = sentCount + 1 /\ send'.pc = "written" /\ send'.tx = t
           \/ sentCount' = sentCount /\ send'.pc = "closing"
    BY <1>1, <1>3, <2>1, RecordedIs, UnrecordedIs DEF WriteAhead, Goes, Ends
  <2>4. mem'.halted = "tripwire" => mem.halted = "tripwire"
    BY <2>1, <2>3, AppliesQuietly
  <2>5. Kept'.halted = "tripwire" => Kept.halted = "tripwire"
    BY <2>1, <2>3, GrowsQuietly
  <2>6. mem'.halted = "tripwire" \/ Kept'.halted = "tripwire" => foreign' > 0 \/ shortBoot'
    BY <2>2, <2>4, <2>5, TripReasonKept
  <2>7. mem'.halted = "none" => mem.halted = "none"
    BY <1>1, <2>1, <2>3, ApplyShape
  <2>8. mem'.halted = "none" /\ foreign' = 0 => \E H : Explains(H)'
    <3>1. SUFFICES ASSUME mem'.halted = "none", foreign' = 0 PROVE \E H : Explains(H)'
      OBVIOUS
    <3>2. PICK H : Explains(H)
      BY <2>2, <2>7, <3>1 DEF TripInv
    <3>3. CASE sentCount' = sentCount /\ send'.pc = "closing"
      BY <2>2, <3>2, <3>3, StaysExplained
    <3>4. CASE sentCount' = sentCount + 1 /\ send'.pc = "written" /\ send'.tx = t
      <4>1. H \cup {t} \subseteq Tx /\ Cardinality(H \cup {t}) <= sentCount + 1
        <5>1. IsFiniteSet(Tx)
          BY CanaryAssumption, FS_Interval DEF Tx
        <5>2. H \in SUBSET Tx /\ Cardinality(H) <= sentCount
          BY <3>2 DEF Explains
        <5>3. IsFiniteSet(H)
          BY <5>1, <5>2, FS_Subset
        <5>4. Cardinality(H) \in Nat
          BY <5>3, FS_CardinalityType
        <5>5. Cardinality(H \cup {t}) = IF t \in H THEN Cardinality(H) ELSE Cardinality(H) + 1
          BY <5>3, FS_AddElement
        <5> QED BY <1>1, <5>2, <5>4, <5>5
      <4>2. Explains(H \cup {t})'
        BY <2>2, <3>2, <3>4, <4>1 DEF Explains, InFlight
      <4> QED BY <4>2
    <3> QED BY <2>3, <3>3, <3>4
  <2> QED BY <2>2, <2>6, <2>8 DEF TripInv
<1>4. ASSUME NEW t \in Tx, Answer(t) PROVE TripInv'
  <2>1. send.pc = "asked" /\ stage = "up" /\ stage' = "up"
        /\ UNCHANGED <<sentCount, bootNonce, shortBoot, foreign>>
    BY <1>1, <1>4 DEF Answer, At, OnlyWhenUp, Idle, bootVars, headVars
  <2>2. CASE Goes("watched", t) /\ UNCHANGED <<ledgerVars, mem, fate>>
    <3>1. UNCHANGED <<ledger, mem>> /\ send'.pc = "watched"
      BY <2>2 DEF Goes, ledgerVars
    <3>2. \A H : Explains(H) => Explains(H)'
      BY <2>1, <3>1, StaysExplained
    <3>3. Kept' = Kept
      BY <3>1 DEF Kept
    <3> QED BY <2>1, <3>1, <3>2, <3>3 DEF TripInv
  <2>3. CASE Settle(t, "refused", "rejected") \/ Settle(t, "silent", "unanswered")
    BY <2>1, <2>3, SettleTrip DEF OutcomeKind, EndKind
  <2> QED BY <1>4, <2>2, <2>3 DEF Answer
<1>5. ASSUME NEW t \in Tx, Observe(t) PROVE TripInv'
  <2>1. stage = "up" /\ stage' = "up" /\ UNCHANGED <<sentCount, bootNonce, shortBoot, foreign>>
    BY <1>1, <1>5 DEF Observe, At, OnlyWhenUp, Idle, bootVars, headVars, chainVars
  <2>2. Lapses(t) \/ \E kind \in OutcomeKind, e \in Endings : Settle(t, kind, e)
    <3>1. Settled(t) \in OutcomeKind /\ Ending(t) \in Endings
      BY RecordsAre DEF OutcomeKind, EndKind, Ending, Endings
    <3>2. "unresolved" \in OutcomeKind /\ "timeout" \in Endings
      BY DEF OutcomeKind, Endings
    <3> QED BY <1>5, <3>1, <3>2 DEF Observe
  <2>3. CASE \E kind \in OutcomeKind, e \in Endings : Settle(t, kind, e)
    <3>1. PICK kind \in OutcomeKind, e \in Endings : Settle(t, kind, e)
      BY <2>3
    <3> QED BY <2>1, <3>1, SettleTrip
  <2>4. CASE Lapses(t)
    <3>1. UNCHANGED <<ledger, mem>> /\ send'.pc = "closing"
      BY <2>4 DEF Lapses, Ends
    <3>2. \A H : Explains(H) => Explains(H)'
      BY <2>1, <3>1, StaysExplained
    <3>3. Kept' = Kept
      BY <3>1 DEF Kept
    <3> QED BY <2>1, <3>1, <3>2, <3>3 DEF TripInv
  <2> QED BY <2>2, <2>3, <2>4
<1>6. ASSUME (\E t \in Tx : RecordHalt(t)) \/ RecordTripwire PROVE TripInv'
  <2>1. UNCHANGED <<mem, stage, shortBoot>> /\ WriteHalt /\ mem.halted # "none"
    BY <1>6, <1>1 DEF RecordHalt, RecordTripwire, At, chainVars, bootVars, headVars, CanaryTypes, HaltsOnCause
  <2>2. Halts(ledger)
    BY <1>1, <2>1, WriteHaltIs
  <2>3. Kept'.halted = "tripwire" => Kept.halted = "tripwire" \/ mem'.halted = "tripwire"
    BY <1>1, <2>2, HaltsKeep DEF Kept
  <2>4. mem'.halted = "tripwire" \/ Kept'.halted = "tripwire" => foreign' > 0 \/ shortBoot'
    BY <2>1, <2>3, TripReasonKept
  <2> QED BY <2>1, <2>4 DEF TripInv
<1>7. ASSUME ReadNonce PROVE TripInv'
  <2>1. PICK now \in Views :
          LET boot == IF bootNonce = Unset THEN now ELSE bootNonce IN
          /\ bootNonce' = boot
          /\ shortBoot' = (shortBoot \/ (bootNonce = Unset /\ now < PendingNonce))
          /\ mem' = IF BeyondOurs(boot, now) THEN Trip(mem, "tripwire") ELSE mem
    BY <1>7 DEF ReadNonce
  <2>2. stage = "up" /\ UNCHANGED <<ledger, fate, mined, foreign, nonceOf, stage, sentCount, send>>
    BY <1>7 DEF ReadNonce, ledgerVars, chainVars, bootVars
  <2>3. now \in Nat /\ PendingNonce \in Nat /\ now <= PendingNonce /\ mined <= PendingNonce
    BY <1>1, ViewsAre DEF CanaryTypes
  <2>4. Kept' = Kept
    BY <2>2 DEF Kept
  <2>5. /\ Trip(mem, "tripwire").halted = IF mem.halted = "none" THEN "tripwire" ELSE mem.halted
    BY <1>1, TripShape DEF Why
  <2>6. mem'.halted = "none" => mem.halted = "none"
    BY <2>1, <2>5
  <2>7. ASSUME mem.halted = "none", mem'.halted = "tripwire" PROVE foreign' > 0 \/ shortBoot'
    <3>1. SUFFICES ASSUME foreign = 0, ~shortBoot PROVE FALSE
      <4>1. shortBoot => shortBoot'
        BY <2>1
      <4>2. foreign = 0 \/ foreign' > 0
        BY <1>1, <2>2
      <4> QED BY <4>1, <4>2
    <3>2. PICK H : Explains(H)
      BY <2>2, <2>7, <3>1 DEF TripInv
    <3>3. CASE bootNonce = Unset
      <4>1. BeyondOurs(now, now)
        BY <2>1, <2>7, <3>3
      <4> QED BY <1>1, <2>3, <4>1 DEF BeyondOurs
    <3>4. CASE bootNonce # Unset
      <4>1. BeyondOurs(bootNonce, now)
        BY <2>1, <2>7, <3>4
      <4>2. now <= bootNonce + sentCount
        BY <3>1, <3>2, <3>4, ExplainsAll
      <4>3. bootNonce \in Nat
        BY <3>4, <1>1 DEF CanaryTypes, HeadType
      <4> QED BY <1>1, <2>3, <4>1, <4>2, <4>3 DEF BeyondOurs
    <3> QED BY <3>3, <3>4
  <2>8. mem'.halted = "tripwire" => mem.halted = "tripwire" \/ foreign' > 0 \/ shortBoot'
    BY <2>1, <2>5, <2>7
  <2>9. mem'.halted = "tripwire" \/ Kept'.halted = "tripwire" => foreign' > 0 \/ shortBoot'
    BY <2>1, <2>4, <2>8, TripReasonKept
  <2>10. mem'.halted = "none" /\ foreign' = 0 => \E H : Explains(H)'
    <3>1. SUFFICES ASSUME mem'.halted = "none", foreign' = 0 PROVE \E H : Explains(H)'
      OBVIOUS
    <3>2. PICK H : Explains(H)
      BY <2>2, <2>6, <3>1 DEF TripInv
    <3>3. bootNonce' # Unset /\ ~shortBoot' =>
            \A t \in Tx : fate[t] \in Mined /\ nonceOf[t] >= bootNonce' => t \in H
      <4>1. CASE bootNonce = Unset
        <5>1. bootNonce' = now /\ (~shortBoot' => ~(now < PendingNonce))
          BY <2>1, <4>1
        <5>2. SUFFICES ASSUME ~shortBoot', NEW t \in Tx, fate[t] \in Mined, nonceOf[t] >= now PROVE FALSE
          BY <5>1
        <5>3. nonceOf[t] < mined /\ nonceOf[t] \in Int
          BY <1>1, <5>2 DEF ChainInv, Unset
        <5> QED BY <1>1, <2>3, <5>1, <5>2, <5>3
      <4>2. CASE bootNonce # Unset
        <5>1. bootNonce' = bootNonce /\ (~shortBoot' => ~shortBoot)
          BY <2>1, <4>2
        <5> QED BY <3>2, <4>2, <5>1 DEF Explains
      <4> QED BY <4>1, <4>2
    <3>4. Explains(H)'
      BY <2>2, <3>2, <3>3 DEF Explains, InFlight
    <3> QED BY <3>4
  <2> QED BY <2>2, <2>9, <2>10 DEF TripInv
<1>8. ASSUME ChainStep PROVE TripInv'
  <2>1. UNCHANGED <<ledger, mem, found, stage, send, sentCount, bootNonce, shortBoot>>
    BY <1>8 DEF ChainStep, ledgerVars, bootVars, headVars
  <2>2. \A u \in Tx : InFlight(u)' => InFlight(u)
    BY <1>1, <1>8, ChainEffect DEF InFlight, Mined
  <2>3. foreign' >= foreign
    BY OneStep
  <2>4. \A H : Explains(H) => Explains(H)'
    BY <2>1, StaysExplained
  <2>5. Kept' = Kept
    BY <2>1 DEF Kept
  <2>6. foreign' = 0 => foreign = 0
    BY <1>1, <2>3
  <2>7. foreign > 0 => foreign' > 0
    BY <1>1, <2>3
  <2> QED BY <2>1, <2>2, <2>4, <2>5, <2>6, <2>7 DEF TripInv
<1>9. ASSUME Crash PROVE TripInv'
  <2>1. UNCHANGED <<ledger, foreign, shortBoot>> /\ stage' = "down" /\ mem' = NewState
    BY <1>1, <1>9, CrashFile DEF Crash, chainVars
  <2>2. Kept' = Kept /\ mem'.halted = "none"
    BY <2>1 DEF Kept, NewState
  <2> QED BY <2>1, <2>2 DEF TripInv
<1>10. ASSUME OperatorReset PROVE TripInv'
  <2>1. stage = "down" /\ ledger' = Append(ledger, ResetRecord) /\ UNCHANGED <<mem, foreign, stage, shortBoot>>
    BY <1>1, <1>10, ResetFile DEF OperatorReset, chainVars, bootVars, headVars
  <2>2. ResetRecord \in CanaryRecord /\ ResetRecord.kind # "halted"
    BY DEF CanaryRecord, ResetRecord
  <2>3. Kept'.halted = "tripwire" => Kept.halted = "tripwire"
    BY <2>1, <2>2, GrowsQuietly
  <2> QED BY <2>1, <2>3 DEF TripInv
<1>11. ASSUME Open PROVE TripInv'
  <2>1. UNCHANGED <<ledger, foreign, fate, found, shortBoot>> /\ stage = "down" /\ stage' = "resolving"
        /\ mem' = Replay(Legible)
    BY <1>11 DEF Open, ledgerVars, chainVars, headVars
  <2>2. Kept' = Kept
    BY <2>1 DEF Kept
  <2>3. \A t \in Tx : found'[t] = "none"
    BY <2>1 DEF AloneInv
  <2>4. mem'.halted = "tripwire" => Kept.halted = "tripwire" \/ file.stray = <<Halted("tripwire")>>
    <3>1. Kept \in Totals
      BY <1>1, ReplayType DEF Kept
    <3>2. \A r \in CanaryRecord : Apply(Kept, r).halted = "tripwire" =>
             Kept.halted = "tripwire" \/ r = Halted("tripwire")
      BY <3>1, ApplyShape
    <3> QED BY <1>1, <2>1, <3>2, OpenedIs
  <2> QED BY <2>1, <2>2, <2>3, <2>4 DEF TripInv, TripStray
<1>12. ASSUME NEW t \in Tx, ResolveOpen(t) PROVE TripInv'
  <2> DEFINE r == Outcome(t, Settled(t))
  <2>1. UNCHANGED <<fate, stage, foreign, shortBoot>> /\ stage = "resolving"
    BY <1>12 DEF ResolveOpen, chainVars, headVars
  <2>2. r \in CanaryRecord /\ r.kind # "halted"
    BY RecordsAre DEF CanaryRecord, OutcomeKind, EndKind
  <2>3. /\ mem.halted # "none" => mem'.halted # "none"
        /\ mem' \in {mem, Apply(mem, r), Trip(mem, "unresolved")}
        /\ fate[t] \in Mined \/ mem'.halted # "none"
        /\ Halts(ledger) \/ Halts(Append(ledger, r))
        /\ \E f : found' = [found EXCEPT ![t] = f]
    BY <1>1, <1>12, ResolveShape DEF CanaryTypes
  <2> HIDE DEF r
  <2>4. Trip(mem, "unresolved").halted = "tripwire" => mem.halted = "tripwire"
    BY <1>1, TripShape DEF Why
  <2>5. mem'.halted = "tripwire" => mem.halted = "tripwire"
    BY <2>2, <2>3, <2>4, AppliesQuietly
  <2>6. Kept'.halted = "tripwire" => Kept.halted = "tripwire" \/ mem'.halted = "tripwire"
    <3>1. CASE Halts(ledger)
      BY <1>1, <3>1, HaltsKeep DEF Kept
    <3>2. CASE Halts(Append(ledger, r))
      <4>1. Append(ledger, r) \in Seq(CanaryRecord)
        BY <1>1, <2>2
      <4>2. Kept'.halted = "tripwire" => Replay(Append(ledger, r)).halted = "tripwire" \/ mem'.halted = "tripwire"
        BY <1>1, <3>2, <4>1, HaltsKeep
      <4>3. Replay(Append(ledger, r)) = Apply(Kept, r) /\ Kept \in Totals
        BY <1>1, <2>2, ReplayAppend, ReplayType DEF Kept
      <4>4. r # Halted("tripwire")
        BY <2>2 DEF Halted
      <4> DEFINE k == Kept
      <4> HIDE DEF k
      <4>5. k \in Totals
        BY <4>3 DEF k
      <4>6. Apply(k, r).halted = "tripwire" => k.halted = "tripwire"
        BY <2>2, <4>4, <4>5, ApplyShape
      <4> QED BY <4>2, <4>3, <4>6 DEF k
    <3> QED BY <2>3, <3>1, <3>2
  <2>7. mem'.halted = "tripwire" \/ Kept'.halted = "tripwire" => foreign' > 0 \/ shortBoot'
    BY <2>1, <2>5, <2>6, TripReasonKept
  <2>8. \A u \in Tx : u # t => found'[u] = found[u]
    BY <1>1, <2>3
  <2>9. mem'.halted = "none" => \A u \in Tx : InFlight(u)' => found'[u] = "none"
    BY <2>1, <2>3, <2>8 DEF TripInv, InFlight, Mined
  <2> QED BY <2>1, <2>7, <2>9 DEF TripInv
<1>13. ASSUME BootCloses PROVE TripInv'
  <2>1. UNCHANGED <<ledger, mem, fate, send, foreign, sentCount, bootNonce, shortBoot>>
        /\ stage \in {"resolving", "closing"}
    BY <1>13 DEF BootCloses, ledgerVars, chainVars, headVars
  <2>2. ToResolve = {} /\ send.pc = "idle" /\ bootNonce = Unset
    BY <1>1, <1>13, <2>1 DEF BootCloses, AloneInv, OnlyWhenUp, Idle
  <2>3. mem.halted = "none" => \A u \in Tx : ~InFlight(u)
    BY <2>1, <2>2 DEF TripInv, KnownInv, ToResolve
  <2>4. \/ stage' = "up"
        \/ stage' = "closing" /\ UNCHANGED found
    BY <1>13 DEF BootCloses
  <2>5. mem'.halted = "none" => Explains({})'
    BY <1>1, <2>1, <2>2, <2>3, FS_EmptySet DEF Explains, InFlight
  <2>6. Kept' = Kept
    BY <2>1 DEF Kept
  <2>7. mem'.halted = "none" => \A u \in Tx : ~InFlight(u)'
    BY <2>1, <2>3 DEF InFlight
  <2> QED BY <2>1, <2>4, <2>5, <2>6, <2>7 DEF TripInv
<1>14. ASSUME UNCHANGED vars PROVE TripInv'
  <2>1. UNCHANGED <<ledger, mem, fate, send, foreign, sentCount, bootNonce, shortBoot, stage, found, nonceOf>>
    BY <1>14 DEF vars, ledgerVars, chainVars, headVars, bootVars
  <2>2. Kept' = Kept
    BY <2>1 DEF Kept
  <2>3. \A H : Explains(H) => Explains(H)'
    BY <2>1, StaysExplained
  <2> QED BY <2>1, <2>2, <2>3 DEF TripInv, InFlight
<1> QED
  BY <1>2, <1>3, <1>4, <1>5, <1>6, <1>7, <1>8, <1>9, <1>10, <1>11, <1>12, <1>13, <1>14
     DEF Next, CaptureStep, HeadStep, Boot

\* shadow/mod.rs, nonce_beyond_ours: "a nonce beyond the boot reading plus every
\* send since means the key is in use elsewhere".  Whatever lands late, is refused
\* or is still unseen, a tripwire that halted found the key used elsewhere, or a
\* boot reading that trailed the chain.
THEOREM TripwireIsTruthful == Spec => []TripwireTruthful
<1> DEFINE I == /\ TypeInv /\ SendInv /\ StrayInv /\ KnownInv /\ LaneInv /\ AloneInv /\ ChainInv
                /\ TripInv /\ TripStray
<1>1. Init => I
  BY TypeInit, SendInit, StrayInit, KnownInit, LaneInit, AloneInit, ChainInit, TripInit, TripStrayInit
<1>2. I /\ [Next]_vars => I'
  BY TypeStep, SendStep, StrayStep, KnownStep, LaneStep, AloneStep, ChainKept, TripStep, TripStrayStep
<1>3. I => TripwireTruthful
  BY TripMeans
<1> QED BY <1>1, <1>2, <1>3, PTL DEF Spec
-----------------------------------------------------------------------------
(* Losses: what was sent since the last reset, and the sum over it.        *)

LastResetIn(l) == IF \E i \in 1..Len(l) : l[i] = ResetRecord
                  THEN CHOOSE i \in 1..Len(l) : l[i] = ResetRecord
                         /\ \A j \in (i + 1)..Len(l) : l[j] # ResetRecord
                  ELSE 0

SentIn(l) == {l[i].tx : i \in {j \in (LastResetIn(l) + 1)..Len(l) : l[j].kind = "sent"}}

LEMMA SentSinceIs == SentSinceReset = SentIn(ledger)
BY DEF SentSinceReset, SentIn, LastReset, LastResetIn

\* The last reset is a reset, or there is none; and none comes after it.
LEMMA LastResetIs ==
  ASSUME NEW l \in Seq(CanaryRecord)
  PROVE  /\ LastResetIn(l) \in 0..Len(l)
         /\ LastResetIn(l) # 0 => l[LastResetIn(l)] = ResetRecord
         /\ \A j \in (LastResetIn(l) + 1)..Len(l) : l[j] # ResetRecord
<1> DEFINE R == {i \in 1..Len(l) : l[i] = ResetRecord}
<1>1. Len(l) \in Nat
  OBVIOUS
<1>2. CASE R = {}
  <2>1. ~\E i \in 1..Len(l) : l[i] = ResetRecord
    BY <1>2
  <2>2. LastResetIn(l) = 0
    BY <2>1 DEF LastResetIn
  <2> QED BY <1>1, <2>1, <2>2
<1>3. CASE R # {}
  <2> DEFINE m == Max(R)
  <2>1. R \subseteq 1..Len(l)
    OBVIOUS
  <2>2. m \in R /\ \A y \in R : y <= m
    <3> HIDE DEF R
    <3> QED BY <1>1, <1>3, <2>1, MaxOfPlaces
  <2> HIDE DEF m
  <2>3. m \in 1..Len(l) /\ l[m] = ResetRecord /\ \A j \in (m + 1)..Len(l) : l[j] # ResetRecord
    BY <1>1, <2>2
  <2> DEFINE P(i) == l[i] = ResetRecord /\ \A j \in (i + 1)..Len(l) : l[j] # ResetRecord
  <2>4. LastResetIn(l) = CHOOSE i \in 1..Len(l) : P(i)
    BY <2>3 DEF LastResetIn
  <2>5. P(m)
    BY <2>3
  <2>6. LastResetIn(l) \in 1..Len(l) /\ P(LastResetIn(l))
    <3> HIDE DEF P
    <3> QED BY <2>3, <2>4, <2>5
  <2> QED BY <1>1, <2>6
<1> QED BY <1>2, <1>3

\* In other words: a send with no reset behind it.
SentAt(l, t) == \E i \in 1..Len(l) : /\ l[i].kind = "sent" /\ l[i].tx = t
                                     /\ \A j \in i..Len(l) : l[j] # ResetRecord

LEMMA SentInIs ==
  ASSUME NEW l \in Seq(CanaryRecord)
  PROVE  \A t : t \in SentIn(l) <=> SentAt(l, t)
<1> DEFINE R == LastResetIn(l)
<1>1. /\ R \in 0..Len(l) /\ Len(l) \in Nat
      /\ R # 0 => l[R] = ResetRecord
      /\ \A j \in (R + 1)..Len(l) : l[j] # ResetRecord
  BY LastResetIs
<1> SUFFICES ASSUME NEW t PROVE t \in SentIn(l) <=> SentAt(l, t)
  OBVIOUS
<1> HIDE DEF R
<1>2. ASSUME t \in SentIn(l) PROVE SentAt(l, t)
  <2>1. PICK i \in (R + 1)..Len(l) : l[i].kind = "sent" /\ l[i].tx = t
    BY <1>2 DEF SentIn, R
  <2>2. i \in 1..Len(l) /\ \A j \in i..Len(l) : j \in (R + 1)..Len(l)
    BY <1>1, <2>1
  <2> QED BY <1>1, <2>1, <2>2 DEF SentAt
<1>3. ASSUME SentAt(l, t) PROVE t \in SentIn(l)
  <2>1. PICK i \in 1..Len(l) : /\ l[i].kind = "sent" /\ l[i].tx = t
                               /\ \A j \in i..Len(l) : l[j] # ResetRecord
    BY <1>3 DEF SentAt
  <2>2. i > R
    <3>1. SUFFICES ASSUME ~(i > R) PROVE FALSE
      OBVIOUS
    <3>2. R \in i..Len(l) /\ R # 0
      BY <1>1, <3>1
    <3> QED BY <1>1, <2>1, <3>2
  <2>3. i \in (R + 1)..Len(l)
    BY <1>1, <2>2
  <2> QED BY <2>1, <2>3 DEF SentIn, R
<1> QED BY <1>2, <1>3

LEMMA SentInType ==
  ASSUME NEW l \in Seq(CanaryRecord)
  PROVE  SentIn(l) \subseteq Tx
<1> SUFFICES ASSUME NEW t \in SentIn(l) PROVE t \in Tx
  OBVIOUS
<1>1. PICK i \in 1..Len(l) : l[i].kind = "sent" /\ l[i].tx = t
  BY SentInIs DEF SentAt
<1>2. l[i] \in CanaryRecord
  OBVIOUS
<1>3. l[i] \in SentRecord
  BY <1>1, <1>2, RecordKinds
<1> QED BY <1>1, <1>3 DEF SentRecord

\* One record more: a reset starts over, a send is one more, others leave it.
LEMMA SentInAppend ==
  ASSUME NEW l \in Seq(CanaryRecord), NEW r \in CanaryRecord
  PROVE  SentIn(Append(l, r)) = IF r.kind = "reset" THEN {}
                                ELSE IF r.kind = "sent" THEN SentIn(l) \cup {r.tx}
                                ELSE SentIn(l)
<1> DEFINE k == Append(l, r)
           n == Len(l) + 1
<1>1. k \in Seq(CanaryRecord) /\ Len(k) = n /\ k[n] = r /\ n \in Nat /\ Len(l) \in Nat
      /\ \A i \in 1..Len(l) : k[i] = l[i]
  OBVIOUS
<1>2. r.kind = "reset" <=> r = ResetRecord
  BY RecordKinds
<1> HIDE DEF k, n
<1>3. n = Len(l) + 1
  BY DEF n
<1>4. ASSUME r.kind = "reset" PROVE SentIn(k) = {}
  <2>1. ASSUME NEW t, SentAt(k, t) PROVE FALSE
    <3>1. PICK i \in 1..n : \A j \in i..n : k[j] # ResetRecord
      BY <1>1, <2>1 DEF SentAt
    <3>2. n \in i..n
      BY <1>1
    <3> QED BY <1>1, <1>2, <1>4, <3>1, <3>2
  <2> QED BY <1>1, <2>1, SentInIs
<1>5. ASSUME r.kind # "reset", NEW t
      PROVE  SentAt(k, t) <=> SentAt(l, t) \/ (r.kind = "sent" /\ r.tx = t)
  <2>1. ASSUME SentAt(l, t) PROVE SentAt(k, t)
    <3>1. PICK i \in 1..Len(l) : /\ l[i].kind = "sent" /\ l[i].tx = t
                                 /\ \A j \in i..Len(l) : l[j] # ResetRecord
      BY <2>1 DEF SentAt
    <3>2. i \in 1..n /\ k[i] = l[i]
      BY <1>1, <1>3
    <3>3. ASSUME NEW j \in i..n PROVE k[j] # ResetRecord
      <4>1. j = n \/ (j \in i..Len(l) /\ j \in 1..Len(l))
        BY <1>1, <1>3
      <4> QED BY <1>1, <1>2, <1>5, <3>1, <4>1
    <3> QED BY <1>1, <3>1, <3>2, <3>3 DEF SentAt
  <2>2. ASSUME r.kind = "sent", r.tx = t PROVE SentAt(k, t)
    <3>1. \A j \in n..n : j = n
      BY <1>1
    <3>2. n \in 1..n
      BY <1>1, <1>3
    <3>3. /\ k[n].kind = "sent" /\ k[n].tx = t /\ \A j \in n..n : k[j] # ResetRecord
      BY <1>1, <1>2, <1>5, <2>2, <3>1
    <3> QED BY <1>1, <3>2, <3>3 DEF SentAt
  <2>3. ASSUME SentAt(k, t) PROVE SentAt(l, t) \/ (r.kind = "sent" /\ r.tx = t)
    <3>1. PICK i \in 1..n : /\ k[i].kind = "sent" /\ k[i].tx = t
                            /\ \A j \in i..n : k[j] # ResetRecord
      BY <1>1, <2>3 DEF SentAt
    <3>2. CASE i = n
      BY <1>1, <3>1, <3>2
    <3>3. CASE i # n
      <4>1. i \in 1..Len(l)
        BY <1>1, <1>3, <3>3
      <4>2. \A j \in i..Len(l) : j \in i..n /\ j \in 1..Len(l)
        BY <1>1, <1>3, <4>1
      <4>3. l[i].kind = "sent" /\ l[i].tx = t /\ \A j \in i..Len(l) : l[j] # ResetRecord
        BY <1>1, <3>1, <4>1, <4>2
      <4> QED BY <4>1, <4>3 DEF SentAt
    <3> QED BY <3>2, <3>3
  <2> QED BY <2>1, <2>2, <2>3
<1>6. ASSUME r.kind # "reset"
      PROVE  SentIn(k) = IF r.kind = "sent" THEN SentIn(l) \cup {r.tx} ELSE SentIn(l)
  <2>1. \A t : t \in SentIn(k) <=> t \in SentIn(l) \/ (r.kind = "sent" /\ r.tx = t)
    BY <1>1, <1>5, <1>6, SentInIs
  <2> QED BY <2>1
<1> QED BY <1>4, <1>6 DEF k

\* The losses of some transactions.
W(f) == [t \in Tx |-> LossOf(f[t])]
Lost(S) == Sum(W(fate), S)

LEMMA LossesAre ==
  ASSUME NEW f, NEW S \in SUBSET Tx
  PROVE  /\ \A t \in Tx : W(f)[t] = LossOf(f[t]) /\ LossOf(f[t]) \in 0..2 /\ LossOf(f[t]) \in Nat
         /\ Summable(W(f), S) /\ Sum(W(f), S) \in Nat
<1>1. \A t \in Tx : W(f)[t] = LossOf(f[t]) /\ LossOf(f[t]) \in 0..2 /\ LossOf(f[t]) \in Nat
  BY DEF W, LossOf
<1>2. IsFiniteSet(Tx)
  BY CanaryAssumption, FS_Interval DEF Tx
<1>3. Summable(W(f), S)
  BY <1>1, <1>2, FS_Subset DEF Summable
<1> QED BY <1>1, <1>3, SumType

LossIter(S) ==
  CHOOSE it : it = [s \in SUBSET S |->
                      IF s = {} THEN 0 ELSE LossOf(fate[CHOOSE x \in s : TRUE]) + it[s \ {CHOOSE x \in s : TRUE}]]

\* By definition of the folds.
LEMMA LossByIter == \A S : MapThenSumSet(LAMBDA t : LossOf(fate[t]), S) = LossIter(S)[S]
BY DEF MapThenSumSet, MapThenFoldSet, LossIter

\* What the invariant of the run adds up is this sum.
LEMMA LossIsSum ==
  ASSUME NEW S \in SUBSET Tx
  PROVE  MapThenSumSet(LAMBDA t : LossOf(fate[t]), S) = Lost(S)
<1> DEFINE w == W(fate)
           jt == LossIter(S)
<1>1. Summable(w, S) /\ \A t \in Tx : w[t] = LossOf(fate[t])
  BY LossesAre
<1> HIDE DEF w
<1>2. \A s \in SUBSET S : s # {} => Chosen(s) \in Tx /\ w[Chosen(s)] = LossOf(fate[Chosen(s)])
  BY <1>1 DEF Chosen
<1>3. ASSUME NEW it
      PROVE  [s \in SUBSET S |-> IF s = {} THEN 0 ELSE w[Chosen(s)] + it[s \ {Chosen(s)}]]
             = [s \in SUBSET S |-> IF s = {} THEN 0 ELSE LossOf(fate[Chosen(s)]) + it[s \ {Chosen(s)}]]
  BY <1>2
<1>4. PICK it : IsSum(it, w, S)
  BY <1>1, SumExists
<1>5. it = [s \in SUBSET S |-> IF s = {} THEN 0 ELSE LossOf(fate[Chosen(s)]) + it[s \ {Chosen(s)}]]
  BY <1>3, <1>4 DEF IsSum
<1>6. jt = [s \in SUBSET S |-> IF s = {} THEN 0 ELSE LossOf(fate[Chosen(s)]) + jt[s \ {Chosen(s)}]]
  BY <1>5 DEF LossIter, Chosen
<1> HIDE DEF jt
<1>7. IsSum(jt, w, S)
  BY <1>3, <1>6 DEF IsSum
<1>8. jt[S] = Sum(w, S)
  BY <1>1, <1>7, SumIs
<1> QED BY <1>8, LossByIter DEF jt, w, Lost

\* Fewer transactions, none of which lost more.
LEMMA LostLess ==
  ASSUME NEW f, NEW g, NEW A \in SUBSET Tx, NEW B \in SUBSET A, \A t \in B : LossOf(g[t]) <= LossOf(f[t])
  PROVE  Sum(W(g), B) <= Sum(W(f), A)
<1>1. B \in SUBSET Tx
  OBVIOUS
<1>2. /\ Summable(W(f), A) /\ Summable(W(f), B) /\ Summable(W(g), B)
      /\ Sum(W(f), A) \in Nat /\ Sum(W(f), B) \in Nat /\ Sum(W(g), B) \in Nat
      /\ \A t \in Tx : W(f)[t] = LossOf(f[t]) /\ W(g)[t] = LossOf(g[t])
  BY <1>1, LossesAre
<1>3. Sum(W(f), B) <= Sum(W(f), A)
  BY <1>2, SumSubset
<1>4. \A t \in B : W(g)[t] <= W(f)[t]
  BY <1>1, <1>2
<1>5. Sum(W(g), B) <= Sum(W(f), B)
  BY <1>2, <1>4, SumMonotone
<1> QED BY <1>2, <1>3, <1>5

\* One transaction more.
LEMMA LostOneMore ==
  ASSUME NEW f, NEW A \in SUBSET Tx, NEW B \in SUBSET Tx, NEW t \in Tx, B \subseteq A \cup {t}
  PROVE  Sum(W(f), B) <= Sum(W(f), A) + LossOf(f[t])
<1>1. /\ Summable(W(f), B) /\ Sum(W(f), A) \in Nat /\ Sum(W(f), B) \in Nat
      /\ \A u \in Tx : W(f)[u] = LossOf(f[u]) /\ LossOf(f[u]) \in Nat
  BY LossesAre
<1>2. B \ {t} \in SUBSET A /\ B \ {t} \in SUBSET Tx
  OBVIOUS
<1>3. \A u \in B \ {t} : LossOf(f[u]) <= LossOf(f[u])
  BY <1>1
<1>4. Sum(W(f), B \ {t}) <= Sum(W(f), A)
  BY <1>2, <1>3, LostLess
<1>5. Sum(W(f), B \ {t}) \in Nat
  BY <1>2, LossesAre
<1>6. CASE t \in B
  <2>1. Sum(W(f), B) = Sum(W(f), B \ {t}) + W(f)[t]
    BY <1>1, <1>6, SumRemove
  <2> QED BY <1>1, <1>4, <1>5, <2>1
<1>7. CASE t \notin B
  <2>1. B \ {t} = B
    BY <1>7
  <2>2. Sum(W(f), B) <= Sum(W(f), A)
    BY <1>4, <2>1
  <2>3. LossOf(f[t]) \in Nat
    BY <1>1
  <2> HIDE DEF W
  <2> QED BY <1>1, <2>2, <2>3
<1> QED BY <1>6, <1>7
-----------------------------------------------------------------------------
(* A loss at its cap halts, in memory and on disk.                         *)

HaltInv ==
  /\ mem.lost >= LossCap => mem.halted # "none"
  /\ Kept.lost >= LossCap => Kept.halted # "none"
  /\ send.pc = "clear" => mem.lost < LossCap

\* The ledger grew by a record, or by a halt behind it.
LEMMA KeptCapped ==
  ASSUME TypeInv, TypeInv', HaltInv,
         \E r \in CanaryRecord : ledger' \in {ledger, Append(ledger, r)} \/ Halts(ledger) \/ Halts(Append(ledger, r))
  PROVE  Kept'.lost >= LossCap => Kept'.halted # "none"
<1>1. LedgerType /\ ledger \in Seq(CanaryRecord) /\ Kept \in Totals /\ mem' \in Totals
  BY ReplayType DEF TypeInv, CanaryTypes, LedgerType, Kept
<1>2. PICK r \in CanaryRecord : ledger' \in {ledger, Append(ledger, r)} \/ Halts(ledger) \/ Halts(Append(ledger, r))
  OBVIOUS
<1>3. Replay(Append(ledger, r)) = Apply(Kept, r) /\ Append(ledger, r) \in Seq(CanaryRecord)
  BY <1>1, ReplayAppend DEF Kept
<1>4. Apply(Kept, r).lost >= LossCap => Apply(Kept, r).halted # "none"
  BY <1>1, ApplyShape
<1>5. CASE ledger' \in {ledger, Append(ledger, r)}
  BY <1>3, <1>4, <1>5 DEF Kept, HaltInv
<1>6. CASE Halts(ledger)
  BY <1>1, <1>6, HaltsKeep DEF Kept, HaltInv
<1>7. CASE Halts(Append(ledger, r))
  BY <1>1, <1>3, <1>4, <1>7, HaltsKeep
<1> QED BY <1>2, <1>5, <1>6, <1>7

LEMMA HaltInit == Init => HaltInv
<1> SUFFICES ASSUME Init PROVE HaltInv
  OBVIOUS
<1>1. Kept = NewState /\ mem = NewState /\ send.pc = "idle"
  BY ReplayEmpty DEF Init, Kept, Idle
<1>2. ~(0 >= LossCap)
  BY CanaryAssumption
<1> QED BY <1>1, <1>2 DEF HaltInv, NewState

LEMMA HaltStep ==
  ASSUME TypeInv, TypeInv', HaltInv, [Next]_vars
  PROVE  HaltInv'
<1>1. /\ CanaryTypes /\ OnlyWhenUp /\ mem \in Totals /\ mem' \in Totals
      /\ ResetRecord \in CanaryRecord /\ LossCap \in Nat \ {0} /\ LedgerType
  BY CanaryAssumption DEF TypeInv, CanaryTypes, LedgerType, CanaryRecord
<1>2. CASE \/ UNCHANGED vars \/ ChainStep \/ BootCloses
           \/ \E t \in Tx : Admit(t) \/ HandOff(t) \/ Close(t) \/ CheckHold(t)
  <2>1. UNCHANGED <<ledger, mem>> /\ (send'.pc = "clear" => UNCHANGED send \/ mem.halted = "none")
    BY <1>2 DEF vars, ChainStep, BootCloses, Admit, HandOff, Close, CheckHold, Goes, Ends, Idle, ledgerVars
  <2>2. Kept' = Kept
    BY <2>1 DEF Kept
  <2>3. mem.lost \in Nat
    BY <1>1 DEF Totals
  <2> QED BY <1>1, <2>1, <2>2, <2>3 DEF HaltInv
<1>3. ASSUME NEW t \in Tx, WriteAhead(t) PROVE HaltInv'
  <2>1. Sent(t) \in CanaryRecord
    BY RecordsAre DEF CanaryRecord
  <2>2. /\ ledger' \in {ledger, Append(ledger, Sent(t))} /\ mem' \in {mem, Apply(mem, Sent(t))}
        /\ send'.pc # "clear"
    BY <1>1, <1>3, <2>1, RecordedIs, UnrecordedIs DEF WriteAhead, Goes, Ends
  <2>3. Kept'.lost >= LossCap => Kept'.halted # "none"
    BY <2>1, <2>2, KeptCapped
  <2>4. mem'.lost >= LossCap => mem'.halted # "none"
    BY <1>1, <2>1, <2>2, ApplyShape DEF HaltInv
  <2> QED BY <2>2, <2>3, <2>4 DEF HaltInv
<1>4. ASSUME NEW t \in Tx, NEW kind \in OutcomeKind, NEW e, Settle(t, kind, e) PROVE HaltInv'
  <2> DEFINE r == Outcome(t, kind)
  <2>1. r \in CanaryRecord
    BY RecordsAre DEF CanaryRecord
  <2>2. /\ ledger' \in {ledger, Append(ledger, r)} /\ mem' \in {mem, Apply(mem, r)}
        /\ send'.pc # "clear"
    BY <1>1, <1>4, SettleShape
  <2> HIDE DEF r
  <2>3. Kept'.lost >= LossCap => Kept'.halted # "none"
    BY <2>1, <2>2, KeptCapped
  <2>4. mem'.lost >= LossCap => mem'.halted # "none"
    BY <1>1, <2>1, <2>2, ApplyShape DEF HaltInv
  <2> QED BY <2>2, <2>3, <2>4 DEF HaltInv
<1>5. ASSUME NEW t \in Tx, Answer(t) \/ Observe(t) PROVE HaltInv'
  <2>1. CASE Goes("watched", t) /\ UNCHANGED <<ledgerVars, mem, fate>>
    <3>1. UNCHANGED <<ledger, mem>> /\ send'.pc = "watched" /\ Kept' = Kept
      BY <2>1 DEF Goes, ledgerVars, Kept
    <3> QED BY <3>1 DEF HaltInv
  <2>2. CASE \E kind \in OutcomeKind, e \in Endings : Settle(t, kind, e)
    BY <1>4, <2>2
  <2>3. Settled(t) \in OutcomeKind /\ Ending(t) \in Endings
    BY RecordsAre DEF OutcomeKind, EndKind, Ending, Endings
  <2>4. {"refused", "silent", "unresolved"} \subseteq OutcomeKind /\ {"rejected", "unanswered", "timeout"} \subseteq Endings
    BY DEF OutcomeKind, EndKind, Endings
  <2>5. CASE Lapses(t) /\ Observe(t)
    <3>1. UNCHANGED <<ledger, mem>> /\ send'.pc = "closing"
      BY <2>5 DEF Lapses, Ends
    <3>2. Kept' = Kept
      BY <3>1 DEF Kept
    <3> QED BY <3>1, <3>2 DEF HaltInv
  <2> QED BY <1>5, <2>1, <2>2, <2>3, <2>4, <2>5 DEF Answer, Observe
<1>6. ASSUME (\E t \in Tx : RecordHalt(t)) \/ RecordTripwire PROVE HaltInv'
  <2>1. UNCHANGED mem /\ WriteHalt /\ mem.halted # "none" /\ (send'.pc = "clear" => UNCHANGED send)
    BY <1>6, <1>1 DEF RecordHalt, RecordTripwire, At, Ends, CanaryTypes, HaltsOnCause
  <2>2. Halts(ledger)
    BY <1>1, <2>1, WriteHaltIs
  <2>3. Kept'.lost >= LossCap => Kept'.halted # "none"
    BY <1>1, <2>2, KeptCapped
  <2> QED BY <2>1, <2>3 DEF HaltInv
<1>7. ASSUME ReadNonce PROVE HaltInv'
  <2>1. UNCHANGED <<ledger, send>> /\ mem' \in {mem, Trip(mem, "tripwire")}
    BY <1>7 DEF ReadNonce, ledgerVars
  <2>2. /\ Trip(mem, "tripwire").lost = mem.lost
        /\ Trip(mem, "tripwire").halted = IF mem.halted = "none" THEN "tripwire" ELSE mem.halted
    BY <1>1, TripShape DEF Why
  <2>3. Kept' = Kept
    BY <2>1 DEF Kept
  <2> QED BY <2>1, <2>2, <2>3 DEF HaltInv
<1>8. ASSUME Crash PROVE HaltInv'
  <2>1. UNCHANGED ledger /\ send'.pc = "idle" /\ mem'.lost = 0
    BY <1>1, <1>8, CrashFile DEF Crash, Idle, NewState
  <2>2. Kept' = Kept /\ ~(0 >= LossCap)
    BY <1>1, <2>1 DEF Kept
  <2> QED BY <2>1, <2>2 DEF HaltInv
<1>9. ASSUME OperatorReset PROVE HaltInv'
  <2>1. ledger' = Append(ledger, ResetRecord) /\ UNCHANGED <<mem, send>>
    BY <1>1, <1>9, ResetFile DEF OperatorReset
  <2>2. Kept'.lost >= LossCap => Kept'.halted # "none"
    BY <1>1, <2>1, KeptCapped
  <2> QED BY <2>1, <2>2 DEF HaltInv
<1>10. ASSUME Open PROVE HaltInv'
  <2>1. UNCHANGED <<ledger, send>> /\ mem' = Replay(Legible) /\ send.pc = "idle"
    BY <1>1, <1>10 DEF Open, OnlyWhenUp, Idle, ledgerVars
  <2>2. Kept' = Kept /\ Kept \in Totals
    BY <1>1, <2>1, ReplayType DEF Kept, LedgerType
  <2>3. mem'.lost >= LossCap => mem'.halted # "none"
    <3>1. CASE mem' = Kept
      BY <3>1 DEF HaltInv
    <3>2. ASSUME NEW r \in CanaryRecord, mem' = Apply(Kept, r)
          PROVE  mem'.lost >= LossCap => mem'.halted # "none"
      <4>1. Apply(Kept, r).lost >= LossCap => Apply(Kept, r).halted # "none"
        BY <2>2, ApplyShape
      <4> QED BY <3>2, <4>1
    <3> QED BY <1>1, <2>1, <3>1, <3>2, OpenedIs
  <2> QED BY <2>1, <2>2, <2>3 DEF HaltInv
<1>11. ASSUME NEW t \in Tx, ResolveOpen(t) PROVE HaltInv'
  <2> DEFINE r == Outcome(t, Settled(t))
  <2>1. UNCHANGED send /\ send.pc = "idle"
    BY <1>1, <1>11 DEF ResolveOpen, OnlyWhenUp, Idle
  <2>2. r \in CanaryRecord
    BY RecordsAre DEF CanaryRecord, OutcomeKind, EndKind
  <2>3. /\ mem' \in {mem, Apply(mem, r), Trip(mem, "unresolved")}
        /\ Halts(ledger) \/ Halts(Append(ledger, r))
    BY <1>1, <1>11, ResolveShape DEF CanaryTypes
  <2> HIDE DEF r
  <2>4. Kept'.lost >= LossCap => Kept'.halted # "none"
    BY <2>2, <2>3, KeptCapped
  <2>5. Trip(mem, "unresolved").halted # "none"
    BY <1>1, TripShape DEF Why
  <2>6. mem'.lost >= LossCap => mem'.halted # "none"
    <3>1. Apply(mem, r).lost >= LossCap => Apply(mem, r).halted # "none"
      BY <1>1, <2>2, ApplyShape
    <3>2. CASE mem' = mem
      BY <3>2 DEF HaltInv
    <3> QED BY <2>3, <2>5, <3>1, <3>2
  <2> QED BY <2>1, <2>4, <2>6 DEF HaltInv
<1> QED
  BY <1>2, <1>3, <1>5, <1>6, <1>7, <1>8, <1>9, <1>10, <1>11 DEF Next, CaptureStep, HeadStep, Boot
-----------------------------------------------------------------------------
(* The losses are bounded.                                                 *)

\* Totals whose losses cover what the sends in S lost, but for what they hold
\* open and what a ledger missed.
Covers(s, S, M, f) == Sum(W(f), S \ (M \cup s.open)) <= s.lost

LEMMA CoversLess ==
  ASSUME NEW s, NEW q, NEW f, NEW g, NEW S, NEW R, NEW M, NEW N, S \subseteq Tx, Covers(s, S, M, f),
         s.lost \in Nat, q.lost \in Nat, s.lost <= q.lost, s.open \ q.open \subseteq N, R \subseteq S,
         M \subseteq N,
         \A t \in S : t \notin s.open => LossOf(g[t]) <= LossOf(f[t])
  PROVE  Covers(q, R, N, g)
<1> DEFINE A == S \ (M \cup s.open)
           B == R \ (N \cup q.open)
<1>1. A \in SUBSET Tx /\ B \in SUBSET A /\ B \in SUBSET Tx /\ \A t \in B : LossOf(g[t]) <= LossOf(f[t])
  OBVIOUS
<1>2. Sum(W(f), A) <= s.lost
  BY DEF Covers
<1> HIDE DEF A, B
<1>3. Sum(W(g), B) <= Sum(W(f), A)
  BY <1>1, LostLess
<1>4. Sum(W(f), A) \in Nat /\ Sum(W(g), B) \in Nat
  BY <1>1, LossesAre
<1>5. Sum(W(g), B) <= q.lost
  BY <1>2, <1>3, <1>4
<1> QED BY <1>5 DEF Covers, B

\* A record keeps it so, if an outcome accounts for what its transaction lost.
LEMMA CoversApply ==
  ASSUME NEW s \in Totals, NEW r \in CanaryRecord, NEW f, NEW S, NEW M, S \subseteq Tx, Covers(s, S, M, f),
         NEW R, R = (IF r.kind = "reset" THEN {} ELSE IF r.kind = "sent" THEN S \cup {r.tx} ELSE S),
         r.kind \in {"landed", "reverted"} => r.loss = LossOf(f[r.tx]),
         r.kind \in EndKind \ {"landed", "reverted"} => LossOf(f[r.tx]) = 0
  PROVE  Covers(Apply(s, r), R, M, f)
<1>1. /\ Apply(s, r) \in Totals /\ s.lost \in Nat
      /\ Apply(s, r).open = IF r.kind = "sent" THEN s.open \cup {r.tx}
                            ELSE IF r.kind \in EndKind THEN s.open \ {r.tx} ELSE s.open
      /\ Apply(s, r).lost = IF r.kind = "reset" THEN 0
                            ELSE IF r.kind \in {"landed", "reverted"} THEN s.lost + r.loss
                            ELSE s.lost
  BY ApplyShape DEF Totals
<1> DEFINE q == Apply(s, r)
           A == S \ (M \cup s.open)
           B == R \ (M \cup q.open)
<1> HIDE DEF q
<1>2. A \in SUBSET Tx /\ Sum(W(f), A) <= s.lost
  BY DEF Covers
<1>3. Sum(W(f), A) \in Nat
  BY <1>2, LossesAre
<1>4. CASE r.kind = "reset"
  <2>1. B = {} /\ q.lost = 0
    BY <1>1, <1>4 DEF q
  <2>2. Sum(W(f), B) = 0
    BY <2>1, SumEmpty
  <2> QED BY <2>1, <2>2 DEF Covers, q
<1>5. CASE r.kind \in EndKind
  <2>1. r.tx \in Tx /\ r.kind \notin {"sent", "reset"}
    BY <1>5, RecordKinds DEF OutcomeRecord, OutcomeKind, EndKind
  <2>2. B \in SUBSET Tx /\ B \subseteq A \cup {r.tx}
    BY <1>1, <1>5, <2>1 DEF q
  <2> HIDE DEF A, B
  <2>3. Sum(W(f), B) <= Sum(W(f), A) + LossOf(f[r.tx])
    BY <1>2, <2>1, <2>2, LostOneMore
  <2>4. q.lost = s.lost + LossOf(f[r.tx])
    <3>1. CASE r.kind \in {"landed", "reverted"}
      BY <1>1, <3>1 DEF q
    <3>2. CASE r.kind \in EndKind \ {"landed", "reverted"}
      BY <1>1, <3>2 DEF q, EndKind
    <3> QED BY <1>5, <3>1, <3>2
  <2>5. Sum(W(f), B) \in Nat /\ LossOf(f[r.tx]) \in Nat
    BY <1>2, <2>1, <2>2, LossesAre
  <2>6. Sum(W(f), B) <= q.lost
    BY <1>1, <1>2, <1>3, <2>3, <2>4, <2>5
  <2> QED BY <2>6 DEF Covers, q, B
<1>6. CASE r.kind \notin EndKind \cup {"reset"}
  <2>1. B \in SUBSET A /\ q.lost = s.lost
    BY <1>1, <1>6 DEF q, EndKind
  <2>2. \A t \in B : LossOf(f[t]) <= LossOf(f[t])
    BY DEF LossOf
  <2> HIDE DEF A, B
  <2>3. Sum(W(f), B) <= Sum(W(f), A)
    BY <1>2, <2>1, <2>2, LostLess
  <2>4. B \in SUBSET Tx
    BY <1>2, <2>1
  <2>5. Sum(W(f), B) \in Nat
    BY <2>4, LossesAre
  <2>6. Sum(W(f), B) <= q.lost
    BY <1>1, <1>2, <1>3, <2>1, <2>3, <2>5
  <2> QED BY <2>6 DEF Covers, q, B
<1> QED BY <1>4, <1>5, <1>6

Sends == SentIn(ledger)

\* What no limit sees: the outcomes the ledger refused, and the sends the plane
\* stopped following.
Unseen == missed \cup lapsed

\* But for one transaction, what was sent since the last reset has lost less than
\* the cap and can lose no more.
ButFor(x) ==
  /\ Sum(W(fate), Sends \ (Unseen \cup {x})) <= LossCap - 1
  /\ \A t \in Sends \ Unseen : t # x => ~InFlight(t) /\ ~(send.pc = "written" /\ send.tx = t)

LossInv ==
  /\ stage # "down" => Covers(mem, Sends, Unseen, fate)
  /\ Covers(Kept, Sends, Unseen, fate)
  /\ \E x : ButFor(x)

LEMMA SendsAre ==
  ASSUME TypeInv
  PROVE  Sends \subseteq Tx /\ ledger \in Seq(CanaryRecord) /\ Kept \in Totals /\ mem \in Totals /\ Unseen \subseteq Tx
BY SentInType, ReplayType DEF TypeInv, CanaryTypes, LedgerType, Sends, Kept, Unseen

LEMMA LossMeans ==
  ASSUME TypeInv, LossInv
  PROVE  LossBounded
<1>1. Sends \subseteq Tx /\ Unseen \subseteq Tx
  BY SendsAre
<1>2. PICK x : ButFor(x)
  BY DEF LossInv
<1> DEFINE A == Sends \ (Unseen \cup {x})
           B == Sends \ Unseen
<1>3. A \in SUBSET Tx /\ B \in SUBSET Tx
  BY <1>1
<1>4. Sum(W(fate), A) <= LossCap - 1
  BY <1>2 DEF ButFor
<1>5. Sum(W(fate), A) \in Nat /\ Sum(W(fate), B) \in Nat /\ LossCap \in Nat
  BY <1>3, LossesAre, CanaryAssumption
<1>6. ASSUME x \in Tx PROVE Sum(W(fate), B) <= LossCap - 1 + 2
  <2>1. B \subseteq A \cup {x}
    OBVIOUS
  <2> HIDE DEF A, B
  <2>2. Sum(W(fate), B) <= Sum(W(fate), A) + LossOf(fate[x])
    BY <1>3, <1>6, <2>1, LostOneMore
  <2>3. LossOf(fate[x]) \in 0..2
    BY <1>3, <1>6, LossesAre
  <2> HIDE DEF W, LossOf
  <2> QED BY <1>4, <1>5, <2>2, <2>3
<1>7. ASSUME x \notin Tx PROVE Sum(W(fate), B) <= LossCap - 1 + 2
  <2>1. A = B
    BY <1>1, <1>7
  <2>2. Sum(W(fate), B) <= LossCap - 1
    BY <1>4, <2>1
  <2> HIDE DEF A, B
  <2> QED BY <1>5, <2>2
<1>8. Lost(B) <= LossCap - 1 + 2
  BY <1>6, <1>7 DEF Lost
<1>9. Lost(B) = MapThenSumSet(LAMBDA t : LossOf(fate[t]), B)
  BY <1>3, LossIsSum
<1>10. B = SentSinceReset \ (missed \cup lapsed)
  BY SentSinceIs DEF Sends, Unseen
<1> QED BY <1>8, <1>9, <1>10 DEF LossBounded

LEMMA LossInit == Init => LossInv
<1> SUFFICES ASSUME Init PROVE LossInv
  OBVIOUS
<1>1. ledger = <<>> /\ stage = "down" /\ Kept = NewState
  BY ReplayEmpty DEF Init, Kept
<1>2. <<>> \in Seq(CanaryRecord) /\ Len(<<>>) = 0
  OBVIOUS
<1>3. Sends = {}
  <2>1. \A t : ~SentAt(<<>>, t)
    BY <1>2 DEF SentAt
  <2> QED BY <1>1, <1>2, <2>1, SentInIs DEF Sends
<1>4. \A A : Sends \ A = {}
  BY <1>3
<1>5. Sum(W(fate), {}) = 0
  BY SumEmpty
<1>6. Covers(Kept, Sends, Unseen, fate)
  <2>1. Sends \ (Unseen \cup Kept.open) = {}
    BY <1>4
  <2>2. Kept.lost = 0
    BY <1>1 DEF NewState
  <2>3. Sum(W(fate), Sends \ (Unseen \cup Kept.open)) <= Kept.lost
    BY <1>5, <2>1, <2>2
  <2> QED BY <2>3 DEF Covers
<1>7. ButFor(0)
  BY <1>3, <1>4, <1>5, CanaryAssumption DEF ButFor
<1> QED BY <1>1, <1>6, <1>7 DEF LossInv
\* What may not land any more has lost what it will.
LEMMA LossMoves ==
  ASSUME TypeInv, SendInv, KnownInv, [Next]_vars
  PROVE  /\ \A u \in Tx : ~InFlight(u) => LossOf(fate'[u]) <= LossOf(fate[u])
         /\ \A u \in Tx : u \notin Kept.open \/ (stage # "down" /\ u \notin mem.open) => ~InFlight(u)
<1>1. ASSUME NEW u \in Tx, ~InFlight(u) PROVE LossOf(fate'[u]) <= LossOf(fate[u])
  <2>1. CASE fate'[u] \in Mined
    <3>1. fate'[u] = fate[u]
      BY <1>1, <2>1, OneStep DEF InFlight
    <3> QED BY <3>1 DEF LossOf
  <2>2. CASE fate'[u] \notin Mined
    BY <2>2 DEF LossOf, Mined
  <2> QED BY <2>1, <2>2
<1>2. ASSUME NEW u \in Tx, u \notin Kept.open \/ (stage # "down" /\ u \notin mem.open), InFlight(u)
      PROVE  FALSE
  BY <1>2 DEF KnownInv, Remembered, InFlight, Mined
<1> QED BY <1>1, <1>2

\* A step that sends nothing anew leaves the one transaction that may still lose.
LEMMA ButForStays ==
  ASSUME TypeInv, TypeInv', SendInv, KnownInv, [Next]_vars, NEW x, ButFor(x),
         Sends' \subseteq Sends, Unseen \subseteq Unseen', send'.pc = "written" => UNCHANGED send
  PROVE  ButFor(x)'
<1> DEFINE A == Sends \ (Unseen \cup {x})
           B == Sends' \ (Unseen' \cup {x})
<1>1. A \in SUBSET Tx /\ B \in SUBSET A /\ B \in SUBSET Tx
  BY SendsAre
<1>2. \A t \in A : ~InFlight(t) /\ ~(send.pc = "written" /\ send.tx = t)
  BY DEF ButFor
<1>3. \A t \in B : LossOf(fate'[t]) <= LossOf(fate[t])
  BY <1>1, <1>2, LossMoves
<1>4. \A t \in B : ~InFlight(t)' /\ ~(send.pc = "written" /\ send.tx = t)
  BY <1>1, <1>2, OneStep
<1>5. \A t \in B : ~(send'.pc = "written" /\ send'.tx = t)
  BY <1>4
<1>6. Sum(W(fate), A) <= LossCap - 1
  BY DEF ButFor
<1> HIDE DEF A, B
<1>7. Sum(W(fate'), B) <= Sum(W(fate), A)
  BY <1>1, <1>3, LostLess
<1>8. Sum(W(fate'), B) \in Nat /\ Sum(W(fate), A) \in Nat /\ LossCap \in Nat
  BY <1>1, LossesAre, CanaryAssumption
<1>9. Sum(W(fate'), B) <= LossCap - 1
  BY <1>6, <1>7, <1>8
<1>10. \A t \in Sends' \ Unseen' : t # x => t \in B
  BY DEF B
<1> QED BY <1>4, <1>5, <1>9, <1>10 DEF ButFor, B, W

\* The ledger grew by nothing, or by a halt.
LEMMA QuietLoss ==
  ASSUME TypeInv, TypeInv', SendInv, KnownInv, LossInv, [Next]_vars, Halts(ledger), Unseen \subseteq Unseen',
         stage' # "down" => \/ stage # "down" /\ mem'.open = mem.open /\ mem'.lost = mem.lost
                            \/ Kept.lost <= mem'.lost /\ Kept.open \ mem'.open \subseteq Unseen',
         send'.pc = "written" => UNCHANGED send
  PROVE  LossInv'
<1>1. /\ Sends \subseteq Tx /\ ledger \in Seq(CanaryRecord) /\ Kept \in Totals /\ mem \in Totals
      /\ mem' \in Totals
  BY SendsAre DEF TypeInv, CanaryTypes, LedgerType
<1>2. Kept'.open = Kept.open /\ Kept'.lost = Kept.lost
  BY <1>1, HaltsKeep DEF Kept
<1>3. Sends' = Sends
  <2>1. CASE ledger' = ledger
    BY <2>1 DEF Sends
  <2>2. CASE mem'.halted # "none" /\ ledger' = Append(ledger, Halted(mem'.halted))
    <3>1. Halted(mem'.halted) \in CanaryRecord /\ Halted(mem'.halted).kind = "halted"
      BY <1>1, <2>2, HaltedIs DEF Totals
    <3> QED BY <1>1, <2>2, <3>1, SentInAppend DEF Sends
  <2> QED BY <2>1, <2>2 DEF Halts
<1>4. Kept.lost \in Nat /\ mem.lost \in Nat /\ mem'.lost \in Nat
  BY <1>1 DEF Totals
<1>5. \A t \in Sends : t \notin Kept.open \/ (stage # "down" /\ t \notin mem.open) => LossOf(fate'[t]) <= LossOf(fate[t])
  BY <1>1, LossMoves
<1>6. \A q : q.lost \in Nat /\ Kept.lost <= q.lost /\ Kept.open \ q.open \subseteq Unseen' =>
        Covers(q, Sends', Unseen', fate')
  <2>1. Covers(Kept, Sends, Unseen, fate)
    BY DEF LossInv
  <2>2. \A t \in Sends : t \notin Kept.open => LossOf(fate'[t]) <= LossOf(fate[t])
    BY <1>5
  <2> QED BY <1>1, <1>3, <1>4, <2>1, <2>2, CoversLess
<1>7. Covers(Kept', Sends', Unseen', fate')
  BY <1>2, <1>4, <1>6
<1>8. stage' # "down" => Covers(mem', Sends', Unseen', fate')
  <2>1. CASE Kept.lost <= mem'.lost /\ Kept.open \ mem'.open \subseteq Unseen'
    BY <1>4, <1>6, <2>1
  <2>2. CASE stage # "down" /\ mem'.open = mem.open /\ mem'.lost = mem.lost
    <3>1. Covers(mem, Sends, Unseen, fate)
      BY <2>2 DEF LossInv
    <3>2. \A t \in Sends : t \notin mem.open => LossOf(fate'[t]) <= LossOf(fate[t])
      BY <1>5, <2>2
    <3> QED BY <1>1, <1>3, <1>4, <2>2, <3>1, <3>2, CoversLess
  <2> QED BY <2>1, <2>2
<1>9. \E x : ButFor(x)'
  <2>1. PICK x : ButFor(x)
    BY DEF LossInv
  <2>2. ButFor(x)'
    BY <1>3, <2>1, ButForStays
  <2> QED BY <2>2
<1> QED BY <1>7, <1>8, <1>9 DEF LossInv, Covers, W

\* The ledger grew by the outcome of a transaction, and perhaps a halt.
LEMMA OutcomeLoss ==
  ASSUME TypeInv, TypeInv', SendInv, KnownInv, LossInv, [Next]_vars, NEW t \in Tx, NEW kind \in OutcomeKind,
         Halts(ledger) \/ Halts(Append(ledger, Outcome(t, kind))), Unseen \subseteq Unseen', stage # "down",
         \/ mem' = Apply(mem, Outcome(t, kind))
         \/ mem'.open = mem.open /\ mem'.lost = mem.lost,
         kind \in {"landed", "reverted"} => fate'[t] = fate[t],
         kind \in EndKind \ {"landed", "reverted"} => LossOf(fate'[t]) = 0,
         send'.pc = "written" => UNCHANGED send
  PROVE  LossInv'
<1> DEFINE r == Outcome(t, kind)
<1>1. /\ Sends \subseteq Tx /\ ledger \in Seq(CanaryRecord) /\ Kept \in Totals /\ mem \in Totals
      /\ mem' \in Totals
  BY SendsAre DEF TypeInv, CanaryTypes, LedgerType
<1>2. /\ r \in CanaryRecord /\ r.kind = kind /\ r.tx = t /\ r.loss = LossOf(fate[t])
      /\ kind \notin {"sent", "reset"}
  BY RecordsAre DEF CanaryRecord, OutcomeKind, EndKind
<1>3. /\ r.kind \in {"landed", "reverted"} => r.loss = LossOf(fate'[r.tx])
      /\ r.kind \in EndKind \ {"landed", "reverted"} => LossOf(fate'[r.tx]) = 0
  BY <1>2
<1>4. Kept.lost \in Nat /\ mem.lost \in Nat
  BY <1>1 DEF Totals
<1>5. \A u \in Sends : u \notin Kept.open \/ u \notin mem.open => LossOf(fate'[u]) <= LossOf(fate[u])
  BY <1>1, LossMoves
<1> HIDE DEF r
<1>6. Covers(Kept, Sends, Unseen', fate') /\ Covers(mem, Sends, Unseen', fate')
  <2>1. Covers(Kept, Sends, Unseen, fate) /\ Covers(mem, Sends, Unseen, fate)
    BY DEF LossInv
  <2>2. \A u \in Sends : u \notin Kept.open => LossOf(fate'[u]) <= LossOf(fate[u])
    BY <1>5
  <2>3. \A u \in Sends : u \notin mem.open => LossOf(fate'[u]) <= LossOf(fate[u])
    BY <1>5
  <2>4. Covers(Kept, Sends, Unseen', fate')
    BY <1>1, <1>4, <2>1, <2>2, CoversLess
  <2>5. Covers(mem, Sends, Unseen', fate')
    BY <1>1, <1>4, <2>1, <2>3, CoversLess
  <2> QED BY <2>4, <2>5
<1>7. Covers(Apply(Kept, r), Sends, Unseen', fate') /\ Covers(Apply(mem, r), Sends, Unseen', fate')
  <2>1. Sends = IF r.kind = "reset" THEN {} ELSE IF r.kind = "sent" THEN Sends \cup {r.tx} ELSE Sends
    BY <1>2
  <2>2. Covers(Apply(Kept, r), Sends, Unseen', fate')
    BY <1>1, <1>2, <1>3, <1>6, <2>1, CoversApply
  <2>3. Covers(Apply(mem, r), Sends, Unseen', fate')
    BY <1>1, <1>2, <1>3, <1>6, <2>1, CoversApply
  <2> QED BY <2>2, <2>3
<1>8. PICK l \in {ledger, Append(ledger, r)} : Halts(l)
  BY DEF r
<1>9. l \in Seq(CanaryRecord) /\ Replay(l) \in {Kept, Apply(Kept, r)} /\ SentIn(l) = Sends
  <2>1. CASE l = ledger
    BY <1>1, <2>1 DEF Kept, Sends
  <2>2. CASE l = Append(ledger, r)
    <3>1. Replay(l) = Apply(Kept, r)
      BY <1>1, <1>2, <2>2, ReplayAppend DEF Kept
    <3>2. SentIn(l) = Sends
      BY <1>1, <1>2, <2>2, SentInAppend DEF Sends
    <3> QED BY <1>1, <1>2, <2>2, <3>1, <3>2
  <2> QED BY <2>1, <2>2
<1>10. Sends' = Sends
  <2>1. CASE ledger' = l
    BY <1>9, <2>1 DEF Sends
  <2>2. CASE mem'.halted # "none" /\ ledger' = Append(l, Halted(mem'.halted))
    <3>1. Halted(mem'.halted) \in CanaryRecord /\ Halted(mem'.halted).kind = "halted"
      BY <1>1, <2>2, HaltedIs DEF Totals
    <3> QED BY <1>9, <2>2, <3>1, SentInAppend DEF Sends
  <2> QED BY <1>8, <2>1, <2>2 DEF Halts
<1>11. Covers(Kept', Sends', Unseen', fate')
  <2>1. /\ Kept'.open = Replay(l).open /\ Kept'.lost = Replay(l).lost /\ Replay(l) \in Totals
    BY <1>1, <1>8, <1>9, HaltsKeep
  <2>2. Covers(Replay(l), Sends, Unseen', fate') /\ Replay(l).lost \in Nat
    BY <1>6, <1>7, <1>9, <2>1 DEF Totals
  <2> QED BY <1>10, <2>1, <2>2 DEF Covers
<1>12. Covers(mem', Sends', Unseen', fate')
  <2>1. CASE mem' = Apply(mem, r)
    BY <1>7, <1>10, <2>1
  <2>2. CASE mem'.open = mem.open /\ mem'.lost = mem.lost
    BY <1>6, <1>10, <2>2 DEF Covers
  <2> QED BY <2>1, <2>2 DEF r
<1>13. \E x : ButFor(x)'
  <2>1. PICK x : ButFor(x)
    BY DEF LossInv
  <2>2. ButFor(x)'
    BY <1>10, <2>1, ButForStays
  <2> QED BY <2>2
<1> QED BY <1>11, <1>12, <1>13 DEF LossInv, Covers, W

\* The one that is written ahead is the one that may still lose.
LEMMA WriteAheadLoss ==
  ASSUME TypeInv, TypeInv', SendInv, KnownInv, AloneInv, HaltInv, LossInv, [Next]_vars,
         NEW t \in Tx, WriteAhead(t)
  PROVE  LossInv'
<1> DEFINE r == Sent(t)
<1>1. /\ Sends \subseteq Tx /\ ledger \in Seq(CanaryRecord) /\ Kept \in Totals /\ mem \in Totals
      /\ mem' \in Totals /\ Unseen \subseteq Tx /\ OnlyWhenUp /\ mem.lost \in Nat /\ LossCap \in Nat
  BY SendsAre, CanaryAssumption DEF TypeInv, CanaryTypes, LedgerType, Totals
<1>2. r \in CanaryRecord /\ r.kind = "sent" /\ r.tx = t
  BY RecordsAre DEF CanaryRecord
<1>3. stage = "up" /\ send.pc = "clear" /\ send.tx = t /\ UNCHANGED <<fate, stage, Unseen>>
  <2>1. LedgerType /\ stage = "up" /\ send.pc = "clear" /\ send.tx = t /\ UNCHANGED <<fate, stage>>
    BY <1>1 DEF WriteAhead, At, OnlyWhenUp, Idle, chainVars, bootVars, TypeInv, CanaryTypes
  <2>2. UNCHANGED <<missed, lapsed>>
    BY <1>2, <2>1, RecordedIs, UnrecordedIs DEF WriteAhead
  <2> QED BY <2>1, <2>2 DEF Unseen
<1>4. /\ \/ ledger' = Append(ledger, r) /\ mem' = Apply(mem, r)
         \/ ledger' \in {ledger, Append(ledger, r)} /\ mem' = mem /\ send'.pc = "closing"
      /\ send'.tx = t
  BY <1>2, RecordedIs, UnrecordedIs DEF WriteAhead, Goes, Ends, TypeInv, CanaryTypes
<1> HIDE DEF r
<1>5. fate[t] = "none"
  BY <1>3 DEF SendInv
<1>6. CASE ledger' = ledger /\ mem' = mem /\ send'.pc = "closing"
  BY <1>3, <1>6, QuietLoss DEF Halts
<1>7. CASE ledger' = Append(ledger, r)
  <2>1. Sends' = Sends \cup {t}
    BY <1>1, <1>2, <1>7, SentInAppend DEF Sends
  <2>2. Covers(Kept, Sends, Unseen, fate) /\ Covers(mem, Sends, Unseen, fate)
    BY <1>3 DEF LossInv
  <2>3. Covers(Kept', Sends', Unseen, fate)
    <3>1. Kept' = Apply(Kept, r)
      BY <1>1, <1>2, <1>7, ReplayAppend DEF Kept
    <3> QED BY <1>1, <1>2, <2>1, <2>2, <3>1, CoversApply DEF EndKind
  <2>4. Covers(mem', Sends', Unseen, fate)
    <3>1. CASE mem' = Apply(mem, r)
      BY <1>1, <1>2, <2>1, <2>2, <3>1, CoversApply DEF EndKind
    <3>2. CASE mem' = mem
      <4> DEFINE A == Sends \ (Unseen \cup mem.open)
                 B == Sends' \ (Unseen \cup mem.open)
      <4>1. A \in SUBSET Tx /\ B \in SUBSET Tx /\ B \subseteq A \cup {t}
        BY <1>1, <2>1
      <4>2. Sum(W(fate), A) <= mem.lost
        BY <2>2 DEF Covers
      <4>3. LossOf(fate[t]) = 0
        BY <1>5 DEF LossOf
      <4> HIDE DEF A, B
      <4>4. Sum(W(fate), B) <= Sum(W(fate), A) + LossOf(fate[t])
        BY <4>1, LostOneMore
      <4>5. Sum(W(fate), A) \in Nat /\ Sum(W(fate), B) \in Nat
        BY <4>1, LossesAre
      <4>6. Sum(W(fate), B) <= mem.lost
        BY <1>1, <4>2, <4>3, <4>4, <4>5
      <4> QED BY <3>2, <4>6 DEF Covers, B
    <3> QED BY <1>4, <3>1, <3>2
  <2>5. \A u \in mem.open : u \in Unseen
    BY <1>3 DEF AloneInv, Running, Watching, Parked, Unseen
  <2>6. Sum(W(fate), Sends' \ (Unseen \cup {t})) <= LossCap - 1
    <3> DEFINE A == Sends \ (Unseen \cup mem.open)
               B == Sends' \ (Unseen \cup {t})
    <3>1. A \in SUBSET Tx /\ B \in SUBSET A /\ B \in SUBSET Tx
      BY <1>1, <2>1, <2>5
    <3>2. Sum(W(fate), A) <= mem.lost
      BY <2>2 DEF Covers
    <3>3. \A u \in B : LossOf(fate[u]) <= LossOf(fate[u])
      BY DEF LossOf
    <3> HIDE DEF A, B
    <3>4. Sum(W(fate), B) <= Sum(W(fate), A)
      BY <3>1, <3>3, LostLess
    <3>5. Sum(W(fate), A) \in Nat /\ Sum(W(fate), B) \in Nat
      BY <3>1, LossesAre
    <3>6. mem.lost < LossCap
      BY <1>3 DEF HaltInv
    <3>7. Sum(W(fate), B) <= LossCap - 1
      BY <1>1, <3>2, <3>4, <3>5, <3>6
    <3> QED BY <3>7 DEF B
  <2>7. \A u \in Sends' \ Unseen : u # t => ~InFlight(u) /\ ~(send'.pc = "written" /\ send'.tx = u)
    <3>1. SUFFICES ASSUME NEW u \in Sends' \ Unseen, u # t PROVE ~InFlight(u)
      BY <1>4
    <3>2. u \in Tx /\ u \notin mem.open
      BY <1>1, <2>1, <2>5, <3>1
    <3> QED BY <1>3, <3>2, LossMoves
  <2>8. ButFor(t)'
    BY <1>3, <2>6, <2>7 DEF ButFor, InFlight, W
  <2> QED BY <1>3, <2>3, <2>4, <2>8 DEF LossInv, Covers, W
<1> QED BY <1>4, <1>6, <1>7
LEMMA LossStep ==
  ASSUME TypeInv, TypeInv', SendInv, StrayInv, KnownInv, AloneInv, HaltInv, LossInv, [Next]_vars
  PROVE  LossInv'
<1>1. /\ CanaryTypes /\ OnlyWhenUp /\ mem \in Totals /\ mem' \in Totals /\ ledger \in Seq(CanaryRecord)
      /\ Kept \in Totals /\ Sends \subseteq Tx /\ fate \in [Tx -> Fates] /\ LedgerType
  BY SendsAre DEF TypeInv, CanaryTypes, LedgerType, ChainType
<1>2. CASE \/ UNCHANGED vars \/ ChainStep \/ BootCloses
           \/ \E t \in Tx : Admit(t) \/ HandOff(t) \/ Close(t) \/ CheckHold(t)
  <2>1. /\ UNCHANGED <<ledger, mem, Unseen>> /\ (send'.pc = "written" => UNCHANGED send)
        /\ stage' # "down" => stage # "down"
    BY <1>2 DEF vars, ChainStep, BootCloses, Admit, HandOff, Close, CheckHold, Goes, Ends, Idle, ledgerVars,
                bootVars, Unseen
  <2> QED BY <2>1, QuietLoss DEF Halts
<1>3. ASSUME NEW t \in Tx, NEW kind \in OutcomeKind, NEW e, Settle(t, kind, e), stage = "up",
             kind \in {"landed", "reverted"} => fate'[t] = fate[t],
             kind \in EndKind \ {"landed", "reverted"} => LossOf(fate'[t]) = 0
      PROVE  LossInv'
  <2> DEFINE r == Outcome(t, kind)
  <2>1. kind # "sent"
    BY DEF OutcomeKind, EndKind
  <2>2. /\ ledger' \in {ledger, Append(ledger, r)} /\ mem' \in {mem, Apply(mem, r)}
        /\ Unseen \subseteq Unseen' /\ send'.pc # "written"
    BY <1>1, <1>3, SettleShape DEF Unseen
  <2>3. Halts(ledger) \/ Halts(Append(ledger, r))
    BY <2>2 DEF Halts
  <2> HIDE DEF r
  <2>4. mem' = Apply(mem, r) \/ (mem'.open = mem.open /\ mem'.lost = mem.lost)
    BY <2>2
  <2> QED BY <1>3, <2>2, <2>3, <2>4, OutcomeLoss DEF r
<1>4. ASSUME NEW t \in Tx, Answer(t) PROVE LossInv'
  <2>1. send.pc = "asked" /\ stage = "up" /\ stage' = "up"
    BY <1>1, <1>4 DEF Answer, At, OnlyWhenUp, Idle, bootVars
  <2>2. CASE Goes("watched", t) /\ UNCHANGED <<ledgerVars, mem, fate>>
    <3>1. UNCHANGED <<ledger, mem, Unseen>> /\ send'.pc = "watched"
      BY <2>2 DEF Goes, ledgerVars, Unseen
    <3> QED BY <2>1, <3>1, QuietLoss DEF Halts
  <2>3. CASE Settle(t, "refused", "rejected") /\ fate' = [fate EXCEPT ![t] = "dead"]
    <3>1. LossOf(fate'[t]) = 0
      BY <1>1, <2>3 DEF LossOf
    <3> QED BY <1>3, <2>1, <2>3, <3>1 DEF OutcomeKind, EndKind
  <2>4. CASE Settle(t, "silent", "unanswered") /\ UNCHANGED fate
    BY <1>3, <2>1, <2>4 DEF OutcomeKind, EndKind
  <2> QED BY <1>4, <2>2, <2>3, <2>4 DEF Answer
<1>5. ASSUME NEW t \in Tx, fate[t] \in Mined, UNCHANGED fate
      PROVE  /\ Settled(t) \in {"landed", "reverted"} => fate'[t] = fate[t]
             /\ Settled(t) \in EndKind \ {"landed", "reverted"} => LossOf(fate'[t]) = 0
  BY <1>5 DEF Settled, LossOf, Mined, EndKind
<1>6. ASSUME NEW t \in Tx, Observe(t) PROVE LossInv'
  <2>1. stage = "up" /\ UNCHANGED fate
    BY <1>1, <1>6 DEF Observe, At, OnlyWhenUp, Idle, chainVars
  <2>2. CASE fate[t] \in Mined /\ Settle(t, Settled(t), Ending(t))
    <3>1. Settled(t) \in OutcomeKind
      BY RecordsAre DEF OutcomeKind, EndKind
    <3> QED BY <1>3, <1>5, <2>1, <2>2, <3>1
  <2>3. CASE Settle(t, "unresolved", "timeout")
    BY <1>3, <2>1, <2>3 DEF OutcomeKind, EndKind
  <2>4. CASE Lapses(t) /\ UNCHANGED stage
    <3>1. UNCHANGED <<ledger, mem>> /\ Unseen \subseteq Unseen' /\ send'.pc = "closing"
      BY <2>4 DEF Lapses, Ends, Unseen
    <3> QED BY <2>1, <2>4, <3>1, QuietLoss DEF Halts
  <2> QED BY <1>6, <2>2, <2>3, <2>4 DEF Observe, bootVars
<1>7. ASSUME (\E t \in Tx : RecordHalt(t)) \/ RecordTripwire PROVE LossInv'
  <2>1. UNCHANGED <<mem, stage>> /\ WriteHalt /\ mem.halted # "none" /\ (send'.pc = "written" => UNCHANGED send)
    BY <1>7, <1>1 DEF RecordHalt, RecordTripwire, At, Ends, CanaryTypes, HaltsOnCause, bootVars
  <2>2. Halts(ledger) /\ Unseen' = Unseen
    BY <1>1, <2>1, WriteHaltIs DEF Unseen
  <2> QED BY <2>1, <2>2, QuietLoss
<1>8. ASSUME ReadNonce PROVE LossInv'
  <2>1. UNCHANGED <<ledger, send, stage, Unseen>> /\ mem' \in {mem, Trip(mem, "tripwire")}
    BY <1>8 DEF ReadNonce, ledgerVars, bootVars, Unseen
  <2>2. Trip(mem, "tripwire").lost = mem.lost /\ Trip(mem, "tripwire").open = mem.open
    BY <1>1, TripShape DEF Why
  <2>3. mem'.open = mem.open /\ mem'.lost = mem.lost
    BY <2>1, <2>2
  <2> QED BY <2>1, <2>3, QuietLoss DEF Halts
<1>9. ASSUME Crash PROVE LossInv'
  <2>1. UNCHANGED <<ledger, Unseen>> /\ send'.pc = "idle" /\ stage' = "down"
    BY <1>1, <1>9, CrashFile DEF Crash, Idle, Unseen
  <2> QED BY <2>1, QuietLoss DEF Halts
<1>10. ASSUME OperatorReset PROVE LossInv'
  <2>1. /\ stage = "down" /\ ledger' = Append(ledger, ResetRecord)
        /\ UNCHANGED <<stage, fate, Unseen>>
    BY <1>1, <1>10, ResetFile DEF OperatorReset, chainVars, bootVars, Unseen
  <2>2. ResetRecord \in CanaryRecord /\ ResetRecord.kind = "reset"
    BY DEF CanaryRecord, ResetRecord
  <2>3. Sends' = {}
    BY <1>1, <2>1, <2>2, SentInAppend DEF Sends
  <2>4. Kept' = Apply(Kept, ResetRecord)
    BY <1>1, <2>1, <2>2, ReplayAppend DEF Kept
  <2>5. Covers(Kept', Sends', Unseen', fate')
    <3>1. Covers(Kept, Sends, Unseen, fate)
      BY DEF LossInv
    <3> QED BY <1>1, <2>1, <2>2, <2>3, <2>4, <3>1, CoversApply DEF EndKind
  <2>6. ButFor(0)'
    <3>1. Sends' \ (Unseen' \cup {0}) = {} /\ Sends' \ Unseen' = {}
      BY <2>3
    <3>2. Sum(W(fate'), {}) = 0 /\ 0 <= LossCap - 1
      BY SumEmpty, CanaryAssumption
    <3> QED BY <3>1, <3>2 DEF ButFor, W
  <2> QED BY <2>1, <2>5, <2>6 DEF LossInv, Covers, W
<1>11. ASSUME Open PROVE LossInv'
  <2>1. UNCHANGED <<ledger, send, missed, Unseen>> /\ mem' = Replay(Legible)
    BY <1>11 DEF Open, ledgerVars, Unseen
  <2>2. Kept.lost <= mem'.lost /\ Kept.open \ mem'.open \subseteq Unseen
    <3>1. Kept.lost \in Nat
      BY <1>1 DEF Totals
    <3>2. CASE mem' = Kept
      BY <3>1, <3>2
    <3>3. ASSUME NEW r \in CanaryRecord, file.stray = <<r>>, mem' = Apply(Kept, r)
          PROVE  Kept.lost <= mem'.lost /\ Kept.open \ mem'.open \subseteq Unseen
      <4>1. r.kind # "reset" /\ (r.kind \in EndKind => r.tx \in Unseen)
        BY <3>3 DEF StrayInv, Excused, Unseen, OutcomeKind
      <4>2. r.kind \in {"landed", "reverted"} => r.loss \in Nat
        BY RecordKinds DEF OutcomeRecord, OutcomeKind, EndKind
      <4>3. /\ mem'.open = IF r.kind = "sent" THEN Kept.open \cup {r.tx}
                           ELSE IF r.kind \in EndKind THEN Kept.open \ {r.tx} ELSE Kept.open
            /\ mem'.lost = IF r.kind = "reset" THEN 0
                           ELSE IF r.kind \in {"landed", "reverted"} THEN Kept.lost + r.loss
                           ELSE Kept.lost
        BY <1>1, <3>3, ApplyShape
      <4>4. Kept.lost <= mem'.lost
        BY <3>1, <4>1, <4>2, <4>3
      <4>5. Kept.open \ mem'.open \subseteq Unseen
        BY <4>1, <4>3
      <4> QED BY <4>4, <4>5
    <3> QED BY <1>1, <2>1, <3>2, <3>3, OpenedIs
  <2> QED BY <2>1, <2>2, QuietLoss DEF Halts
<1>12. ASSUME NEW t \in Tx, ResolveOpen(t) PROVE LossInv'
  <2> DEFINE r == Outcome(t, Settled(t))
  <2>1. UNCHANGED <<send, stage, fate>> /\ stage = "resolving"
    BY <1>12 DEF ResolveOpen, chainVars
  <2>2. Trip(mem, "unresolved").lost = mem.lost /\ Trip(mem, "unresolved").open = mem.open
    BY <1>1, TripShape DEF Why
  <2>3. \/ /\ fate[t] \in Mined /\ Unseen \subseteq Unseen'
           /\ mem' \in {mem, Trip(mem, "unresolved"), Apply(mem, r)}
           /\ Halts(ledger) \/ Halts(Append(ledger, r))
        \/ Unseen' = Unseen /\ mem' = Trip(mem, "unresolved") /\ Halts(ledger)
    BY <1>1, <1>12, ResolveShape DEF Unseen
  <2> HIDE DEF r
  <2>4. CASE Unseen' = Unseen /\ mem' = Trip(mem, "unresolved") /\ Halts(ledger)
    BY <2>1, <2>2, <2>4, QuietLoss
  <2>5. CASE /\ fate[t] \in Mined /\ Unseen \subseteq Unseen'
             /\ mem' \in {mem, Trip(mem, "unresolved"), Apply(mem, r)}
             /\ Halts(ledger) \/ Halts(Append(ledger, r))
    <3>1. Settled(t) \in OutcomeKind
      BY RecordsAre DEF OutcomeKind, EndKind
    <3>2. mem' = Apply(mem, r) \/ (mem'.open = mem.open /\ mem'.lost = mem.lost)
      BY <2>2, <2>5
    <3>3. /\ Settled(t) \in {"landed", "reverted"} => fate'[t] = fate[t]
          /\ Settled(t) \in EndKind \ {"landed", "reverted"} => LossOf(fate'[t]) = 0
      BY <1>5, <2>1, <2>5
    <3> QED BY <2>1, <2>5, <3>1, <3>2, <3>3, OutcomeLoss DEF r
  <2> QED BY <2>3, <2>4, <2>5
<1> QED
  BY <1>2, WriteAheadLoss, <1>4, <1>6, <1>7, <1>8, <1>9, <1>10, <1>11, <1>12
     DEF Next, CaptureStep, HeadStep, Boot

\* mod.rs, "with every loss bounded".  What the trades sent since the last reset
\* lost on the chain stays below the cap but for one trade, however often the
\* process died and whichever record of a halt was lost -- aside from the losses no
\* limit sees: those whose own record failed to be written, and those of a send the
\* plane stopped following when its journal refused an Acknowledged or an Included.
THEOREM LossesAreBounded == Spec => []LossBounded
<1> DEFINE I == TypeInv /\ SendInv /\ StrayInv /\ KnownInv /\ LaneInv /\ AloneInv /\ HaltInv /\ LossInv
<1>1. Init => I
  BY TypeInit, SendInit, StrayInit, KnownInit, LaneInit, AloneInit, HaltInit, LossInit
<1>2. I /\ [Next]_vars => I'
  BY TypeStep, SendStep, StrayStep, KnownStep, LaneStep, AloneStep, HaltStep, LossStep
<1>3. I => LossBounded
  BY LossMeans
<1> QED BY <1>1, <1>2, <1>3, PTL DEF Spec


-----------------------------------------------------------------------------
(* What the ledger calls for a halt over, and the totals that count it.     *)

\* The records of some kinds since the last reset, those of a kind behind the last
\* breaker, and what the records say was lost.
SinceIn(l, kinds) == {i \in (LastResetIn(l) + 1)..Len(l) : l[i].kind \in kinds}
RunIn(l, kind, breakers) == {i \in SinceIn(l, {kind}) : \A k \in SinceIn(l, breakers) : k < i}
LossesIn(l) == [i \in 1..Len(l) |-> l[i].loss]

InARowIn(l, kind, breakers, n) ==
  \E S \in SUBSET SinceIn(l, {kind}) :
    /\ Cardinality(S) = n
    /\ \A i, j \in S : \A k \in SinceIn(l, breakers) : ~(i < k /\ k < j)

CallsIn(l) ==
  \/ SinceIn(l, {"silent", "unresolved", "unexplained"}) # {}
  \/ Sum(LossesIn(l), SinceIn(l, {"landed", "reverted"})) >= LossCap
  \/ Cardinality(SinceIn(l, {"landed"})) >= MaxLanded
  \/ InARowIn(l, "reverted", {"landed"}, MaxReverts)
  \/ InARowIn(l, "refused", {"landed", "reverted"}, MaxRefusals)

\* One record more: the last reset is the same, or is that record.
LEMMA LastResetAppend ==
  ASSUME NEW l \in Seq(CanaryRecord), NEW r \in CanaryRecord
  PROVE  LastResetIn(Append(l, r)) = IF r.kind = "reset" THEN Len(l) + 1 ELSE LastResetIn(l)
<1> DEFINE k == Append(l, r)
           n == Len(l) + 1
           R == LastResetIn(l)
           Q == LastResetIn(k)
<1>1. k \in Seq(CanaryRecord) /\ Len(k) = n /\ k[n] = r /\ n \in Nat /\ Len(l) \in Nat
      /\ \A i \in 1..Len(l) : k[i] = l[i]
  OBVIOUS
<1>2. r.kind = "reset" <=> r = ResetRecord
  BY RecordKinds
<1> HIDE DEF k
<1>3. R \in 0..Len(l) /\ (R # 0 => l[R] = ResetRecord) /\ \A j \in (R + 1)..Len(l) : l[j] # ResetRecord
  BY LastResetIs
<1>4. Q \in 0..n /\ (Q # 0 => k[Q] = ResetRecord) /\ \A j \in (Q + 1)..n : k[j] # ResetRecord
  BY <1>1, LastResetIs
<1> HIDE DEF R, Q
<1>5. ASSUME r = ResetRecord PROVE Q = n
  <2>1. n \notin (Q + 1)..n
    BY <1>1, <1>4, <1>5
  <2> QED BY <1>1, <1>4, <2>1
<1>6. ASSUME r # ResetRecord PROVE Q = R
  <2>1. ASSUME Q > R PROVE FALSE
    <3>1. Q # n /\ Q \in (R + 1)..Len(l) /\ Q \in 1..Len(l) /\ Q # 0
      BY <1>1, <1>3, <1>4, <1>6, <2>1
    <3> QED BY <1>1, <1>3, <1>4, <3>1
  <2>2. ASSUME Q < R PROVE FALSE
    <3>1. R \in (Q + 1)..n /\ R \in 1..Len(l) /\ R # 0
      BY <1>1, <1>3, <1>4, <2>2
    <3> QED BY <1>1, <1>3, <1>4, <3>1
  <2> QED BY <1>1, <1>3, <1>4, <2>1, <2>2
<1> QED BY <1>2, <1>5, <1>6 DEF k, Q, R

\* They are places of the ledger.
LEMMA SinceType ==
  ASSUME NEW l \in Seq(CanaryRecord), NEW kinds
  PROVE  /\ SinceIn(l, kinds) \subseteq 1..Len(l) /\ IsFiniteSet(SinceIn(l, kinds))
         /\ \A i \in SinceIn(l, kinds) : l[i].kind \in kinds /\ l[i] \in CanaryRecord
<1>1. LastResetIn(l) \in 0..Len(l) /\ Len(l) \in Nat
  BY LastResetIs
<1>2. SinceIn(l, kinds) \subseteq 1..Len(l)
  BY <1>1 DEF SinceIn
<1>3. IsFiniteSet(1..Len(l))
  BY <1>1, FS_Interval
<1> QED BY <1>2, <1>3, FS_Subset DEF SinceIn

\* One record more: a reset starts over, a record of the kinds is one more, and
\* others leave what there is.
LEMMA SinceAppend ==
  ASSUME NEW l \in Seq(CanaryRecord), NEW r \in CanaryRecord, NEW kinds
  PROVE  SinceIn(Append(l, r), kinds) =
           IF r.kind = "reset" THEN {}
           ELSE IF r.kind \in kinds THEN SinceIn(l, kinds) \cup {Len(l) + 1}
           ELSE SinceIn(l, kinds)
<1> DEFINE k == Append(l, r)
           n == Len(l) + 1
           R == LastResetIn(l)
           Q == LastResetIn(k)
<1>1. k \in Seq(CanaryRecord) /\ Len(k) = n /\ k[n] = r /\ n \in Nat /\ Len(l) \in Nat
      /\ \A i \in 1..Len(l) : k[i] = l[i]
  OBVIOUS
<1>2. Q = IF r.kind = "reset" THEN n ELSE R
  BY LastResetAppend
<1>3. R \in 0..Len(l)
  BY LastResetIs
<1> HIDE DEF k, R, Q
<1>4. SinceIn(k, kinds) = {i \in (Q + 1)..n : k[i].kind \in kinds}
  BY <1>1 DEF SinceIn, Q
<1>5. SinceIn(l, kinds) = {i \in (R + 1)..Len(l) : l[i].kind \in kinds}
  BY DEF SinceIn, R
<1>6. ASSUME r.kind = "reset" PROVE SinceIn(k, kinds) = {}
  <2>1. (n + 1)..n = {}
    BY <1>1
  <2> QED BY <1>2, <1>4, <1>6, <2>1
<1>7. ASSUME r.kind # "reset", NEW i
      PROVE  i \in SinceIn(k, kinds) <=> i \in SinceIn(l, kinds) \/ (r.kind \in kinds /\ i = n)
  <2>1. i \in (R + 1)..n <=> i \in (R + 1)..Len(l) \/ i = n
    BY <1>1, <1>3
  <2>2. i \in (R + 1)..Len(l) => i \in 1..Len(l) /\ i # n
    BY <1>1, <1>3
  <2> QED BY <1>1, <1>2, <1>4, <1>5, <1>7, <2>1, <2>2
<1> QED BY <1>6, <1>7 DEF k

\* The run of a kind: a record of it is one more, a breaker ends it.
LEMMA RunAppend ==
  ASSUME NEW l \in Seq(CanaryRecord), NEW r \in CanaryRecord, NEW kind, NEW breakers,
         kind # "reset", kind \notin breakers
  PROVE  RunIn(Append(l, r), kind, breakers) =
           IF r.kind \in breakers \cup {"reset"} THEN {}
           ELSE IF r.kind = kind THEN RunIn(l, kind, breakers) \cup {Len(l) + 1}
           ELSE RunIn(l, kind, breakers)
<1> DEFINE k == Append(l, r)
           n == Len(l) + 1
           S == SinceIn(l, {kind})
           B == SinceIn(l, breakers)
<1> HIDE DEF k, n, S, B
<1>1. /\ SinceIn(k, {kind}) = IF r.kind = "reset" THEN {} ELSE IF r.kind = kind THEN S \cup {n} ELSE S
      /\ SinceIn(k, breakers) = IF r.kind = "reset" THEN {} ELSE IF r.kind \in breakers THEN B \cup {n} ELSE B
  <2>1. SinceIn(k, breakers) = IF r.kind = "reset" THEN {} ELSE IF r.kind \in breakers THEN B \cup {n} ELSE B
    BY SinceAppend DEF k, n, B
  <2> DEFINE q == {kind}
  <2> HIDE DEF q
  <2>2. SinceIn(k, q) = IF r.kind = "reset" THEN {} ELSE IF r.kind \in q THEN SinceIn(l, q) \cup {n} ELSE SinceIn(l, q)
    BY SinceAppend DEF k, n
  <2> QED BY <2>1, <2>2 DEF q, S
<1>2. S \subseteq 1..Len(l) /\ B \subseteq 1..Len(l) /\ Len(l) \in Nat
  BY SinceType DEF S, B
<1>3. \A i \in S \cup B : i \in Nat /\ i < n /\ ~(n < i)
  BY <1>2 DEF n
<1>4. \A i : i \in RunIn(k, kind, breakers)
                <=> i \in SinceIn(k, {kind}) /\ \A j \in SinceIn(k, breakers) : j < i
  BY DEF RunIn
<1>5. \A i : i \in RunIn(l, kind, breakers) <=> i \in S /\ \A j \in B : j < i
  BY DEF RunIn, S, B
<1>a. /\ r.kind = "reset" => SinceIn(k, {kind}) = {}
      /\ r.kind \in breakers /\ r.kind # "reset" => SinceIn(k, {kind}) = S /\ SinceIn(k, breakers) = B \cup {n}
      /\ r.kind \notin breakers \cup {"reset"} => SinceIn(k, breakers) = B
      /\ r.kind \notin breakers \cup {"reset"} => SinceIn(k, {kind}) = IF r.kind = kind THEN S \cup {n} ELSE S
  BY <1>1
<1>6. CASE r.kind = "reset"
  <2>1. \A i : i \notin RunIn(k, kind, breakers)
    BY <1>4, <1>6, <1>a
  <2> QED BY <1>6, <2>1 DEF k
<1>7. CASE r.kind \in breakers /\ r.kind # "reset"
  <2>1. \A i : i \notin RunIn(k, kind, breakers)
    BY <1>3, <1>4, <1>7, <1>a
  <2> QED BY <1>7, <2>1 DEF k
<1>8. CASE r.kind \notin breakers \cup {"reset"} /\ r.kind = kind
  <2>1. \A i : i \in RunIn(k, kind, breakers) <=> i \in RunIn(l, kind, breakers) \/ i = n
    BY <1>3, <1>4, <1>5, <1>8, <1>a
  <2> QED BY <1>8, <2>1 DEF k, n
<1>9. CASE r.kind \notin breakers \cup {"reset"} /\ r.kind # kind
  <2>1. \A i : i \in RunIn(k, kind, breakers) <=> i \in RunIn(l, kind, breakers)
    BY <1>4, <1>5, <1>9, <1>a
  <2> QED BY <1>9, <2>1 DEF k
<1> QED BY <1>6, <1>7, <1>8, <1>9

\* So many in a row were there before, or end with the record.
LEMMA RowAppend ==
  ASSUME NEW l \in Seq(CanaryRecord), NEW r \in CanaryRecord, NEW kind, NEW breakers, NEW m \in Nat,
         kind # "reset", kind \notin breakers, r.kind # "reset",
         InARowIn(Append(l, r), kind, breakers, m)
  PROVE  \/ InARowIn(l, kind, breakers, m)
         \/ Cardinality(RunIn(Append(l, r), kind, breakers)) >= m
<1> DEFINE k == Append(l, r)
           n == Len(l) + 1
           S == SinceIn(l, {kind})
           B == SinceIn(l, breakers)
<1> HIDE DEF k, n, S, B
<1>1. /\ SinceIn(k, {kind}) = IF r.kind = kind THEN S \cup {n} ELSE S
      /\ SinceIn(k, breakers) = IF r.kind \in breakers THEN B \cup {n} ELSE B
  <2>1. SinceIn(k, breakers) = IF r.kind \in breakers THEN B \cup {n} ELSE B
    BY SinceAppend DEF k, n, B
  <2> DEFINE q == {kind}
  <2> HIDE DEF q
  <2>2. SinceIn(k, q) = IF r.kind \in q THEN SinceIn(l, q) \cup {n} ELSE SinceIn(l, q)
    BY SinceAppend DEF k, n
  <2> QED BY <2>1, <2>2 DEF q, S
<1>2. S \subseteq 1..Len(l) /\ B \subseteq 1..Len(l) /\ Len(l) \in Nat /\ (\A i \in B : l[i].kind \in breakers)
      /\ \A j \in S : l[j].kind = kind
  BY SinceType DEF S, B
<1>3. k \in Seq(CanaryRecord) /\ InARowIn(k, kind, breakers, m) /\ n \in Nat /\ n = Len(l) + 1
  BY <1>2 DEF k, n
<1>4. PICK T \in SUBSET SinceIn(k, {kind}) :
        /\ Cardinality(T) = m
        /\ \A i, j \in T : \A p \in SinceIn(k, breakers) : ~(i < p /\ p < j)
  BY <1>3 DEF InARowIn
<1>5. CASE n \notin T
  <2>1. T \in SUBSET S /\ B \subseteq SinceIn(k, breakers)
    BY <1>1, <1>4, <1>5
  <2> QED BY <1>4, <2>1 DEF InARowIn, S, B
<1>6. CASE n \in T
  <2>1. r.kind = kind /\ SinceIn(k, breakers) = B
    <3>1. n \notin S
      BY <1>2, <1>3
    <3> QED BY <1>1, <1>4, <1>6, <3>1
  <2>2. ASSUME NEW i \in T, NEW p \in B PROVE p < i
    <3>1. CASE i = n
      BY <1>2, <1>3, <3>1
    <3>2. CASE i # n
      <4>1. i \in S /\ i # p
        BY <1>1, <1>2, <1>4, <3>2
      <4>2. ~(i < p /\ p < n)
        BY <1>4, <1>6, <2>1
      <4> QED BY <1>2, <1>3, <4>1, <4>2
    <3> QED BY <3>1, <3>2
  <2>3. T \subseteq RunIn(k, kind, breakers)
    BY <1>4, <2>1, <2>2 DEF RunIn
  <2>4. IsFiniteSet(RunIn(k, kind, breakers))
    <3>1. IsFiniteSet(SinceIn(k, {kind}))
      BY <1>3, SinceType
    <3>2. RunIn(k, kind, breakers) \subseteq SinceIn(k, {kind})
      BY DEF RunIn
    <3> QED BY <3>1, <3>2, FS_Subset
  <2>5. Cardinality(T) <= Cardinality(RunIn(k, kind, breakers))
    BY <2>3, <2>4, FS_Subset
  <2>6. Cardinality(RunIn(k, kind, breakers)) \in Nat
    BY <2>4, FS_CardinalityType
  <2> QED BY <1>4, <2>5, <2>6 DEF k
<1> QED BY <1>5, <1>6

\* Totals that count what a ledger has since its last reset.
Tallied(l, s) ==
  /\ s.lost = Sum(LossesIn(l), SinceIn(l, {"landed", "reverted"}))
  /\ s.landed = Cardinality(SinceIn(l, {"landed"}))
  /\ s.reverts = Cardinality(RunIn(l, "reverted", {"landed"}))
  /\ s.refusals = Cardinality(RunIn(l, "refused", {"landed", "reverted"}))

\* They halt if the ledger calls for it.
Answers(l, s) == Tallied(l, s) /\ (CallsIn(l) => s.halted # "none")

\* What a record does to the counts, and what it takes not to halt.
LEMMA ApplyCounts ==
  ASSUME NEW s \in Totals, NEW r \in CanaryRecord
  PROVE  LET q == Apply(s, r) IN
         /\ q.landed = IF r.kind = "reset" THEN 0 ELSE IF r.kind = "landed" THEN s.landed + 1 ELSE s.landed
         /\ q.reverts = IF r.kind \in {"reset", "landed"} THEN 0
                        ELSE IF r.kind = "reverted" THEN s.reverts + 1 ELSE s.reverts
         /\ q.refusals = IF r.kind \in {"reset", "landed", "reverted"} THEN 0
                         ELSE IF r.kind = "refused" THEN s.refusals + 1 ELSE s.refusals
         /\ q.halted = "none" => r.kind # "halted"
         /\ q.halted = "none" /\ r.kind # "reset" =>
              /\ s.halted = "none" /\ r.kind \notin {"silent", "unresolved", "unexplained"}
              /\ ~(q.lost >= LossCap) /\ ~(q.reverts >= MaxReverts)
              /\ ~(q.refusals >= MaxRefusals) /\ ~(q.landed >= MaxLanded)
<1>0. s = [lost |-> s.lost, reverts |-> s.reverts, refusals |-> s.refusals, landed |-> s.landed,
           halted |-> s.halted, open |-> s.open]
  BY DEF Totals
<1>1. CASE r.kind = "halted"
  <2>1. r.why # "none"
    BY <1>1, RecordKinds DEF HaltedRecord
  <2>2. Apply(s, r) = [s EXCEPT !.halted = r.why]
    BY <1>1 DEF Apply
  <2> QED BY <1>0, <1>1, <2>1, <2>2
<1>2. CASE r.kind = "reset"
  <2>1. Apply(s, r) = [NewState EXCEPT !.open = s.open]
    BY <1>2 DEF Apply
  <2> QED BY <1>2, <2>1 DEF NewState
<1>3. CASE r.kind \notin {"halted", "reset"}
  <2> DEFINE c == Count(s, r)
             w == Cause(r, c)
  <2>1. Apply(s, r) = Trip(c, w)
    BY <1>3 DEF Apply
  <2>2. r.kind \in {"sent"} \cup OutcomeKind /\ r \in SentRecord \cup OutcomeRecord
    BY <1>3, RecordKinds DEF OutcomeKind, EndKind
  <2>3. c \in Totals /\ c.halted = s.halted
    BY <2>2, CountShape
  <2>4. /\ c.landed = IF r.kind = "landed" THEN s.landed + 1 ELSE s.landed
        /\ c.reverts = IF r.kind = "landed" THEN 0
                       ELSE IF r.kind = "reverted" THEN s.reverts + 1 ELSE s.reverts
        /\ c.refusals = IF r.kind \in {"landed", "reverted"} THEN 0
                        ELSE IF r.kind = "refused" THEN s.refusals + 1 ELSE s.refusals
    <3>1. CASE r.kind = "sent"
      BY <1>0, <3>1 DEF Count
    <3>2. CASE r.kind = "landed"
      <4>1. c = [s EXCEPT !.open = @ \ {r.tx}, !.landed = @ + 1,
                          !.lost = @ + r.loss, !.reverts = 0, !.refusals = 0]
        BY <3>2 DEF Count
      <4> QED BY <1>0, <3>2, <4>1
    <3>3. CASE r.kind = "reverted"
      <4>1. c = [s EXCEPT !.open = @ \ {r.tx}, !.lost = @ + r.loss, !.reverts = @ + 1, !.refusals = 0]
        BY <3>3 DEF Count
      <4> QED BY <1>0, <3>3, <4>1
    <3>4. CASE r.kind = "refused"
      <4>1. c = [s EXCEPT !.open = @ \ {r.tx}, !.refusals = @ + 1]
        BY <3>4 DEF Count
      <4> QED BY <1>0, <3>4, <4>1
    <3>5. CASE r.kind = "unexplained"
      BY <1>0, <3>5 DEF Count
    <3>6. CASE r.kind \in {"silent", "unresolved"}
      BY <1>0, <3>6 DEF Count
    <3> QED BY <2>2, <3>1, <3>2, <3>3, <3>4, <3>5, <3>6 DEF OutcomeKind, EndKind
  <2>5. w = "none" => /\ r.kind \notin {"silent", "unresolved", "unexplained"}
                      /\ ~(c.lost >= LossCap) /\ ~(c.reverts >= MaxReverts)
                      /\ ~(c.refusals >= MaxRefusals) /\ ~(c.landed >= MaxLanded)
    <3> HIDE DEF c
    <3> QED BY DEF Cause
  <2> HIDE DEF c, w
  <2>6. Trip(c, w) = IF c.halted = "none" THEN [c EXCEPT !.halted = w] ELSE c
    BY DEF Trip
  <2>7. c = [lost |-> c.lost, reverts |-> c.reverts, refusals |-> c.refusals, landed |-> c.landed,
             halted |-> c.halted, open |-> c.open]
    BY <2>3 DEF Totals
  <2>8. /\ Trip(c, w).lost = c.lost /\ Trip(c, w).landed = c.landed
        /\ Trip(c, w).reverts = c.reverts /\ Trip(c, w).refusals = c.refusals
        /\ Trip(c, w).halted = IF c.halted = "none" THEN w ELSE c.halted
    BY <2>6, <2>7
  <2> QED BY <1>3, <2>1, <2>3, <2>4, <2>5, <2>8
<1> QED BY <1>1, <1>2, <1>3

\* A set of places one larger.
LEMMA OneMorePlace ==
  ASSUME NEW n \in Nat, NEW S, S \subseteq 1..n
  PROVE  Cardinality(S \cup {n + 1}) = Cardinality(S) + 1 /\ Cardinality(S) \in Nat
<1>1. IsFiniteSet(S)
  <2>1. IsFiniteSet(1..n)
    BY FS_Interval
  <2> QED BY <2>1, FS_Subset
<1>2. n + 1 \notin S
  OBVIOUS
<1> QED BY <1>1, <1>2, FS_AddElement, FS_CardinalityType

\* What the records say was lost can be summed.
LEMMA LossesSummable ==
  ASSUME NEW l \in Seq(CanaryRecord), NEW kinds, kinds \subseteq OutcomeKind
  PROVE  Summable(LossesIn(l), SinceIn(l, kinds)) /\ Sum(LossesIn(l), SinceIn(l, kinds)) \in Nat
<1>1. IsFiniteSet(SinceIn(l, kinds)) /\ SinceIn(l, kinds) \subseteq 1..Len(l)
  BY SinceType
<1>2. ASSUME NEW i \in SinceIn(l, kinds) PROVE LossesIn(l)[i] \in Nat
  <2>1. i \in 1..Len(l) /\ l[i] \in CanaryRecord /\ l[i].kind \in kinds
    BY <1>1, <1>2, SinceType
  <2>2. l[i].kind \in OutcomeKind
    BY <2>1
  <2>3. l[i] \in OutcomeRecord
    BY <2>1, <2>2, RecordKinds
  <2> QED BY <2>1, <2>3 DEF OutcomeRecord, LossesIn
<1>3. Summable(LossesIn(l), SinceIn(l, kinds))
  BY <1>1, <1>2 DEF Summable
<1> QED BY <1>3, SumType

\* One record more adds its loss, if it is of the kinds, and a reset starts over.
LEMMA LossesAppend ==
  ASSUME NEW l \in Seq(CanaryRecord), NEW r \in CanaryRecord, NEW kinds, kinds \subseteq OutcomeKind
  PROVE  Sum(LossesIn(Append(l, r)), SinceIn(Append(l, r), kinds)) =
           IF r.kind = "reset" THEN 0
           ELSE IF r.kind \in kinds THEN Sum(LossesIn(l), SinceIn(l, kinds)) + r.loss
           ELSE Sum(LossesIn(l), SinceIn(l, kinds))
<1> DEFINE k == Append(l, r)
           n == Len(l) + 1
           S == SinceIn(l, kinds)
           T == SinceIn(k, kinds)
           v == LossesIn(l)
           w == LossesIn(k)
<1>1. k \in Seq(CanaryRecord) /\ n \in Nat /\ Len(l) \in Nat /\ w[n] = r.loss /\ \A i \in 1..Len(l) : w[i] = v[i]
  BY DEF LossesIn
<1>2. S \subseteq 1..Len(l) /\ Summable(v, S) /\ Sum(v, S) \in Nat
  BY SinceType, LossesSummable
<1>3. Summable(w, T)
  <2>1. k \in Seq(CanaryRecord)
    BY <1>1
  <2> HIDE DEF k
  <2> QED BY <2>1, LossesSummable
<1>4. T = IF r.kind = "reset" THEN {} ELSE IF r.kind \in kinds THEN S \cup {n} ELSE S
  BY SinceAppend
<1>5. \A i \in S : v[i] = w[i]
  BY <1>1, <1>2
<1>6. n \notin S
  BY <1>1, <1>2
<1> HIDE DEF k, n, S, T, v, w
<1>7. Sum(w, S) = Sum(v, S)
  BY <1>2, <1>5, SumSame
<1>8. CASE r.kind = "reset"
  <2>1. T = {}
    BY <1>4, <1>8
  <2> QED BY <1>8, <2>1, SumEmpty DEF k, T, w
<1>9. CASE r.kind # "reset" /\ r.kind \in kinds
  <2>1. T = S \cup {n} /\ n \in T /\ T \ {n} = S
    BY <1>4, <1>6, <1>9
  <2>2. Sum(w, T) = Sum(w, T \ {n}) + w[n]
    BY <1>3, <2>1, SumRemove
  <2>3. Sum(w, T) = Sum(v, S) + r.loss
    BY <1>1, <1>7, <2>1, <2>2
  <2> QED BY <1>9, <2>3 DEF k, T, w, v, S
<1>10. CASE r.kind # "reset" /\ r.kind \notin kinds
  <2>1. T = S
    BY <1>4, <1>10
  <2>2. Sum(w, T) = Sum(v, S)
    BY <1>7, <2>1
  <2> QED BY <1>10, <2>2 DEF k, T, w, v, S
<1> QED BY <1>8, <1>9, <1>10

\* The counts follow the ledger, record by record.
LEMMA TalliedAppend ==
  ASSUME NEW l \in Seq(CanaryRecord), NEW s \in Totals, NEW r \in CanaryRecord, Tallied(l, s)
  PROVE  Tallied(Append(l, r), Apply(s, r))
<1> DEFINE k == Append(l, r)
           q == Apply(s, r)
           n == Len(l) + 1
<1>1. k \in Seq(CanaryRecord) /\ Len(l) \in Nat /\ n = Len(l) + 1
  OBVIOUS
<1>2. /\ q.landed = IF r.kind = "reset" THEN 0 ELSE IF r.kind = "landed" THEN s.landed + 1 ELSE s.landed
      /\ q.reverts = IF r.kind \in {"reset", "landed"} THEN 0
                     ELSE IF r.kind = "reverted" THEN s.reverts + 1 ELSE s.reverts
      /\ q.refusals = IF r.kind \in {"reset", "landed", "reverted"} THEN 0
                      ELSE IF r.kind = "refused" THEN s.refusals + 1 ELSE s.refusals
  BY ApplyCounts
<1>3. q.lost = IF r.kind = "reset" THEN 0
               ELSE IF r.kind \in {"landed", "reverted"} THEN s.lost + r.loss ELSE s.lost
  BY ApplyShape
<1>4. q.lost = Sum(LossesIn(k), SinceIn(k, {"landed", "reverted"}))
  <2> DEFINE K == {"landed", "reverted"}
  <2>1. K \subseteq OutcomeKind
    BY DEF OutcomeKind, EndKind
  <2>2. s.lost = Sum(LossesIn(l), SinceIn(l, K))
    BY DEF Tallied
  <2>3. q.lost = IF r.kind = "reset" THEN 0 ELSE IF r.kind \in K THEN s.lost + r.loss ELSE s.lost
    BY <1>3
  <2> HIDE DEF K, q
  <2>4. Sum(LossesIn(k), SinceIn(k, K)) =
          IF r.kind = "reset" THEN 0
          ELSE IF r.kind \in K THEN Sum(LossesIn(l), SinceIn(l, K)) + r.loss
          ELSE Sum(LossesIn(l), SinceIn(l, K))
    BY <2>1, LossesAppend
  <2>5. q.lost = Sum(LossesIn(k), SinceIn(k, K))
    BY <2>2, <2>3, <2>4
  <2> QED BY <2>5 DEF K
<1>5. q.landed = Cardinality(SinceIn(k, {"landed"}))
  <2> DEFINE K == {"landed"}
             S == SinceIn(l, K)
  <2>1. r.kind \in K <=> r.kind = "landed"
    OBVIOUS
  <2>2. s.landed = Cardinality(S)
    BY DEF Tallied
  <2> HIDE DEF K
  <2>3. SinceIn(k, K) = IF r.kind = "reset" THEN {} ELSE IF r.kind \in K THEN S \cup {n} ELSE S
    BY SinceAppend
  <2>4. S \subseteq 1..Len(l)
    BY SinceType
  <2> HIDE DEF S
  <2>5. Cardinality(S \cup {n}) = Cardinality(S) + 1
    BY <1>1, <2>4, OneMorePlace
  <2>6. Cardinality({}) = 0
    BY FS_EmptySet
  <2> HIDE DEF q, k, n
  <2>7. q.landed = Cardinality(SinceIn(k, K))
    BY <1>2, <2>1, <2>2, <2>3, <2>5, <2>6
  <2> QED BY <2>7 DEF K
<1>6. ASSUME NEW kind, kind # "reset", NEW B, kind \notin B
      PROVE  Cardinality(RunIn(k, kind, B)) =
               IF r.kind \in B \cup {"reset"} THEN 0
               ELSE IF r.kind = kind THEN Cardinality(RunIn(l, kind, B)) + 1
               ELSE Cardinality(RunIn(l, kind, B))
  <2> DEFINE S == RunIn(l, kind, B)
  <2>1. RunIn(k, kind, B) = IF r.kind \in B \cup {"reset"} THEN {} ELSE IF r.kind = kind THEN S \cup {n} ELSE S
    BY <1>6, RunAppend
  <2>2. S \subseteq 1..Len(l)
    BY SinceType DEF RunIn
  <2> HIDE DEF S
  <2>3. Cardinality(S \cup {n}) = Cardinality(S) + 1
    BY <1>1, <2>2, OneMorePlace
  <2> HIDE DEF k, n
  <2> QED BY <2>1, <2>3, FS_EmptySet DEF S
<1>7. q.reverts = Cardinality(RunIn(k, "reverted", {"landed"}))
  <2> DEFINE B == {"landed"}
             kind == "reverted"
  <2>1. kind # "reset" /\ kind \notin B /\ s.reverts = Cardinality(RunIn(l, kind, B))
    BY DEF Tallied
  <2>2. q.reverts = IF r.kind \in B \cup {"reset"} THEN 0 ELSE IF r.kind = kind THEN s.reverts + 1 ELSE s.reverts
    BY <1>2
  <2> HIDE DEF B, kind, q, k
  <2>3. q.reverts = Cardinality(RunIn(k, kind, B))
    BY <1>6, <2>1, <2>2
  <2> QED BY <2>3 DEF B, kind
<1>8. q.refusals = Cardinality(RunIn(k, "refused", {"landed", "reverted"}))
  <2> DEFINE B == {"landed", "reverted"}
             kind == "refused"
  <2>1. kind # "reset" /\ kind \notin B /\ s.refusals = Cardinality(RunIn(l, kind, B))
    BY DEF Tallied
  <2>2. q.refusals = IF r.kind \in B \cup {"reset"} THEN 0 ELSE IF r.kind = kind THEN s.refusals + 1 ELSE s.refusals
    BY <1>2
  <2> HIDE DEF B, kind, q, k
  <2>3. q.refusals = Cardinality(RunIn(k, kind, B))
    BY <1>6, <2>1, <2>2
  <2> QED BY <2>3 DEF B, kind
<1> HIDE DEF k, q
<1>9. Tallied(k, q)
  BY <1>4, <1>5, <1>7, <1>8 DEF Tallied
<1> QED BY <1>9 DEF k, q

\* A ledger calls for no halt after a record that trips none.
LEMMA AnswersAppend ==
  ASSUME NEW l \in Seq(CanaryRecord), NEW s \in Totals, NEW r \in CanaryRecord, Answers(l, s)
  PROVE  Answers(Append(l, r), Apply(s, r))
<1> DEFINE k == Append(l, r)
           q == Apply(s, r)
<1>1. Tallied(k, q)
  BY TalliedAppend DEF Answers
<1>2. LossCap \in Nat \ {0} /\ MaxReverts \in Nat \ {0} /\ MaxRefusals \in Nat \ {0} /\ MaxLanded \in Nat \ {0}
  BY CanaryAssumption
<1>3. k \in Seq(CanaryRecord)
  OBVIOUS
<1>4. CASE r.kind = "reset"
  <2>1. \A kinds : SinceIn(k, kinds) = {}
    BY <1>4, SinceAppend
  <2> HIDE DEF k, q
  <2>2. Cardinality({}) = 0 /\ Sum(LossesIn(k), {}) = 0
    BY FS_EmptySet, SumEmpty
  <2>3. \A kind, B : \A m \in Nat \ {0} : ~InARowIn(k, kind, B, m)
    <3> SUFFICES ASSUME NEW kind, NEW B, NEW m \in Nat \ {0}, InARowIn(k, kind, B, m) PROVE FALSE
      OBVIOUS
    <3>1. PICK S \in SUBSET SinceIn(k, {kind}) : Cardinality(S) = m
      BY DEF InARowIn
    <3>2. S = {}
      BY <2>1, <3>1
    <3> QED BY <2>2, <3>1, <3>2
  <2>5. SinceIn(k, {"silent", "unresolved", "unexplained"}) = {} /\ SinceIn(k, {"landed", "reverted"}) = {}
        /\ SinceIn(k, {"landed"}) = {}
    BY <2>1
  <2>6. ~InARowIn(k, "reverted", {"landed"}, MaxReverts) /\ ~InARowIn(k, "refused", {"landed", "reverted"}, MaxRefusals)
    BY <1>2, <2>3
  <2>7. ~(Sum(LossesIn(k), SinceIn(k, {"landed", "reverted"})) >= LossCap)
    <3> DEFINE v == Sum(LossesIn(k), SinceIn(k, {"landed", "reverted"}))
    <3>1. v = 0
      BY <2>2, <2>5
    <3> HIDE DEF v
    <3>2. ~(v >= LossCap)
      BY <1>2, <3>1
    <3> QED BY <3>2 DEF v
  <2>8. ~(Cardinality(SinceIn(k, {"landed"})) >= MaxLanded)
    <3> DEFINE v == Cardinality(SinceIn(k, {"landed"}))
    <3>1. v = 0
      BY <2>2, <2>5
    <3> HIDE DEF v
    <3>2. ~(v >= MaxLanded)
      BY <1>2, <3>1
    <3> QED BY <3>2 DEF v
  <2>4. ~CallsIn(k)
    BY <2>5, <2>6, <2>7, <2>8 DEF CallsIn
  <2> QED BY <1>1, <2>4 DEF Answers, k, q
<1>5. CASE r.kind # "reset" /\ q.halted = "none"
  <2>1. /\ s.halted = "none" /\ r.kind \notin {"silent", "unresolved", "unexplained"}
        /\ ~(q.lost >= LossCap) /\ ~(q.reverts >= MaxReverts)
        /\ ~(q.refusals >= MaxRefusals) /\ ~(q.landed >= MaxLanded)
    BY <1>5, ApplyCounts
  <2>2. ~CallsIn(l)
    BY <2>1 DEF Answers
  <2>3. SinceIn(k, {"silent", "unresolved", "unexplained"}) = {}
    <3> DEFINE K == {"silent", "unresolved", "unexplained"}
    <3>1. SinceIn(l, K) = {} /\ r.kind \notin K
      BY <2>1, <2>2 DEF CallsIn
    <3> HIDE DEF K
    <3>2. SinceIn(k, K) = {}
      BY <1>5, <3>1, SinceAppend
    <3> QED BY <3>2 DEF K
  <2> HIDE DEF q
  <2>4. ~InARowIn(k, "reverted", {"landed"}, MaxReverts)
    <3> DEFINE B == {"landed"}
    <3>1. "reverted" \notin B /\ ~InARowIn(l, "reverted", B, MaxReverts)
          /\ ~(Cardinality(RunIn(k, "reverted", B)) >= MaxReverts)
      BY <1>1, <2>1, <2>2 DEF CallsIn, Tallied
    <3> HIDE DEF B
    <3>2. ~InARowIn(k, "reverted", B, MaxReverts)
      BY <1>2, <1>5, <3>1, RowAppend
    <3> QED BY <3>2 DEF B
  <2>5. ~InARowIn(k, "refused", {"landed", "reverted"}, MaxRefusals)
    <3> DEFINE B == {"landed", "reverted"}
    <3>1. "refused" \notin B /\ ~InARowIn(l, "refused", B, MaxRefusals)
          /\ ~(Cardinality(RunIn(k, "refused", B)) >= MaxRefusals)
      BY <1>1, <2>1, <2>2 DEF CallsIn, Tallied
    <3> HIDE DEF B
    <3>2. ~InARowIn(k, "refused", B, MaxRefusals)
      BY <1>2, <1>5, <3>1, RowAppend
    <3> QED BY <3>2 DEF B
  <2> HIDE DEF k
  <2>6. ~CallsIn(k)
    BY <1>1, <2>1, <2>3, <2>4, <2>5 DEF CallsIn, Tallied
  <2> QED BY <1>1, <2>6 DEF Answers, k, q
<1>6. CASE q.halted # "none"
  BY <1>1, <1>6 DEF Answers
<1> QED BY <1>4, <1>5, <1>6

\* A send and a halt are nothing to answer for.
LEMMA QuietRecord ==
  ASSUME NEW l \in Seq(CanaryRecord), NEW r \in CanaryRecord, r.kind \in {"sent", "halted"}
  PROVE  /\ CallsIn(Append(l, r)) <=> CallsIn(l)
         /\ \A s : Tallied(l, s) => Tallied(Append(l, r), s)
<1> DEFINE k == Append(l, r)
<1>1. \A kinds : kinds \subseteq OutcomeKind => SinceIn(k, kinds) = SinceIn(l, kinds)
  <2> SUFFICES ASSUME NEW kinds, kinds \subseteq OutcomeKind PROVE SinceIn(k, kinds) = SinceIn(l, kinds)
    OBVIOUS
  <2>1. r.kind \notin kinds /\ r.kind # "reset"
    BY DEF OutcomeKind, EndKind
  <2> QED BY <2>1, SinceAppend
<1>2. Sum(LossesIn(k), SinceIn(k, {"landed", "reverted"})) = Sum(LossesIn(l), SinceIn(l, {"landed", "reverted"}))
  <2> DEFINE K == {"landed", "reverted"}
  <2>1. K \subseteq OutcomeKind /\ r.kind \notin K /\ r.kind # "reset"
    BY DEF OutcomeKind, EndKind
  <2> HIDE DEF K
  <2>2. Sum(LossesIn(k), SinceIn(k, K)) = Sum(LossesIn(l), SinceIn(l, K))
    BY <2>1, LossesAppend
  <2> QED BY <2>2 DEF K
<1> HIDE DEF k
<1>3. /\ SinceIn(k, {"silent", "unresolved", "unexplained"}) = SinceIn(l, {"silent", "unresolved", "unexplained"})
      /\ SinceIn(k, {"landed"}) = SinceIn(l, {"landed"}) /\ SinceIn(k, {"reverted"}) = SinceIn(l, {"reverted"})
      /\ SinceIn(k, {"refused"}) = SinceIn(l, {"refused"})
      /\ SinceIn(k, {"landed", "reverted"}) = SinceIn(l, {"landed", "reverted"})
  <2>1. /\ {"silent", "unresolved", "unexplained"} \subseteq OutcomeKind /\ {"landed"} \subseteq OutcomeKind
        /\ {"reverted"} \subseteq OutcomeKind /\ {"refused"} \subseteq OutcomeKind
        /\ {"landed", "reverted"} \subseteq OutcomeKind
    BY DEF OutcomeKind, EndKind
  <2> QED BY <1>1, <2>1
<1>4. /\ RunIn(k, "reverted", {"landed"}) = RunIn(l, "reverted", {"landed"})
      /\ RunIn(k, "refused", {"landed", "reverted"}) = RunIn(l, "refused", {"landed", "reverted"})
  BY <1>3 DEF RunIn
<1>5. \A m : /\ InARowIn(k, "reverted", {"landed"}, m) <=> InARowIn(l, "reverted", {"landed"}, m)
             /\ InARowIn(k, "refused", {"landed", "reverted"}, m) <=> InARowIn(l, "refused", {"landed", "reverted"}, m)
  BY <1>3 DEF InARowIn
<1>6. CallsIn(k) <=> CallsIn(l)
  BY <1>2, <1>3, <1>5 DEF CallsIn
<1>7. \A s : Tallied(l, s) => Tallied(k, s)
  BY <1>2, <1>3, <1>4 DEF Tallied
<1> QED BY <1>6, <1>7 DEF k

\* The fold of the property's sum as a function.
LossInIter(S) ==
  CHOOSE it : it = [s \in SUBSET S |->
                      IF s = {} THEN 0 ELSE ledger[CHOOSE x \in s : TRUE].loss + it[s \ {CHOOSE x \in s : TRUE}]]

\* By definition of the folds.
LEMMA LossInByIter == \A S : MapThenSumSet(LAMBDA i : ledger[i].loss, S) = LossInIter(S)[S]
BY DEF MapThenSumSet, MapThenFoldSet, LossInIter

\* What the property adds up is this sum.
LEMMA LossInIsSum ==
  ASSUME NEW S, S \subseteq 1..Len(ledger), Summable(LossesIn(ledger), S)
  PROVE  MapThenSumSet(LAMBDA i : ledger[i].loss, S) = Sum(LossesIn(ledger), S)
<1> DEFINE w == LossesIn(ledger)
           jt == LossInIter(S)
<1>1. Summable(w, S) /\ \A i \in 1..Len(ledger) : w[i] = ledger[i].loss
  BY DEF LossesIn
<1> HIDE DEF w
<1>2. \A s \in SUBSET S : s # {} => Chosen(s) \in 1..Len(ledger) /\ w[Chosen(s)] = ledger[Chosen(s)].loss
  BY <1>1 DEF Chosen
<1>3. ASSUME NEW it
      PROVE  [s \in SUBSET S |-> IF s = {} THEN 0 ELSE w[Chosen(s)] + it[s \ {Chosen(s)}]]
             = [s \in SUBSET S |-> IF s = {} THEN 0 ELSE ledger[Chosen(s)].loss + it[s \ {Chosen(s)}]]
  BY <1>2
<1>4. PICK it : IsSum(it, w, S)
  BY <1>1, SumExists
<1>5. it = [s \in SUBSET S |-> IF s = {} THEN 0 ELSE ledger[Chosen(s)].loss + it[s \ {Chosen(s)}]]
  BY <1>3, <1>4 DEF IsSum
<1>6. jt = [s \in SUBSET S |-> IF s = {} THEN 0 ELSE ledger[Chosen(s)].loss + jt[s \ {Chosen(s)}]]
  BY <1>5 DEF LossInIter, Chosen
<1> HIDE DEF jt
<1>7. IsSum(jt, w, S)
  BY <1>3, <1>6 DEF IsSum
<1>8. jt[S] = Sum(w, S)
  BY <1>1, <1>7, SumIs
<1> QED BY <1>8, LossInByIter DEF jt, w

\* What the property counts by hand is what the ledger calls for.
LEMMA CallsAre ==
  ASSUME LedgerType
  PROVE  CallsForHalt <=> CallsIn(ledger)
<1>1. ledger \in Seq(CanaryRecord)
  BY DEF LedgerType
<1>2. \A kinds : Since(kinds) = SinceIn(ledger, kinds)
  BY DEF Since, SinceIn, LastReset, LastResetIn
<1>3. MapThenSumSet(LAMBDA i : ledger[i].loss, Since({"landed", "reverted"}))
      = Sum(LossesIn(ledger), SinceIn(ledger, {"landed", "reverted"}))
  <2> DEFINE K == {"landed", "reverted"}
             S == SinceIn(ledger, K)
  <2>1. K \subseteq OutcomeKind
    BY DEF OutcomeKind, EndKind
  <2> HIDE DEF K
  <2>2. S \subseteq 1..Len(ledger) /\ Summable(LossesIn(ledger), S)
    BY <1>1, <2>1, SinceType, LossesSummable
  <2> HIDE DEF S
  <2>3. MapThenSumSet(LAMBDA i : ledger[i].loss, S) = Sum(LossesIn(ledger), S)
    BY <2>2, LossInIsSum
  <2>4. S = Since(K)
    BY <1>2 DEF S
  <2> QED BY <2>3, <2>4 DEF S, K
<1>4. \A kind, B, m : InARow(kind, B, m) <=> InARowIn(ledger, kind, B, m)
  <2> SUFFICES ASSUME NEW kind, NEW B, NEW m PROVE InARow(kind, B, m) <=> InARowIn(ledger, kind, B, m)
    OBVIOUS
  <2>1. Since({kind}) = SinceIn(ledger, {kind}) /\ Since(B) = SinceIn(ledger, B)
    BY <1>2
  <2> QED BY <2>1 DEF InARow, InARowIn
<1>5. /\ Since({"silent", "unresolved", "unexplained"}) = SinceIn(ledger, {"silent", "unresolved", "unexplained"})
      /\ Since({"landed"}) = SinceIn(ledger, {"landed"})
  BY <1>2
<1>6. /\ InARow("reverted", {"landed"}, MaxReverts) <=> InARowIn(ledger, "reverted", {"landed"}, MaxReverts)
      /\ InARow("refused", {"landed", "reverted"}, MaxRefusals)
           <=> InARowIn(ledger, "refused", {"landed", "reverted"}, MaxRefusals)
  BY <1>4
<1> QED BY <1>3, <1>5, <1>6 DEF CallsForHalt, CallsIn

-----------------------------------------------------------------------------
(* No send past a halt.                                                    *)

\* What the disk and the running process hold answers for the ledger, and a send
\* past its first check goes ahead of nothing that calls for a halt: whatever has
\* tripped since is a tripwire.
CalmInv ==
  /\ Answers(ledger, Kept)
  /\ stage # "down" => missed # {} \/ Answers(ledger, mem)
  /\ send.pc \in {"signed", "clear", "written"} => missed # {} \/ ~CallsIn(ledger)

\* Totals that only halt differently.
LEMMA AnswersTrip ==
  ASSUME NEW s \in Totals, NEW why \in Why, Answers(ledger, s)
  PROVE  Answers(ledger, Trip(s, why))
<1>1. s = [lost |-> s.lost, reverts |-> s.reverts, refusals |-> s.refusals, landed |-> s.landed,
           halted |-> s.halted, open |-> s.open]
  BY DEF Totals
<1>2. Trip(s, why) = IF s.halted = "none" THEN [s EXCEPT !.halted = why] ELSE s
  BY DEF Trip
<1>3. /\ Trip(s, why).lost = s.lost /\ Trip(s, why).landed = s.landed
      /\ Trip(s, why).reverts = s.reverts /\ Trip(s, why).refusals = s.refusals
      /\ s.halted # "none" => Trip(s, why).halted # "none"
  BY <1>1, <1>2
<1> QED BY <1>3 DEF Answers, Tallied

\* Totals that read a send, or a halt, the ledger lost.
LEMMA AnswersRead ==
  ASSUME NEW s \in Totals, NEW r \in CanaryRecord, r.kind \in {"sent", "halted"},
         r.kind = "halted" => r.why # "none", Answers(ledger, s)
  PROVE  Answers(ledger, Apply(s, r))
<1>1. s = [lost |-> s.lost, reverts |-> s.reverts, refusals |-> s.refusals, landed |-> s.landed,
           halted |-> s.halted, open |-> s.open]
  BY DEF Totals
<1>2. CASE r.kind = "halted"
  <2>1. Apply(s, r) = [s EXCEPT !.halted = r.why]
    BY <1>2 DEF Apply
  <2>2. /\ Apply(s, r).lost = s.lost /\ Apply(s, r).landed = s.landed
        /\ Apply(s, r).reverts = s.reverts /\ Apply(s, r).refusals = s.refusals
        /\ Apply(s, r).halted # "none"
    BY <1>1, <1>2, <2>1
  <2> QED BY <2>2 DEF Answers, Tallied
<1>3. CASE r.kind = "sent"
  <2> DEFINE q == [s EXCEPT !.open = @ \cup {r.tx}]
  <2>1. Count(s, r) = q
    BY <1>3 DEF Count
  <2>2. /\ q.lost = s.lost /\ q.landed = s.landed /\ q.reverts = s.reverts /\ q.refusals = s.refusals
        /\ q.halted = s.halted /\ q \in Totals
    BY <1>1, <1>3, RecordKinds DEF Totals, SentRecord
  <2> HIDE DEF q
  <2>3. Apply(s, r) = Trip(q, Cause(r, q)) /\ Cause(r, q) \in Why
    BY <1>3, <2>1, <2>2, CauseShape DEF Apply
  <2>4. Answers(ledger, q)
    BY <2>2 DEF Answers, Tallied
  <2> QED BY <2>2, <2>3, <2>4, AnswersTrip
<1> QED BY <1>2, <1>3

\* A record on disk answers for itself there; a send or a halt changes nothing
\* that the process would have to answer for.
LEMMA AnswersMore ==
  ASSUME NEW l \in Seq(CanaryRecord), NEW r \in CanaryRecord, Answers(l, Replay(l))
  PROVE  LET k == Append(l, r) IN
         /\ k \in Seq(CanaryRecord) /\ Answers(k, Replay(k))
         /\ r.kind \in {"sent", "halted"} => /\ CallsIn(k) <=> CallsIn(l)
                                             /\ \A s : Answers(l, s) => Answers(k, s)
<1>1. Replay(l) \in Totals /\ Replay(Append(l, r)) = Apply(Replay(l), r)
  BY ReplayType, ReplayAppend
<1>2. Answers(Append(l, r), Apply(Replay(l), r))
  BY <1>1, AnswersAppend
<1>3. Append(l, r) \in Seq(CanaryRecord)
  OBVIOUS
<1>4. r.kind \in {"sent", "halted"} =>
        /\ CallsIn(Append(l, r)) <=> CallsIn(l)
        /\ \A s : Tallied(l, s) => Tallied(Append(l, r), s)
  BY QuietRecord
<1>5. r.kind \in {"sent", "halted"} => \A s : Answers(l, s) => Answers(Append(l, r), s)
  BY <1>4 DEF Answers
<1> QED BY <1>1, <1>2, <1>3, <1>4, <1>5

\* So with a Halted record behind a ledger, or none.
LEMMA AnswersHalts ==
  ASSUME NEW l \in Seq(CanaryRecord), Answers(l, Replay(l)), mem' \in Totals, Halts(l)
  PROVE  /\ Answers(ledger', Kept') /\ (CallsIn(ledger') <=> CallsIn(l))
         /\ \A s : Answers(l, s) => Answers(ledger', s)
<1>1. CASE ledger' = l
  BY <1>1 DEF Kept
<1>2. CASE mem'.halted # "none" /\ ledger' = Append(l, Halted(mem'.halted))
  <2> DEFINE r == Halted(mem'.halted)
  <2>1. r \in CanaryRecord /\ r.kind \in {"sent", "halted"}
    BY <1>2, HaltedIs DEF Totals
  <2> HIDE DEF r
  <2>2. LET k == Append(l, r) IN
        /\ Answers(k, Replay(k)) /\ (CallsIn(k) <=> CallsIn(l)) /\ \A s : Answers(l, s) => Answers(k, s)
    BY <2>1, AnswersMore
  <2> QED BY <1>2, <2>2 DEF r, Kept
<1> QED BY <1>1, <1>2 DEF Halts

\* Initially nothing is called for.
LEMMA CalmInit == Init => CalmInv
<1> SUFFICES ASSUME Init PROVE CalmInv
  OBVIOUS
<1>1. ledger = <<>> /\ Kept = NewState /\ stage = "down" /\ send.pc = "idle"
  BY ReplayEmpty DEF Init, Kept, Idle
<1>2. <<>> \in Seq(CanaryRecord) /\ Len(<<>>) = 0
  OBVIOUS
<1> DEFINE l == <<>>
<1> HIDE DEF l
<1>3. \A kinds : SinceIn(l, kinds) = {}
  <2> SUFFICES ASSUME NEW kinds PROVE SinceIn(l, kinds) = {}
    OBVIOUS
  <2>1. l \in Seq(CanaryRecord) /\ 1..Len(l) = {}
    BY <1>2 DEF l
  <2>2. SinceIn(l, kinds) \subseteq 1..Len(l)
    BY <2>1, SinceType
  <2> QED BY <2>1, <2>2
<1>4. Cardinality({}) = 0 /\ Sum(LossesIn(l), {}) = 0
  BY FS_EmptySet, SumEmpty
<1>5. /\ SinceIn(l, {"silent", "unresolved", "unexplained"}) = {} /\ SinceIn(l, {"landed", "reverted"}) = {}
      /\ SinceIn(l, {"landed"}) = {} /\ SinceIn(l, {"reverted"}) = {} /\ SinceIn(l, {"refused"}) = {}
  BY <1>3
<1>6. RunIn(l, "reverted", {"landed"}) = {} /\ RunIn(l, "refused", {"landed", "reverted"}) = {}
  BY <1>5 DEF RunIn
<1>7. Tallied(l, NewState)
  BY <1>4, <1>5, <1>6 DEF Tallied, NewState
<1>8. ~CallsIn(l)
  <2>1. LossCap \in Nat \ {0} /\ MaxReverts \in Nat \ {0} /\ MaxRefusals \in Nat \ {0} /\ MaxLanded \in Nat \ {0}
    BY CanaryAssumption
  <2>2. ~(0 >= LossCap) /\ ~(0 >= MaxLanded)
    BY <2>1
  <2>3. \A S : S \in SUBSET {} => Cardinality(S) # MaxReverts /\ Cardinality(S) # MaxRefusals
    BY <1>4, <2>1
  <2>4. ~InARowIn(l, "reverted", {"landed"}, MaxReverts) /\ ~InARowIn(l, "refused", {"landed", "reverted"}, MaxRefusals)
    BY <1>5, <2>3 DEF InARowIn
  <2> QED BY <1>4, <1>5, <2>2, <2>4 DEF CallsIn
<1>9. Answers(ledger, Kept) /\ ~CallsIn(ledger)
  BY <1>1, <1>7, <1>8 DEF Answers, l
<1> QED BY <1>1, <1>9 DEF CalmInv

\* Every step keeps it.
LEMMA CalmStep ==
  ASSUME TypeInv, TypeInv', StrayInv, CalmInv, [Next]_vars
  PROVE  CalmInv'
<1>1. /\ CanaryTypes /\ OnlyWhenUp /\ mem \in Totals /\ mem' \in Totals /\ ledger \in Seq(CanaryRecord)
      /\ Answers(ledger, Kept) /\ Answers(ledger, Replay(ledger)) /\ Kept \in Totals
      /\ ResetRecord \in CanaryRecord /\ LedgerType
  BY ReplayType DEF TypeInv, CanaryTypes, LedgerType, CanaryRecord, CalmInv, Kept
<1> DEFINE Early == {"signed", "clear", "written"}
<1>2. ASSUME UNCHANGED <<ledger, mem, missed>>, stage' # "down" => stage # "down",
             send'.pc \in Early => send.pc \in Early \/ (stage # "down" /\ mem.halted = "none")
      PROVE  CalmInv'
  <2>1. Kept' = Kept
    BY <1>2 DEF Kept
  <2>2. send'.pc \in Early => missed # {} \/ ~CallsIn(ledger)
    BY <1>2 DEF CalmInv, Answers
  <2> QED BY <1>1, <1>2, <2>1, <2>2 DEF CalmInv
<1>3. CASE UNCHANGED vars \/ ChainStep \/ BootCloses \/ \E t \in Tx : Admit(t) \/ HandOff(t) \/ Close(t) \/ CheckHold(t)
  <2>1. /\ UNCHANGED <<ledger, mem, missed>> /\ (stage' # "down" => stage # "down")
        /\ send'.pc \in Early => send.pc \in Early \/ (stage # "down" /\ mem.halted = "none")
    BY <1>3 DEF vars, ChainStep, BootCloses, Admit, HandOff, Close, CheckHold, Goes, Ends, Idle, ledgerVars, bootVars, At
  <2> QED BY <1>2, <2>1
<1>4. ASSUME NEW t \in Tx, WriteAhead(t) PROVE CalmInv'
  <2> DEFINE r == Sent(t)
  <2>1. r \in CanaryRecord /\ r.kind = "sent"
    BY RecordsAre DEF CanaryRecord
  <2>2. /\ send.pc \in Early /\ missed' = missed /\ UNCHANGED stage
        /\ \/ ledger' = Append(ledger, r) /\ mem' = Apply(mem, r)
           \/ ledger' \in {ledger, Append(ledger, r)} /\ mem' = mem
    BY <1>1, <1>4, <2>1, RecordedIs, UnrecordedIs DEF WriteAhead, At, bootVars
  <2> HIDE DEF r
  <2>3. LET k == Append(ledger, r) IN
        /\ Answers(k, Replay(k)) /\ (CallsIn(k) <=> CallsIn(ledger)) /\ \A s : Answers(ledger, s) => Answers(k, s)
    BY <1>1, <2>1, AnswersMore
  <2>4. Answers(ledger', Kept') /\ (CallsIn(ledger') <=> CallsIn(ledger))
    BY <1>1, <2>2, <2>3 DEF Kept
  <2>5. Answers(ledger, mem) => Answers(Append(ledger, r), Apply(mem, r))
    BY <1>1, <2>1, AnswersAppend
  <2>6. Answers(ledger, mem) => Answers(ledger', mem')
    BY <2>2, <2>3, <2>5
  <2> QED BY <2>2, <2>4, <2>6 DEF CalmInv
<1>5. ASSUME NEW t \in Tx, NEW kind \in OutcomeKind, NEW e, Settle(t, kind, e), UNCHANGED stage PROVE CalmInv'
  <2> DEFINE r == Outcome(t, kind)
  <2>1. r \in CanaryRecord /\ kind # "sent"
    BY RecordsAre DEF CanaryRecord, OutcomeKind, EndKind
  <2>2. /\ \/ ledger' = Append(ledger, r) /\ mem' = Apply(mem, r) /\ missed' = missed
           \/ ledger' \in {ledger, Append(ledger, r)} /\ missed' # {}
        /\ send'.pc \notin Early
    BY <1>1, <1>5, <2>1, SettleShape
  <2> HIDE DEF r
  <2>3. LET k == Append(ledger, r) IN Answers(k, Replay(k))
    BY <1>1, <2>1, AnswersMore
  <2>4. Answers(ledger', Kept')
    BY <1>1, <2>2, <2>3 DEF Kept
  <2>5. Answers(ledger, mem) => Answers(Append(ledger, r), Apply(mem, r))
    BY <1>1, <2>1, AnswersAppend
  <2> QED BY <1>5, <2>2, <2>4, <2>5 DEF CalmInv
<1>6. ASSUME NEW t \in Tx, Answer(t) \/ Observe(t) PROVE CalmInv'
  <2>1. CASE Goes("watched", t) /\ UNCHANGED <<ledgerVars, mem, fate>> /\ UNCHANGED stage
    <3>1. UNCHANGED <<ledger, mem, missed>> /\ send'.pc = "watched"
      BY <2>1 DEF Goes, ledgerVars
    <3> QED BY <1>2, <2>1, <3>1
  <2>2. CASE UNCHANGED stage /\ \E kind \in OutcomeKind, e \in Endings : Settle(t, kind, e)
    BY <1>5, <2>2
  <2>3. Settled(t) \in OutcomeKind /\ Ending(t) \in Endings
    BY RecordsAre DEF OutcomeKind, EndKind, Ending, Endings
  <2>4. {"refused", "silent", "unresolved"} \subseteq OutcomeKind /\ {"rejected", "unanswered", "timeout"} \subseteq Endings
    BY DEF OutcomeKind, EndKind, Endings
  <2>5. UNCHANGED stage
    BY <1>6 DEF Answer, Observe, bootVars
  <2>6. CASE Lapses(t)
    <3>1. UNCHANGED <<ledger, mem, missed>> /\ send'.pc = "closing"
      BY <2>6 DEF Lapses, Ends
    <3> QED BY <1>2, <2>5, <3>1
  <2> QED BY <1>6, <2>1, <2>2, <2>3, <2>4, <2>5, <2>6 DEF Answer, Observe
<1>7. ASSUME (\E t \in Tx : RecordHalt(t)) \/ RecordTripwire PROVE CalmInv'
  <2>1. UNCHANGED <<mem, stage>> /\ WriteHalt /\ mem.halted # "none" /\ (send'.pc \in Early => UNCHANGED send)
    BY <1>7, <1>1 DEF RecordHalt, RecordTripwire, At, Ends, CanaryTypes, HaltsOnCause, bootVars
  <2>2. Halts(ledger) /\ UNCHANGED missed
    BY <1>1, <2>1, WriteHaltIs
  <2>3. /\ Answers(ledger', Kept') /\ (CallsIn(ledger') <=> CallsIn(ledger))
        /\ \A s : Answers(ledger, s) => Answers(ledger', s)
    BY <1>1, <2>2, AnswersHalts
  <2> QED BY <2>1, <2>2, <2>3 DEF CalmInv
<1>8. ASSUME ReadNonce PROVE CalmInv'
  <2>1. UNCHANGED <<ledger, send, missed, stage>> /\ mem' \in {mem, Trip(mem, "tripwire")}
    BY <1>8 DEF ReadNonce, ledgerVars, bootVars
  <2>2. Answers(ledger, mem) => Answers(ledger, Trip(mem, "tripwire"))
    BY <1>1, AnswersTrip DEF Why
  <2>3. Kept' = Kept
    BY <2>1 DEF Kept
  <2> QED BY <2>1, <2>2, <2>3 DEF CalmInv
<1>9. ASSUME Crash PROVE CalmInv'
  <2>1. UNCHANGED <<ledger, missed>> /\ send'.pc = "idle" /\ stage' = "down"
    BY <1>1, <1>9, CrashFile DEF Crash, Idle
  <2>2. Kept' = Kept
    BY <2>1 DEF Kept
  <2> QED BY <1>1, <2>1, <2>2 DEF CalmInv
<1>10. ASSUME OperatorReset PROVE CalmInv'
  <2>1. ledger' = Append(ledger, ResetRecord) /\ stage' = "down" /\ send'.pc = "idle"
    BY <1>1, <1>10, ResetFile DEF OperatorReset, bootVars, OnlyWhenUp, Idle
  <2>2. LET k == Append(ledger, ResetRecord) IN Answers(k, Replay(k))
    BY <1>1, AnswersMore
  <2> QED BY <2>1, <2>2 DEF CalmInv, Kept
<1>11. ASSUME Open PROVE CalmInv'
  <2>1. UNCHANGED <<ledger, send, missed>> /\ mem' = Replay(Legible) /\ send'.pc = "idle"
    BY <1>1, <1>11 DEF Open, OnlyWhenUp, Idle, ledgerVars
  <2>2. Kept' = Kept
    BY <2>1 DEF Kept
  <2>3. missed # {} \/ Answers(ledger, mem')
    <3>1. CASE mem' = Kept
      BY <1>1, <3>1
    <3>2. ASSUME NEW r \in CanaryRecord, file.stray = <<r>>, mem' = Apply(Kept, r), missed = {}
          PROVE  Answers(ledger, mem')
      <4>1. r.kind \in {"sent", "halted"}
        BY <3>2, RecordKinds DEF StrayInv, Excused
      <4>2. r.kind = "halted" => r.why # "none"
        BY RecordKinds DEF HaltedRecord
      <4> QED BY <1>1, <3>2, <4>1, <4>2, AnswersRead
    <3> QED BY <1>1, <2>1, <3>1, <3>2, OpenedIs
  <2> QED BY <1>1, <2>1, <2>2, <2>3 DEF CalmInv
<1>12. ASSUME NEW t \in Tx, ResolveOpen(t) PROVE CalmInv'
  <2> DEFINE r == Outcome(t, Settled(t))
             k == Append(ledger, r)
  <2>1. UNCHANGED <<send, stage>> /\ send.pc = "idle" /\ stage # "down"
    BY <1>1, <1>12 DEF ResolveOpen, OnlyWhenUp, Idle
  <2>2. r \in CanaryRecord
    BY RecordsAre DEF CanaryRecord, OutcomeKind, EndKind
  <2>3. \/ missed' = missed /\ mem' = Apply(mem, r) /\ Halts(k)
        \/ missed' # {} /\ (Halts(ledger) \/ Halts(k))
        \/ missed' = missed /\ mem' = Trip(mem, "unresolved") /\ Halts(ledger)
    BY <1>1, <1>12, ResolveShape DEF CanaryTypes
  <2> HIDE DEF r
  <2>4. k \in Seq(CanaryRecord) /\ Answers(k, Replay(k))
    BY <1>1, <2>2, AnswersMore
  <2>5. Answers(ledger, mem) => Answers(k, Apply(mem, r))
    BY <1>1, <2>2, AnswersAppend
  <2>6. Answers(ledger, mem) => Answers(ledger, Trip(mem, "unresolved"))
    BY <1>1, AnswersTrip DEF Why
  <2>7. missed # {} \/ Answers(ledger, mem)
    BY <2>1 DEF CalmInv
  <2> HIDE DEF k
  <2>8. Halts(k) => Answers(ledger', Kept') /\ \A s : Answers(k, s) => Answers(ledger', s)
    BY <1>1, <2>4, AnswersHalts
  <2>9. Halts(ledger) => Answers(ledger', Kept') /\ \A s : Answers(ledger, s) => Answers(ledger', s)
    BY <1>1, AnswersHalts
  <2>10. Answers(ledger', Kept') /\ (missed' # {} \/ Answers(ledger', mem'))
    BY <2>3, <2>5, <2>6, <2>7, <2>8, <2>9
  <2> QED BY <2>1, <2>10 DEF CalmInv
<1> QED
  BY <1>3, <1>4, <1>6, <1>7, <1>8, <1>9, <1>10, <1>11, <1>12 DEF Next, CaptureStep, HeadStep, Boot

\* limits.rs: "a halt survives a restart; cleared only by an operator's reset
\* record".  No byte leaves for a ledger that calls for a halt since its last
\* reset, for any limits, whatever dies or fails to be written between an outcome
\* and its Halted record -- unless an outcome never reached the ledger.
THEOREM NothingSentPastAHalt == Spec => NoSendPastAHalt
<1> DEFINE I == TypeInv /\ SendInv /\ StrayInv /\ CalmInv
<1>1. Init => I
  BY TypeInit, SendInit, StrayInit, CalmInit
<1>2. I /\ [Next]_vars => I'
  BY TypeStep, SendStep, StrayStep, CalmStep
<1>3. I => \A t \in Tx : HandOff(t) => ~CallsForHalt \/ missed # {}
  <2> SUFFICES ASSUME I, NEW t \in Tx, HandOff(t) PROVE ~CallsForHalt \/ missed # {}
    OBVIOUS
  <2>1. send.pc = "written"
    BY DEF HandOff, At
  <2>2. missed # {} \/ ~CallsIn(ledger)
    BY <2>1 DEF CalmInv
  <2> QED BY <2>2, CallsAre DEF TypeInv, CanaryTypes
<1> QED BY <1>1, <1>2, <1>3, PTL DEF Spec, NoSendPastAHalt
=============================================================================
