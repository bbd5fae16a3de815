-------------------------- MODULE AppendLog_proofs --------------------------
(***************************************************************************)
(* Theorems about the append-only files: their types, and that the armed   *)
(* ledger, which repairs what it opens and cuts back what it could not     *)
(* append, keeps what it promised and never becomes unreadable.            *)
(***************************************************************************)
EXTENDS AppendLog, TLAPS

\* Types by owner: the file, and the counters around it.
FileTypeOK ==
  /\ lines \in Seq(Record \cup {Broken})
  /\ tail \in [kind : {"none", "torn", "bare"}, record : Record \cup {Broken}]
  /\ synced \in 0..Len(lines)

RestTypeOK ==
  /\ promised \subseteq Record
  /\ written \in 0..MaxRecords
  /\ up \in BOOLEAN
  /\ faults \in 0..MaxFaults
  /\ crashes \in 0..MaxCrashes

\* TypeOK splits into the two.
LEMMA TypeParts == TypeOK <=> FileTypeOK /\ RestTypeOK
BY DEF TypeOK, FileTypeOK, RestTypeOK

\* The same of the next state.
LEMMA TypePartsNext == TypeOK' <=> FileTypeOK' /\ RestTypeOK'
BY DEF TypeOK, FileTypeOK, RestTypeOK

TailType == [kind : {"none", "torn", "bare"}, record : Record \cup {Broken}]

\* What a write that stopped short leaves is a tail, and what an append leaves a
\* line.
LEMMA PieceType ==
  ASSUME TypeOK, written < MaxRecords
  PROVE  /\ written + 1 \in Record
         /\ Nothing \in TailType
         /\ Piece(written + 1) \subseteq TailType
         /\ LineFor(written + 1) \in Record \cup {Broken}
<1>1. written + 1 \in Record
  BY LogAssumption DEF TypeOK, Record
<1>2. Nothing \in TailType /\ Torn \in TailType /\ Bare(written + 1) \in TailType
  BY <1>1 DEF Nothing, Torn, Bare, TailType
<1> QED BY <1>1, <1>2 DEF Piece, LineFor, TypeOK, TailType

\* The lines after an append.
LEMMA AppendedLines ==
  ASSUME FileTypeOK, NEW r \in Record \cup {Broken}, lines' = Append(lines, r)
  PROVE  /\ lines' \in Seq(Record \cup {Broken})
         /\ Len(lines') = Len(lines) + 1
         /\ \A i \in 1..Len(lines) : lines'[i] = lines[i]
         /\ lines'[Len(lines) + 1] = r
BY DEF FileTypeOK

\* Open.
LEMMA OpenTypes ==
  ASSUME TypeOK, Open
  PROVE  TypeOK'
<1>1. Len(lines) \in Nat
  BY DEF TypeOK
<1>2. FileTypeOK'
  BY <1>1 DEF Open, TypeOK, FileTypeOK, Nothing
<1>3. RestTypeOK'
  BY DEF Open, TypeOK, RestTypeOK
<1> QED BY <1>2, <1>3, TypePartsNext

\* An append.
LEMMA AppendTypes ==
  ASSUME TypeOK, AppendRecord \/ AppendFails
  PROVE  TypeOK'
<1>1. FileTypeOK /\ written + 1 \in Record /\ written' = written + 1
  BY PieceType, TypeParts DEF AppendRecord, AppendFails
<1>2. written' \in 0..MaxRecords
  BY <1>1, LogAssumption DEF Record
<1>3. faults' \in 0..MaxFaults
  BY LogAssumption DEF AppendRecord, AppendFails, TypeOK
<1>4. promised' \subseteq Record
  BY <1>1 DEF AppendRecord, AppendFails, TypeOK
<1>5. up' \in BOOLEAN /\ crashes' \in 0..MaxCrashes
  BY DEF AppendRecord, AppendFails, TypeOK
<1>6. CASE AppendRecord
  <2>1. lines' \in Seq(Record \cup {Broken}) /\ Len(lines') = Len(lines) + 1 /\ tail' \in TailType
    BY <1>1, <1>6, PieceType, AppendedLines DEF AppendRecord
  <2>2. synced' \in {synced, Len(lines) + 1}
    BY <1>6 DEF AppendRecord
  <2>3. synced' \in 0..Len(lines')
    BY <1>1, <2>1, <2>2 DEF FileTypeOK
  <2> QED BY <1>2, <1>3, <1>4, <1>5, <2>1, <2>3, TypePartsNext DEF FileTypeOK, RestTypeOK, TailType
<1>7. CASE AppendFails
  <2>1. CASE UNCHANGED lines
    <3>1. tail' \in TailType /\ synced' = synced
      BY <1>7, <2>1, PieceType DEF AppendFails, TypeOK, TailType
    <3> QED BY <1>1, <1>2, <1>3, <1>4, <1>5, <2>1, <3>1, TypePartsNext
            DEF FileTypeOK, RestTypeOK, TailType
  <2>2. CASE lines' = Append(lines, LineFor(written + 1)) /\ tail' = Nothing
    <3>1. lines' \in Seq(Record \cup {Broken}) /\ Len(lines') = Len(lines) + 1 /\ tail' \in TailType
      BY <1>1, <1>7, <2>2, PieceType, AppendedLines DEF AppendFails
    <3>2. synced' \in 0..Len(lines')
      BY <1>1, <1>7, <3>1 DEF AppendFails, FileTypeOK
    <3> QED BY <1>2, <1>3, <1>4, <1>5, <3>1, <3>2, TypePartsNext DEF FileTypeOK, RestTypeOK, TailType
  <2> QED BY <1>7, <2>1, <2>2 DEF AppendFails
<1> QED BY <1>6, <1>7

\* The file a dead machine leaves: a prefix not shorter than what was synced.
LEMMA KeptPrefix ==
  ASSUME FileTypeOK, NEW kept \in synced..Len(lines)
  PROVE  /\ kept \in 0..Len(lines) /\ synced <= kept
         /\ SubSeq(lines, 1, kept) \in Seq(Record \cup {Broken})
         /\ Len(SubSeq(lines, 1, kept)) = kept
         /\ \A i \in 1..kept : SubSeq(lines, 1, kept)[i] = lines[i]
<1>1. kept \in 0..Len(lines) /\ synced <= kept
  BY DEF FileTypeOK
<1> QED BY <1>1 DEF FileTypeOK

\* A death, of the process or the machine.
LEMMA DeathTypes ==
  ASSUME TypeOK, Crash \/ PowerLoss
  PROVE  TypeOK'
<1>1. FileTypeOK /\ RestTypeOK
  BY TypeParts
<1>2. crashes' \in 0..MaxCrashes
  BY LogAssumption DEF Crash, PowerLoss, TypeOK
<1>3. CASE Crash
  <2>1. tail' \in TailType /\ written' \in 0..MaxRecords
    BY <1>1, <1>3, PieceType DEF Crash, FileTypeOK, RestTypeOK, TailType, Record
  <2> QED BY <1>1, <1>2, <1>3, <2>1, TypePartsNext DEF Crash, FileTypeOK, RestTypeOK, TailType
<1>4. CASE PowerLoss
  <2>1. PICK kept \in synced..Len(lines) :
          /\ lines' = SubSeq(lines, 1, kept)
          /\ synced' = kept
          /\ tail' \in IF kept = Len(lines)
                       THEN {tail, Nothing} \cup (IF tail = Nothing THEN {} ELSE {Torn})
                       ELSE {Nothing, Torn}
                              \cup (IF lines[kept + 1] = Broken THEN {} ELSE {Bare(lines[kept + 1])})
    BY <1>4 DEF PowerLoss
  <2>2. lines' \in Seq(Record \cup {Broken}) /\ synced' \in 0..Len(lines')
    BY <1>1, <2>1, KeptPrefix
  <2>3. kept # Len(lines) => lines[kept + 1] \in Record \cup {Broken}
    BY <1>1, <2>1, KeptPrefix DEF FileTypeOK
  <2>4. tail' \in TailType
    BY <1>1, <2>1, <2>3 DEF FileTypeOK, TailType, Nothing, Torn, Bare
  <2> QED BY <1>1, <1>2, <1>4, <2>2, <2>4, TypePartsNext
          DEF PowerLoss, FileTypeOK, RestTypeOK, TailType
<1> QED BY <1>3, <1>4

\* Every step keeps the types.
LEMMA StepTypes ==
  ASSUME TypeOK, [Next]_vars
  PROVE  TypeOK'
<1>1. CASE UNCHANGED vars
  BY <1>1 DEF vars, TypeOK
<1> QED BY <1>1, OpenTypes, AppendTypes, DeathTypes DEF Next

\* The first state is well typed.
LEMMA InitTypes == Init => TypeOK
<1>1. Nothing \in TailType
  BY DEF Nothing, TailType
<1>2. Init => RestTypeOK
  <2>1. 0 \in 0..MaxRecords /\ 0 \in 0..MaxFaults /\ 0 \in 0..MaxCrashes
    BY LogAssumption
  <2> QED BY <2>1 DEF Init, RestTypeOK
<1>3. Init => FileTypeOK
  BY <1>1 DEF Init, FileTypeOK, TailType
<1> QED BY <1>2, <1>3, TypeParts

\* The file, its tail and what was promised keep their types, in every variant.
THEOREM LogTypeCorrect == Spec => []TypeOK
<1>1. TypeOK /\ [Next]_vars => TypeOK'
  BY StepTypes
<1> QED BY InitTypes, <1>1, PTL DEF Spec

-----------------------------------------------------------------------------
(* The armed ledger.                                                       *)

\* What makes PromisedSurvives and CrashIsNoOutage inductive there: the process
\* never writes behind a fragment, so no line is broken, and what was promised
\* is within the synced part.
NoFragmentOpen == up => tail = Nothing
AllLinesWhole  == \A i \in 1..Len(lines) : lines[i] # Broken
PromiseSynced  == \A r \in promised : \E i \in 1..synced : lines[i] = r

ArmedInv == TypeOK /\ NoFragmentOpen /\ AllLinesWhole /\ PromiseSynced

\* The invariant gives both properties: no line is broken, so each is read back.
LEMMA ArmedInvSuffices ==
  ASSUME Store = "armed", ArmedInv
  PROVE  PromisedSurvives /\ CrashIsNoOutage
<1>1. BrokenLines = {}
  BY DEF ArmedInv, AllLinesWhole, BrokenLines
<1>2. \A r \in promised : \E i \in 1..Len(lines) : lines[i] = r
  BY DEF ArmedInv, PromiseSynced, TypeOK
<1>3. PromisedSurvives
  BY <1>1, <1>2 DEF PromisedSurvives, Replayed
<1>4. CrashIsNoOutage
  BY <1>1 DEF CrashIsNoOutage, Refuses
<1> QED BY <1>3, <1>4

\* What is promised and synced is found again after lines were appended or cut
\* behind it.
LEMMA PromiseKept ==
  ASSUME ArmedInv, TypeOK', promised' = promised, synced <= synced',
         \A i \in 1..synced : lines'[i] = lines[i]
  PROVE  PromiseSynced'
<1>1. SUFFICES ASSUME NEW r \in promised PROVE \E i \in 1..synced' : lines'[i] = r
  BY DEF PromiseSynced
<1>2. PICK i \in 1..synced : lines[i] = r
  BY DEF ArmedInv, PromiseSynced
<1>3. i \in 1..synced'
  BY <1>2 DEF ArmedInv, TypeOK
<1> QED BY <1>2, <1>3

\* A successful append: behind a whole file, so the new line is the record.
LEMMA AppendKeeps ==
  ASSUME Store = "armed", ArmedInv, TypeOK', AppendRecord
  PROVE  ArmedInv'
<1>1. TypeOK /\ FileTypeOK /\ tail = Nothing /\ written + 1 \in Record
  BY TypeParts, PieceType DEF ArmedInv, NoFragmentOpen, AppendRecord
<1>2. lines' = Append(lines, written + 1)
  BY <1>1 DEF AppendRecord, LineFor
<1>3. /\ Len(lines') = Len(lines) + 1
      /\ \A i \in 1..Len(lines) : lines'[i] = lines[i]
      /\ lines'[Len(lines) + 1] = written + 1
  BY <1>1, <1>2, AppendedLines
<1>4. Len(lines) \in Nat /\ synced \in 0..Len(lines)
  BY <1>1 DEF FileTypeOK
<1>5. AllLinesWhole'
  <2>1. written + 1 # Broken
    BY <1>1 DEF Record, Broken
  <2> QED BY <1>3, <1>4, <2>1 DEF ArmedInv, AllLinesWhole
<1>6. PromiseSynced'
  <2>1. CASE synced' = Len(lines) + 1 /\ promised' = promised \cup {written + 1}
    <3>1. SUFFICES ASSUME NEW r \in promised' PROVE \E i \in 1..synced' : lines'[i] = r
      BY DEF PromiseSynced
    <3>2. CASE r = written + 1
      BY <1>3, <1>4, <2>1, <3>2
    <3>3. CASE r \in promised
      <4>1. PICK i \in 1..synced : lines[i] = r
        BY <3>3 DEF ArmedInv, PromiseSynced
      <4> QED BY <1>3, <1>4, <2>1, <4>1
    <3> QED BY <2>1, <3>2, <3>3
  <2>2. CASE UNCHANGED <<synced, promised>>
    BY <1>3, <1>4, <2>2, PromiseKept
  <2> QED BY <2>1, <2>2 DEF AppendRecord
<1>7. NoFragmentOpen'
  BY DEF NoFragmentOpen, AppendRecord
<1> QED BY <1>5, <1>6, <1>7 DEF ArmedInv

\* The other steps write no line behind another.
LEMMA OthersKeep ==
  ASSUME Store = "armed", ArmedInv, TypeOK', Open \/ AppendFails \/ Crash \/ PowerLoss
  PROVE  ArmedInv'
<1>1. TypeOK /\ FileTypeOK /\ Len(lines) \in Nat /\ synced \in 0..Len(lines)
  BY TypeParts DEF ArmedInv, FileTypeOK
<1>2. CASE Open
  <2>1. UNCHANGED <<lines, promised>> /\ synced' \in {synced, Len(lines)} /\ tail' = Nothing
    BY <1>2 DEF Open
  <2>2. PromiseSynced'
    BY <1>1, <2>1, PromiseKept
  <2> QED BY <2>1, <2>2 DEF ArmedInv, NoFragmentOpen, AllLinesWhole
<1>3. CASE AppendFails
  <2>1. UNCHANGED <<lines, promised, synced, tail, up>>
    BY <1>3 DEF AppendFails
  <2> QED BY <2>1 DEF ArmedInv, NoFragmentOpen, AllLinesWhole, PromiseSynced
<1>4. CASE Crash
  <2>1. UNCHANGED <<lines, promised, synced>> /\ ~up'
    BY <1>4 DEF Crash
  <2> QED BY <2>1 DEF ArmedInv, NoFragmentOpen, AllLinesWhole, PromiseSynced
<1>5. CASE PowerLoss
  <2>1. PICK kept \in synced..Len(lines) : lines' = SubSeq(lines, 1, kept) /\ synced' = kept
    BY <1>5 DEF PowerLoss
  <2>2. ~up' /\ UNCHANGED promised
    BY <1>5 DEF PowerLoss
  <2>3. /\ kept \in 0..Len(lines) /\ synced <= kept
        /\ Len(lines') = kept /\ \A i \in 1..kept : lines'[i] = lines[i]
    BY <1>1, <2>1, KeptPrefix
  <2>4. PromiseSynced'
    BY <1>1, <2>1, <2>2, <2>3, PromiseKept
  <2>5. AllLinesWhole'
    BY <1>1, <2>3 DEF ArmedInv, AllLinesWhole
  <2> QED BY <2>2, <2>4, <2>5 DEF ArmedInv, NoFragmentOpen
<1> QED BY <1>2, <1>3, <1>4, <1>5

\* The invariant is inductive.
LEMMA ArmedStep ==
  ASSUME Store = "armed", ArmedInv, [Next]_vars
  PROVE  ArmedInv'
<1>1. TypeOK'
  BY StepTypes DEF ArmedInv
<1>2. CASE UNCHANGED vars
  BY <1>1, <1>2 DEF vars, ArmedInv, NoFragmentOpen, AllLinesWhole, PromiseSynced
<1> QED BY <1>1, <1>2, AppendKeeps, OthersKeep DEF Next

\* The invariant holds of an empty file.
LEMMA ArmedInit == Init => ArmedInv
BY InitTypes DEF Init, ArmedInv, NoFragmentOpen, AllLinesWhole, PromiseSynced

\* A record of the armed ledger whose append returned Ok after its fsync is read
\* back by every later boot, for any number of records, failed appends and deaths.
THEOREM ArmedKeepsPromises ==
  ASSUME Store = "armed"
  PROVE  Spec => []PromisedSurvives
<1>1. ArmedInv /\ [Next]_vars => ArmedInv'
  BY ArmedStep
<1>2. ArmedInv => PromisedSurvives
  BY ArmedInvSuffices
<1> QED BY ArmedInit, <1>1, <1>2, PTL DEF Spec

\* No sequence of deaths and failed appends makes the armed ledger unreadable.
THEOREM ArmedStaysReadable ==
  ASSUME Store = "armed"
  PROVE  Spec => []CrashIsNoOutage
<1>1. ArmedInv /\ [Next]_vars => ArmedInv'
  BY ArmedStep
<1>2. ArmedInv => CrashIsNoOutage
  BY ArmedInvSuffices
<1> QED BY ArmedInit, <1>1, <1>2, PTL DEF Spec

=============================================================================
