-------------------------- MODULE LifecycleProofs --------------------------
(***************************************************************************)
(* Proofs, for every value of the constants, of what the runs check of a   *)
(* position's life on small instances: type correctness, then what closes  *)
(* of one or two positions do to the records, then each property, and that *)
(* the contracts implement PositionBook; last, the rules of TypeScript and *)
(* circuits by which a position ends.                                      *)
(***************************************************************************)
EXTENDS PositionLifecycle, PositionEnds, FiniteSetTheorems

-----------------------------------------------------------------------------
(* What a transaction of one or two closes changes.                        *)

\* The elements of a concatenation.
LEMMA ConcatParts ==
    ASSUME NEW S, NEW p \in Seq(S), NEW q \in Seq(S)
    PROVE  /\ p \o q \in Seq(S)
           /\ Len(p \o q) = Len(p) + Len(q)
           /\ \A i \in 1..Len(p) : (p \o q)[i] = p[i]
           /\ \A j \in 1..Len(q) : (p \o q)[Len(p) + j] = q[j]
OBVIOUS

\* A sequence of one or of two elements.
LEMMA OneOrTwo ==
    ASSUME NEW S, NEW x \in S, NEW y \in S
    PROVE  <<x>> \in Seq(S) /\ <<x, y>> \in Seq(S)
OBVIOUS

\* The leaves after k of the closes: those of before, then the new positions.
LEMMA LeavesAfterSome ==
    ASSUME leaves \in Seq(Positions), NEW ss \in Seq(Provable[CloseCircuit]),
           NEW k \in 0..Len(ss)
    PROVE  /\ LeavesAfter(ss, k) \in Seq(Positions)
           /\ Len(LeavesAfter(ss, k)) = Len(leaves) + k
           /\ \A i \in 1..Len(leaves) : LeavesAfter(ss, k)[i] = leaves[i]
           /\ \A j \in 1..k : LeavesAfter(ss, k)[Len(leaves) + j] = ss[j].new
<1> DEFINE news == [j \in 1..k |-> ss[j].new]
<1>1. \A j \in 1..k : ss[j].new \in Positions
  BY LifecycleAssumption
<1>2. news \in Seq(Positions) /\ Len(news) = k /\ \A j \in 1..k : news[j] = ss[j].new
  BY <1>1
<1>3. LeavesAfter(ss, k) = leaves \o news
  BY DEF LeavesAfter
<1> HIDE DEF news
<1> QED BY <1>2, <1>3, ConcatParts

\* Each leg's entries are its own: the commitments and nullifiers of the legs
\* differ, were not used before, and get what RecordCloses writes for that leg;
\* every other entry stays.
EachLegItsOwn(m, ss, conditional) ==
    /\ \A k \in DOMAIN ss :
          /\ closes[ss[k].close] = NoRecord
          /\ positionSpent[ss[k].nullifier] = NoPosition
          /\ closes'[ss[k].close] =
               [market |-> m, statement |-> ss[k], index |-> Len(leaves) + k - 1,
                conditional |-> conditional /\ k = 1]
          /\ positionSpent'[ss[k].nullifier] = ss[k].position
    /\ \A c \in CloseIds : (\A k \in DOMAIN ss : ss[k].close # c) => closes'[c] = closes[c]
    /\ \A n \in PositionNullifiers :
          (\A k \in DOMAIN ss : ss[k].nullifier # n) => positionSpent'[n] = positionSpent[n]
    /\ closeSpent' = closeSpent \cup {ss[k].nullifier : k \in DOMAIN ss}
    /\ \A j, k \in DOMAIN ss :
          j # k => ss[j].close # ss[k].close /\ ss[j].nullifier # ss[k].nullifier

\* Closes of one or two positions do that.
LEMMA CloseEffects ==
    ASSUME LifecycleTypeOK, NEW m \in Markets, NEW conditional \in BOOLEAN,
           NEW ss \in Seq(Provable[CloseCircuit]), SettleCloses(m, ss, conditional)
    PROVE  EachLegItsOwn(m, ss, conditional)
<1>1. \A k \in DOMAIN ss : /\ ss[k] \in Provable[CloseCircuit]
                           /\ ss[k].close \in CloseIds
                           /\ ss[k].nullifier \in PositionNullifiers
  BY LifecycleAssumption DEF Membership
<1>2. \A j, k \in DOMAIN ss :
        j # k => ss[j].close # ss[k].close /\ ss[j].nullifier # ss[k].nullifier
  <2>1. \A k \in DOMAIN ss : \A j \in 1..(k - 1) :
          ss[j].nullifier # ss[k].nullifier /\ ss[j].close # ss[k].close
    BY DEF SettleCloses
  <2>2. ASSUME NEW j \in DOMAIN ss, NEW k \in DOMAIN ss, j # k
        PROVE  j \in 1..(k - 1) \/ k \in 1..(j - 1)
    BY <2>2
  <2> QED BY <2>1, <2>2
<1>3. ASSUME NEW k \in DOMAIN ss
      PROVE  closes[ss[k].close] = NoRecord /\ positionSpent[ss[k].nullifier] = NoPosition
  BY <1>3 DEF SettleCloses, CloseAllowed, PositionIsSpent
<1>4. ASSUME NEW k \in DOMAIN ss
      PROVE  closes'[ss[k].close] =
               [market |-> m, statement |-> ss[k], index |-> Len(leaves) + k - 1,
                conditional |-> conditional /\ k = 1]
  <2>1. (CHOOSE j \in DOMAIN ss : ss[j].close = ss[k].close) = k
    BY <1>2
  <2>2. closes' = [c \in CloseIds |->
                     IF \E j \in DOMAIN ss : ss[j].close = c
                     THEN LET j == CHOOSE j \in DOMAIN ss : ss[j].close = c IN
                          [market |-> m, statement |-> ss[j],
                           index |-> Len(leaves) + j - 1, conditional |-> conditional /\ j = 1]
                     ELSE closes[c]]
    BY DEF SettleCloses, RecordCloses
  <2> QED BY <1>1, <2>1, <2>2
<1>5. ASSUME NEW k \in DOMAIN ss
      PROVE  positionSpent'[ss[k].nullifier] = ss[k].position
  <2>1. (CHOOSE j \in DOMAIN ss : ss[j].nullifier = ss[k].nullifier) = k
    BY <1>2
  <2> QED BY <1>1, <2>1 DEF SettleCloses
<1>6. ASSUME NEW c \in CloseIds, \A k \in DOMAIN ss : ss[k].close # c
      PROVE  closes'[c] = closes[c]
  BY <1>6 DEF SettleCloses, RecordCloses
<1>7. ASSUME NEW n \in PositionNullifiers, \A k \in DOMAIN ss : ss[k].nullifier # n
      PROVE  positionSpent'[n] = positionSpent[n]
  BY <1>7 DEF SettleCloses
<1>8. closeSpent' = closeSpent \cup {ss[k].nullifier : k \in DOMAIN ss}
  BY DEF SettleCloses, RecordCloses
<1> QED BY <1>2, <1>3, <1>4, <1>5, <1>6, <1>7, <1>8 DEF EachLegItsOwn

-----------------------------------------------------------------------------
(* Type correctness.                                                       *)

\* A transaction of the market or of funding settlement, or a move of the
\* oracle, keeps their types.
LEMMA MarketNextTyped ==
    ASSUME MarketTypeOK, MarketNext
    PROVE  MarketTypeOK'
<1>1. CASE \E s \in Provable[FundingCircuit] : SettleFunding(s)
  <2>1. PICK s \in Provable[FundingCircuit] : SettleFunding(s)
    BY <1>1
  <2>2. s.market \in Markets /\ s.old \in FundingIndices /\ s.new \in FundingIndices
    BY MarketAssumption DEF FundingStatement
  <2> QED BY <2>1, <2>2 DEF MarketTypeOK, SettleFunding, AdvanceFunding, FundingStep
<1>2. CASE \E m \in Markets, price \in Prices \cup {NoPrice} : OracleMoves(m, price)
  BY <1>2 DEF MarketTypeOK, OracleMoves
<1>3. CASE \E m \in Markets, active \in BOOLEAN, to \in FundingIndices : Upsert(m, active, to)
  BY <1>3 DEF MarketTypeOK, Upsert
<1>4. CASE \E enabled \in BOOLEAN : SetFundingUpdater(enabled)
  BY <1>4 DEF MarketTypeOK, SetFundingUpdater
<1> QED BY <1>1, <1>2, <1>3, <1>4 DEF MarketNext

\* One or two closes keep the types.
LEMMA SettleClosesTyped ==
    ASSUME LifecycleTypeOK, NEW m \in Markets, NEW conditional \in BOOLEAN,
           NEW ss \in Seq(Provable[CloseCircuit]), SettleCloses(m, ss, conditional)
    PROVE  LifecycleTypeOK'
<1>0. EachLegItsOwn(m, ss, conditional)
  BY CloseEffects
<1>1. GateTypeOK' /\ MarketTypeOK'
  BY DEF SettleCloses, gateVars, marketVars, LifecycleTypeOK, GateTypeOK, MarketTypeOK
<1>2. \A k \in DOMAIN ss : /\ ss[k].nullifier \in PositionNullifiers
                           /\ ss[k].position \in Positions
  BY LifecycleAssumption DEF Membership
<1>3. PositionTypeOK'
  <2>1. leaves \in Seq(Positions) /\ roots \subseteq Seq(Positions)
    BY DEF LifecycleTypeOK, PositionTypeOK
  <2>2. \A k \in 0..Len(ss) : LeavesAfter(ss, k) \in Seq(Positions)
    BY <2>1, LeavesAfterSome
  <2>3. leaves' \in Seq(Positions) /\ roots' \subseteq Seq(Positions)
    <3>1. leaves' = LeavesAfter(ss, Len(ss)) /\ Len(ss) \in 0..Len(ss)
      BY DEF SettleCloses
    <3>2. roots' = roots \cup {LeavesAfter(ss, k) : k \in DOMAIN ss}
      BY DEF SettleCloses
    <3>3. DOMAIN ss \subseteq 0..Len(ss)
      OBVIOUS
    <3> QED BY <2>1, <2>2, <3>1, <3>2, <3>3
  <2>4. \A n \in PositionNullifiers : positionSpent'[n] \in Positions \cup {NoPosition}
    <3> SUFFICES ASSUME NEW n \in PositionNullifiers
                 PROVE  positionSpent'[n] \in Positions \cup {NoPosition}
      OBVIOUS
    <3>1. positionSpent[n] \in Positions \cup {NoPosition}
      BY DEF LifecycleTypeOK, PositionTypeOK
    <3>2. CASE \A k \in DOMAIN ss : ss[k].nullifier # n
      BY <1>0, <3>1, <3>2 DEF EachLegItsOwn
    <3>3. ASSUME NEW k \in DOMAIN ss, ss[k].nullifier = n
          PROVE  positionSpent'[n] \in Positions
      BY <1>0, <1>2, <3>3 DEF EachLegItsOwn
    <3> QED BY <3>2, <3>3
  <2>5. positionSpent' \in [PositionNullifiers -> Positions \cup {NoPosition}]
    <3>1. positionSpent' = [n \in PositionNullifiers |-> positionSpent'[n]]
      BY DEF SettleCloses
    <3> QED BY <2>4, <3>1
  <2> QED BY <2>3, <2>5 DEF SettleCloses, LifecycleTypeOK, PositionTypeOK
<1>4. EndTypeOK'
  <2>1. ASSUME NEW c \in CloseIds
        PROVE  closes'[c] \in CloseRecord \cup {NoRecord}
    <3>1. CASE \A k \in DOMAIN ss : ss[k].close # c
      BY <1>0, <3>1 DEF EachLegItsOwn, LifecycleTypeOK, EndTypeOK
    <3>2. ASSUME NEW k \in DOMAIN ss, ss[k].close = c
          PROVE  closes'[c] \in CloseRecord
      <4>1. Len(leaves) + k - 1 \in Nat /\ (conditional /\ k = 1) \in BOOLEAN
        BY DEF LifecycleTypeOK, PositionTypeOK
      <4>2. closes'[c] = [market |-> m, statement |-> ss[k], index |-> Len(leaves) + k - 1,
                          conditional |-> conditional /\ k = 1]
        BY <1>0, <3>2 DEF EachLegItsOwn
      <4> QED BY <4>1, <4>2 DEF CloseRecord
    <3> QED BY <3>1, <3>2
  <2>2. closes' \in [CloseIds -> CloseRecord \cup {NoRecord}]
    <3>1. closes' = [c \in CloseIds |-> closes'[c]]
      BY DEF SettleCloses, RecordCloses
    <3> QED BY <2>1, <3>1
  <2>3. closeSpent' \subseteq PositionNullifiers
    BY <1>0, <1>2 DEF EachLegItsOwn, LifecycleTypeOK, EndTypeOK
  <2> QED BY <2>2, <2>3 DEF SettleCloses, LifecycleTypeOK, EndTypeOK
<1> QED BY <1>1, <1>3, <1>4 DEF LifecycleTypeOK

\* What a step can be, the closes of one and of two positions taken together.
LEMMA LifecycleSteps ==
    ASSUME [Next]_vars
    PROVE  \/ GateNext /\ UNCHANGED <<positionVars, marketVars, endVars>>
           \/ PositionNext /\ UNCHANGED <<gateVars, marketVars, endVars>>
           \/ MarketNext /\ UNCHANGED <<gateVars, positionVars, endVars>>
           \/ \E r \in Registrations : Register(r.market, r.nullifier, r.close)
           \/ \E m \in Markets, s \in Provable[TriggerCircuit] : Trigger(m, s)
           \/ \E m \in Markets, conditional \in BOOLEAN, ss \in Seq(Provable[CloseCircuit]) :
                 SettleCloses(m, ss, conditional)
           \/ \E m \in Markets, s \in Provable[LiquidationCircuit] : Liquidate(m, s)
           \/ \E ps \in Openings : OpenPositions(ps)
           \/ UNCHANGED vars
<1>1. ASSUME NEW m \in Markets, NEW conditional \in BOOLEAN, NEW s \in Provable[CloseCircuit],
             SettleClose(m, s, conditional)
      PROVE  \E ss \in Seq(Provable[CloseCircuit]) : SettleCloses(m, ss, conditional)
  BY <1>1, OneOrTwo DEF SettleClose
<1>2. ASSUME NEW m \in Markets, NEW conditional \in BOOLEAN, NEW s \in Provable[CloseCircuit],
             NEW maker \in Provable[CloseCircuit], SettlePair(m, s, maker, conditional)
      PROVE  \E ss \in Seq(Provable[CloseCircuit]) : SettleCloses(m, ss, conditional)
  <2>1. <<s, maker>> \in Seq(Provable[CloseCircuit])
    BY OneOrTwo
  <2> QED BY <1>2, <2>1 DEF SettlePair
<1>3. CloseNext => \E m \in Markets, conditional \in BOOLEAN, ss \in Seq(Provable[CloseCircuit]) :
                      SettleCloses(m, ss, conditional)
  BY <1>1, <1>2 DEF CloseNext
<1> QED BY <1>3 DEF Next, ConditionalNext

\* Every step keeps the types.
LEMMA LifecycleNextTyped ==
    ASSUME LifecycleTypeOK, [Next]_vars
    PROVE  LifecycleTypeOK'
<1>1. CASE GateNext /\ UNCHANGED <<positionVars, marketVars, endVars>>
  BY <1>1, GateNextTyped
     DEF LifecycleTypeOK, PositionTypeOK, MarketTypeOK, EndTypeOK, positionVars, marketVars, endVars
<1>2. CASE PositionNext /\ UNCHANGED <<gateVars, marketVars, endVars>>
  BY <1>2, PositionNextTyped
     DEF LifecycleTypeOK, GateTypeOK, MarketTypeOK, EndTypeOK, gateVars, marketVars, endVars
<1>3. CASE MarketNext /\ UNCHANGED <<gateVars, positionVars, endVars>>
  BY <1>3, MarketNextTyped
     DEF LifecycleTypeOK, GateTypeOK, PositionTypeOK, EndTypeOK, gateVars, positionVars, endVars
<1>4. ASSUME NEW r \in Registrations, Register(r.market, r.nullifier, r.close)
      PROVE  LifecycleTypeOK'
  <2>1. r.market \in Markets /\ r.nullifier \in PositionNullifiers /\ r.close \in CloseIds
    BY LifecycleAssumption
  <2>2. EndTypeOK'
    BY <1>4, <2>1 DEF Register, LifecycleTypeOK, EndTypeOK, OrderRecord
  <2> QED BY <1>4, <2>2
          DEF Register, LifecycleTypeOK, GateTypeOK, PositionTypeOK, MarketTypeOK, gateVars,
              positionVars, marketVars
<1>5. ASSUME NEW m \in Markets, NEW s \in Provable[TriggerCircuit], Trigger(m, s)
      PROVE  LifecycleTypeOK'
  <2>1. s.mark \in Prices /\ s.nullifier \in PositionNullifiers /\ s.close \in CloseIds
    BY LifecycleAssumption
  <2>2. EndTypeOK'
    BY <1>5, <2>1 DEF Trigger, LifecycleTypeOK, EndTypeOK, TriggerRecord
  <2> QED BY <1>5, <2>2
          DEF Trigger, LifecycleTypeOK, GateTypeOK, PositionTypeOK, MarketTypeOK, gateVars,
              positionVars, marketVars
<1>6. ASSUME NEW m \in Markets, NEW s \in Provable[LiquidationCircuit], Liquidate(m, s)
      PROVE  LifecycleTypeOK'
  <2>1. s.nullifier \in PositionNullifiers /\ s.position \in Positions
    BY LifecycleAssumption DEF Membership
  <2>2. EndTypeOK'
    BY <1>6, <2>1 DEF Liquidate, LifecycleTypeOK, EndTypeOK, LiquidationRecord
  <2>3. PositionTypeOK'
    BY <1>6, <2>1 DEF Liquidate, SpendPosition, LifecycleTypeOK, PositionTypeOK
  <2> QED BY <1>6, <2>2, <2>3
          DEF Liquidate, LifecycleTypeOK, GateTypeOK, MarketTypeOK, gateVars, marketVars
<1>7. ASSUME NEW ps \in Openings, OpenPositions(ps)
      PROVE  LifecycleTypeOK'
  <2>1. ps \in Seq(Positions)
    BY LifecycleAssumption
  <2>2. PositionTypeOK'
    <3>1. leaves \in Seq(Positions)
      BY DEF LifecycleTypeOK, PositionTypeOK
    <3>2. leaves \o ps \in Seq(Positions)
      BY <2>1, <3>1, ConcatParts
    <3> QED BY <1>7, <3>2 DEF OpenPositions, AppendMany, LifecycleTypeOK, PositionTypeOK
  <2> QED BY <1>7, <2>2
          DEF OpenPositions, LifecycleTypeOK, GateTypeOK, MarketTypeOK, EndTypeOK, gateVars,
              marketVars, endVars
<1>8. CASE UNCHANGED vars
  BY <1>8
     DEF vars, gateVars, positionVars, marketVars, endVars, LifecycleTypeOK, GateTypeOK,
         PositionTypeOK, MarketTypeOK, EndTypeOK
<1> QED BY <1>1, <1>2, <1>3, <1>4, <1>5, <1>6, <1>7, <1>8, LifecycleSteps, SettleClosesTyped

\* The deployed contracts are well typed.
LEMMA LifecycleInitTyped ==
    ASSUME Init
    PROVE  LifecycleTypeOK
<1>1. GateTypeOK
  BY GateInitTyped DEF Init
<1>2. PositionTypeOK
  <2>1. <<>> \in Seq(Positions)
    OBVIOUS
  <2> QED BY <2>1 DEF Init, PositionInit, PositionTypeOK
<1>3. MarketTypeOK
  BY MarketAssumption DEF Init, MarketInit, MarketTypeOK
<1>4. EndTypeOK
  BY DEF Init, EndTypeOK
<1> QED BY <1>1, <1>2, <1>3, <1>4 DEF LifecycleTypeOK

\* Every reachable state is well typed: entries of the three contracts are of
\* statements their circuits accept, and the tree is a sequence of positions.
THEOREM LifecycleTypeCorrect == Spec => []LifecycleTypeOK
<1>1. Init => LifecycleTypeOK
  BY LifecycleInitTyped
<1>2. LifecycleTypeOK /\ [Next]_vars => LifecycleTypeOK'
  BY LifecycleNextTyped
<1> QED BY <1>1, <1>2, PTL DEF Spec

-----------------------------------------------------------------------------
(* One end per nullifier.                                                  *)

\* What a step other than a close or a liquidation leaves alone.
LEMMA EndsElsewhere ==
    ASSUME [Next]_vars,
           ~\E m \in Markets, conditional \in BOOLEAN, ss \in Seq(Provable[CloseCircuit]) :
               SettleCloses(m, ss, conditional),
           ~\E m \in Markets, s \in Provable[LiquidationCircuit] : Liquidate(m, s)
    PROVE  UNCHANGED <<closes, closeSpent, liquidated, positionSpent>>
<1>1. PositionNext => UNCHANGED positionSpent
  BY DEF PositionNext, SetPositionWriter, ResetForPoseidon2
<1> QED BY <1>1, LifecycleSteps
        DEF positionVars, endVars, vars, Register, Trigger, OpenPositions

\* position-state, position-close and liquidation agree: what each of the two
\* contracts has a record of is spent, as the position of its statement, what
\* is spent has a record, and no nullifier has two.
EndInv ==
    /\ \A c \in CloseIds :
          Closed(c) => positionSpent[closes[c].statement.nullifier] = closes[c].statement.position
    /\ \A n \in PositionNullifiers :
          Liquidated(n) => /\ liquidated[n].statement.nullifier = n
                           /\ positionSpent[n] = liquidated[n].statement.position
    /\ \A n \in PositionNullifiers :
          PositionIsSpent(n) => \/ Liquidated(n)
                                \/ \E c \in CloseIds : Closed(c) /\ closes[c].statement.nullifier = n
    /\ \A c \in CloseIds : Closed(c) => ~Liquidated(closes[c].statement.nullifier)
    /\ \A c, d \in CloseIds :
          Closed(c) /\ Closed(d) /\ closes[c].statement.nullifier = closes[d].statement.nullifier
            => c = d

\* Statements of the two circuits are typed, and a position is not an absence.
LEMMA StatementsTyped ==
    /\ \A s \in Provable[CloseCircuit] \cup Provable[LiquidationCircuit] :
          /\ s.position \in Positions /\ s.nullifier \in PositionNullifiers
          /\ s.position # NoPosition
    /\ \A s \in Provable[CloseCircuit] : s.close \in CloseIds
BY LifecycleAssumption, PositionStateAssumption DEF Membership

\* A record is not an absence.
LEMMA RecordsTyped ==
    ASSUME LifecycleTypeOK
    PROVE  /\ \A c \in CloseIds :
                Closed(c) => closes[c] \in CloseRecord
                             /\ closes[c].statement \in Provable[CloseCircuit]
           /\ \A n \in PositionNullifiers :
                Liquidated(n) => liquidated[n] \in LiquidationRecord
                                 /\ liquidated[n].statement \in Provable[LiquidationCircuit]
BY DEF LifecycleTypeOK, EndTypeOK, Closed, Liquidated, CloseRecord, LiquidationRecord

\* Each leg leaves a record of its statement.
LEMMA LegRecorded ==
    ASSUME LifecycleTypeOK, NEW m \in Markets, NEW conditional \in BOOLEAN,
           NEW ss \in Seq(Provable[CloseCircuit]), SettleCloses(m, ss, conditional),
           NEW k \in DOMAIN ss
    PROVE  closes'[ss[k].close] # NoRecord /\ closes'[ss[k].close].statement = ss[k]
<1>1. closes'[ss[k].close] =
        [market |-> m, statement |-> ss[k], index |-> Len(leaves) + k - 1,
         conditional |-> conditional /\ k = 1]
  BY CloseEffects DEF EachLegItsOwn
<1>2. Len(leaves) + k - 1 \in Nat /\ (conditional /\ k = 1) \in BOOLEAN
  BY DEF LifecycleTypeOK, PositionTypeOK
<1>3. closes'[ss[k].close] \in CloseRecord
  BY <1>1, <1>2 DEF CloseRecord
<1>4. closes'[ss[k].close] # NoRecord
  BY <1>3, LifecycleAssumption
<1>5. closes'[ss[k].close].statement = ss[k]
  BY <1>1
<1> QED BY <1>4, <1>5

\* The nullifier that a leg spends was unspent.
LEMMA LegUnspent ==
    ASSUME LifecycleTypeOK, NEW m \in Markets, NEW conditional \in BOOLEAN,
           NEW ss \in Seq(Provable[CloseCircuit]), SettleCloses(m, ss, conditional),
           NEW k \in DOMAIN ss
    PROVE  positionSpent[ss[k].nullifier] = NoPosition
<1>1. EachLegItsOwn(m, ss, conditional)
  BY CloseEffects
<1> QED BY <1>1 DEF EachLegItsOwn

\* Closes of one or two positions keep the three contracts in agreement.
LEMMA ClosesKeepEnds ==
    ASSUME LifecycleTypeOK, EndInv, NEW m \in Markets, NEW conditional \in BOOLEAN,
           NEW ss \in Seq(Provable[CloseCircuit]), SettleCloses(m, ss, conditional)
    PROVE  EndInv'
<1>1. EachLegItsOwn(m, ss, conditional)
  BY CloseEffects
<1>2. liquidated' = liquidated
  BY DEF SettleCloses
<1>3. \A k \in DOMAIN ss : /\ ss[k].nullifier \in PositionNullifiers /\ ss[k].close \in CloseIds
                           /\ ss[k].position # NoPosition
  BY StatementsTyped
<1>4. ASSUME NEW k \in DOMAIN ss
      PROVE  closes'[ss[k].close] # NoRecord /\ closes'[ss[k].close].statement = ss[k]
  BY LegRecorded
<1>5. ASSUME NEW c \in CloseIds, closes'[c] # NoRecord
      PROVE  \/ \E k \in DOMAIN ss : c = ss[k].close
             \/ closes[c] # NoRecord /\ closes'[c] = closes[c]
  BY <1>1, <1>5 DEF EachLegItsOwn
<1>6. ASSUME NEW n \in PositionNullifiers
      PROVE  \/ \E k \in DOMAIN ss : n = ss[k].nullifier
             \/ positionSpent'[n] = positionSpent[n]
  BY <1>1 DEF EachLegItsOwn
<1>7. ASSUME NEW k \in DOMAIN ss
      PROVE  /\ positionSpent[ss[k].nullifier] = NoPosition
             /\ positionSpent'[ss[k].nullifier] = ss[k].position
             /\ ~Liquidated(ss[k].nullifier)
             /\ \A c \in CloseIds : Closed(c) => closes[c].statement.nullifier # ss[k].nullifier
  <2>1. positionSpent[ss[k].nullifier] = NoPosition /\ positionSpent'[ss[k].nullifier] = ss[k].position
    BY <1>1 DEF EachLegItsOwn
  <2>2. ss[k].nullifier \in PositionNullifiers
    BY <1>3
  <2>3. ~Liquidated(ss[k].nullifier)
    BY <2>1, <2>2, RecordsTyped, StatementsTyped DEF EndInv
  <2>4. ASSUME NEW c \in CloseIds, Closed(c) PROVE closes[c].statement.nullifier # ss[k].nullifier
    BY <2>1, <2>2, <2>4, RecordsTyped, StatementsTyped DEF EndInv
  <2> QED BY <2>1, <2>3, <2>4
<1>8. ASSUME NEW c \in CloseIds, closes[c] # NoRecord
      PROVE  /\ closes'[c] = closes[c]
             /\ positionSpent'[closes[c].statement.nullifier] = positionSpent[closes[c].statement.nullifier]
  <2>1. closes[c].statement.nullifier \in PositionNullifiers
    BY <1>8, RecordsTyped, StatementsTyped DEF Closed
  <2>2. closes'[c] = closes[c]
    <3>1. ASSUME NEW k \in DOMAIN ss PROVE ss[k].close # c
      <4>1. closes[ss[k].close] = NoRecord
        BY <1>1 DEF EachLegItsOwn
      <4> QED BY <1>8, <4>1
    <3> QED BY <1>1, <3>1 DEF EachLegItsOwn
  <2>3. Closed(c)
    BY <1>8 DEF Closed
  <2>4. \A k \in DOMAIN ss : closes[c].statement.nullifier # ss[k].nullifier
    BY <1>7, <2>3
  <2> QED BY <1>6, <2>1, <2>2, <2>4
<1>9. ASSUME NEW n \in PositionNullifiers, liquidated[n] # NoRecord
      PROVE  positionSpent'[n] = positionSpent[n]
  BY <1>6, <1>7, <1>9 DEF Liquidated
<1>10. ASSUME NEW c \in CloseIds, closes'[c] # NoRecord
       PROVE  /\ positionSpent'[closes'[c].statement.nullifier] = closes'[c].statement.position
              /\ liquidated'[closes'[c].statement.nullifier] = NoRecord
  <2>1. ASSUME NEW k \in DOMAIN ss, c = ss[k].close
        PROVE  /\ positionSpent'[closes'[c].statement.nullifier] = closes'[c].statement.position
               /\ liquidated'[closes'[c].statement.nullifier] = NoRecord
    BY <1>2, <1>4, <1>7, <2>1 DEF Liquidated
  <2>2. ASSUME closes[c] # NoRecord, closes'[c] = closes[c]
        PROVE  /\ positionSpent'[closes'[c].statement.nullifier] = closes'[c].statement.position
               /\ liquidated'[closes'[c].statement.nullifier] = NoRecord
    BY <1>2, <1>8, <2>2 DEF EndInv, Closed, Liquidated
  <2> QED BY <1>5, <1>10, <2>1, <2>2
<1>11. ASSUME NEW n \in PositionNullifiers, liquidated'[n] # NoRecord
       PROVE  /\ liquidated'[n].statement.nullifier = n
              /\ positionSpent'[n] = liquidated'[n].statement.position
  BY <1>2, <1>9, <1>11 DEF EndInv, Liquidated
<1>12. ASSUME NEW n \in PositionNullifiers, positionSpent'[n] # NoPosition
       PROVE  \/ liquidated'[n] # NoRecord
              \/ \E c \in CloseIds : closes'[c] # NoRecord /\ closes'[c].statement.nullifier = n
  <2>1. ASSUME NEW k \in DOMAIN ss, n = ss[k].nullifier
        PROVE  \E c \in CloseIds : closes'[c] # NoRecord /\ closes'[c].statement.nullifier = n
    BY <1>3, <1>4, <2>1
  <2>2. ASSUME positionSpent'[n] = positionSpent[n]
        PROVE  \/ liquidated'[n] # NoRecord
               \/ \E c \in CloseIds : closes'[c] # NoRecord /\ closes'[c].statement.nullifier = n
    BY <1>2, <1>8, <1>12, <2>2 DEF EndInv, PositionIsSpent, Closed, Liquidated
  <2> QED BY <1>6, <2>1, <2>2
<1>13. ASSUME NEW c \in CloseIds, NEW d \in CloseIds, closes'[c] # NoRecord, closes'[d] # NoRecord,
              closes'[c].statement.nullifier = closes'[d].statement.nullifier
       PROVE  c = d
  <2>1. ASSUME NEW j \in DOMAIN ss, NEW k \in DOMAIN ss, c = ss[j].close, d = ss[k].close
        PROVE  c = d
    BY <1>1, <1>4, <1>13, <2>1 DEF EachLegItsOwn
  <2>2. ASSUME NEW j \in DOMAIN ss, c = ss[j].close, closes[d] # NoRecord, closes'[d] = closes[d]
        PROVE  FALSE
    BY <1>4, <1>7, <1>13, <2>2 DEF Closed
  <2>3. ASSUME NEW k \in DOMAIN ss, d = ss[k].close, closes[c] # NoRecord, closes'[c] = closes[c]
        PROVE  FALSE
    BY <1>4, <1>7, <1>13, <2>3 DEF Closed
  <2>4. ASSUME closes[c] # NoRecord, closes'[c] = closes[c], closes[d] # NoRecord, closes'[d] = closes[d]
        PROVE  c = d
    BY <1>13, <2>4 DEF EndInv, Closed
  <2> QED BY <1>5, <1>13, <2>1, <2>2, <2>3, <2>4
<1> QED BY <1>10, <1>11, <1>12, <1>13 DEF EndInv, Closed, Liquidated, PositionIsSpent

\* A liquidation keeps them in agreement: it spends a nullifier that was unspent.
LEMMA LiquidationKeepsEnds ==
    ASSUME LifecycleTypeOK, EndInv, NEW m \in Markets,
           NEW s \in Provable[LiquidationCircuit], Liquidate(m, s)
    PROVE  EndInv'
<1> DEFINE n == s.nullifier
<1>1. n \in PositionNullifiers /\ s.position # NoPosition
  BY StatementsTyped
<1>2. /\ closes' = closes
      /\ positionSpent[n] = NoPosition
      /\ positionSpent' = [positionSpent EXCEPT ![n] = s.position]
      /\ liquidated' = [liquidated EXCEPT ![n] = [market |-> m, statement |-> s]]
  BY DEF Liquidate, SpendPosition, PositionIsSpent
<1>3. \A l \in PositionNullifiers : l # n => /\ positionSpent'[l] = positionSpent[l]
                                            /\ liquidated'[l] = liquidated[l]
  BY <1>1, <1>2
<1>4. positionSpent'[n] = s.position /\ liquidated'[n] # NoRecord /\ liquidated'[n].statement = s
  <2>1. [market |-> m, statement |-> s] # NoRecord
    BY LifecycleAssumption DEF LiquidationRecord
  <2> QED BY <1>1, <1>2, <2>1 DEF LifecycleTypeOK, PositionTypeOK, EndTypeOK
<1>5. \A c \in CloseIds : Closed(c) => /\ closes[c].statement.nullifier # n
                                      /\ closes[c].statement.nullifier \in PositionNullifiers
  <2>1. \A c \in CloseIds : Closed(c) => /\ closes[c].statement.position # NoPosition
                                        /\ closes[c].statement.nullifier \in PositionNullifiers
    BY RecordsTyped, StatementsTyped
  <2> QED BY <1>2, <2>1 DEF EndInv
<1> HIDE DEF n
<1> QED BY <1>1, <1>2, <1>3, <1>4, <1>5 DEF EndInv, Closed, Liquidated, PositionIsSpent, n

\* Every reachable state agrees.
LEMMA EndInvariant == Spec => []EndInv
<1>1. Init => EndInv
  BY DEF Init, PositionInit, EndInv, Closed, Liquidated, PositionIsSpent
<1>2. LifecycleTypeOK /\ EndInv /\ [Next]_vars => EndInv'
  <2> SUFFICES ASSUME LifecycleTypeOK, EndInv, [Next]_vars PROVE EndInv'
    OBVIOUS
  <2>1. CASE UNCHANGED <<closes, closeSpent, liquidated, positionSpent>>
    BY <2>1 DEF EndInv, Closed, Liquidated, PositionIsSpent
  <2> QED BY <2>1, EndsElsewhere, ClosesKeepEnds, LiquidationKeepsEnds
<1> QED BY <1>1, <1>2, LifecycleTypeCorrect, PTL DEF Spec

\* What there is to know of the ends under a nullifier.
LEMMA EndsAre ==
    ASSUME NEW n \in PositionNullifiers, NEW e
    PROVE  e \in Ends(n) <=>
             \/ \E c \in CloseIds :
                   /\ Closed(c) /\ closes[c].statement.nullifier = n
                   /\ e = [how |-> "closed", by |-> c, position |-> closes[c].statement.position]
             \/ /\ Liquidated(n)
                /\ e = [how |-> "liquidated", by |-> n,
                        position |-> liquidated[n].statement.position]
BY DEF Ends

\* A nullifier ends one position once, whichever contract is asked: its end is
\* recorded by one of them alone, and is what position-state has spent.
THEOREM NullifiersEndOnce == Spec => []OneEndPerNullifier
<1>1. ASSUME LifecycleTypeOK, EndInv PROVE OneEndPerNullifier
  <2> SUFFICES ASSUME NEW n \in PositionNullifiers
               PROVE  /\ \A e, f \in Ends(n) : e = f
                      /\ \A p \in Positions :
                            positionSpent[n] = p <=> \E e \in Ends(n) : e.position = p
    BY DEF OneEndPerNullifier
  <2>1. \A e, f \in Ends(n) : e = f
    BY <1>1, EndsAre DEF EndInv
  <2>2. ASSUME NEW e \in Ends(n) PROVE e.position = positionSpent[n]
    <3>1. ASSUME NEW c \in CloseIds, Closed(c), closes[c].statement.nullifier = n,
                 e = [how |-> "closed", by |-> c, position |-> closes[c].statement.position]
          PROVE  e.position = positionSpent[n]
      BY <1>1, <3>1 DEF EndInv
    <3>2. ASSUME Liquidated(n),
                 e = [how |-> "liquidated", by |-> n,
                      position |-> liquidated[n].statement.position]
          PROVE  e.position = positionSpent[n]
      BY <1>1, <3>2 DEF EndInv
    <3> QED BY <3>1, <3>2, EndsAre
  <2>3. ASSUME positionSpent[n] # NoPosition PROVE \E e : e \in Ends(n)
    <3>1. ASSUME NEW c \in CloseIds, Closed(c), closes[c].statement.nullifier = n
          PROVE  \E e : e \in Ends(n)
      <4>1. [how |-> "closed", by |-> c, position |-> closes[c].statement.position] \in Ends(n)
        BY <3>1, EndsAre
      <4> QED BY <4>1
    <3>2. ASSUME Liquidated(n) PROVE \E e : e \in Ends(n)
      <4>1. [how |-> "liquidated", by |-> n, position |-> liquidated[n].statement.position]
              \in Ends(n)
        BY <3>2, EndsAre
      <4> QED BY <4>1
    <3> QED BY <1>1, <2>3, <3>1, <3>2 DEF EndInv, PositionIsSpent
  <2> QED BY <2>1, <2>2, <2>3, PositionStateAssumption
<1> QED BY <1>1, LifecycleTypeCorrect, EndInvariant, PTL

-----------------------------------------------------------------------------
(* Successors in place.                                                    *)

\* q begins with r.
Begins(r, q) == Len(r) <= Len(q) /\ \A i \in 1..Len(r) : r[i] = q[i]

\* The leaves grow with every leg, at their end.
LEMMA LegsGrow ==
    ASSUME leaves \in Seq(Positions), NEW ss \in Seq(Provable[CloseCircuit]),
           NEW k \in 0..Len(ss), NEW j \in 0..k
    PROVE  /\ Begins(leaves, LeavesAfter(ss, k))
           /\ Begins(LeavesAfter(ss, j), LeavesAfter(ss, k))
<1>1. j \in 0..Len(ss) /\ j \in Nat /\ k \in Nat /\ Len(leaves) \in Nat
  OBVIOUS
<1>2. /\ Len(LeavesAfter(ss, k)) = Len(leaves) + k
      /\ \A i \in 1..Len(leaves) : LeavesAfter(ss, k)[i] = leaves[i]
      /\ \A l \in 1..k : LeavesAfter(ss, k)[Len(leaves) + l] = ss[l].new
  BY LeavesAfterSome
<1>3. /\ Len(LeavesAfter(ss, j)) = Len(leaves) + j
      /\ \A i \in 1..Len(leaves) : LeavesAfter(ss, j)[i] = leaves[i]
      /\ \A l \in 1..j : LeavesAfter(ss, j)[Len(leaves) + l] = ss[l].new
  BY <1>1, LeavesAfterSome
<1>4. Begins(leaves, LeavesAfter(ss, k))
  BY <1>1, <1>2 DEF Begins
<1>5. ASSUME NEW i \in 1..Len(LeavesAfter(ss, j))
      PROVE  LeavesAfter(ss, j)[i] = LeavesAfter(ss, k)[i]
  <2>1. CASE i \in 1..Len(leaves)
    BY <1>2, <1>3, <2>1
  <2>2. CASE i \notin 1..Len(leaves)
    <3> DEFINE l == i - Len(leaves)
    <3>1. l \in 1..j /\ l \in 1..k /\ i = Len(leaves) + l
      BY <1>1, <1>3, <2>2
    <3> HIDE DEF l
    <3> QED BY <1>2, <1>3, <3>1
  <2> QED BY <2>1, <2>2
<1> QED BY <1>1, <1>2, <1>3, <1>4, <1>5 DEF Begins

\* Every root is a beginning of the tree, and nothing was appended to or proved
\* against a tree that is still to be migrated.
TreeInv ==
    /\ \A r \in roots : Begins(r, leaves)
    /\ ~treeIsPoseidon2 => leaves = <<>> /\ \A c \in CloseIds : ~Closed(c)

\* What the tree does in a step: it grows at its end, and every new root is a
\* beginning of the new tree.
TreeGrows ==
    /\ Begins(leaves, leaves')
    /\ \A r \in roots' \ roots : Begins(r, leaves')
    /\ treeIsPoseidon2 => treeIsPoseidon2'

\* Beginnings of a beginning are beginnings.
LEMMA BeginsTransitive ==
    ASSUME NEW S, NEW p \in Seq(S), NEW q \in Seq(S), NEW r \in Seq(S), Begins(p, q), Begins(q, r)
    PROVE  Begins(p, r)
BY DEF Begins

\* What a beginning tells of the whole.
LEMMA BeginsTells ==
    ASSUME NEW S, NEW p \in Seq(S), NEW q \in Seq(S), Begins(p, q), NEW i \in DOMAIN p
    PROVE  i \in DOMAIN q /\ q[i] = p[i]
BY DEF Begins

\* Closes let the tree grow.
LEMMA ClosesGrowTree ==
    ASSUME LifecycleTypeOK, NEW m \in Markets, NEW conditional \in BOOLEAN,
           NEW ss \in Seq(Provable[CloseCircuit]), SettleCloses(m, ss, conditional)
    PROVE  TreeGrows
<1>1. /\ leaves' = LeavesAfter(ss, Len(ss))
      /\ roots' = roots \cup {LeavesAfter(ss, k) : k \in DOMAIN ss}
      /\ treeIsPoseidon2' = treeIsPoseidon2
  BY DEF SettleCloses
<1>2. Len(ss) \in 0..Len(ss) /\ DOMAIN ss \subseteq 0..Len(ss) /\ leaves \in Seq(Positions)
  BY DEF LifecycleTypeOK, PositionTypeOK
<1>3. Begins(leaves, leaves')
  BY <1>1, <1>2, LegsGrow
<1>4. ASSUME NEW k \in DOMAIN ss PROVE Begins(LeavesAfter(ss, k), leaves')
  BY <1>1, <1>2, LegsGrow
<1> QED BY <1>1, <1>3, <1>4 DEF TreeGrows

\* Every step lets the tree grow.
LEMMA StepsGrowTree ==
    ASSUME LifecycleTypeOK, TreeInv, [Next]_vars
    PROVE  TreeGrows
<1>1. leaves \in Seq(Positions) /\ Begins(leaves, leaves)
  BY DEF LifecycleTypeOK, PositionTypeOK, Begins
<1>2. ASSUME UNCHANGED <<leaves, roots, treeIsPoseidon2>> PROVE TreeGrows
  BY <1>1, <1>2 DEF TreeGrows
<1>3. ASSUME PositionNext PROVE TreeGrows
  <2>1. CASE UNCHANGED <<leaves, roots, treeIsPoseidon2>>
    BY <1>2, <2>1
  <2>2. CASE ResetForPoseidon2
    <3>1. Begins(<<>>, <<>>)
      BY DEF Begins
    <3> QED BY <2>2, <3>1 DEF ResetForPoseidon2, TreeInv, TreeGrows
  <2> QED BY <1>3, <2>1, <2>2 DEF PositionNext, SetPositionWriter
<1>4. ASSUME NEW ps \in Openings, OpenPositions(ps) PROVE TreeGrows
  <2>1. leaves' = leaves \o ps /\ roots' = roots \cup {leaves'} /\ UNCHANGED treeIsPoseidon2
    BY <1>4 DEF OpenPositions, AppendMany
  <2>2. ps \in Seq(Positions)
    BY LifecycleAssumption
  <2>3. /\ leaves \o ps \in Seq(Positions) /\ Len(leaves \o ps) = Len(leaves) + Len(ps)
        /\ \A i \in 1..Len(leaves) : (leaves \o ps)[i] = leaves[i]
    BY <1>1, <2>2, ConcatParts
  <2>4. Begins(leaves, leaves') /\ Begins(leaves', leaves')
    BY <1>1, <2>1, <2>2, <2>3 DEF Begins
  <2> QED BY <2>1, <2>4 DEF TreeGrows
<1>5. ASSUME NEW m \in Markets, NEW s \in Provable[LiquidationCircuit], Liquidate(m, s)
      PROVE  TreeGrows
  BY <1>2, <1>5 DEF Liquidate
<1> QED BY <1>2, <1>3, <1>4, <1>5, ClosesGrowTree, LifecycleSteps
        DEF positionVars, vars, Register, Trigger

\* Closes and liquidations need a migrated tree.
LEMMA TreeInvariant == Spec => []TreeInv
<1>1. Init => TreeInv
  BY DEF Init, PositionInit, TreeInv, Begins, Closed
<1>2. LifecycleTypeOK /\ TreeInv /\ [Next]_vars => TreeInv'
  <2> SUFFICES ASSUME LifecycleTypeOK, TreeInv, [Next]_vars PROVE TreeInv'
    OBVIOUS
  <2>1. TreeGrows /\ LifecycleTypeOK'
    BY StepsGrowTree, LifecycleNextTyped
  <2>2. ASSUME NEW r \in roots' PROVE Begins(r, leaves')
    <3>1. CASE r \in roots
      <4>1. /\ r \in Seq(Positions) /\ leaves \in Seq(Positions) /\ leaves' \in Seq(Positions)
            /\ Begins(r, leaves) /\ Begins(leaves, leaves')
        BY <2>1, <3>1 DEF LifecycleTypeOK, PositionTypeOK, TreeInv, TreeGrows
      <4> QED BY <4>1, BeginsTransitive
    <3> QED BY <2>1, <2>2, <3>1 DEF TreeGrows
  <2>3. ~treeIsPoseidon2' => leaves' = <<>> /\ \A c \in CloseIds : closes'[c] = NoRecord
    <3> SUFFICES ASSUME ~treeIsPoseidon2'
                 PROVE  leaves' = <<>> /\ \A c \in CloseIds : closes'[c] = NoRecord
      OBVIOUS
    <3>1. ~treeIsPoseidon2 /\ leaves = <<>> /\ \A c \in CloseIds : closes[c] = NoRecord
      BY <2>1 DEF TreeGrows, TreeInv, Closed
    <3>2. PositionNext => leaves' = leaves
      BY <3>1 DEF PositionNext, SetPositionWriter, ResetForPoseidon2
    <3>3. UNCHANGED <<leaves, closes>>
      BY <3>1, <3>2, LifecycleSteps
         DEF positionVars, endVars, vars, Register, Trigger, SettleCloses, Liquidate, OpenPositions,
             AppendMany
    <3> QED BY <3>1, <3>3
  <2> QED BY <2>2, <2>3 DEF TreeInv, Closed
<1> QED BY <1>1, <1>2, LifecycleTypeCorrect, PTL DEF Spec

\* What SuccessorsInPlace says of one record, whatever tree it is about.
InPlace(r, tree) ==
    /\ r.index + 1 \in 1..Len(tree)
    /\ tree[r.index + 1] = r.statement.new
    /\ \E k \in 1..r.index : tree[k] = r.statement.position

\* A record that is in place stays so when the tree grows.
LEMMA InPlaceKept ==
    ASSUME NEW q \in Seq(Positions), NEW t \in Seq(Positions), Begins(q, t), NEW r, r.index \in Nat,
           InPlace(r, q)
    PROVE  InPlace(r, t)
<1>1. PICK k \in 1..r.index : q[k] = r.statement.position
  BY DEF InPlace
<1>2. k \in 1..Len(q) /\ r.index + 1 \in 1..Len(q) /\ Len(q) <= Len(t) /\ Len(t) \in Nat
  BY <1>1 DEF InPlace, Begins
<1>3. t[k] = q[k] /\ t[r.index + 1] = q[r.index + 1]
  BY <1>2 DEF Begins
<1> QED BY <1>1, <1>2, <1>3 DEF InPlace

\* Each leg of a transaction records an index that is in place: its position is
\* a leaf of before the transaction, or an earlier leg's.
LEMMA LegsInPlace ==
    ASSUME LifecycleTypeOK, TreeInv, NEW m \in Markets, NEW conditional \in BOOLEAN,
           NEW ss \in Seq(Provable[CloseCircuit]), SettleCloses(m, ss, conditional),
           NEW k \in DOMAIN ss
    PROVE  InPlace(closes'[ss[k].close], leaves')
<1> DEFINE s == ss[k]
           r == closes'[s.close]
<1>1. r = [market |-> m, statement |-> s, index |-> Len(leaves) + k - 1,
           conditional |-> conditional /\ k = 1]
  BY CloseEffects DEF EachLegItsOwn
<1>2. r.index = Len(leaves) + k - 1 /\ r.statement = s
  BY <1>1
<1>3. leaves \in Seq(Positions) /\ Len(leaves) \in Nat /\ k \in 1..Len(ss) /\ Len(ss) \in Nat
      /\ leaves' = LeavesAfter(ss, Len(ss)) /\ Len(ss) \in 0..Len(ss)
  BY DEF LifecycleTypeOK, PositionTypeOK, SettleCloses
<1>4. /\ Len(leaves') = Len(leaves) + Len(ss)
      /\ leaves'[Len(leaves) + k] = s.new
  BY <1>3, LeavesAfterSome
<1>5. PICK i \in 1..Len(s.root) : s.root[i] = s.position
  <2>1. s \in Provable[CloseCircuit]
    OBVIOUS
  <2>2. Membership(s)
    BY <2>1, LifecycleAssumption
  <2> HIDE DEF s
  <2>3. s.root \in Seq(Positions) /\ \E i \in DOMAIN s.root : s.root[i] = s.position
    BY <2>2 DEF Membership
  <2> QED BY <2>3
<1>6. \/ s.root \in roots
      \/ \E j \in 1..(k - 1) : s.root = LeavesAfter(ss, j)
  BY DEF SettleCloses
<1>7. ASSUME s.root \in roots
      PROVE  i \in 1..(Len(leaves) + k - 1) /\ leaves'[i] = s.position
  <2>1. Begins(s.root, leaves) /\ Begins(leaves, leaves') /\ s.root \in Seq(Positions)
    BY <1>3, <1>7, LegsGrow DEF TreeInv, LifecycleTypeOK, PositionTypeOK
  <2> QED BY <1>3, <1>5, <2>1 DEF Begins
<1>8. ASSUME NEW j \in 1..(k - 1), s.root = LeavesAfter(ss, j)
      PROVE  i \in 1..(Len(leaves) + k - 1) /\ leaves'[i] = s.position
  <2>1. j \in 0..Len(ss) /\ j \in Nat
    BY <1>3
  <2>2. Len(s.root) = Len(leaves) + j
    BY <1>3, <1>8, <2>1, LeavesAfterSome
  <2>3. Begins(s.root, leaves')
    BY <1>3, <1>8, <2>1, LegsGrow
  <2> QED BY <1>3, <1>5, <2>1, <2>2, <2>3 DEF Begins
<1>9. \E l \in 1..(Len(leaves) + k - 1) : leaves'[l] = s.position
  BY <1>6, <1>7, <1>8
<1>10. (Len(leaves) + k - 1) + 1 = Len(leaves) + k /\ Len(leaves) + k \in 1..Len(leaves')
  BY <1>3, <1>4
<1> HIDE DEF r, s
<1>11. InPlace(r, leaves')
  BY <1>2, <1>4, <1>9, <1>10 DEF InPlace
<1> QED BY <1>11 DEF r, s

\* What SuccessorsInPlace says, with the tree's sequence for its domain.
PlaceInv ==
    /\ \A c \in CloseIds : Closed(c) => InPlace(closes[c], leaves)
    /\ \A c, d \in CloseIds :
          Closed(c) /\ Closed(d) /\ closes[c].index = closes[d].index => c = d

\* A successor stays where its record says: the tree only grows at its end, and
\* each leg of each transaction takes the next leaf.
THEOREM SuccessorsStayInPlace == Spec => []SuccessorsInPlace
<1>1. Init => PlaceInv
  BY DEF Init, PlaceInv, Closed
<1>2. LifecycleTypeOK /\ TreeInv /\ PlaceInv /\ [Next]_vars => PlaceInv'
  <2> SUFFICES ASSUME LifecycleTypeOK, TreeInv, PlaceInv, [Next]_vars PROVE PlaceInv'
    OBVIOUS
  <2>1. TreeGrows /\ LifecycleTypeOK'
    BY StepsGrowTree, LifecycleNextTyped
  <2>2. leaves \in Seq(Positions) /\ leaves' \in Seq(Positions) /\ Begins(leaves, leaves')
    BY <2>1 DEF TreeGrows, LifecycleTypeOK, PositionTypeOK
  <2>3. \A c \in CloseIds : closes[c] # NoRecord => closes[c].index \in Nat
    BY RecordsTyped DEF Closed, CloseRecord
  <2>4. ASSUME NEW c \in CloseIds, closes[c] # NoRecord
        PROVE  InPlace(closes[c], leaves')
    BY <2>2, <2>3, <2>4, InPlaceKept DEF PlaceInv, Closed
  <2>5. ASSUME UNCHANGED closes PROVE PlaceInv'
    BY <2>4, <2>5 DEF PlaceInv, Closed
  <2>6. ASSUME NEW m \in Markets, NEW conditional \in BOOLEAN,
               NEW ss \in Seq(Provable[CloseCircuit]), SettleCloses(m, ss, conditional)
        PROVE  PlaceInv'
    <3>1. EachLegItsOwn(m, ss, conditional)
      BY <2>6, CloseEffects
    <3>2. ASSUME NEW c \in CloseIds, closes'[c] # NoRecord
          PROVE  \/ \E k \in DOMAIN ss : c = ss[k].close /\ closes'[c].index = Len(leaves) + k - 1
                 \/ closes[c] # NoRecord /\ closes'[c] = closes[c]
      <4>1. ASSUME NEW k \in DOMAIN ss, c = ss[k].close
            PROVE  closes'[c].index = Len(leaves) + k - 1
        <5>1. closes'[c] = [market |-> m, statement |-> ss[k], index |-> Len(leaves) + k - 1,
                            conditional |-> conditional /\ k = 1]
          BY <3>1, <4>1 DEF EachLegItsOwn
        <5> QED BY <5>1
      <4>2. CASE \A k \in DOMAIN ss : ss[k].close # c
        BY <3>1, <3>2, <4>2 DEF EachLegItsOwn
      <4> QED BY <4>1, <4>2
    <3>3. \A k \in DOMAIN ss : InPlace(closes'[ss[k].close], leaves')
      BY <2>6, LegsInPlace
    <3>4. \A c \in CloseIds : closes'[c] # NoRecord => InPlace(closes'[c], leaves')
      BY <2>4, <3>2, <3>3
    <3>5. \A c \in CloseIds : closes[c] # NoRecord => closes[c].index < Len(leaves)
      BY <2>2, <2>3 DEF PlaceInv, Closed, InPlace
    <3>6. Len(leaves) \in Nat /\ DOMAIN ss \subseteq Nat \ {0}
      BY <2>2
    <3>7. ASSUME NEW c \in CloseIds, NEW d \in CloseIds, closes'[c] # NoRecord,
                 closes'[d] # NoRecord, closes'[c].index = closes'[d].index
          PROVE  c = d
      <4>1. ASSUME NEW j \in DOMAIN ss, NEW k \in DOMAIN ss, c = ss[j].close, d = ss[k].close,
                   closes'[c].index = Len(leaves) + j - 1, closes'[d].index = Len(leaves) + k - 1
            PROVE  c = d
        BY <3>6, <3>7, <4>1
      <4>2. ASSUME NEW j \in DOMAIN ss, NEW x \in CloseIds, closes[x] # NoRecord
            PROVE  closes[x].index # Len(leaves) + j - 1
        BY <2>3, <3>5, <3>6, <4>2
      <4>3. ASSUME closes[c] # NoRecord, closes'[c] = closes[c],
                   closes[d] # NoRecord, closes'[d] = closes[d]
            PROVE  c = d
        BY <3>7, <4>3 DEF PlaceInv, Closed
      <4> QED BY <3>2, <3>7, <4>1, <4>2, <4>3
    <3> QED BY <3>4, <3>7 DEF PlaceInv, Closed
  <2>7. \/ UNCHANGED closes
        \/ \E m \in Markets, conditional \in BOOLEAN, ss \in Seq(Provable[CloseCircuit]) :
              SettleCloses(m, ss, conditional)
    BY LifecycleSteps DEF endVars, vars, Register, Trigger, Liquidate, OpenPositions
  <2> QED BY <2>5, <2>6, <2>7
<1>3. LifecycleTypeOK /\ PlaceInv => SuccessorsInPlace
  BY DEF LifecycleTypeOK, PositionTypeOK, PlaceInv, InPlace, SuccessorsInPlace
<1> QED BY <1>1, <1>2, <1>3, LifecycleTypeCorrect, TreeInvariant, PTL DEF Spec

\* A nullifier has one end and one record of it, and the successor of what it
\* ended is the leaf that record names.
THEOREM EndsStayInPlace == Spec => []EndsInPlace
<1>1. OneEndPerNullifier /\ SuccessorsInPlace => EndsInPlace
  BY DEF EndsInPlace
<1> QED BY <1>1, NullifiersEndOnce, SuccessorsStayInPlace, PTL

-----------------------------------------------------------------------------
(* Conditional closes.                                                     *)

\* A triggered order was registered as it was triggered, and a conditional
\* close was triggered as it closed.
OrderInv ==
    /\ \A c \in CloseIds :
          triggers[c] # NoRecord =>
            orders[c] = [market |-> triggers[c].market, nullifier |-> triggers[c].nullifier]
    /\ ConditionalClosesAsOrdered

\* Orders and triggers are written once, so that a conditional close is and
\* stays one of the position and market that were registered.
THEOREM OrdersBindCloses == Spec => []ConditionalClosesAsOrdered
<1>1. Init => OrderInv
  BY DEF Init, OrderInv, ConditionalClosesAsOrdered, Closed
<1>2. LifecycleTypeOK /\ OrderInv /\ [Next]_vars => OrderInv'
  <2> SUFFICES ASSUME LifecycleTypeOK, OrderInv, [Next]_vars PROVE OrderInv'
    OBVIOUS
  <2>1. ASSUME UNCHANGED <<closes, orders, triggers>> PROVE OrderInv'
    BY <2>1 DEF OrderInv, ConditionalClosesAsOrdered, Closed
  <2>2. ASSUME NEW r \in Registrations, Register(r.market, r.nullifier, r.close) PROVE OrderInv'
    <3>1. UNCHANGED <<closes, triggers>> /\ orders[r.close] = NoRecord
      BY <2>2 DEF Register
    <3>2. ASSUME NEW c \in CloseIds, orders[c] # NoRecord PROVE orders'[c] = orders[c]
      BY <2>2, <3>1, <3>2 DEF Register, LifecycleTypeOK, EndTypeOK
    <3>3. \A c \in CloseIds : triggers[c] # NoRecord => orders[c] # NoRecord
      <4> SUFFICES ASSUME NEW c \in CloseIds, triggers[c] # NoRecord PROVE orders[c] # NoRecord
        OBVIOUS
      <4>1. triggers[c] \in TriggerRecord
        BY DEF LifecycleTypeOK, EndTypeOK
      <4>2. [market |-> triggers[c].market, nullifier |-> triggers[c].nullifier] \in OrderRecord
        BY <4>1 DEF TriggerRecord, OrderRecord
      <4> QED BY <4>2, LifecycleAssumption DEF OrderInv
    <3> QED BY <3>1, <3>2, <3>3 DEF OrderInv, ConditionalClosesAsOrdered, Closed
  <2>3. ASSUME NEW m \in Markets, NEW s \in Provable[TriggerCircuit], Trigger(m, s) PROVE OrderInv'
    <3>1. UNCHANGED <<closes, orders>> /\ triggers[s.close] = NoRecord /\ s.close \in CloseIds
      BY <2>3, LifecycleAssumption DEF Trigger
    <3>2. ASSUME NEW c \in CloseIds, triggers[c] # NoRecord PROVE triggers'[c] = triggers[c]
      BY <2>3, <3>1, <3>2 DEF Trigger, LifecycleTypeOK, EndTypeOK
    <3>3. ASSUME NEW c \in CloseIds, triggers'[c] # NoRecord
          PROVE  orders'[c] = [market |-> triggers'[c].market, nullifier |-> triggers'[c].nullifier]
      <4>1. CASE c = s.close
        <5>1. triggers'[c] = [market |-> m, nullifier |-> s.nullifier, mark |-> s.mark]
          BY <2>3, <3>1, <4>1 DEF Trigger, LifecycleTypeOK, EndTypeOK
        <5>2. triggers'[c].market = m /\ triggers'[c].nullifier = s.nullifier
          BY <5>1
        <5>3. orders[c] = [market |-> m, nullifier |-> s.nullifier]
          BY <2>3, <4>1 DEF Trigger
        <5> QED BY <3>1, <5>2, <5>3
      <4>2. CASE c # s.close
        <5>1. triggers'[c] = triggers[c]
          BY <2>3, <4>2 DEF Trigger, LifecycleTypeOK, EndTypeOK
        <5> QED BY <3>1, <3>3, <5>1 DEF OrderInv
      <4> QED BY <4>1, <4>2
    <3>4. ConditionalClosesAsOrdered'
      <4>1. \A c \in CloseIds : Closed(c)' => Closed(c)
        BY <3>1 DEF Closed
      <4>2. ASSUME NEW c \in CloseIds, Closed(c), closes[c].conditional
            PROVE  triggers[c] # NoRecord /\ triggers'[c] = triggers[c]
        BY <3>2, <4>2 DEF OrderInv, ConditionalClosesAsOrdered
      <4> QED BY <3>1, <4>1, <4>2 DEF OrderInv, ConditionalClosesAsOrdered
    <3> QED BY <3>3, <3>4 DEF OrderInv
  <2>4. ASSUME NEW m \in Markets, NEW conditional \in BOOLEAN,
               NEW ss \in Seq(Provable[CloseCircuit]), SettleCloses(m, ss, conditional)
        PROVE  OrderInv'
    <3>1. UNCHANGED <<orders, triggers>> /\ EachLegItsOwn(m, ss, conditional)
      BY <2>4, CloseEffects DEF SettleCloses
    <3>2. ASSUME NEW k \in DOMAIN ss, NEW c \in CloseIds, c = ss[k].close, closes'[c].conditional
          PROVE  /\ triggers[c] # NoRecord
                 /\ triggers[c].market = closes'[c].market
                 /\ triggers[c].nullifier = closes'[c].statement.nullifier
      <4>1. closes'[c] = [market |-> m, statement |-> ss[k], index |-> Len(leaves) + k - 1,
                          conditional |-> conditional /\ k = 1]
        BY <3>1, <3>2 DEF EachLegItsOwn
      <4>2. closes'[c].market = m /\ closes'[c].statement = ss[k]
        BY <4>1
      <4>3. closes'[c].conditional = (conditional /\ k = 1)
        BY <4>1
      <4>4. conditional /\ k = 1
        BY <3>2, <4>3
      <4>5. IsTriggeredFor(m, ss[k].nullifier, ss[k].close)
        BY <2>4, <4>4 DEF SettleCloses, CloseAllowed
      <4> QED BY <3>2, <4>2, <4>5 DEF IsTriggeredFor
    <3>3. ASSUME NEW c \in CloseIds, closes'[c] # NoRecord, closes'[c].conditional
          PROVE  LET registered == [market |-> closes'[c].market,
                               nullifier |-> closes'[c].statement.nullifier]
                 IN  /\ orders[c] = registered
                     /\ triggers[c] # NoRecord
                     /\ [market |-> triggers[c].market, nullifier |-> triggers[c].nullifier] = registered
      <4>1. ASSUME NEW k \in DOMAIN ss, c = ss[k].close
            PROVE  /\ triggers[c] # NoRecord
                   /\ triggers[c].market = closes'[c].market
                   /\ triggers[c].nullifier = closes'[c].statement.nullifier
        BY <3>2, <3>3, <4>1
      <4>2. CASE \A k \in DOMAIN ss : ss[k].close # c
        <5>1. closes'[c] = closes[c]
          BY <3>1, <4>2 DEF EachLegItsOwn
        <5> QED BY <3>3, <5>1 DEF OrderInv, ConditionalClosesAsOrdered, Closed
      <4> QED BY <4>1, <4>2 DEF OrderInv
    <3> QED BY <3>1, <3>3 DEF OrderInv, ConditionalClosesAsOrdered, Closed
  <2>5. \/ UNCHANGED <<closes, orders, triggers>>
        \/ \E r \in Registrations : Register(r.market, r.nullifier, r.close)
        \/ \E m \in Markets, s \in Provable[TriggerCircuit] : Trigger(m, s)
        \/ \E m \in Markets, conditional \in BOOLEAN, ss \in Seq(Provable[CloseCircuit]) :
              SettleCloses(m, ss, conditional)
    BY LifecycleSteps DEF endVars, vars, Liquidate, OpenPositions
  <2> QED BY <2>1, <2>2, <2>3, <2>4, <2>5
<1>3. OrderInv => ConditionalClosesAsOrdered
  BY DEF OrderInv
<1> QED BY <1>1, <1>2, <1>3, LifecycleTypeCorrect, PTL DEF Spec

-----------------------------------------------------------------------------
(* The book of positions.                                                  *)

OpenedSoFar == {leaves[k] : k \in DOMAIN leaves}
EndedSoFar == [n \in PositionNullifiers |-> Ends(n)]

\* The book stays when what it is read from stays.
LEMMA BookKept ==
    ASSUME UNCHANGED <<closes, liquidated, leaves, paused>>
    PROVE  UNCHANGED Book!bookVars
BY DEF Book!bookVars, Ends, Closed, Liquidated

\* The positions opened are more with every step.
LEMMA StepsOpenMore ==
    ASSUME LifecycleTypeOK, LifecycleTypeOK', Begins(leaves, leaves')
    PROVE  OpenedSoFar \subseteq OpenedSoFar' /\ OpenedSoFar' \subseteq Positions
<1>1. leaves \in Seq(Positions) /\ leaves' \in Seq(Positions)
  BY DEF LifecycleTypeOK, PositionTypeOK
<1> QED BY <1>1 DEF OpenedSoFar, Begins

\* A nullifier that position-state has not spent has ended nothing.
LEMMA UnspentEndedNothing ==
    ASSUME LifecycleTypeOK, EndInv, NEW n \in PositionNullifiers, positionSpent[n] = NoPosition
    PROVE  Ends(n) = {}
<1>1. ~Liquidated(n)
  BY RecordsTyped, StatementsTyped DEF EndInv
<1>2. \A c \in CloseIds : Closed(c) => closes[c].statement.nullifier # n
  BY RecordsTyped, StatementsTyped DEF EndInv
<1> QED BY <1>1, <1>2, EndsAre

\* What is under one of the roots was opened.
LEMMA RootsAreOfOpened ==
    ASSUME LifecycleTypeOK, TreeInv, NEW r \in roots, NEW k \in DOMAIN r
    PROVE  r[k] \in OpenedSoFar
<1>1. r \in Seq(Positions) /\ leaves \in Seq(Positions) /\ Begins(r, leaves)
  BY DEF LifecycleTypeOK, PositionTypeOK, TreeInv
<1> QED BY <1>1 DEF OpenedSoFar, Begins

\* One or two positions are closed in a transaction.
LEMMA ClosesAreOfOneOrTwo ==
    ASSUME CloseNext
    PROVE  \E m \in Markets, conditional \in BOOLEAN, ss \in Seq(Provable[CloseCircuit]) :
              Len(ss) \in 1..2 /\ SettleCloses(m, ss, conditional)
<1>1. ASSUME NEW m \in Markets, NEW conditional \in BOOLEAN, NEW s \in Provable[CloseCircuit],
             SettleClose(m, s, conditional)
      PROVE  \E ss \in Seq(Provable[CloseCircuit]) :
                Len(ss) \in 1..2 /\ SettleCloses(m, ss, conditional)
  <2>1. <<s>> \in Seq(Provable[CloseCircuit])
    BY OneOrTwo
  <2>2. Len(<<s>>) \in 1..2
    OBVIOUS
  <2> QED BY <1>1, <2>1, <2>2 DEF SettleClose
<1>2. ASSUME NEW m \in Markets, NEW conditional \in BOOLEAN, NEW s \in Provable[CloseCircuit],
             NEW maker \in Provable[CloseCircuit], SettlePair(m, s, maker, conditional)
      PROVE  \E ss \in Seq(Provable[CloseCircuit]) :
                Len(ss) \in 1..2 /\ SettleCloses(m, ss, conditional)
  <2>1. <<s, maker>> \in Seq(Provable[CloseCircuit])
    BY OneOrTwo
  <2>2. Len(<<s, maker>>) \in 1..2
    OBVIOUS
  <2> QED BY <1>2, <2>1, <2>2 DEF SettlePair
<1> QED BY <1>1, <1>2 DEF CloseNext

\* What a leg closes was opened before it: by the transaction's own first leg,
\* if it is the second.
LEMMA LegsCloseOpened ==
    ASSUME LifecycleTypeOK, LifecycleTypeOK', TreeInv, NEW m \in Markets, NEW conditional \in BOOLEAN,
           NEW ss \in Seq(Provable[CloseCircuit]), SettleCloses(m, ss, conditional),
           NEW k \in DOMAIN ss
    PROVE  /\ k = 1 => ss[k].position \in OpenedSoFar
           /\ ss[k].position \in OpenedSoFar'
<1>1. PICK i \in DOMAIN ss[k].root : ss[k].root[i] = ss[k].position
  BY LifecycleAssumption DEF Membership
<1>2. ss[k].root \in Seq(Positions) /\ leaves \in Seq(Positions) /\ leaves' \in Seq(Positions)
  BY LifecycleAssumption DEF Membership, LifecycleTypeOK, PositionTypeOK
<1>3. \/ ss[k].root \in roots
      \/ \E j \in 1..(k - 1) : ss[k].root = LeavesAfter(ss, j)
  BY DEF SettleCloses
<1>4. leaves' = LeavesAfter(ss, Len(ss)) /\ Len(ss) \in 0..Len(ss) /\ Begins(leaves, leaves')
  <2>1. Begins(leaves, leaves')
    BY ClosesGrowTree DEF TreeGrows
  <2> QED BY <2>1 DEF SettleCloses
<1>5. CASE ss[k].root \in roots
  <2>1. ss[k].position \in OpenedSoFar
    BY <1>1, <1>5, RootsAreOfOpened
  <2> QED BY <1>4, <2>1, StepsOpenMore
<1>6. ASSUME NEW j \in 1..(k - 1), ss[k].root = LeavesAfter(ss, j)
      PROVE  k # 1 /\ ss[k].position \in OpenedSoFar'
  <2>1. j \in 0..Len(ss) /\ Len(ss) \in Nat /\ k # 1
    OBVIOUS
  <2>2. Begins(ss[k].root, leaves')
    BY <1>2, <1>4, <1>6, <2>1, LegsGrow
  <2>3. i \in DOMAIN leaves' /\ leaves'[i] = ss[k].position
    BY <1>1, <1>2, <2>2, BeginsTells
  <2> QED BY <2>1, <2>3 DEF OpenedSoFar
<1> QED BY <1>3, <1>5, <1>6

\* A leg leaves its nullifier with one end, the close of its position.
LEMMA LegsEndOne ==
    ASSUME LifecycleTypeOK, EndInv, EndInv', LifecycleTypeOK',
           NEW m \in Markets, NEW conditional \in BOOLEAN,
           NEW ss \in Seq(Provable[CloseCircuit]), SettleCloses(m, ss, conditional),
           NEW k \in DOMAIN ss, NEW positions, ss[k].position \in positions
    PROVE  Book!EndsOne(ss[k].nullifier, "closed", positions)
<1> DEFINE n == ss[k].nullifier
           c == ss[k].close
           e == [how |-> "closed", by |-> c, position |-> ss[k].position]
<1>1. n \in PositionNullifiers /\ c \in CloseIds
  BY StatementsTyped
<1>2. Ends(n) = {}
  BY <1>1, LegUnspent, UnspentEndedNothing
<1>3. closes'[c] # NoRecord /\ closes'[c].statement = ss[k] /\ liquidated' = liquidated
  <2>1. closes'[c] # NoRecord /\ closes'[c].statement = ss[k]
    <3> HIDE DEF n
    <3> QED BY LegRecorded
  <2>2. liquidated' = liquidated
    BY DEF SettleCloses
  <2> QED BY <2>1, <2>2
<1>4. ~Liquidated(n)
  BY <1>1, <1>2, EndsAre
<1>5. \A d \in CloseIds : closes'[d] # NoRecord /\ closes'[d].statement.nullifier = n => d = c
  BY <1>1, <1>3 DEF EndInv, Closed
<1>6. Ends(n)' = {e}
  <2>1. Ends(n)' = {[how |-> "closed", by |-> d, position |-> closes'[d].statement.position] :
                      d \in {d \in CloseIds : closes'[d] # NoRecord
                                              /\ closes'[d].statement.nullifier = n}}
                   \cup {[how |-> "liquidated", by |-> l,
                          position |-> liquidated'[l].statement.position] :
                            l \in {l \in {n} : liquidated'[l] # NoRecord}}
    BY DEF Ends, Closed, Liquidated
  <2>2. {l \in {n} : liquidated'[l] # NoRecord} = {}
    BY <1>3, <1>4 DEF Liquidated
  <2>3. {d \in CloseIds : closes'[d] # NoRecord /\ closes'[d].statement.nullifier = n} = {c}
    BY <1>1, <1>3, <1>5
  <2>4. closes'[c].statement.position = ss[k].position
    BY <1>3
  <2> HIDE DEF n, c
  <2> QED BY <2>1, <2>2, <2>3, <2>4
<1> HIDE DEF n, c
<1>7. EndedSoFar[n] = {} /\ EndedSoFar'[n] = {e}
  BY <1>1, <1>2, <1>6 DEF EndedSoFar
<1>8. e.how = "closed" /\ e.position \in positions
  OBVIOUS
<1> HIDE DEF e
<1>9. Book!EndsOne(n, "closed", positions)
  BY <1>7, <1>8 DEF Book!EndsOne, EndedSoFar
<1> QED BY <1>9 DEF n

\* Closes leave the ends of other nullifiers.
LEMMA ClosesLeaveOthers ==
    ASSUME LifecycleTypeOK, NEW m \in Markets, NEW conditional \in BOOLEAN,
           NEW ss \in Seq(Provable[CloseCircuit]), SettleCloses(m, ss, conditional),
           NEW n \in PositionNullifiers, \A k \in DOMAIN ss : ss[k].nullifier # n
    PROVE  Ends(n)' = Ends(n)
<1>1. liquidated' = liquidated
  BY DEF SettleCloses
<1>2. ASSUME NEW c \in CloseIds, NEW k \in DOMAIN ss, ss[k].close = c
      PROVE  closes[c] = NoRecord /\ closes'[c].statement.nullifier # n
  <2>1. closes[c] = NoRecord
    <3>1. EachLegItsOwn(m, ss, conditional)
      BY CloseEffects
    <3> QED BY <1>2, <3>1 DEF EachLegItsOwn
  <2>2. closes'[c].statement = ss[k]
    BY <1>2, LegRecorded
  <2> QED BY <2>1, <2>2
<1>3. ASSUME NEW c \in CloseIds, \A k \in DOMAIN ss : ss[k].close # c
      PROVE  closes'[c] = closes[c]
  BY <1>3, CloseEffects DEF EachLegItsOwn
<1>4. {c \in CloseIds : closes'[c] # NoRecord /\ closes'[c].statement.nullifier = n}
        = {c \in CloseIds : closes[c] # NoRecord /\ closes[c].statement.nullifier = n}
  BY <1>2, <1>3
<1>5. \A c \in CloseIds : closes[c] # NoRecord => closes'[c] = closes[c]
  BY <1>2, <1>3
<1> QED BY <1>1, <1>4, <1>5 DEF Ends, Closed, Liquidated

\* Closes of one or two positions are a step of the book: each ends an opened
\* position, or the one that the leg before it opened.
LEMMA ClosesAreBooked ==
    ASSUME LifecycleTypeOK, EndInv, TreeInv, NEW m \in Markets, NEW conditional \in BOOLEAN,
           NEW ss \in Seq(Provable[CloseCircuit]), Len(ss) \in 1..2,
           SettleCloses(m, ss, conditional)
    PROVE  Book!Close
<1>1. LifecycleTypeOK' /\ EndInv'
  BY SettleClosesTyped, ClosesKeepEnds
<1>2. 1 \in DOMAIN ss /\ Len(ss) \in DOMAIN ss /\ \A k \in DOMAIN ss : k \in {1, Len(ss)}
  <2>1. DOMAIN ss = 1..Len(ss)
    OBVIOUS
  <2>2. Len(ss) = 1 \/ Len(ss) = 2
    OBVIOUS
  <2> QED BY <2>1, <2>2
<1>3. ~paused /\ paused' = paused
  BY <1>2 DEF SettleCloses, CloseAllowed, ProofAccepted, gateVars
<1>4. OpenedSoFar \subseteq OpenedSoFar' /\ OpenedSoFar' \subseteq Positions
  <2>1. Begins(leaves, leaves')
    BY ClosesGrowTree DEF TreeGrows
  <2> QED BY <1>1, <2>1, StepsOpenMore
<1> DEFINE n == ss[1].nullifier
           l == ss[Len(ss)].nullifier
<1>5. n \in PositionNullifiers /\ l \in PositionNullifiers
  BY <1>2, StatementsTyped
<1>6. Book!EndsOne(n, "closed", OpenedSoFar)
  BY <1>1, <1>2, LegsCloseOpened, LegsEndOne
<1>7. Book!EndsOne(l, "closed", OpenedSoFar')
  BY <1>1, <1>2, LegsCloseOpened, LegsEndOne
<1>8. ASSUME NEW o \in PositionNullifiers \ {n, l} PROVE Ends(o)' = Ends(o)
  <2>1. \A k \in DOMAIN ss : ss[k].nullifier # o
    BY <1>2
  <2> QED BY <2>1, ClosesLeaveOthers
<1> HIDE DEF n, l
<1>9. Book!OthersStay({n, l})
  BY <1>8 DEF Book!OthersStay
<1>10. Book!OpensMore
  BY <1>4 DEF Book!OpensMore, OpenedSoFar
<1> QED BY <1>3, <1>5, <1>6, <1>7, <1>9, <1>10 DEF Book!Close, OpenedSoFar

\* A liquidation is a step of the book: it ends an opened position.
LEMMA LiquidationsAreBooked ==
    ASSUME LifecycleTypeOK, EndInv, TreeInv, NEW m \in Markets,
           NEW s \in Provable[LiquidationCircuit], Liquidate(m, s)
    PROVE  Book!Liquidate
<1> DEFINE n == s.nullifier
           e == [how |-> "liquidated", by |-> n, position |-> s.position]
           new == [market |-> m, statement |-> s]
<1>1. /\ ~paused /\ paused' = paused /\ UNCHANGED <<closes, leaves>>
      /\ s.root \in roots
      /\ positionSpent[n] = NoPosition
      /\ liquidated' = [liquidated EXCEPT ![n] = new]
  BY DEF Liquidate, ProofAccepted, SpendPosition, PositionIsSpent, gateVars
<1>2. n \in PositionNullifiers
  BY StatementsTyped
<1>3. s.position \in OpenedSoFar
  <2>1. PICK i \in DOMAIN s.root : s.root[i] = s.position
    BY LifecycleAssumption DEF Membership
  <2> QED BY <1>1, <2>1, RootsAreOfOpened
<1>4. Ends(n) = {}
  BY <1>1, <1>2, UnspentEndedNothing
<1>5. /\ liquidated'[n] = new
      /\ \A o \in PositionNullifiers : o # n => liquidated'[o] = liquidated[o]
  BY <1>1, <1>2 DEF LifecycleTypeOK, EndTypeOK
<1>6. new # NoRecord /\ new.statement = s
  BY LifecycleAssumption DEF LiquidationRecord
<1>7. Ends(n)' = {e}
  <2>1. {[how |-> "closed", by |-> c, position |-> closes[c].statement.position] :
            c \in {c \in CloseIds : Closed(c) /\ closes[c].statement.nullifier = n}} = {}
    BY <1>4 DEF Ends
  <2>2. liquidated'[n].statement = s /\ liquidated'[n] # NoRecord
    BY <1>5, <1>6
  <2>3. Ends(n)' = {[how |-> "closed", by |-> c, position |-> closes[c].statement.position] :
                      c \in {c \in CloseIds : Closed(c) /\ closes[c].statement.nullifier = n}}
                   \cup {[how |-> "liquidated", by |-> l,
                          position |-> liquidated'[l].statement.position] :
                            l \in {l \in {n} : liquidated'[l] # NoRecord}}
    BY <1>1 DEF Ends, Closed, Liquidated
  <2>4. {l \in {n} : liquidated'[l] # NoRecord} = {n}
    BY <2>2
  <2> HIDE DEF n
  <2> QED BY <2>1, <2>2, <2>3, <2>4
<1>8. ASSUME NEW o \in PositionNullifiers \ {n} PROVE Ends(o)' = Ends(o)
  BY <1>1, <1>5, <1>8 DEF Ends, Closed, Liquidated
<1> HIDE DEF n, new
<1>9. Book!EndsOne(n, "liquidated", OpenedSoFar)
  <2>1. EndedSoFar[n] = {} /\ EndedSoFar'[n] = {e}
    BY <1>2, <1>4, <1>7 DEF EndedSoFar
  <2>2. e.how = "liquidated" /\ e.position \in OpenedSoFar
    BY <1>3
  <2> HIDE DEF e
  <2> QED BY <2>1, <2>2 DEF Book!EndsOne, EndedSoFar
<1>10. Book!OthersStay({n})
  BY <1>8 DEF Book!OthersStay
<1> QED BY <1>1, <1>2, <1>9, <1>10 DEF Book!Liquidate, OpenedSoFar

\* Transactions of governance and of the verifiers: the pause switch, or nothing
\* the book shows.
LEMMA GateIsBooked ==
    ASSUME LifecycleTypeOK, GateNext, UNCHANGED <<positionVars, endVars>>
    PROVE  Book!StopOrResume \/ UNCHANGED Book!bookVars
<1>1. UNCHANGED <<closes, liquidated, leaves>>
  BY DEF positionVars, endVars
<1>2. paused \in BOOLEAN /\ paused' \in BOOLEAN
  <2>1. paused' \in BOOLEAN
    BY GateNextTyped DEF LifecycleTypeOK, GateTypeOK
  <2> QED BY <2>1 DEF LifecycleTypeOK, GateTypeOK
<1>3. UNCHANGED <<OpenedSoFar, EndedSoFar>>
  BY <1>1 DEF OpenedSoFar, EndedSoFar, Ends, Closed, Liquidated
<1>4. CASE paused' = paused
  BY <1>1, <1>4, BookKept
<1>5. CASE paused' = ~paused
  BY <1>3, <1>5 DEF Book!StopOrResume, OpenedSoFar, EndedSoFar
<1> QED BY <1>2, <1>4, <1>5

\* Every step of the contracts is a step of the book, or none.
LEMMA StepsAreBooked ==
    ASSUME LifecycleTypeOK, EndInv, TreeInv, [Next]_vars
    PROVE  [Book!Next]_(Book!bookVars)
<1>1. CASE GateNext /\ UNCHANGED <<positionVars, marketVars, endVars>>
  BY <1>1, GateIsBooked DEF Book!Next
<1>2. CASE PositionNext /\ UNCHANGED <<gateVars, marketVars, endVars>>
  <2>1. leaves' = leaves
    BY <1>2 DEF PositionNext, SetPositionWriter, ResetForPoseidon2, TreeInv
  <2> QED BY <1>2, <2>1, BookKept DEF gateVars, endVars
<1>3. CASE MarketNext /\ UNCHANGED <<gateVars, positionVars, endVars>>
  BY <1>3, BookKept DEF gateVars, positionVars, endVars
<1>4. CASE ConditionalNext
  BY <1>4, BookKept DEF ConditionalNext, Register, Trigger, gateVars, positionVars
<1>5. CASE CloseNext
  BY <1>5, ClosesAreOfOneOrTwo, ClosesAreBooked DEF Book!Next
<1>6. ASSUME NEW m \in Markets, NEW s \in Provable[LiquidationCircuit], Liquidate(m, s)
      PROVE  [Book!Next]_(Book!bookVars)
  BY <1>6, LiquidationsAreBooked DEF Book!Next
<1>7. ASSUME NEW ps \in Openings, OpenPositions(ps)
      PROVE  [Book!Next]_(Book!bookVars)
  <2>1. UNCHANGED <<closes, liquidated, paused>>
    BY <1>7 DEF OpenPositions, gateVars, endVars
  <2>2. Begins(leaves, leaves') /\ LifecycleTypeOK'
    BY StepsGrowTree, LifecycleNextTyped DEF TreeGrows
  <2>3. OpenedSoFar \subseteq OpenedSoFar' /\ OpenedSoFar' \subseteq Positions
    BY <2>2, StepsOpenMore
  <2>4. EndedSoFar' = EndedSoFar
    BY <2>1 DEF EndedSoFar, Ends, Closed, Liquidated
  <2>5. Book!Open
    BY <2>1, <2>3, <2>4 DEF Book!Open, Book!OpensMore, OpenedSoFar, EndedSoFar
  <2> QED BY <2>5 DEF Book!Next
<1>8. CASE UNCHANGED vars
  BY <1>8, BookKept DEF vars, gateVars, positionVars, endVars
<1> QED BY <1>1, <1>2, <1>3, <1>4, <1>5, <1>6, <1>7, <1>8 DEF Next

\* The contracts together implement the book of positions: whatever they do,
\* seen from their records, opens positions, ends one or two of the opened under
\* nullifiers that had ended nothing, or is nothing.
THEOREM BookIsKept == Spec => KeepsTheBook
<1>1. Init => Book!Init
  <2> SUFFICES ASSUME Init PROVE Book!Init
    OBVIOUS
  <2>1. leaves = <<>> /\ paused = FALSE /\ \A c \in CloseIds : ~Closed(c)
    BY DEF Init, PositionInit, GateInit, Closed
  <2>2. \A n \in PositionNullifiers : Ends(n) = {}
    BY <2>1, EndsAre DEF Init, Liquidated
  <2> QED BY <2>1, <2>2 DEF Book!Init
<1>2. LifecycleTypeOK /\ EndInv /\ TreeInv /\ [Next]_vars => [Book!Next]_(Book!bookVars)
  BY StepsAreBooked
<1> QED BY <1>1, <1>2, LifecycleTypeCorrect, EndInvariant, TreeInvariant, PTL
        DEF Spec, KeepsTheBook, Book!Spec

-----------------------------------------------------------------------------
(* The settled funding of a market is one walk to its index.               *)

\* What a step of the contracts does to the markets.
LEMMA MarketSteps ==
    ASSUME [Next]_vars
    PROVE  MarketNext \/ UNCHANGED marketVars
BY LifecycleSteps
   DEF vars, marketVars, Register, Trigger, SettleCloses, Liquidate, OpenPositions

\* The walk can be counted.
WalkInv == IsFiniteSet(fundings) /\ FundingIsOneWalk

\* One more step adds one to the count of the sets it belongs to.
LEMMA OneMoreStep ==
    ASSUME IsFiniteSet(fundings), NEW f \in FundingStep, f \notin fundings,
           fundings' = fundings \cup {f}, NEW m, NEW i
    PROVE  /\ Cardinality(StepsFrom(m, i)') =
                Cardinality(StepsFrom(m, i)) + Once(f.market = m /\ f.old = i)
           /\ Cardinality(StepsInto(m, i)') =
                Cardinality(StepsInto(m, i)) + Once(f.market = m /\ f.new = i)
           /\ Cardinality(StepsFrom(m, i)) \in Nat
           /\ Cardinality(StepsInto(m, i)) \in Nat
<1>1. IsFiniteSet(StepsFrom(m, i)) /\ IsFiniteSet(StepsInto(m, i))
  BY FS_Subset DEF StepsFrom, StepsInto
<1>2. Cardinality(StepsFrom(m, i)) \in Nat /\ Cardinality(StepsInto(m, i)) \in Nat
  BY <1>1, FS_CardinalityType
<1>3. Cardinality(StepsFrom(m, i)') = Cardinality(StepsFrom(m, i)) + Once(f.market = m /\ f.old = i)
  <2>1. CASE f.market = m /\ f.old = i
    <3>1. StepsFrom(m, i)' = StepsFrom(m, i) \cup {f} /\ f \notin StepsFrom(m, i)
      BY <2>1 DEF StepsFrom
    <3> QED BY <1>1, <2>1, <3>1, FS_AddElement DEF Once
  <2>2. CASE ~(f.market = m /\ f.old = i)
    <3>1. StepsFrom(m, i)' = StepsFrom(m, i)
      BY <2>2 DEF StepsFrom
    <3> QED BY <1>2, <2>2, <3>1 DEF Once
  <2> QED BY <2>1, <2>2
<1>4. Cardinality(StepsInto(m, i)') = Cardinality(StepsInto(m, i)) + Once(f.market = m /\ f.new = i)
  <2>1. CASE f.market = m /\ f.new = i
    <3>1. StepsInto(m, i)' = StepsInto(m, i) \cup {f} /\ f \notin StepsInto(m, i)
      BY <2>1 DEF StepsInto
    <3> QED BY <1>1, <2>1, <3>1, FS_AddElement DEF Once
  <2>2. CASE ~(f.market = m /\ f.new = i)
    <3>1. StepsInto(m, i)' = StepsInto(m, i)
      BY <2>2 DEF StepsInto
    <3> QED BY <1>2, <2>2, <3>1 DEF Once
  <2> QED BY <2>1, <2>2
<1> QED BY <1>2, <1>3, <1>4

\* A settlement goes on where the walk is.
LEMMA SettlementWalksOn ==
    ASSUME MarketTypeOK, WalkInv, NEW s \in Provable[FundingCircuit], SettleFunding(s)
    PROVE  WalkInv'
<1> DEFINE f == [market |-> s.market, old |-> s.old, new |-> s.new]
<1>1. f \in FundingStep /\ f.market = s.market /\ f.old = s.old /\ f.new = s.new
  BY MarketAssumption DEF FundingStatement, FundingStep
<1>2. /\ f \notin fundings /\ fundings' = fundings \cup {f}
      /\ fundingIndex[s.market] = s.old /\ s.new # s.old
      /\ fundingIndex' = [fundingIndex EXCEPT ![s.market] = s.new]
      /\ reindexed' = reindexed
  BY DEF SettleFunding, AdvanceFunding
<1>3. IsFiniteSet(fundings')
  BY <1>2, FS_AddElement DEF WalkInv
<1> HIDE DEF f
<1>4. ASSUME NEW m \in Markets \ reindexed, NEW i \in FundingIndices
      PROVE  Cardinality(StepsFrom(m, i)') + Once(i = fundingIndex'[m])
               = Cardinality(StepsInto(m, i)') + Once(i = FirstIndex)
  <2>1. Cardinality(StepsFrom(m, i)) + Once(i = fundingIndex[m])
          = Cardinality(StepsInto(m, i)) + Once(i = FirstIndex)
    BY DEF WalkInv, FundingIsOneWalk
  <2>2. /\ Cardinality(StepsFrom(m, i)') =
             Cardinality(StepsFrom(m, i)) + Once(s.market = m /\ s.old = i)
        /\ Cardinality(StepsInto(m, i)') =
             Cardinality(StepsInto(m, i)) + Once(s.market = m /\ s.new = i)
        /\ Cardinality(StepsFrom(m, i)) \in Nat
        /\ Cardinality(StepsInto(m, i)) \in Nat
    BY <1>1, <1>2, OneMoreStep DEF WalkInv
  <2>3. fundingIndex'[m] = IF s.market = m THEN s.new ELSE fundingIndex[m]
    BY <1>2 DEF MarketTypeOK
  <2> QED BY <1>2, <2>1, <2>2, <2>3 DEF Once
<1> QED BY <1>2, <1>3, <1>4 DEF WalkInv, FundingIsOneWalk

\* Every step of the markets keeps the walk.
LEMMA MarketsWalkOn ==
    ASSUME MarketTypeOK, WalkInv, MarketNext \/ UNCHANGED marketVars
    PROVE  WalkInv'
<1>1. ASSUME UNCHANGED <<fundings, fundingIndex, reindexed>> PROVE WalkInv'
  BY <1>1 DEF WalkInv, FundingIsOneWalk, StepsFrom, StepsInto
<1>2. ASSUME NEW n \in Markets, NEW active \in BOOLEAN, NEW to \in FundingIndices,
             Upsert(n, active, to)
      PROVE  WalkInv'
  <2>1. CASE to = fundingIndex[n]
    <3>1. fundingIndex' = fundingIndex
      BY <1>2, <2>1 DEF Upsert, MarketTypeOK
    <3> QED BY <1>1, <1>2, <2>1, <3>1 DEF Upsert
  <2>2. CASE to # fundingIndex[n]
    <3>1. fundings' = fundings /\ reindexed' = reindexed \cup {n}
          /\ \A m \in Markets \ {n} : fundingIndex'[m] = fundingIndex[m]
      BY <1>2, <2>2 DEF Upsert, MarketTypeOK
    <3> QED BY <3>1 DEF WalkInv, FundingIsOneWalk, StepsFrom, StepsInto
  <2> QED BY <2>1, <2>2
<1>3. CASE UNCHANGED marketVars
  BY <1>1, <1>3 DEF marketVars
<1>4. CASE \E m \in Markets, price \in Prices \cup {NoPrice} : OracleMoves(m, price)
  BY <1>1, <1>4 DEF OracleMoves
<1>5. CASE \E enabled \in BOOLEAN : SetFundingUpdater(enabled)
  BY <1>1, <1>5 DEF SetFundingUpdater
<1> QED BY <1>2, <1>3, <1>4, <1>5, SettlementWalksOn DEF MarketNext

\* FundingIsOneWalk: each settlement leaves the index where the walk is and
\* reaches the next, and its record is new; an upsert that keeps the index does
\* nothing to the walk, one that replaces it takes the market out.
THEOREM FundingWalks == Spec => []FundingIsOneWalk
<1>1. Init => WalkInv
  <2> SUFFICES ASSUME Init PROVE WalkInv
    OBVIOUS
  <2>1. fundings = {} /\ fundingIndex = [m \in Markets |-> FirstIndex]
    BY DEF Init, MarketInit
  <2>2. IsFiniteSet(fundings)
    BY <2>1, FS_EmptySet
  <2>3. \A m, i : StepsFrom(m, i) = {} /\ StepsInto(m, i) = {}
    BY <2>1 DEF StepsFrom, StepsInto
  <2> QED BY <2>1, <2>2, <2>3 DEF WalkInv, FundingIsOneWalk
<1>2. LifecycleTypeOK /\ WalkInv /\ [Next]_vars => WalkInv'
  BY MarketSteps, MarketsWalkOn DEF LifecycleTypeOK
<1>3. WalkInv => FundingIsOneWalk
  BY DEF WalkInv
<1> QED BY <1>1, <1>2, <1>3, LifecycleTypeCorrect, PTL DEF Spec

-----------------------------------------------------------------------------
(* How positions end.  That a position can always be ended is a fact of    *)
(* arithmetic: the signed profit of TypeScript is the circuits' profit less*)
(* their loss, of which one is nothing.  That an order's close happens at  *)
(* its trigger rests on what the server knows of the trigger while a close *)
(* is on its way.                                                          *)

Price == Nat \ {0}

\* What a position is: an opening and the index it was opened at.
OpenedPositions == [isLong : BOOLEAN, size : Nat \ {0}, entry : Nat \ {0}, margin : Nat,
                    index : Int]

EndsTypeOK ==
    /\ position \in OpenedPositions
    /\ mark \in Price
    /\ index \in Int
    /\ sent \in [route : {"none", "manual", "order", "liquidation"}, mark : Nat,
                 accepted : BOOLEAN]
    /\ order \in [takesProfit : BOOLEAN, price : Nat, fired : Nat, recorded : Nat]
    /\ end \in [route : {"none", "manual", "order", "liquidation"}, mark : Nat]

\* An order that fired was triggered at that price, and the server records no
\* other price of it.
FiredWhenTriggered ==
    /\ order.fired # 0 => IsTriggered(position, order, order.fired)
    /\ order.recorded \in {0, order.fired}

\* A close of an order that the server let through carries the recorded price.
LetThrough ==
    sent.accepted /\ sent.route = "order" => sent.mark # 0 /\ order.recorded = sent.mark

\* A request that is on its way has a price.
SentHasMark == sent.route # "none" => sent.mark # 0

EndsInv ==
    EndsTypeOK /\ FiredWhenTriggered /\ LetThrough /\ SentHasMark /\ ClosedAtItsTrigger

-----------------------------------------------------------------------------
(* Arithmetic.                                                             *)

LEMMA QuotientIsNat ==
    ASSUME NEW n \in Nat, NEW d \in Nat \ {0}
    PROVE  n \div d \in Nat
  OBVIOUS

LEMMA NothingDivided ==
    ASSUME NEW d \in Nat \ {0}
    PROVE  0 \div d = 0
  OBVIOUS

LEMMA ProductIsNat ==
    ASSUME NEW m \in Nat, NEW n \in Nat
    PROVE  m * n \in Nat
  OBVIOUS

\* A quotient of a product with a difference, rounded towards zero, is the
\* quotient of the one excess less that of the other.
LEMMA DividedDifference ==
    ASSUME NEW s \in Nat, NEW a \in Nat, NEW b \in Nat, NEW d \in Nat \ {0}
    PROVE  Divide(s * (a - b), d) = ((s * Excess(a, b)) \div d) - ((s * Excess(b, a)) \div d)
<1>1. CASE a > b
  <2>1. Excess(a, b) = a - b /\ Excess(b, a) = 0  BY <1>1 DEF Excess
  <2>2. a - b \in Nat  BY <1>1
  <2>3. s * (a - b) \in Nat  BY <2>2, ProductIsNat
  <2>4. s * 0 = 0  OBVIOUS
  <2>5. (s * (a - b)) \div d \in Nat  BY <2>3, QuotientIsNat
  <2>6. Divide(s * (a - b), d) = (s * (a - b)) \div d  BY <2>3 DEF Divide
  <2> QED  BY <2>1, <2>4, <2>5, <2>6, NothingDivided
<1>2. CASE a = b
  <2>1. Excess(a, b) = 0 /\ Excess(b, a) = 0 /\ a - b = 0  BY <1>2 DEF Excess
  <2>2. s * 0 = 0  OBVIOUS
  <2>3. Divide(0, d) = 0  BY NothingDivided DEF Divide
  <2> QED  BY <2>1, <2>2, <2>3, NothingDivided
<1>3. CASE a < b
  <2>1. Excess(b, a) = b - a /\ Excess(a, b) = 0  BY <1>3 DEF Excess
  <2>2. b - a \in Nat /\ b - a # 0  BY <1>3
  <2>3. s * (b - a) \in Nat  BY <2>2, ProductIsNat
  <2>4. s * 0 = 0  OBVIOUS
  <2>5. s * (a - b) = -(s * (b - a))  OBVIOUS
  <2>6. (s * (b - a)) \div d \in Nat  BY <2>3, QuotientIsNat
  <2>7. Divide(s * (a - b), d) = -((s * (b - a)) \div d)
    <3>1. CASE s * (b - a) = 0
      <4>1. s * (a - b) = 0  BY <3>1, <2>5
      <4>2. Divide(0, d) = 0  BY NothingDivided DEF Divide
      <4> QED  BY <3>1, <4>1, <4>2, NothingDivided
    <3>2. CASE s * (b - a) # 0
      <4>1. ~(s * (a - b) >= 0)  BY <3>2, <2>3, <2>5
      <4>2. -(s * (a - b)) = s * (b - a)  BY <2>5, <2>3
      <4> QED  BY <4>1, <4>2 DEF Divide
    <3> QED  BY <3>1, <3>2
  <2> QED  BY <2>1, <2>4, <2>6, <2>7, NothingDivided
<1> QED  BY <1>1, <1>2, <1>3

\* Profit and loss of the circuits are amounts, and one of them is nothing.
LEMMA ProfitOrLoss ==
    ASSUME NEW p \in OpenedPositions, NEW m \in Price
    PROVE  /\ Profit(p, m) \in Nat /\ Loss(p, m) \in Nat
           /\ Profit(p, m) = 0 \/ Loss(p, m) = 0
<1> USE EndsAssumption
<1>1. p.size \in Nat /\ p.entry \in Nat /\ p.isLong \in BOOLEAN  BY DEF OpenedPositions
<1>2. ASSUME NEW a \in Nat, NEW b \in Nat
      PROVE  /\ (p.size * Excess(a, b)) \div PriceScale \in Nat
             /\ Excess(a, b) = 0 => (p.size * Excess(a, b)) \div PriceScale = 0
  <2>1. Excess(a, b) \in Nat  BY DEF Excess
  <2>2. p.size * Excess(a, b) \in Nat  BY <1>1, <2>1, ProductIsNat
  <2>3. p.size * 0 = 0  BY <1>1
  <2> QED  BY <2>2, <2>3, QuotientIsNat, NothingDivided
<1>3. Excess(m, p.entry) = 0 \/ Excess(p.entry, m) = 0  BY <1>1 DEF Excess, Price
<1>4. m \in Nat  BY DEF Price
<1>5. CASE p.isLong
  BY <1>1, <1>2, <1>3, <1>4, <1>5 DEF Profit, Loss
<1>6. CASE ~p.isLong
  BY <1>1, <1>2, <1>3, <1>4, <1>6 DEF Profit, Loss
<1> QED  BY <1>5, <1>6

\* The signed profit of TypeScript is the circuits' profit less their loss.
LEMMA PnlIsProfitLessLoss ==
    ASSUME NEW p \in OpenedPositions, NEW m \in Price
    PROVE  UnrealizedPnl(p, m) = Profit(p, m) - Loss(p, m)
<1> USE EndsAssumption
<1>1. p.size \in Nat /\ p.entry \in Nat /\ p.isLong \in BOOLEAN /\ m \in Nat
  BY DEF OpenedPositions, Price
<1>2. ASSUME NEW a \in Nat, NEW b \in Nat
      PROVE  Divide(p.size * (a - b), PriceScale)
               = ((p.size * Excess(a, b)) \div PriceScale)
                   - ((p.size * Excess(b, a)) \div PriceScale)
  <2>1. ASSUME NEW s \in Nat, NEW d \in Nat \ {0}
        PROVE  Divide(s * (a - b), d)
                 = ((s * Excess(a, b)) \div d) - ((s * Excess(b, a)) \div d)
    BY DividedDifference
  <2>2. PriceScale \in Nat \ {0}  BY EndsAssumption
  <2> QED  BY <1>1, <2>1, <2>2
<1>3. CASE p.isLong
  <2>1. UnrealizedPnl(p, m) = Divide(p.size * (m - p.entry), PriceScale)
    BY <1>3 DEF UnrealizedPnl
  <2> QED  BY <1>1, <1>2, <1>3, <2>1 DEF Profit, Loss
<1>4. CASE ~p.isLong
  <2>1. UnrealizedPnl(p, m) = Divide(p.size * (p.entry - m), PriceScale)
    BY <1>4 DEF UnrealizedPnl
  <2> QED  BY <1>1, <1>2, <1>4, <2>1 DEF Profit, Loss
<1> QED  BY <1>1, <1>3, <1>4

LEMMA DivideIsInt ==
    ASSUME NEW n \in Int, NEW d \in Nat \ {0}
    PROVE  Divide(n, d) \in Int
<1>1. CASE n >= 0
  <2>1. n \div d \in Nat  BY <1>1, QuotientIsNat
  <2> QED  BY <1>1, <2>1 DEF Divide
<1>2. CASE ~(n >= 0)
  <2>1. (-n) \div d \in Nat  BY <1>2, QuotientIsNat
  <2> QED  BY <1>2, <2>1 DEF Divide
<1> QED  BY <1>1, <1>2

LEMMA PaymentIsInt ==
    ASSUME NEW p \in OpenedPositions, NEW i \in Int
    PROVE  FundingPayment(p, i) \in Int
<1>1. p.size \in Int /\ p.index \in Int  BY DEF OpenedPositions
<1>2. p.size * (i - p.index) \in Int  BY <1>1
<1>3. PriceScale \in Nat \ {0}  BY EndsAssumption
<1>4. Divide(p.size * (i - p.index), PriceScale) \in Int  BY <1>2, <1>3, DivideIsInt
<1> QED  BY <1>4 DEF FundingPayment

LEMMA MaintenanceIsNat ==
    ASSUME NEW p \in OpenedPositions, NEW m \in Price
    PROVE  Maintenance(p, m) \in Nat
<1>1. /\ PriceScale \in Nat \ {0} /\ RateScale \in Nat \ {0} /\ MaintenanceRate \in Nat
      /\ p.size \in Nat /\ m \in Nat
  BY EndsAssumption DEF OpenedPositions, Price
<1>2. p.size * m \in Nat  BY <1>1, ProductIsNat
<1>3. (p.size * m) \div PriceScale \in Nat  BY <1>1, <1>2, QuotientIsNat
<1>4. ((p.size * m) \div PriceScale) * MaintenanceRate \in Nat  BY <1>1, <1>3, ProductIsNat
<1> QED  BY <1>1, <1>4, QuotientIsNat DEF Maintenance

\* What the circuit of a close asserts.
LEMMA ProvableClose ==
    ASSUME NEW p \in OpenedPositions, NEW m \in Price, NEW i \in Int
    PROVE  CloseIsProvable(p, m, i)
             <=> /\ p.margin >= Loss(p, m)
                 /\ p.margin + Profit(p, m) - Loss(p, m) >= FundingPayment(p, i)
                 /\ p.margin + Profit(p, m) - Loss(p, m) - FundingPayment(p, i)
                      = EquityOf(p, m, i)
<1>1. /\ p.margin \in Nat /\ Profit(p, m) \in Nat /\ Loss(p, m) \in Nat
      /\ FundingPayment(p, i) \in Int
  BY ProfitOrLoss, PaymentIsInt DEF OpenedPositions
<1> QED  BY <1>1 DEF CloseIsProvable

\* A position that owes funding and has a margin to maintain can be closed or
\* liquidated: no clamp or order of the circuits leaves a gap between the two.
LEMMA CloseOrLiquidation ==
    ASSUME NEW p \in OpenedPositions, NEW m \in Price, NEW i \in Int,
           FundingPayment(p, i) >= 0, Maintenance(p, m) > 0
    PROVE  CanClose(p, m, i) \/ CanLiquidate(p, m, i)
<1> DEFINE payment == FundingPayment(p, i)
           need == Maintenance(p, m)
           gain == Profit(p, m)
           lost == Loss(p, m)
<1>1. /\ payment \in Int /\ payment >= 0 /\ need \in Nat /\ need > 0
      /\ gain \in Nat /\ lost \in Nat /\ (gain = 0 \/ lost = 0) /\ p.margin \in Nat
  BY PaymentIsInt, MaintenanceIsNat, ProfitOrLoss DEF OpenedPositions
<1>2. EquityOf(p, m, i) = p.margin + (gain - lost) - payment
  BY PnlIsProfitLessLoss DEF EquityOf
<1>3. SettlesSolvent(p, m, i) <=> p.margin + (gain - lost) - payment >= 0
  BY <1>2 DEF SettlesSolvent
<1>4. CloseIsProvable(p, m, i)
        <=> /\ p.margin >= lost
            /\ p.margin + gain - lost >= payment
            /\ p.margin + gain - lost - payment = EquityOf(p, m, i)
  BY ProvableClose
<1>5. IsLiquidatable(p, m, i) <=> p.margin + (gain - lost) - payment < need
  BY <1>2 DEF IsLiquidatable
<1>6. LiquidationIsProvable(p, m, i) <=> Excess(Excess(p.margin, lost), payment) < need
  BY <1>1 DEF LiquidationIsProvable, CircuitEquity
<1> HIDE DEF payment, need, gain, lost
<1>7. CASE p.margin + (gain - lost) - payment >= 0
  <2>1. p.margin >= lost  BY <1>1, <1>7
  <2>2. p.margin + gain - lost >= payment  BY <1>1, <1>7
  <2>3. p.margin + gain - lost - payment = EquityOf(p, m, i)  BY <1>1, <1>2
  <2>4. CloseIsProvable(p, m, i)  BY <1>4, <2>1, <2>2, <2>3
  <2>5. SettlesSolvent(p, m, i)  BY <1>3, <1>7
  <2> QED  BY <2>4, <2>5 DEF CanClose
<1>8. CASE ~(p.margin + (gain - lost) - payment >= 0)
  <2>1. Excess(Excess(p.margin, lost), payment) = 0
    <3>1. CASE p.margin > lost
      <4>1. Excess(p.margin, lost) = p.margin - lost  BY <3>1 DEF Excess
      <4>2. ~(p.margin - lost > payment)  BY <1>1, <1>8
      <4> QED  BY <4>1, <4>2 DEF Excess
    <3>2. CASE ~(p.margin > lost)
      <4>1. Excess(p.margin, lost) = 0  BY <3>2 DEF Excess
      <4> QED  BY <1>1, <4>1 DEF Excess
    <3> QED  BY <3>1, <3>2
  <2>2. LiquidationIsProvable(p, m, i)  BY <1>1, <1>6, <2>1
  <2>3. IsLiquidatable(p, m, i)  BY <1>1, <1>5, <1>8
  <2> QED  BY <2>2, <2>3 DEF CanLiquidate
<1> QED  BY <1>7, <1>8

-----------------------------------------------------------------------------
(* The invariant.                                                          *)

LEMMA EndsInvInit == EndsInit => EndsInv
<1> SUFFICES ASSUME EndsInit PROVE EndsInv  OBVIOUS
<1>1. PICK o \in EndOpenings, i \in EndIndexes, m \in EndMarks : EndsStart(o, i, m)
  BY DEF EndsInit
<1>2. /\ o \in [isLong : BOOLEAN, size : Nat \ {0}, entry : Nat \ {0}, margin : Nat]
      /\ i \in Int /\ m \in Nat \ {0}
  BY EndsAssumption
<1>3. position \in OpenedPositions  BY <1>1, <1>2 DEF EndsStart, OpenedPositions
<1>4. EndsTypeOK
  BY <1>1, <1>2, <1>3 DEF EndsStart, EndsTypeOK, Price, NoRequest, NoOrder, NotEnded
<1>5. FiredWhenTriggered  BY <1>1 DEF EndsStart, FiredWhenTriggered, NoOrder
<1>6. LetThrough /\ SentHasMark  BY <1>1 DEF EndsStart, LetThrough, SentHasMark, NoRequest
<1>7. ClosedAtItsTrigger  BY <1>1 DEF EndsStart, ClosedAtItsTrigger, NotEnded
<1> QED  BY <1>4, <1>5, <1>6, <1>7 DEF EndsInv

LEMMA EndsInvNext == EndsInv /\ [EndsNext]_endsVars => EndsInv'
<1> SUFFICES ASSUME EndsInv, [EndsNext]_endsVars PROVE EndsInv'  OBVIOUS
<1>0. EndsTypeOK /\ FiredWhenTriggered /\ LetThrough /\ SentHasMark /\ ClosedAtItsTrigger
  BY DEF EndsInv
<1> USE DEF EndsInv, EndsTypeOK, FiredWhenTriggered, LetThrough, SentHasMark,
            ClosedAtItsTrigger, Price
<1>1. ASSUME NEW m \in EndMarks, MarkMoves(m) PROVE EndsInv'
  <2>1. m \in Nat \ {0}  BY EndsAssumption
  <2> QED  BY <1>0, <1>1, <2>1 DEF MarkMoves, IsTriggered
<1>2. ASSUME NEW m \in EndMarks, Execute(m) PROVE EndsInv'
  <2>1. m \in Nat \ {0}  BY EndsAssumption
  <2>2. /\ Open /\ Registered /\ IsTriggered(position, order, mark) /\ order.fired = 0
        /\ mark' = m
        /\ order' = [order EXCEPT !.fired = mark, !.recorded = mark]
        /\ end' = IF m = mark THEN Ended("order", mark) ELSE end
        /\ UNCHANGED <<position, index, sent>>
    BY <1>2 DEF Execute, TriggerAllowed, TriggerLands
  <2>3. /\ order' \in [takesProfit : BOOLEAN, price : Nat, fired : Nat, recorded : Nat]
        /\ order'.fired = mark /\ order'.recorded = mark
        /\ order'.takesProfit = order.takesProfit /\ order'.price = order.price
    BY <1>0, <2>2
  <2>4. IsTriggered(position, order', mark)  BY <2>2, <2>3 DEF IsTriggered
  <2>5. ~(sent.accepted /\ sent.route = "order")  BY <1>0, <2>2
  <2>6. end'.route = "order" => end'.mark = mark
    BY <2>2 DEF Ended, Open, NotEnded
  <2>7. end' \in [route : {"none", "manual", "order", "liquidation"}, mark : Nat]
    BY <1>0, <2>2 DEF Ended
  <2>8. EndsTypeOK'  BY <1>0, <2>1, <2>2, <2>3, <2>7
  <2>9. FiredWhenTriggered'  BY <2>2, <2>3, <2>4 DEF IsTriggered
  <2>10. LetThrough' /\ SentHasMark'  BY <1>0, <2>2, <2>5
  <2>11. ClosedAtItsTrigger'  BY <1>0, <2>2, <2>3, <2>4, <2>6 DEF IsTriggered
  <2> QED  BY <2>8, <2>9, <2>10, <2>11
<1>3. ASSUME NEW i \in EndIndexes, FundingMoves(i) PROVE EndsInv'
  <2>1. i \in Int  BY EndsAssumption
  <2> QED  BY <1>0, <1>3, <2>1 DEF FundingMoves, IsTriggered
<1>4. ASSUME NEW o \in EndOrders, RegisterOrder(o) PROVE EndsInv'
  <2>1. o \in [takesProfit : BOOLEAN, price : Nat \ {0}]  BY EndsAssumption
  <2>2. /\ Open /\ order = NoOrder
        /\ order' = [NoOrder EXCEPT !.takesProfit = o.takesProfit, !.price = o.price]
        /\ UNCHANGED <<position, mark, index, sent, end>>
    BY <1>4 DEF RegisterOrder
  <2>3. /\ order' \in [takesProfit : BOOLEAN, price : Nat, fired : Nat, recorded : Nat]
        /\ order'.fired = 0 /\ order'.recorded = 0 /\ order.recorded = 0
    BY <2>1, <2>2 DEF NoOrder
  <2>4. ~(sent.accepted /\ sent.route = "order")  BY <1>0, <2>3
  <2> QED  BY <1>0, <2>2, <2>3, <2>4 DEF Open, NotEnded
<1>5. ASSUME NEW answered \in BOOLEAN, TriggerOrder(answered) PROVE EndsInv'
  <2>1. /\ Open /\ IsTriggered(position, order, mark) /\ order.fired = 0
        /\ order' = [order EXCEPT !.fired = mark, !.recorded = IF answered THEN mark ELSE @]
        /\ UNCHANGED <<position, mark, index, sent, end>>
    BY <1>5 DEF TriggerOrder, TriggerAllowed, TriggerLands
  <2>2. order.recorded = 0  BY <1>0, <2>1
  <2>3. /\ order' \in [takesProfit : BOOLEAN, price : Nat, fired : Nat, recorded : Nat]
        /\ order'.fired = mark /\ order'.recorded \in {0, mark}
        /\ order'.takesProfit = order.takesProfit /\ order'.price = order.price
    BY <1>0, <2>1, <2>2
  <2>4. IsTriggered(position, order', mark)  BY <2>1, <2>3 DEF IsTriggered
  <2>5. ~(sent.accepted /\ sent.route = "order")  BY <1>0, <2>2
  <2>6. FiredWhenTriggered'  BY <2>1, <2>3, <2>4 DEF IsTriggered
  <2> QED  BY <1>0, <2>1, <2>3, <2>5, <2>6 DEF Open, NotEnded
<1>6. ASSUME NEW route \in {"manual", "order"}, AskClose(route) PROVE EndsInv'
  BY <1>0, <1>6 DEF AskClose, Asked, IsTriggered
<1>7. ASSUME AskLiquidation PROVE EndsInv'
  BY <1>0, <1>7 DEF AskLiquidation, Asked, IsTriggered
<1>8. ASSUME PostEnd PROVE EndsInv'
  <2>1. UNCHANGED <<position, mark, index, order, end>>  BY <1>8 DEF PostEnd
  <2>2. CASE sent' = NoRequest
    BY <1>0, <2>1, <2>2 DEF NoRequest, IsTriggered
  <2>3. CASE sent' # NoRequest
    <3>1. /\ sent' = [sent EXCEPT !.accepted = TRUE]
          /\ sent.route = "liquidation" \/ CloseIsValid
          /\ sent # NoRequest /\ ~sent.accepted
      BY <1>8, <2>3 DEF PostEnd
    <3>2. sent.route = "order" => order.recorded = sent.mark
      BY <3>1 DEF CloseIsValid
    <3>3. /\ sent' \in [route : {"none", "manual", "order", "liquidation"}, mark : Nat,
                        accepted : BOOLEAN]
          /\ sent'.route = sent.route /\ sent'.mark = sent.mark
      BY <1>0, <3>1
    <3> QED  BY <1>0, <2>1, <3>2, <3>3 DEF IsTriggered
  <2> QED  BY <2>2, <2>3
<1>9. ASSUME Relay PROVE EndsInv'
  <2>1. /\ Open /\ sent.accepted /\ sent' = NoRequest
        /\ UNCHANGED <<position, mark, index, order>>
    BY <1>9 DEF Relay
  <2>2. end' = end \/ (end' = Ended(sent.route, mark) /\ sent.mark = mark)
    BY <1>9 DEF Relay, CloseLands, LiquidationLands, MarkIsCurrent
  <2>3. CASE end' = end
    BY <1>0, <2>1, <2>3 DEF NoRequest, IsTriggered
  <2>4. CASE end' = Ended(sent.route, mark) /\ sent.mark = mark
    <3>1. end' \in [route : {"none", "manual", "order", "liquidation"}, mark : Nat]
      BY <1>0, <2>4 DEF Ended
    <3>2. end'.route = "order" => order.fired = mark /\ end'.mark = mark
      BY <1>0, <2>1, <2>4 DEF Ended
    <3>3. ClosedAtItsTrigger'
      BY <1>0, <2>1, <3>2 DEF IsTriggered
    <3>4. LetThrough' /\ SentHasMark'  BY <2>1 DEF NoRequest
    <3>5. FiredWhenTriggered'  BY <1>0, <2>1 DEF IsTriggered
    <3> QED  BY <1>0, <2>1, <3>1, <3>3, <3>4, <3>5 DEF NoRequest
  <2> QED  BY <2>2, <2>3, <2>4
<1>10. ASSUME UNCHANGED endsVars PROVE EndsInv'
  BY <1>0, <1>10 DEF endsVars, IsTriggered
<1> QED
  BY <1>1, <1>2, <1>3, <1>4, <1>5, <1>6, <1>7, <1>8, <1>9, <1>10 DEF EndsNext

\* In every state the inductive invariant holds: typed, and with what the server
\* knows of a fired order.
THEOREM EndsInvariant == EndsSpec => []EndsInv
  BY EndsInvInit, EndsInvNext, PTL DEF EndsSpec

\* PositionsCanEnd, for every opening, price and index: closes.service.ts and the
\* circuits leave no position between a close and a liquidation.
THEOREM EveryPositionCanEnd == EndsSpec => []PositionsCanEnd
<1>1. EndsInv => PositionsCanEnd
  <2> SUFFICES ASSUME EndsInv, Open, FundingPayment(position, index) >= 0,
                      Maintenance(position, mark) > 0
               PROVE  CanClose(position, mark, index) \/ CanLiquidate(position, mark, index)
    BY DEF PositionsCanEnd
  <2>1. position \in OpenedPositions /\ mark \in Price /\ index \in Int
    BY DEF EndsInv, EndsTypeOK
  <2> QED  BY <2>1, CloseOrLiquidation
<1> QED  BY <1>1, EndsInvariant, PTL

\* ClosedAtItsTrigger, for every order and every movement of the price between the
\* trigger, the proof and the relay of a conditional close.
THEOREM OrdersCloseAtTheirTrigger == EndsSpec => []ClosedAtItsTrigger
<1>1. EndsInv => ClosedAtItsTrigger  BY DEF EndsInv
<1> QED  BY <1>1, EndsInvariant, PTL
=============================================================================
