-------------------------- MODULE RunKernelProofs --------------------------
(***************************************************************************)
(* Proofs about RunKernel for any number of root obligations, files,       *)
(* claims, ticks, crashes and failing stages.                              *)
(***************************************************************************)
EXTENDS RunKernel, TLAPS

USE GateAssumption, KernelAssumption

-----------------------------------------------------------------------------
(* The task tree and the Gate's answers *)

\* No more groups than there are obligations.
LEMMA ChildrenBound ==
  /\ NumChildren \in Nat
  /\ Refined => NumChildren = 2
  /\ ~Refined => NumChildren <= Roots
<1>1. CASE Refined \/ Roots <= SplitChildrenMax
  BY <1>1 DEF NumChildren, Refined
<1>2. CASE ~Refined /\ Roots > SplitChildrenMax
  <2> DEFINE k == CeilDiv(Roots, SplitChildrenMax)
  <2>1. k \in Nat /\ k >= 1
    BY <1>2 DEF CeilDiv, SplitChildrenMax
  <2>2. ASSUME NEW m \in Nat \ {0}, NEW j \in Nat, j >= 1
        PROVE  (m + j - 1) \div j \in Nat /\ (m + j - 1) \div j <= m
    <3> DEFINE a == m + j - 1
               q == a \div j
    <3>1. a \in Nat /\ q \in Int /\ j * q <= a /\ a < j * q + j
      BY <2>2
    <3>2. q >= 0
      <4>1. SUFFICES ASSUME q <= -1 PROVE FALSE
        BY <3>1
      <4>2. j * q <= -j
        BY <2>2, <3>1, <4>1
      <4> QED
        BY <2>2, <3>1, <4>2
    <3>3. q <= m
      <4>1. SUFFICES ASSUME q >= m + 1 PROVE FALSE
        BY <3>1
      <4>2. j * q >= j * m + j
        BY <2>2, <3>1, <4>1
      <4>3. j * m >= m
        BY <2>2
      <4> QED
        BY <2>2, <3>1, <4>2, <4>3
    <3> QED
      BY <3>1, <3>2, <3>3
  <2>3. NumChildren = CeilDiv(Roots, k)
    BY <1>2 DEF NumChildren, SplitChildrenMax
  <2> HIDE DEF k
  <2>4. CeilDiv(Roots, k) \in Nat /\ CeilDiv(Roots, k) <= Roots
    BY <2>1, <2>2 DEF CeilDiv
  <2> QED
    BY <1>2, <2>3, <2>4
<1> QED
  BY <1>1, <1>2 DEF SplitChildrenMax

LEMMA TreeFacts ==
  /\ NumChildren \in Nat
  /\ Root \in Node
  /\ Node \subseteq Nat
  /\ RootObl \subseteq Obl
  /\ Derived \subseteq Obl
  /\ Obl \subseteq Nat
  /\ \A n \in Node : Refs(n) \subseteq Obl
<1>1. /\ NumChildren \in Nat
      /\ Refined => NumChildren = 2
      /\ ~Refined => NumChildren <= Roots
  BY ChildrenBound
<1>2. RootObl \subseteq Obl /\ Derived \subseteq Obl
  BY DEF RootObl, Derived
<1>3. ASSUME NEW n \in Node PROVE Refs(n) \subseteq Obl
  BY <1>1, <1>2
     DEF Refs, Node, Child, Refined, RootObl, Derived, Root
<1>4. QED
  BY <1>1, <1>2, <1>3 DEF Node, Root, Child

\* gate.decide reports satisfied only what the contract lists.
LEMMA DecideSatisfied ==
  ASSUME NEW g, NEW c, NEW a, g.refs \subseteq Obl
  PROVE  Decide(g, c, a).satisfied \subseteq Obl
<1> DEFINE Sound(d) == d.satisfied \subseteq Obl
<1>1. Satisfied(g) \subseteq Obl
  BY DEF Satisfied
<1>2. ASSUME NEW r, NEW o, NEW sat, NEW open, sat \subseteq Obl
      PROVE  Sound(Repair(g, c, r, o, sat, open))
  BY <1>2 DEF Repair, Decision
<1>3. Sound(UnattestedRepair(g, c))
  BY <1>1, <1>2 DEF UnattestedRepair
<1>4. Sound(DecidePending(g, c))
  BY <1>1, <1>2 DEF DecidePending, Decision
<1>5. QED
  BY <1>1, <1>2, <1>3, <1>4 DEF Decide

-----------------------------------------------------------------------------
(* Types *)

LEMMA NoTxType == NoTx \in TxType
  BY DEF NoTx, TxType, Classes

LEMMA TypeInit == Init => TypeOK
<1> SUFFICES ASSUME Init PROVE TypeOK
  OBVIOUS
<1>1. counts \in [Keys -> Nat]
  BY DEF Init, NoRepairs
<1>2. tx \in TxType
  BY NoTxType DEF Init
<1>3. ledger \in [Key -> [tx : Nat, cand : Nat, touches : SUBSET File]]
  BY DEF Init, NoEntry
<1>4. proof \in [Obl -> [tx : Nat, content : [File -> Nat]]]
  BY DEF Init
<1>5. evidence \in [Obl -> Verdicts]
  BY DEF Init, NoEvidence, Verdicts
<1>6. /\ runStatus \in RunStatuses
      /\ nodeStatus \in [Node -> NodeStatuses]
      /\ streak \in [Node -> Nat]
      /\ oblStatus \in [Obl -> OblStatuses]
      /\ oblRev \in [Obl -> Nat]
      /\ txState \in [1..MaxTicks -> TxStates]
      /\ pc \in Pcs
      /\ cur \in Node
  BY TreeFacts DEF Init, RunStatuses, NodeStatuses, OblStatuses, TxStates, Pcs
<1>7. /\ amendments \subseteq Obl
      /\ worldRev \in Nat
      /\ disk \in [File -> Nat]
      /\ todo = {}
      /\ ticks \in 0..MaxTicks
      /\ crashes \in 0..MaxCrashes
      /\ faults \in 0..MaxFaults
  BY DEF Init
<1>8. spent \in BOOLEAN /\ drifted \in BOOLEAN /\ final \in BOOLEAN
  BY DEF Init
<1>9. QED
  BY <1>1, <1>2, <1>3, <1>4, <1>5, <1>6, <1>7, <1>8
     DEF TypeOK, ProjectionTypes, WorldTypes, TickTypes, BoundTypes, ProofTypes

LEMMA TypeUnchanged == TypeOK /\ UNCHANGED vars => TypeOK'
  BY DEF TypeOK, ProjectionTypes, WorldTypes, TickTypes, BoundTypes, ProofTypes,
         vars, proj, world, local, bounds, TxType

LEMMA Frame ==
  ASSUME TypeOK
  PROVE  /\ UNCHANGED proj => ProjectionTypes'
         /\ UNCHANGED world => WorldTypes'
         /\ UNCHANGED local => TickTypes'
         /\ UNCHANGED bounds => BoundTypes'
         /\ UNCHANGED proof => ProofTypes'
  BY DEF TypeOK, ProjectionTypes, WorldTypes, TickTypes, BoundTypes,
         ProofTypes, proj, world, local, bounds

LEMMA TickEnded == TickTypes /\ EndTick => TickTypes'
  BY NoTxType, TreeFacts DEF TickTypes, EndTick, NoEvidence, Pcs, Verdicts

LEMMA TickMoved ==
  ASSUME TickTypes, NEW p \in Pcs, NEW W \in SUBSET IF p = "promote" THEN Node ELSE Obl,
         Go(p, W)
  PROVE  TickTypes'
  BY DEF TickTypes, Go

\* What the steps use of the types.
LEMMA TypeFacts ==
  ASSUME TypeOK
  PROVE  /\ ProjectionTypes /\ WorldTypes /\ TickTypes /\ ProofTypes
         /\ ticks \in 0..MaxTicks /\ ticks \in Nat /\ worldRev \in Nat
         /\ tx.key \in Key \cup {NoKey}
         /\ tx.base \in Nat /\ tx.cand \in Nat
         /\ tx.writes \in SUBSET File /\ tx.acks \in SUBSET File
         /\ tx.touches \in SUBSET File
         /\ tx.snapshot \in [File -> Nat]
         /\ disk \in [File -> Nat]
         /\ pc \in Pcs
         /\ pc # "promote" => todo \in SUBSET Obl
         /\ pc = "promote" => todo \in SUBSET Node
  BY DEF TypeOK, ProjectionTypes, WorldTypes, TickTypes, BoundTypes, TxType

LEMMA ClaimFacts ==
  ASSUME NEW c \in Claims
  PROVE  /\ c.cls \in Classes /\ c.key \in Key \cup {NoKey}
         /\ c.writes \in SUBSET File /\ c.acks \in SUBSET File
  BY DEF ClaimType, Key

LEMMA RecordedType ==
  ASSUME NEW C \in [Keys -> Nat], NEW d PROVE Recorded(C, d) \in [Keys -> Nat]
<1>1. ASSUME NEW k PROVE [C EXCEPT ![k] = @ + 1] \in [Keys -> Nat]
  <2>1. CASE k \in Keys
    BY <2>1
  <2>2. CASE k \notin Keys
    BY <2>2
  <2> QED
    BY <2>1, <2>2
<1>2. QED
  BY <1>1 DEF Recorded

LEMMA GateTypes ==
  ASSUME TypeOK, NEW g, g.refs \subseteq Obl, GateDecided(g)
  PROVE  /\ nodeStatus' \in [Node -> NodeStatuses]
         /\ streak' \in [Node -> Nat]
         /\ counts' \in [Keys -> Nat]
         /\ pc' \in Pcs \ {"promote"}
         /\ todo' \in SUBSET Obl
<1>1. PICK amended \in AmendedPicks(g) :
        LET d == Decide(g, counts, amended) IN
          /\ counts' = Recorded(counts, d)
          /\ nodeStatus' = [nodeStatus EXCEPT ![cur] =
               CASE d.decision = "admit" -> "admitted"
                 [] d.decision = "repair" -> "ready"
                 [] OTHER -> "failed"]
          /\ streak' = [streak EXCEPT ![cur] =
               CASE d.decision = "admit" -> 0
                 [] d.decision = "repair" -> @ + 1
                 [] OTHER -> @]
          /\ pc' = CASE d.decision = "admit" -> "satisfy"
                     [] d.decision = "abort" -> "abort"
                     [] OTHER -> "finalize"
          /\ todo' = IF d.decision = "admit" THEN d.satisfied ELSE {}
  BY DEF GateDecided
<1> DEFINE d == Decide(g, counts, amended)
<1>2. d.satisfied \subseteq Obl
  BY DecideSatisfied
<1>3. counts' \in [Keys -> Nat]
  BY <1>1, TypeFacts, RecordedType DEF ProjectionTypes
<1> HIDE DEF d
<1>4. nodeStatus' \in [Node -> NodeStatuses]
  <2> DEFINE s == CASE d.decision = "admit" -> "admitted"
                    [] d.decision = "repair" -> "ready"
                    [] OTHER -> "failed"
  <2>1. s \in NodeStatuses
    BY DEF NodeStatuses
  <2>2. nodeStatus' = [nodeStatus EXCEPT ![cur] = s]
    BY <1>1 DEF d
  <2> HIDE DEF s
  <2> QED
    BY <2>1, <2>2, TypeFacts DEF ProjectionTypes
<1>6. streak' \in [Node -> Nat]
  <2> DEFINE s == CASE d.decision = "admit" -> 0
                    [] d.decision = "repair" -> streak[cur] + 1
                    [] OTHER -> streak[cur]
  <2>1. s \in Nat
    BY TypeFacts DEF ProjectionTypes, TickTypes
  <2>2. streak' = [streak EXCEPT ![cur] = s]
    BY <1>1 DEF d
  <2> HIDE DEF s
  <2> QED
    BY <2>1, <2>2, TypeFacts DEF ProjectionTypes
<1>5. pc' \in Pcs \ {"promote"} /\ todo' \in SUBSET Obl
  BY <1>1, <1>2 DEF Pcs, d
<1> QED
  BY <1>3, <1>4, <1>5, <1>6

LEMMA InputRefs ==
  ASSUME TypeOK
  PROVE  NodeInput.refs \subseteq Obl /\ ClosureInput.refs \subseteq Obl
  BY TreeFacts, TypeFacts DEF NodeInput, ClosureInput, TickTypes


\* One step per action, and under it one per part of TypeOK that the action
\* does not leave alone.
LEMMA TypeStep == TypeOK /\ [Next]_vars => TypeOK'
<1> SUFFICES ASSUME TypeOK, [Next]_vars
             PROVE  TypeOK'
  OBVIOUS
<1>1. CASE Begin
  <2>1. ProjectionTypes'
    BY <1>1, TypeFacts
       DEF Begin, ProjectionTypes, tree, obls, txs, meters, RunStatuses,
           Terminal
  <2>2. TickTypes'
    BY <1>1, TypeFacts DEF Begin, TickTypes, Pcs
  <2>3. BoundTypes'
    BY <1>1 DEF Begin, TypeOK, BoundTypes
  <2> QED
    BY <1>1, <2>1, <2>2, <2>3, Frame DEF TypeOK, Begin
<1>2. CASE RecoverRollback
  <2>1. ProjectionTypes'
    BY <1>2, TypeFacts
       DEF RecoverRollback, ProjectionTypes, tree, obls, meters, TxStates
  <2> QED
    BY <1>2, <2>1, Frame DEF TypeOK, RecoverRollback
<1>3. CASE Reopen
  <2>1. ProjectionTypes'
    BY <1>3, TypeFacts
       DEF Reopen, ProjectionTypes, obls, txs, meters, NodeStatuses
  <2> QED
    BY <1>3, <2>1, Frame DEF TypeOK, Reopen
<1>4. CASE RecoveryCompleted
  <2>1. ProjectionTypes'
    BY <1>4, TypeFacts
       DEF RecoveryCompleted, ProjectionTypes, tree, obls, txs, meters,
           RunStatuses, Terminal
  <2>2. TickTypes'
    BY <1>4, TypeFacts, TickMoved DEF RecoveryCompleted, Pcs
  <2> QED
    BY <1>4, <2>1, <2>2, Frame DEF TypeOK, RecoveryCompleted
<1>5. CASE CheckGoalDrift
  <2>1. ProjectionTypes'
    BY <1>5, TypeFacts
       DEF CheckGoalDrift, ProjectionTypes, tree, obls, txs, meters,
           RunStatuses, Terminal
  <2>2. TickTypes'
    BY <1>5, TypeFacts, TickMoved DEF CheckGoalDrift, AfterAcquire, Pcs
  <2> QED
    BY <1>5, <2>1, <2>2, Frame DEF TypeOK, CheckGoalDrift
<1>6. CASE Bootstrapped
  <2>1. ProjectionTypes'
    BY <1>6, TypeFacts
       DEF Bootstrapped, ProjectionTypes, tree, obls, txs, meters,
           RunStatuses, Terminal
  <2>2. TickTypes'
    BY <1>6, TypeFacts, TickMoved DEF Bootstrapped, Pcs
  <2> QED
    BY <1>6, <2>1, <2>2, Frame DEF TypeOK, Bootstrapped
<1>7. CASE RunCreated
  <2>1. ProjectionTypes'
    BY <1>7, TypeFacts
       DEF RunCreated, ProjectionTypes, tree, obls, txs, meters, RunStatuses,
           Terminal
  <2>2. TickTypes'
    BY <1>7, TypeFacts, TickMoved DEF RunCreated, Pcs
  <2> QED
    BY <1>7, <2>1, <2>2, Frame DEF TypeOK, RunCreated
<1>8. CASE GoalCompiled
  <2>1. ProjectionTypes'
    BY <1>8, TypeFacts
       DEF GoalCompiled, ProjectionTypes, txs, meters, RunStatuses, Terminal,
           NodeStatuses, OblStatuses
  <2>2. TickTypes'
    BY <1>8, TypeFacts, TickMoved DEF GoalCompiled, Pcs
  <2> QED
    BY <1>8, <2>1, <2>2, Frame DEF TypeOK, GoalCompiled
<1>9. CASE RootReady
  <2>1. ProjectionTypes'
    BY <1>9, TypeFacts
       DEF RootReady, ProjectionTypes, obls, txs, meters, NodeStatuses
  <2>2. TickTypes'
    BY <1>9, TypeFacts, TickMoved DEF RootReady, Pcs
  <2> QED
    BY <1>9, <2>1, <2>2, Frame DEF TypeOK, RootReady
<1>10. CASE Plan
  <2>1. TickTypes'
    BY <1>10, TypeFacts, TickMoved DEF Plan, Pcs
  <2> QED
    BY <1>10, <2>1, Frame DEF TypeOK, Plan
<1>11. CASE GovernorDeclines
  <2>1. ProjectionTypes'
    BY <1>11, TypeFacts
       DEF GovernorDeclines, ProjectionTypes, tree, obls, txs, Spend
  <2>2. TickTypes'
    BY <1>11, TypeFacts, TickMoved DEF GovernorDeclines, Pcs
  <2> QED
    BY <1>11, <2>1, <2>2, Frame DEF TypeOK, GovernorDeclines
<1>12. CASE GovernorSplits
  <2>1. ProjectionTypes'
    BY <1>12, TypeFacts
       DEF GovernorSplits, ProjectionTypes, tree, obls, txs, Spend
  <2>2. TickTypes'
    BY <1>12, TypeFacts, TickMoved DEF GovernorSplits, Pcs
  <2> QED
    BY <1>12, <2>1, <2>2, Frame DEF TypeOK, GovernorSplits
<1>13. CASE ObligationOpened
  <2>1. ProjectionTypes'
    <3>1. PICK o \in todo : /\ oblStatus' = [oblStatus EXCEPT ![o] = "open"]
                            /\ oblRev' = [oblRev EXCEPT ![o] = 0]
      BY <1>13 DEF ObligationOpened
    <3>2. oblStatus' \in [Obl -> OblStatuses] /\ oblRev' \in [Obl -> Nat]
      BY <3>1, TypeFacts DEF ProjectionTypes, OblStatuses
    <3> QED
      BY <1>13, <3>2, TypeFacts
         DEF ObligationOpened, ProjectionTypes, tree, txs, meters
  <2>2. TickTypes'
    BY <1>13, TypeFacts, TickMoved DEF ObligationOpened, Pcs, Done
  <2> QED
    BY <1>13, <2>1, <2>2, Frame DEF TypeOK, ObligationOpened
<1>14. CASE SplitCommitted
  <2>1. ProjectionTypes'
    BY <1>14, TypeFacts
       DEF SplitCommitted, ProjectionTypes, obls, txs, meters, NodeStatuses
  <2>2. TickTypes'
    BY <1>14, TypeFacts, TreeFacts, TickMoved DEF SplitCommitted, Pcs, Node
  <2> QED
    BY <1>14, <2>1, <2>2, Frame DEF TypeOK, SplitCommitted
<1>15. CASE Promote
  <2>1. ProjectionTypes'
    BY <1>15, TypeFacts
       DEF Promote, ProjectionTypes, obls, txs, meters, NodeStatuses
  <2>2. TickTypes'
    BY <1>15, TypeFacts, TickMoved DEF Promote, Pcs, Done
  <2> QED
    BY <1>15, <2>1, <2>2, Frame DEF TypeOK, Promote
<1>16. CASE Phase1
  <2>1. TickTypes'
    BY <1>16, TypeFacts, TickEnded, TickMoved DEF Phase1, Pcs
  <2> QED
    BY <1>16, <2>1, Frame DEF TypeOK, Phase1
<1>17. ASSUME NEW n \in Node, ContractAssembled(n) PROVE TypeOK'
  <2>1. ProjectionTypes'
    BY <1>17, TypeFacts
       DEF ContractAssembled, ProjectionTypes, obls, txs, meters, NodeStatuses
  <2>2. TickTypes'
    BY <1>17, TypeFacts, TreeFacts DEF ContractAssembled, TickTypes, Pcs
  <2> QED
    BY <1>17, <2>1, <2>2, Frame DEF TypeOK, ContractAssembled
<1>18. ASSUME NEW c \in Claims, TransactionPrepared(c) PROVE TypeOK'
  <2>1. ProjectionTypes'
    BY <1>18, TypeFacts
       DEF TransactionPrepared, ProjectionTypes, tree, obls, Spend, TxStates
  <2>2. WorldTypes'
    BY <1>18, TypeFacts DEF TransactionPrepared, WorldTypes, EpisodeDisk
  <2>3. TickTypes'
    <3>1. PICK W \in EpisodeWrites :
            tx' = [NoTx EXCEPT !.cls = c.cls, !.key = c.key, !.base = worldRev,
                               !.writes = c.writes, !.acks = c.acks,
                               !.snapshot = EpisodeDisk(W)]
      BY <1>18 DEF TransactionPrepared
    <3>2. EpisodeDisk(W) \in [File -> Nat]
      BY TypeFacts DEF EpisodeDisk
    <3>3. tx' \in TxType
      BY <3>1, <3>2, ClaimFacts, TypeFacts DEF TxType, NoTx
    <3> QED
      BY <1>18, <3>3, TypeFacts DEF TransactionPrepared, TickTypes, Pcs
  <2> QED
    BY <1>18, <2>1, <2>2, <2>3, Frame DEF TypeOK, TransactionPrepared
<1>19. ASSUME NEW c \in Claims, PrepareRefused(c) PROVE TypeOK'
  <2>1. ProjectionTypes'
    BY <1>19, TypeFacts
       DEF PrepareRefused, ProjectionTypes, tree, obls, txs, Spend
  <2>2. TickTypes'
    BY <1>19, TypeFacts, TickEnded DEF PrepareRefused
  <2> QED
    BY <1>19, <2>1, <2>2, Frame DEF TypeOK, PrepareRefused
<1>20. CASE ApplyReplayed
  <2>1. TickTypes'
    BY <1>20, TypeFacts
       DEF ApplyReplayed, TickTypes, WorldTypes, TxType, Pcs, Fresh
  <2> QED
    BY <1>20, <2>1, Frame DEF TypeOK, ApplyReplayed
<1>21. CASE ApplyReadOnly
  <2>1. TickTypes'
    BY <1>21, TypeFacts DEF ApplyReadOnly, TickTypes, Pcs, TxType
  <2> QED
    BY <1>21, <2>1, Frame DEF TypeOK, ApplyReadOnly
<1>22. CASE ApplyWrites
  <2>1. WorldTypes'
    BY <1>22, TypeFacts DEF ApplyWrites, WorldTypes, EpisodeDisk
  <2>2. TickTypes'
    <3> DEFINE A == tx.writes \cup tx.acks
    <3>1. A \in SUBSET File /\ tx.base + 1 \in Nat /\ tx \in TxType
      BY TypeFacts DEF TickTypes
    <3>2. tx' = [tx EXCEPT !.cand = tx.base + 1, !.touches = A]
      BY <1>22 DEF ApplyWrites
    <3> HIDE DEF A
    <3>3. tx' \in TxType
      BY <3>1, <3>2 DEF TxType
    <3> QED
      BY <1>22, <3>3, TypeFacts DEF ApplyWrites, TickTypes, Pcs
  <2> QED
    BY <1>22, <2>1, <2>2, Frame DEF TypeOK, ApplyWrites
<1>23. CASE SaveLedger
  <2>1. WorldTypes'
    BY <1>23, TypeFacts DEF SaveLedger, WorldTypes
  <2>2. TickTypes'
    BY <1>23, TypeFacts, TickMoved DEF SaveLedger, Pcs
  <2> QED
    BY <1>23, <2>1, <2>2, Frame DEF TypeOK, SaveLedger
<1>24. CASE TransactionObserved
  <2>1. ProjectionTypes'
    BY <1>24, TypeFacts
       DEF TransactionObserved, ProjectionTypes, tree, obls, meters
  <2>2. TickTypes'
    BY <1>24, TypeFacts, TickMoved DEF TransactionObserved, Pcs
  <2> QED
    BY <1>24, <2>1, <2>2, Frame DEF TypeOK, TransactionObserved
<1>25. CASE EvidenceRecorded
  <2>1. ProjectionTypes'
    BY <1>25, TypeFacts
       DEF EvidenceRecorded, ProjectionTypes, tree, obls, txs, Spend
  <2>2. TickTypes'
    BY <1>25, TypeFacts, TreeFacts
       DEF EvidenceRecorded, TickTypes, Pcs, Verdicts
  <2> QED
    BY <1>25, <2>1, <2>2, Frame DEF TypeOK, EvidenceRecorded
<1>26. CASE AmendmentProposed
  <2>1. ProjectionTypes'
    BY <1>26, TypeFacts, TreeFacts
       DEF AmendmentProposed, ProjectionTypes, tree, txs, meters
  <2>2. TickTypes'
    BY <1>26, TypeFacts, TickMoved DEF AmendmentProposed, Pcs
  <2> QED
    BY <1>26, <2>1, <2>2, Frame DEF TypeOK, AmendmentProposed
<1>27. CASE ObligationAmended
  <2>1. ProjectionTypes'
    BY <1>27, TypeFacts
       DEF ObligationAmended, ProjectionTypes, tree, txs, meters, OblStatuses
  <2>2. TickTypes'
    BY <1>27, TypeFacts, TickMoved DEF ObligationAmended, Pcs
  <2> QED
    BY <1>27, <2>1, <2>2, Frame DEF TypeOK, ObligationAmended
<1>28. CASE NodeGate
  <2>1. ProjectionTypes'
    BY <1>28, TypeFacts, GateTypes, InputRefs
       DEF NodeGate, ProjectionTypes, obls, txs
  <2>2. TickTypes'
    BY <1>28, TypeFacts, GateTypes, InputRefs DEF NodeGate, TickTypes
  <2> QED
    BY <1>28, <2>1, <2>2, Frame DEF TypeOK, NodeGate
<1>29. CASE ObligationSatisfied
  <2>1. ProjectionTypes'
    <3> DEFINE r == IF gate.closure THEN worldRev ELSE tx.cand
    <3>1. r \in Nat
      BY TypeFacts
    <3>2. PICK o \in todo : /\ oblStatus' = [oblStatus EXCEPT ![o] = "satisfied"]
                            /\ oblRev' = [oblRev EXCEPT ![o] = r]
      BY <1>29 DEF ObligationSatisfied
    <3> HIDE DEF r
    <3>3. oblStatus' \in [Obl -> OblStatuses] /\ oblRev' \in [Obl -> Nat]
      BY <3>1, <3>2, TypeFacts DEF ProjectionTypes, OblStatuses
    <3> QED
      BY <1>29, <3>3, TypeFacts
         DEF ObligationSatisfied, ProjectionTypes, tree, txs, meters
  <2>2. TickTypes'
    BY <1>29, TypeFacts, TickMoved
       DEF ObligationSatisfied, AfterSatisfied, Promotable, Pcs
  <2>3. ProofTypes'
    <3> DEFINE p == [tx |-> ticks, content |-> disk]
    <3> DEFINE S == [tx : Nat, content : [File -> Nat]]
    <3>1. p \in S /\ proof \in [Obl -> S]
      BY TypeFacts DEF ProofTypes
    <3>2. \/ proof' = proof
          \/ \E o \in Obl : proof' = [proof EXCEPT ![o] = p]
      BY <1>29, TypeFacts DEF ObligationSatisfied
    <3> HIDE DEF p, S
    <3>3. proof' \in [Obl -> S]
      BY <3>1, <3>2
    <3> QED
      BY <3>3 DEF ProofTypes, S
  <2> QED
    BY <1>29, <2>1, <2>2, <2>3, Frame DEF TypeOK, ObligationSatisfied
<1>30. CASE RunSucceeded
  <2>1. ProjectionTypes'
    BY <1>30, TypeFacts
       DEF RunSucceeded, ProjectionTypes, tree, obls, txs, meters,
           RunStatuses, Terminal
  <2>2. TickTypes'
    BY <1>30, TypeFacts, TickEnded DEF RunSucceeded
  <2> QED
    BY <1>30, <2>1, <2>2, Frame DEF TypeOK, RunSucceeded
<1>31. CASE RunAborted
  <2>1. ProjectionTypes'
    BY <1>31, TypeFacts
       DEF RunAborted, ProjectionTypes, tree, obls, txs, meters, RunStatuses,
           Terminal
  <2>2. TickTypes'
    BY <1>31, TypeFacts, TickEnded, TickMoved DEF RunAborted, Pcs
  <2> QED
    BY <1>31, <2>1, <2>2, Frame DEF TypeOK, RunAborted
<1>32. CASE TransactionCommitted
  <2>1. ProjectionTypes'
    <3>1. CommitRev \in Nat
      BY TypeFacts DEF CommitRev
    <3>2. txState' \in [1..MaxTicks -> TxStates] /\ worldRev' \in Nat
      BY <1>32, <3>1, TypeFacts
         DEF TransactionCommitted, ProjectionTypes, TxStates
    <3> QED
      BY <1>32, <3>2, TypeFacts
         DEF TransactionCommitted, ProjectionTypes, tree, obls, meters
  <2>2. TickTypes'
    BY <1>32, TypeFacts, TickMoved DEF TransactionCommitted, Pcs, Stale
  <2> QED
    BY <1>32, <2>1, <2>2, Frame DEF TypeOK, TransactionCommitted
<1>33. CASE ObligationInvalidated
  <2>1. ProjectionTypes'
    BY <1>33, TypeFacts, TreeFacts
       DEF ObligationInvalidated, ProjectionTypes, txs, meters, OblStatuses,
           NodeStatuses
  <2>2. TickTypes'
    BY <1>33, TypeFacts, TickMoved DEF ObligationInvalidated, Pcs, Done
  <2> QED
    BY <1>33, <2>1, <2>2, Frame DEF TypeOK, ObligationInvalidated
<1>34. CASE Restore
  <2>1. WorldTypes'
    BY <1>34, TypeFacts DEF Restore, WorldTypes
  <2>2. TickTypes'
    BY <1>34, TypeFacts, TickMoved DEF Restore, Pcs
  <2> QED
    BY <1>34, <2>1, <2>2, Frame DEF TypeOK, Restore
<1>35. CASE TransactionUndone
  <2>1. ProjectionTypes'
    BY <1>35, TypeFacts
       DEF TransactionUndone, ProjectionTypes, tree, obls, meters, TxStates
  <2>2. TickTypes'
    BY <1>35, TypeFacts, TickMoved DEF TransactionUndone, Pcs
  <2> QED
    BY <1>35, <2>1, <2>2, Frame DEF TypeOK, TransactionUndone
<1>36. CASE LeavePrepared
  <2>1. TickTypes'
    BY <1>36, TypeFacts, TickMoved DEF LeavePrepared, Pcs
  <2> QED
    BY <1>36, <2>1, Frame DEF TypeOK, LeavePrepared
<1>37. CASE CloseCheck
  <2>1. TickTypes'
    BY <1>37, TypeFacts, TickEnded, TickMoved DEF CloseCheck, Pcs
  <2> QED
    BY <1>37, <2>1, Frame DEF TypeOK, CloseCheck
<1>38. CASE ClosureContract
  <2>1. ProjectionTypes'
    BY <1>38, TypeFacts
       DEF ClosureContract, ProjectionTypes, obls, txs, meters, NodeStatuses
  <2>2. TickTypes'
    BY <1>38, TypeFacts, TreeFacts DEF ClosureContract, TickTypes, Pcs
  <2> QED
    BY <1>38, <2>1, <2>2, Frame DEF TypeOK, ClosureContract
<1>39. CASE ClosureGate
  <2>1. ProjectionTypes'
    BY <1>39, TypeFacts, GateTypes, InputRefs
       DEF ClosureGate, ProjectionTypes, obls, txs
  <2>2. TickTypes'
    BY <1>39, TypeFacts, GateTypes, InputRefs DEF ClosureGate, TickTypes
  <2> QED
    BY <1>39, <2>1, <2>2, Frame DEF TypeOK, ClosureGate
<1>40. CASE ClosureRepaired
  <2>1. TickTypes'
    BY <1>40, TypeFacts, TickEnded DEF ClosureRepaired
  <2> QED
    BY <1>40, <2>1, Frame DEF TypeOK, ClosureRepaired
<1>41. CASE StageFails
  <2>1. ProjectionTypes'
    BY <1>41, TypeFacts
       DEF StageFails, ProjectionTypes, tree, obls, txs, Spend
  <2>2. WorldTypes'
    BY <1>41, TypeFacts DEF StageFails, WorldTypes, EpisodeDisk
  <2>3. TickTypes'
    BY <1>41, TypeFacts, TickEnded DEF StageFails
  <2>4. BoundTypes'
    BY <1>41 DEF StageFails, TypeOK, BoundTypes
  <2> QED
    BY <1>41, <2>1, <2>2, <2>3, <2>4, Frame DEF TypeOK, StageFails
<1>42. CASE ApplyFails
  <2>1. WorldTypes'
    BY <1>42, TypeFacts DEF ApplyFails, WorldTypes, EpisodeDisk
  <2>2. TickTypes'
    BY <1>42, TypeFacts, TickEnded DEF ApplyFails
  <2>3. BoundTypes'
    BY <1>42 DEF ApplyFails, TypeOK, BoundTypes
  <2> QED
    BY <1>42, <2>1, <2>2, <2>3, Frame DEF TypeOK, ApplyFails
<1>43. CASE Crash
  <2>1. TickTypes'
    BY <1>43, TypeFacts, TickEnded DEF Crash
  <2>2. BoundTypes'
    BY <1>43 DEF Crash, TypeOK, BoundTypes
  <2> QED
    BY <1>43, <2>1, <2>2, Frame DEF TypeOK, Crash
<1>44. CASE EditGoal
  <2>1. WorldTypes'
    BY <1>44, TypeFacts DEF EditGoal, WorldTypes
  <2> QED
    BY <1>44, <2>1, Frame DEF TypeOK, EditGoal
<1>45. CASE UNCHANGED vars
  BY <1>45, TypeUnchanged
<1> QED
  BY <1>1, <1>2, <1>3, <1>4, <1>5, <1>6, <1>7, <1>8, <1>9, <1>10, <1>11,
  <1>12, <1>13, <1>14, <1>15, <1>16, <1>17, <1>18, <1>19, <1>20, <1>21, <1>22,
  <1>23, <1>24, <1>25, <1>26, <1>27, <1>28, <1>29, <1>30, <1>31, <1>32, <1>33,
  <1>34, <1>35, <1>36, <1>37, <1>38, <1>39, <1>40, <1>41, <1>42, <1>43, <1>44,
  <1>45
     DEF Next, TickStep

\* In every reachable state the projection, the workdir and the tick in
\* progress have their types, whatever is claimed, fails or crashes.
THEOREM KernelTyping == Spec => []TypeOK
<1>1. Init => TypeOK
  BY TypeInit
<1>2. TypeOK /\ [Next]_vars => TypeOK'
  BY TypeStep
<1> QED
  BY <1>1, <1>2, PTL DEF Spec
=============================================================================
