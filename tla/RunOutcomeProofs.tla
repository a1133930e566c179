-------------------------- MODULE RunOutcomeProofs --------------------------
(***************************************************************************)
(* How RunKernel's runs end: ended runs stay ended, what they record of    *)
(* their transactions implements TxOutcome, one contract is worked on at a *)
(* time, no revision is attested before it is reached, a closure admits    *)
(* what is covered, and a run that has succeeded is closed.  The last part *)
(* is about what attestations are worth between ticks.                     *)
(***************************************************************************)
EXTENDS RunKernelProofs

-----------------------------------------------------------------------------
(* The inductive invariant: where a tick stands with its transaction *)

\* The stages of a tick before its transaction is prepared ...
Planning == {"acquired", "boot", "compile", "rootReady", "plan", "governor",
             "opening", "splitting", "phase1", "maker"}

\* ... those from then on to its settlement, the Gate's left aside ...
Open == {"apply", "ledger", "observe", "checker", "propose", "amend", "gate",
         "restored"}

\* ... and those after a Gate's decision, of a node or of the closure.
Deciding == {"satisfy", "abort", "finalize"}

\* The tick has its contract, or closes the run.
Engaged == Open \cup Deciding \cup {"maker", "closing", "closureGate"}

InPlanning == pc \in Planning \/ (pc = "promote" /\ gate = NoGate)

NonePrepared == \A t \in 1..MaxTicks : txState[t] # "prepared"

InOpen ==
  \/ pc \in Open
  \/ pc \in Deciding /\ ~gate.closure
  \/ pc = "promote" /\ gate # NoGate

\* A transaction is named after its tick: there is none of a later tick.
NamesUnused ==
  /\ pc = "idle" \/ ticks > 0
  /\ \A t \in 1..MaxTicks : t > ticks => txState[t] = "none"

\* Up to the maker the tick's own transaction does not exist, and the run has
\* none that dangles unless it has ended.
PlanningTx ==
  /\ pc \in {"idle", "rollback"} \/ InPlanning => gate = NoGate
  /\ pc = "rollback" \/ InPlanning => txState[ticks] = "none"
  /\ InPlanning => runStatus \in Terminal \/ NonePrepared

\* From prepare to settlement the tick's own transaction is prepared.
OpenTx == InOpen => txState[ticks] = "prepared"

\* What a stage knows of the Gate's decision and of the run.
StageFacts ==
  /\ pc \in Deciding => gate # NoGate
  /\ pc = "promote" => ~gate.closure
  /\ pc = "finalize" /\ gate.closure => gate.decision # "admit"
  /\ pc = "rollback" => runStatus = "recovering"
  /\ pc = "compile" => runStatus = "validating"
  /\ pc \in Engaged \/ InOpen => runStatus # "succeeded"

TickOrder == NamesUnused /\ PlanningTx /\ OpenTx /\ StageFacts

-----------------------------------------------------------------------------
(* The Gate's answers *)

LEMMA DecideAnswers ==
  ASSUME NEW g, NEW c, NEW a
  PROVE  /\ Decide(g, c, a).decision \in {"admit", "repair", "abort"}
         /\ Decide(g, c, a).closure = g.closure
<1> DEFINE Sound(d) == /\ d.decision \in {"admit", "repair", "abort"}
                       /\ d.closure = g.closure
<1>1. ASSUME NEW r, NEW o, NEW sat, NEW open
      PROVE  Sound(Repair(g, c, r, o, sat, open))
  BY DEF Repair, Decision
<1>2. Sound(UnattestedRepair(g, c))
  BY <1>1 DEF UnattestedRepair
<1>3. Sound(DecidePending(g, c))
  BY <1>1 DEF DecidePending, Decision
<1>4. QED
  BY <1>1, <1>2, <1>3 DEF Decide

LEMMA GateMoves ==
  ASSUME NEW g, GateDecided(g)
  PROVE  /\ pc' \in Deciding
         /\ gate' # NoGate
         /\ gate'.closure = g.closure
         /\ pc' = "finalize" => gate'.decision # "admit"
<1>1. PICK amended \in AmendedPicks(g) :
        LET d == Decide(g, counts, amended) IN
          /\ gate' = d
          /\ pc' = CASE d.decision = "admit" -> "satisfy"
                     [] d.decision = "abort" -> "abort"
                     [] OTHER -> "finalize"
  BY DEF GateDecided
<1> QED
  BY <1>1, DecideAnswers DEF NoGate, Decision, Deciding

-----------------------------------------------------------------------------
\* Once a tick has begun, its name is one of the transactions'.
LEMMA TickName == TypeOK /\ ticks > 0 => ticks \in 1..MaxTicks
<1> SUFFICES ASSUME TypeOK, ticks > 0 PROVE ticks \in 1..MaxTicks
  OBVIOUS
<1>1. MaxTicks \in Nat
  BY KernelAssumption
<1>2. ticks \in 0..MaxTicks
  BY TypeFacts
<1> QED
  BY <1>1, <1>2

LEMMA OrderInit == Init => TickOrder
  BY DEF Init, TickOrder, NamesUnused, PlanningTx, OpenTx, StageFacts, InOpen,
         InPlanning, NonePrepared, Planning, Open, Deciding, Engaged

LEMMA OrderStep == TypeOK /\ TickOrder /\ [Next]_vars => TickOrder'
<1> SUFFICES ASSUME TypeOK, TickOrder, [Next]_vars
             PROVE  TickOrder'
  OBVIOUS
<1> USE TypeFacts
    DEF TickOrder, NamesUnused, PlanningTx, OpenTx, StageFacts, InOpen,
        InPlanning, NonePrepared, Planning, Open, Deciding, Engaged,
        ProjectionTypes, Terminal
<1>1. CASE Begin
  <2>1. ticks + 1 \in 1..MaxTicks /\ ticks' = ticks + 1 /\ pc = "idle"
    BY <1>1, KernelAssumption DEF Begin
  <2>2. txState' = txState /\ gate' = gate
    BY <1>1 DEF Begin, txs
  <2>3. \/ runStatus' = "recovering" /\ pc' = "rollback"
        \/ /\ runStatus \in Terminal \/ NonePrepared
           /\ runStatus' = runStatus /\ pc' = "acquired"
    BY <1>1 DEF Begin, Dangling
  <2> QED
    BY <2>1, <2>2, <2>3
<1>2. CASE RecoverRollback
  BY <1>2 DEF RecoverRollback, local, bounds, Dangling
<1>3. CASE Reopen
  BY <1>3 DEF Reopen, txs, local, bounds, Dangling
<1>4. CASE RecoveryCompleted
  BY <1>4 DEF RecoveryCompleted, txs, bounds, Go, Dangling
<1>5. CASE CheckGoalDrift
  BY <1>5 DEF CheckGoalDrift, txs, bounds, Go, AfterAcquire
<1>6. CASE Bootstrapped
  BY <1>6 DEF Bootstrapped, txs, bounds, Go
<1>7. CASE RunCreated
  BY <1>7 DEF RunCreated, txs, bounds, Go
<1>8. CASE GoalCompiled
  BY <1>8 DEF GoalCompiled, txs, bounds, Go
<1>9. CASE RootReady
  BY <1>9 DEF RootReady, txs, bounds, Go
<1>10. CASE Plan
  BY <1>10 DEF Plan, proj, bounds, Go
<1>11. CASE GovernorDeclines
  BY <1>11 DEF GovernorDeclines, txs, bounds, Go
<1>12. CASE GovernorSplits
  BY <1>12 DEF GovernorSplits, txs, bounds, Go
<1>13. CASE ObligationOpened
  BY <1>13 DEF ObligationOpened, txs, bounds, Done, Go
<1>14. CASE SplitCommitted
  BY <1>14 DEF SplitCommitted, txs, bounds, Go, NoGate, Decision
<1>15. CASE Promote
  BY <1>15 DEF Promote, txs, bounds, Done, Go
<1>16. CASE Phase1
  BY <1>16 DEF Phase1, proj, bounds, Go, EndTick, ClosureNeeded, NoGate, Decision
<1>17. ASSUME NEW n \in Node, ContractAssembled(n) PROVE TickOrder'
  BY <1>17 DEF ContractAssembled, txs, bounds
<1>18. ASSUME NEW c \in Claims, TransactionPrepared(c) PROVE TickOrder'
  <2>1. pc = "maker" /\ pc' = "apply"
    BY <1>18 DEF TransactionPrepared
  <2>4. ticks \in 1..MaxTicks
    BY <2>1, TickName
  <2>2. txState' = [txState EXCEPT ![ticks] = "prepared"]
    BY <1>18 DEF TransactionPrepared
  <2>3. ticks' = ticks /\ gate' = gate /\ runStatus' = runStatus
    BY <1>18 DEF TransactionPrepared, bounds
  <2> QED
    BY <2>1, <2>2, <2>3, <2>4
<1>19. ASSUME NEW c \in Claims, PrepareRefused(c) PROVE TickOrder'
  BY <1>19 DEF PrepareRefused, txs, bounds, EndTick, NoGate, Decision
<1>20. CASE ApplyReplayed
  BY <1>20 DEF ApplyReplayed, proj, bounds
<1>21. CASE ApplyReadOnly
  BY <1>21 DEF ApplyReadOnly, proj, bounds
<1>22. CASE ApplyWrites
  BY <1>22 DEF ApplyWrites, proj, bounds
<1>23. CASE SaveLedger
  BY <1>23 DEF SaveLedger, proj, bounds, Go
<1>24. CASE TransactionObserved
  BY <1>24 DEF TransactionObserved, bounds, Go
<1>25. CASE EvidenceRecorded
  BY <1>25 DEF EvidenceRecorded, txs, bounds
<1>26. CASE AmendmentProposed
  BY <1>26 DEF AmendmentProposed, txs, bounds, Go
<1>27. CASE ObligationAmended
  BY <1>27 DEF ObligationAmended, txs, bounds, Go
<1>28. CASE NodeGate
  BY <1>28, GateMoves DEF NodeGate, txs, bounds, NodeInput
<1>29. CASE ObligationSatisfied
  BY <1>29 DEF ObligationSatisfied, txs, bounds, Go, AfterSatisfied
<1>30. CASE RunSucceeded
  BY <1>30 DEF RunSucceeded, txs, bounds, EndTick, NoGate, Decision
<1>31. CASE RunAborted
  BY <1>31 DEF RunAborted, txs, bounds, Go, EndTick, NoGate, Decision
<1>32. CASE TransactionCommitted
  BY <1>32 DEF TransactionCommitted, bounds, Go
<1>33. CASE ObligationInvalidated
  BY <1>33 DEF ObligationInvalidated, txs, bounds, Done, Go
<1>34. CASE Restore
  BY <1>34 DEF Restore, proj, bounds, Go
<1>35. CASE TransactionUndone
  BY <1>35 DEF TransactionUndone, bounds, Go
<1>36. CASE LeavePrepared
  BY <1>36 DEF LeavePrepared, proj, bounds, Go
<1>37. CASE CloseCheck
  BY <1>37
     DEF CloseCheck, proj, bounds, Go, EndTick, ClosureNeeded, NoGate,
         Decision
<1>38. CASE ClosureContract
  BY <1>38 DEF ClosureContract, txs, bounds
<1>39. CASE ClosureGate
  BY <1>39, GateMoves DEF ClosureGate, txs, bounds, ClosureInput
<1>40. CASE ClosureRepaired
  BY <1>40 DEF ClosureRepaired, proj, bounds, EndTick, NoGate, Decision
<1>41. CASE StageFails
  BY <1>41 DEF StageFails, txs, EndTick, NoGate, Decision
<1>42. CASE ApplyFails
  BY <1>42 DEF ApplyFails, proj, EndTick, NoGate, Decision
<1>43. CASE Crash
  BY <1>43 DEF Crash, proj, EndTick, NoGate, Decision
<1>44. CASE EditGoal
  BY <1>44 DEF EditGoal, proj, local, bounds
<1>45. CASE UNCHANGED vars
  BY <1>45 DEF vars, proj, local, bounds
<1> QED
  BY <1>1, <1>2, <1>3, <1>4, <1>5, <1>6, <1>7, <1>8, <1>9, <1>10, <1>11,
     <1>12, <1>13, <1>14, <1>15, <1>16, <1>17, <1>18, <1>19, <1>20, <1>21,
     <1>22, <1>23, <1>24, <1>25, <1>26, <1>27, <1>28, <1>29, <1>30, <1>31,
     <1>32, <1>33, <1>34, <1>35, <1>36, <1>37, <1>38, <1>39, <1>40, <1>41,
     <1>42, <1>43, <1>44, <1>45
     DEF Next, TickStep

-----------------------------------------------------------------------------
(* Ended runs *)

\* The steps that append an event about the run.
LEMMA StatusSteps ==
  ASSUME Next
  PROVE  \/ runStatus' = runStatus
         \/ Begin \/ RecoveryCompleted \/ CheckGoalDrift \/ Bootstrapped
         \/ RunCreated \/ GoalCompiled \/ RunSucceeded \/ RunAborted
  BY DEF Next, TickStep, proj, RecoverRollback, Reopen, RootReady, Plan,
         GovernorDeclines, GovernorSplits, ObligationOpened, SplitCommitted,
         Promote, Phase1, ContractAssembled, TransactionPrepared,
         PrepareRefused, ApplyReplayed, ApplyReadOnly, ApplyWrites,
         SaveLedger, TransactionObserved, EvidenceRecorded, AmendmentProposed,
         ObligationAmended, NodeGate, ObligationSatisfied,
         TransactionCommitted, ObligationInvalidated, Restore,
         TransactionUndone, LeavePrepared, CloseCheck, ClosureContract,
         ClosureGate, ClosureRepaired, StageFails, ApplyFails, Crash, EditGoal

LEMMA EndedStep ==
  ASSUME TypeOK, TickOrder, [Next]_vars
  PROVE  /\ runStatus \in Terminal => runStatus' \in Terminal
         /\ runStatus = "succeeded" => runStatus' \in {"succeeded", "invalid"}
<1>1. CASE runStatus' = runStatus
  BY <1>1
<1>2. CASE Begin
  BY <1>2 DEF Begin, Terminal, TickOrder, StageFacts, Engaged, Deciding
<1>3. CASE RecoveryCompleted
  BY <1>3 DEF RecoveryCompleted, Terminal, TickOrder, StageFacts, Engaged, Deciding
<1>4. CASE CheckGoalDrift
  BY <1>4 DEF CheckGoalDrift, Terminal, TickOrder, StageFacts, Engaged, Deciding
<1>5. CASE Bootstrapped
  BY <1>5 DEF Bootstrapped, Terminal, TickOrder, StageFacts, Engaged, Deciding
<1>6. CASE RunCreated
  BY <1>6 DEF RunCreated, Terminal, TickOrder, StageFacts, Engaged, Deciding
<1>7. CASE GoalCompiled
  BY <1>7 DEF GoalCompiled, Terminal, TickOrder, StageFacts, Engaged, Deciding
<1>8. CASE RunSucceeded
  BY <1>8 DEF RunSucceeded, Terminal, TickOrder, StageFacts, Engaged, Deciding
<1>9. CASE RunAborted
  BY <1>9 DEF RunAborted, Terminal, TickOrder, StageFacts, Engaged, Deciding
<1> QED
  BY <1>1, <1>2, <1>3, <1>4, <1>5, <1>6, <1>7, <1>8, <1>9, StatusSteps
     DEF vars, proj

\* A run that has ended stays ended, and a run that has succeeded is at most
\* declared invalid, whatever the ticks that follow append.
THEOREM EndedRunsStayEnded == Spec => EndedStaysEnded
<1>1. Init => TypeOK /\ TickOrder
  BY TypeInit, OrderInit
<1>2. TypeOK /\ TickOrder /\ [Next]_vars => (TypeOK /\ TickOrder)'
  BY TypeStep, OrderStep
<1>3. TypeOK /\ TickOrder /\ [Next]_vars =>
        [/\ runStatus \in Terminal => runStatus' \in Terminal
         /\ runStatus = "succeeded" =>
              runStatus' \in {"succeeded", "invalid"}]_vars
  BY EndedStep
<1> QED
  BY <1>1, <1>2, <1>3, PTL DEF Spec, EndedStaysEnded

-----------------------------------------------------------------------------
(* The refinement *)

\* The steps that append an event about a transaction.
LEMMA TxSteps ==
  ASSUME Next
  PROVE  \/ txState' = txState
         \/ RecoverRollback
         \/ \E c \in Claims : TransactionPrepared(c)
         \/ TransactionCommitted \/ TransactionUndone
  BY DEF Next, TickStep, proj, txs, Begin, Reopen, RecoveryCompleted,
         CheckGoalDrift, Bootstrapped, RunCreated, GoalCompiled, RootReady,
         Plan, GovernorDeclines, GovernorSplits, ObligationOpened,
         SplitCommitted, Promote, Phase1, ContractAssembled, PrepareRefused,
         ApplyReplayed, ApplyReadOnly, ApplyWrites, SaveLedger,
         TransactionObserved, EvidenceRecorded, AmendmentProposed,
         ObligationAmended, NodeGate, ObligationSatisfied, RunSucceeded,
         RunAborted, ObligationInvalidated, Restore, LeavePrepared,
         CloseCheck, ClosureContract, ClosureGate, ClosureRepaired,
         StageFails, ApplyFails, Crash, EditGoal

\* One transaction is settled and the run goes on as it was.
LEMMA SettleStep ==
  ASSUME NEW t \in 1..MaxTicks, NEW o \in {"committed", "rolled_back", "compensated"},
         txState[t] = "prepared", txState' = [txState EXCEPT ![t] = o],
         runStatus' = runStatus
  PROVE  Outcome!Next
  BY DEF Outcome!Next, Outcome!Settle, Outcome!Settled, Outcome!Tx

LEMMA OutcomeInit == Init => Outcome!Init
  BY DEF Init, Outcome!Init, Outcome!Tx, Terminal

LEMMA OutcomeStep ==
  ASSUME TypeOK, TickOrder, [Next]_vars
  PROVE  [Outcome!Next]_Outcome!vars
<1>1. CASE txState' = txState
  BY <1>1, EndedStep DEF Outcome!Next, Outcome!End, Outcome!vars
<1>2. CASE RecoverRollback
  <2>1. PICK t \in Dangling : txState' = [txState EXCEPT ![t] = "rolled_back"]
    BY <1>2 DEF RecoverRollback
  <2>2. t \in 1..MaxTicks /\ txState[t] = "prepared" /\ runStatus' = runStatus
    BY <1>2, <2>1 DEF RecoverRollback, Dangling
  <2> QED
    BY <2>1, <2>2, SettleStep
<1>3. ASSUME NEW c \in Claims, TransactionPrepared(c)
      PROVE  [Outcome!Next]_Outcome!vars
  <2>1. /\ pc = "maker"
        /\ txState' = [txState EXCEPT ![ticks] = "prepared"]
        /\ runStatus' = runStatus
    BY <1>3 DEF TransactionPrepared
  <2>2. ticks \in 1..MaxTicks
    BY <2>1, TickName DEF TickOrder, NamesUnused
  <2>3. \A u \in 1..MaxTicks : u >= ticks => txState[u] = "none"
    BY <2>1, <2>2
       DEF TickOrder, NamesUnused, PlanningTx, InPlanning, Planning
  <2>4. runStatus \in Terminal \/ NonePrepared
    BY <2>1 DEF TickOrder, PlanningTx, InPlanning, Planning
  <2> QED
    BY <2>1, <2>2, <2>3, <2>4
       DEF NonePrepared, Outcome!Next, Outcome!Prepare, Outcome!Tx
<1>4. CASE TransactionCommitted
  <2>1. /\ pc = "finalize"
        /\ gate.decision = "admit"
        /\ txState' = [txState EXCEPT ![ticks] = "committed"]
        /\ runStatus' = runStatus
    BY <1>4 DEF TransactionCommitted
  <2>2. ticks \in 1..MaxTicks /\ txState[ticks] = "prepared"
    BY <2>1, TickName
       DEF TickOrder, NamesUnused, OpenTx, StageFacts, InOpen, Deciding
  <2> QED
    BY <2>1, <2>2, SettleStep
<1>5. CASE TransactionUndone
  <2>1. /\ pc = "restored"
        /\ \/ txState' = [txState EXCEPT ![ticks] = "rolled_back"]
           \/ txState' = [txState EXCEPT ![ticks] = "compensated"]
        /\ runStatus' = runStatus
    BY <1>5 DEF TransactionUndone
  <2>2. ticks \in 1..MaxTicks /\ txState[ticks] = "prepared"
    BY <2>1, TickName DEF TickOrder, NamesUnused, OpenTx, InOpen, Open
  <2> QED
    BY <2>1, <2>2, SettleStep
<1> QED
  BY <1>1, <1>2, <1>3, <1>4, <1>5, TxSteps DEF vars, proj

\* The transactions the event log records behave as TxOutcome says: prepared
\* in order, one at a time until the run ends, settled once and for good.
THEOREM OutcomeImplemented == Spec => OutcomeSpec
<1>1. Init => TypeOK /\ TickOrder
  BY TypeInit, OrderInit
<1>2. TypeOK /\ TickOrder /\ [Next]_vars => (TypeOK /\ TickOrder)'
  BY TypeStep, OrderStep
<1>3. Init => Outcome!Init
  BY OutcomeInit
<1>4. TypeOK /\ TickOrder /\ [Next]_vars => [Outcome!Next]_Outcome!vars
  BY OutcomeStep
<1> QED
  BY <1>1, <1>2, <1>3, <1>4, PTL DEF Spec, OutcomeSpec, Outcome!Spec
-----------------------------------------------------------------------------
(* The contract's node *)

\* The stages from the contract to the Gate.
Contracted == {"maker", "apply", "ledger", "observe", "checker", "propose",
               "amend", "gate"}

\* The steps that lead into a stage of the contract, or stay in one.
LEMMA ContractSteps ==
  ASSUME Next, pc' \in Contracted
  PROVE  \/ \E n \in Node : ContractAssembled(n)
         \/ pc \in Contracted /\ nodeStatus' = nodeStatus /\ cur' = cur
  BY GateMoves
     DEF Next, TickStep, Contracted, Deciding, proj, tree, local, Go, Done,
         EndTick, AfterAcquire, AfterSatisfied, Begin, RecoverRollback,
         Reopen, RecoveryCompleted, CheckGoalDrift, Bootstrapped, RunCreated,
         GoalCompiled, RootReady, Plan, GovernorDeclines, GovernorSplits,
         ObligationOpened, SplitCommitted, Promote, Phase1,
         TransactionPrepared, PrepareRefused, ApplyReplayed, ApplyReadOnly,
         ApplyWrites, SaveLedger, TransactionObserved, EvidenceRecorded,
         AmendmentProposed, ObligationAmended, NodeGate, ObligationSatisfied,
         RunSucceeded, RunAborted, TransactionCommitted,
         ObligationInvalidated, Restore, TransactionUndone, LeavePrepared,
         CloseCheck, ClosureContract, ClosureGate, ClosureRepaired,
         StageFails, ApplyFails, Crash, EditGoal

LEMMA ContractStep ==
  TypeOK /\ OneActiveContract /\ [Next]_vars => OneActiveContract'
<1> SUFFICES ASSUME TypeOK, OneActiveContract, [Next]_vars,
                    pc' \in Contracted
             PROVE  InProgress' = {cur'}
  BY DEF OneActiveContract, Contracted
<1>1. CASE UNCHANGED vars
  BY <1>1 DEF vars, proj, tree, local, OneActiveContract, Contracted, InProgress
<1>2. ASSUME NEW n \in Node, ContractAssembled(n)
      PROVE  InProgress' = {cur'}
  BY <1>2, TypeFacts DEF ContractAssembled, InProgress, ProjectionTypes
<1>3. CASE pc \in Contracted /\ nodeStatus' = nodeStatus /\ cur' = cur
  BY <1>3 DEF OneActiveContract, Contracted, InProgress
<1> QED
  BY <1>1, <1>2, <1>3, ContractSteps

\* From the contract to the Gate the node of the contract is the only one in
\* progress, wherever earlier ticks died or left their nodes.
THEOREM OneContractAtATime == Spec => []OneActiveContract
<1>1. Init => TypeOK /\ OneActiveContract
  BY TypeInit DEF Init, OneActiveContract
<1>2. TypeOK /\ OneActiveContract /\ [Next]_vars
        => (TypeOK /\ OneActiveContract)'
  BY TypeStep, ContractStep
<1> QED
  BY <1>1, <1>2, PTL DEF Spec
-----------------------------------------------------------------------------
(* The closure of a run whose root is split among independent children *)

AllCovered == \A o \in RootObl : Covered(o)

\* A closure's decision stands until its tick ends, and until then nothing
\* changes what the Gate was given of the obligations to the worse.
ClosureDecided ==
  gate.closure =>
    /\ pc \in {"satisfy", "abort", "succeed", "finalize"}
    /\ pc \in {"satisfy", "succeed"} => gate.decision = "admit"
    /\ gate.decision # "admit" => amendments # {} \/ ~AllCovered

\* Without a refined obligation, covered is satisfied: the Gate finds nothing
\* pending and nothing unattested.
LEMMA CoveredAdmitted ==
  ASSUME ~Refined, amendments = {}, AllCovered, NEW a
  PROVE  Decide(ClosureInput, counts, a).decision = "admit"
<1>1. \A o \in RootObl : ClosureInput.verdict[o] = "satisfied"
  BY TreeFacts DEF AllCovered, Covered, ClosureInput
<1>2. Pending(ClosureInput) = {} /\ Unattested(ClosureInput) = {}
  BY <1>1 DEF Pending, Unattested, ClosureInput
<1>3. DecidePending(ClosureInput, counts).decision = "admit"
  BY <1>2 DEF DecidePending, ClosureInput, AllCovered, Decision
<1> QED
  BY <1>2, <1>3 DEF Decide, ClosureInput

LEMMA ClosureAnswered ==
  ASSUME ~Refined, ClosureGate
  PROVE  ClosureDecided'
<1>1. PICK a \in AmendedPicks(ClosureInput) :
        LET d == Decide(ClosureInput, counts, a) IN
          /\ gate' = d
          /\ pc' = CASE d.decision = "admit" -> "satisfy"
                     [] d.decision = "abort" -> "abort"
                     [] OTHER -> "finalize"
  BY DEF ClosureGate, GateDecided
<1>2. gate'.decision \in {"admit", "repair", "abort"}
  BY <1>1, DecideAnswers
<1>3. amendments' = amendments /\ oblStatus' = oblStatus
  BY DEF ClosureGate, obls
<1>4. AllCovered' = AllCovered
  BY <1>3 DEF AllCovered, Covered
<1>5. gate'.decision # "admit" => amendments # {} \/ ~AllCovered
  BY <1>1, CoveredAdmitted
<1> QED
  BY <1>1, <1>2, <1>3, <1>4, <1>5 DEF ClosureDecided

\* The steps a tick can take after a closure's decision end it, or satisfy
\* what has been admitted.
LEMMA ClosureSteps ==
  ASSUME Next, gate'.closure
  PROVE  \/ ClosureGate
         \/ NodeGate
         \/ ObligationSatisfied
         \/ EditGoal
         \/ /\ gate' = gate
            /\ pc \notin {"satisfy", "abort", "succeed"}
            /\ pc = "finalize" => TransactionCommitted \/ ~gate.closure
<1>1. ~EndTick
  BY DEF EndTick, NoGate, Decision
<1> QED
  BY <1>1
     DEF Next, TickStep, proj, local, Go, Done, Begin, RecoverRollback,
         Reopen, RecoveryCompleted, CheckGoalDrift,
         Bootstrapped, RunCreated, GoalCompiled, RootReady, Plan,
         GovernorDeclines, GovernorSplits, ObligationOpened, SplitCommitted,
         Promote, Phase1, ContractAssembled, TransactionPrepared,
         PrepareRefused, ApplyReplayed, ApplyReadOnly, ApplyWrites,
         SaveLedger, TransactionObserved, EvidenceRecorded, AmendmentProposed,
         ObligationAmended, RunSucceeded, RunAborted, TransactionCommitted,
         ObligationInvalidated, Restore, TransactionUndone, LeavePrepared,
         CloseCheck, ClosureContract, ClosureRepaired, StageFails, ApplyFails,
         Crash

LEMMA ClosureStep ==
  ASSUME ~Refined, TypeOK, TickOrder, ClosureDecided, [Next]_vars
  PROVE  ClosureDecided'
<1> SUFFICES ASSUME gate'.closure
             PROVE  ClosureDecided'
  BY DEF ClosureDecided
<1>1. CASE UNCHANGED vars
  BY <1>1 DEF vars, proj, obls, local, ClosureDecided, AllCovered, Covered
<1>2. CASE ClosureGate
  BY <1>2, ClosureAnswered
<1>3. CASE NodeGate
  <2>1. gate'.closure = NodeInput.closure
    BY <1>3, GateMoves DEF NodeGate
  <2> QED
    BY <2>1 DEF NodeInput
<1>4. CASE ObligationSatisfied
  <2>1. gate' = gate /\ pc = "satisfy"
    BY <1>4 DEF ObligationSatisfied, Go
  <2>2. pc' \in {"satisfy", "succeed"}
    BY <1>4, <2>1 DEF ObligationSatisfied, Go, AfterSatisfied
  <2> QED
    BY <2>1, <2>2 DEF ClosureDecided
<1>5. CASE EditGoal
  BY <1>5 DEF EditGoal, proj, obls, local, ClosureDecided, AllCovered, Covered
<1>6. CASE /\ gate' = gate
           /\ pc \notin {"satisfy", "abort", "succeed"}
           /\ pc = "finalize" => TransactionCommitted \/ ~gate.closure
  BY <1>6 DEF ClosureDecided, TickOrder, StageFacts, TransactionCommitted
<1> QED
  BY <1>1, <1>2, <1>3, <1>4, <1>5, <1>6, ClosureSteps

\* With two root obligations or more a closure gate admits whenever every one
\* of them is covered and no amendment is pending.  (With one, a split refines
\* it and the gate wants the refined one's own attestation.)
THEOREM ClosureAdmitsCovered == Roots # 1 => (Spec => []CoveredCloses)
<1> SUFFICES ASSUME ~Refined PROVE Spec => []CoveredCloses
  BY DEF Refined
<1>1. Init => TypeOK /\ TickOrder /\ ClosureDecided
  BY TypeInit, OrderInit DEF Init, ClosureDecided, NoGate, Decision
<1>2. TypeOK /\ TickOrder /\ ClosureDecided /\ [Next]_vars
        => (TypeOK /\ TickOrder /\ ClosureDecided)'
  BY TypeStep, OrderStep, ClosureStep
<1>3. ClosureDecided => CoveredCloses
  BY DEF ClosureDecided, CoveredCloses, AllCovered
<1> QED
  BY <1>1, <1>2, <1>3, PTL DEF Spec
-----------------------------------------------------------------------------
(* Revisions *)

\* Makers give no idempotency key to what the Gate can admit.  A key outlives
\* the rollback of its transaction: replayed, it commits the revision of the
\* first time, which the run may have passed.
KeysRefused == \A c \in Claims : c.key # NoKey => c.cls # "reversible"

\* Above the contract's ceiling: the Gate never admits it.
Above == tx.cls \in {"compensatable", "irreversible"}

\* The revision of the tick's transaction is the one it leads the run to.
TxRevision ==
  /\ pc = "apply" =>
       tx.base = worldRev /\ (tx.key # NoKey => tx.cls # "reversible")
  /\ pc \in {"ledger", "observe"} => Above \/ tx.cand \in {worldRev, worldRev + 1}
  /\ pc \in {"checker", "propose", "amend", "gate"} => Above \/ tx.cand = worldRev
  /\ pc \in {"satisfy", "promote", "finalize"} /\ ~gate.closure
       /\ gate.decision = "admit" => tx.cand = worldRev
  /\ pc = "satisfy" => gate.decision = "admit"
  /\ pc = "abort" => gate.decision # "admit"

\* A step that starts a new stage, or a new tick, forgets its transaction.
Forgotten ==
  \/ pc' \in {"idle", "rollback", "acquired", "boot", "compile", "rootReady",
              "plan", "governor", "opening", "splitting", "phase1", "maker",
              "invalidate", "restored", "closeCheck", "closing",
              "closureGate", "succeed"}
  \/ pc' \in {"promote", "finalize"} /\ gate'.decision # "admit"

LEMMA ForgottenRevision == Forgotten => TxRevision'
  BY DEF Forgotten, TxRevision

\* The Gate admits nothing above the ceiling.
LEMMA AboveRefused ==
  ASSUME Above, NEW a PROVE Decide(NodeInput, counts, a).decision # "admit"
  BY DEF Above, NodeInput, Decide, Repair, Decision

LEMMA NodeGateRevision ==
  ASSUME TxRevision, NodeGate PROVE TxRevision'
<1>1. PICK a \in AmendedPicks(NodeInput) :
        LET d == Decide(NodeInput, counts, a) IN
          /\ gate' = d
          /\ pc' = CASE d.decision = "admit" -> "satisfy"
                     [] d.decision = "abort" -> "abort"
                     [] OTHER -> "finalize"
  BY DEF NodeGate, GateDecided
<1>2. pc = "gate" /\ tx' = tx /\ worldRev' = worldRev
  BY DEF NodeGate, txs
<1>3. gate'.decision = "admit" => ~Above
  BY <1>1, AboveRefused
<1> QED
  BY <1>1, <1>2, <1>3 DEF TxRevision

LEMMA ClosureGateRevision ==
  ASSUME ClosureGate PROVE TxRevision'
<1>1. PICK a \in AmendedPicks(ClosureInput) :
        LET d == Decide(ClosureInput, counts, a) IN
          /\ gate' = d
          /\ pc' = CASE d.decision = "admit" -> "satisfy"
                     [] d.decision = "abort" -> "abort"
                     [] OTHER -> "finalize"
  BY DEF ClosureGate, GateDecided
<1>2. gate'.closure = ClosureInput.closure
  BY <1>1, DecideAnswers
<1>3. gate'.closure
  BY <1>2 DEF ClosureInput
<1> QED
  BY <1>1, <1>3 DEF TxRevision

\* What is left: the steps with a transaction, and the stutters.
LEMMA RevisionSteps ==
  ASSUME Next, TickOrder, TxRevision
  PROVE  \/ Forgotten
         \/ UNCHANGED <<pc, tx, gate, worldRev>>
         \/ \E c \in Claims : TransactionPrepared(c)
         \/ ApplyReplayed \/ ApplyReadOnly \/ ApplyWrites \/ SaveLedger
         \/ TransactionObserved \/ EvidenceRecorded \/ AmendmentProposed
         \/ ObligationAmended \/ NodeGate \/ ObligationSatisfied \/ Promote
         \/ ClosureGate
<1>1. EndTick => Forgotten
  BY DEF EndTick, Forgotten
<1>2. SplitCommitted => Forgotten
  BY DEF SplitCommitted, Go, Forgotten, TickOrder, PlanningTx, InPlanning,
         Planning, NoGate, Decision
<1>3. RunAborted => Forgotten
  BY <1>1 DEF RunAborted, Go, Forgotten, TxRevision
<1> QED
  BY <1>1, <1>2, <1>3
     DEF Next, TickStep, Forgotten, proj, local, txs, Go, Done, AfterAcquire,
         Begin, RecoverRollback, Reopen, RecoveryCompleted, CheckGoalDrift,
         Bootstrapped, RunCreated, GoalCompiled, RootReady, Plan,
         GovernorDeclines, GovernorSplits, ObligationOpened, Phase1,
         ContractAssembled, PrepareRefused, RunSucceeded,
         TransactionCommitted, ObligationInvalidated, Restore,
         TransactionUndone, LeavePrepared, CloseCheck, ClosureContract,
         ClosureRepaired, StageFails, ApplyFails, Crash, EditGoal

LEMMA TxRevisionStep ==
  ASSUME KeysRefused, TypeOK, TickOrder, TxRevision, [Next]_vars
  PROVE  TxRevision'
<1> USE TypeFacts
<1>1. CASE Forgotten
  BY <1>1, ForgottenRevision
<1>2. CASE UNCHANGED <<pc, tx, gate, worldRev>>
  BY <1>2 DEF TxRevision, Above
<1>3. ASSUME NEW c \in Claims, TransactionPrepared(c) PROVE TxRevision'
  BY <1>3, ClaimFacts
     DEF TransactionPrepared, NoTx, TxRevision, KeysRefused
<1>4. CASE ApplyReplayed
  BY <1>4 DEF ApplyReplayed, Fresh, TxRevision, Above, TickTypes, TxType, Classes
<1>5. CASE ApplyReadOnly
  BY <1>5 DEF ApplyReadOnly, TxRevision, Above, proj, txs, TickTypes, TxType
<1>6. CASE ApplyWrites
  BY <1>6 DEF ApplyWrites, TxRevision, Above, proj, txs, TickTypes, TxType
<1>7. CASE SaveLedger
  BY <1>7 DEF SaveLedger, Go, TxRevision, Above, proj, txs
<1>8. CASE TransactionObserved
  BY <1>8 DEF TransactionObserved, Go, TxRevision, Above
<1>9. CASE EvidenceRecorded
  BY <1>9 DEF EvidenceRecorded, TxRevision, Above, txs
<1>10. CASE AmendmentProposed
  BY <1>10 DEF AmendmentProposed, Go, TxRevision, Above, txs
<1>11. CASE ObligationAmended
  BY <1>11 DEF ObligationAmended, Go, TxRevision, Above, txs
<1>12. CASE NodeGate
  BY <1>12, NodeGateRevision
<1>13. CASE ObligationSatisfied
  BY <1>13 DEF ObligationSatisfied, Go, AfterSatisfied, TxRevision, Above, txs
<1>14. CASE Promote
  BY <1>14 DEF Promote, Done, Go, TxRevision, Above, txs
<1>15. CASE ClosureGate
  BY <1>15, ClosureGateRevision
<1> QED
  BY <1>1, <1>2, <1>3, <1>4, <1>5, <1>6, <1>7, <1>8, <1>9, <1>10, <1>11,
     <1>12, <1>13, <1>14, <1>15, RevisionSteps DEF vars, proj, local, txs

\* The steps that change an obligation's revision, or the run's.
LEMMA ObligationSteps ==
  ASSUME Next
  PROVE  \/ UNCHANGED <<oblStatus, oblRev, worldRev>>
         \/ GoalCompiled \/ ObligationOpened \/ TransactionObserved
         \/ ObligationAmended \/ ObligationSatisfied
         \/ TransactionCommitted \/ ObligationInvalidated
  BY DEF Next, TickStep, proj, obls, txs, Begin, RecoverRollback, Reopen,
         RecoveryCompleted, CheckGoalDrift, Bootstrapped, RunCreated,
         RootReady, Plan, GovernorDeclines, GovernorSplits, SplitCommitted,
         Promote, Phase1, ContractAssembled, TransactionPrepared,
         PrepareRefused, ApplyReplayed, ApplyReadOnly, ApplyWrites,
         SaveLedger, EvidenceRecorded, AmendmentProposed, NodeGate,
         RunSucceeded, RunAborted, Restore, TransactionUndone, LeavePrepared,
         CloseCheck, ClosureContract, ClosureGate, ClosureRepaired,
         StageFails, ApplyFails, Crash, EditGoal

LEMMA ReachedStep ==
  ASSUME TypeOK, TickOrder, TxRevision, RevisionsReached, [Next]_vars
  PROVE  RevisionsReached'
<1> USE TypeFacts DEF RevisionsReached, SatisfiedObl, ProjectionTypes
<1>1. CASE UNCHANGED <<oblStatus, oblRev, worldRev>>
  BY <1>1
<1>2. CASE GoalCompiled
  BY <1>2 DEF GoalCompiled, txs
<1>3. CASE ObligationOpened
  BY <1>3 DEF ObligationOpened, txs
<1>4. CASE TransactionObserved
  BY <1>4 DEF TransactionObserved, obls
<1>5. CASE ObligationAmended
  BY <1>5 DEF ObligationAmended, txs
<1>6. CASE ObligationSatisfied
  <2>1. gate.closure \/ tx.cand = worldRev
    BY <1>6 DEF ObligationSatisfied, TxRevision
  <2>2. \E o \in Obl :
          /\ oblStatus' = [oblStatus EXCEPT ![o] = "satisfied"]
          /\ oblRev' = [oblRev EXCEPT ![o] = worldRev]
    BY <1>6, <2>1 DEF ObligationSatisfied
  <2>3. worldRev' = worldRev
    BY <1>6 DEF ObligationSatisfied, txs
  <2> QED
    BY <2>2, <2>3
<1>7. CASE TransactionCommitted
  <2>1. ~gate.closure
    BY <1>7 DEF TransactionCommitted, TickOrder, StageFacts
  <2>2. tx.cand = worldRev
    BY <1>7, <2>1 DEF TransactionCommitted, TxRevision
  <2>3. worldRev' >= worldRev
    BY <1>7, <2>2 DEF TransactionCommitted, CommitRev
  <2>4. worldRev' \in Nat
    BY <1>7 DEF TransactionCommitted, CommitRev
  <2> QED
    BY <1>7, <2>3, <2>4 DEF TransactionCommitted, obls
<1>8. CASE ObligationInvalidated
  BY <1>8 DEF ObligationInvalidated, txs
<1> QED
  BY <1>1, <1>2, <1>3, <1>4, <1>5, <1>6, <1>7, <1>8, ObligationSteps
     DEF vars, proj, obls, txs

\* When no reversible claim carries an idempotency key, no obligation is
\* attested at a revision the run has not reached.
THEOREM RevisionsAreReached == KeysRefused => (Spec => []RevisionsReached)
<1> SUFFICES ASSUME KeysRefused PROVE Spec => []RevisionsReached
  OBVIOUS
<1>1. Init => TypeOK /\ TickOrder /\ TxRevision /\ RevisionsReached
  BY TypeInit, OrderInit DEF Init, TxRevision, RevisionsReached, SatisfiedObl
<1>2. TypeOK /\ TickOrder /\ TxRevision /\ RevisionsReached /\ [Next]_vars
        => (TypeOK /\ TickOrder /\ TxRevision /\ RevisionsReached)'
  BY TypeStep, OrderStep, TxRevisionStep, ReachedStep
<1> QED
  BY <1>1, <1>2, PTL DEF Spec
-----------------------------------------------------------------------------
(* Success *)

Ended == runStatus \in Terminal

OthersSettled == \A t \in 1..MaxTicks : t # ticks => txState[t] # "prepared"

\* The contract's node can be worked on ...
Workable == Unamended(cur) /\ DepsSatisfied(cur)

\* ... and would be selected again.
Selectable == nodeStatus[cur] = "ready" /\ Workable

\* The contract's node stays workable until the Gate, where a repair makes it
\* selectable again: its transaction may stay prepared, but the run does not
\* close over it.
WorkFacts ==
  /\ pc \in Contracted \ {"amend"} => Workable
  /\ pc = "amend" => /\ DepsSatisfied(cur)
                     /\ \A o \in amendments \cap Refs(cur) : First(o, todo)
  /\ pc = "abort" => gate.decision # "admit"
  /\ pc = "finalize" /\ ~gate.closure /\ gate.decision # "admit" =>
       Ended \/ Selectable
  /\ pc = "promote" => gate = NoGate \/ gate.decision = "admit"
  /\ pc = "satisfy" => gate.decision = "admit"

LEMMA WorkableKept ==
  ASSUME nodeStatus' = nodeStatus, amendments' = amendments, cur' = cur
  PROVE  Workable' = Workable /\ Selectable' = Selectable
  BY DEF Workable, Selectable, Unamended, DepsSatisfied

\* A node's own status is not among its dependencies.
LEMMA OwnStatus ==
  ASSUME TypeOK, NEW n \in Node, NEW s, nodeStatus' = [nodeStatus EXCEPT ![n] = s]
  PROVE  DepsSatisfied(n)' = DepsSatisfied(n)
<1>1. n > 1 => n - 1 \in Node /\ n - 1 # n
  BY TreeFacts DEF Node, Child, Root
<1> QED
  BY <1>1, TypeFacts DEF DepsSatisfied, ProjectionTypes

LEMMA ContractWorkable ==
  ASSUME TypeOK, NEW n \in Node, ContractAssembled(n)
  PROVE  Workable'
<1>1. Unamended(n) /\ DepsSatisfied(n)
  BY DEF ContractAssembled, Selected, ReadyPool
<1>2. /\ nodeStatus' = [nodeStatus EXCEPT ![n] = "in_progress"]
      /\ cur' = n /\ amendments' = amendments
  BY DEF ContractAssembled, obls
<1>3. DepsSatisfied(n)'
  BY <1>1, <1>2, OwnStatus
<1>4. Unamended(n)'
  BY <1>1, <1>2 DEF Unamended
<1> QED
  BY <1>2, <1>3, <1>4 DEF Workable

LEMMA NodeGateWork ==
  ASSUME TypeOK, WorkFacts, NodeGate
  PROVE  WorkFacts'
<1>1. PICK a \in AmendedPicks(NodeInput) :
        LET d == Decide(NodeInput, counts, a) IN
          /\ gate' = d
          /\ nodeStatus' = [nodeStatus EXCEPT ![cur] =
               CASE d.decision = "admit" -> "admitted"
                 [] d.decision = "repair" -> "ready"
                 [] OTHER -> "failed"]
          /\ pc' = CASE d.decision = "admit" -> "satisfy"
                     [] d.decision = "abort" -> "abort"
                     [] OTHER -> "finalize"
  BY DEF NodeGate, GateDecided
<1>2. cur' = cur /\ amendments' = amendments /\ cur \in Node /\ Workable
  BY TypeFacts DEF NodeGate, obls, TickTypes, WorkFacts, Contracted
<1>3. gate'.decision \in {"admit", "repair", "abort"}
  BY <1>1, DecideAnswers
<1>4. Workable'
  <2>1. DepsSatisfied(cur)' = DepsSatisfied(cur)
    <3>1. PICK n \in Node : n = cur
      BY <1>2
    <3>2. \E s : nodeStatus' = [nodeStatus EXCEPT ![n] = s]
      BY <1>1, <3>1
    <3> QED
      BY <1>2, <3>1, <3>2, OwnStatus DEF DepsSatisfied
  <2> QED
    BY <1>2, <2>1 DEF Workable, Unamended
<1>5. gate'.decision = "repair" => nodeStatus'[cur'] = "ready"
  BY <1>1, <1>2, TypeFacts DEF ProjectionTypes
<1> QED
  BY <1>1, <1>3, <1>4, <1>5 DEF WorkFacts, Selectable, Contracted

LEMMA ClosureGateWork ==
  ASSUME ClosureGate PROVE WorkFacts'
<1>1. PICK a \in AmendedPicks(ClosureInput) :
        LET d == Decide(ClosureInput, counts, a) IN
          /\ gate' = d
          /\ pc' = CASE d.decision = "admit" -> "satisfy"
                     [] d.decision = "abort" -> "abort"
                     [] OTHER -> "finalize"
  BY DEF ClosureGate, GateDecided
<1>2. gate'.closure = ClosureInput.closure
  BY <1>1, DecideAnswers
<1> QED
  BY <1>1, <1>2 DEF WorkFacts, Contracted, ClosureInput

\* Stages WorkFacts says nothing of.
Unbound ==
  \/ pc' \notin Contracted \cup {"satisfy", "abort", "finalize", "promote"}
  \/ pc' = "satisfy" /\ gate'.decision = "admit"
  \/ pc' = "finalize" /\ (gate'.closure \/ gate'.decision = "admit")
  \/ pc' = "promote" /\ (gate' = NoGate \/ gate'.decision = "admit")

\* The steps into the stages WorkFacts speaks of.
LEMMA WorkSteps ==
  ASSUME Next, TickOrder, WorkFacts
  PROVE  \/ Unbound
         \/ \E n \in Node : ContractAssembled(n)
         \/ NodeGate \/ ClosureGate \/ RunAborted
         \/ EvidenceRecorded \/ AmendmentProposed \/ ObligationAmended
         \/ /\ pc \in {"maker", "apply", "ledger", "observe"}
            /\ pc' \in {"apply", "ledger", "observe", "checker"}
            /\ UNCHANGED <<nodeStatus, amendments, cur>>
         \/ UNCHANGED <<pc, nodeStatus, amendments, cur, todo, gate, runStatus>>
<1>1. EndTick => Unbound
  BY DEF EndTick, Unbound, Contracted
<1>2. ObligationSatisfied => Unbound
  BY DEF ObligationSatisfied, Go, AfterSatisfied, Unbound, Contracted, WorkFacts
<1>3. Promote => Unbound
  BY DEF Promote, Done, Go, Unbound, Contracted, WorkFacts
<1>4. SplitCommitted => Unbound
  BY DEF SplitCommitted, Go, Unbound, Contracted, TickOrder, PlanningTx,
         InPlanning, Planning
<1>5. (\E c \in Claims : TransactionPrepared(c)) \/ ApplyReplayed
        \/ ApplyReadOnly \/ ApplyWrites \/ SaveLedger \/ TransactionObserved =>
        /\ pc \in {"maker", "apply", "ledger", "observe"}
        /\ pc' \in {"apply", "ledger", "observe", "checker"}
        /\ UNCHANGED <<nodeStatus, amendments, cur>>
  BY DEF proj, tree, obls, Go, TransactionPrepared, ApplyReplayed,
         ApplyReadOnly, ApplyWrites, SaveLedger, TransactionObserved
<1>6. EditGoal \/ Crash \/ ApplyFails \/ StageFails \/ CloseCheck
        \/ (\E c \in Claims : PrepareRefused(c)) \/ RunSucceeded
        \/ ClosureRepaired \/ ClosureContract \/ LeavePrepared
        \/ TransactionUndone \/ Restore \/ ObligationInvalidated
        \/ TransactionCommitted =>
        \/ Unbound
        \/ UNCHANGED <<pc, nodeStatus, amendments, cur, todo, gate, runStatus>>
  BY <1>1
     DEF Unbound, Contracted, proj, tree, obls, local, Go, Done, EditGoal,
         Crash, ApplyFails, StageFails, CloseCheck, PrepareRefused,
         RunSucceeded, ClosureRepaired, ClosureContract, LeavePrepared,
         TransactionUndone, Restore, ObligationInvalidated,
         TransactionCommitted
<1>7. Begin \/ RecoverRollback \/ Reopen \/ RecoveryCompleted
        \/ CheckGoalDrift \/ Bootstrapped \/ RunCreated \/ GoalCompiled
        \/ RootReady \/ Plan \/ GovernorDeclines \/ GovernorSplits
        \/ ObligationOpened \/ Phase1 => Unbound
  BY <1>1
     DEF Unbound, Contracted, local, Go, Done, AfterAcquire, Begin,
         RecoverRollback, Reopen, RecoveryCompleted, CheckGoalDrift,
         Bootstrapped, RunCreated, GoalCompiled, RootReady, Plan,
         GovernorDeclines, GovernorSplits, ObligationOpened, Phase1
<1> QED
  BY <1>2, <1>3, <1>4, <1>5, <1>6, <1>7 DEF Next, TickStep
LEMMA WorkStep ==
  ASSUME TypeOK, TickOrder, WorkFacts, [Next]_vars
  PROVE  WorkFacts'
<1> USE WorkableKept
<1>1. CASE Unbound
  BY <1>1 DEF Unbound, WorkFacts, Contracted
<1>2. ASSUME NEW n \in Node, ContractAssembled(n) PROVE WorkFacts'
  BY <1>2, ContractWorkable DEF ContractAssembled, WorkFacts, Contracted
<1>3. CASE NodeGate
  BY <1>3, NodeGateWork
<1>4. CASE ClosureGate
  BY <1>4, ClosureGateWork
<1>5. CASE RunAborted
  <2>1. pc = "abort" /\ runStatus' = "aborted"
    BY <1>5 DEF RunAborted
  <2>2. pc' \in {"idle", "finalize"}
    BY <1>5 DEF RunAborted, EndTick, Go
  <2> QED
    BY <2>1, <2>2 DEF WorkFacts, Contracted, Ended, Terminal
<1>6. CASE EvidenceRecorded
  BY <1>6 DEF EvidenceRecorded, WorkFacts, Contracted, tree, obls
<1>7. CASE AmendmentProposed
  <2>1. /\ pc = "propose" /\ pc' = "amend" /\ todo' = todo /\ cur' = cur
        /\ nodeStatus' = nodeStatus
    BY <1>7 DEF AmendmentProposed, Go, tree
  <2>2. \E o \in todo : First(o, todo) /\ amendments' = amendments \cup {o}
    BY <1>7 DEF AmendmentProposed
  <2>3. DepsSatisfied(cur) /\ amendments \cap Refs(cur) = {}
    BY <2>1 DEF WorkFacts, Contracted, Workable, Unamended
  <2>4. DepsSatisfied(cur)'
    BY <2>1, <2>3 DEF DepsSatisfied
  <2>5. \A o \in (amendments \cap Refs(cur))' : First(o, todo)'
    BY <2>1, <2>2, <2>3 DEF First
  <2> QED
    BY <2>1, <2>4, <2>5 DEF WorkFacts, Contracted
<1>8. CASE ObligationAmended
  <2>1. /\ pc = "amend" /\ pc' \in {"gate", "propose"} /\ cur' = cur
        /\ nodeStatus' = nodeStatus
    BY <1>8 DEF ObligationAmended, Go, tree
  <2>2. PICK o \in todo : First(o, todo) /\ amendments' = amendments \ {o}
    BY <1>8 DEF ObligationAmended
  <2>3. /\ DepsSatisfied(cur)
        /\ \A q \in amendments \cap Refs(cur) : First(q, todo)
    BY <2>1 DEF WorkFacts
  <2>4. ASSUME NEW q \in amendments \cap Refs(cur) PROVE q = o
    <3>1. q \in Nat /\ o \in Nat
      BY <2>1, <2>2, TypeFacts, TreeFacts DEF ProjectionTypes
    <3>2. q <= o /\ o <= q
      BY <2>2, <2>3 DEF First
    <3> QED
      BY <3>1, <3>2
  <2>5. DepsSatisfied(cur)' /\ Unamended(cur)'
    BY <2>1, <2>2, <2>3, <2>4 DEF DepsSatisfied, Unamended
  <2> QED
    BY <2>1, <2>5 DEF WorkFacts, Contracted, Workable
<1>9. CASE /\ pc \in {"maker", "apply", "ledger", "observe"}
           /\ pc' \in {"apply", "ledger", "observe", "checker"}
           /\ UNCHANGED <<nodeStatus, amendments, cur>>
  BY <1>9 DEF WorkFacts, Contracted
<1>10. CASE UNCHANGED <<pc, nodeStatus, amendments, cur, todo, gate, runStatus>>
  <2>1. DepsSatisfied(cur)' = DepsSatisfied(cur)
    BY <1>10 DEF DepsSatisfied
  <2> QED
    BY <1>10, <2>1 DEF WorkFacts, Contracted, Ended, First
<1> QED
  BY <1>1, <1>2, <1>3, <1>4, <1>5, <1>6, <1>7, <1>8, <1>9, <1>10, WorkSteps
     DEF vars, proj, tree, obls, local

\* Nothing prepared is left behind on the way to a closure, except by a node
\* that keeps the run from closing.
Settling ==
  /\ InOpen => Ended \/ OthersSettled
  /\ pc = "invalidate" => (Ended \/ NonePrepared) /\ runStatus # "succeeded"
  /\ pc = "closeCheck" => Ended \/ NonePrepared \/ Selectable
  /\ pc \in {"closing", "closureGate"} => NonePrepared
  /\ pc = "succeed" \/ (pc = "satisfy" /\ gate.closure) =>
       NonePrepared /\ RootObl \subseteq SatisfiedObl

\* A closure gate admits only what every root obligation's own status says.
LEMMA AdmittedSatisfied ==
  ASSUME NEW a, Decide(ClosureInput, counts, a).decision = "admit"
  PROVE  RootObl \subseteq SatisfiedObl
<1>1. ASSUME NEW r, NEW o, NEW sat, NEW open
      PROVE  Repair(ClosureInput, counts, r, o, sat, open).decision # "admit"
  BY DEF Repair, Decision
<1>2. DecidePending(ClosureInput, counts).decision = "admit"
  BY <1>1 DEF Decide, UnattestedRepair
<1>3. Pending(ClosureInput) = {}
  BY <1>1, <1>2 DEF DecidePending, Decision
<1>4. \A o \in RootObl : ClosureInput.verdict[o] # "unsatisfied"
  BY <1>3 DEF Pending, ClosureInput
<1> QED
  BY <1>4, TreeFacts DEF ClosureInput, SatisfiedObl

LEMMA ClosureGateSettles ==
  ASSUME TypeOK, Settling, ClosureGate
  PROVE  Settling'
<1>1. PICK a \in AmendedPicks(ClosureInput) :
        LET d == Decide(ClosureInput, counts, a) IN
          /\ gate' = d
          /\ pc' = CASE d.decision = "admit" -> "satisfy"
                     [] d.decision = "abort" -> "abort"
                     [] OTHER -> "finalize"
  BY DEF ClosureGate, GateDecided
<1>2. gate'.closure = ClosureInput.closure
  BY <1>1, DecideAnswers
<1>3. gate'.closure /\ NonePrepared
  BY <1>2 DEF ClosureInput, ClosureGate, Settling
<1>4. oblStatus' = oblStatus /\ txState' = txState
  BY DEF ClosureGate, obls, txs
<1>5. pc' = "satisfy" => RootObl \subseteq SatisfiedObl
  BY <1>1, AdmittedSatisfied
<1> QED
  BY <1>1, <1>3, <1>4, <1>5
     DEF Settling, InOpen, Open, Deciding, NonePrepared, SatisfiedObl
\* What Settling speaks of.
Settled == pc' \notin Open \cup Deciding
             \cup {"promote", "invalidate", "closeCheck", "closing",
                   "closureGate", "succeed"}

\* The steps into the stages Settling speaks of.
LEMMA SettlingSteps ==
  ASSUME Next, TickOrder
  PROVE  \/ Settled
         \/ UNCHANGED <<pc, gate, runStatus, oblStatus, txState, ticks, cur,
                        amendments, nodeStatus>>
         \/ /\ InOpen /\ InOpen' /\ pc' # "satisfy"
            /\ UNCHANGED <<runStatus, txState, ticks>>
         \/ \E c \in Claims : TransactionPrepared(c)
         \/ ClosureGate \/ NodeGate \/ ObligationSatisfied \/ RunAborted
         \/ CheckGoalDrift \/ SplitCommitted \/ Promote \/ Phase1
         \/ TransactionCommitted \/ ObligationInvalidated \/ TransactionUndone
         \/ LeavePrepared \/ CloseCheck \/ ClosureContract
<1>1. EndTick => Settled
  BY DEF EndTick, Settled, Open, Deciding
<1>2. ApplyReplayed \/ ApplyReadOnly \/ ApplyWrites \/ SaveLedger
        \/ TransactionObserved \/ EvidenceRecorded \/ AmendmentProposed
        \/ ObligationAmended \/ Restore =>
        /\ InOpen /\ InOpen' /\ pc' # "satisfy"
        /\ UNCHANGED <<runStatus, txState, ticks>>
  BY DEF InOpen, Open, Deciding, proj, txs, bounds, Go, ApplyReplayed,
         ApplyReadOnly, ApplyWrites, SaveLedger, TransactionObserved,
         EvidenceRecorded, AmendmentProposed, ObligationAmended, Restore
<1>3. EditGoal =>
        UNCHANGED <<pc, gate, runStatus, oblStatus, txState, ticks, cur,
                    amendments, nodeStatus>>
  BY DEF EditGoal, proj, tree, obls, txs, local, bounds
<1>4. Crash \/ ApplyFails \/ StageFails \/ RunSucceeded \/ ClosureRepaired
        \/ (\E c \in Claims : PrepareRefused(c)) => Settled
  BY <1>1 DEF Crash, ApplyFails, StageFails, PrepareRefused, RunSucceeded,
         ClosureRepaired
<1>5. Begin \/ RecoverRollback \/ Reopen \/ RecoveryCompleted
        \/ Bootstrapped \/ RunCreated \/ GoalCompiled \/ RootReady \/ Plan
        \/ GovernorDeclines \/ GovernorSplits \/ ObligationOpened
        \/ (\E n \in Node : ContractAssembled(n)) => Settled
  BY DEF Settled, Open, Deciding, local, Go, Done, AfterAcquire, Begin,
         RecoverRollback, Reopen, RecoveryCompleted, Bootstrapped, RunCreated,
         GoalCompiled, RootReady, Plan, GovernorDeclines, GovernorSplits,
         ObligationOpened, ContractAssembled
<1> QED
  BY <1>2, <1>3, <1>4, <1>5 DEF Next, TickStep

LEMMA SettlingStep ==
  ASSUME TypeOK, TickOrder, WorkFacts, Settling, [Next]_vars
  PROVE  Settling'
<1> USE DEF Settling, InOpen, Open, Deciding
<1>0. Ended => Ended'
  BY EndedStep DEF Ended
<1>1. CASE Settled
  BY <1>1 DEF Settled
<1>2. CASE UNCHANGED <<pc, gate, runStatus, oblStatus, txState, ticks, cur,
                       amendments, nodeStatus>>
  <2>1. /\ Ended' = Ended /\ OthersSettled' = OthersSettled
        /\ NonePrepared' = NonePrepared /\ SatisfiedObl' = SatisfiedObl
    BY <1>2 DEF Ended, OthersSettled, NonePrepared, SatisfiedObl
  <2> QED
    BY <1>2, <2>1, WorkableKept
<1>3. CASE /\ InOpen /\ InOpen' /\ pc' # "satisfy"
           /\ UNCHANGED <<runStatus, txState, ticks>>
  BY <1>3 DEF Ended, OthersSettled
<1>4. ASSUME NEW c \in Claims, TransactionPrepared(c) PROVE Settling'
  <2>1. pc = "maker" /\ pc' = "apply" /\ ticks' = ticks
    BY <1>4 DEF TransactionPrepared, bounds
  <2>2. Ended \/ NonePrepared
    BY <2>1 DEF TickOrder, PlanningTx, InPlanning, Planning, Ended
  <2>3. NonePrepared => OthersSettled'
    BY <1>4, <2>1, TypeFacts
       DEF TransactionPrepared, NonePrepared, OthersSettled, ProjectionTypes
  <2> QED
    BY <1>0, <2>1, <2>2, <2>3
<1>5. CASE ClosureGate
  BY <1>5, ClosureGateSettles
<1>6. CASE NodeGate
  <2>1. pc' \in Deciding /\ gate'.closure = NodeInput.closure
    BY <1>6, GateMoves DEF NodeGate
  <2>2. ~gate'.closure
    BY <2>1 DEF NodeInput
  <2> QED
    BY <1>6, <2>1, <2>2 DEF NodeGate, txs, bounds, Ended, OthersSettled
<1>7. CASE ObligationSatisfied
  <2>1. pc = "satisfy" /\ gate' = gate /\ pc' \in {"satisfy", "succeed", "promote", "finalize"}
    BY <1>7 DEF ObligationSatisfied, Go, AfterSatisfied
  <2>2. pc' = "succeed" => gate.closure
    BY <1>7 DEF ObligationSatisfied, Go, AfterSatisfied
  <2>3. pc' \in {"promote", "finalize"} => ~gate.closure
    BY <1>7 DEF ObligationSatisfied, Go, AfterSatisfied
  <2>4. /\ Ended' = Ended /\ OthersSettled' = OthersSettled
        /\ NonePrepared' = NonePrepared
    BY <1>7 DEF ObligationSatisfied, txs, bounds, Ended, OthersSettled, NonePrepared
  <2>5. SatisfiedObl \subseteq SatisfiedObl'
    BY <1>7, TypeFacts DEF ObligationSatisfied, SatisfiedObl, ProjectionTypes
  <2> QED
    BY <2>1, <2>2, <2>3, <2>4, <2>5
<1>8. CASE RunAborted
  BY <1>8 DEF RunAborted, EndTick, Go, Ended, Terminal
<1>9. CASE CheckGoalDrift
  BY <1>9 DEF CheckGoalDrift, Go, AfterAcquire, TickOrder, PlanningTx,
       InPlanning, Planning, Ended, Terminal, NonePrepared, txs
<1>10. CASE SplitCommitted
  BY <1>10 DEF SplitCommitted, Go, TickOrder, PlanningTx, InPlanning, Planning
<1>11. CASE Promote
  BY <1>11 DEF Promote, Done, Go, TickOrder, StageFacts, Ended, OthersSettled,
       txs, bounds
<1>12. CASE Phase1
  BY <1>12 DEF Phase1, Go, EndTick, ClosureNeeded, TickOrder, PlanningTx,
       InPlanning, Planning, NonePrepared, Terminal, proj, txs
<1>13. CASE TransactionCommitted
  <2>1. Ended \/ OthersSettled
    BY <1>13 DEF TransactionCommitted, TickOrder, StageFacts
  <2>2. OthersSettled => NonePrepared'
    BY <1>13, TypeFacts
       DEF TransactionCommitted, OthersSettled, NonePrepared,
           ProjectionTypes
  <2>3. runStatus' = runStatus /\ runStatus # "succeeded"
    BY <1>13 DEF TransactionCommitted, TickOrder, StageFacts, Engaged
  <2> QED
    BY <1>0, <1>13, <2>1, <2>2, <2>3 DEF TransactionCommitted, Go
<1>14. CASE ObligationInvalidated
  BY <1>14 DEF ObligationInvalidated, Done, Go, txs, Ended, NonePrepared
<1>15. CASE TransactionUndone
  <2>1. OthersSettled => NonePrepared'
    BY <1>15, TypeFacts
       DEF TransactionUndone, OthersSettled, NonePrepared,
           ProjectionTypes
  <2> QED
    BY <1>0, <1>15, <2>1 DEF TransactionUndone, Go
<1>16. CASE LeavePrepared
  <2>1. Ended \/ Selectable
    BY <1>16 DEF LeavePrepared, WorkFacts
  <2>2. Selectable' = Selectable
    BY <1>16, WorkableKept DEF LeavePrepared, Go, proj, tree, obls
  <2> QED
    BY <1>0, <1>16, <2>1, <2>2 DEF LeavePrepared, Go
<1>17. CASE CloseCheck
  <2>1. Selectable => cur \in ReadyPool
    BY TypeFacts DEF Selectable, Workable, ReadyPool, TickTypes
  <2>2. ClosureNeeded => NonePrepared
    BY <1>17, <2>1 DEF CloseCheck, ClosureNeeded, Ended, Terminal
  <2> QED
    BY <1>17, <2>2 DEF CloseCheck, Go, EndTick, NonePrepared, proj, txs
<1>18. CASE ClosureContract
  BY <1>18 DEF ClosureContract, NonePrepared, txs
<1> QED
  BY <1>1, <1>2, <1>3, <1>4, <1>5, <1>6, <1>7, <1>8, <1>9, <1>10, <1>11,
     <1>12, <1>13, <1>14, <1>15, <1>16, <1>17, <1>18, SettlingSteps
     DEF vars, proj, tree, obls, txs, local, bounds
\* A split opens derived obligations only.
OpensDerived == pc = "opening" => todo \subseteq Derived

LEMMA OpensStep == OpensDerived /\ [Next]_vars => OpensDerived'
<1> SUFFICES ASSUME OpensDerived, Next, pc' = "opening"
             PROVE  todo' \subseteq Derived
  BY DEF OpensDerived, vars, local
<1>1. ~EndTick
  BY DEF EndTick
<1>2. pc' \notin Deciding \cup {"promote", "succeed", "finalize"}
  BY DEF Deciding
<1>3. ~NodeGate /\ ~ClosureGate
  BY <1>2, GateMoves DEF NodeGate, ClosureGate
<1> QED
  BY <1>1, <1>3
     DEF OpensDerived, Next, TickStep, local, Go, Done, AfterAcquire, Begin,
         RecoverRollback, Reopen, RecoveryCompleted, CheckGoalDrift,
         Bootstrapped, RunCreated, GoalCompiled, RootReady, Plan,
         GovernorDeclines, GovernorSplits, ObligationOpened, SplitCommitted,
         Promote, Phase1, ContractAssembled, TransactionPrepared,
         PrepareRefused, ApplyReplayed, ApplyReadOnly, ApplyWrites,
         SaveLedger, TransactionObserved, EvidenceRecorded, AmendmentProposed,
         ObligationAmended, ObligationSatisfied, AfterSatisfied, RunSucceeded,
         RunAborted, TransactionCommitted, ObligationInvalidated, Restore,
         TransactionUndone, LeavePrepared, CloseCheck, ClosureContract,
         ClosureRepaired, StageFails, ApplyFails, Crash, EditGoal

LEMMA SucceedsNow ==
  ASSUME Next, runStatus' = "succeeded"
  PROVE  runStatus = "succeeded" \/ RunSucceeded
  BY StatusSteps
     DEF Begin, RecoveryCompleted, CheckGoalDrift, Bootstrapped, RunCreated,
         GoalCompiled, RunAborted

\* What a tick of a run that has succeeded still does to the log.
LEMMA SucceededSteps ==
  ASSUME Next, TickOrder, Settling, runStatus = "succeeded"
  PROVE  /\ txState' = txState
         /\ oblStatus' = oblStatus \/ ObligationOpened
<1>1. txState' = txState
  BY TxSteps DEF RecoverRollback, TransactionPrepared, TransactionCommitted,
       TransactionUndone, TickOrder, StageFacts, Engaged, Open, Deciding
<1>2. oblStatus' = oblStatus \/ ObligationOpened
  BY ObligationSteps
     DEF GoalCompiled, TransactionObserved, ObligationAmended,
         ObligationSatisfied, TransactionCommitted, ObligationInvalidated,
         obls, TickOrder, StageFacts, Engaged, Open, Deciding, Settling
<1> QED
  BY <1>1, <1>2

LEMMA SuccessStep ==
  ASSUME TypeOK, TickOrder, Settling, OpensDerived, SuccessIsClosed, [Next]_vars
  PROVE  SuccessIsClosed'
<1> SUFFICES ASSUME runStatus' = "succeeded"
             PROVE  RootObl \subseteq SatisfiedObl' /\ NonePrepared'
  BY DEF SuccessIsClosed, NonePrepared
<1>1. CASE UNCHANGED vars
  BY <1>1 DEF vars, proj, obls, txs, SuccessIsClosed, SatisfiedObl, NonePrepared
<1>2. CASE RunSucceeded
  <2>1. RootObl \subseteq SatisfiedObl /\ NonePrepared
    BY <1>2 DEF RunSucceeded, Settling
  <2> QED
    BY <1>2, <2>1 DEF RunSucceeded, obls, txs, SatisfiedObl, NonePrepared
<1>3. CASE Next /\ runStatus = "succeeded"
  <2>1. RootObl \subseteq SatisfiedObl /\ NonePrepared
    BY <1>3 DEF SuccessIsClosed, NonePrepared
  <2>2. NonePrepared'
    BY <1>3, <2>1, SucceededSteps DEF NonePrepared
  <2>3. CASE oblStatus' = oblStatus
    BY <2>1, <2>2, <2>3 DEF SatisfiedObl
  <2>4. CASE ObligationOpened
    <3>1. PICK o \in Derived : oblStatus' = [oblStatus EXCEPT ![o] = "open"]
      BY <2>4 DEF ObligationOpened, OpensDerived
    <3>2. o \notin RootObl
      BY <3>1 DEF Derived, RootObl, Refined
    <3> QED
      BY <2>1, <2>2, <3>1, <3>2, TypeFacts DEF SatisfiedObl, ProjectionTypes
  <2> QED
    BY <1>3, <2>3, <2>4, SucceededSteps
<1> QED
  BY <1>1, <1>2, <1>3, SucceedsNow

\* A run succeeds only with every root obligation satisfied and every
\* transaction settled, and both stay so, wherever processes die, stages fail
\* or the ticks go on afterwards.
THEOREM SuccessStaysClosed == Spec => []SuccessIsClosed
<1> DEFINE Inv == /\ TypeOK /\ TickOrder /\ WorkFacts /\ Settling
                  /\ OpensDerived /\ SuccessIsClosed
<1>1. Init => Inv
  <2> SUFFICES ASSUME Init PROVE Inv
    OBVIOUS
  <2>1. TypeOK /\ TickOrder
    BY TypeInit, OrderInit
  <2>2. WorkFacts /\ Settling /\ OpensDerived /\ SuccessIsClosed
    BY DEF Init, WorkFacts, Settling, OpensDerived, SuccessIsClosed,
           InOpen, Open, Deciding, Contracted
  <2> QED
    BY <2>1, <2>2
<1>2. Inv /\ [Next]_vars => Inv'
  BY TypeStep, OrderStep, WorkStep, SettlingStep, OpensStep, SuccessStep
<1> QED
  BY <1>1, <1>2, PTL DEF Spec

-----------------------------------------------------------------------------
(***************************************************************************)
(* What the attestations are worth between ticks, as long as the process   *)
(* has not died: the transaction they were made in is committed, an        *)
(* admitted node has all its obligations, and the files that were attested *)
(* have not changed.                                                       *)
(***************************************************************************)

\* The Gate has admitted the tick's node; its transaction is not committed yet.
Admitting ==
  /\ pc \in {"satisfy", "promote", "finalize"}
  /\ gate # NoGate /\ gate.decision = "admit" /\ ~gate.closure

\* What the tick works through, and for which node.
Tasks ==
  /\ pc = "satisfy" => todo \subseteq Refs(cur)
  /\ pc \in {"propose", "amend"} => todo \subseteq Refs(cur) \ RootObl
  /\ pc = "closureGate" \/ gate.closure => cur = Root

\* Evidence is of a committed transaction, or of the one to be committed next.
EvidenceSettled ==
  crashes = 0 =>
    \A o \in SatisfiedObl :
      /\ proof[o].tx \in 1..MaxTicks
      /\ txState[proof[o].tx] = "committed" \/ (Admitting /\ proof[o].tx = ticks)

-----------------------------------------------------------------------------
(* The tasks of a tick *)

\* gate.decide reports satisfied only what the contract lists.
LEMMA DecideWithin ==
  ASSUME NEW g, NEW c, NEW a
  PROVE  Decide(g, c, a).satisfied \subseteq g.refs
<1> DEFINE Sound(d) == d.satisfied \subseteq g.refs
<1>1. Satisfied(g) \subseteq g.refs
  BY DEF Satisfied
<1>2. ASSUME NEW r, NEW o, NEW sat, NEW open, sat \subseteq g.refs
      PROVE  Sound(Repair(g, c, r, o, sat, open))
  BY <1>2 DEF Repair, Decision
<1>3. Sound(UnattestedRepair(g, c))
  BY <1>1, <1>2 DEF UnattestedRepair
<1>4. Sound(DecidePending(g, c))
  BY <1>1, <1>2 DEF DecidePending, Decision
<1>5. QED
  BY <1>1, <1>2, <1>3, <1>4 DEF Decide

LEMMA GateTasks ==
  ASSUME NEW g, GateDecided(g)
  PROVE  todo' \subseteq g.refs /\ pc' \in Deciding /\ gate'.closure = g.closure
<1>1. PICK amended \in AmendedPicks(g) :
        LET d == Decide(g, counts, amended) IN
          todo' = IF d.decision = "admit" THEN d.satisfied ELSE {}
  BY DEF GateDecided
<1> QED
  BY <1>1, DecideWithin, GateMoves

\* The steps that give the tick tasks or a node.
LEMMA TaskSteps ==
  ASSUME Next, TickOrder
  PROVE  \/ UNCHANGED <<pc, todo, cur, gate>>
         \/ /\ pc' \notin {"satisfy", "propose", "amend", "closureGate"}
            /\ ~gate'.closure \/ UNCHANGED <<gate, cur>>
         \/ NodeGate \/ ClosureGate \/ EvidenceRecorded \/ AmendmentProposed
         \/ ObligationAmended \/ ObligationSatisfied \/ ClosureContract
<1> DEFINE Other == /\ pc' \notin {"satisfy", "propose", "amend", "closureGate"}
                    /\ ~gate'.closure \/ UNCHANGED <<gate, cur>>
<1>1. EndTick => Other
  BY DEF EndTick, NoGate, Decision
<1>2. ASSUME NEW n \in Node, ContractAssembled(n) PROVE Other
  BY <1>2 DEF ContractAssembled, TickOrder, PlanningTx, InPlanning, Planning, NoGate, Decision
<1>3. Crash \/ ApplyFails \/ StageFails \/ RunSucceeded \/ ClosureRepaired
        \/ (\E c \in Claims : PrepareRefused(c)) => Other
  BY <1>1 DEF Crash, ApplyFails, StageFails, PrepareRefused, RunSucceeded, ClosureRepaired
<1>4. RunAborted \/ Phase1 \/ CloseCheck => Other
  BY <1>1 DEF RunAborted, Phase1, CloseCheck, Go
<1>5. Begin \/ RecoverRollback \/ Reopen \/ RecoveryCompleted \/ CheckGoalDrift
        \/ Bootstrapped \/ RunCreated \/ GoalCompiled \/ RootReady \/ Plan
        \/ GovernorDeclines \/ GovernorSplits \/ ObligationOpened
        \/ SplitCommitted \/ Promote => Other \/ UNCHANGED <<pc, todo, cur, gate>>
  BY DEF local, Go, Done, AfterAcquire, Begin, RecoverRollback, Reopen,
         RecoveryCompleted, CheckGoalDrift, Bootstrapped, RunCreated,
         GoalCompiled, RootReady, Plan, GovernorDeclines, GovernorSplits,
         ObligationOpened, SplitCommitted, Promote
<1>6. (\E c \in Claims : TransactionPrepared(c)) \/ ApplyReplayed \/ ApplyReadOnly
        \/ ApplyWrites \/ SaveLedger \/ TransactionObserved \/ TransactionCommitted
        \/ ObligationInvalidated \/ Restore \/ TransactionUndone \/ LeavePrepared => Other
  BY DEF Go, Done, TransactionPrepared, ApplyReplayed, ApplyReadOnly, ApplyWrites,
         SaveLedger, TransactionObserved, TransactionCommitted,
         ObligationInvalidated, Restore, TransactionUndone, LeavePrepared
<1>7. EditGoal => UNCHANGED <<pc, todo, cur, gate>>
  BY DEF EditGoal, local
<1> QED
  BY <1>2, <1>3, <1>4, <1>5, <1>6, <1>7 DEF Next, TickStep

LEMMA TasksStep ==
  ASSUME TypeOK, TickOrder, Tasks, [Next]_vars
  PROVE  Tasks'
<1> USE DEF Tasks
<1>1. CASE UNCHANGED <<pc, todo, cur, gate>>
  <2>1. Refs(cur)' = Refs(cur)
    BY <1>1 DEF Refs
  <2> QED
    BY <1>1, <2>1
<1>2. CASE /\ pc' \notin {"satisfy", "propose", "amend", "closureGate"}
           /\ ~gate'.closure \/ UNCHANGED <<gate, cur>>
  BY <1>2
<1>3. CASE NodeGate
  <2>1. todo' \subseteq NodeInput.refs /\ pc' \in Deciding /\ gate'.closure = NodeInput.closure
    BY <1>3, GateTasks DEF NodeGate
  <2>2. todo' \subseteq Refs(cur) /\ pc' \in Deciding /\ ~gate'.closure /\ cur' = cur
    BY <1>3, <2>1 DEF NodeInput, NodeGate
  <2> QED
    BY <2>2 DEF Deciding, Refs
<1>4. CASE ClosureGate
  <2>1. todo' \subseteq ClosureInput.refs /\ pc' \in Deciding
    BY <1>4, GateTasks DEF ClosureGate
  <2>2. todo' \subseteq RootObl /\ pc' \in Deciding /\ cur' = Root
    BY <1>4, <2>1 DEF ClosureInput, ClosureGate
  <2> QED
    BY <2>2 DEF Deciding, Refs
<1>5. CASE EvidenceRecorded
  BY <1>5 DEF EvidenceRecorded, Refs
<1>6. CASE AmendmentProposed
  BY <1>6 DEF AmendmentProposed, Go, Refs
<1>7. CASE ObligationAmended
  BY <1>7 DEF ObligationAmended, Go, Refs
<1>8. CASE ObligationSatisfied
  BY <1>8 DEF ObligationSatisfied, Go, AfterSatisfied, Refs
<1>9. CASE ClosureContract
  BY <1>9 DEF ClosureContract
<1> QED
  BY <1>1, <1>2, <1>3, <1>4, <1>5, <1>6, <1>7, <1>8, <1>9, TaskSteps DEF vars, local

-----------------------------------------------------------------------------
(* Evidence *)

LEMMA ProofSteps ==
  ASSUME Next PROVE proof' = proof \/ ObligationSatisfied
  BY DEF Next, TickStep, Begin, RecoverRollback, Reopen, RecoveryCompleted,
         CheckGoalDrift, Bootstrapped, RunCreated, GoalCompiled, RootReady,
         Plan, GovernorDeclines, GovernorSplits, ObligationOpened,
         SplitCommitted, Promote, Phase1, ContractAssembled,
         TransactionPrepared, PrepareRefused, ApplyReplayed, ApplyReadOnly,
         ApplyWrites, SaveLedger, TransactionObserved, EvidenceRecorded,
         AmendmentProposed, ObligationAmended, NodeGate, RunSucceeded,
         RunAborted, TransactionCommitted, ObligationInvalidated, Restore,
         TransactionUndone, LeavePrepared, CloseCheck, ClosureContract,
         ClosureGate, ClosureRepaired, StageFails, ApplyFails, Crash, EditGoal

\* Nothing but the Gate's answer satisfies an obligation.
LEMMA SatisfyingSteps ==
  ASSUME TypeOK, Next
  PROVE  \/ SatisfiedObl' \subseteq SatisfiedObl /\ proof' = proof
         \/ ObligationSatisfied
<1>1. CASE UNCHANGED oblStatus
  BY <1>1, ProofSteps DEF SatisfiedObl
<1>2. CASE GoalCompiled \/ ObligationOpened \/ ObligationAmended \/ ObligationInvalidated
  BY <1>2, TypeFacts DEF GoalCompiled, ObligationOpened, ObligationAmended,
     ObligationInvalidated, SatisfiedObl, ProjectionTypes
<1> QED
  BY <1>1, <1>2, ObligationSteps DEF TransactionObserved, TransactionCommitted, obls

\* Deaths are counted.
LEMMA CrashSteps ==
  ASSUME TypeOK, [Next]_vars, crashes' = 0
  PROVE  crashes = 0 /\ ~Crash
<1>1. crashes \in Nat
  BY DEF TypeOK, BoundTypes
<1>2. ~Crash
  BY <1>1 DEF Crash
<1>3. crashes' = crashes
  BY <1>2 DEF Next, TickStep, vars, bounds, Begin, RecoverRollback, Reopen,
         RecoveryCompleted, CheckGoalDrift, Bootstrapped, RunCreated,
         GoalCompiled, RootReady, Plan, GovernorDeclines, GovernorSplits,
         ObligationOpened, SplitCommitted, Promote, Phase1, ContractAssembled,
         TransactionPrepared, PrepareRefused, ApplyReplayed, ApplyReadOnly,
         ApplyWrites, SaveLedger, TransactionObserved, EvidenceRecorded,
         AmendmentProposed, ObligationAmended, NodeGate, ObligationSatisfied,
         RunSucceeded, RunAborted, TransactionCommitted,
         ObligationInvalidated, Restore, TransactionUndone, LeavePrepared,
         CloseCheck, ClosureContract, ClosureGate, ClosureRepaired,
         StageFails, ApplyFails, EditGoal
<1> QED
  BY <1>2, <1>3

\* What is committed stays committed.
LEMMA CommittedStays ==
  ASSUME TypeOK, TickOrder, Next, NEW t \in 1..MaxTicks, txState[t] = "committed"
  PROVE  txState'[t] = "committed"
<1> USE TypeFacts DEF ProjectionTypes
<1>1. CASE RecoverRollback
  BY <1>1 DEF RecoverRollback, Dangling
<1>2. ASSUME NEW c \in Claims, TransactionPrepared(c) PROVE txState'[t] = "committed"
  <2>1. t # ticks
    BY <1>2 DEF TransactionPrepared, TickOrder, PlanningTx, InPlanning, Planning
  <2> QED
    BY <1>2, <2>1 DEF TransactionPrepared
<1>3. CASE TransactionCommitted
  BY <1>3 DEF TransactionCommitted
<1>4. CASE TransactionUndone
  <2>1. t # ticks
    BY <1>4 DEF TransactionUndone, TickOrder, OpenTx, InOpen, Open
  <2> QED
    BY <1>4, <2>1 DEF TransactionUndone
<1> QED
  BY <1>1, <1>2, <1>3, <1>4, TxSteps

\* A node that was admitted goes on to the commit.
LEMMA AdmittingSteps ==
  ASSUME Next, Admitting, ~Crash
  PROVE  TransactionCommitted \/ (Admitting' /\ UNCHANGED <<ticks, disk, tx>>)
<1>1. /\ pc \in {"satisfy", "promote", "finalize"} /\ gate # NoGate
      /\ gate.decision = "admit" /\ ~gate.closure
  BY DEF Admitting
<1>2. \/ ObligationSatisfied \/ Promote \/ TransactionCommitted \/ EditGoal
  BY <1>1 DEF Next, TickStep, Begin, RecoverRollback, Reopen,
         RecoveryCompleted, CheckGoalDrift, Bootstrapped, RunCreated,
         GoalCompiled, RootReady, Plan, GovernorDeclines, GovernorSplits,
         ObligationOpened, SplitCommitted, Phase1, ContractAssembled,
         TransactionPrepared, PrepareRefused, ApplyReplayed, ApplyReadOnly,
         ApplyWrites, SaveLedger, TransactionObserved, EvidenceRecorded,
         AmendmentProposed, ObligationAmended, NodeGate,
         RunSucceeded, RunAborted,
         ObligationInvalidated, Restore, TransactionUndone, LeavePrepared,
         CloseCheck, ClosureContract, ClosureGate, ClosureRepaired,
         StageFails, ApplyFails
<1>3. CASE ObligationSatisfied
  BY <1>1, <1>3 DEF ObligationSatisfied, Go, AfterSatisfied, Admitting, bounds, world
<1>4. CASE Promote
  BY <1>1, <1>4 DEF Promote, Done, Go, Admitting, bounds, world
<1>5. CASE EditGoal
  BY <1>1, <1>5 DEF EditGoal, local, Admitting, bounds
<1> QED
  BY <1>2, <1>3, <1>4, <1>5

LEMMA EvidenceStep ==
  ASSUME TypeOK, TickOrder, WorkFacts, Settling, Tasks, EvidenceSettled, [Next]_vars
  PROVE  EvidenceSettled'
<1> SUFFICES ASSUME crashes' = 0, NEW o \in SatisfiedObl'
             PROVE  /\ proof'[o].tx \in 1..MaxTicks
                    /\ \/ txState'[proof'[o].tx] = "committed"
                       \/ Admitting' /\ proof'[o].tx = ticks'
  BY DEF EvidenceSettled
<1>1. crashes = 0 /\ ~Crash
  BY CrashSteps
<1>2. o \in Obl
  BY DEF SatisfiedObl
<1>3. ASSUME o \in SatisfiedObl, proof'[o] = proof[o], Next
      PROVE  /\ proof'[o].tx \in 1..MaxTicks
             /\ \/ txState'[proof'[o].tx] = "committed"
                \/ Admitting' /\ proof'[o].tx = ticks'
  <2>1. /\ proof[o].tx \in 1..MaxTicks
        /\ txState[proof[o].tx] = "committed" \/ (Admitting /\ proof[o].tx = ticks)
    BY <1>1, <1>3 DEF EvidenceSettled
  <2>2. CASE txState[proof[o].tx] = "committed"
    BY <1>3, <2>1, <2>2, CommittedStays
  <2>3. CASE Admitting /\ proof[o].tx = ticks
    <3>1. CASE TransactionCommitted
      BY <1>3, <2>1, <2>3, <3>1, TypeFacts DEF TransactionCommitted, ProjectionTypes
    <3> QED
      BY <1>1, <1>3, <2>1, <2>3, <3>1, AdmittingSteps
  <2> QED
    BY <2>1, <2>2, <2>3
<1>4. CASE UNCHANGED vars
  <2>1. o \in SatisfiedObl /\ proof'[o] = proof[o]
    BY <1>4 DEF vars, proj, obls, SatisfiedObl
  <2> QED
    BY <1>1, <1>4, <2>1 DEF vars, proj, txs, local, bounds, EvidenceSettled, Admitting
<1>5. CASE ObligationSatisfied
  <2>1. PICK p \in todo :
          /\ oblStatus' = [oblStatus EXCEPT ![p] = "satisfied"]
          /\ proof' = IF gate.closure THEN proof
                      ELSE [proof EXCEPT ![p] = [tx |-> ticks, content |-> disk]]
    BY <1>5 DEF ObligationSatisfied
  <2>2. pc = "satisfy" /\ gate.decision = "admit" /\ gate # NoGate
    BY <1>5 DEF ObligationSatisfied, WorkFacts, TickOrder, StageFacts, Deciding
  <2>3. CASE o # p
    <3>1. o \in SatisfiedObl /\ proof'[o] = proof[o]
      BY <1>2, <2>1, <2>3, TypeFacts DEF SatisfiedObl, ProjectionTypes, ProofTypes
    <3> QED
      BY <1>3, <1>5, <3>1 DEF Next, TickStep
  <2>4. CASE o = p /\ gate.closure
    <3>1. o \in RootObl /\ RootObl \subseteq SatisfiedObl
      BY <2>2, <2>4 DEF Tasks, Settling, Refs
    <3>2. proof' = proof
      BY <2>1, <2>4
    <3> QED
      BY <1>3, <1>5, <3>1, <3>2 DEF Next, TickStep
  <2>5. CASE o = p /\ ~gate.closure
    <3>1. Admitting
      BY <2>2, <2>5 DEF Admitting
    <3>2. Admitting' /\ ticks' = ticks
      BY <1>1, <1>5, <3>1, AdmittingSteps DEF Next, TickStep, TransactionCommitted, ObligationSatisfied
    <3>3. proof'[o].tx = ticks
      BY <1>2, <2>1, <2>5, TypeFacts DEF ProofTypes
    <3>4. ticks \in 1..MaxTicks
      BY <2>2, TickName DEF TickOrder, NamesUnused
    <3> QED
      BY <3>2, <3>3, <3>4
  <2> QED
    BY <2>3, <2>4, <2>5
<1>6. CASE Next /\ SatisfiedObl' \subseteq SatisfiedObl /\ proof' = proof
  BY <1>3, <1>6
<1> QED
  BY <1>4, <1>5, <1>6, SatisfyingSteps

\* As long as the process has not died: between ticks, every satisfied
\* obligation was attested in a transaction that is committed.
THEOREM EvidenceIsCommitted == Spec => [](crashes = 0 => EvidenceCommitted)
<1> DEFINE Inv == /\ TypeOK /\ TickOrder /\ WorkFacts /\ Settling /\ Tasks
                  /\ EvidenceSettled
<1>1. Init => Inv
  <2> SUFFICES ASSUME Init PROVE Inv
    OBVIOUS
  <2>1. TypeOK /\ TickOrder
    BY TypeInit, OrderInit
  <2>2. WorkFacts /\ Settling
    BY DEF Init, WorkFacts, Settling, InOpen, Open, Deciding, Contracted
  <2>3. Tasks /\ EvidenceSettled
    BY DEF Init, Tasks, EvidenceSettled, SatisfiedObl
  <2> QED
    BY <2>1, <2>2, <2>3
<1>2. Inv /\ [Next]_vars => Inv'
  BY TypeStep, OrderStep, WorkStep, SettlingStep, TasksStep, EvidenceStep
<1>3. Inv => (crashes = 0 => EvidenceCommitted)
  BY DEF EvidenceSettled, EvidenceCommitted, AtRest, Admitting
<1> QED
  BY <1>1, <1>2, <1>3, PTL DEF Spec

-----------------------------------------------------------------------------
\* Before the goal is compiled there is no node.
NoNodes == \A n \in Node : nodeStatus[n] = "absent"

Uncompiled ==
  /\ runStatus = "created" => NoNodes /\ pc \in {"idle", "acquired", "boot", "closeCheck"}
  /\ pc = "compile" => NoNodes

\* An admitted node's own obligations are satisfied, once the Gate's answer is
\* recorded, unless a split is about to replace the node.
AdmittedSettled ==
  crashes = 0 =>
    \A n \in Node : nodeStatus[n] = "admitted" =>
      \A o \in Refs(n) :
        \/ oblStatus[o] = "satisfied"
        \/ pc = "satisfy" /\ n = cur /\ o \in todo
        \/ pc \in {"opening", "splitting"} /\ n \in Child

LEMMA EarlySteps ==
  ASSUME Next, pc \in {"idle", "acquired", "boot", "closeCheck"}
  PROVE  Begin \/ CheckGoalDrift \/ Bootstrapped \/ RunCreated \/ CloseCheck \/ Crash \/ EditGoal
  BY DEF Next, TickStep, RecoverRollback, Reopen, RecoveryCompleted,
         GoalCompiled, RootReady, Plan, GovernorDeclines, GovernorSplits,
         ObligationOpened, SplitCommitted, Promote, Phase1, ContractAssembled,
         TransactionPrepared, PrepareRefused, ApplyReplayed, ApplyReadOnly,
         ApplyWrites, SaveLedger, TransactionObserved, EvidenceRecorded,
         AmendmentProposed, ObligationAmended, NodeGate, ObligationSatisfied,
         RunSucceeded, RunAborted, TransactionCommitted, ObligationInvalidated,
         Restore, TransactionUndone, LeavePrepared, ClosureContract,
         ClosureGate, ClosureRepaired, StageFails, ApplyFails

\* A run is compiled from the stage that created it.
LEMMA CompileSteps ==
  ASSUME Next, TickOrder, pc' = "compile"
  PROVE  RunCreated \/ UNCHANGED <<pc, nodeStatus>>
<1>1. ~EndTick
  BY DEF EndTick
<1>2. ~NodeGate /\ ~ClosureGate
  BY GateMoves DEF NodeGate, ClosureGate, Deciding
<1> QED
  BY <1>1, <1>2
     DEF Next, TickStep, local, proj, tree, Go, Done, AfterAcquire, AfterSatisfied,
         Begin, RecoverRollback, Reopen, RecoveryCompleted, CheckGoalDrift,
         Bootstrapped, GoalCompiled, RootReady, Plan,
         GovernorDeclines, GovernorSplits, ObligationOpened, SplitCommitted,
         Promote, Phase1, ContractAssembled, TransactionPrepared,
         PrepareRefused, ApplyReplayed, ApplyReadOnly, ApplyWrites,
         SaveLedger, TransactionObserved, EvidenceRecorded, AmendmentProposed,
         ObligationAmended, ObligationSatisfied, RunSucceeded,
         RunAborted, TransactionCommitted, ObligationInvalidated, Restore,
         TransactionUndone, LeavePrepared, CloseCheck, ClosureContract,
         ClosureRepaired, StageFails, ApplyFails, Crash, EditGoal

LEMMA UncompiledStep ==
  ASSUME TickOrder, Uncompiled, [Next]_vars
  PROVE  Uncompiled'
<1>1. CASE UNCHANGED vars
  BY <1>1 DEF Uncompiled, NoNodes, vars, proj, tree, local
<1>2. ASSUME Next, runStatus' = "created"
      PROVE  NoNodes' /\ pc' \in {"idle", "acquired", "boot", "closeCheck"}
  <2>1. runStatus = "created"
    BY <1>2, StatusSteps DEF Begin, RecoveryCompleted, CheckGoalDrift,
       Bootstrapped, RunCreated, GoalCompiled, RunSucceeded, RunAborted
  <2>2. NoNodes /\ pc \in {"idle", "acquired", "boot", "closeCheck"}
    BY <2>1 DEF Uncompiled
  <2>3. Begin \/ CheckGoalDrift \/ CloseCheck \/ Crash \/ EditGoal
    BY <1>2, <2>1, <2>2, EarlySteps DEF Bootstrapped, RunCreated
  <2>4. nodeStatus' = nodeStatus
    BY <2>3 DEF Begin, CheckGoalDrift, CloseCheck, Crash, EditGoal, proj, tree
  <2>5. pc' \in {"idle", "acquired", "boot", "closeCheck"}
    BY <1>2, <2>1, <2>2, <2>3 DEF Begin, CheckGoalDrift, CloseCheck, Crash, EditGoal,
       ClosureNeeded, EndTick, Go, AfterAcquire, local
  <2> QED
    BY <2>2, <2>4, <2>5 DEF NoNodes
<1>3. ASSUME Next, pc' = "compile" PROVE NoNodes'
  <2>1. CASE RunCreated
    BY <2>1 DEF RunCreated, Uncompiled, NoNodes, tree
  <2>2. CASE UNCHANGED <<pc, nodeStatus>>
    BY <1>3, <2>2 DEF Uncompiled, NoNodes
  <2> QED
    BY <1>3, <2>1, <2>2, CompileSteps
<1> QED
  BY <1>1, <1>2, <1>3 DEF Uncompiled

\* The steps that change the status of a node.
LEMMA NodeSteps ==
  ASSUME Next
  PROVE  \/ nodeStatus' = nodeStatus
         \/ Reopen \/ GoalCompiled \/ RootReady \/ SplitCommitted \/ Promote
         \/ (\E n \in Node : ContractAssembled(n)) \/ NodeGate \/ ClosureGate
         \/ ClosureContract \/ ObligationInvalidated
  BY DEF Next, TickStep, proj, tree, Begin, RecoverRollback, RecoveryCompleted,
         CheckGoalDrift, Bootstrapped, RunCreated, Plan, GovernorDeclines,
         GovernorSplits, ObligationOpened, Phase1, TransactionPrepared,
         PrepareRefused, ApplyReplayed, ApplyReadOnly, ApplyWrites, SaveLedger,
         TransactionObserved, EvidenceRecorded, AmendmentProposed,
         ObligationAmended, ObligationSatisfied, RunSucceeded, RunAborted,
         TransactionCommitted, Restore, TransactionUndone, LeavePrepared,
         CloseCheck, ClosureRepaired, StageFails, ApplyFails, Crash, EditGoal

\* A recording of the Gate's answer, or a split, goes on with itself.
LEMMA BusySteps ==
  ASSUME Next, pc \in {"satisfy", "opening", "splitting"}, ~Crash
  PROVE  ObligationSatisfied \/ ObligationOpened \/ SplitCommitted \/ EditGoal
  BY DEF Next, TickStep, Begin, RecoverRollback, Reopen, RecoveryCompleted,
         CheckGoalDrift, Bootstrapped, RunCreated, GoalCompiled, RootReady,
         Plan, GovernorDeclines, GovernorSplits, Promote, Phase1,
         ContractAssembled, TransactionPrepared, PrepareRefused, ApplyReplayed,
         ApplyReadOnly, ApplyWrites, SaveLedger, TransactionObserved,
         EvidenceRecorded, AmendmentProposed, ObligationAmended, NodeGate,
         RunSucceeded, RunAborted, TransactionCommitted, ObligationInvalidated,
         Restore, TransactionUndone, LeavePrepared, CloseCheck,
         ClosureContract, ClosureGate, ClosureRepaired, StageFails, ApplyFails

\* What the Gate admits it reports satisfied, all of it.
LEMMA AdmitsAll ==
  ASSUME NEW g, NEW c, NEW a, Decide(g, c, a).decision = "admit",
         \A o \in g.refs : g.verdict[o] \in Verdicts
  PROVE  g.refs \subseteq Decide(g, c, a).satisfied
<1>1. ASSUME NEW r, NEW o, NEW sat, NEW open
      PROVE  Repair(g, c, r, o, sat, open).decision # "admit"
  BY DEF Repair, Decision
<1>2. Unattested(g) = {} /\ Decide(g, c, a) = DecidePending(g, c)
  BY <1>1 DEF Decide, UnattestedRepair
<1>3. Pending(g) = {} /\ Decide(g, c, a).satisfied = Satisfied(g)
  BY <1>1, <1>2 DEF DecidePending, Decision
<1> QED
  BY <1>2, <1>3 DEF Unattested, Pending, Satisfied, Verdicts

\* An obligation that is derived belongs to one node.
LEMMA DerivedOwner ==
  ASSUME NEW m \in Node, NEW n \in Node, NEW o \in Refs(m) \ RootObl, o \in Refs(n)
  PROVE  m = n
<1>1. Refined
  <2>1. ASSUME ~Refined PROVE Refs(m) \subseteq RootObl
    <3>1. NumChildren \in Nat /\ NumChildren <= Roots
      BY <2>1, ChildrenBound
    <3>2. m = Root \/ m \in 1..NumChildren
      BY DEF Node, Child
    <3>3. CASE m = Root
      BY <3>3 DEF Refs
    <3>4. CASE m # Root /\ m = NumChildren
      <4>1. Refs(m) = m..Roots /\ m \in 1..NumChildren
        BY <2>1, <3>2, <3>4 DEF Refs
      <4> QED
        BY <3>1, <4>1, KernelAssumption DEF RootObl
    <3>5. CASE m # Root /\ m # NumChildren
      <4>1. Refs(m) = {m} /\ m \in 1..NumChildren
        BY <2>1, <3>2, <3>5 DEF Refs
      <4> QED
        BY <3>1, <4>1, KernelAssumption DEF RootObl
    <3> QED
      BY <3>3, <3>4, <3>5
  <2> QED
    BY <2>1
<1>3. m # Root /\ n # Root
  BY DEF Refs
<1>2. o = m + 1 /\ o = n + 1
  BY <1>1, <1>3 DEF Refs
<1> QED
  BY <1>2, TreeFacts

LEMMA NodeGateAdmits ==
  ASSUME TypeOK, NodeGate, nodeStatus'[cur] = "admitted"
  PROVE  pc' = "satisfy" /\ Refs(cur) \subseteq todo'
<1>1. PICK a \in AmendedPicks(NodeInput) :
        LET d == Decide(NodeInput, counts, a) IN
          /\ nodeStatus' = [nodeStatus EXCEPT ![cur] =
               CASE d.decision = "admit" -> "admitted"
                 [] d.decision = "repair" -> "ready"
                 [] OTHER -> "failed"]
          /\ pc' = CASE d.decision = "admit" -> "satisfy"
                     [] d.decision = "abort" -> "abort"
                     [] OTHER -> "finalize"
          /\ todo' = IF d.decision = "admit" THEN d.satisfied ELSE {}
  BY DEF NodeGate, GateDecided
<1>2. cur \in Node /\ nodeStatus \in [Node -> NodeStatuses] /\ evidence \in [Obl -> Verdicts]
  BY TypeFacts DEF ProjectionTypes, TickTypes
<1> DEFINE d == Decide(NodeInput, counts, a)
<1>3. d.decision = "admit"
  <2>1. nodeStatus'[cur] = CASE d.decision = "admit" -> "admitted"
                             [] d.decision = "repair" -> "ready"
                             [] OTHER -> "failed"
    BY <1>1, <1>2
  <2> QED
    BY <2>1
<1>4. \A o \in NodeInput.refs : NodeInput.verdict[o] \in Verdicts
  BY <1>2, TreeFacts DEF NodeInput
<1>5. NodeInput.refs \subseteq d.satisfied
  BY <1>3, <1>4, AdmitsAll
<1>6. pc' = "satisfy" /\ todo' = d.satisfied
  BY <1>1, <1>3
<1> QED
  BY <1>5, <1>6 DEF NodeInput

LEMMA ClosureGateAdmits ==
  ASSUME TypeOK, Tasks, ClosureGate, nodeStatus'[cur] = "admitted"
  PROVE  cur = Root /\ RootObl \subseteq SatisfiedObl
<1>1. PICK a \in AmendedPicks(ClosureInput) :
        LET d == Decide(ClosureInput, counts, a) IN
          /\ nodeStatus' = [nodeStatus EXCEPT ![cur] =
               CASE d.decision = "admit" -> "admitted"
                 [] d.decision = "repair" -> "ready"
                 [] OTHER -> "failed"]
  BY DEF ClosureGate, GateDecided
<1>2. cur \in Node /\ nodeStatus \in [Node -> NodeStatuses]
  BY TypeFacts DEF ProjectionTypes, TickTypes
<1> DEFINE d == Decide(ClosureInput, counts, a)
<1>3. d.decision = "admit"
  <2>1. nodeStatus'[cur] = CASE d.decision = "admit" -> "admitted"
                             [] d.decision = "repair" -> "ready"
                             [] OTHER -> "failed"
    BY <1>1, <1>2
  <2> QED
    BY <2>1
<1> QED
  BY <1>3, AdmittedSatisfied DEF ClosureGate, Tasks

LEMMA AdmittedStep ==
  ASSUME TypeOK, TickOrder, Tasks, OneActiveContract, OpensDerived, Uncompiled,
         AdmittedSettled, [Next]_vars
  PROVE  AdmittedSettled'
<1> DEFINE Own(n, o) == \/ oblStatus[o] = "satisfied"
                        \/ pc = "satisfy" /\ n = cur /\ o \in todo
                        \/ pc \in {"opening", "splitting"} /\ n \in Child
<1> SUFFICES ASSUME crashes' = 0, NEW n \in Node, nodeStatus'[n] = "admitted",
                    NEW o \in Refs(n)
             PROVE  Own(n, o)'
  BY DEF AdmittedSettled, Refs
<1> USE TypeFacts
<1>1. crashes = 0 /\ ~Crash
  BY CrashSteps
<1>2. o \in Obl /\ n \in Nat /\ cur \in Node
  BY TreeFacts DEF TickTypes
<1>3. nodeStatus[n] = "admitted" => Own(n, o)
  BY <1>1 DEF AdmittedSettled
<1>4. CASE UNCHANGED vars
  BY <1>3, <1>4 DEF vars, proj, tree, obls, local
<1>5. CASE Next /\ UNCHANGED <<nodeStatus, oblStatus>>
  <2>1. Own(n, o)
    BY <1>3, <1>5
  <2>2. CASE oblStatus[o] = "satisfied"
    BY <1>5, <2>2
  <2>3. CASE pc \in {"satisfy", "opening", "splitting"} /\ oblStatus[o] # "satisfied"
    <3>1. ObligationSatisfied \/ ObligationOpened \/ SplitCommitted \/ EditGoal
      BY <1>1, <1>5, <2>3, BusySteps
    <3>2. CASE EditGoal
      BY <2>1, <3>2 DEF EditGoal, proj, obls, local
    <3>3. CASE ObligationSatisfied
      <4>1. PICK p \in todo : oblStatus' = [oblStatus EXCEPT ![p] = "satisfied"]
                              /\ Go(IF todo = {p} THEN AfterSatisfied ELSE pc,
                                    IF todo # {p} THEN todo \ {p}
                                    ELSE IF AfterSatisfied = "promote" THEN Promotable ELSE {})
                              /\ pc = "satisfy"
        BY <3>3 DEF ObligationSatisfied
      <4>2. o \in todo /\ n = cur
        BY <2>1, <2>3, <4>1
      <4>3. p # o
        BY <1>2, <1>5, <2>3, <4>1 DEF ProjectionTypes
      <4> QED
        BY <4>1, <4>2, <4>3 DEF Go
    <3>4. CASE ObligationOpened
      <4>1. pc = "opening" /\ pc' \in {"opening", "splitting"}
        BY <3>4 DEF ObligationOpened, Done, Go
      <4> QED
        BY <2>1, <2>3, <4>1
    <3>5. CASE SplitCommitted
      BY <1>5, <3>5, <1>2 DEF SplitCommitted, ProjectionTypes
    <3> QED
      BY <3>1, <3>2, <3>3, <3>4, <3>5
  <2> QED
    BY <2>1, <2>2, <2>3
<1>6. CASE GoalCompiled
  BY <1>6 DEF GoalCompiled, Uncompiled, NoNodes, ProjectionTypes
<1>7. CASE SplitCommitted
  BY <1>7 DEF SplitCommitted
<1>8. CASE Reopen \/ RootReady \/ Promote \/ (\E m \in Node : ContractAssembled(m)) \/ ClosureContract
  <2>1. /\ pc \notin {"satisfy", "opening", "splitting"} /\ oblStatus' = oblStatus
        /\ \E m, s : s # "admitted" /\ nodeStatus' = [nodeStatus EXCEPT ![m] = s]
    BY <1>8 DEF Reopen, RootReady, Promote, ContractAssembled, ClosureContract, obls
  <2>2. nodeStatus[n] = "admitted"
    BY <2>1 DEF ProjectionTypes
  <2> QED
    BY <1>3, <2>1, <2>2
<1>9. CASE NodeGate
  <2>1. cur' = cur /\ oblStatus' = oblStatus /\ pc = "gate"
    BY <1>9 DEF NodeGate, obls
  <2>2. CASE n = cur
    BY <1>9, <2>1, <2>2, NodeGateAdmits
  <2>3. CASE n # cur
    <3>1. nodeStatus'[n] = nodeStatus[n]
      BY <1>9, <2>3 DEF NodeGate, GateDecided, ProjectionTypes
    <3> QED
      BY <1>3, <2>1, <3>1
  <2> QED
    BY <2>2, <2>3
<1>10. CASE ClosureGate
  <2>1. cur' = cur /\ oblStatus' = oblStatus /\ pc = "closureGate"
    BY <1>10 DEF ClosureGate, obls
  <2>2. CASE n = cur
    <3>1. n = Root /\ RootObl \subseteq SatisfiedObl
      BY <1>10, <2>2, ClosureGateAdmits
    <3> QED
      BY <2>1, <3>1 DEF Refs, SatisfiedObl
  <2>3. CASE n # cur
    <3>1. nodeStatus'[n] = nodeStatus[n]
      BY <1>10, <2>3 DEF ClosureGate, GateDecided, ProjectionTypes
    <3> QED
      BY <1>3, <2>1, <3>1
  <2> QED
    BY <2>2, <2>3
<1>11. CASE ObligationInvalidated
  <2>1. PICK p \in todo :
          /\ oblStatus' = [oblStatus EXCEPT ![p] = "invalidated"]
          /\ nodeStatus' = [m \in Node |-> IF nodeStatus[m] = "admitted" /\ p \in Refs(m)
                                           THEN "in_progress" ELSE nodeStatus[m]]
          /\ pc = "invalidate"
    BY <1>11 DEF ObligationInvalidated
  <2>2. nodeStatus[n] = "admitted" /\ p \notin Refs(n)
    BY <2>1
  <2> QED
    BY <1>2, <1>3, <2>1, <2>2 DEF ProjectionTypes
<1>12. CASE ObligationOpened
  <2>1. PICK p \in Derived : oblStatus' = [oblStatus EXCEPT ![p] = "open"]
    BY <1>12 DEF ObligationOpened, OpensDerived
  <2>2. pc = "opening" /\ pc' \in {"opening", "splitting"} /\ nodeStatus' = nodeStatus
    BY <1>12 DEF ObligationOpened, Done, Go, tree
  <2>3. CASE n \in Child
    BY <2>2, <2>3
  <2>4. CASE n \notin Child
    <3>1. n = Root /\ o \in RootObl
      BY <2>4 DEF Node, Refs
    <3>2. o # p
      BY <2>1, <3>1 DEF Derived, RootObl, Refined
    <3>3. oblStatus[o] = "satisfied"
      BY <1>3, <2>2, <2>4
    <3> QED
      BY <1>2, <2>1, <3>2, <3>3 DEF ProjectionTypes
  <2> QED
    BY <2>3, <2>4
<1>13. CASE ObligationAmended
  <2>1. PICK p \in todo : oblStatus' = [oblStatus EXCEPT ![p] = "open"]
    BY <1>13 DEF ObligationAmended
  <2>2. pc = "amend" /\ nodeStatus' = nodeStatus
    BY <1>13 DEF ObligationAmended, tree
  <2>3. nodeStatus[cur] = "in_progress"
    BY <2>2 DEF OneActiveContract, InProgress
  <2>4. p \in Refs(cur) \ RootObl
    BY <2>1, <2>2 DEF Tasks
  <2>5. p # o
    BY <1>2, <2>2, <2>3, <2>4, DerivedOwner
  <2> QED
    BY <1>2, <1>3, <2>1, <2>2, <2>5 DEF ProjectionTypes
<1>14. CASE ObligationSatisfied
  <2>1. PICK p \in todo : /\ oblStatus' = [oblStatus EXCEPT ![p] = "satisfied"]
                          /\ Go(IF todo = {p} THEN AfterSatisfied ELSE pc,
                                IF todo # {p} THEN todo \ {p}
                                ELSE IF AfterSatisfied = "promote" THEN Promotable ELSE {})
    BY <1>14 DEF ObligationSatisfied
  <2>2. pc = "satisfy" /\ nodeStatus' = nodeStatus
    BY <1>14 DEF ObligationSatisfied, tree
  <2>3. Own(n, o)
    BY <1>3, <2>2
  <2> QED
    BY <1>2, <2>1, <2>2, <2>3 DEF Go, ProjectionTypes
<1> QED
  BY <1>4, <1>5, <1>6, <1>7, <1>8, <1>9, <1>10, <1>11, <1>12, <1>13, <1>14,
     NodeSteps, ObligationSteps DEF TransactionObserved, TransactionCommitted, obls

\* As long as the process has not died: between ticks, an admitted node has
\* all its obligations covered, whatever was invalidated, amended or split
\* again, and whatever stage failed.
THEOREM AdmittedNodesAreClosed == Spec => [](crashes = 0 => AdmittedClosed)
<1> DEFINE Inv == /\ TypeOK /\ TickOrder /\ Tasks /\ OneActiveContract
                  /\ OpensDerived /\ Uncompiled /\ AdmittedSettled
<1>1. Init => Inv
  <2> SUFFICES ASSUME Init PROVE Inv
    OBVIOUS
  <2>1. TypeOK /\ TickOrder
    BY TypeInit, OrderInit
  <2>2. Tasks /\ OneActiveContract /\ OpensDerived
    BY DEF Init, Tasks, OneActiveContract, OpensDerived
  <2>3. Uncompiled /\ AdmittedSettled
    BY DEF Init, Uncompiled, NoNodes, AdmittedSettled
  <2> QED
    BY <2>1, <2>2, <2>3
<1>2. Inv /\ [Next]_vars => Inv'
  BY TypeStep, OrderStep, TasksStep, ContractStep, OpensStep, UncompiledStep, AdmittedStep
<1>3. Inv => (crashes = 0 => AdmittedClosed)
  BY DEF AdmittedSettled, AdmittedClosed, AtRest, Covered
<1> QED
  BY <1>1, <1>2, <1>3, PTL DEF Spec

-----------------------------------------------------------------------------
(* Attested content *)

\* Tools and irreversible claims keep off the files that are watched, and
\* restore() does not spare any of these.
WatchedGuarded ==
  \A o \in Obl :
    /\ \A W \in EpisodeWrites : W \cap Watch[o] = {}
    /\ \A c \in Claims : c.cls = "irreversible" => c.writes \cap Watch[o] = {}
    /\ Preserved \cap Watch[o] = {}

\* No process has died and no stage has failed.
Calm == crashes = 0 /\ faults = 0

\* The transaction's snapshot is of the workdir before it.
Snapped == InOpen /\ pc # "restored"

\* What the tick's transaction has done to watched files.
Changed ==
  /\ pc = "apply" =>
       /\ tx.touches = {}
       /\ tx.cls = "irreversible" => \A o \in Obl : tx.writes \cap Watch[o] = {}
  /\ Snapped =>
       \A o \in Obl : \A f \in Watch[o] :
         \/ disk[f] = tx.snapshot[f]
         \/ f \in tx.touches /\ tx.cls \in {"reversible", "compensatable"}

\* The Gate admits nothing above the ceiling.
AdmittedBelow == Admitting => ~Above

\* A watched file has the content that was attested, unless the transaction of
\* the tick has changed it and will be undone, or is about to invalidate the
\* obligation.
ContentKept ==
  Calm =>
    \A o \in SatisfiedObl : \A f \in Watch[o] :
      IF Snapped
      THEN \/ /\ tx.snapshot[f] = proof[o].content[f]
              /\ f \in tx.touches => Above \/ oblRev[o] < tx.cand
           \/ Admitting /\ disk[f] = proof[o].content[f]
      ELSE disk[f] = proof[o].content[f] \/ (pc = "invalidate" /\ o \in todo)

\* The steps of a tick with its snapshot.
LEMMA SnapSteps ==
  ASSUME Next, TickOrder, Snapped'
  PROVE  \/ \E c \in Claims : TransactionPrepared(c)
         \/ /\ Snapped
            /\ \/ ApplyReplayed \/ ApplyReadOnly \/ ApplyWrites
               \/ UNCHANGED <<tx, disk>> /\ (pc' = "apply" => pc = "apply")
<1> USE DEF Snapped, InOpen, Open, Deciding
<1>1. ~EndTick
  BY DEF EndTick
<1>2. ~ClosureGate
  <2>1. ASSUME ClosureGate PROVE pc' \in Deciding /\ gate'.closure = ClosureInput.closure
    BY <2>1, GateMoves DEF ClosureGate
  <2> QED
    BY <2>1 DEF ClosureInput
<1>3. ~SplitCommitted
  BY DEF SplitCommitted, Go, TickOrder, PlanningTx, InPlanning, Planning
<1>4. NodeGate => Snapped /\ UNCHANGED <<tx, disk>> /\ pc' # "apply"
  BY GateMoves DEF NodeGate, world
<1>5. RunAborted \/ ObligationSatisfied \/ Promote =>
        Snapped /\ UNCHANGED <<tx, disk>> /\ pc' # "apply"
  BY <1>1 DEF RunAborted, ObligationSatisfied, Promote, Done, Go, AfterSatisfied, world
<1>6. ~(Begin \/ RecoverRollback \/ Reopen \/ RecoveryCompleted \/ CheckGoalDrift
          \/ Bootstrapped \/ RunCreated \/ GoalCompiled \/ RootReady \/ Plan
          \/ GovernorDeclines \/ GovernorSplits \/ ObligationOpened \/ Phase1
          \/ (\E n \in Node : ContractAssembled(n)))
  BY <1>1 DEF local, Go, Done, AfterAcquire, Begin, RecoverRollback, Reopen,
         RecoveryCompleted, CheckGoalDrift, Bootstrapped, RunCreated, GoalCompiled,
         RootReady, Plan, GovernorDeclines, GovernorSplits, ObligationOpened, Phase1,
         ContractAssembled
<1>7. ~(RunSucceeded \/ TransactionCommitted \/ ObligationInvalidated \/ Restore
          \/ TransactionUndone \/ LeavePrepared \/ CloseCheck \/ ClosureContract
          \/ ClosureRepaired \/ StageFails \/ ApplyFails \/ Crash
          \/ (\E c \in Claims : PrepareRefused(c)))
  BY <1>1 DEF Go, Done, RunSucceeded, TransactionCommitted, ObligationInvalidated,
         Restore, TransactionUndone, LeavePrepared, CloseCheck, ClosureContract,
         ClosureRepaired, StageFails, ApplyFails, Crash, PrepareRefused
<1>8. SaveLedger \/ TransactionObserved \/ EvidenceRecorded \/ AmendmentProposed
        \/ ObligationAmended => Snapped /\ UNCHANGED <<tx, disk>> /\ pc' # "apply"
  BY DEF Go, SaveLedger, TransactionObserved, EvidenceRecorded, AmendmentProposed,
         ObligationAmended, world
<1>9. ApplyReplayed \/ ApplyReadOnly \/ ApplyWrites => Snapped
  BY DEF ApplyReplayed, ApplyReadOnly, ApplyWrites
<1>10. EditGoal => Snapped /\ UNCHANGED <<tx, disk>> /\ pc' = pc
  BY DEF EditGoal, local
<1> QED
  BY <1>2, <1>3, <1>4, <1>5, <1>6, <1>7, <1>8, <1>9, <1>10 DEF Next, TickStep

\* What the transaction of a claim starts with.
LEMMA PreparedSnapshot ==
  ASSUME TypeOK, WatchedGuarded, NEW c \in Claims, TransactionPrepared(c),
         NEW o \in Obl, NEW f \in Watch[o]
  PROVE  /\ tx'.touches = {} /\ tx'.writes = c.writes /\ tx'.cls = c.cls
         /\ disk'[f] = disk[f] /\ tx'.snapshot[f] = disk[f]
<1>1. PICK W \in EpisodeWrites :
        /\ disk' = EpisodeDisk(W)
        /\ tx' = [NoTx EXCEPT !.cls = c.cls, !.key = c.key, !.base = worldRev,
                              !.writes = c.writes, !.acks = c.acks,
                              !.snapshot = EpisodeDisk(W)]
  BY DEF TransactionPrepared
<1>2. f \in File /\ f \notin W
  BY <1>1, KernelAssumption DEF WatchedGuarded
<1>3. EpisodeDisk(W)[f] = disk[f]
  BY <1>2 DEF EpisodeDisk
<1> QED
  BY <1>1, <1>3 DEF NoTx

LEMMA ChangedStep ==
  ASSUME TypeOK, TickOrder, WatchedGuarded, Changed, [Next]_vars
  PROVE  Changed'
<1> USE TypeFacts DEF TickTypes, TxType
<1>1. CASE UNCHANGED vars
  BY <1>1 DEF vars, world, local, Changed, Snapped, InOpen
<1>2. ASSUME NEW c \in Claims, TransactionPrepared(c) PROVE Changed'
  <2>1. pc' = "apply" /\ tx'.touches = {} /\ tx'.writes = c.writes /\ tx'.cls = c.cls
    BY <1>2 DEF TransactionPrepared, NoTx
  <2>2. \A o \in Obl : \A f \in Watch[o] : disk'[f] = tx'.snapshot[f]
    BY <1>2, PreparedSnapshot
  <2> QED
    BY <2>1, <2>2 DEF Changed, WatchedGuarded
<1>3. CASE Snapped /\ UNCHANGED <<tx, disk>> /\ (pc' = "apply" => pc = "apply")
  BY <1>3 DEF Changed
<1>4. CASE Snapped /\ (ApplyReplayed \/ ApplyReadOnly)
  <2>1. /\ pc = "apply" /\ pc' = "observe" /\ disk' = disk
        /\ tx'.snapshot = tx.snapshot /\ tx.touches = {}
    BY <1>4 DEF ApplyReplayed, ApplyReadOnly, world, Changed
  <2> QED
    BY <1>4, <2>1 DEF Changed
<1>5. CASE Snapped /\ ApplyWrites
  <2>1. /\ pc = "apply" /\ pc' \in {"observe", "ledger"} /\ tx.touches = {}
        /\ tx.cls = "irreversible" => \A o \in Obl : tx.writes \cap Watch[o] = {}
        /\ \A o \in Obl : \A f \in Watch[o] : disk[f] = tx.snapshot[f]
    BY <1>5 DEF ApplyWrites, Changed
  <2>2. /\ tx'.snapshot = tx.snapshot /\ tx'.touches = tx.writes \cup tx.acks
        /\ tx'.cls = tx.cls /\ tx.cls \in Classes \ {"read_only"}
        /\ disk' = EpisodeDisk(tx.writes)
    BY <1>5 DEF ApplyWrites
  <2>3. \A o \in Obl : \A f \in Watch[o] : f \notin tx.writes => disk'[f] = disk[f]
    BY <2>2, KernelAssumption DEF EpisodeDisk
  <2> QED
    BY <2>1, <2>2, <2>3 DEF Changed, Classes
<1>6. CASE ~Snapped' /\ pc' # "apply"
  BY <1>6 DEF Changed
<1>7. pc' = "apply" => Snapped'
  BY DEF Snapped, InOpen, Open
<1> QED
  BY <1>1, <1>2, <1>3, <1>4, <1>5, <1>6, <1>7, SnapSteps

LEMMA BelowStep ==
  ASSUME TypeOK, TickOrder, WorkFacts, AdmittedBelow, [Next]_vars
  PROVE  AdmittedBelow'
<1>1. CASE UNCHANGED vars
  BY <1>1 DEF vars, local, AdmittedBelow, Admitting, Above
<1>2. CASE NodeGate
  <2>1. PICK a \in AmendedPicks(NodeInput) : gate' = Decide(NodeInput, counts, a)
    BY <1>2 DEF NodeGate, GateDecided
  <2> QED
    BY <1>2, <2>1, AboveRefused DEF NodeGate, AdmittedBelow, Admitting, Above
<1>3. ASSUME Next, ~NodeGate, Admitting' PROVE ~Above'
  <2>1. Snapped'
    BY <1>3 DEF Admitting, Snapped, InOpen, Deciding
  <2>2. ~(\E c \in Claims : TransactionPrepared(c)) /\ ~ApplyReplayed /\ ~ApplyReadOnly /\ ~ApplyWrites
    BY <1>3 DEF Admitting, TransactionPrepared, ApplyReplayed, ApplyReadOnly, ApplyWrites
  <2>3. Snapped /\ tx' = tx
    BY <1>3, <2>1, <2>2, SnapSteps
  <2>4. Admitting
    <3>1. ~EndTick /\ ~ClosureGate
      <4>1. ASSUME ClosureGate PROVE gate'.closure = ClosureInput.closure
        BY <4>1, GateMoves DEF ClosureGate
      <4> QED
        BY <1>3, <4>1 DEF EndTick, Admitting, ClosureInput
    <3> QED
      BY <1>3, <2>3, <3>1 DEF Next, TickStep, Admitting, Snapped, InOpen, Open, Deciding,
         WorkFacts, local, Go, Done,
         AfterAcquire, AfterSatisfied, Begin, RecoverRollback, Reopen,
         RecoveryCompleted, CheckGoalDrift, Bootstrapped, RunCreated, GoalCompiled,
         RootReady, Plan, GovernorDeclines, GovernorSplits, ObligationOpened,
         SplitCommitted, Promote, Phase1, ContractAssembled, TransactionPrepared,
         PrepareRefused, ApplyReplayed, ApplyReadOnly, ApplyWrites, SaveLedger,
         TransactionObserved, EvidenceRecorded, AmendmentProposed,
         ObligationAmended, ObligationSatisfied, RunSucceeded,
         RunAborted, TransactionCommitted, ObligationInvalidated, Restore,
         TransactionUndone, LeavePrepared, CloseCheck, ClosureContract,
         ClosureRepaired, StageFails, ApplyFails, Crash, EditGoal, TickOrder, StageFacts
  <2> QED
    BY <2>3, <2>4 DEF AdmittedBelow, Above
<1> QED
  BY <1>1, <1>2, <1>3 DEF AdmittedBelow

\* Failures are counted.
LEMMA CalmSteps ==
  ASSUME TypeOK, [Next]_vars, Calm'
  PROVE  Calm /\ ~Crash /\ ~StageFails /\ ~ApplyFails
<1>1. crashes = 0 /\ ~Crash
  BY CrashSteps DEF Calm
<1>2. faults \in Nat
  BY DEF TypeOK, BoundTypes
<1>3. ~StageFails /\ ~ApplyFails
  BY <1>2 DEF StageFails, ApplyFails, Calm
<1>4. faults' = faults
  BY <1>3 DEF Next, TickStep, vars, bounds, Begin, RecoverRollback, Reopen,
         RecoveryCompleted, CheckGoalDrift, Bootstrapped, RunCreated,
         GoalCompiled, RootReady, Plan, GovernorDeclines, GovernorSplits,
         ObligationOpened, SplitCommitted, Promote, Phase1, ContractAssembled,
         TransactionPrepared, PrepareRefused, ApplyReplayed, ApplyReadOnly,
         ApplyWrites, SaveLedger, TransactionObserved, EvidenceRecorded,
         AmendmentProposed, ObligationAmended, NodeGate, ObligationSatisfied,
         RunSucceeded, RunAborted, TransactionCommitted,
         ObligationInvalidated, Restore, TransactionUndone, LeavePrepared,
         CloseCheck, ClosureContract, ClosureGate, ClosureRepaired, Crash, EditGoal
<1> QED
  BY <1>1, <1>3, <1>4 DEF Calm

\* A transaction that was applied is committed, undone or left.
LEMMA UnsnapSteps ==
  ASSUME Next, TickOrder, Snapped, ~Snapped', ~Crash, ~StageFails, ~ApplyFails
  PROVE  TransactionCommitted \/ Restore \/ LeavePrepared
<1> USE DEF Snapped, InOpen, Open, Deciding
<1>1. ~(NodeGate \/ ObligationSatisfied \/ Promote \/ RunAborted \/ RunSucceeded
          \/ ClosureRepaired \/ (\E c \in Claims : TransactionPrepared(c) \/ PrepareRefused(c)))
  <2>1. ASSUME NodeGate PROVE pc' \in Deciding /\ gate'.closure = NodeInput.closure
    BY <2>1, GateMoves DEF NodeGate
  <2>2. ~NodeGate
    BY <2>1 DEF NodeInput
  <2> QED
    BY <2>2 DEF ObligationSatisfied, Promote, RunAborted, RunSucceeded, ClosureRepaired,
       TransactionPrepared, PrepareRefused, Done, Go, AfterSatisfied, TickOrder, StageFacts
<1>2. ~(ApplyReplayed \/ ApplyReadOnly \/ ApplyWrites \/ SaveLedger \/ TransactionObserved
          \/ EvidenceRecorded \/ AmendmentProposed \/ ObligationAmended \/ EditGoal)
  BY DEF ApplyReplayed, ApplyReadOnly, ApplyWrites, SaveLedger, TransactionObserved,
     EvidenceRecorded, AmendmentProposed, ObligationAmended, EditGoal, Go, local
<1> QED
  BY <1>1, <1>2 DEF Next, TickStep, Begin, RecoverRollback, Reopen,
         RecoveryCompleted, CheckGoalDrift, Bootstrapped, RunCreated, GoalCompiled,
         RootReady, Plan, GovernorDeclines, GovernorSplits, ObligationOpened,
         SplitCommitted, Phase1, ContractAssembled, ObligationInvalidated,
         TransactionUndone, CloseCheck, ClosureContract, ClosureGate

\* Without a snapshot, nothing is written.
LEMMA QuietSteps ==
  ASSUME Next, TickOrder, ~Snapped, ~Snapped', ~StageFails, ~ApplyFails
  PROVE  disk' = disk
<1> USE DEF Snapped, InOpen, Open, Deciding
<1>1. ~Restore
  BY DEF Restore
<1>2. ~(ApplyWrites \/ (\E c \in Claims : TransactionPrepared(c)))
  BY DEF ApplyWrites, TransactionPrepared
<1> QED
  BY <1>1, <1>2 DEF Next, TickStep, world, Begin, RecoverRollback, Reopen,
         RecoveryCompleted, CheckGoalDrift, Bootstrapped, RunCreated,
         GoalCompiled, RootReady, Plan, GovernorDeclines, GovernorSplits,
         ObligationOpened, SplitCommitted, Promote, Phase1, ContractAssembled,
         PrepareRefused, ApplyReplayed, ApplyReadOnly, SaveLedger,
         TransactionObserved, EvidenceRecorded,
         AmendmentProposed, ObligationAmended, NodeGate, ObligationSatisfied,
         RunSucceeded, RunAborted, TransactionCommitted,
         ObligationInvalidated, TransactionUndone, LeavePrepared,
         CloseCheck, ClosureContract, ClosureGate, ClosureRepaired, Crash, EditGoal

\* Obligations that are invalidated leave the list with their status.
LEMMA InvalidateSteps ==
  ASSUME TypeOK, Next, pc = "invalidate", ~Crash, NEW o \in SatisfiedObl' \cap todo
  PROVE  pc' = "invalidate" /\ o \in todo'
<1>1. ObligationInvalidated \/ EditGoal
  BY DEF Next, TickStep, Begin, RecoverRollback, Reopen,
         RecoveryCompleted, CheckGoalDrift, Bootstrapped, RunCreated,
         GoalCompiled, RootReady, Plan, GovernorDeclines, GovernorSplits,
         ObligationOpened, SplitCommitted, Promote, Phase1, ContractAssembled,
         TransactionPrepared, PrepareRefused, ApplyReplayed, ApplyReadOnly,
         ApplyWrites, SaveLedger, TransactionObserved, EvidenceRecorded,
         AmendmentProposed, ObligationAmended, NodeGate, ObligationSatisfied,
         RunSucceeded, RunAborted, TransactionCommitted, Restore,
         TransactionUndone, LeavePrepared, CloseCheck, ClosureContract,
         ClosureGate, ClosureRepaired, StageFails, ApplyFails
<1>2. CASE EditGoal
  BY <1>2 DEF EditGoal, local
<1>3. CASE ObligationInvalidated
  <2>1. PICK p \in todo : /\ oblStatus' = [oblStatus EXCEPT ![p] = "invalidated"]
                          /\ Done(p, "closeCheck")
    BY <1>3 DEF ObligationInvalidated
  <2>2. o # p
    BY <2>1, TypeFacts DEF SatisfiedObl, ProjectionTypes
  <2> QED
    BY <2>1, <2>2 DEF Done, Go
<1> QED
  BY <1>1, <1>2, <1>3

\* A satisfied obligation has its attestation from before, or from this step.
LEMMA AttestedSteps ==
  ASSUME TypeOK, TickOrder, WorkFacts, Settling, Tasks, Next, ~Crash,
         NEW o \in SatisfiedObl'
  PROVE  \/ /\ o \in SatisfiedObl /\ proof'[o] = proof[o]
            /\ oblRev'[o] = oblRev[o] \/ (~Snapped /\ ~Snapped')
         \/ Admitting' /\ Snapped' /\ proof'[o].content = disk'
<1> USE TypeFacts DEF ProjectionTypes, ProofTypes
<1>1. o \in Obl
  BY DEF SatisfiedObl
<1>2. CASE ObligationSatisfied
  <2>1. PICK p \in todo :
          /\ oblStatus' = [oblStatus EXCEPT ![p] = "satisfied"]
          /\ oblRev' = [oblRev EXCEPT ![p] = IF gate.closure THEN worldRev ELSE tx.cand]
          /\ proof' = IF gate.closure THEN proof
                      ELSE [proof EXCEPT ![p] = [tx |-> ticks, content |-> disk]]
    BY <1>2 DEF ObligationSatisfied
  <2>2. pc = "satisfy" /\ gate.decision = "admit" /\ gate # NoGate
    BY <1>2 DEF ObligationSatisfied, WorkFacts, TickOrder, StageFacts, Deciding
  <2>3. CASE o # p
    BY <1>1, <2>1, <2>3 DEF SatisfiedObl
  <2>4. CASE o = p /\ gate.closure
    <3>1. o \in RootObl /\ RootObl \subseteq SatisfiedObl
      BY <2>2, <2>4 DEF Tasks, Settling, Refs
    <3>2. proof' = proof
      BY <2>1, <2>4
    <3>3. gate' = gate /\ pc' \in {"satisfy", "succeed"}
      BY <1>2, <2>2, <2>4 DEF ObligationSatisfied, Go, AfterSatisfied
    <3>4. ~Snapped /\ ~Snapped'
      BY <2>2, <2>4, <3>3 DEF Snapped, InOpen, Open, Deciding
    <3> QED
      BY <3>1, <3>2, <3>4
  <2>5. CASE o = p /\ ~gate.closure
    <3>1. Admitting
      BY <2>2, <2>5 DEF Admitting
    <3>2. Admitting' /\ disk' = disk
      BY <1>2, <2>2, <3>1, AdmittingSteps DEF Next, TickStep, TransactionCommitted
    <3>3. proof'[o].content = disk
      BY <1>1, <2>1, <2>5
    <3>4. Snapped'
      BY <3>2 DEF Admitting, Snapped, InOpen, Deciding
    <3> QED
      BY <3>2, <3>3, <3>4
  <2> QED
    BY <2>3, <2>4, <2>5
<1>3. CASE ~ObligationSatisfied
  <2>1. o \in SatisfiedObl /\ proof' = proof
    BY <1>3, SatisfyingSteps
  <2>2. CASE GoalCompiled
    BY <1>1, <2>1, <2>2 DEF GoalCompiled
  <2>3. CASE ObligationOpened
    <3>1. PICK p \in todo : /\ oblStatus' = [oblStatus EXCEPT ![p] = "open"]
                            /\ oblRev' = [oblRev EXCEPT ![p] = 0]
      BY <2>3 DEF ObligationOpened
    <3>2. o # p
      BY <1>1, <3>1 DEF SatisfiedObl
    <3> QED
      BY <1>1, <2>1, <3>1, <3>2
  <2>4. CASE ObligationAmended \/ ObligationInvalidated \/ TransactionObserved
               \/ TransactionCommitted \/ UNCHANGED oblRev
    BY <2>1, <2>4 DEF ObligationAmended, ObligationInvalidated, TransactionObserved,
       TransactionCommitted, obls
  <2> QED
    BY <1>3, <2>2, <2>3, <2>4, ObligationSteps
<1> QED
  BY <1>2, <1>3

LEMMA ContentStep ==
  ASSUME KeysRefused, WatchedGuarded, TypeOK, TickOrder, TxRevision, RevisionsReached,
         WorkFacts, Settling, Tasks, Changed, AdmittedBelow, ContentKept, [Next]_vars
  PROVE  ContentKept'
<1> DEFINE Old(o, f) == /\ tx.snapshot[f] = proof[o].content[f]
                        /\ f \in tx.touches => Above \/ oblRev[o] < tx.cand
           New(o, f) == Admitting /\ disk[f] = proof[o].content[f]
           Kept(o, f) == IF Snapped THEN Old(o, f) \/ New(o, f)
                         ELSE disk[f] = proof[o].content[f] \/ (pc = "invalidate" /\ o \in todo)
<1> SUFFICES ASSUME Calm', NEW o \in SatisfiedObl', NEW f \in Watch[o]
             PROVE  Kept(o, f)'
  BY DEF ContentKept
<1>1. Calm /\ ~Crash /\ ~StageFails /\ ~ApplyFails
  BY CalmSteps
<1>2. /\ o \in Obl /\ f \in File /\ disk \in [File -> Nat] /\ tx \in TxType
      /\ oblRev \in [Obl -> Nat] /\ worldRev \in Nat
  BY KernelAssumption, TypeFacts DEF SatisfiedObl, ProjectionTypes, TickTypes
<1>3. o \in SatisfiedObl => Kept(o, f)
  BY <1>1 DEF ContentKept
<1>4. CASE UNCHANGED vars
  <2>1. o \in SatisfiedObl
    BY <1>4 DEF vars, proj, obls, SatisfiedObl
  <2> QED
    BY <1>3, <1>4, <2>1 DEF vars, proj, obls, world, local, Snapped, InOpen, Admitting, Above
<1>5. CASE Admitting' /\ Snapped' /\ proof'[o].content = disk'
  BY <1>5
<1>6. ASSUME Next, o \in SatisfiedObl, proof'[o] = proof[o],
             oblRev'[o] = oblRev[o] \/ (~Snapped /\ ~Snapped')
      PROVE  Kept(o, f)'
  <2>1. CASE Snapped /\ Snapped'
    <3>1. oblRev'[o] = oblRev[o] /\ (Old(o, f) \/ New(o, f))
      BY <1>3, <1>6, <2>1
    <3>2. CASE ApplyReplayed
      <4>1. pc = "apply" /\ tx'.snapshot = tx.snapshot /\ tx'.cls = tx.cls
        BY <3>2 DEF ApplyReplayed
      <4>2. Above
        <5>1. tx.key # NoKey /\ tx.cls # "read_only"
          BY <3>2 DEF ApplyReplayed, Fresh
        <5> QED
          BY <1>2, <4>1, <5>1 DEF TxRevision, Above, TxType, Classes
      <4>3. Old(o, f)
        BY <3>1, <4>1 DEF Admitting
      <4> QED
        BY <1>6, <2>1, <4>1, <4>2, <4>3 DEF Above
    <3>3. CASE ApplyReadOnly
      <4>1. /\ pc = "apply" /\ tx'.snapshot = tx.snapshot /\ tx'.touches = tx.touches
            /\ tx.touches = {}
        BY <3>3 DEF ApplyReadOnly, Changed
      <4>2. Old(o, f)
        BY <3>1, <4>1 DEF Admitting
      <4> QED
        BY <1>6, <2>1, <4>1, <4>2
    <3>4. CASE ApplyWrites
      <4>1. /\ pc = "apply" /\ tx'.snapshot = tx.snapshot /\ tx'.cand = worldRev + 1
        BY <1>2, <3>4 DEF ApplyWrites, TxRevision, TxType
      <4>2. Old(o, f)
        BY <3>1, <4>1 DEF Admitting
      <4>3. oblRev'[o] < tx'.cand
        BY <1>2, <1>6, <3>1, <4>1 DEF RevisionsReached
      <4> QED
        BY <1>6, <2>1, <4>1, <4>2, <4>3
    <3>5. CASE ~(ApplyReplayed \/ ApplyReadOnly \/ ApplyWrites)
      <4>1. UNCHANGED <<tx, disk>>
        <5>1. ~(\E c \in Claims : TransactionPrepared(c))
          BY <2>1 DEF Snapped, InOpen, Open, Deciding, TransactionPrepared
        <5> QED
          BY <1>6, <2>1, <3>5, <5>1, SnapSteps
      <4>2. New(o, f) => New(o, f)'
        <5>1. ~TransactionCommitted
          BY <2>1 DEF TransactionCommitted, Go, Snapped, InOpen, Open, Deciding
        <5> QED
          BY <1>1, <1>6, <4>1, <5>1, AdmittingSteps
      <4>3. Old(o, f) => Old(o, f)'
        BY <1>6, <3>1, <4>1 DEF Above
      <4> QED
        BY <2>1, <3>1, <4>2, <4>3
    <3> QED
      BY <3>2, <3>3, <3>4, <3>5
  <2>2. CASE ~Snapped /\ Snapped'
    <3>1. PICK c \in Claims : TransactionPrepared(c)
      BY <1>6, <2>2, SnapSteps
    <3>2. pc = "maker"
      BY <3>1 DEF TransactionPrepared
    <3>3. disk[f] = proof[o].content[f]
      BY <1>3, <1>6, <2>2, <3>2
    <3>4. tx'.touches = {} /\ tx'.snapshot[f] = disk[f]
      BY <1>2, <3>1, PreparedSnapshot
    <3> QED
      BY <1>6, <2>2, <3>3, <3>4
  <2>3. CASE Snapped /\ ~Snapped'
    <3>1. Old(o, f) \/ New(o, f)
      BY <1>3, <1>6, <2>3
    <3>2. disk[f] = tx.snapshot[f] \/ (f \in tx.touches /\ tx.cls \in {"reversible", "compensatable"})
      BY <1>2, <2>3 DEF Changed
    <3>3. CASE TransactionCommitted
      <4>1. /\ pc = "finalize" /\ gate.decision = "admit" /\ disk' = disk
            /\ pc' = IF Stale(CommitRev) = {} THEN "closeCheck" ELSE "invalidate"
            /\ todo' = Stale(CommitRev)
        BY <3>3 DEF TransactionCommitted, Go, world
      <4>2. Admitting
        BY <2>3, <4>1 DEF Admitting, Snapped, InOpen, Open, Deciding, TickOrder, StageFacts
      <4>3. CASE New(o, f)
        BY <1>6, <2>3, <4>1, <4>3
      <4>4. CASE Old(o, f) /\ f \notin tx.touches
        BY <1>6, <2>3, <3>2, <4>1, <4>4
      <4>5. CASE Old(o, f) /\ f \in tx.touches
        <5>1. oblRev[o] < tx.cand
          BY <4>2, <4>5 DEF AdmittedBelow
        <5>2. CommitRev = tx.cand
          BY <1>2, <5>1 DEF CommitRev, TxType
        <5>3. o \in Stale(CommitRev)
          BY <1>2, <1>6, <4>5, <5>1, <5>2 DEF Stale, SatisfiedObl
        <5> QED
          BY <2>3, <4>1, <5>3
      <4> QED
        BY <3>1, <4>3, <4>4, <4>5
    <3>4. CASE Restore
      <4>1. /\ gate.decision # "admit"
            /\ disk' = [g \in File |-> IF g \in Preserved THEN disk[g] ELSE tx.snapshot[g]]
        BY <3>4 DEF Restore
      <4>2. Old(o, f)
        BY <3>1, <4>1 DEF Admitting
      <4>3. f \notin Preserved
        BY <1>2 DEF WatchedGuarded
      <4>4. disk'[f] = tx.snapshot[f]
        BY <1>2, <4>1, <4>3
      <4> QED
        BY <1>6, <2>3, <4>2, <4>4
    <3>5. CASE LeavePrepared
      <4>1. gate.decision # "admit" /\ disk' = disk /\ tx.cls \notin {"reversible", "compensatable"}
        BY <3>5 DEF LeavePrepared, world
      <4>2. Old(o, f)
        BY <3>1, <4>1 DEF Admitting
      <4> QED
        BY <1>6, <2>3, <3>2, <4>1, <4>2
    <3> QED
      BY <1>1, <1>6, <2>3, <3>3, <3>4, <3>5, UnsnapSteps
  <2>4. CASE ~Snapped /\ ~Snapped'
    <3>1. disk' = disk
      BY <1>1, <1>6, <2>4, QuietSteps
    <3>2. disk[f] = proof[o].content[f] \/ (pc = "invalidate" /\ o \in todo)
      BY <1>3, <1>6, <2>4
    <3>3. CASE pc = "invalidate" /\ o \in todo
      BY <1>1, <1>6, <2>4, <3>3, InvalidateSteps
    <3> QED
      BY <1>6, <2>4, <3>1, <3>2, <3>3
  <2> QED
    BY <2>1, <2>2, <2>3, <2>4
<1> QED
  BY <1>1, <1>4, <1>5, <1>6, AttestedSteps

\* Where tools and irreversible claims keep off watched files, and keys are
\* given to nothing the Gate can admit: as long as no process has died and no
\* stage has failed, the watched files of a satisfied obligation have, between
\* ticks, the content that was attested.
THEOREM AttestedContentStays ==
  KeysRefused /\ WatchedGuarded => (Spec => [](Calm => AttestedContentCurrent))
<1> SUFFICES ASSUME KeysRefused, WatchedGuarded
             PROVE  Spec => [](Calm => AttestedContentCurrent)
  OBVIOUS
<1> DEFINE Inv == /\ TypeOK /\ TickOrder /\ TxRevision /\ RevisionsReached /\ WorkFacts
                  /\ Settling /\ Tasks /\ Changed /\ AdmittedBelow /\ ContentKept
<1>1. Init => Inv
  <2> SUFFICES ASSUME Init PROVE Inv
    OBVIOUS
  <2>1. TypeOK /\ TickOrder
    BY TypeInit, OrderInit
  <2>2. WorkFacts /\ Settling
    BY DEF Init, WorkFacts, Settling, InOpen, Open, Deciding, Contracted
  <2>3. TxRevision /\ RevisionsReached /\ Tasks /\ AdmittedBelow /\ ContentKept
    BY DEF Init, TxRevision, RevisionsReached, Tasks, AdmittedBelow, Admitting,
       ContentKept, SatisfiedObl
  <2>4. Changed
    BY DEF Init, Changed, Snapped, InOpen, Open, Deciding
  <2> QED
    BY <2>1, <2>2, <2>3, <2>4
<1>2. Inv /\ [Next]_vars => Inv'
  BY TypeStep, OrderStep, TxRevisionStep, ReachedStep, WorkStep, SettlingStep, TasksStep,
     ChangedStep, BelowStep, ContentStep
<1>3. Inv => (Calm => AttestedContentCurrent)
  BY DEF ContentKept, AttestedContentCurrent, AtRest, Snapped, InOpen, Open, Deciding
<1> QED
  BY <1>1, <1>2, <1>3, PTL DEF Spec
=============================================================================
