----------------------------- MODULE RunKernel -----------------------------
(***************************************************************************)
(* The event-sourced run kernel: what a tick (TickRunLoop, through         *)
(* RunEventContext and CommandHandler) appends to the event log, what the  *)
(* reducer makes of it, and what the world transaction does to the workdir.*)
(*                                                                         *)
(* The state of the run is the projection (kernel/reducer.py); an action   *)
(* that appends an event applies it to the projection in the same step,    *)
(* and a process that dies between two steps loses nothing but its local   *)
(* state.  One process runs the ticks (module WriteLease is about several).*)
(*                                                                         *)
(* The root node (0) has the obligations 1..Roots.  A split gives it the   *)
(* children 1..NumChildren (build_mechanical_split_candidate): one root    *)
(* obligation is refined into two derived ones, worked on in a row;        *)
(* several are partitioned among independent children.                     *)
(***************************************************************************)
EXTENDS Gate

CONSTANTS
  Roots,          \* number of root obligations
  File,           \* the files of the workdir
  Watch,          \* obligation -> watch_set of its attestations
  Claims,         \* what makers may claim, see ClaimType
  EpisodeWrites,  \* sets of files a maker's tools may write by themselves
  Outcomes,       \* the verdicts of the instance
  Preserved,      \* files that restore() keeps (_preserve_top_dirs)
  SplitStreak,    \* SPLIT_REPAIR_STREAK
  MaxTicks,       \* bound: ticks (a transaction is named after its tick)
  MaxCrashes,     \* bound: crashes of the process
  MaxFaults,      \* bound: stages that fail
  Spending,       \* TRUE: the token budget may run out
  GoalEdits       \* TRUE: the user may edit the goal

\* P.SPLIT_CHILDREN_MAX
SplitChildrenMax == 4

Refined == Roots = 1

\* _chunk: m divided by k, rounded up.
CeilDiv(m, k) == (m + k - 1) \div k

\* propose_children: a child per obligation, or per group of equal size.
NumChildren ==
  IF Refined THEN 2
  ELSE IF Roots <= SplitChildrenMax THEN Roots
  ELSE CeilDiv(Roots, CeilDiv(Roots, SplitChildrenMax))

Root == 0
Child == 1..NumChildren
Node == {Root} \cup Child
RootObl == 1..Roots
Derived == IF Refined THEN {2, 3} ELSE {}

Classes == {"read_only", "reversible", "compensatable", "irreversible"}
NoKey == "none"
Key == {c.key : c \in Claims} \ {NoKey}

\* cls: highest side-effect class of the actions; writes: files whose content
\* is in the payload; acks: existing files it only names.
ClaimType ==
  [cls : Classes, key : STRING, writes : SUBSET File, acks : SUBSET File]

ASSUME KernelAssumption ==
  /\ Roots \in Nat \ {0}
  /\ Obl = RootObl \cup Derived
  /\ Watch \in [Obl -> SUBSET File]
  /\ Claims \subseteq ClaimType
  /\ EpisodeWrites \subseteq SUBSET File
  /\ Outcomes \subseteq Verdicts
  /\ Preserved \subseteq File
  /\ SplitStreak \in Nat \ {0}
  /\ MaxTicks \in Nat
  /\ MaxCrashes \in Nat
  /\ MaxFaults \in Nat
  /\ Spending \in BOOLEAN
  /\ GoalEdits \in BOOLEAN

VARIABLES
  \* the projection of the event log
  runStatus, nodeStatus, streak, oblStatus, oblRev, amendments, txState,
  worldRev, counts, spent,
  \* the workdir: last writer of each file (0: nobody), the idempotency
  \* ledger, and whether the goal text differs from the compiled one
  disk, ledger, drifted,
  \* the tick in progress
  pc, final, cur, tx, evidence, todo, gate,
  \* bounds
  ticks, crashes, faults,
  \* what the checker saw when it attested an obligation (for properties)
  proof

proj == <<runStatus, nodeStatus, streak, oblStatus, oblRev, amendments,
          txState, worldRev, counts, spent>>
world == <<disk, ledger, drifted>>
local == <<pc, final, cur, tx, evidence, todo, gate>>
bounds == <<ticks, crashes, faults>>
tree == <<nodeStatus, streak>>
obls == <<oblStatus, oblRev, amendments>>
txs == <<txState, worldRev>>
meters == <<counts, spent>>
vars == <<proj, world, local, bounds, proof>>

-----------------------------------------------------------------------------
(* The task tree and the scheduler *)

Terminal == {"succeeded", "aborted", "invalid", "faulted"}

\* obligation_refs of a node
Refs(n) ==
  IF n = Root THEN RootObl
  ELSE IF Refined THEN {n + 1}
  ELSE IF n = NumChildren THEN n..Roots
  ELSE {n}

\* deps_satisfied: the chain of a refined node's children.
DepsSatisfied(n) ==
  Refined /\ n > 1 => nodeStatus[n - 1] = "admitted"

Unamended(n) == Refs(n) \cap amendments = {}

\* pending_ready_to_promote
Promotable ==
  {n \in Node : nodeStatus[n] = "pending" /\ Unamended(n) /\ DepsSatisfied(n)}

\* ready_pool
ReadyPool ==
  {n \in Node : nodeStatus[n] = "ready" /\ Unamended(n) /\ DepsSatisfied(n)}

\* select_ready_node: the deepest first, then the least id.
Selected(n) ==
  /\ n \in ReadyPool
  /\ \A m \in ReadyPool \ {Root} : n # Root /\ n <= m

InProgress == {n \in Node : nodeStatus[n] = "in_progress"}

\* RunEventContext.closure_needed
ClosureNeeded ==
  runStatus = "running" /\ InProgress = {} /\ ReadyPool = {}

\* obligation_covered
Covered(o) ==
  \/ oblStatus[o] = "satisfied"
  \/ /\ Refined /\ o = 1
     /\ \A d \in Derived : oblStatus[d] = "satisfied"

\* Mutant of Dangling: a commit does not settle.
DanglingCommitted ==
  {t \in 1..MaxTicks : txState[t] \in {"prepared", "committed"}}

\* Mutant of Dangling: a recorded rollback does not settle.
DanglingRolledBack ==
  {t \in 1..MaxTicks : txState[t] \in {"prepared", "rolled_back"}}

\* Mutant of Dangling: looks at the transaction of this tick only.
DanglingNow == {t \in 1..MaxTicks : txState[t] = "prepared" /\ t = ticks}

\* dangling_transaction_ids
Dangling == {t \in 1..MaxTicks : txState[t] = "prepared"}

-----------------------------------------------------------------------------
NoTx == [cls |-> "read_only", key |-> NoKey, base |-> 0, cand |-> 0,
         writes |-> {}, acks |-> {}, touches |-> {},
         snapshot |-> [f \in File |-> 0]]

\* A key the idempotency ledger does not hold.
NoEntry == [tx |-> 0, cand |-> 0, touches |-> {}]

NoEvidence == [o \in Obl |-> "none"]

NoGate == Decision("none", "none", {}, {}, All, FALSE)

Init ==
  /\ runStatus = "created"
  /\ nodeStatus = [n \in Node |-> "absent"]
  /\ streak = [n \in Node |-> 0]
  /\ oblStatus = [o \in Obl |-> "absent"]
  /\ oblRev = [o \in Obl |-> 0]
  /\ amendments = {}
  /\ txState = [t \in 1..MaxTicks |-> "none"]
  /\ worldRev = 0
  /\ counts = NoRepairs
  /\ spent = FALSE
  /\ disk = [f \in File |-> 0]
  /\ ledger = [k \in Key |-> NoEntry]
  /\ drifted = FALSE
  /\ pc = "idle"
  /\ final = FALSE
  /\ cur = Root
  /\ tx = NoTx
  /\ evidence = NoEvidence
  /\ todo = {}
  /\ gate = NoGate
  /\ ticks = 0
  /\ crashes = 0
  /\ faults = 0
  /\ proof = [o \in Obl |-> [tx |-> 0, content |-> [f \in File |-> 0]]]

\* The tick is over: its local state is gone.
EndTick ==
  /\ pc' = "idle"
  /\ final' = FALSE
  /\ cur' = Root
  /\ tx' = NoTx
  /\ evidence' = NoEvidence
  /\ todo' = {}
  /\ gate' = NoGate

\* The code's loops take ids in order.
First(x, S) == x \in S /\ \A y \in S : x <= y

\* The tick goes on at p, with nothing local changed but "todo".
Go(p, work) ==
  /\ pc' = p
  /\ todo' = work
  /\ UNCHANGED <<final, cur, tx, evidence, gate>>

\* One element of "todo" is done; go on at p after the last one.
Done(x, p) == Go(IF todo = {x} THEN p ELSE pc, todo \ {x})

\* QuotaUpdated: cognitive_tokens may reach cognitive_tokens_max.
Spend == spent' \in IF Spending THEN {spent, TRUE} ELSE {spent}

-----------------------------------------------------------------------------
(* RunEventContext.acquire: recovery, then the goal's digest *)

\* Mutant of Begin: recovers whatever the status.
BeginAnyStatus ==
  /\ pc = "idle"
  /\ ticks < MaxTicks
  /\ ticks' = ticks + 1
  /\ final' \in BOOLEAN
  /\ IF Dangling # {}
     THEN runStatus' = "recovering" /\ pc' = "rollback"
     ELSE runStatus' = runStatus /\ pc' = "acquired"
  /\ UNCHANGED <<tree, obls, txs, meters, world, cur, tx, evidence, todo,
                 gate, crashes, faults, proof>>

\* A tick of the run loop, or finalize_run_closure_workdir after it.
Begin ==
  /\ pc = "idle"
  /\ ticks < MaxTicks
  /\ ticks' = ticks + 1
  /\ final' \in BOOLEAN
  /\ IF Dangling # {} /\ runStatus \notin Terminal
     THEN runStatus' = "recovering" /\ pc' = "rollback"
     ELSE runStatus' = runStatus /\ pc' = "acquired"
  /\ UNCHANGED <<tree, obls, txs, meters, world, cur, tx, evidence, todo,
                 gate, crashes, faults, proof>>

\* reconcile_dangling_transactions: WorldTransaction has no from_dict, the
\* AttributeError is swallowed, and TransactionRolledBack is appended with
\* the workdir as it is.
RecoverRollback ==
  /\ pc = "rollback"
  /\ \E t \in Dangling :
       /\ First(t, Dangling)
       /\ txState' = [txState EXCEPT ![t] = "rolled_back"]
  /\ UNCHANGED <<runStatus, tree, obls, worldRev, meters, world, local,
                 bounds, proof>>

\* reopen_stranded_in_progress_nodes: NodeReady, one node after the other
\* (in recovery, and at the start of phase 1).
Reopen ==
  /\ (pc = "rollback" /\ Dangling = {}) \/ pc = "phase1"
  /\ \E n \in InProgress :
       /\ First(n, InProgress)
       /\ nodeStatus' = [nodeStatus EXCEPT ![n] = "ready"]
  /\ UNCHANGED <<runStatus, streak, obls, txs, meters, world, local, bounds,
                 proof>>

RecoveryCompleted ==
  /\ pc = "rollback"
  /\ Dangling = {}
  /\ InProgress = {}
  /\ runStatus' = "running"
  /\ Go("acquired", {})
  /\ UNCHANGED <<tree, obls, txs, meters, world, bounds, proof>>

\* Where acquire() leads.
AfterAcquire == IF final THEN "closeCheck" ELSE "boot"

\* check_goal_drift: RunInvalid whenever the goal differs from the compiled
\* one, whatever the status of the run.
CheckGoalDrift ==
  /\ pc = "acquired"
  /\ runStatus' = IF drifted THEN "invalid" ELSE runStatus
  /\ Go(AfterAcquire, {})
  /\ UNCHANGED <<tree, obls, txs, meters, world, bounds, proof>>

-----------------------------------------------------------------------------
(* bootstrap_if_needed *)

\* Nothing to create: the run has ended, drifts, or has been created.  The
\* tick goes on in every case.  (NodeReady(root) of a "validating" run finds
\* no root.)
Bootstrapped ==
  /\ pc = "boot"
  /\ runStatus # "created"
  /\ runStatus' =
       IF drifted /\ runStatus \notin Terminal THEN "invalid" ELSE runStatus
  /\ Go("plan", {})
  /\ UNCHANGED <<tree, obls, txs, meters, world, bounds, proof>>

RunCreated ==
  /\ pc = "boot"
  /\ runStatus = "created"
  /\ runStatus' = "validating"
  /\ Go("compile", {})
  /\ UNCHANGED <<tree, obls, txs, meters, world, bounds, proof>>

GoalCompiled ==
  /\ pc = "compile"
  /\ runStatus' = "running"
  /\ nodeStatus' = [nodeStatus EXCEPT ![Root] = "pending"]
  /\ oblStatus' =
       [o \in Obl |-> IF o \in RootObl THEN "open" ELSE oblStatus[o]]
  /\ Go("rootReady", {})
  /\ UNCHANGED <<streak, oblRev, amendments, txs, meters, world, bounds,
                 proof>>

RootReady ==
  /\ pc = "rootReady"
  /\ nodeStatus' = [nodeStatus EXCEPT ![Root] = "ready"]
  /\ Go("plan", {})
  /\ UNCHANGED <<runStatus, streak, obls, txs, meters, world, bounds, proof>>

-----------------------------------------------------------------------------
(* The governor: TickRunLoop.begin and the "governor" stage *)

\* should_propose_split; children are at the greatest depth.
WantsSplit == \E n \in Node : Selected(n) /\ n = Root /\ streak[n] >= SplitStreak

Plan ==
  /\ pc = "plan"
  /\ Go(IF WantsSplit THEN "governor" ELSE "phase1", {})
  /\ UNCHANGED <<proj, world, bounds, proof>>

\* A proposal without split_node: on to the maker with the node as it is.
GovernorDeclines ==
  /\ pc = "governor"
  /\ Spend
  /\ Go("phase1", {})
  /\ UNCHANGED <<runStatus, tree, obls, txs, counts, world, bounds, proof>>

\* build_mechanical_split_candidate and commit_split (SplitProposed).
GovernorSplits ==
  /\ pc = "governor"
  /\ Spend
  /\ Go(IF Derived = {} THEN "splitting" ELSE "opening", Derived)
  /\ UNCHANGED <<runStatus, tree, obls, txs, counts, world, bounds, proof>>

\* The reducer replaces an obligation that a former split has opened.
ObligationOpened ==
  /\ pc = "opening"
  /\ \E o \in todo :
       /\ First(o, todo)
       /\ oblStatus' = [oblStatus EXCEPT ![o] = "open"]
       /\ oblRev' = [oblRev EXCEPT ![o] = 0]
       /\ Done(o, "splitting")
  /\ UNCHANGED <<runStatus, tree, amendments, txs, meters, world, bounds,
                 proof>>

\* The reducer replaces children of a former split by pending ones.
SplitCommitted ==
  /\ pc = "splitting"
  /\ nodeStatus' = [n \in Node |-> IF n = Root THEN "split" ELSE "pending"]
  /\ streak' = [n \in Node |-> IF n = Root THEN streak[n] ELSE 0]
  /\ LET ready == {c \in Child : Refs(c) \cap amendments = {}
                                   /\ ~(Refined /\ c > 1)}
     IN  Go(IF ready = {} THEN "phase1" ELSE "promote", ready)
  /\ UNCHANGED <<runStatus, obls, txs, meters, world, bounds, proof>>

\* promote_dependency_ready_nodes, after a split or in gate_decide.
Promote ==
  /\ pc = "promote"
  /\ \E n \in todo :
       /\ First(n, todo)
       /\ nodeStatus' = [nodeStatus EXCEPT ![n] = "ready"]
       /\ Done(n, IF gate = NoGate THEN "phase1" ELSE "finalize")
  /\ UNCHANGED <<runStatus, streak, obls, txs, meters, world, bounds, proof>>

-----------------------------------------------------------------------------
(* Phase 1: the contract and the maker *)

\* Mutant of ContractAssembled: stranded nodes are not reopened first.
ContractAssembledEarly(n) ==
  /\ pc = "phase1"
  /\ runStatus # "succeeded"
  /\ Selected(n)
  /\ nodeStatus' = [nodeStatus EXCEPT ![n] = "in_progress"]
  /\ cur' = n
  /\ pc' = "maker"
  /\ UNCHANGED <<runStatus, streak, obls, txs, meters, world, final, tx,
                 evidence, todo, gate, bounds, proof>>

\* No stranded node is left: close, stop, or assemble the next contract.
Phase1 ==
  /\ pc = "phase1"
  /\ InProgress = {}
  /\ \/ ClosureNeeded /\ Go("closing", {})
     \/ ~ClosureNeeded /\ (runStatus = "succeeded" \/ ReadyPool = {}) /\ EndTick
  /\ UNCHANGED <<proj, world, bounds, proof>>

ContractAssembled(n) ==
  /\ pc = "phase1"
  /\ InProgress = {}
  /\ runStatus # "succeeded"
  /\ Selected(n)
  /\ nodeStatus' = [nodeStatus EXCEPT ![n] = "in_progress"]
  /\ cur' = n
  /\ pc' = "maker"
  /\ UNCHANGED <<runStatus, streak, obls, txs, meters, world, final, tx,
                 evidence, todo, gate, bounds, proof>>

\* Files written through tools, outside the transaction.
EpisodeDisk(W) == [f \in File |-> IF f \in W THEN ticks ELSE disk[f]]

\* The maker's claim: QuotaUpdated, capability check, begin and prepare with
\* its snapshot, TransactionPrepared.
TransactionPrepared(c) ==
  /\ pc = "maker"
  /\ c.cls = "irreversible" => c.key # NoKey
  /\ Spend
  /\ \E W \in EpisodeWrites :
       /\ disk' = EpisodeDisk(W)
       /\ tx' = [NoTx EXCEPT !.cls = c.cls, !.key = c.key, !.base = worldRev,
                             !.writes = c.writes, !.acks = c.acks,
                             !.snapshot = EpisodeDisk(W)]
  /\ txState' = [txState EXCEPT ![ticks] = "prepared"]
  /\ pc' = "apply"
  /\ UNCHANGED <<runStatus, tree, obls, worldRev, counts, ledger, drifted,
                 final, cur, evidence, todo, gate, bounds, proof>>

Fresh == IF tx.key = NoKey THEN TRUE ELSE ledger[tx.key] = NoEntry

\* apply() has already been done under this key: replay its result.
ApplyReplayed ==
  /\ pc = "apply"
  /\ tx.cls # "read_only"
  /\ ~Fresh
  /\ tx' = [tx EXCEPT !.cand = ledger[tx.key].cand,
                      !.touches = ledger[tx.key].touches]
  /\ pc' = "observe"
  /\ UNCHANGED <<proj, world, final, cur, evidence, todo, gate, bounds, proof>>

ApplyReadOnly ==
  /\ pc = "apply"
  /\ tx.cls = "read_only"
  /\ tx' = [tx EXCEPT !.cand = tx.base]
  /\ pc' = "observe"
  /\ UNCHANGED <<proj, world, final, cur, evidence, todo, gate, bounds, proof>>

\* apply_claim_payload writes the files of the payload.
ApplyWrites ==
  /\ pc = "apply"
  /\ tx.cls # "read_only"
  /\ Fresh
  /\ disk' = EpisodeDisk(tx.writes)
  /\ tx' = [tx EXCEPT !.cand = tx.base + 1,
                      !.touches = tx.writes \cup tx.acks]
  /\ pc' = IF tx.key = NoKey THEN "observe" ELSE "ledger"
  /\ UNCHANGED <<proj, ledger, drifted, final, cur, evidence, todo, gate,
                 bounds, proof>>

\* Mutant of TransactionObserved: the observation does not move the revision.
ObservedUnmoved ==
  /\ pc = "observe"
  /\ Go("checker", {})
  /\ UNCHANGED <<proj, world, bounds, proof>>

\* _save_idempo
SaveLedger ==
  /\ pc = "ledger"
  /\ ledger' = [ledger EXCEPT ![tx.key] =
                  [tx |-> ticks, cand |-> tx.cand, touches |-> tx.touches]]
  /\ Go("observe", {})
  /\ UNCHANGED <<proj, disk, drifted, bounds, proof>>

TransactionObserved ==
  /\ pc = "observe"
  /\ worldRev' = IF tx.cand > worldRev THEN tx.cand ELSE worldRev
  /\ Go("checker", {})
  /\ UNCHANGED <<runStatus, tree, obls, txState, meters, world, bounds, proof>>

-----------------------------------------------------------------------------
(* The checker and the Gate *)

\* EvidenceRecorded: one verdict per obligation of the contract, stamped with
\* the transaction's revision; defects are suspected of derived obligations.
EvidenceRecorded ==
  /\ pc = "checker"
  /\ Spend
  /\ \E v \in [Refs(cur) -> Outcomes] :
       evidence' = [o \in Obl |-> IF o \in Refs(cur) THEN v[o] ELSE "none"]
  /\ todo' \in SUBSET (Refs(cur) \ RootObl)
  /\ pc' = IF todo' = {} THEN "gate" ELSE "propose"
  /\ UNCHANGED <<runStatus, tree, obls, txs, counts, world, final, cur, tx,
                 gate, bounds, proof>>

\* record_defect_suspected_amendments: ObligationAmendmentProposed ...
AmendmentProposed ==
  /\ pc = "propose"
  /\ \E o \in todo : First(o, todo) /\ amendments' = amendments \cup {o}
  /\ Go("amend", todo)
  /\ UNCHANGED <<runStatus, tree, oblStatus, oblRev, txs, meters, world,
                 bounds, proof>>

\* ... and ObligationAmended: the obligation is open again.
ObligationAmended ==
  /\ pc = "amend"
  /\ \E o \in todo :
       /\ First(o, todo)
       /\ amendments' = amendments \ {o}
       /\ oblStatus' = [oblStatus EXCEPT ![o] = "open"]
       /\ Go(IF todo = {o} THEN "gate" ELSE "propose", todo \ {o})
  /\ UNCHANGED <<runStatus, tree, oblRev, txs, meters, world, bounds, proof>>

\* What gate.decide is given for the contract and the claim of this tick.
NodeInput ==
  [refs |-> Refs(cur), verdict |-> evidence,
   ceiling |-> tx.cls \in {"compensatable", "irreversible"},
   noAlts |-> FALSE, integrity |-> FALSE, boundary |-> FALSE,
   amend |-> amendments, spent |-> spent, closure |-> FALSE,
   covered |-> FALSE]

\* Mutant of ClosureInput: only what was attested at the present revision.
ClosureInputAtRevision ==
  [refs |-> RootObl,
   verdict |-> [o \in Obl |->
     IF oblStatus[o] = "satisfied" /\ oblRev[o] = worldRev THEN "satisfied"
     ELSE "unsatisfied"],
   ceiling |-> FALSE, noAlts |-> FALSE, integrity |-> FALSE,
   boundary |-> FALSE, amend |-> amendments, spent |-> spent,
   closure |-> TRUE, covered |-> \A o \in RootObl : Covered(o)]

\* run_closure_gate: an obligation's own status, re-attested.
ClosureInput ==
  [refs |-> RootObl,
   verdict |-> [o \in Obl |-> IF oblStatus[o] = "satisfied" THEN "satisfied"
                              ELSE "unsatisfied"],
   ceiling |-> FALSE, noAlts |-> FALSE, integrity |-> FALSE,
   boundary |-> FALSE, amend |-> amendments, spent |-> spent,
   closure |-> TRUE, covered |-> \A o \in RootObl : Covered(o)]

\* GateDecided, and the reducer's branch for it: the node takes the decision,
\* the repair is counted.
GateDecided(g) ==
  \E amended \in AmendedPicks(g) :
    LET d == Decide(g, counts, amended) IN
      /\ gate' = d
      /\ counts' = Recorded(counts, d)
      /\ nodeStatus' = [nodeStatus EXCEPT ![cur] =
           CASE d.decision = "admit" -> "admitted"
             [] d.decision = "repair" -> "ready"
             [] OTHER -> "failed"]
      /\ streak' = [streak EXCEPT ![cur] =
           CASE d.decision = "admit" -> 0
             [] d.decision = "repair" -> @ + 1
             [] OTHER -> @]
      /\ pc' = CASE d.decision = "admit" -> "satisfy"
                 [] d.decision = "abort" -> "abort"
                 [] OTHER -> "finalize"
      /\ todo' = IF d.decision = "admit" THEN d.satisfied ELSE {}

NodeGate ==
  /\ pc = "gate"
  /\ GateDecided(NodeInput)
  /\ UNCHANGED <<runStatus, obls, txs, spent, world, final, cur, tx, evidence,
                 bounds, proof>>

\* Where gate_decide goes on after its last ObligationSatisfied.
AfterSatisfied ==
  IF gate.closure THEN "succeed"
  ELSE IF Promotable = {} THEN "finalize" ELSE "promote"

\* ObligationSatisfied, at the revision of the evidence.
ObligationSatisfied ==
  /\ pc = "satisfy"
  /\ \E o \in todo :
       /\ First(o, todo)
       /\ oblStatus' = [oblStatus EXCEPT ![o] = "satisfied"]
       /\ oblRev' = [oblRev EXCEPT ![o] = IF gate.closure THEN worldRev
                                          ELSE tx.cand]
       /\ proof' = IF gate.closure THEN proof
                   ELSE [proof EXCEPT ![o] = [tx |-> ticks, content |-> disk]]
       /\ Go(IF todo = {o} THEN AfterSatisfied ELSE pc,
             IF todo # {o} THEN todo \ {o}
             ELSE IF AfterSatisfied = "promote" THEN Promotable ELSE {})
  /\ UNCHANGED <<runStatus, tree, amendments, txs, meters, world, bounds>>

\* After a closure gate the tick ends; its transaction is settled already.
RunSucceeded ==
  /\ pc = "succeed"
  /\ runStatus' = "succeeded"
  /\ EndTick
  /\ UNCHANGED <<tree, obls, txs, meters, world, bounds, proof>>

RunAborted ==
  /\ pc = "abort"
  /\ runStatus' = "aborted"
  /\ IF gate.closure THEN EndTick ELSE Go("finalize", {})
  /\ UNCHANGED <<tree, obls, txs, meters, world, bounds, proof>>

-----------------------------------------------------------------------------
(* finalize_transaction_after_gate *)

\* Mutant of Stale: spares what the revision before attested.
StaleTwoBehind(rev) ==
  {o \in Obl : /\ oblStatus[o] = "satisfied"
               /\ Watch[o] \cap tx.touches # {}
               /\ oblRev[o] + 1 < rev}

\* Obligations that invalidate_from_commit invalidates.
Stale(rev) ==
  {o \in Obl : /\ oblStatus[o] = "satisfied"
               /\ Watch[o] \cap tx.touches # {}
               /\ oblRev[o] < rev}

\* int(tx.candidate_revision or proj.world_revision + 1)
CommitRev == IF tx.cand = 0 THEN worldRev + 1 ELSE tx.cand

TransactionCommitted ==
  /\ pc = "finalize"
  /\ gate.decision = "admit"
  /\ txState' = [txState EXCEPT ![ticks] = "committed"]
  /\ worldRev' = CommitRev
  /\ Go(IF Stale(CommitRev) = {} THEN "closeCheck" ELSE "invalidate",
        Stale(CommitRev))
  /\ UNCHANGED <<runStatus, tree, obls, meters, world, bounds, proof>>

\* Mutant of ObligationInvalidated: the owning nodes stay admitted.
InvalidatedAlone ==
  /\ pc = "invalidate"
  /\ \E o \in todo :
       /\ First(o, todo)
       /\ oblStatus' = [oblStatus EXCEPT ![o] = "invalidated"]
       /\ Done(o, "closeCheck")
  /\ UNCHANGED <<runStatus, tree, oblRev, amendments, txs, meters, world,
                 bounds, proof>>

\* ObligationInvalidated; the reducer reopens the nodes that were admitted
\* with this obligation.
ObligationInvalidated ==
  /\ pc = "invalidate"
  /\ \E o \in todo :
       /\ First(o, todo)
       /\ oblStatus' = [oblStatus EXCEPT ![o] = "invalidated"]
       /\ nodeStatus' =
            [n \in Node |->
               IF nodeStatus[n] = "admitted" /\ o \in Refs(n)
               THEN "in_progress" ELSE nodeStatus[n]]
       /\ Done(o, "closeCheck")
  /\ UNCHANGED <<runStatus, streak, oblRev, amendments, txs, meters, world,
                 bounds, proof>>

\* Mutant of TransactionUndone: records the status of the schema's fault.
UndoneFaulted ==
  /\ pc = "restored"
  /\ txState' = [txState EXCEPT ![ticks] = "faulted"]
  /\ Go("closeCheck", {})
  /\ UNCHANGED <<runStatus, tree, obls, worldRev, meters, world, bounds, proof>>

\* worldref.restore from the transaction's snapshot.
Restore ==
  /\ pc = "finalize"
  /\ gate.decision # "admit"
  /\ ~gate.closure
  /\ tx.cls \in {"reversible", "compensatable"}
  /\ disk' = [f \in File |-> IF f \in Preserved THEN disk[f]
                             ELSE tx.snapshot[f]]
  /\ Go("restored", {})
  /\ UNCHANGED <<proj, ledger, drifted, bounds, proof>>

TransactionUndone ==
  /\ pc = "restored"
  /\ txState' = [txState EXCEPT ![ticks] =
       IF tx.cls = "reversible" THEN "rolled_back" ELSE "compensated"]
  /\ Go("closeCheck", {})
  /\ UNCHANGED <<runStatus, tree, obls, worldRev, meters, world, bounds, proof>>

\* read_only and irreversible: neither undone nor settled.
LeavePrepared ==
  /\ pc = "finalize"
  /\ gate.decision # "admit"
  /\ ~gate.closure
  /\ tx.cls \in {"read_only", "irreversible"}
  /\ Go("closeCheck", {})
  /\ UNCHANGED <<proj, world, bounds, proof>>

-----------------------------------------------------------------------------
(* The closure gate *)

CloseCheck ==
  /\ pc = "closeCheck"
  /\ IF ClosureNeeded THEN Go("closing", {}) ELSE EndTick
  /\ UNCHANGED <<proj, world, bounds, proof>>

\* run_closure_gate: ContractAssembled for the root ...
ClosureContract ==
  /\ pc = "closing"
  /\ nodeStatus' = [nodeStatus EXCEPT ![Root] = "in_progress"]
  /\ cur' = Root
  /\ pc' = "closureGate"
  /\ UNCHANGED <<runStatus, streak, obls, txs, meters, world, final, tx,
                 evidence, todo, gate, bounds, proof>>

\* ... and the Gate.  After a repair the tick ends.
ClosureGate ==
  /\ pc = "closureGate"
  /\ GateDecided(ClosureInput)
  /\ UNCHANGED <<runStatus, obls, txs, spent, world, final, cur, tx, evidence,
                 bounds, proof>>

ClosureRepaired ==
  /\ pc = "finalize"
  /\ gate.closure
  /\ EndTick
  /\ UNCHANGED <<proj, world, bounds, proof>>

-----------------------------------------------------------------------------
(* Failures and the user *)

\* The governor, the maker or the checker fails or answers nonsense, or the
\* maker's actions are denied: the tick ends with what has been done so far.
StageFails ==
  /\ pc \in {"governor", "maker", "checker"}
  /\ faults < MaxFaults
  /\ faults' = faults + 1
  /\ Spend
  /\ IF pc = "maker" THEN \E W \in EpisodeWrites : disk' = EpisodeDisk(W)
     ELSE UNCHANGED disk
  /\ EndTick
  /\ UNCHANGED <<runStatus, tree, obls, txs, counts, ledger, drifted, ticks,
                 crashes, proof>>

\* prepare() refuses an irreversible claim without a key.
PrepareRefused(c) ==
  /\ pc = "maker"
  /\ c.cls = "irreversible" /\ c.key = NoKey
  /\ Spend
  /\ EndTick
  /\ UNCHANGED <<runStatus, tree, obls, txs, counts, world, bounds, proof>>

\* A file of the payload is refused (ValueError) after others were written.
ApplyFails ==
  /\ pc = "apply"
  /\ tx.cls # "read_only"
  /\ Fresh
  /\ faults < MaxFaults
  /\ faults' = faults + 1
  /\ \E W \in SUBSET tx.writes : W # tx.writes /\ disk' = EpisodeDisk(W)
  /\ EndTick
  /\ UNCHANGED <<proj, ledger, drifted, ticks, crashes, proof>>

\* The process dies.
Crash ==
  /\ pc # "idle"
  /\ crashes < MaxCrashes
  /\ crashes' = crashes + 1
  /\ EndTick
  /\ UNCHANGED <<proj, world, ticks, faults, proof>>

\* The user edits the goal that was compiled.
EditGoal ==
  /\ GoalEdits
  /\ nodeStatus[Root] # "absent"
  /\ ~drifted
  /\ drifted' = TRUE
  /\ UNCHANGED <<proj, disk, ledger, local, bounds, proof>>

-----------------------------------------------------------------------------
\* What the tick does by itself, given that its workers answer.
TickStep ==
  \/ RecoverRollback \/ Reopen \/ RecoveryCompleted \/ CheckGoalDrift
  \/ Bootstrapped \/ RunCreated \/ GoalCompiled \/ RootReady
  \/ Plan \/ GovernorDeclines \/ GovernorSplits \/ ObligationOpened
  \/ SplitCommitted \/ Promote
  \/ Phase1 \/ \E n \in Node : ContractAssembled(n)
  \/ \E c \in Claims : TransactionPrepared(c) \/ PrepareRefused(c)
  \/ ApplyReplayed \/ ApplyReadOnly \/ ApplyWrites \/ SaveLedger
  \/ TransactionObserved
  \/ EvidenceRecorded \/ AmendmentProposed \/ ObligationAmended \/ NodeGate
  \/ ObligationSatisfied \/ RunSucceeded \/ RunAborted
  \/ TransactionCommitted \/ ObligationInvalidated
  \/ Restore \/ TransactionUndone \/ LeavePrepared
  \/ CloseCheck \/ ClosureContract \/ ClosureGate \/ ClosureRepaired

Next == Begin \/ TickStep \/ StageFails \/ ApplyFails \/ Crash \/ EditGoal

Spec == Init /\ [][Next]_vars

\* Every stage ends: its worker answers or its timeout does.
FairSpec == Spec /\ WF_vars(TickStep)

-----------------------------------------------------------------------------
Pcs == {"idle", "rollback", "acquired", "boot", "compile", "rootReady",
        "plan", "governor", "opening", "splitting", "promote", "phase1",
        "maker", "apply", "ledger", "observe", "checker", "propose", "amend",
        "gate", "satisfy", "abort", "succeed", "finalize", "invalidate",
        "restored", "closeCheck", "closing", "closureGate"}

RunStatuses == {"created", "validating", "running", "recovering"} \cup Terminal
NodeStatuses == {"absent", "pending", "ready", "in_progress", "admitted",
                 "failed", "split"}
OblStatuses == {"absent", "open", "satisfied", "invalidated"}
TxStates == {"none", "prepared", "committed", "rolled_back", "compensated"}

ProjectionTypes ==
  /\ runStatus \in RunStatuses
  /\ nodeStatus \in [Node -> NodeStatuses]
  /\ streak \in [Node -> Nat]
  /\ oblStatus \in [Obl -> OblStatuses]
  /\ oblRev \in [Obl -> Nat]
  /\ amendments \subseteq Obl
  /\ txState \in [1..MaxTicks -> TxStates]
  /\ worldRev \in Nat
  /\ counts \in [Keys -> Nat]
  /\ spent \in BOOLEAN

WorldTypes ==
  /\ disk \in [File -> Nat]
  /\ ledger \in [Key -> [tx : Nat, cand : Nat, touches : SUBSET File]]
  /\ drifted \in BOOLEAN

TxType ==
  [cls : Classes, key : Key \cup {NoKey}, base : Nat, cand : Nat,
   writes : SUBSET File, acks : SUBSET File, touches : SUBSET File,
   snapshot : [File -> Nat]]

TickTypes ==
  /\ pc \in Pcs
  /\ final \in BOOLEAN
  /\ cur \in Node
  /\ tx \in TxType
  /\ evidence \in [Obl -> Verdicts]
  /\ todo \subseteq IF pc = "promote" THEN Node ELSE Obl

BoundTypes ==
  /\ ticks \in 0..MaxTicks
  /\ crashes \in 0..MaxCrashes
  /\ faults \in 0..MaxFaults

ProofTypes == proof \in [Obl -> [tx : Nat, content : [File -> Nat]]]

\* The types of the projection (ProjectionState), the world and the tick.
TypeOK ==
  /\ ProjectionTypes
  /\ WorldTypes
  /\ TickTypes
  /\ BoundTypes
  /\ ProofTypes

SatisfiedObl == {o \in Obl : oblStatus[o] = "satisfied"}

AtRest == pc = "idle"

\* Between ticks, the watched files of a satisfied obligation have the content
\* the checker attested: what a later transaction changed was undone, or
\* invalidated the obligation (finalize_transaction_after_gate,
\* invalidate_from_commit; "satisfied=has a currently-valid Attestation",
\* goal_spec.schema.json).
AttestedContentCurrent ==
  AtRest => \A o \in SatisfiedObl : \A f \in Watch[o] :
    disk[f] = proof[o].content[f]

\* Between ticks, the transaction whose world an obligation was attested in
\* is committed (gate_decide satisfies first, finalize_transaction_after_gate
\* commits later).
EvidenceCommitted ==
  AtRest => \A o \in SatisfiedObl : txState[proof[o].tx] = "committed"

\* Between ticks, an admitted node has all its obligations covered, although
\* commits of other nodes invalidate obligations and repeated splits reopen
\* them (the reducer's ObligationInvalidated and SplitCommitted branches).
AdmittedClosed ==
  AtRest => \A n \in Node : nodeStatus[n] = "admitted" =>
    \A o \in Refs(n) : Covered(o)

\* Once the next tick has recovered, no obligation is satisfied by evidence
\* from a transaction that was rolled back ("satisfied=has a currently-valid
\* Attestation", goal_spec.schema.json).
AttestedNotRolledBack ==
  pc = "plan" =>
    \A o \in SatisfiedObl : txState[proof[o].tx] # "rolled_back"

\* No obligation is attested at a revision the run has not reached, which
\* invalidate_from_commit relies on when it compares revisions.  (Where no
\* reversible claim carries an idempotency key: such a key outlives the
\* rollback of its transaction, and its replay commits the revision it led to
\* the first time, which takes world_revision back.)
RevisionsReached == \A o \in SatisfiedObl : oblRev[o] <= worldRev

\* A run that has succeeded has satisfied every root obligation and settled
\* every transaction, wherever the process died before (run_closure_gate and
\* recovery).
SuccessIsClosed ==
  runStatus = "succeeded" =>
    /\ RootObl \subseteq SatisfiedObl
    /\ \A t \in 1..MaxTicks : txState[t] # "prepared"

\* From the contract to the Gate, the node of the contract is the only one
\* in progress: in_progress_node and the reopening of stranded nodes find no
\* other (TickRunLoop._start_phase1).
OneActiveContract ==
  pc \in {"maker", "apply", "ledger", "observe", "checker", "propose",
          "amend", "gate"}
    => InProgress = {cur}

\* A run that has ended stays ended, and success is only ever replaced by
\* "invalid" (the ticks that follow still append events).
EndedStaysEnded ==
  [][/\ runStatus \in Terminal => runStatus' \in Terminal
     /\ runStatus = "succeeded" => runStatus' \in {"succeeded", "invalid"}]_vars

\* Every tick ends: no handler loops over nodes, obligations or transactions
\* for ever (recovery, reopening, promotion, invalidation).
TickEnds == pc # "idle" ~> pc = "idle"

\* A closure gate admits when every root obligation is covered ("Root closure:
\* every root-origin obligation is covered under current revision",
\* covers_closure_complete).
CoveredCloses ==
  gate.closure /\ amendments = {} /\ (\A o \in RootObl : Covered(o)) =>
    gate.decision = "admit"

\* A transaction recorded as rolled back has left nothing in the workdir
\* ("perform physical workdir rollback for reversible transactions before
\* recording TransactionRolledBack", reconcile_dangling_transactions).
RolledBackIsUndone ==
  AtRest => \A t \in 1..MaxTicks : txState[t] = "rolled_back" =>
    \A f \in File : disk[f] # t

\* What the log records of the transactions implements TxOutcome.
Outcome ==
  INSTANCE TxOutcome WITH LastTx <- MaxTicks, outcome <- txState,
                          ended <- runStatus \in Terminal

OutcomeSpec == Outcome!Spec
=============================================================================
