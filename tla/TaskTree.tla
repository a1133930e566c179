------------------------------ MODULE TaskTree ------------------------------
(***************************************************************************)
(* The task tree over many ticks: splits at every depth, repeated splits,  *)
(* merges of siblings, dependencies between children and the closure gate  *)
(* (commit_split, commit_merge, the reducer's branches for them,           *)
(* scheduler.py, covers.py, coverage_proof.py, advisors.py).               *)
(*                                                                         *)
(* A command is one step here; module RunKernel has the steps of a command *)
(* and what a crash between them leaves.  A node is named by its path from *)
(* the root, <<>>: a split adds the children 1, 2, ... and a merge at tick *)
(* t adds the child MergeId + t ("root.01", "root.m003").  An obligation   *)
(* is named likewise: <<o>> is a root one, Append(o, i) is derived from o. *)
(* The merge suggestions of actors/refiner are left out: nothing asks that *)
(* actor for work.                                                         *)
(***************************************************************************)
EXTENDS Integers, Sequences, FiniteSets, SequencesExt

CONSTANTS
  GoalSizes,       \* possible numbers of root obligations, at most four
  SplitRepairStreak,
  MaxSplitDepth,
  TreeTicks        \* bound: ticks

ASSUME TreeAssumption ==
  /\ GoalSizes \subseteq 1..4
  /\ SplitRepairStreak \in Nat \ {0}
  /\ MaxSplitDepth \in Nat
  /\ TreeTicks \in Nat

VARIABLES
  nodes,    \* node -> [status, refs, streak, children]
  covers,   \* obligation -> its status
  depends,  \* the depends_on edges, <<dependent, prerequisite>>
  runState, treePc, treeTick

treeVars == <<nodes, covers, depends, runState, treePc, treeTick>>

MergeId == 100
RootNode == <<>>
NewNode(refs) == [status |-> "pending", refs |-> refs, streak |-> 0, children |-> <<>>]

\* The entries of a dictionary that are new replace the old ones of their key.
Upserted(new, old) ==
  [k \in DOMAIN new \cup DOMAIN old |-> IF k \in DOMAIN new THEN new[k] ELSE old[k]]

-----------------------------------------------------------------------------
(* covers.py *)

DerivedFrom(o) == {k \in DOMAIN covers : \E i \in 1..2 : k = Append(o, i)}

-----------------------------------------------------------------------------
(* scheduler.py *)

\* deps_satisfied
DepsMet(n) == \A d \in depends : d[1] = n => nodes[d[2]].status = "admitted"

WithStatus(s) == {n \in DOMAIN nodes : nodes[n].status = s}

\* ready_pool, among the nodes S that are ready
Pool(S) == {n \in S : DepsMet(n)}

\* The order of node ids: "root.01" < "root.01.01" < "root.02" < "root.m003".
IdBefore(m, n) ==
  \/ Len(m) < Len(n) /\ SubSeq(n, 1, Len(m)) = m
  \/ \E i \in 1..Len(m) :
       /\ i <= Len(n)
       /\ SubSeq(m, 1, i - 1) = SubSeq(n, 1, i - 1)
       /\ m[i] < n[i]

\* select_ready_node: the deepest first, then by id.
SelectedOf(S, n) ==
  /\ n \in Pool(S)
  /\ \A m \in Pool(S) \ {n} :
       Len(n) > Len(m) \/ (Len(n) = Len(m) /\ IdBefore(n, m))

\* promote_dependency_ready_nodes, on the nodes N and the edges D
PromotedNodes(N, D) ==
  [n \in DOMAIN N |->
     IF /\ N[n].status = "pending"
        /\ \A d \in D : d[1] = n => N[d[2]].status = "admitted"
     THEN [N[n] EXCEPT !.status = "ready"] ELSE N[n]]

-----------------------------------------------------------------------------
TreeInit ==
  \E size \in GoalSizes :
    /\ nodes = [n \in {RootNode} |->
                 [NewNode([i \in 1..size |-> <<i>>]) EXCEPT !.status = "ready"]]
    /\ covers = [o \in {<<i>> : i \in 1..size} |-> "open"]
    /\ depends = {}
    /\ runState = "running"
    /\ treePc = "plan"
    /\ treeTick = 1

-----------------------------------------------------------------------------
(* TickRunLoop.begin: a split, a merge, or neither *)

\* Mutant of Splittable: off by one.
SplittableDeeper(n) == Len(n) <= MaxSplitDepth

Splittable(n) == Len(n) < MaxSplitDepth

\* should_propose_split, of the node that is selected: the governor is asked.
SplitWanted ==
  \E n \in DOMAIN nodes : /\ SelectedOf(WithStatus("ready"), n)
                          /\ nodes[n].streak >= SplitRepairStreak
                          /\ Splittable(n)

\* build_mechanical_split_candidate and propose_children: one obligation is
\* refined into two (implement, then verify), several are dealt out.
Refinement(refs) == Len(refs) = 1

ChildRefs(refs) ==
  IF Refinement(refs) THEN <<Append(refs[1], 1), Append(refs[1], 2)>> ELSE refs

\* commit_split of the node the governor names, which may be any other
\* (coerce_governor_proposal): ObligationOpened for each derived obligation, SplitCommitted,
\* and NodeReady for the children that wait for nothing.  The children of an
\* earlier split are replaced, and listed once more.
CommitSplit(n) ==
  LET refined == Refinement(nodes[n].refs)
      refs == ChildRefs(nodes[n].refs)
      children == [i \in DOMAIN refs |-> Append(n, i)]
      new == [c \in ToSet(children) |-> NewNode(<<refs[Last(c)]>>)]
      split == [nodes EXCEPT ![n].status = "split", ![n].children = @ \o children]
  IN  /\ treePc = "plan"
      /\ SplitWanted
      /\ Splittable(n)
      /\ covers' = IF refined THEN Upserted([o \in ToSet(refs) |-> "open"], covers)
                              ELSE covers
      /\ depends' = depends \cup (IF refined THEN {<<children[2], children[1]>>} ELSE {})
      /\ nodes' = PromotedNodes(Upserted(new, split), depends')
      /\ treePc' = "phase1"
      /\ UNCHANGED <<runState, treeTick>>

ReadyLeaf(n) == nodes[n].status = "ready" /\ nodes[n].children = <<>>

\* pick_sibling_merge_pair: two entries of a node's list of children.  A
\* child that is listed twice pairs with itself.  Which criteria overlap is
\* left open, but a node's own always do.
SiblingPairs(p) ==
  LET list == nodes[p].children
      leaves == {i \in DOMAIN list : ReadyLeaf(list[i])}
  IN  {<<list[ij[1]], list[ij[2]]>> : ij \in {ij \in leaves \X leaves : ij[1] < ij[2]}}

\* Mutant of MergedRefs: the obligations of the first source only, unvalidated.
MergedFirst(a, b) == nodes[a].refs

\* The union of the sources' obligations (_plan_merge), in some order of those
\* that only the second one has.
MergedRefs(a, b) ==
  nodes[a].refs \o SetToSeq(ToSet(nodes[b].refs) \ ToSet(nodes[a].refs))

\* commit_merge: MergeCommitted and NodeReady.  The edges of the sources stay
\* with the sources.
CommitMerge(p, a, b) ==
  LET into == Append(p, MergeId + treeTick)
      merged == [NewNode(MergedRefs(a, b)) EXCEPT !.status = "ready"]
  IN  /\ treePc = "plan"
      /\ ~SplitWanted
      /\ nodes' = Upserted([n \in {into} |-> merged],
                           [nodes EXCEPT ![a].status = "superseded",
                                         ![b].status = "superseded",
                                         ![p].children = Append(@, into)])
      /\ treePc' = "phase1"
      /\ UNCHANGED <<covers, depends, runState, treeTick>>

\* No two siblings overlap.
LeaveTree ==
  /\ treePc = "plan"
  /\ ~SplitWanted
  /\ \A p \in DOMAIN nodes : \A ab \in SiblingPairs(p) : ab[1] # ab[2]
  /\ treePc' = "phase1"
  /\ UNCHANGED <<nodes, covers, depends, runState, treeTick>>

-----------------------------------------------------------------------------
(* Phase 1 to the end of the tick *)

\* reopen_stranded_in_progress_nodes precedes the choice of a node.
Reopened ==
  [n \in DOMAIN nodes |-> IF nodes[n].status = "in_progress"
                          THEN [nodes[n] EXCEPT !.status = "ready"] ELSE nodes[n]]
AllReady == WithStatus("ready") \cup WithStatus("in_progress")

NextTick == treePc' = "plan" /\ treeTick' = treeTick + 1

\* The governor fails, or names a node that does not exist or may not be
\* split: the tick ends.
SplitRefused ==
  /\ treePc = "plan"
  /\ SplitWanted
  /\ NextTick
  /\ UNCHANGED <<nodes, covers, depends, runState>>

\* The Gate admits the node: its obligations are satisfied, nodes that wait
\* for it become ready, and the commit invalidates obligations of others
\* whose watched files it touches; nodes admitted with those are in progress.
AdmitNode(n) ==
  LET own == ToSet(nodes[n].refs)
      admitted == [Reopened EXCEPT ![n].status = "admitted", ![n].streak = 0]
      promoted == PromotedNodes(admitted, depends)
  IN  /\ treePc = "phase1"
      /\ SelectedOf(AllReady, n)
      /\ \E stale \in SUBSET {o \in DOMAIN covers \ own : covers[o] = "satisfied"} :
           /\ covers' = [o \in DOMAIN covers |->
                CASE o \in own -> "satisfied" [] o \in stale -> "invalidated"
                  [] OTHER -> covers[o]]
           /\ nodes' = [m \in DOMAIN nodes |->
                IF promoted[m].status = "admitted" /\ ToSet(promoted[m].refs) \cap stale # {}
                THEN [promoted[m] EXCEPT !.status = "in_progress"] ELSE promoted[m]]
      /\ treePc' = "close"
      /\ UNCHANGED <<depends, runState, treeTick>>

RepairNode(n) ==
  /\ treePc = "phase1"
  /\ SelectedOf(AllReady, n)
  /\ nodes' = [Reopened EXCEPT ![n].status = "ready", ![n].streak = @ + 1]
  /\ treePc' = "close"
  /\ UNCHANGED <<covers, depends, runState, treeTick>>

NothingReady ==
  /\ treePc = "phase1"
  /\ Pool(AllReady) = {}
  /\ nodes' = Reopened
  /\ treePc' = "close"
  /\ UNCHANGED <<covers, depends, runState, treeTick>>

\* Mutant of ClosureWanted: waits for the nodes that are pending.
ClosureAllDone ==
  WithStatus("in_progress") = {} /\ WithStatus("ready") = {} /\ WithStatus("pending") = {}

\* closure_needed
ClosureWanted == WithStatus("in_progress") = {} /\ Pool(WithStatus("ready")) = {}

\* run_closure_gate admits what is satisfied in its own right, and otherwise
\* repairs the root.
CloseTree ==
  /\ treePc = "close"
  /\ NextTick
  /\ IF ~ClosureWanted
     THEN UNCHANGED <<nodes, runState>>
     ELSE IF \A o \in ToSet(nodes[RootNode].refs) : covers[o] = "satisfied"
     THEN /\ runState' = "succeeded"
          /\ nodes' = [nodes EXCEPT ![RootNode].status = "admitted", ![RootNode].streak = 0]
     ELSE /\ nodes' = [nodes EXCEPT ![RootNode].status = "ready", ![RootNode].streak = @ + 1]
          /\ UNCHANGED runState
  /\ UNCHANGED <<covers, depends>>

TreeNext ==
  /\ runState = "running"
  /\ treeTick <= TreeTicks
  /\ \/ \E n \in DOMAIN nodes : CommitSplit(n) \/ AdmitNode(n) \/ RepairNode(n)
     \/ \E p \in DOMAIN nodes : \E ab \in SiblingPairs(p) : CommitMerge(p, ab[1], ab[2])
     \/ LeaveTree \/ SplitRefused \/ NothingReady \/ CloseTree

TreeSpec == TreeInit /\ [][TreeNext]_treeVars

-----------------------------------------------------------------------------
TreeTypeOK ==
  /\ RootNode \in DOMAIN nodes
  /\ \A n \in DOMAIN nodes :
       /\ nodes[n].status \in {"pending", "ready", "in_progress", "admitted", "split",
                               "superseded"}
       /\ nodes[n].refs # <<>> /\ ToSet(nodes[n].refs) \subseteq DOMAIN covers
       /\ nodes[n].streak \in Nat
       /\ ToSet(nodes[n].children) \subseteq DOMAIN nodes
       /\ Len(n) <= MaxSplitDepth
  /\ covers \in [DOMAIN covers -> {"open", "satisfied", "invalidated"}]
  /\ depends \subseteq (DOMAIN nodes) \X (DOMAIN nodes)
  /\ runState \in {"running", "succeeded"}
  /\ treePc \in {"plan", "phase1", "close"}
  /\ treeTick \in 1..(TreeTicks + 1)

Assigned(o) ==
  \E n \in DOMAIN nodes : /\ nodes[n].status \in {"pending", "ready", "in_progress"}
                          /\ o \in ToSet(nodes[n].refs)

\* No split or merge loses an obligation: the root ones, and whatever they are
\* refined into in turn, are satisfied, refined, or in the contract of a node
\* that may still be worked on, however often the tree was split, merged and
\* split again (validate_split_coverage, validate_merge_obligations;
\* obligation_covered).
RootsCarried ==
  /\ ToSet(nodes[RootNode].refs) \subseteq DOMAIN covers
  /\ \A o \in DOMAIN covers :
       covers[o] = "satisfied" \/ DerivedFrom(o) # {} \/ Assigned(o)

\* A tick of a running run always finds a node to work on or to reopen:
\* nodes that wait for one that was split or merged away, and so is never
\* admitted, do not wedge the run (closure_needed, run_closure_gate).
SomethingToDo == treePc = "plan" /\ runState = "running" => AllReady # {}
=============================================================================
