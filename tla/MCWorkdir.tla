----------------------------- MODULE MCWorkdir -----------------------------
(***************************************************************************)
(* The parts that share no state with one another, in one run: the first   *)
(* state chooses the part that moves.  Interleaving them would add nothing *)
(* but states.                                                             *)
(***************************************************************************)
EXTENDS Staging, Lifecycle, Delivery, TaskTree, Plugins, EventLog, Closure,
        AgentGroups

VARIABLE part

Parts == {"staging", "memory", "delivery", "tree", "plugins", "log", "closure",
          "agents"}

CommunityPlugins == <<"open", "claw">>

\* A node with two obligations and one with one.
TwoNodes == [o \in 1..3 |-> IF o = 3 THEN "n2" ELSE "n1"]

\* With and without an obligation about the intent.
SomeContracts == {{"files"}, {"files", "intent"}}

\* What a maker may claim: nothing, a text that is no JSON, fields that are
\* not those of the file, and actions whose payload names another path.
Act(t, d, f, b) == [target |-> t, dest |-> d, form |-> f, body |-> b]
SomeClaims ==
  {{}, {Act("j", "j", "text", "bad"), Act("s", "s", "ack", "good")},
   {Act("j", "j", "data", "better")},
   {Act("elsewhere", "j", "text", "bad"), Act("j", "h", "text", "bad")}}

\* Any JSON file beside a present or missing network capture and one staged
\* file; nothing at all; and a workdir that is good but for a forbidden path.
SomeLeavings ==
  LET none == [p \in Paths |-> "absent"] IN
  {<<d, [none EXCEPT ![q] = "good"], FALSE>> :
     d \in {e \in Disks : e["h"] # "bad" /\ e["s"] = "good"}, q \in {"j", "h"}}
  \cup {<<none, none, FALSE>>, <<[p \in Paths |-> "good"], none, TRUE>>}

\* After a crash of a batch, one batch less.  Goals are alike: the first record
\* is of some goal.
FirstGoal == CHOOSE g \in Goals : TRUE
MemoryBound ==
  /\ memoryCrashes = 0 \/ batches < MaxBatches
  /\ origin[1].goal \in {"none", FirstGoal}

\* So are process groups: the first one to be used is some group.
FirstGroup == CHOOSE p \in GroupIds : TRUE
AgentsBound == born = {} \/ FirstGroup \in born

Init ==
  /\ part \in Parts
  /\ StagingInit /\ LifecycleInit /\ DeliveryInit /\ TreeInit
  /\ PluginsInit /\ EventLogInit /\ ClosureInit /\ AgentGroupsInit
  /\ embedPath \in {"none", "s"} /\ (hinted => embedPath = "none")
  /\ part # "delivery" => ~dual /\ ~hinted /\ embedPath = "none" /\ Cardinality(obligations) = 1
  /\ part # "tree" => Len(nodes[RootNode].refs) = 1

Next ==
  \/ /\ part = "staging" /\ StagingNext
     /\ UNCHANGED <<part, memoryVars, deliveryVars, treeVars, pluginVars, logVars,
                    closureVars, agentVars>>
  \/ /\ part = "memory" /\ LifecycleNext
     /\ MemoryBound'
     /\ UNCHANGED <<part, stagingVars, deliveryVars, treeVars, pluginVars, logVars,
                    closureVars, agentVars>>
  \/ /\ part = "delivery" /\ DeliveryNext
     /\ UNCHANGED <<part, stagingVars, memoryVars, treeVars, pluginVars, logVars,
                    closureVars, agentVars>>
  \/ /\ part = "tree" /\ TreeNext
     /\ UNCHANGED <<part, stagingVars, memoryVars, deliveryVars, pluginVars, logVars,
                    closureVars, agentVars>>
  \/ /\ part = "plugins" /\ PluginsNext
     /\ UNCHANGED <<part, stagingVars, memoryVars, deliveryVars, treeVars, logVars,
                    closureVars, agentVars>>
  \/ /\ part = "log" /\ EventLogNext
     /\ UNCHANGED <<part, stagingVars, memoryVars, deliveryVars, treeVars, pluginVars,
                    closureVars, agentVars>>
  \/ /\ part = "closure" /\ ClosureNext
     /\ UNCHANGED <<part, stagingVars, memoryVars, deliveryVars, treeVars, pluginVars,
                    logVars, agentVars>>
  \/ /\ part = "agents" /\ AgentGroupsNext
     /\ AgentsBound'
     /\ UNCHANGED <<part, stagingVars, memoryVars, deliveryVars, treeVars, pluginVars,
                    logVars, closureVars>>

Spec ==
  Init /\ [][Next]_<<part, stagingVars, memoryVars, deliveryVars, treeVars,
                     pluginVars, logVars, closureVars, agentVars>>

\* Types of the variables of the part that moves; those of the others keep
\* their first values.
TypeOK ==
  /\ part \in Parts
  /\ part = "staging" => StagingTypeOK
  /\ part = "memory" => LifecycleTypeOK
  /\ part = "delivery" => DeliveryTypeOK
  /\ part = "tree" => TreeTypeOK
  /\ part = "plugins" => PluginsTypeOK
  /\ part = "log" => EventLogTypeOK
  /\ part = "closure" => ClosureTypeOK
  /\ part = "agents" => AgentGroupsTypeOK
=============================================================================
