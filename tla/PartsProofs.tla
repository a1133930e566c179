----------------------------- MODULE PartsProofs -----------------------------
(***************************************************************************)
(* The parts of the harness that share no state (MCWorkdir): a behaviour   *)
(* of all of them is one of each, so that what is proved of a part holds   *)
(* in their composition.                                                   *)
(***************************************************************************)
EXTENDS MCWorkdir, WorkdirProofs, HarnessProofs, TLAPS

\* The composition interleaves the parts and nothing else.
THEOREM PartsImplemented ==
  Spec => /\ StagingSpec /\ LifecycleSpec /\ DeliverySpec /\ TreeSpec
          /\ PluginsSpec /\ EventLogSpec /\ ClosureSpec /\ AgentGroupsSpec
<1>1. Init => /\ StagingInit /\ LifecycleInit /\ DeliveryInit /\ TreeInit
              /\ PluginsInit /\ EventLogInit /\ ClosureInit /\ AgentGroupsInit
  BY DEF Init
<1>. DEFINE all == <<part, stagingVars, memoryVars, deliveryVars, treeVars,
                     pluginVars, logVars, closureVars, agentVars>>
<1>2. [Next]_all => /\ [StagingNext]_stagingVars /\ [LifecycleNext]_memoryVars
                    /\ [DeliveryNext]_deliveryVars /\ [TreeNext]_treeVars
                    /\ [PluginsNext]_pluginVars /\ [EventLogNext]_logVars
                    /\ [ClosureNext]_closureVars /\ [AgentGroupsNext]_agentVars
  BY DEF Next
<1>. QED
  BY <1>1, <1>2, PTL
     DEF Spec, StagingSpec, LifecycleSpec, DeliverySpec, TreeSpec, PluginsSpec,
         EventLogSpec, ClosureSpec, AgentGroupsSpec

\* The variables of all parts keep their types, in whichever part the steps
\* are.
THEOREM PartsTyping == Spec => []TypeOK
<1>1. Init => part \in Parts
  BY DEF Init
<1>2. part \in Parts /\ [Next]_<<part, stagingVars, memoryVars, deliveryVars, treeVars,
                                 pluginVars, logVars, closureVars, agentVars>>
        => (part \in Parts)'
  BY DEF Next
<1>3. Spec => [](part \in Parts)
  BY <1>1, <1>2, PTL DEF Spec
<1>4. /\ part \in Parts /\ StagingTypeOK /\ LifecycleTypeOK /\ DeliveryTypeOK
      /\ TreeTypeOK /\ PluginsTypeOK /\ EventLogTypeOK /\ ClosureTypeOK
      /\ AgentGroupsTypeOK
      => TypeOK
  BY DEF TypeOK
<1>. QED
  BY <1>3, <1>4, PartsImplemented, StagingTyping, LifecycleTyping, DeliveryTyping, TreeTyping,
     PluginsTyping, EventLogTyping, ClosureTyping, AgentGroupsTyping, PTL

==============================================================================
