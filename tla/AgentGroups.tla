---------------------------- MODULE AgentGroups ----------------------------
(***************************************************************************)
(* The process groups of the agent CLIs (domain/environment): an actor     *)
(* answers a stage by running an agent, once more if it gave no JSON; the  *)
(* group is tracked while exec waits for it, killed at its timeout, and    *)
(* all tracked groups are killed by a signal and when the harness exits.   *)
(* An actor whose stage timed out goes on, beside the next one.            *)
(*                                                                         *)
(* The event loop, the signal handlers and atexit share the main thread: a *)
(* coroutine runs until it awaits, a handler interrupts it anywhere.       *)
(* Starting the signal handlers and atexit is one step, as is a kill with  *)
(* its grace, during which the loop stands still.  A group id is used      *)
(* once.                                                                   *)
(***************************************************************************)
EXTENDS Integers

CONSTANTS
  AgentActors,   \* actors that run agents
  GroupIds       \* ids of process groups

ASSUME AgentGroupsAssumption == "none" \notin AgentActors \cup GroupIds

VARIABLES
  mode,        \* the harness: "running", "ending", "exiting", "exited", "killed", "hung"
  awaited,     \* the actor whose stage the tick awaits
  exec,        \* actor -> where its episode is, its group and the agents it started
  members,     \* group -> its processes that are alive
  born,        \* group ids in use
  tracked,     \* _tracked
  locked,      \* _lock is held
  hooked,   \* the handlers are
  doomed,      \* what kill_all_tracked has yet to kill
  abandoned    \* history: groups whose exec ended by another error than a timeout,
               \* or whose killing was interrupted

agentVars == <<mode, awaited, exec, members, born, tracked, locked, hooked,
               doomed, abandoned>>

Idle == [at |-> "idle", pid |-> "none", agents |-> 0]
MaxAgents == 2   \* run_bypass_json: the answer and one repair

\* The leader, a process that shares its output and one that does not.
Processes == {"leader", "piped", "detached"}

AgentGroupsInit ==
  /\ mode = "running" /\ awaited = "none"
  /\ exec = [w \in AgentActors |-> Idle]
  /\ members = [p \in GroupIds |-> {}]
  /\ born = {} /\ tracked = {} /\ locked = FALSE /\ hooked = FALSE
  /\ doomed = {} /\ abandoned = {}

-----------------------------------------------------------------------------
(* An episode *)

\* Where a coroutine cannot be left.
AtAwait == {"idle", "spawn", "feed", "read", "reap"}

MayRun(w) ==
  /\ mode \in {"running", "ending"} /\ doomed = {}
  /\ \A v \in AgentActors \ {w} : exec[v].at \in AtAwait

Reach(w, at) == exec' = [exec EXCEPT ![w].at = at]

\* The tick asks an actor.
RequestStage(w) ==
  /\ MayRun(w) /\ mode = "running" /\ awaited = "none" /\ exec[w] = Idle
  /\ awaited' = w
  /\ Reach(w, "spawn")
  /\ UNCHANGED <<mode, members, born, tracked, locked, hooked, doomed, abandoned>>

\* The tick gives a stage up; its actor goes on.
StageTimesOut ==
  /\ mode = "running" /\ awaited # "none"
  /\ awaited' = "none"
  /\ UNCHANGED <<mode, exec, members, born, tracked, locked, hooked, doomed, abandoned>>

\* The work of the actor is over.
EndEpisode(w) ==
  /\ exec' = [exec EXCEPT ![w] = Idle]
  /\ awaited' = IF awaited = w THEN "none" ELSE awaited

\* create_subprocess_exec with start_new_session, or no such program.
Spawn(w) ==
  /\ MayRun(w) /\ exec[w].at = "spawn"
  /\ \/ \E p \in GroupIds \ born :
          /\ born' = born \cup {p}
          /\ members' = [members EXCEPT ![p] = {"leader"}]
          /\ exec' = [exec EXCEPT ![w] =
                        [at |-> "track", pid |-> p, agents |-> @.agents + 1]]
          /\ UNCHANGED awaited
     \/ EndEpisode(w) /\ UNCHANGED <<members, born>>
  /\ UNCHANGED <<mode, tracked, locked, hooked, doomed, abandoned>>

\* track_process_group takes the lock, the first time after _install_handlers ...
TakeLock(w, from, to) ==
  /\ MayRun(w) /\ exec[w].at = from
  /\ locked' = TRUE /\ hooked' = TRUE
  /\ Reach(w, to)
  /\ UNCHANGED <<mode, awaited, members, born, tracked, doomed, abandoned>>

\* ... and gives it back.
Track(w) ==
  /\ MayRun(w) /\ exec[w].at = "tracking"
  /\ tracked' = tracked \cup {exec[w].pid} /\ locked' = FALSE
  /\ Reach(w, "tee")
  /\ UNCHANGED <<mode, awaited, members, born, hooked, doomed, abandoned>>

\* The log of the agent is opened, outside the try.
OpenTee(w) ==
  /\ MayRun(w) /\ exec[w].at = "tee"
  /\ \/ Reach(w, "feed") /\ UNCHANGED awaited
     \/ EndEpisode(w)
  /\ UNCHANGED <<mode, members, born, tracked, locked, hooked, doomed, abandoned>>

\* The prompt is written; no timeout runs yet.
Feed(w) ==
  /\ MayRun(w) /\ exec[w].at = "feed"
  /\ Reach(w, "read")
  /\ UNCHANGED <<mode, awaited, members, born, tracked, locked, hooked, doomed, abandoned>>

\* The agent closes its input, or writes a line longer than the stream's
\* limit: an error that is no TimeoutError.
ExecFails(w) ==
  /\ MayRun(w) /\ exec[w].at \in {"feed", "read"}
  /\ abandoned' = abandoned \cup {exec[w].pid}
  /\ Reach(w, "failed")
  /\ UNCHANGED <<mode, awaited, members, born, tracked, locked, hooked, doomed>>

\* Its output has ended: nobody holds it any more.
Read(w) ==
  /\ MayRun(w) /\ exec[w].at = "read"
  /\ members[exec[w].pid] \cap {"leader", "piped"} = {}
  /\ Reach(w, "done")
  /\ UNCHANGED <<mode, awaited, members, born, tracked, locked, hooked, doomed, abandoned>>

\* Mutant of Killed: only the process that was started is signalled.
KilledLeader(p) == [members EXCEPT ![p] = @ \ {"leader"}]

\* kill_process_group: SIGTERM, a grace, SIGKILL.
Killed(p) == [members EXCEPT ![p] = {}]

\* except TimeoutError
ExecTimesOut(w) ==
  /\ MayRun(w) /\ exec[w].at = "read"
  /\ members' = Killed(exec[w].pid)
  /\ Reach(w, "reap")
  /\ UNCHANGED <<mode, awaited, born, tracked, locked, hooked, doomed, abandoned>>

Reap(w) ==
  /\ MayRun(w) /\ exec[w].at = "reap"
  /\ Reach(w, "done")
  /\ UNCHANGED <<mode, awaited, members, born, tracked, locked, hooked, doomed, abandoned>>

\* The adapter makes a result of an answer and of a timeout; what does not
\* parse is tried once more.
TryAgain(w) ==
  /\ exec[w].at = "untracking" /\ exec[w].agents < MaxAgents
  /\ exec' = [exec EXCEPT ![w].at = "spawn", ![w].pid = "none"]
  /\ UNCHANGED awaited

\* finally: untrack_process_group, after TakeLock.
Untrack(w) ==
  /\ MayRun(w) /\ exec[w].at \in {"untracking", "untracking_failed"}
  /\ tracked' = tracked \ {exec[w].pid} /\ locked' = FALSE
  /\ EndEpisode(w) \/ TryAgain(w)
  /\ UNCHANGED <<mode, members, born, hooked, doomed, abandoned>>

-----------------------------------------------------------------------------
(* The end of the harness *)

\* The work is over, the tick timed out (_await_job), or SIGINT.
EndHarness ==
  /\ mode = "running"
  /\ mode' = "ending"
  /\ UNCHANGED <<awaited, exec, members, born, tracked, locked, hooked, doomed, abandoned>>

\* Actors that still work are cancelled.  asyncio kills what is being
\* spawned; in exec only the finally runs.
CancelActor(w) ==
  /\ MayRun(w) /\ mode = "ending"
  /\ \/ exec[w].at = "spawn" /\ EndEpisode(w) /\ UNCHANGED abandoned
     \/ /\ exec[w].at \in {"feed", "read", "reap"}
        /\ abandoned' = abandoned \cup {exec[w].pid}
        /\ Reach(w, "failed") /\ UNCHANGED awaited
  /\ UNCHANGED <<mode, members, born, tracked, locked, hooked, doomed>>

\* kill_all_tracked: the set is copied and cleared ...
KillAllTracked == tracked' = {} /\ doomed' = doomed \cup tracked

\* ... and its groups are killed in turn.
KillDoomed(p) ==
  /\ p \in doomed /\ mode \in {"running", "ending", "exiting"}
  /\ members' = Killed(p)
  /\ doomed' = doomed \ {p}
  /\ UNCHANGED <<mode, awaited, exec, born, tracked, locked, hooked, abandoned>>

\* SIGTERM or SIGHUP.  The handler waits for ever for a lock its own thread
\* holds; else it kills the agents, and the harness goes on: the handler
\* before it was the default one, which cannot be called.
Terminate ==
  /\ mode \in {"running", "ending", "exiting"}
  /\ IF hooked
     THEN IF locked
          THEN mode' = "hung" /\ UNCHANGED <<tracked, doomed>>
          ELSE KillAllTracked /\ UNCHANGED mode
     ELSE mode' = "killed" /\ UNCHANGED <<tracked, doomed>>
  /\ UNCHANGED <<awaited, exec, members, born, locked, hooked, abandoned>>

\* The loop is closed; atexit.
Exit ==
  /\ mode = "ending" /\ doomed = {} /\ \A w \in AgentActors : exec[w].at = "idle"
  /\ mode' = "exiting"
  /\ KillAllTracked
  /\ UNCHANGED <<awaited, exec, members, born, locked, hooked, abandoned>>

\* SIGINT, whose handler is the default one again: the killing ends there.
InterruptExit ==
  /\ mode = "exiting" /\ doomed # {}
  /\ doomed' = {} /\ abandoned' = abandoned \cup doomed
  /\ UNCHANGED <<mode, awaited, exec, members, born, tracked, locked, hooked>>

Exited ==
  /\ mode = "exiting" /\ doomed = {}
  /\ mode' = "exited"
  /\ UNCHANGED <<awaited, exec, members, born, tracked, locked, hooked, doomed, abandoned>>

\* SIGKILL or the machine.
KillHarness ==
  /\ mode \in {"running", "ending", "exiting", "hung"}
  /\ mode' = "killed"
  /\ UNCHANGED <<awaited, exec, members, born, tracked, locked, hooked, doomed, abandoned>>

-----------------------------------------------------------------------------
(* The agents *)

AgentMoves(p) ==
  /\ \/ /\ "leader" \in members[p]
        /\ \E m \in {"piped", "detached"} : members' = [members EXCEPT ![p] = @ \cup {m}]
     \/ \E m \in members[p] : members' = [members EXCEPT ![p] = @ \ {m}]
  /\ UNCHANGED <<mode, awaited, exec, born, tracked, locked, hooked, doomed, abandoned>>

AgentGroupsNext ==
  \/ \E w \in AgentActors :
       \/ RequestStage(w) \/ Spawn(w) \/ TakeLock(w, "track", "tracking")
       \/ Track(w) \/ OpenTee(w) \/ Feed(w) \/ ExecFails(w) \/ Read(w)
       \/ ExecTimesOut(w) \/ Reap(w) \/ CancelActor(w)
       \/ TakeLock(w, "done", "untracking")
       \/ TakeLock(w, "failed", "untracking_failed") \/ Untrack(w)
  \/ \E p \in GroupIds : KillDoomed(p) \/ AgentMoves(p)
  \/ StageTimesOut \/ EndHarness \/ Terminate \/ Exit \/ InterruptExit \/ Exited
  \/ KillHarness

AgentGroupsSpec == AgentGroupsInit /\ [][AgentGroupsNext]_agentVars

-----------------------------------------------------------------------------
Episodes ==
  [at : AtAwait \cup {"track", "tracking", "tee", "done", "failed",
                      "untracking", "untracking_failed"},
   pid : GroupIds \cup {"none"}, agents : 0..MaxAgents]

AgentGroupsTypeOK ==
  /\ mode \in {"running", "ending", "exiting", "exited", "killed", "hung"}
  /\ awaited \in AgentActors \cup {"none"}
  /\ exec \in [AgentActors -> Episodes]
  /\ members \in [GroupIds -> SUBSET Processes]
  /\ born \subseteq GroupIds /\ tracked \subseteq GroupIds
  /\ doomed \subseteq GroupIds /\ abandoned \subseteq GroupIds
  /\ locked \in BOOLEAN /\ hooked \in BOOLEAN

\* When the harness has exited by itself no agent is left ("Guarantee that
\* agent CLIs die with the harness", environment/process_group.py), whatever
\* signals came and wherever a log could not be opened; but for one whose exec
\* was cancelled or failed, which untracks it and kills nothing, for those whose
\* killing was interrupted, and for what an agent that is done left running
\* without its output.
AgentsDieWithHarness ==
  mode = "exited" =>
    \A p \in GroupIds \ abandoned : members[p] \subseteq {"detached"}
=============================================================================
