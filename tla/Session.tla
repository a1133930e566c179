------------------------------ MODULE Session ------------------------------
(***************************************************************************)
(* Sessions of the command "run" (app.py): a session resumes at a tick     *)
(* number read from the exported projection, publishes one tick after the  *)
(* other to the host, waits for each job with a timeout, and ends with the *)
(* closure, the refiner batch and a manifest.  A tick (TickJob over        *)
(* TickRunLoop) is a chain of stages, each of which asks one worker and    *)
(* goes on when the answer arrives.                                        *)
(*                                                                         *)
(* Of the run only what the session reads is kept: how long the log is,    *)
(* the status of the run, how many nodes are not admitted, and whether one *)
(* is in progress (module RunKernel has the rest).  Tick numbers forced    *)
(* with --tick are left out.                                               *)
(***************************************************************************)
EXTENDS Integers, Sequences

CONSTANTS
  MaxTicksSoft,   \* max_ticks of the request
  Leaves,         \* nodes to admit before the closure
  Swarm,          \* swarm policies: off or starved, repaired, overflow
  Events,         \* how many events a stage may append
  MaxSessions,    \* bound: sessions
  MaxCuts         \* bound: sessions killed by a crash

ASSUME SessionAssumption ==
  /\ MaxTicksSoft \in Nat \ {0}
  /\ Leaves \in Nat \ {0}
  /\ Swarm \subseteq BOOLEAN \X BOOLEAN \X BOOLEAN
  /\ MaxSessions \in Nat
  /\ MaxCuts \in Nat
  /\ Events \subseteq Nat \ {0}

VARIABLES
  \* the event log and what the reducer makes of it
  seq,        \* last_sequence, -1 for an empty log
  status,     \* run_status
  left,       \* nodes that are not admitted
  stranded,   \* a node is in progress
  file,       \* run_projection.json of the loop directory
  \* the session
  sessions, cuts, pc, index, tick, queue, job, manifest,
  \* history: highest number of a tick whose projections were exported
  kept

log == <<seq, status, left, stranded>>
loop == <<sessions, cuts, index, tick>>
vars == <<log, file, loop, pc, queue, job, manifest, kept>>

Terminal == {"succeeded", "aborted", "invalid"}
Statuses == {"running"} \cup Terminal

\* Mutant of Waiting: the wait is bounded only while a worker is asked.
WaitingOnWorkers == {"governor", "phase0", "maker", "checker"}

\* The stages at which a tick waits for the answer of a worker; at "stuck"
\* begin() has raised and no answer will ever come.
Waiting == {"governor", "phase0", "maker", "checker", "stuck"}
InTick == Waiting \cup {"begin", "swarm", "phase1", "export", "finished"}
Ending == {"finalize", "refine", "manifest"}

Roles == {"explorer", "verifier", "candidate_selector"}
NoManifest == [status |-> "none", stop |-> "none"]
NoJob == [decision |-> "none", error |-> "none"]
Jobs == [decision : {"none", "admit", "repair", "abort"},
         error : {"none", "worker", "stage", "abort"}]

-----------------------------------------------------------------------------
(* What the session and the tick compute *)

\* Mutant of StartTick: every session counts from the beginning.
StartTickZero == 0

\* resolve_start_tick
StartTick ==
  IF file.seq < 0 THEN 0
  ELSE IF file.status = "succeeded" THEN file.seq
  ELSE file.seq + 1

\* decide_swarm: none below the budget floor or when switched off; else the
\* explorer, the verifier after some repairs, and both it and the selector
\* when candidates overflow.
Advisors(idle, repaired, overflow) ==
  IF idle THEN <<>>
  ELSE <<"explorer">>
       \o (IF repaired \/ overflow THEN <<"verifier">> ELSE <<>>)
       \o (IF overflow THEN <<"candidate_selector">> ELSE <<>>)

\* _recoverable_worker_error: the episode of the maker or of the checker.
Recoverable(error) == error = "worker"

\* _should_continue
ShouldContinue ==
  CASE status = "succeeded" -> FALSE
    [] status # "succeeded" /\ job.decision = "abort" -> FALSE
    [] status # "succeeded" /\ job.decision = "admit" -> left > 0
    [] status # "succeeded" /\ job.decision = "repair" -> TRUE
    [] OTHER -> Recoverable(job.error)

\* Mutant of NodeReady: an admitted node is selected again.
NodeReadyAdmitted == left >= 0

\* select_node_id finds a node, now that nothing is in progress.
NodeReady == left > 0

\* Mutant of ClosureNeeded: whatever the status.
ClosureAnyStatus == ~NodeReady /\ ~stranded

\* closure_needed: nothing in progress, nothing ready.
ClosureNeeded == status = "running" /\ ~NodeReady /\ ~stranded

\* Read from the log, not from the exported projection.
AlreadySucceeded == status = "succeeded"

\* stop_reason and run_status of the manifest.
Report(stop) ==
  [status |-> file.status,
   stop |-> IF file.status = "succeeded" THEN "terminal:succeeded" ELSE stop]

\* The events of a stage.
Extend == \E n \in Events : seq' = seq + n

\* acquire, once the lease is taken: nothing to do; an unsettled transaction is
\* rolled back, if the run has not ended; or the goal was edited since it was
\* compiled (check_goal_drift), which makes the run invalid whatever it was.
Acquire ==
  \/ UNCHANGED <<seq, status, stranded>>
  \/ seq >= 0 /\ status = "running" /\ Extend /\ stranded' = FALSE /\ UNCHANGED status
  \/ seq >= 0 /\ Extend /\ status' = "invalid" /\ UNCHANGED stranded

\* export_projections
Export == file' = [seq |-> seq', status |-> status']

\* TickJob.finish, after a failed stage.
Fail(error) ==
  /\ job' = [job EXCEPT !.error = error]
  /\ pc' = "finished"

\* The process is gone, and its memory with it.
Over ==
  /\ pc' = "over"
  /\ index' = 0
  /\ tick' = 0
  /\ queue' = <<>>
  /\ job' = NoJob

-----------------------------------------------------------------------------
(* The session *)

Init ==
  /\ seq = -1
  /\ status = "running"
  /\ left = Leaves
  /\ stranded = FALSE
  /\ file = [seq |-> -1, status |-> "none"]
  /\ sessions = 0
  /\ cuts = 0
  /\ pc = "over"
  /\ index = 0
  /\ tick = 0
  /\ queue = <<>>
  /\ job = NoJob
  /\ manifest = NoManifest
  /\ kept = -1

Start ==
  /\ pc = "over"
  /\ sessions < MaxSessions
  /\ sessions' = sessions + 1
  /\ tick' = StartTick
  /\ manifest' = NoManifest
  /\ pc' = "publish"
  /\ UNCHANGED <<log, file, cuts, index, queue, job, kept>>

\* One more tick, or the soft limit.
Publish ==
  /\ pc = "publish"
  /\ pc' = IF index < MaxTicksSoft THEN "begin" ELSE "finalize"
  /\ job' = IF index < MaxTicksSoft THEN NoJob ELSE job
  /\ UNCHANGED <<log, file, loop, queue, manifest, kept>>

\* _should_continue after the job has finished.
Decide ==
  /\ pc = "finished"
  /\ IF ShouldContinue
     THEN /\ tick' = tick + 1
          /\ index' = index + 1
          /\ pc' = "publish"
     ELSE /\ pc' = "finalize"
          /\ UNCHANGED <<tick, index>>
  /\ UNCHANGED <<log, file, sessions, cuts, queue, job, manifest, kept>>

\* The closure gate: it admits the run, repairs (the root is ready again)
\* or aborts; the end of the run is an event of its own.
Closure(decision) ==
  /\ decision \in {"admit", "repair", "abort"}
  /\ \E n \in Events : seq' = seq + n + (IF decision = "repair" THEN 0 ELSE 1)
  /\ status' = CASE decision = "admit" -> "succeeded"
                 [] decision = "repair" -> status
                 [] decision = "abort" -> "aborted"
  /\ left' = IF decision = "repair" THEN 1 ELSE left
  /\ UNCHANGED stranded

\* finalize_run_closure_workdir: only a closure exports.
Finalize ==
  /\ pc = "finalize"
  /\ \/ /\ ClosureNeeded
        /\ \E decision \in {"admit", "repair", "abort"} : Closure(decision)
        /\ Export
     \/ Acquire /\ UNCHANGED <<left, file>> /\ ~ClosureNeeded'
  /\ pc' = "refine"
  /\ UNCHANGED <<loop, queue, job, manifest, kept>>

\* Mutant of Refine: the batch does not export.
RefineSilent ==
  /\ pc = "refine"
  /\ Acquire \/ (status \in Terminal /\ Extend /\ UNCHANGED <<status, stranded>>)
  /\ pc' = "manifest"
  /\ UNCHANGED <<left, file, loop, queue, job, manifest, kept>>

\* run_end_refiner_batch: of a run that has ended, if only by an edited goal;
\* its tokens may be charged.
Refine ==
  /\ pc = "refine"
  /\ Acquire \/ (status \in Terminal /\ Extend /\ UNCHANGED <<status, stranded>>)
  /\ UNCHANGED left
  /\ IF status' \in Terminal THEN Export ELSE UNCHANGED file
  /\ pc' = "manifest"
  /\ UNCHANGED <<loop, queue, job, manifest, kept>>

WriteManifest ==
  /\ pc = "manifest"
  /\ manifest' = Report(IF job.decision = "abort" THEN "abort"
                        ELSE IF job.error # "none" THEN "error"
                        ELSE "halt")
  /\ Over
  /\ UNCHANGED <<log, file, sessions, cuts, kept>>

\* _await_job gives up; TimeoutError ends the session, nothing is written.
TickTimeout ==
  /\ pc \in Waiting
  /\ Over
  /\ UNCHANGED <<log, file, sessions, cuts, manifest, kept>>

\* Another process holds the write lease.
LeaseHeld ==
  \/ /\ pc = "begin"
     /\ pc' = "stuck"
     /\ UNCHANGED <<log, file, loop, queue, job, manifest, kept>>
  \/ /\ pc \in {"finalize", "refine"}
     /\ Over
     /\ UNCHANGED <<log, file, sessions, cuts, manifest, kept>>

\* The process is killed.
Crash ==
  /\ pc # "over"
  /\ cuts < MaxCuts
  /\ cuts' = cuts + 1
  /\ Over
  /\ UNCHANGED <<log, file, sessions, manifest, kept>>

-----------------------------------------------------------------------------
(* The tick *)

\* begin: a first tick creates the run, and every tick acquires it; then the
\* governor is asked for a split or a merge, or a mechanical merge is committed
\* and exported, or phase 0 starts.
Begin ==
  /\ pc = "begin"
  /\ \/ seq = -1 /\ Extend /\ UNCHANGED <<status, stranded>>
     \/ seq >= 0 /\ Acquire
  /\ pc' \in {"governor", "swarm"}
  /\ UNCHANGED <<left, file, loop, queue, job, manifest, kept>>

MergeMechanically ==
  /\ pc = "begin"
  /\ seq >= 0
  /\ left > 1
  /\ Extend
  /\ status' \in {status, "invalid"}
  /\ left' = left - 1
  /\ UNCHANGED stranded
  /\ Export
  /\ pc' = "swarm"
  /\ UNCHANGED <<loop, queue, job, manifest, kept>>

\* The governor's answer: charged, and committed or refused.
Governor ==
  /\ pc = "governor"
  /\ \/ /\ Extend
        /\ pc' = "swarm"
        /\ UNCHANGED job
     \/ Extend /\ Fail("stage")
     \/ seq' = seq /\ Fail("stage")
  /\ UNCHANGED <<status, left, stranded, file, loop, queue, manifest, kept>>

\* _start_phase0
StartPhase0 ==
  /\ pc = "swarm"
  /\ \E policy \in Swarm : queue' = Advisors(policy[1], policy[2], policy[3])
  /\ pc' = IF queue' = <<>> THEN "phase1" ELSE "phase0"
  /\ UNCHANGED <<log, file, loop, job, manifest, kept>>

\* The next advisor answers, is charged, and the next one is asked.
Advisor ==
  /\ pc = "phase0"
  /\ \/ /\ queue' = Tail(queue)
        /\ Extend
        /\ pc' = IF Tail(queue) = <<>> THEN "phase1" ELSE "phase0"
        /\ UNCHANGED job
     \/ Fail("stage") /\ queue' = <<>> /\ seq' = seq
  /\ UNCHANGED <<status, left, stranded, file, loop, manifest, kept>>

\* The closure of a run whose nodes were all admitted: a repair stops the
\* session, as an abort does.
CloseFirst ==
  \E decision \in {"admit", "repair", "abort"} :
    /\ Closure(decision)
    /\ job' = IF decision = "admit"
              THEN [decision |-> "admit", error |-> "none"]
              ELSE [job EXCEPT !.error = "stage"]
    /\ Export
    /\ kept' = tick
    /\ pc' = "finished"

\* _start_phase1: what is stranded is reopened; then the closure, a run that
\* has succeeded already, nothing to do, or a contract for the maker.
StartPhase1 ==
  /\ pc = "phase1"
  /\ \/ status = "running" /\ ~NodeReady /\ CloseFirst
     \/ /\ AlreadySucceeded
        /\ job' = [decision |-> "admit", error |-> "none"]
        /\ pc' = "finished"
        /\ UNCHANGED <<log, file, kept>>
     \/ /\ status # "running" /\ ~AlreadySucceeded /\ ~NodeReady
        /\ Fail("stage")
        /\ UNCHANGED <<log, file, kept>>
     \/ /\ ~AlreadySucceeded /\ NodeReady
        /\ Extend
        /\ stranded' = TRUE
        /\ pc' = "maker"
        /\ UNCHANGED <<status, left, job, file, kept>>
  /\ UNCHANGED <<loop, queue, manifest>>

\* The maker's claim is charged and applied, refused by the workdir, or the
\* episode has failed.
Maker ==
  /\ pc = "maker"
  /\ \/ /\ Extend
        /\ pc' = "checker"
        /\ UNCHANGED job
     \/ Extend /\ Fail("stage")
     \/ seq' = seq /\ Fail("worker")
  /\ UNCHANGED <<status, left, stranded, file, loop, queue, manifest, kept>>

\* The checker's evidence goes to the Gate: admit closes the node, repair
\* readies it again, abort ends the run, even one that has ended already (an
\* invalid or aborted run is worked on all the same).
Checker ==
  /\ pc = "checker"
  /\ \/ \E decision \in {"admit", "repair", "abort"} :
          /\ Extend
          /\ status' = IF decision = "abort" THEN "aborted" ELSE status
          /\ left' = IF decision = "admit" THEN left - 1 ELSE left
          /\ stranded' = FALSE
          /\ job' = [decision |-> decision, error |-> "none"]
          /\ pc' = "export"
     \/ Extend /\ Fail("stage") /\ UNCHANGED <<status, left, stranded>>
     \/ seq' = seq /\ Fail("worker") /\ UNCHANGED <<status, left, stranded>>
  /\ UNCHANGED <<file, loop, queue, manifest, kept>>

\* The closure of the tick that admitted the last node, the export of the
\* projections and phase 3, which records the tick (the veto audit between
\* them is switched off in the code: should_veto_after_admit).
ExportTick ==
  /\ pc = "export"
  /\ \/ /\ ClosureNeeded
        /\ \E decision \in {"admit", "repair", "abort"} :
             /\ Closure(decision)
             /\ job' = [decision |-> decision,
                        error |-> IF decision = "abort" THEN "abort" ELSE "none"]
     \/ /\ ~ClosureNeeded
        /\ job' = [job EXCEPT !.error =
                     IF job.decision = "abort" THEN "abort" ELSE "none"]
        /\ UNCHANGED log
  /\ Export
  /\ kept' = tick
  /\ pc' = "finished"
  /\ UNCHANGED <<loop, queue, manifest>>

-----------------------------------------------------------------------------
Tick ==
  \/ Begin \/ MergeMechanically \/ Governor \/ StartPhase0 \/ Advisor
  \/ StartPhase1 \/ Maker \/ Checker \/ ExportTick

\* What the event loop of the process does by itself.
Program ==
  \/ Publish \/ Decide \/ Finalize \/ Refine \/ WriteManifest
  \/ Begin \/ StartPhase0 \/ StartPhase1 \/ ExportTick

Next == Start \/ Tick \/ Program \/ TickTimeout \/ LeaseHeld \/ Crash

Spec == Init /\ [][Next]_vars /\ WF_vars(Program) /\ WF_vars(TickTimeout)

-----------------------------------------------------------------------------
(* Properties *)

\* Types of the variables.
TypeOK ==
  /\ seq \in Int /\ seq >= -1
  /\ status \in Statuses
  /\ left \in Nat
  /\ stranded \in BOOLEAN
  /\ file \in [seq : Int, status : {"none"} \cup Statuses]
  /\ sessions \in Nat
  /\ cuts \in Nat
  /\ pc \in {"over", "publish"} \cup InTick \cup Ending
  /\ index \in Nat
  /\ tick \in Int
  /\ queue \in Seq(Roles)
  /\ job \in Jobs
  /\ manifest \in [status : {"none"} \cup Statuses,
                   stop : {"none", "terminal:succeeded", "abort", "error", "halt"}]
  /\ kept \in Int

\* The number of a tick whose projections were exported is not given to a
\* later tick: its snapshot, contract and candidate file, which are named
\* after the number, are not overwritten or read as those of another tick.
\* A new session counts on from the length of the log, not from the ticks.
KeptTicksUnique == pc = "begin" => tick > kept

\* What a session that comes to its end reports of an ended run is how the
\* run ended, although ticks that fail, and crashes, leave the projection
\* behind the log; and it never reports as ended a run that goes on.
ManifestTruthful ==
  pc = "manifest" =>
    /\ status \in Terminal => file = [seq |-> seq, status |-> status]
    /\ file.status \in Terminal => status = file.status

\* A run that was once reported as ended is never reported as going on, nor
\* as succeeded if it was not, although a later session works on an aborted
\* run again and all its nodes may come to be admitted; and a reported success
\* is taken back by an edited goal only.
EndedStaysReported ==
  [][file.status \in Terminal =>
       /\ file'.status \in Terminal
       /\ file'.status = "succeeded" => file.status = "succeeded"
       /\ file.status = "succeeded" => file'.status # "aborted"]_vars

\* Every session comes to its end, whatever its workers do: the wait for a
\* tick is bounded, and so is the number of ticks.
SessionEnds == pc # "over" ~> pc = "over"
=============================================================================
