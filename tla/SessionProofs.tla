--------------------------- MODULE SessionProofs ---------------------------
(***************************************************************************)
(* Proofs about Session for any number of sessions, ticks, leaves and      *)
(* events.                                                                 *)
(*                                                                         *)
(* A run that has ended stays ended, and a success becomes nothing but     *)
(* invalid: what a projection reports as ended has ended.  And a tick the  *)
(* session goes on after has appended an event: the numbers of ticks never *)
(* overtake the log's length, from which the next session counts.          *)
(***************************************************************************)
EXTENDS Session, SequenceTheorems, TLAPS

USE SessionAssumption

\* What a stage may take for granted.
StageReady ==
  /\ pc \in {"maker", "checker"} => left > 0
  /\ pc = "phase0" => queue # <<>>
  /\ pc \in InTick \ {"export", "finished"} => job = NoJob
  /\ pc = "export" => job.error = "none"

\* What was exported is behind the log: what it says has ended has ended,
\* although an edited goal or a later abort may have changed how.
FileBehind ==
  /\ file.seq <= seq /\ file.seq >= -1
  /\ file.status \in Terminal => status \in Terminal
  /\ status = "succeeded" /\ file.status \in Terminal => file.status = "succeeded"
  /\ pc = "manifest" /\ status \in Terminal => file = [seq |-> seq, status |-> status]

\* A run that has succeeded has nothing left to work on, so no Gate can abort
\* it; and its last event came after its last tick.
SuccessLast ==
  /\ status = "succeeded" => left = 0 /\ kept < seq
  /\ file.status = "succeeded" =>
       left = 0 /\ kept < file.seq /\ status \in {"succeeded", "invalid"}
  /\ pc = "export" => status # "succeeded"

\* The number of a tick is behind the log too, by the time it matters.
TickBehind ==
  /\ kept <= file.seq
  /\ pc # "over" => tick <= seq + 1
  /\ pc \in {"maker", "checker", "export"} => tick <= seq
  /\ pc = "finished" /\ ShouldContinue => tick <= seq

\* And ahead of the ticks that were kept.
TickAhead ==
  /\ pc \in {"publish", "begin"} => tick > kept
  /\ pc \in InTick => tick >= kept

CoreInv == TypeOK /\ StageReady /\ FileBehind /\ TickBehind /\ TickAhead
SessionInv == CoreInv /\ SuccessLast

-----------------------------------------------------------------------------
LEMMA ExtendGrows ==
  ASSUME seq \in Int, Extend
  PROVE  seq' \in Int /\ seq' >= seq + 1
  BY DEF Extend

\* What taking the lease leaves of the log.
LEMMA AcquireStep ==
  ASSUME TypeOK, Acquire
  PROVE  /\ seq' \in Int /\ seq' >= seq /\ stranded' \in BOOLEAN
         /\ status' \in Statuses /\ status' \in {status, "invalid"}
<1>1. CASE UNCHANGED <<seq, status, stranded>>
  BY <1>1 DEF TypeOK
<1>2. CASE Extend /\ stranded' \in BOOLEAN /\ status' \in {status, "invalid"}
  <2>1. seq \in Int /\ seq' \in Int /\ seq' >= seq + 1
    BY <1>2, ExtendGrows DEF TypeOK
  <2>2. QED
    BY <1>2, <2>1 DEF TypeOK, Statuses, Terminal
<1>3. QED
  BY <1>1, <1>2 DEF Acquire, TypeOK

\* The closure gate, of a run that goes on.
LEMMA ClosureStep ==
  ASSUME TypeOK, status = "running", NEW d, Closure(d)
  PROVE  /\ seq' \in Int /\ seq' >= seq + 1
         /\ status' \in Statuses /\ left' \in Nat /\ stranded' = stranded
         /\ d = "admit" => status' = "succeeded"
         /\ status' = "succeeded" => seq' >= seq + 2 /\ left' = left
         /\ status' \in Terminal \/ status' = status
         /\ d \in {"admit", "repair", "abort"}
<1>1. PICK n \in Events : seq' = seq + n + (IF d = "repair" THEN 0 ELSE 1)
  BY DEF Closure
<1>2. n \in Nat \ {0} /\ seq \in Int
  BY DEF TypeOK
<1>3. seq' \in Int /\ seq' >= seq + 1 /\ (d # "repair" => seq' >= seq + 2)
  BY <1>1, <1>2
<1>4. /\ status' \in Statuses /\ (d = "admit" => status' = "succeeded")
      /\ status' = "succeeded" => d # "repair" /\ left' = left
      /\ status' \in Terminal \/ status' = status
  BY DEF Closure, Statuses, Terminal
<1>5. QED
  BY <1>3, <1>4 DEF Closure, TypeOK

LEMMA AdvisorsTyped ==
  ASSUME NEW a, NEW b, NEW c
  PROVE  Advisors(a, b, c) \in Seq(Roles)
<1>1. /\ <<>> \in Seq(Roles) /\ <<"explorer">> \in Seq(Roles)
      /\ <<"verifier">> \in Seq(Roles) /\ <<"candidate_selector">> \in Seq(Roles)
  BY DEF Roles
<1>2. QED
  BY <1>1, ConcatProperties DEF Advisors

LEMMA NoJobIsJob == NoJob \in Jobs
  BY DEF NoJob, Jobs

LEMMA Later ==
  ASSUME NEW m \in Int, NEW n \in Int, NEW t \in Int, t <= m + 1, n >= m
  PROVE  t <= n + 1
  OBVIOUS

\* Every step of a session that keeps the number of the tick.
LEMMA TickBehindKept ==
  ASSUME SessionInv, seq' \in Int, seq' >= seq, pc # "over", tick' = tick,
         \/ kept' = kept /\ (file' = file \/ file'.seq = seq')
         \/ kept' = tick /\ file'.seq = seq' /\ tick <= seq',
         pc' \in {"maker", "checker", "export"} =>
           pc \in {"maker", "checker", "export"} \/ seq' >= seq + 1,
         pc' = "finished" /\ ShouldContinue' =>
           pc \in {"maker", "checker", "export"} \/ seq' >= seq + 1
  PROVE  TickBehind'
<1>1. /\ seq \in Int /\ tick \in Int /\ kept \in Int /\ file.seq \in Int
      /\ file.seq <= seq /\ kept <= file.seq /\ tick <= seq + 1
      /\ pc \in {"maker", "checker", "export"} => tick <= seq
  BY DEF SessionInv, CoreInv, TypeOK, FileBehind, TickBehind
<1>2. tick' <= seq' + 1
  <2>1. seq \in Int /\ tick \in Int /\ tick <= seq + 1
    BY <1>1
  <2>2. tick <= seq' + 1
    BY <2>1, Later
  <2>3. QED
    BY <2>2
<1>3. kept' <= file'.seq
  <2>1. CASE kept' = kept /\ file' = file
    BY <1>1, <2>1
  <2>2. CASE kept' = kept /\ file'.seq = seq'
    BY <1>1, <2>2
  <2>3. CASE kept' = tick /\ file'.seq = seq' /\ tick <= seq'
    BY <1>1, <2>3
  <2>4. QED
    BY <2>1, <2>2, <2>3
<1>4. (pc' \in {"maker", "checker", "export"} => tick' <= seq')
      /\ (pc' = "finished" /\ ShouldContinue' => tick' <= seq')
  BY <1>1
<1>5. QED
  BY <1>2, <1>3, <1>4 DEF TickBehind

\* Steps between the ticks.
LEMMA SessionSteps ==
  ASSUME SessionInv,
         Start \/ Publish \/ Decide \/ WriteManifest \/ TickTimeout \/ LeaseHeld \/ Crash
  PROVE  CoreInv'
<1> USE DEF SessionInv, CoreInv, TypeOK, log, loop
<1> USE DEF InTick, Waiting, Ending, Jobs, NoJob, NoManifest, Statuses, Terminal
<1>1. CASE Start
  <2>1. TypeOK'
    BY <1>1 DEF Start, StartTick, ShouldContinue, Recoverable, StageReady
  <2>2. StageReady'
    BY <1>1 DEF Start, StartTick, ShouldContinue, Recoverable, StageReady
  <2>3. FileBehind'
    BY <1>1 DEF Start, StartTick, ShouldContinue, Recoverable, FileBehind
  <2>4. TickBehind'
    BY <1>1
       DEF Start, StartTick, ShouldContinue, Recoverable, StageReady,
           FileBehind, TickBehind
  <2>5. TickAhead'
    BY <1>1
       DEF Start, StartTick, ShouldContinue, Recoverable, FileBehind,
           SuccessLast, TickBehind, TickAhead
  <2>6. QED
    BY <2>1, <2>2, <2>3, <2>4, <2>5 DEF CoreInv
<1>2. CASE Publish
  <2>1. TypeOK'
    BY <1>2 DEF Publish, StageReady
  <2>2. StageReady'
    BY <1>2 DEF Publish, StageReady
  <2>3. FileBehind'
    BY <1>2 DEF Publish, FileBehind
  <2>4. TickBehind'
    BY <1>2 DEF Publish, StageReady, FileBehind, TickBehind
  <2>5. TickAhead'
    BY <1>2 DEF Publish, FileBehind, TickBehind, TickAhead
  <2>6. QED
    BY <2>1, <2>2, <2>3, <2>4, <2>5 DEF CoreInv
<1>3. CASE Decide
  <2>1. TypeOK'
    BY <1>3 DEF Decide, ShouldContinue, StageReady
  <2>2. StageReady'
    BY <1>3 DEF Decide, ShouldContinue, StageReady
  <2>3. FileBehind'
    BY <1>3 DEF Decide, ShouldContinue, FileBehind
  <2>4. TickBehind'
    BY <1>3 DEF Decide, ShouldContinue, StageReady, FileBehind, TickBehind
  <2>5. TickAhead'
    BY <1>3 DEF Decide, ShouldContinue, FileBehind, TickBehind, TickAhead
  <2>6. QED
    BY <2>1, <2>2, <2>3, <2>4, <2>5 DEF CoreInv
<1>4. CASE WriteManifest
  <2>1. TypeOK'
    BY <1>4 DEF WriteManifest, Report, Over, StageReady
  <2>2. StageReady'
    BY <1>4 DEF WriteManifest, Report, Over, StageReady
  <2>3. FileBehind'
    BY <1>4 DEF WriteManifest, Report, Over, FileBehind
  <2>4. TickBehind'
    BY <1>4 DEF WriteManifest, Report, Over, StageReady, FileBehind, TickBehind
  <2>5. TickAhead'
    BY <1>4 DEF WriteManifest, Report, Over, FileBehind, TickBehind, TickAhead
  <2>6. QED
    BY <2>1, <2>2, <2>3, <2>4, <2>5 DEF CoreInv
<1>5. CASE TickTimeout
  <2>1. TypeOK'
    BY <1>5 DEF TickTimeout, Over, StageReady
  <2>2. StageReady'
    BY <1>5 DEF TickTimeout, Over, StageReady
  <2>3. FileBehind'
    BY <1>5 DEF TickTimeout, Over, FileBehind
  <2>4. TickBehind'
    BY <1>5 DEF TickTimeout, Over, StageReady, FileBehind, TickBehind
  <2>5. TickAhead'
    BY <1>5 DEF TickTimeout, Over, FileBehind, TickBehind, TickAhead
  <2>6. QED
    BY <2>1, <2>2, <2>3, <2>4, <2>5 DEF CoreInv
<1>6. CASE LeaseHeld
  <2>1. TypeOK'
    <3>1. <<>> \in Seq(Roles)
      OBVIOUS
    <3>2. QED
      <4>1. CASE pc = "begin"
        BY <1>6, <4>1 DEF LeaseHeld, Over
      <4>2. CASE pc # "begin"
        <5>1. Over /\ UNCHANGED <<log, file, sessions, cuts, manifest, kept>>
          BY <1>6, <4>2 DEF LeaseHeld
        <5>2. queue' \in Seq(Roles) /\ job' \in Jobs
          BY <3>1, <5>1, NoJobIsJob DEF Over
        <5>3. QED
          BY <5>1, <5>2 DEF Over
      <4>3. QED
        BY <4>1, <4>2
  <2>2. StageReady'
    BY <1>6 DEF LeaseHeld, Over, StageReady
  <2>3. FileBehind'
    BY <1>6 DEF LeaseHeld, Over, FileBehind
  <2>4. TickBehind'
    BY <1>6 DEF LeaseHeld, Over, StageReady, FileBehind, TickBehind
  <2>5. TickAhead'
    BY <1>6 DEF LeaseHeld, Over, FileBehind, TickBehind, TickAhead
  <2>6. QED
    BY <2>1, <2>2, <2>3, <2>4, <2>5 DEF CoreInv
<1>7. CASE Crash
  <2>1. TypeOK'
    BY <1>7 DEF Crash, Over, StageReady
  <2>2. StageReady'
    BY <1>7 DEF Crash, Over, StageReady
  <2>3. FileBehind'
    BY <1>7 DEF Crash, Over, FileBehind
  <2>4. TickBehind'
    BY <1>7 DEF Crash, Over, StageReady, FileBehind, TickBehind
  <2>5. TickAhead'
    BY <1>7 DEF Crash, Over, FileBehind, TickBehind, TickAhead
  <2>6. QED
    BY <2>1, <2>2, <2>3, <2>4, <2>5 DEF CoreInv
<1>8. QED
  BY <1>1, <1>2, <1>3, <1>4, <1>5, <1>6, <1>7

\* The end of a session.
LEMMA EndSteps ==
  ASSUME SessionInv, Finalize \/ Refine
  PROVE  CoreInv'
<1> USE DEF SessionInv, CoreInv, TypeOK, log, loop
<1> USE DEF InTick, Waiting, Ending, Jobs, NoJob, NoManifest, Statuses, Terminal
<1>1. CASE Finalize
  <2>1. CASE Acquire /\ UNCHANGED <<left, file>>
    <3>1. /\ seq' \in Int /\ seq' >= seq /\ stranded' \in BOOLEAN
          /\ status' \in Statuses /\ status' \in {status, "invalid"}
      BY <2>1, AcquireStep
    <3>2. TypeOK'
      BY <1>1, <2>1, <3>1 DEF Finalize, StageReady
    <3>3. StageReady'
      BY <1>1, <2>1 DEF Finalize, StageReady
    <3>4. FileBehind'
      BY <1>1, <2>1, <3>1 DEF Finalize, FileBehind
    <3>5. TickBehind'
      BY <1>1, <2>1, <3>1, TickBehindKept DEF Finalize
    <3>6. TickAhead'
      BY <1>1, <2>1, <3>1 DEF Finalize, FileBehind, TickBehind, TickAhead
    <3>7. QED
      BY <3>2, <3>3, <3>4, <3>5, <3>6 DEF CoreInv
  <2>2. CASE ClosureNeeded /\ Export /\ \E d \in {"admit", "repair", "abort"} : Closure(d)
    <3>1. PICK d \in {"admit", "repair", "abort"} : Closure(d)
      BY <2>2
    <3>2. /\ seq' \in Int /\ seq' >= seq + 1 /\ status' \in Statuses /\ left' \in Nat
          /\ stranded' = stranded /\ status = "running"
          /\ status' \in Terminal \/ status' = status
      BY <2>2, <3>1, ClosureStep DEF ClosureNeeded
    <3>3. TypeOK'
      BY <1>1, <2>2, <3>2 DEF Finalize, Export, StageReady
    <3>4. StageReady'
      BY <1>1, <2>2, <3>2 DEF Finalize, Export, StageReady
    <3>5. FileBehind'
      BY <1>1, <2>2, <3>2 DEF Finalize, Export, FileBehind
    <3>6. TickBehind'
      BY <1>1, <2>2, <3>2, TickBehindKept DEF Finalize, Export
    <3>7. TickAhead'
      BY <1>1, <2>2, <3>2 DEF Finalize, Export, FileBehind, TickBehind, TickAhead
    <3>8. QED
      BY <3>3, <3>4, <3>5, <3>6, <3>7 DEF CoreInv
  <2>3. QED
    BY <1>1, <2>1, <2>2 DEF Finalize
<1>2. CASE Refine
  <2>1. /\ seq' \in Int /\ seq' >= seq /\ stranded' \in BOOLEAN
        /\ status' \in Statuses /\ status' \in {status, "invalid"}
    BY <1>2, AcquireStep, ExtendGrows DEF Refine
  <2>2. CASE status' \notin {"succeeded", "aborted", "invalid"}
    <3>1. TypeOK'
      BY <1>2, <2>1, <2>2 DEF Refine, StageReady
    <3>2. StageReady'
      BY <1>2, <2>1, <2>2 DEF Refine, StageReady
    <3>3. FileBehind'
      BY <1>2, <2>1, <2>2 DEF Refine, FileBehind
    <3>4. TickBehind'
      BY <1>2, <2>1, <2>2, TickBehindKept DEF Refine
    <3>5. TickAhead'
      BY <1>2, <2>1, <2>2 DEF Refine, FileBehind, TickBehind, TickAhead
    <3>6. QED
      BY <3>1, <3>2, <3>3, <3>4, <3>5 DEF CoreInv
  <2>3. CASE status' \in {"succeeded", "aborted", "invalid"}
    <3>1. TypeOK'
      BY <1>2, <2>1, <2>3 DEF Refine, Export, StageReady
    <3>2. StageReady'
      BY <1>2, <2>1, <2>3 DEF Refine, Export, StageReady
    <3>3. FileBehind'
      BY <1>2, <2>1, <2>3 DEF Refine, Export, FileBehind
    <3>4. TickBehind'
      BY <1>2, <2>1, <2>3, TickBehindKept DEF Refine, Export
    <3>5. TickAhead'
      BY <1>2, <2>1, <2>3 DEF Refine, Export, FileBehind, TickBehind, TickAhead
    <3>6. QED
      BY <3>1, <3>2, <3>3, <3>4, <3>5 DEF CoreInv
  <2>4. QED
    BY <2>2, <2>3
<1>3. QED
  BY <1>1, <1>2

\* The first stages of a tick.
LEMMA EarlySteps ==
  ASSUME SessionInv,
         Begin \/ MergeMechanically \/ Governor \/ StartPhase0 \/ Advisor
  PROVE  CoreInv'
<1> USE DEF SessionInv, CoreInv, TypeOK, log, loop
<1> USE DEF InTick, Waiting, Ending, Jobs, NoJob, NoManifest, Statuses, Terminal
<1>1. CASE Begin
  <2>1. /\ seq' \in Int /\ seq' >= seq /\ stranded' \in BOOLEAN
        /\ status' \in Statuses /\ status' \in {status, "invalid"}
    BY <1>1, AcquireStep, ExtendGrows DEF Begin
  <2>2. TypeOK'
    BY <1>1, <2>1 DEF Begin, StageReady
  <2>3. StageReady'
    BY <1>1, <2>1 DEF Begin, StageReady
  <2>4. FileBehind'
    BY <1>1, <2>1 DEF Begin, FileBehind
  <2>5. TickBehind'
    BY <1>1, <2>1, TickBehindKept DEF Begin
  <2>6. TickAhead'
    BY <1>1, <2>1 DEF Begin, FileBehind, TickBehind, TickAhead
  <2>7. QED
    BY <2>2, <2>3, <2>4, <2>5, <2>6 DEF CoreInv
<1>2. CASE MergeMechanically
  <2>1. /\ seq' \in Int /\ seq' >= seq + 1
        /\ status' \in Statuses /\ status' \in {status, "invalid"}
    BY <1>2, ExtendGrows DEF MergeMechanically
  <2>2. TypeOK'
    BY <1>2, <2>1 DEF MergeMechanically, Export, StageReady
  <2>3. StageReady'
    BY <1>2, <2>1 DEF MergeMechanically, Export, StageReady
  <2>4. FileBehind'
    BY <1>2, <2>1 DEF MergeMechanically, Export, FileBehind
  <2>5. TickBehind'
    BY <1>2, <2>1, TickBehindKept DEF MergeMechanically, Export
  <2>6. TickAhead'
    BY <1>2, <2>1 DEF MergeMechanically, Export, FileBehind, TickBehind, TickAhead
  <2>7. QED
    BY <2>2, <2>3, <2>4, <2>5, <2>6 DEF CoreInv
<1>3. CASE Governor
  <2>1. seq' \in Int /\ seq' >= seq
    BY <1>3, ExtendGrows DEF Governor
  <2>2. TypeOK'
    BY <1>3, <2>1 DEF Governor, Fail, ShouldContinue, Recoverable, StageReady
  <2>3. StageReady'
    BY <1>3, <2>1 DEF Governor, Fail, ShouldContinue, Recoverable, StageReady
  <2>4. FileBehind'
    BY <1>3, <2>1 DEF Governor, Fail, ShouldContinue, Recoverable, FileBehind
  <2>5. TickBehind'
    BY <1>3, <2>1
       DEF Governor, Fail, ShouldContinue, Recoverable, StageReady,
           FileBehind, TickBehind
  <2>6. TickAhead'
    BY <1>3, <2>1
       DEF Governor, Fail, ShouldContinue, Recoverable, FileBehind,
           TickBehind, TickAhead
  <2>7. QED
    BY <2>2, <2>3, <2>4, <2>5, <2>6 DEF CoreInv
<1>4. CASE StartPhase0
  <2>1. queue' \in Seq(Roles)
    BY <1>4, AdvisorsTyped DEF StartPhase0
  <2>2. TypeOK'
    BY <1>4, <2>1 DEF StartPhase0, StageReady
  <2>3. StageReady'
    BY <1>4, <2>1 DEF StartPhase0, StageReady
  <2>4. FileBehind'
    BY <1>4, <2>1 DEF StartPhase0, FileBehind
  <2>5. TickBehind'
    BY <1>4, <2>1 DEF StartPhase0, StageReady, FileBehind, TickBehind
  <2>6. TickAhead'
    BY <1>4, <2>1 DEF StartPhase0, FileBehind, TickBehind, TickAhead
  <2>7. QED
    BY <2>2, <2>3, <2>4, <2>5, <2>6 DEF CoreInv
<1>5. CASE Advisor
  <2>1. seq' \in Int /\ seq' >= seq
    BY <1>5, ExtendGrows DEF Advisor
  <2>2. queue' \in Seq(Roles)
    <3>1. queue # <<>>
      BY <1>5 DEF Advisor, StageReady
    <3>2. Tail(queue) \in Seq(Roles) /\ <<>> \in Seq(Roles)
      BY <3>1
    <3>3. QED
      BY <1>5, <3>2 DEF Advisor
  <2>3. TypeOK'
    <3>1. UNCHANGED <<status, left, stranded, file, loop, manifest, kept>>
      BY <1>5 DEF Advisor
    <3>2. job' \in Jobs /\ pc' \in InTick
      BY <1>5 DEF Advisor, Fail
    <3>3. QED
      BY <2>1, <2>2, <3>1, <3>2
  <2>4. StageReady'
    <3>1. \/ pc' = "phase1" /\ job' = job /\ job = NoJob
          \/ pc' = "phase0" /\ queue' # <<>> /\ job' = job /\ job = NoJob
          \/ pc' = "finished"
      BY <1>5 DEF Advisor, Fail, StageReady
    <3>2. QED
      BY <3>1 DEF StageReady
  <2>5. FileBehind'
    <3>1. file' = file /\ status' = status /\ pc' # "manifest"
      BY <1>5 DEF Advisor, Fail
    <3>2. file.seq \in Int /\ seq \in Int
      OBVIOUS
    <3>3. QED
      BY <2>1, <3>1, <3>2 DEF FileBehind
  <2>6. TickBehind'
    <3>1. job = NoJob /\ pc = "phase0"
      BY <1>5 DEF Advisor, StageReady
    <3>2. pc' = "finished" => ~ShouldContinue'
      BY <1>5, <3>1 DEF Advisor, Fail, ShouldContinue, Recoverable
    <3>3. /\ tick' = tick /\ kept' = kept /\ file' = file
          /\ pc' \in {"phase1", "phase0", "finished"}
      BY <1>5 DEF Advisor, Fail
    <3>4. QED
      BY <2>1, <3>1, <3>2, <3>3, TickBehindKept
  <2>7. TickAhead'
    BY <1>5, <2>1, <2>2
       DEF Advisor, Fail, ShouldContinue, Recoverable, FileBehind,
           TickBehind, TickAhead
  <2>8. QED
    BY <2>3, <2>4, <2>5, <2>6, <2>7 DEF CoreInv
<1>6. QED
  BY <1>1, <1>2, <1>3, <1>4, <1>5

\* The stages about the node, and the export.
LEMMA LateSteps ==
  ASSUME SessionInv, StartPhase1 \/ Maker \/ Checker \/ ExportTick
  PROVE  CoreInv'
<1> USE DEF SessionInv, CoreInv, TypeOK, log, loop
<1> USE DEF InTick, Waiting, Ending, Jobs, NoJob, NoManifest, Statuses, Terminal
<1>1. CASE StartPhase1
  <2>1. CASE status = "running" /\ ~NodeReady /\ CloseFirst
    <3>1. PICK d \in {"admit", "repair", "abort"} :
            /\ Closure(d)
            /\ job' = IF d = "admit"
                      THEN [decision |-> "admit", error |-> "none"]
                      ELSE [job EXCEPT !.error = "stage"]
            /\ Export /\ kept' = tick /\ pc' = "finished"
      BY <2>1 DEF CloseFirst
    <3>2. /\ seq' \in Int /\ seq' >= seq + 1 /\ status' \in Statuses /\ left' \in Nat
          /\ stranded' = stranded
      BY <2>1, <3>1, ClosureStep
    <3>3. TypeOK'
      <4>1. UNCHANGED <<sessions, cuts, index, tick, queue, manifest>>
        BY <1>1 DEF StartPhase1
      <4>2. file' \in [seq : Int, status : {"none"} \cup Statuses]
        BY <3>1, <3>2 DEF Export
      <4>3. job' \in Jobs
        BY <1>1, <3>1 DEF StartPhase1, StageReady
      <4>4. kept' \in Int /\ pc' = "finished"
        BY <3>1
      <4>5. QED
        BY <3>2, <4>1, <4>2, <4>3, <4>4
    <3>4. StageReady'
      BY <3>1 DEF StageReady
    <3>5. FileBehind'
      BY <1>1, <2>1, <3>1, <3>2 DEF StartPhase1, Export, FileBehind
    <3>6. TickBehind'
      BY <1>1, <2>1, <3>1, <3>2
         DEF StartPhase1, Export, StageReady, FileBehind, TickBehind
    <3>7. TickAhead'
      BY <1>1, <2>1, <3>1, <3>2
         DEF StartPhase1, Export, FileBehind, TickBehind, TickAhead
    <3>8. QED
      BY <3>3, <3>4, <3>5, <3>6, <3>7 DEF CoreInv
  <2>2. CASE /\ AlreadySucceeded
             /\ job' = [decision |-> "admit", error |-> "none"]
             /\ pc' = "finished"
             /\ UNCHANGED <<log, file, kept>>
    BY <1>1, <2>2 DEF StartPhase1, AlreadySucceeded, ShouldContinue,
       StageReady, FileBehind, TickBehind, TickAhead
  <2>3. CASE /\ status # "running" /\ ~AlreadySucceeded /\ ~NodeReady
             /\ Fail("stage")
             /\ UNCHANGED <<log, file, kept>>
    BY <1>1, <2>3 DEF StartPhase1, Fail, ShouldContinue, Recoverable,
       StageReady, FileBehind, TickBehind, TickAhead
  <2>4. CASE /\ ~AlreadySucceeded /\ NodeReady
             /\ Extend
             /\ stranded' = TRUE
             /\ pc' = "maker"
             /\ UNCHANGED <<status, left, job, file, kept>>
    <3>1. seq' \in Int /\ seq' >= seq + 1
      BY <2>4, ExtendGrows
    <3>2. TypeOK'
      BY <1>1, <2>4, <3>1 DEF StartPhase1, NodeReady, StageReady
    <3>3. StageReady'
      BY <1>1, <2>4, <3>1 DEF StartPhase1, NodeReady, StageReady
    <3>4. FileBehind'
      BY <1>1, <2>4, <3>1 DEF StartPhase1, NodeReady, FileBehind
    <3>5. TickBehind'
      BY <1>1, <2>4, <3>1, TickBehindKept DEF StartPhase1
    <3>6. TickAhead'
      BY <1>1, <2>4, <3>1
         DEF StartPhase1, NodeReady, FileBehind, TickBehind,
             TickAhead
    <3>7. QED
      BY <3>2, <3>3, <3>4, <3>5, <3>6 DEF CoreInv
  <2>5. QED
    BY <1>1, <2>1, <2>2, <2>3, <2>4 DEF StartPhase1
<1>2. CASE Maker
  <2>1. seq' \in Int /\ seq' >= seq
    BY <1>2, ExtendGrows DEF Maker
  <2>2. TypeOK'
    BY <1>2, <2>1 DEF Maker, Fail, StageReady
  <2>3. StageReady'
    BY <1>2, <2>1 DEF Maker, Fail, StageReady
  <2>4. FileBehind'
    BY <1>2, <2>1 DEF Maker, Fail, FileBehind
  <2>5. TickBehind'
    BY <1>2, <2>1 DEF Maker, Fail, StageReady, FileBehind, TickBehind
  <2>6. TickAhead'
    BY <1>2, <2>1 DEF Maker, Fail, FileBehind, TickBehind, TickAhead
  <2>7. QED
    BY <2>2, <2>3, <2>4, <2>5, <2>6 DEF CoreInv
<1>3. CASE Checker
  <2>1. seq' \in Int /\ seq' >= seq
    BY <1>3, ExtendGrows DEF Checker
  <2>2. /\ status' \in Statuses /\ left' \in Nat
        /\ status' \in {status, "aborted"}
    BY <1>3 DEF Checker, Fail, StageReady
  <2>3. job' \in Jobs /\ (pc' = "export" => job'.error = "none")
        /\ pc' \in {"export", "finished"} /\ stranded' \in BOOLEAN
    <3>1. job = NoJob
      BY <1>3 DEF Checker, StageReady
    <3>2. CASE pc' = "export"
      <4>1. PICK d \in {"admit", "repair", "abort"} :
              job' = [decision |-> d, error |-> "none"] /\ stranded' = FALSE
        BY <1>3, <3>2 DEF Checker, Fail
      <4>2. QED
        BY <3>2, <4>1
    <3>3. CASE pc' # "export"
      BY <1>3, <3>1, <3>3 DEF Checker, Fail
    <3>4. QED
      BY <3>2, <3>3
  <2>4. TypeOK'
    BY <1>3, <2>1, <2>2, <2>3 DEF Checker, StageReady
  <2>5. StageReady'
    BY <1>3, <2>1, <2>2, <2>3 DEF Checker, StageReady
  <2>6. FileBehind'
    BY <1>3, <2>1, <2>2, <2>3 DEF Checker, FileBehind
  <2>7. TickBehind'
    BY <1>3, <2>1, TickBehindKept DEF Checker
  <2>8. TickAhead'
    BY <1>3, <2>1, <2>2, <2>3 DEF Checker, FileBehind, TickBehind, TickAhead
  <2>9. QED
    BY <2>4, <2>5, <2>6, <2>7, <2>8 DEF CoreInv
<1>4. CASE ExportTick
  <2>1. CASE ~ClosureNeeded
    <3>1. TypeOK'
      BY <1>4, <2>1 DEF ExportTick, Export, StageReady
    <3>2. StageReady'
      BY <1>4, <2>1 DEF ExportTick, Export, StageReady
    <3>3. FileBehind'
      BY <1>4, <2>1 DEF ExportTick, Export, FileBehind
    <3>4. TickBehind'
      BY <1>4, <2>1 DEF ExportTick, Export, StageReady, FileBehind, TickBehind
    <3>5. TickAhead'
      BY <1>4, <2>1 DEF ExportTick, Export, FileBehind, TickBehind, TickAhead
    <3>6. QED
      BY <3>1, <3>2, <3>3, <3>4, <3>5 DEF CoreInv
  <2>2. CASE ClosureNeeded
    <3>1. PICK d \in {"admit", "repair", "abort"} :
            /\ Closure(d)
            /\ job' = [decision |-> d, error |-> IF d = "abort" THEN "abort" ELSE "none"]
      BY <1>4, <2>2 DEF ExportTick
    <3>2. /\ seq' \in Int /\ seq' >= seq + 1 /\ status' \in Statuses /\ left' \in Nat
          /\ stranded' = stranded /\ status = "running"
      BY <2>2, <3>1, ClosureStep DEF ClosureNeeded
    <3>3. TypeOK'
      BY <1>4, <2>2, <3>1, <3>2 DEF ExportTick, Export, StageReady
    <3>4. StageReady'
      BY <1>4, <2>2, <3>1, <3>2 DEF ExportTick, Export, StageReady
    <3>5. FileBehind'
      BY <1>4, <2>2, <3>1, <3>2 DEF ExportTick, Export, FileBehind
    <3>6. TickBehind'
      BY <1>4, <2>2, <3>1, <3>2
         DEF ExportTick, Export, StageReady, FileBehind, TickBehind
    <3>7. TickAhead'
      BY <1>4, <2>2, <3>1, <3>2
         DEF ExportTick, Export, FileBehind, TickBehind, TickAhead
    <3>8. QED
      BY <3>3, <3>4, <3>5, <3>6, <3>7 DEF CoreInv
  <2>3. QED
    BY <2>1, <2>2
<1>5. QED
  BY <1>1, <1>2, <1>3, <1>4

\* No step works on, or aborts, a run that has succeeded.
LEMMA SuccessSteps ==
  ASSUME SessionInv, CoreInv', Next
  PROVE  SuccessLast'
<1> USE DEF SessionInv, CoreInv, TypeOK, log, loop
<1> USE DEF Statuses, Terminal
<1>1. CASE \/ Start \/ Publish \/ Decide \/ WriteManifest \/ TickTimeout \/ LeaseHeld
           \/ Crash \/ StartPhase0
  <2>1. UNCHANGED <<log, file, kept>> /\ pc' # "export"
    BY <1>1
       DEF Start, Publish, Decide, WriteManifest, TickTimeout, LeaseHeld,
           Crash, StartPhase0, Over
  <2>2. QED
    BY <2>1 DEF SuccessLast
<1>2. CASE Begin
  <2>1. /\ seq' \in Int /\ seq' >= seq /\ status' \in {status, "invalid"}
        /\ left' = left /\ file' = file /\ kept' = kept /\ pc' # "export"
    BY <1>2, AcquireStep, ExtendGrows DEF Begin
  <2>2. QED
    BY <2>1 DEF SuccessLast
<1>3. CASE MergeMechanically
  <2>1. left' # left /\ left > 1 /\ status' \in {status, "invalid"}
        /\ file'.status = status' /\ pc' # "export"
    BY <1>3 DEF MergeMechanically, Export
  <2>2. QED
    BY <2>1 DEF SuccessLast
<1>4. CASE Governor \/ Advisor \/ Maker
  <2>1. seq' \in Int /\ seq' >= seq /\ UNCHANGED <<status, left, file, kept>>
        /\ pc' # "export"
    <3>1. CASE Governor
      BY <3>1, ExtendGrows DEF Governor, Fail
    <3>2. CASE Advisor
      <4>1. (seq' = seq \/ Extend) /\ seq \in Int /\ pc' # "export"
        BY <3>2 DEF Advisor, Fail
      <4>2. seq' \in Int /\ seq' >= seq
        BY <4>1, ExtendGrows
      <4>3. QED
        BY <3>2, <4>1, <4>2 DEF Advisor
    <3>3. CASE Maker
      BY <3>3, ExtendGrows DEF Maker, Fail
    <3>4. QED
      BY <1>4, <3>1, <3>2, <3>3
  <2>2. QED
    BY <2>1 DEF SuccessLast
<1>5. CASE Checker
  <2>1. left > 0 /\ left \in Nat
    BY <1>5 DEF Checker, StageReady
  <2>2. status # "succeeded" /\ file.status # "succeeded"
    BY <2>1 DEF SuccessLast
  <2>3. status' # "succeeded" /\ file'.status # "succeeded"
    BY <1>5, <2>2 DEF Checker
  <2>4. QED
    BY <2>3 DEF SuccessLast
<1>6. CASE Refine
  <2>1. /\ seq' \in Int /\ seq' >= seq /\ status' \in {status, "invalid"}
        /\ left' = left /\ kept' = kept /\ pc' # "export"
    BY <1>6, AcquireStep, ExtendGrows DEF Refine
  <2>2. file' = file \/ file' = [seq |-> seq', status |-> status']
    BY <1>6 DEF Refine, Export
  <2>3. QED
    BY <2>1, <2>2 DEF SuccessLast
<1>7. ASSUME status = "running", ~NodeReady, NEW d, Closure(d), Export,
             kept' \in {kept, tick}, pc # "over", pc' # "export"
      PROVE  SuccessLast'
  <2>1. left = 0
    BY <1>7 DEF NodeReady
  <2>2. /\ seq' \in Int /\ seq' >= seq + 1
        /\ status' = "succeeded" => seq' >= seq + 2 /\ left' = left
    BY <1>7, ClosureStep
  <2>3. kept' <= seq + 1
    BY <1>7 DEF FileBehind, TickBehind
  <2>4. file' = [seq |-> seq', status |-> status']
    BY <1>7 DEF Export
  <2>5. seq \in Int /\ kept' \in Int
    OBVIOUS
  <2>6. status' = "succeeded" => left' = 0 /\ kept' < seq'
    BY <2>1, <2>2, <2>3, <2>5
  <2>7. file'.status = status' /\ file'.seq = seq'
    BY <2>4
  <2>8. QED
    BY <1>7, <2>6, <2>7 DEF SuccessLast
<1>8. CASE Finalize
  <2>1. CASE Acquire /\ UNCHANGED <<left, file>>
    <3>1. seq' \in Int /\ seq' >= seq /\ status' \in {status, "invalid"} /\ kept' = kept
          /\ pc' # "export"
      BY <1>8, <2>1, AcquireStep DEF Finalize
    <3>2. QED
      BY <2>1, <3>1 DEF SuccessLast
  <2>2. CASE ClosureNeeded /\ Export /\ \E d \in {"admit", "repair", "abort"} : Closure(d)
    BY <1>7, <1>8, <2>2 DEF Finalize, ClosureNeeded
  <2>3. QED
    BY <1>8, <2>1, <2>2 DEF Finalize
<1>9. CASE StartPhase1
  <2>1. CASE status = "running" /\ ~NodeReady /\ CloseFirst
    BY <1>7, <1>9, <2>1 DEF StartPhase1, CloseFirst
  <2>2. CASE UNCHANGED <<log, file, kept>> /\ pc' # "export"
    BY <2>2 DEF SuccessLast
  <2>3. CASE Extend /\ UNCHANGED <<status, left, file, kept>> /\ pc' # "export"
    <3>1. seq' \in Int /\ seq' >= seq + 1
      BY <2>3, ExtendGrows
    <3>2. QED
      BY <2>3, <3>1 DEF SuccessLast
  <2>4. QED
    BY <1>9, <2>1, <2>2, <2>3 DEF StartPhase1, Fail
<1>10. CASE ExportTick
  <2>1. CASE ClosureNeeded
    BY <1>7, <1>10, <2>1 DEF ExportTick, ClosureNeeded
  <2>2. CASE ~ClosureNeeded
    BY <1>10, <2>2 DEF ExportTick, Export, SuccessLast
  <2>3. QED
    BY <2>1, <2>2
<1>11. QED
  BY <1>1, <1>2, <1>3, <1>4, <1>5, <1>6, <1>8, <1>9, <1>10 DEF Next, Tick, Program

LEMMA SessionInvHolds == Spec => []SessionInv
<1>1. Init => SessionInv
  <2>1. <<>> \in Seq(Roles)
    OBVIOUS
  <2>2. Init => TypeOK
    <3> SUFFICES ASSUME Init PROVE TypeOK
      OBVIOUS
    <3>1. /\ file \in [seq : Int, status : {"none"} \cup Statuses]
          /\ manifest \in [status : {"none"} \cup Statuses,
                          stop : {"none", "terminal:succeeded", "abort", "error", "halt"}]
      BY DEF Init, NoManifest
    <3>2. job \in Jobs /\ queue \in Seq(Roles) /\ status \in Statuses
      BY <2>1, NoJobIsJob DEF Init, Statuses
    <3>3. /\ seq \in Int /\ seq >= -1 /\ kept \in Int /\ left \in Nat
          /\ sessions \in Nat /\ cuts \in Nat /\ index \in Nat /\ tick \in Int
      BY DEF Init
    <3>4. stranded \in BOOLEAN /\ pc \in {"over", "publish"} \cup InTick \cup Ending
      BY DEF Init
    <3>5. QED
      BY <3>1, <3>2, <3>3, <3>4 DEF TypeOK
  <2>3. Init => StageReady /\ FileBehind /\ SuccessLast /\ TickBehind /\ TickAhead
    BY
       DEF Init, StageReady, FileBehind, SuccessLast, TickBehind, TickAhead, InTick,
           Waiting, Terminal
  <2>4. QED
    BY <2>2, <2>3 DEF SessionInv, CoreInv
<1>2. SessionInv /\ [Next]_vars => SessionInv'
  <2> SUFFICES ASSUME SessionInv, [Next]_vars PROVE SessionInv'
    OBVIOUS
  <2>1. CASE Next
    <3>1. CoreInv'
      BY <2>1, SessionSteps, EndSteps, EarlySteps, LateSteps DEF Next, Tick, Program
    <3>2. QED
      BY <2>1, <3>1, SuccessSteps DEF SessionInv
  <2>2. CASE UNCHANGED vars
    BY <2>2
       DEF vars, log, loop, SessionInv, CoreInv, TypeOK, StageReady, FileBehind,
           SuccessLast, TickBehind, TickAhead, ShouldContinue
  <2>3. QED
    BY <2>1, <2>2
<1>3. QED
  BY <1>1, <1>2, PTL DEF Spec

-----------------------------------------------------------------------------
\* Types of the session and of what it reads of the run.
THEOREM SessionTyping == Spec => []TypeOK
<1>1. SessionInv => TypeOK
  BY DEF SessionInv, CoreInv
<1>2. QED
  BY <1>1, SessionInvHolds, PTL

\* The number of a tick that was exported is never given out again
\* (resolve_start_tick).
THEOREM TicksUnique == Spec => []KeptTicksUnique
<1>1. SessionInv => KeptTicksUnique
  BY DEF SessionInv, CoreInv, TickAhead, KeptTicksUnique
<1>2. QED
  BY <1>1, SessionInvHolds, PTL

\* The manifest says of an ended run how it ended (write_run_manifest).
THEOREM ManifestsTruthful == Spec => []ManifestTruthful
<1>1. SessionInv => ManifestTruthful
  BY DEF SessionInv, CoreInv, FileBehind, ManifestTruthful
<1>2. QED
  BY <1>1, SessionInvHolds, PTL

\* An end that a projection reports is not taken back by any later session,
\* except that an edited goal makes the run invalid.
THEOREM EndsStayReported == Spec => EndedStaysReported
<1> DEFINE Stays == file.status \in Terminal =>
                      /\ file'.status \in Terminal
                      /\ file'.status = "succeeded" => file.status = "succeeded"
                      /\ file.status = "succeeded" => file'.status # "aborted"
<1>1. SessionInv /\ SessionInv' /\ [Next]_vars => [Stays]_vars
  <2> SUFFICES ASSUME SessionInv, SessionInv', Next, file.status \in Terminal
               PROVE  Stays
    OBVIOUS
  <2>1. file' = file \/ file' = [seq |-> seq', status |-> status']
    BY
       DEF Next, Tick, Program, Start, Publish, Decide, Finalize,
           Refine, WriteManifest,
       TickTimeout, LeaseHeld, Crash, Begin, MergeMechanically, Governor, StartPhase0,
       Advisor, StartPhase1, CloseFirst, Maker, Checker, ExportTick, Export
  <2>2. status \in Terminal
    BY DEF SessionInv, CoreInv, FileBehind
  <2>3. status' = status \/ status' = "invalid" \/ (status' = "aborted" /\ left > 0)
    <3>1. CASE \/ Start \/ Publish \/ Decide \/ WriteManifest \/ TickTimeout \/ LeaseHeld
               \/ Crash \/ StartPhase0 \/ Governor \/ Advisor \/ Maker
      BY <3>1
         DEF Start, Publish, Decide, WriteManifest, TickTimeout, LeaseHeld,
             Crash, StartPhase0, Governor, Advisor, Maker, log
    <3>2. CASE Begin \/ MergeMechanically \/ Finalize \/ Refine
      BY <2>2, <3>2
         DEF Begin, MergeMechanically, Finalize, Refine, Acquire, ClosureNeeded, Terminal
    <3>3. CASE StartPhase1 \/ ExportTick
      BY <2>2, <3>3 DEF StartPhase1, ExportTick, ClosureNeeded, Terminal, log
    <3>4. CASE Checker
      <4>1. left > 0
        BY <3>4 DEF Checker, SessionInv, CoreInv, StageReady
      <4>2. QED
        BY <3>4, <4>1 DEF Checker
    <3>5. QED
      BY <3>1, <3>2, <3>3, <3>4 DEF Next, Tick, Program
  <2>4. CASE file' = file
    BY <2>4 DEF Terminal
  <2>5. CASE file' = [seq |-> seq', status |-> status']
    <3>1. file'.status = status' /\ status' \in Terminal
      BY <2>2, <2>3, <2>5 DEF Terminal
    <3>2. status' = "succeeded" => file.status = "succeeded"
      BY <2>3 DEF SessionInv, CoreInv, FileBehind
    <3>3. file.status = "succeeded" => status' # "aborted"
      BY <2>3 DEF SessionInv, SuccessLast
    <3>4. QED
      BY <3>1, <3>2, <3>3
  <2>6. QED
    BY <2>1, <2>4, <2>5
<1>2. QED
  BY <1>1, SessionInvHolds, PTL DEF Spec, EndedStaysReported
=============================================================================
