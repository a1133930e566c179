------------------------------ MODULE Staging ------------------------------
(***************************************************************************)
(* The lessons of a run on their way to the memory (phase3.py,             *)
(* refiner_batch.py, sigma.py).  Every tick stages one file in the         *)
(* directory refined; beyond a cap the oldest files, in the order of their *)
(* names, are merged into an archive file.  At the end of the run a batch  *)
(* stages again what ticks.jsonl records and the directory does not hold,  *)
(* and turns every file into a candidate record.                           *)
(*                                                                         *)
(* A file is its name and the ticks whose lessons it carries.  A name is   *)
(* <<t>> or, for an archive, Archive and the names of the first and the    *)
(* last file it was made of, so that names compare as the strings do:      *)
(* digits come before letters.                                             *)
(*                                                                         *)
(* A crash is the death of the process.  It leaves a file that was opened  *)
(* for writing empty: it has its name, no lesson, and cannot be decoded.   *)
(***************************************************************************)
EXTENDS Integers, Sequences, FiniteSets, SequencesExt

CONSTANTS
  StagingCap,       \* SIGMA_STAGING_MAX
  StagingTicks,     \* bound: ticks
  StagingCrashes    \* bound: crashes

\* The first part of the name of an archive comes after every tick: up to
\* 999 of them the names of the ticks, of three digits, compare as numbers.
Archive == 1000

ASSUME StagingAssumption ==
  /\ StagingCap \in Nat \ {0}
  /\ StagingTicks \in 0..(Archive - 1)
  /\ StagingCrashes \in Nat

VARIABLES
  recorded,     \* ticks.jsonl: its ticks
  lastTick,     \* the last tick that came to phase 3
  refined,      \* sigma/refined: files [name, lessons]
  candidates,   \* the lessons of the candidate records written so far
  stageJob,     \* "tick", "batch" or "none"
  stagePc,
  todo,         \* ticks to stage
  archive,      \* the archive file whose sources are deleted, and what follows
  flushed,      \* the file that has become a candidate and is to be deleted
  stageCrashes,
  lost          \* history, since the last batch that ended: the ticks of the
                \* files a crash left empty, and those an archive had no room for

\* What a job changes only now and then.
stagingRest == <<recorded, lastTick, candidates, flushed, stageCrashes>>
stagingVars == <<stagingRest, refined, stageJob, stagePc, todo, archive, lost>>

NoFile == [name |-> <<>>, lessons |-> {}]
NoArchive == [file |-> NoFile, next |-> "idle"]

\* The order of file names: they agree up to n.
Before(a, b) ==
  \E n \in 0..Len(a) :
    /\ n < Len(b)
    /\ n = Len(a) \/ a[n + 1] < b[n + 1]
    /\ \A i \in 1..n : a[i] = b[i]

\* The first and the last file of what list_refined returns.
Oldest(S) == CHOOSE f \in S : \A g \in S \ {f} : Before(f.name, g.name)
Newest(S) == CHOOSE f \in S : \A g \in S \ {f} : Before(g.name, f.name)

\* A file of the same name is replaced.
Written(file) == {f \in refined : f.name # file.name} \cup {file}

\* Mutant of Overflow: only the oldest one.
OverflowOne == {Oldest(refined)}

\* The oldest files beyond the cap.
Overflow ==
  CHOOSE S \in kSubset(Cardinality(refined) - StagingCap, refined) :
    \A f \in S, g \in refined \ S : Before(f.name, g.name)

LessonsOf(S) == UNION {f.lessons : f \in S}

\* The archive's text is cut off in the text of f, of which it has a part.
Merged(f, part) ==
  [name |-> <<Archive>> \o Oldest(Overflow).name \o Newest(Overflow).name,
   lessons |-> part \cup LessonsOf({g \in Overflow : Before(g.name, f.name)})]

\* enforce_staging_cap, in two steps: the sources are deleted before the
\* archive is written.
EnforceCap(next) ==
  IF Cardinality(refined) <= StagingCap
  THEN stagePc' = next /\ UNCHANGED <<refined, archive, lost>>
  ELSE \E f \in Overflow : \E part \in SUBSET f.lessons :
         /\ refined' = refined \ Overflow
         /\ archive' = [file |-> Merged(f, part), next |-> next]
         /\ lost' = lost \cup (LessonsOf(Overflow) \ Merged(f, part).lessons)
         /\ stagePc' = "archive"

-----------------------------------------------------------------------------
StagingInit ==
  /\ recorded = <<>>
  /\ lastTick = 0
  /\ refined = {}
  /\ candidates = {}
  /\ stageJob = "none"
  /\ stagePc = "idle"
  /\ todo = <<>>
  /\ archive = NoArchive
  /\ flushed = NoFile
  /\ stageCrashes = 0
  /\ lost = {}

\* run_phase3 of the next tick; the number of one that died is not given out
\* again (module Session).
StartPhase3 ==
  /\ stageJob = "none"
  /\ lastTick < StagingTicks
  /\ lastTick' = lastTick + 1
  /\ stageJob' = "tick"
  /\ todo' = <<lastTick + 1>>
  /\ stagePc' = "stage"
  /\ UNCHANGED <<recorded, refined, candidates, archive, flushed, stageCrashes, lost>>

\* Mutant of ToStage: the last tick only.
ToStageLast == <<Last(recorded)>>

\* stage_lessons_from_ticks reads ticks.jsonl line by line.
ToStage == recorded

\* run_end_refiner_batch and stage_lessons_from_ticks: a session ends on an
\* ended run.  An aborted run may go on to another tick.
StartBatch ==
  /\ stageJob = "none"
  /\ recorded # <<>>
  /\ stageJob' = "batch"
  /\ todo' = ToStage
  /\ stagePc' = "stage"
  /\ UNCHANGED <<stagingRest, refined, archive, lost>>

\* stage_tick_lesson, unless the tick has its file, be it an empty one.
StageLesson ==
  /\ stagePc = "stage"
  /\ todo # <<>>
  /\ IF \E f \in refined : f.name = <<Head(todo)>>
     THEN todo' = Tail(todo) /\ UNCHANGED <<stagePc, refined, archive, lost>>
     ELSE EnforceCap("write") /\ UNCHANGED todo
  /\ UNCHANGED <<stagingRest, stageJob>>

WriteLesson ==
  /\ stagePc = "write"
  /\ refined' = Written([name |-> <<Head(todo)>>, lessons |-> {Head(todo)}])
  /\ stagePc' = "cap"
  /\ UNCHANGED <<stagingRest, stageJob, todo, archive, lost>>

CapStaged ==
  /\ stagePc = "cap"
  /\ todo' = Tail(todo)
  /\ EnforceCap("stage")
  /\ UNCHANGED <<stagingRest, stageJob>>

WriteArchive ==
  /\ stagePc = "archive"
  /\ refined' = Written(archive.file)
  /\ archive' = NoArchive
  /\ stagePc' = archive.next
  /\ UNCHANGED <<stagingRest, stageJob, todo, lost>>

\* The tick is appended to ticks.jsonl.
RecordTick ==
  /\ stagePc = "stage" /\ todo = <<>> /\ stageJob = "tick"
  /\ recorded' = Append(recorded, lastTick)
  /\ stageJob' = "none"
  /\ stagePc' = "idle"
  /\ UNCHANGED <<lastTick, refined, candidates, todo, archive, flushed, stageCrashes, lost>>

\* polish_refined_staging: the cap once more, and then every file that can be
\* decoded is written again, with another text and the same lessons.
Polish ==
  /\ stagePc = "stage" /\ todo = <<>> /\ stageJob = "batch"
  /\ EnforceCap("polish")
  /\ UNCHANGED <<stagingRest, stageJob, todo>>

Polished ==
  /\ stagePc = "polish"
  /\ stagePc' = "flush"
  /\ UNCHANGED <<stagingRest, refined, stageJob, todo, archive, lost>>

\* flush_refined_to_candidates: a file that cannot be decoded is deleted, for
\* another one there is write_candidate and then the deletion.
Flush ==
  /\ stagePc = "flush"
  /\ \/ /\ refined = {}
        /\ stagePc' = "done"
        /\ UNCHANGED <<refined, candidates, flushed>>
     \/ /\ refined # {} /\ Oldest(refined).lessons = {}
        /\ refined' = refined \ {Oldest(refined)}
        /\ UNCHANGED <<stagePc, candidates, flushed>>
     \/ /\ refined # {} /\ Oldest(refined).lessons # {}
        /\ candidates' = candidates \cup Oldest(refined).lessons
        /\ flushed' = Oldest(refined)
        /\ stagePc' = "delete"
        /\ UNCHANGED refined
  /\ UNCHANGED <<recorded, lastTick, stageJob, todo, archive, stageCrashes, lost>>

DeleteFlushed ==
  /\ stagePc = "delete"
  /\ refined' = refined \ {flushed}
  /\ flushed' = NoFile
  /\ stagePc' = "flush"
  /\ UNCHANGED <<recorded, lastTick, candidates, stageJob, todo, archive, stageCrashes, lost>>

EndBatch ==
  /\ stagePc = "done"
  /\ stageJob' = "none"
  /\ stagePc' = "idle"
  /\ lost' = {}
  /\ UNCHANGED <<stagingRest, refined, todo, archive>>

\* The names of the files that may be open for writing.
Open ==
  CASE stagePc = "write" -> {<<Head(todo)>>}
    [] stagePc = "archive" -> {archive.file.name}
    [] stagePc = "polish" -> {f.name : f \in {g \in refined : g.lessons # {}}}
    [] OTHER -> {}

\* The process dies, before it opens a file or with the file open.
CrashStaging ==
  /\ stageJob # "none"
  /\ stageCrashes < StagingCrashes
  /\ stageCrashes' = stageCrashes + 1
  /\ stageJob' = "none"
  /\ stagePc' = "idle"
  /\ todo' = <<>>
  /\ archive' = NoArchive
  /\ flushed' = NoFile
  /\ \/ UNCHANGED <<refined, lost>>
     \/ \E name \in Open :
          /\ refined' = Written([name |-> name, lessons |-> {}])
          /\ lost' = lost \cup (ToSet(name) \ {Archive})
  /\ UNCHANGED <<recorded, lastTick, candidates>>

StagingNext ==
  \/ StartPhase3 \/ StartBatch \/ StageLesson \/ WriteLesson \/ CapStaged
  \/ WriteArchive \/ RecordTick \/ Polish \/ Polished \/ Flush \/ DeleteFlushed
  \/ EndBatch \/ CrashStaging

StagingSpec == StagingInit /\ [][StagingNext]_stagingVars

-----------------------------------------------------------------------------
Ticks == 1..StagingTicks
Files == [name : Seq(Nat), lessons : SUBSET Ticks]

StagingTypeOK ==
  /\ recorded \in Seq(Ticks)
  /\ lastTick \in 0..StagingTicks
  /\ refined \subseteq Files
  /\ candidates \subseteq Ticks
  /\ stageJob \in {"none", "tick", "batch"}
  /\ stagePc \in {"idle", "stage", "write", "cap", "archive", "polish", "flush",
                  "delete", "done"}
  /\ todo \in Seq(Ticks)
  /\ archive.file \in Files
  /\ flushed \in Files
  /\ stageCrashes \in 0..StagingCrashes
  /\ lost \subseteq Ticks

\* A batch that has come to its end has made candidates of the lessons of all
\* recorded ticks, although archives replace files, archives of archives and
\* archives of the same name are written, and a crash between the deletion
\* of the sources and the write of an archive loses them
\* (stage_lessons_from_ticks stages them again).  Only the lessons of a file
\* that a crash left empty, which the batch takes for staged and deletes, and
\* those an archive has no room for may be missing: until the next batch,
\* which must have them.
LessonsKept == stagePc = "done" => ToSet(recorded) \ lost \subseteq candidates

\* The directory holds at most two files more than the cap: the archive
\* that replaces the files beyond the cap, and the lesson just written.
StagingBounded == Cardinality(refined) <= StagingCap + 2
=============================================================================
