----------------------------- MODULE Lifecycle -----------------------------
(***************************************************************************)
(* The memory of a workdir (lifecycle.py, memory_promotion.py,             *)
(* refiner_quarantine.py): a record is a file that moves from candidate to *)
(* quarantined, verified and active, or to deprecated.  The refiner batch  *)
(* at the end of a run moves it.  The write lease is that of one goal's    *)
(* run, the directories are those of the workdir: the batches of two goals *)
(* are processes without a common lock.  An action is what a batch does    *)
(* from one read to the next, or one operation on a file: a file opened    *)
(* for writing is empty until its text is written, and a move is the write *)
(* in the new directory and the deletion in the old one.                   *)
(*                                                                         *)
(* The confidence of a record is only compared with MIN_CONF_ACTIVE.       *)
(* write_candidate sets neither ttl_at nor sensitive, so that              *)
(* expire_ttl_records moves nothing and no record is skipped as sensitive. *)
(***************************************************************************)
EXTENDS Integers, Sequences, FiniteSets, SequencesExt

CONSTANTS
  Goals,            \* the goals of the workdir, each with its run
  NumRecords,       \* bound: records
  MaxBatches,       \* bound: batches
  MaxMemoryCrashes  \* bound: crashes

ASSUME LifecycleAssumption ==
  /\ NumRecords \in Nat
  /\ MaxBatches \in Nat
  /\ MaxMemoryCrashes \in Nat
  /\ IsFiniteSet(Goals)
  /\ "none" \notin Goals

VARIABLES
  files,      \* the file of a record in a directory
  origin,     \* provenance: goal and log length of the writing batch
  length,     \* length of the goal's log, as far as batches make it longer
  batches, memoryCrashes,
  step,       \* where the batch of a goal is
  list,       \* what is left of the directory listing of the step
  hand,       \* the file the batch has read, and means to act on
  op,         \* what the batch is doing to the files of a record
  \* history
  kept,       \* judgements "worth keeping", as goals
  rejected,   \* records deprecated as the refiner said
  torn        \* records the batches got in each other's way with: two moved
              \* it at once, one wrote a file another had just moved or
              \* promoted it from another directory than it had checked, or
              \* one died with a file operation on it not done

batchVars == <<step, list, hand, op>>
memoryVars == <<files, origin, length, batches, memoryCrashes, batchVars, kept,
                rejected, torn>>

\* In the order of memory_lifecycle_dirs.
Stages == <<"candidate", "quarantined", "verified", "active", "deprecated">>
Stage == ToSet(Stages)
Records == 1..NumRecords
Steps == {"idle", "quarantine", "review", "judge", "reject", "mark", "bump",
          "promote", "verify", "toVerified", "activate", "approve", "toActive",
          "flush", "flushed"}

Absent == [ver |-> -1, goals |-> {}, sure |-> FALSE]
\* No JSON: opened for writing, and empty.
Broken == [ver |-> -2, goals |-> {}, sure |-> FALSE]
Data == [ver : Int, goals : SUBSET Goals, sure : BOOLEAN]

NoHand == [dir |-> "candidate", data |-> Absent]
NoOp == [rec |-> 0, from |-> "candidate", to |-> "candidate", data |-> Absent,
         moves |-> FALSE, next |-> "none"]
NoOrigin == [goal |-> "none", length |-> -1]

MinVerifications == 2

\* Mutant of MinGoals: the goal that wrote the record is enough.
MinGoalsOne == 1

MinGoals == 2

At(r, s) == files[r][s] # Absent
Readable(r, s) == files[r][s] \notin {Absent, Broken}

\* glob of a directory: the records in it, in an order nothing depends on.
Glob(s) == SetToSeq({r \in Records : At(r, s)})

\* The directories that hold the record, and the first of some of them, as
\* the loops over the directories find it.
Held(r) == {s \in Stage : At(r, s)}
First(held) ==
  LET at == {i \in DOMAIN Stages : Stages[i] \in held}
  IN  Stages[CHOOSE i \in at : \A j \in at : i <= j]

\* distinct_goal_ids
DistinctGoals(r, data) == {origin[r].goal} \cup data.goals

\* The batch's origin_run_id is the goal and the length of its log.
OwnBatch(g, r) == origin[r] = [goal |-> g, length |-> length[g]]

-----------------------------------------------------------------------------
LifecycleInit ==
  /\ files = [r \in Records |-> [s \in Stage |-> Absent]]
  /\ origin = [r \in Records |-> NoOrigin]
  /\ length = [g \in Goals |-> 0]
  /\ batches = 0
  /\ memoryCrashes = 0
  /\ step = [g \in Goals |-> "idle"]
  /\ list = [g \in Goals |-> <<>>]
  /\ hand = [g \in Goals |-> NoHand]
  /\ op = [g \in Goals |-> NoOp]
  /\ kept = [r \in Records |-> <<>>]
  /\ rejected = {}
  /\ torn = {}

\* The batch goes on to the next step, which lists a directory first.
GoTo(g, next) ==
  /\ step' = [step EXCEPT ![g] = next]
  /\ list' = [list EXCEPT ![g] =
                CASE next = "quarantine" -> Glob("candidate")
                  [] next \in {"review", "promote"} -> Glob("quarantined")
                  [] next = "activate" -> Glob("verified")
                  [] OTHER -> <<>>]

\* run_end_refiner_batch: under the lease of the goal.
StartRefiner(g) ==
  /\ step[g] = "idle"
  /\ batches < MaxBatches
  /\ batches' = batches + 1
  /\ GoTo(g, "quarantine")
  /\ UNCHANGED <<files, origin, length, memoryCrashes, hand, op, kept, rejected, torn>>

\* A written record makes the log longer.
NextStep(g) ==
  /\ step[g] \in {"quarantine", "review", "promote", "activate", "flush", "flushed"}
  /\ list[g] = <<>>
  /\ op[g] = NoOp
  /\ GoTo(g, CASE step[g] = "quarantine" -> "review"
               [] step[g] = "review" -> "promote"
               [] step[g] = "promote" -> "activate"
               [] step[g] = "activate" -> "flush"
               [] OTHER -> "idle")
  /\ length' = IF step[g] = "flushed" THEN [length EXCEPT ![g] = @ + 1] ELSE length
  /\ UNCHANGED <<files, origin, batches, memoryCrashes, hand, op, kept, rejected, torn>>

\* The batch is at a record of its listing.
Turn(g, s) == step[g] = s /\ list[g] # <<>> /\ op[g] = NoOp

Advance(g, next) ==
  /\ list' = [list EXCEPT ![g] = Tail(@)]
  /\ step' = [step EXCEPT ![g] = next]

-----------------------------------------------------------------------------
(* Files *)

Moving(g, r) == op[g].rec = r /\ op[g].moves

\* write_text of a file that is, or was, there.
Rewrite(g, r, s, data) ==
  /\ op' = [op EXCEPT ![g] = [rec |-> r, from |-> s, to |-> s, data |-> data,
                              moves |-> FALSE, next |-> "open"]]
  /\ UNCHANGED torn

\* _move
Move(g, r, from, to, data) ==
  /\ op' = [op EXCEPT ![g] = [rec |-> r, from |-> from, to |-> to, data |-> data,
                              moves |-> TRUE, next |-> "open"]]
  /\ torn' = IF \E h \in Goals \ {g} : Moving(h, r) THEN torn \cup {r} ELSE torn

OpenFile(g) ==
  LET o == op[g] IN
  /\ o.next = "open"
  /\ files' = [files EXCEPT ![o.rec][o.to] = Broken]
  /\ op' = [op EXCEPT ![g].next = "write"]
  /\ torn' = IF ~o.moves /\ ~At(o.rec, o.to) THEN torn \cup {o.rec} ELSE torn
  /\ UNCHANGED <<origin, length, batches, memoryCrashes, step, list, hand, kept, rejected>>

\* Into nothing, when another batch has deleted the file.
WriteFile(g) ==
  LET o == op[g] IN
  /\ o.next = "write"
  /\ files' = [files EXCEPT ![o.rec][o.to] = IF @ = Absent THEN @ ELSE o.data]
  /\ op' = [op EXCEPT ![g] = IF o.moves THEN [o EXCEPT !.next = "delete"] ELSE NoOp]
  /\ UNCHANGED <<origin, length, batches, memoryCrashes, step, list, hand, kept,
                 rejected, torn>>

\* Mutant of DeleteMoved: the source stays.
MoveCopies(g) ==
  /\ op[g].next = "delete"
  /\ op' = [op EXCEPT ![g] = NoOp]
  /\ UNCHANGED <<files, origin, length, batches, memoryCrashes, step, list, hand,
                 kept, rejected, torn>>

DeleteMoved(g) ==
  /\ op[g].next = "delete"
  /\ files' = [files EXCEPT ![op[g].rec][op[g].from] = Absent]
  /\ op' = [op EXCEPT ![g] = NoOp]
  /\ UNCHANGED <<origin, length, batches, memoryCrashes, step, list, hand, kept,
                 rejected, torn>>

\* A file that is gone or no JSON is an error, which ends the batch.
Fail(g) ==
  /\ GoTo(g, "idle")
  /\ hand' = [hand EXCEPT ![g] = NoHand]
  /\ UNCHANGED <<op, kept, rejected, torn>>

-----------------------------------------------------------------------------
(* A batch *)

\* quarantine_candidates
Quarantine(g) ==
  /\ Turn(g, "quarantine")
  /\ LET r == Head(list[g]) IN
     IF Readable(r, "candidate")
     THEN /\ Move(g, r, "candidate", "quarantined", files[r]["candidate"])
          /\ Advance(g, "quarantine")
          /\ UNCHANGED <<hand, kept, rejected>>
     ELSE Fail(g)
  /\ UNCHANGED <<files, origin, length, batches, memoryCrashes>>

\* llm_review_quarantined: a record of this very batch is skipped, another
\* one is read, and the refiner is asked about it.
Review(g) ==
  /\ Turn(g, "review")
  /\ LET r == Head(list[g]) IN
     IF Readable(r, "quarantined") /\ ~OwnBatch(g, r)
     THEN /\ hand' = [hand EXCEPT ![g] = [dir |-> "quarantined",
                                          data |-> files[r]["quarantined"]]]
          /\ step' = [step EXCEPT ![g] = "judge"]
          /\ UNCHANGED list
     ELSE Advance(g, "review") /\ UNCHANGED hand
  /\ UNCHANGED <<files, origin, length, batches, memoryCrashes, op, kept, rejected, torn>>

\* The refiner's answer.  With a higher confidence what was read before it was
\* asked is written again.
Judge(g) ==
  /\ Turn(g, "judge")
  /\ LET r == Head(list[g]) IN
     /\ \/ UNCHANGED <<op, torn>>
        \/ \E sure \in {hand[g].data.sure, TRUE} :
             Rewrite(g, r, "quarantined", [hand[g].data EXCEPT !.sure = sure])
     /\ \/ step' = [step EXCEPT ![g] = "reject"] /\ UNCHANGED kept
        \/ /\ step' = [step EXCEPT ![g] = "mark"]
           /\ kept' = [kept EXCEPT ![r] = Append(@, g)]
  /\ hand' = [hand EXCEPT ![g] = NoHand]
  /\ UNCHANGED <<files, origin, length, batches, memoryCrashes, list, rejected>>

\* deprecate_record, from the first directory that holds it.
Reject(g) ==
  /\ Turn(g, "reject")
  /\ LET r == Head(list[g])
         held == Held(r) \ {"deprecated"} IN
     IF held # {} /\ ~Readable(r, First(held))
     THEN Fail(g)
     ELSE /\ IF held = {} THEN UNCHANGED <<op, torn>>
             ELSE Move(g, r, First(held), "deprecated", files[r][First(held)])
          /\ rejected' = rejected \cup {r}
          /\ Advance(g, "review")
          /\ UNCHANGED <<hand, kept>>
  /\ UNCHANGED <<files, origin, length, batches, memoryCrashes>>

\* _mark_reviewed: the goal, in the quarantined file.
Mark(g) ==
  /\ Turn(g, "mark")
  /\ LET r == Head(list[g])
         data == files[r]["quarantined"] IN
     IF Readable(r, "quarantined")
     THEN Rewrite(g, r, "quarantined", [data EXCEPT !.goals = @ \cup {g}])
     ELSE UNCHANGED <<op, torn>>
  /\ step' = [step EXCEPT ![g] = "bump"]
  /\ UNCHANGED <<files, origin, length, batches, memoryCrashes, list, hand, kept, rejected>>

\* bump_verification: in the first file found.
Bump(g) ==
  /\ Turn(g, "bump")
  /\ LET r == Head(list[g])
         found == First(Held(r)) IN
     IF Held(r) # {} /\ ~Readable(r, found)
     THEN Fail(g)
     ELSE /\ IF Held(r) = {} THEN UNCHANGED <<op, torn>>
             ELSE Rewrite(g, r, found, [files[r][found] EXCEPT !.ver = @ + 1])
          /\ Advance(g, "review")
          /\ UNCHANGED <<hand, kept, rejected>>
  /\ UNCHANGED <<files, origin, length, batches, memoryCrashes>>

\* promote_verified_eligible: by the run of the record's own goal.
CheckVerified(g) ==
  /\ Turn(g, "promote")
  /\ LET r == Head(list[g])
         data == files[r]["quarantined"] IN
     IF Readable(r, "quarantined") /\ origin[r].goal = g /\ data.ver >= MinVerifications
     THEN step' = [step EXCEPT ![g] = "verify"] /\ UNCHANGED list
     ELSE Advance(g, "promote")
  /\ UNCHANGED <<files, origin, length, batches, memoryCrashes, hand, op, kept,
                 rejected, torn>>

\* promote_active_eligible
CheckActive(g) ==
  /\ Turn(g, "activate")
  /\ LET r == Head(list[g])
         data == files[r]["verified"] IN
     IF /\ Readable(r, "verified") /\ origin[r].goal = g
        /\ data.sure
        /\ data.ver >= MinVerifications
        /\ Cardinality(DistinctGoals(r, data)) >= MinGoals
        /\ ~OwnBatch(g, r)
     THEN step' = [step EXCEPT ![g] = "approve"] /\ UNCHANGED list
     ELSE Advance(g, "activate")
  /\ UNCHANGED <<files, origin, length, batches, memoryCrashes, hand, op, kept,
                 rejected, torn>>

\* promote looks for the record again, in all directories.  An error while
\* it is promoted to active is a ValueError, which skips the record.
Find(g) ==
  /\ Turn(g, "verify") \/ Turn(g, "approve")
  /\ LET r == Head(list[g])
         found == First(Held(r))
         data == files[r][found]
         active == step[g] = "approve"
         checked == IF active THEN "verified" ELSE "quarantined" IN
     CASE Held(r) = {} \/ (active /\ data.ver < MinVerifications) ->
            /\ Advance(g, IF active THEN "activate" ELSE "promote")
            /\ UNCHANGED <<hand, op, kept, rejected, torn>>
       [] Held(r) # {} /\ ~active /\ data = Broken -> Fail(g)
       [] OTHER ->
            /\ hand' = [hand EXCEPT ![g] = [dir |-> found, data |-> data]]
            /\ step' = [step EXCEPT ![g] = IF active THEN "toActive" ELSE "toVerified"]
            /\ torn' = IF found # checked THEN torn \cup {r} ELSE torn
            /\ op' = IF active
                     THEN [op EXCEPT ![g] = [rec |-> r, from |-> found, to |-> found,
                                             data |-> data, moves |-> FALSE,
                                             next |-> "open"]]
                     ELSE op
            /\ UNCHANGED <<list, kept, rejected>>
  /\ UNCHANGED <<files, origin, length, batches, memoryCrashes>>

\* Its _move reads the file once more.
Promote(g, at, to, next) ==
  /\ Turn(g, at)
  /\ LET r == Head(list[g])
         from == hand[g].dir IN
     CASE Readable(r, from) ->
            /\ Move(g, r, from, to, [files[r][from] EXCEPT !.ver = hand[g].data.ver])
            /\ Advance(g, next)
            /\ hand' = [hand EXCEPT ![g] = NoHand]
            /\ UNCHANGED <<kept, rejected>>
       [] ~Readable(r, from) /\ to = "active" /\ At(r, from) ->
            /\ Advance(g, next)
            /\ hand' = [hand EXCEPT ![g] = NoHand]
            /\ UNCHANGED <<op, kept, rejected, torn>>
       [] OTHER -> Fail(g)
  /\ UNCHANGED <<files, origin, length, batches, memoryCrashes>>

PromoteVerified(g) == Promote(g, "toVerified", "verified", "promote")
PromoteActive(g) == Promote(g, "toActive", "active", "activate")

\* flush_refined_to_candidates, of at most one lesson; the name of the file is
\* a new one.
FlushCandidate(g) ==
  /\ step[g] = "flush"
  /\ op[g] = NoOp
  /\ \E r \in Records, sure \in BOOLEAN :
       /\ origin[r] = NoOrigin
       /\ \A q \in 1..(r - 1) : origin[q] # NoOrigin
       /\ origin' = [origin EXCEPT ![r] = [goal |-> g, length |-> length[g]]]
       /\ files' = [files EXCEPT ![r]["candidate"] = Broken]
       /\ op' = [op EXCEPT ![g] = [rec |-> r, from |-> "candidate", to |-> "candidate",
                                   data |-> [ver |-> 0, goals |-> {}, sure |-> sure],
                                   moves |-> FALSE, next |-> "write"]]
  /\ step' = [step EXCEPT ![g] = "flushed"]
  /\ UNCHANGED <<length, batches, memoryCrashes, list, hand, kept, rejected, torn>>

CrashRefiner(g) ==
  /\ step[g] # "idle"
  /\ memoryCrashes < MaxMemoryCrashes
  /\ memoryCrashes' = memoryCrashes + 1
  /\ torn' = IF op[g] = NoOp THEN torn ELSE torn \cup {op[g].rec}
  /\ op' = [op EXCEPT ![g] = NoOp]
  /\ hand' = [hand EXCEPT ![g] = NoHand]
  /\ GoTo(g, "idle")
  /\ UNCHANGED <<files, origin, length, batches, kept, rejected>>

LifecycleNext ==
  \E g \in Goals :
    \/ StartRefiner(g) \/ NextStep(g) \/ OpenFile(g) \/ WriteFile(g) \/ DeleteMoved(g)
    \/ Quarantine(g) \/ Review(g) \/ Judge(g) \/ Reject(g) \/ Mark(g) \/ Bump(g)
    \/ CheckVerified(g) \/ CheckActive(g) \/ Find(g) \/ PromoteVerified(g)
    \/ PromoteActive(g) \/ FlushCandidate(g) \/ CrashRefiner(g)

LifecycleSpec == LifecycleInit /\ [][LifecycleNext]_memoryVars

-----------------------------------------------------------------------------
LifecycleTypeOK ==
  /\ DOMAIN files = Records
  /\ \A r \in Records, s \in Stage : files[r][s] \in Data
  /\ \A g \in Goals :
       /\ step[g] \in Steps
       /\ hand[g].dir \in Stage /\ hand[g].data \in Data
       /\ op[g].rec \in Records \cup {0} /\ op[g].data \in Data
  /\ rejected \subseteq Records
  /\ torn \subseteq Records

\* What is active was judged worth keeping at least twice, and at least once
\* by the run of another goal, whatever batches interleave, lose updates of
\* each other, bring back what another one moved, or die with a file open or
\* between the two halves of a move.
ActiveEarned ==
  \A r \in Records :
    At(r, "active") =>
      Len(kept[r]) >= MinVerifications /\ \E g \in ToSet(kept[r]) : g # origin[r].goal

\* A record the refiner rejected is in deprecated only, once what is being
\* done to it is done, and does not come back: listings and reads of other
\* batches that are out of date do not bring it back.  The batches have no
\* common lock, so that there is an exception (torn): two of them moved it at
\* once, one wrote its file or promoted it after another had moved it, or one
\* died with a file operation not done.
RejectedOut ==
  \A r \in rejected \ torn, s \in Stage \ {"deprecated"} :
    (\A g \in Goals : op[g].rec # r) => ~At(r, s)
=============================================================================
