---------------------------- MODULE GateRepairs ----------------------------
(***************************************************************************)
(* One node that goes through the Gate again and again: each round the     *)
(* Gate decides on some claim and evidence, the reducer counts the         *)
(* decision, and a repair puts the node back for another round             *)
(* (CommandHandler.gate_decide and the reducer's GateDecided branch).      *)
(***************************************************************************)
EXTENDS Gate

CONSTANTS
  Inputs,     \* the gate inputs of the instance
  MaxRounds   \* bound: how often a round brings new claims or evidence

ASSUME RepairsAssumption ==
  /\ \A g \in Inputs :
       /\ g.refs \subseteq Obl /\ g.refs # {}
       /\ \A o \in g.refs : g.verdict[o] \in Verdicts
  /\ MaxRounds \in Nat

VARIABLES
  counts,  \* repair_counts
  node,    \* status of the node
  run,     \* run_status
  input,   \* what the last round decided on
  last,    \* the last GateDecided payload
  round    \* how often the input changed so far

vars == <<counts, node, run, input, last, round>>

NoDecision == Decision("none", "none", {}, {}, All, FALSE)

Init ==
  /\ counts = NoRepairs
  /\ node = "in_progress"
  /\ run = "running"
  /\ input \in Inputs
  /\ last = NoDecision
  /\ round = 0

\* Mutant of StatusAfter: the node takes the run's status.
StatusAfterAborted(d) ==
  CASE d.decision = "admit" -> "admitted"
    [] d.decision = "repair" -> "ready"
    [] OTHER -> "aborted"

\* The reducer's GateDecided branch for the node's status.
StatusAfter(d) ==
  CASE d.decision = "admit" -> "admitted"
    [] d.decision = "repair" -> "ready"
    [] OTHER -> "failed"

\* gate_decide: GateDecided, and RunAborted after an abort.
GateDecide ==
  /\ node = "in_progress"
  /\ run = "running"
  /\ \E amended \in AmendedPicks(input) :
       last' = Decide(input, counts, amended)
  /\ counts' = Recorded(counts, last')
  /\ node' = StatusAfter(last')
  /\ run' = IF last'.decision = "abort" THEN "aborted" ELSE run
  /\ UNCHANGED <<input, round>>

\* The next round of a repaired node: a new contract, with the claim and
\* evidence of the round before or with others.
NextRound ==
  /\ node = "ready"
  /\ run = "running"
  /\ node' = "in_progress"
  /\ \/ UNCHANGED <<input, round>>
     \/ /\ round < MaxRounds
        /\ round' = round + 1
        /\ input' \in Inputs
  /\ UNCHANGED <<counts, run, last>>

Next == GateDecide \/ NextRound

\* The app keeps ticking while the Gate asks for repairs.
Spec == Init /\ [][Next]_vars /\ WF_vars(Next)

-----------------------------------------------------------------------------
TypeOK ==
  /\ counts \in [Keys -> Nat]
  /\ node \in {"in_progress", "ready", "admitted", "failed"}
  /\ run \in {"running", "aborted"}
  /\ input \in Inputs
  /\ last.decision \in {"none", "admit", "repair", "abort"}
  /\ round \in Nat

\* The Gate admits exactly the rounds in which nothing is wrong, written
\* without the order of its checks, and then reports every obligation
\* satisfied (gate.decide).
Flawless(g) ==
  /\ ~g.ceiling /\ ~g.noAlts /\ ~g.integrity /\ ~g.boundary
  /\ \A o \in g.refs : g.verdict[o] = "satisfied" /\ o \notin g.amend
  /\ g.closure => g.covered

AdmitsExactlyFlawless ==
  node # "in_progress" =>
    /\ last.decision = "admit" <=> Flawless(input)
    /\ last.decision = "admit" =>
         last.satisfied = input.refs /\ last.open = {}

\* An abort means that a resource ran out: the token budget, or the repairs
\* of the cause that it names (ABORT_REASONS, gate.decide).
AbortsWhenExhausted ==
  run = "aborted" =>
    \/ last.reason = "cognitive_budget" /\ input.spent
    \/ \E o \in Obl \cup {All} :
         counts[CheckedKey(last.reason, o)] >= RepairsCap

\* No cause is repaired more often than repairs_max ("authoritative abort
\* compares each (obligation_id, reason) entry against repairs_max",
\* quota.schema.json).
RepairsWithinCap ==
  \A k \in Keys : k[2] = "repair" => counts[k] <= RepairsCap

\* A node whose evidence no longer changes does not go round for ever: the
\* run aborts or the node is admitted (gate.decide's exhaustion check
\* against the counts the reducer keeps).
StubbornEnds == <>(run = "aborted" \/ node = "admitted")
=============================================================================
