-------------------------------- MODULE Gate --------------------------------
(***************************************************************************)
(* The mechanical Gate: domain/kernel/gate.py (decide) and the key under   *)
(* which the reducer counts its repairs (repair_counts.py).                *)
(*                                                                         *)
(* Obligations are numbered in the order in which a contract lists them,   *)
(* so "the first" of a list of ids is the least of a set.  The gate input  *)
(* is a record:                                                            *)
(*   refs        contract.obligation_refs                                  *)
(*   verdict     obligation -> what the evidence bundle says of it         *)
(*   ceiling     an action is above the contract's side-effect ceiling     *)
(*   noAlts      the claim lists no alternative                            *)
(*   integrity   evidence.integrity_violation                              *)
(*   boundary    a "boundary:" entry in evidence.additional_gaps           *)
(*   amend       the pending amendments                                    *)
(*   spent       cognitive_tokens >= cognitive_tokens_max                  *)
(*   closure     is_closure_gate                                           *)
(*   covered     closure_complete                                          *)
(***************************************************************************)
EXTENDS Integers, FiniteSets

CONSTANTS
  Obl,         \* obligation ids
  RepairsMax   \* quota.repairs_max

ASSUME GateAssumption ==
  /\ Obl \subseteq Nat \ {0}
  /\ RepairsMax \in Nat

\* "__all__": a repair that names no obligation.
All == 0

\* "unattested": satisfied, without an attestation that is valid for the
\* obligation's type and the evidence's world revision.  "boundary":
\* unsatisfied, with a gap that starts with "boundary:".
Verdicts == {"none", "unsatisfied", "boundary", "unattested", "satisfied"}

RepairReasons ==
  {"capability_ceiling_exceeded", "missing_alternatives",
   "integrity_violation", "no_attestation", "boundary_unmet",
   "amendment_pending", "closure_incomplete"}

Reasons ==
  RepairReasons \cup {"cognitive_budget", "obligations_satisfied",
                      "closure_admitted"}

\* repair_counts keys.  <<o, "repair", r>> is "o:r" and <<o, "abort", r>> is
\* "o:r_exhausted".
Keys == (Obl \cup {All}) \X {"repair", "abort"} \X Reasons

NoRepairs == [k \in Keys |-> 0]

Least(S) == CHOOSE x \in S : \A y \in S : x <= y

LeastOr(S, default) == IF S = {} THEN default ELSE Least(S)

\* int(repairs_max or REPAIRS_MAX): a cap of 0 reads as the default 8.
RepairsCap == IF RepairsMax = 0 THEN 8 ELSE RepairsMax

Pending(g) ==
  {o \in g.refs : g.verdict[o] \in {"none", "unsatisfied", "boundary"}}

\* Mutant of Unattested: the closure gate trusts a satisfied verdict.
UnattestedAtNode(g) ==
  {o \in g.refs : ~g.closure /\ g.verdict[o] = "unattested"}

Unattested(g) == {o \in g.refs : g.verdict[o] = "unattested"}

Satisfied(g) == {o \in g.refs : g.verdict[o] = "satisfied"}

\* GateDecision; "first" is open_obligation_ids[0], All when the list is
\* empty.
Decision(d, r, sat, open, first, closure) ==
  [decision |-> d, reason |-> r, satisfied |-> sat, open |-> open,
   first |-> first, closure |-> closure]

\* The key _repair looks a cause up under (repair_count_key).
CheckedKey(r, o) == <<o, "repair", r>>

\* Mutant of Repair: the last repair of a cause is refused.
RepairTooSoon(g, counts, r, o, sat, open) ==
  IF counts[CheckedKey(r, o)] + 1 >= RepairsCap
  THEN Decision("abort", r, sat, open, LeastOr(open, All), g.closure)
  ELSE Decision("repair", r, sat, open \cup ({o} \ {All}),
                LeastOr(open, o), g.closure)

\* decide()'s _repair: repair for reason r on obligation o, or abort when
\* the count of that cause has reached the cap.
Repair(g, counts, r, o, sat, open) ==
  IF counts[CheckedKey(r, o)] >= RepairsCap
  THEN Decision("abort", r, sat, open, LeastOr(open, All), g.closure)
  ELSE Decision("repair", r, sat, open \cup ({o} \ {All}),
                LeastOr(open, o), g.closure)

\* The loop over obligation_refs stops at the first satisfied verdict
\* without a valid attestation; earlier ones have been sorted by then.
UnattestedRepair(g, counts) ==
  LET o == Least(Unattested(g))
      before == {p \in g.refs : p < o}
  IN  Repair(g, counts, "no_attestation", o,
             Satisfied(g) \cap before, Pending(g) \cap before)

\* decide() once every verdict has been sorted.
DecidePending(g, counts) ==
  LET first == Least(Pending(g))
      FromVerdict ==
        IF g.verdict[first] = "boundary" THEN "boundary_unmet"
        ELSE "no_attestation"
      Again(r, o) == Repair(g, counts, r, o, Satisfied(g), Pending(g))
  IN  IF g.closure /\ ~g.covered THEN Again("closure_incomplete", All)
      ELSE IF Pending(g) = {}
      THEN Decision("admit",
                    IF g.closure THEN "closure_admitted"
                    ELSE "obligations_satisfied",
                    Satisfied(g), {}, All, g.closure)
      ELSE IF g.spent
      THEN Decision("abort", "cognitive_budget", Satisfied(g), Pending(g),
                    first, g.closure)
      ELSE IF g.closure THEN Again("closure_incomplete", All)
      ELSE Again(FromVerdict, first)

\* gate.decide: the checks, in the code's order.  The obligation of an
\* amendment repair is the next of an unordered set: a parameter.
Decide(g, counts, amended) ==
  IF g.ceiling
  THEN Repair(g, counts, "capability_ceiling_exceeded", All, {}, {})
  ELSE IF g.noAlts
  THEN Repair(g, counts, "missing_alternatives", All, {}, {})
  ELSE IF g.integrity
  THEN Repair(g, counts, "integrity_violation", Least(g.refs), {}, g.refs)
  ELSE IF Unattested(g) # {}
  THEN UnattestedRepair(g, counts)
  ELSE IF g.boundary
  THEN Repair(g, counts, "boundary_unmet",
              LeastOr(Pending(g), Least(g.refs)), Satisfied(g), Pending(g))
  ELSE IF g.amend \cap g.refs # {}
  THEN Repair(g, counts, "amendment_pending", amended, Satisfied(g),
              Pending(g))
  ELSE DecidePending(g, counts)

\* The obligations decide() may pick for an amendment repair.
AmendedPicks(g) ==
  IF g.amend \cap g.refs = {} THEN {All} ELSE g.amend \cap g.refs

\* repair_key_from_gate_payload: closure repairs share one key, the others
\* go under the first open obligation.
RecordedKey(d) ==
  IF d.decision = "repair" /\ d.reason = "closure_incomplete"
  THEN <<All, "repair", "closure_incomplete">>
  ELSE <<d.first, d.decision, d.reason>>

\* Mutant of Recorded: only aborts are counted.
RecordedAborts(counts, d) ==
  IF d.decision # "abort" THEN counts
  ELSE [counts EXCEPT ![RecordedKey(d)] = @ + 1]

\* The reducer's GateDecided branch: repairs and aborts are counted.
Recorded(counts, d) ==
  IF d.decision = "admit" THEN counts
  ELSE [counts EXCEPT ![RecordedKey(d)] = @ + 1]
=============================================================================
