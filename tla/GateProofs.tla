----------------------------- MODULE GateProofs -----------------------------
(***************************************************************************)
(* Proofs about the Gate for any obligations, inputs and repair counts.    *)
(***************************************************************************)
EXTENDS GateRepairs, WellFoundedInduction, TLAPS

\* A repair, or the abort in its place, admits nothing.
LEMMA RepairAdmitsNot ==
  ASSUME NEW g, NEW c, NEW r, NEW o, NEW sat, NEW open
  PROVE  Repair(g, c, r, o, sat, open).decision # "admit"
  BY DEF Repair, Decision

\* Once every verdict is sorted, what is left to find is a missing cover or a
\* pending obligation.
LEMMA PendingDecision ==
  ASSUME NEW g, NEW c
  PROVE  LET d == DecidePending(g, c) IN
         /\ d.decision = "admit" <=>
              (g.closure => g.covered) /\ Pending(g) = {}
         /\ d.decision = "admit" => d.satisfied = Satisfied(g) /\ d.open = {}
<1> DEFINE Blocked == g.closure /\ ~g.covered
<1>1. CASE Blocked
  BY <1>1, RepairAdmitsNot DEF DecidePending
<1>2. CASE ~Blocked /\ Pending(g) = {}
  BY <1>2 DEF DecidePending, Decision
<1>3. CASE ~Blocked /\ Pending(g) # {}
  BY <1>3, RepairAdmitsNot DEF DecidePending, Decision
<1> QED
  BY <1>1, <1>2, <1>3

\* decide() admits exactly when no check finds anything.
LEMMA DecideAdmits ==
  ASSUME NEW g, NEW c, NEW a, \A o \in g.refs : g.verdict[o] \in Verdicts
  PROVE  LET d == Decide(g, c, a) IN
         /\ d.decision = "admit" <=> Flawless(g)
         /\ d.decision = "admit" => d.satisfied = g.refs /\ d.open = {}
<1> DEFINE d == Decide(g, c, a)
           Clear == /\ ~g.ceiling /\ ~g.noAlts /\ ~g.integrity /\ ~g.boundary
                    /\ Unattested(g) = {} /\ g.amend \cap g.refs = {}
<1>1. CASE ~Clear
  <2>1. ~Flawless(g)
    BY <1>1 DEF Flawless, Unattested
  <2>2. d.decision # "admit"
    BY <1>1, RepairAdmitsNot DEF Decide, UnattestedRepair
  <2> QED
    BY <2>1, <2>2
<1>2. CASE Clear
  <2>1. d = DecidePending(g, c)
    BY <1>2 DEF Decide
  <2>2. Pending(g) = {} <=> Satisfied(g) = g.refs
    BY <1>2 DEF Pending, Satisfied, Unattested, Verdicts
  <2>3. Flawless(g) <=> (g.closure => g.covered) /\ Pending(g) = {}
    BY <1>2, <2>2 DEF Flawless, Satisfied
  <2> QED
    BY <2>1, <2>2, <2>3, PendingDecision
<1> QED
  BY <1>1, <1>2

\* The input of a round is one of the instance's, whatever was decided.
AdmitInv == input \in Inputs /\ AdmitsExactlyFlawless

\* Whatever the contracts, the evidence and the repairs so far, a node is
\* admitted in exactly the rounds in which nothing is wrong, with all its
\* obligations satisfied.
THEOREM GateAdmitsFlawless == Spec => []AdmitsExactlyFlawless
<1>1. Init => AdmitInv
  BY DEF Init, AdmitInv, AdmitsExactlyFlawless
<1>2. AdmitInv /\ [Next]_vars => AdmitInv'
  <2> SUFFICES ASSUME AdmitInv, [Next]_vars PROVE AdmitInv'
    OBVIOUS
  <2>1. CASE GateDecide
    <3>1. PICK a \in AmendedPicks(input) : last' = Decide(input, counts, a)
      BY <2>1 DEF GateDecide
    <3>2. input' = input /\ input \in Inputs
      BY <2>1 DEF GateDecide, AdmitInv
    <3>3. /\ last'.decision = "admit" <=> Flawless(input)
          /\ last'.decision = "admit" =>
               last'.satisfied = input.refs /\ last'.open = {}
      BY <3>1, <3>2, DecideAdmits, RepairsAssumption
    <3> QED
      BY <3>2, <3>3 DEF AdmitInv, AdmitsExactlyFlawless, Flawless
  <2>2. CASE NextRound
    BY <2>2 DEF NextRound, AdmitInv, AdmitsExactlyFlawless
  <2>3. CASE UNCHANGED vars
    BY <2>3 DEF vars, AdmitInv, AdmitsExactlyFlawless, Flawless
  <2> QED
    BY <2>1, <2>2, <2>3 DEF Next
<1> QED
  BY <1>1, <1>2, PTL DEF Spec, AdmitInv

-----------------------------------------------------------------------------
LEMMA LeastIn ==
  ASSUME NEW S \in SUBSET Nat, S # {}
  PROVE  Least(S) \in S
<1> DEFINE R == {ss \in Nat \X Nat : ss[1] < ss[2]}
<1>1. IsWellFoundedOn(R, Nat)
  BY NatLessThanWellFounded DEF OpToRel
<1>2. PICK x \in S : \A y \in S : ~ (<<y, x>> \in R)
  BY <1>1, WFMin
<1>3. ASSUME NEW y \in S PROVE x <= y
  <2>1. x \in Nat /\ y \in Nat
    OBVIOUS
  <2>2. ~(y < x)
    BY <1>2, <2>1
  <2>3. QED
    BY <2>1, <2>2
<1>4. \E x1 \in S : \A y \in S : x1 <= y
  BY <1>2, <1>3
<1>5. QED
  BY <1>4 DEF Least

Causes == Obl \cup {All}

\* An abort in the place of a repair: the cause was repaired often enough.
Exhausted(c, d) ==
  d.decision = "abort" =>
    /\ d.reason \in RepairReasons
    /\ \E o \in Causes : c[CheckedKey(d.reason, o)] >= RepairsCap

LEMMA RepairExhausts ==
  ASSUME NEW g, NEW c, NEW r \in RepairReasons, NEW o \in Causes, NEW sat, NEW open
  PROVE  /\ Exhausted(c, Repair(g, c, r, o, sat, open))
         /\ Repair(g, c, r, o, sat, open).decision \in {"repair", "abort"}
<1>1. CASE c[CheckedKey(r, o)] >= RepairsCap
  BY <1>1 DEF Repair, Decision, Exhausted
<1>2. CASE ~(c[CheckedKey(r, o)] >= RepairsCap)
  BY <1>2 DEF Repair, Decision, Exhausted
<1>3. QED
  BY <1>1, <1>2

\* decide() aborts only for what ran out.
LEMMA DecideExhausts ==
  ASSUME NEW g \in Inputs, NEW c, NEW a \in AmendedPicks(g)
  PROVE  LET d == Decide(g, c, a) IN
         /\ d.decision \in {"admit", "repair", "abort"}
         /\ Exhausted(c, d) \/ (d.reason = "cognitive_budget" /\ g.spent)
<1> DEFINE d == Decide(g, c, a)
           Good(x) == /\ x.decision \in {"admit", "repair", "abort"}
                      /\ Exhausted(c, x) \/ (x.reason = "cognitive_budget" /\ g.spent)
<1>1. g.refs \in SUBSET Nat /\ g.refs \subseteq Causes /\ g.refs # {}
  BY RepairsAssumption, GateAssumption DEF Causes
<1>2. \A S \in SUBSET g.refs : S # {} => Least(S) \in Causes
  BY <1>1, LeastIn
<1>3. \A S \in SUBSET g.refs, o \in Causes : LeastOr(S, o) \in Causes
  BY <1>2 DEF LeastOr
<1>4. /\ Pending(g) \in SUBSET g.refs /\ Unattested(g) \in SUBSET g.refs
      /\ All \in Causes /\ Least(g.refs) \in Causes
  BY <1>1, <1>2 DEF Pending, Unattested, Causes
<1>5. a \in Causes
  BY <1>1 DEF AmendedPicks, Causes
<1>6. \A r \in RepairReasons, o \in Causes : \A sat, open :
        Good(Repair(g, c, r, o, sat, open))
  BY RepairExhausts
<1>7. Good(DecidePending(g, c))
  <2> HIDE DEF Good
  <2>1. CASE g.closure /\ ~g.covered
    BY <1>4, <1>6, <2>1 DEF DecidePending, RepairReasons
  <2>2. CASE ~(g.closure /\ ~g.covered) /\ Pending(g) = {}
    BY <2>2 DEF DecidePending, Decision, Good, Exhausted
  <2>3. CASE ~(g.closure /\ ~g.covered) /\ Pending(g) # {} /\ g.spent
    BY <2>3 DEF DecidePending, Decision, Good
  <2>4. CASE ~(g.closure /\ ~g.covered) /\ Pending(g) # {} /\ ~g.spent
    <3>1. Least(Pending(g)) \in Causes
      BY <1>2, <1>4, <2>4
    <3>2. QED
      BY <1>4, <1>6, <2>4, <3>1 DEF DecidePending, RepairReasons
  <2>5. QED
    BY <2>1, <2>2, <2>3, <2>4
<1>8. Good(d)
  <2>1. Unattested(g) # {} => Good(UnattestedRepair(g, c))
    <3> HIDE DEF Good
    <3>1. QED
      BY <1>2, <1>4, <1>6 DEF UnattestedRepair, RepairReasons
  <2>2. LeastOr(Pending(g), Least(g.refs)) \in Causes
    BY <1>3, <1>4
  <2> HIDE DEF Good
  <2>3. QED
    BY <1>4, <1>5, <1>6, <1>7, <2>1, <2>2 DEF Decide, RepairReasons
<1>9. QED
  BY <1>8

\* A run that aborted names what ran out.
AbortInv == TypeOK /\ AbortsWhenExhausted

LEMMA DecideStep ==
  ASSUME AbortInv, GateDecide
  PROVE  AbortInv'
<1>1. PICK a \in AmendedPicks(input) : last' = Decide(input, counts, a)
  BY DEF GateDecide
<1>2. input \in Inputs /\ counts \in [Keys -> Nat] /\ UNCHANGED <<input, round>>
  BY DEF GateDecide, AbortInv, TypeOK
<1>3. /\ last'.decision \in {"admit", "repair", "abort"}
      /\ Exhausted(counts, last') \/ (last'.reason = "cognitive_budget" /\ input.spent)
  BY <1>1, <1>2, DecideExhausts
<1>4. counts' = Recorded(counts, last')
  BY DEF GateDecide
<1>5. counts' \in [Keys -> Nat] /\ \A k \in Keys : counts'[k] >= counts[k]
  <2> DEFINE key == RecordedKey(last')
  <2>1. counts' = counts \/ counts' = [counts EXCEPT ![key] = counts[key] + 1]
    BY <1>4 DEF Recorded
  <2> HIDE DEF key
  <2>2. QED
    BY <1>2, <2>1
<1>6. TypeOK'
  <2>1. node' \in {"in_progress", "ready", "admitted", "failed"}
    BY DEF GateDecide, StatusAfter
  <2>2. run' \in {"running", "aborted"}
    BY DEF GateDecide
  <2>3. QED
    BY <1>2, <1>3, <1>5, <2>1, <2>2 DEF AbortInv, TypeOK
<1>7. AbortsWhenExhausted'
  <2> SUFFICES ASSUME run' = "aborted", ~(last'.reason = "cognitive_budget" /\ input.spent)
               PROVE  \E o \in Obl \cup {All} :
                        counts'[CheckedKey(last'.reason, o)] >= RepairsCap
    BY <1>2 DEF AbortsWhenExhausted
  <2>1. last'.decision = "abort"
    BY DEF GateDecide
  <2>2. PICK o \in Causes : counts[CheckedKey(last'.reason, o)] >= RepairsCap
    BY <1>3, <2>1 DEF Exhausted
  <2>3. CheckedKey(last'.reason, o) \in Keys
    BY <1>3, <2>1 DEF Exhausted, CheckedKey, Keys, Causes, Reasons
  <2>4. RepairsCap \in Nat
    BY GateAssumption DEF RepairsCap
  <2>5. counts'[CheckedKey(last'.reason, o)] >= RepairsCap
    BY <1>2, <1>5, <2>2, <2>3, <2>4
  <2>6. QED
    BY <2>5 DEF Causes
<1>8. QED
  BY <1>6, <1>7 DEF AbortInv

LEMMA AbortInvHolds == Spec => []AbortInv
<1>1. Init => AbortInv
  BY RepairsAssumption DEF Init, AbortInv, TypeOK, AbortsWhenExhausted, NoRepairs,
     NoDecision, Decision
<1>2. AbortInv /\ [Next]_vars => AbortInv'
  <2> SUFFICES ASSUME AbortInv, [Next]_vars PROVE AbortInv'
    OBVIOUS
  <2>1. CASE GateDecide
    BY <2>1, DecideStep
  <2>2. CASE NextRound
    BY <2>2 DEF NextRound, AbortInv, TypeOK, AbortsWhenExhausted
  <2>3. CASE UNCHANGED vars
    BY <2>3 DEF vars, AbortInv, TypeOK, AbortsWhenExhausted
  <2> QED
    BY <2>1, <2>2, <2>3 DEF Next
<1> QED
  BY <1>1, <1>2, PTL DEF Spec

\* The counts are counts, and the node and the run have a status.
THEOREM GateTyping == Spec => []TypeOK
<1>1. AbortInv => TypeOK
  BY DEF AbortInv
<1>2. QED
  BY <1>1, AbortInvHolds, PTL

\* Whatever the repairs before, the Gate aborts a run only when its token
\* budget or the repairs of the cause that it names ran out (ABORT_REASONS).
THEOREM GateAbortsExhausted == Spec => []AbortsWhenExhausted
<1>1. AbortInv => AbortsWhenExhausted
  BY DEF AbortInv
<1>2. QED
  BY <1>1, AbortInvHolds, PTL
=============================================================================
