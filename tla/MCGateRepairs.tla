--------------------------- MODULE MCGateRepairs ---------------------------
(***************************************************************************)
(* Gate inputs for the model-checking runs of GateRepairs.                 *)
(***************************************************************************)
EXTENDS GateRepairs

GateInputs ==
  [refs : {{1, 2}}, verdict : [{1, 2} -> Verdicts],
   ceiling : BOOLEAN, noAlts : BOOLEAN, integrity : BOOLEAN,
   boundary : BOOLEAN, amend : SUBSET {1, 2}, spent : BOOLEAN,
   closure : BOOLEAN, covered : BOOLEAN]

\* At most one of the causes that are not about a single verdict.
OneTrouble ==
  {g \in GateInputs :
     /\ Cardinality({t \in {"ceiling", "noAlts", "integrity", "boundary",
                             "spent"} : g[t]})
          + Cardinality(g.amend) <= 1
     /\ g.covered => g.closure}

\* The obligation a repair is for comes first among the open ones: the key
\* the Gate checks is then the key the reducer counts.
FirstOpen(g) ==
  /\ \A o \in Unattested(g), p \in Pending(g) : o < p
  /\ \/ Pending(g) = {}
     \/ g.amend \cap g.refs \subseteq {Least(Pending(g))}

MatchedInputs == {g \in OneTrouble : FirstOpen(g)}

\* One obligation that is still open before one without an attestation.
OpenBeforeUnattested ==
  {g \in GateInputs : g.amend = {} /\ ~g.ceiling /\ ~g.noAlts
     /\ ~g.integrity /\ ~g.boundary}
=============================================================================
