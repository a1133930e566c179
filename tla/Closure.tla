------------------------------ MODULE Closure ------------------------------
(***************************************************************************)
(* How the closing of a run attests again what its leaves attested         *)
(* (kernel/closure_evidence.py and run_closure_gate).  Each node has one   *)
(* obligation or more and no two share one.  Files change by the attempts  *)
(* of the nodes, which the Gate admits or which are rolled back, and by    *)
(* anybody else between them.                                              *)
(*                                                                         *)
(* A verdict has one attestation or none: the file it refers to, if any,   *)
(* the content it saw there, "none" for no file, and what it watches, that *)
(* file or, without one, all of them or none.  Methods are those the type  *)
(* of the obligation allows.  Attempts are whole; their steps, crashes and *)
(* recovery are in module RunKernel.                                       *)
(***************************************************************************)
EXTENDS Integers, FiniteSets

CONSTANTS
  JsonFiles, TextFiles,
  Versions,   \* contents a file may have
  Owner       \* obligation -> its node

ASSUME ClosureAssumption == {"none", "claimed"} \cap Versions = {}

VARIABLES
  content,    \* of the files of the workdir
  held,       \* obligation -> its status and watch_set
  latest,     \* obligation -> attestations of its last satisfied verdict
  rolledBack, \* history: obligations whose last satisfied verdict was rolled back
  succeeded

closureVars == <<content, held, latest, rolledBack, succeeded>>

WorkFiles == JsonFiles \cup TextFiles
Obls == DOMAIN Owner
NoRef == "note"   \* a raw_ref that is no file

Attestations ==
  [ref : WorkFiles \cup {NoRef}, digest : Versions \cup {"none", "claimed"},
   watch : SUBSET WorkFiles]

-----------------------------------------------------------------------------
(* The closing *)

\* rebind_attestations: the digest is taken from the file again.  A JSON file
\* that is gone is attested as missing, another one as it was.
Rebound(a) ==
  {[a EXCEPT !.digest = IF a.ref = NoRef THEN a.digest
                        ELSE IF content[a.ref] # "none" THEN content[a.ref]
                        ELSE IF a.ref \in JsonFiles THEN "none" ELSE a.digest]}

\* path_like_watch_entries that no attestation refers to.
Watched(o, atts) ==
  {[ref |-> f, digest |-> content[f], watch |-> held[o].watch] :
     f \in held[o].watch \ {a.ref : a \in atts}}

\* build_closure_verdict; satisfied if it is not empty.
ClosureVerdict(o) ==
  LET again == UNION {Rebound(a) : a \in latest[o]}
  IN  IF held[o].status = "satisfied" THEN again \cup Watched(o, again) ELSE {}

\* closure_needed, of a run whose obligations are satisfied; what becomes of
\* the other ones is in RunKernel.
Closable == ~succeeded /\ \A o \in Obls : held[o].status = "satisfied"

\* run_closure_gate
CloseRun ==
  /\ Closable
  /\ succeeded' = \A o \in Obls : ClosureVerdict(o) # {}
  /\ UNCHANGED <<content, held, latest, rolledBack>>

-----------------------------------------------------------------------------
(* The attempts *)

ClosureInit ==
  /\ content = [f \in WorkFiles |-> "none"]
  /\ held = [o \in Obls |-> [status |-> "open", watch |-> {}]]
  /\ latest = [o \in Obls |-> {}]
  /\ rolledBack = {}
  /\ succeeded = FALSE

ObligationsOf(n) == {o \in Obls : Owner[o] = n}

\* What a checker may attest of the files as they are now.
Attested(c) ==
  {{}} \cup {{[ref |-> f, digest |-> c[f], watch |-> {f}]} : f \in WorkFiles}
       \cup {{[ref |-> NoRef, digest |-> "claimed", watch |-> w]} : w \in {{}, WorkFiles}}

\* Mutant of Settled: what was satisfied counts in a repair too.
PartCredit(n, seen, good, admit) ==
  [o \in Obls |-> IF o \in good
                  THEN [status |-> "satisfied", watch |-> UNION {a.watch : a \in seen[o]}]
                  ELSE held[o]]

\* gate_decide: ObligationSatisfied for all of a node's obligations or none.
Settled(n, seen, good, admit) ==
  [o \in Obls |-> IF admit /\ o \in ObligationsOf(n)
                  THEN [status |-> "satisfied", watch |-> UNION {a.watch : a \in seen[o]}]
                  ELSE held[o]]

\* invalidate_from_commit
Invalidated(n, h, touched) ==
  [o \in Obls |-> IF /\ h[o].status = "satisfied" /\ o \notin ObligationsOf(n)
                     /\ h[o].watch \cap touched # {}
                  THEN [h[o] EXCEPT !.status = "invalidated"] ELSE h[o]]

\* Mutant of Admits: a verdict needs no attestation.
AdmitsUnproven(n, seen, good) == good = ObligationsOf(n)

\* gate.decide
Admits(n, seen, good) == good = ObligationsOf(n) /\ \A o \in good : seen[o] # {}

\* An attempt at a node: the maker's transaction leaves the files as c, the
\* checker finds the obligations in good satisfied, and the Gate admits if
\* that is all of them, each with an attestation; else the files come back.
Attempt(n) ==
  /\ ~succeeded
  /\ \E o \in ObligationsOf(n) : held[o].status # "satisfied"
  /\ \E c \in [WorkFiles -> Versions \cup {"none"}], good \in SUBSET ObligationsOf(n) :
       \E seen \in [good -> Attested(c)] :
         LET touched == {f \in WorkFiles : c[f] # content[f]}
             admit == Admits(n, seen, good)
         IN  /\ content' = IF admit THEN c ELSE content
             /\ latest' = [o \in Obls |-> IF o \in good THEN seen[o] ELSE latest[o]]
             /\ rolledBack' = IF admit THEN rolledBack \ good ELSE rolledBack \cup good
             /\ held' = LET h == Settled(n, seen, good, admit)
                        IN  IF admit THEN Invalidated(n, h, touched) ELSE h
  /\ UNCHANGED succeeded

\* Anybody else: nothing notices.
OutsideChange ==
  /\ \E f \in WorkFiles, v \in Versions \cup {"none"} : content' = [content EXCEPT ![f] = v]
  /\ UNCHANGED <<held, latest, rolledBack, succeeded>>

ClosureNext ==
  \/ CloseRun
  \/ \E n \in {Owner[o] : o \in Obls} : Attempt(n)
  \/ OutsideChange

ClosureSpec == ClosureInit /\ [][ClosureNext]_closureVars

-----------------------------------------------------------------------------
ClosureTypeOK ==
  /\ content \in [WorkFiles -> Versions \cup {"none"}]
  /\ held \in [Obls -> [status : {"open", "satisfied", "invalidated"}, watch : SUBSET WorkFiles]]
  /\ \A o \in Obls : latest[o] \subseteq Attestations
  /\ rolledBack \subseteq Obls
  /\ succeeded \in BOOLEAN

\* The closing never attests again what a rejected attempt saw of files that
\* were rolled back since, although the log keeps its verdicts and the last
\* satisfied one is taken (find_latest_satisfied_verdict).
ClosureFromAdmitted == Closable => rolledBack = {}

\* A run whose obligations are all satisfied closes, whatever became of the
\* files since: "closure:missing_rebind_attestation" is never the answer, and
\* nothing of a deliverable that is gone or changed is noticed either
\* (build_closure_verdict, rebind_attestations).
ClosureNeverStuck == Closable => \A o \in Obls : ClosureVerdict(o) # {}
=============================================================================
