------------------------------ MODULE Delivery ------------------------------
(***************************************************************************)
(* One attempt of the maker and the checker at a leaf, between the files   *)
(* they leave in the workdir and the evidence the Gate reads               *)
(* (maker_dual_episode.py, mechanical_claim.py, boundary_verify.py,        *)
(* mechanical_evidence.py, contract_align.py, worldref.py, integrity.py    *)
(* and the actors maker and checker).                                      *)
(*                                                                         *)
(* A deliverable is a MUST_EXIST path of the boundary: a JSON file, a      *)
(* network capture (.har) or another file; tools may write it to a staged  *)
(* file first, path.partial.  Of its content only this is kept: "bad" is   *)
(* text that is no JSON object and no capture, or, where a sidecar hints   *)
(* at it, a copy of the example; "embed" is a JSON object that has among   *)
(* other fields one called content or text, which the claim's application  *)
(* mistakes for the text to write, and perhaps one called path, for where  *)
(* to write it.                                                            *)
(* Every boundary has a deliverable, every contract an obligation; JSON    *)
(* lists, process_coverage.json, attestations (module Gate), token counts  *)
(* and what a claim says of other files are left out.                      *)
(***************************************************************************)
EXTENDS Integers, Sequences, FiniteSets, SequencesExt

CONSTANTS
  JsonPaths, HarPaths, OtherPaths,  \* the deliverables
  Captures,         \* screenshots and their .meta.json under agent_runs/
  Contracts,        \* sets of obligations a contract may carry
  MakerClaims,      \* sets of actions the maker may claim
  Leavings          \* what the maker's tools may leave: deliverables, staged
                    \* files, and whether there is a forbidden path

VARIABLES
  disk, partial,    \* content of the deliverables and of their staged files
  forbidden,        \* a path with a forbidden prefix exists
  hinted,           \* the workdir has a deliverable_hint.json
  embedPath,        \* the path an "embed" object names, or "none"
  dual,             \* the maker works in two episodes
  obligations,      \* of the contract
  dpc, tries,
  claim,
  bound,            \* history: the boundary held when the claim was bound
  before,           \* fingerprint taken when the checker is asked
  evidence

deliveryVars == <<disk, partial, forbidden, hinted, embedPath, dual, obligations,
                  dpc, tries, claim, bound, before, evidence>>

\* What is given when the attempt starts.
givenVars == <<hinted, embedPath, dual, obligations>>

Paths == JsonPaths \cup HarPaths \cup OtherPaths

Contents(p) ==
  CASE p \in JsonPaths -> {"absent", "empty", "bad", "good", "better", "embed"}
    [] p \in HarPaths -> {"absent", "bad", "good"}
    [] OTHER -> {"absent", "empty", "good"}

AnyContent == {"absent", "empty", "bad", "good", "better", "embed"}
Disks == {d \in [Paths -> AnyContent] : \A p \in Paths : d[p] \in Contents(p)}

\* An action names its file twice: target is what the binding reads, dest,
\* the path in its payload or else the target, is what is written.  It
\* writes a text, carries the fields of an object, or only points at a file.
ClaimActions ==
  {a \in [target : Paths \cup {"elsewhere"}, dest : Paths,
          form : {"text", "data", "ack"}, body : AnyContent] :
     a.form = "text" => a.body \in Contents(a.dest) \ {"absent"}}

ASSUME DeliveryAssumption ==
  /\ JsonPaths \cap HarPaths = {} /\ JsonPaths \cap OtherPaths = {}
  /\ HarPaths \cap OtherPaths = {}
  /\ Captures \subseteq JsonPaths \cup OtherPaths
  /\ "none" \notin Paths
  /\ \A c \in Contracts : IsFiniteSet(c)
  /\ MakerClaims \subseteq SUBSET ClaimActions
  /\ Leavings \subseteq Disks \X Disks \X BOOLEAN

\* Obligations that ask for an attestation of the intent (custom_attestation).
Intent(o) == o = "intent"

NoClaim == [actions |-> {}, mechanical |-> FALSE]
NoEvidence == [satisfied |-> {}, boundaryGap |-> FALSE, integrity |-> FALSE, by |-> "none"]

-----------------------------------------------------------------------------
(* The boundary *)

\* is_valid_must_exist_file: only a hint has a JSON file read at all.
Valid(p, c) ==
  CASE p \in HarPaths -> c = "good"
    [] p \in JsonPaths /\ hinted -> c \notin {"absent", "empty", "bad"}
    [] OTHER -> c \notin {"absent", "empty"}

\* promote_staged_deliverables: a valid partial replaces what is not valid.
PromotedTo(d, q) ==
  [p \in Paths |-> IF Valid(p, q[p]) /\ ~Valid(p, d[p]) THEN q[p] ELSE d[p]]

\* A valid partial is gone afterwards.
LeftStaged(q) == [p \in Paths |-> IF Valid(p, q[p]) THEN "absent" ELSE q[p]]

\* What verify_boundary asks of a deliverable.
Holds(p, c) ==
  IF p \in HarPaths \/ (p \in JsonPaths /\ hinted) THEN Valid(p, c) ELSE c # "absent"

\* verify_boundary has no gap.
BoundaryHolds(d, f) == ~f /\ \A p \in Paths : Holds(p, d[p])

\* Every verification promotes first.
Verify(d) ==
  /\ disk' = PromotedTo(d, partial)
  /\ partial' = LeftStaged(partial)

-----------------------------------------------------------------------------
(* Claims *)

\* The JSON deliverables that hold an object.
Objects(d) == {p \in JsonPaths : d[p] \in {"good", "better", "embed"}}

\* The action that carries the object at p: its fields are the payload.
Carry(p, d) ==
  [target |-> p, dest |-> IF d[p] = "embed" /\ embedPath # "none" THEN embedPath ELSE p,
   form |-> "data", body |-> d[p]]

Ack(p, d) == [target |-> p, dest |-> p, form |-> "ack", body |-> d[p]]

\* synthesize_mechanical_claim, of a workdir that satisfies the boundary.
Mechanical(d) ==
  [actions |-> {Carry(p, d) : p \in Objects(d)} \cup {Ack(p, d) : p \in Paths \ Objects(d)},
   mechanical |-> TRUE]

FileWrites(c) == {a \in c.actions : a.form # "ack"}

\* _file_write_matches_disk.  Fields called content, text or path do not
\* count as data, and a text is not compared.
Matches(a, d) ==
  /\ d[a.dest] # "absent"
  /\ a.dest \in JsonPaths =>
       /\ d[a.dest] \notin {"empty", "bad"}
       /\ a.form = "data" => a.body = d[a.dest] /\ a.body # "embed"

\* rebind_claim_from_disk: payloads for the JSON deliverables are replaced
\* by what the files hold, and the objects without an action get one.
ReboundActions(c, d) ==
  {IF a.form # "ack" /\ a.target \in Objects(d) THEN Carry(a.target, d) ELSE a : a \in c.actions}
    \cup {Carry(p, d) : p \in Objects(d)}

\* Mutant of Bound: the maker's payloads are kept.
BoundUnchanged(c, d, f) == c

\* prefer_disk_bound_claim
Bound(c, d, f) ==
  LET rebound == [c EXCEPT !.actions = ReboundActions(c, d)]
      matched == \A p \in JsonPaths :
                   \E a \in FileWrites(rebound) : a.target = p /\ Matches(a, d)
  IN  CASE ~BoundaryHolds(d, f) -> c
        [] BoundaryHolds(d, f) /\ matched -> rebound
        [] OTHER -> Mechanical(d)

\* What p may hold after an action on it: a text is written, unless it looks
\* like the stub of a binary file; so is the text found in an object, which
\* may be any.
MayHold(p, a, d) ==
  (CASE a.form = "ack" -> {}
     [] a.form = "text" -> {a.body}
     [] OTHER -> Contents(p) \ {"absent"})
    \cup (IF a.form = "ack" \/ p \in OtherPaths THEN {d[p]} ELSE {})

\* The actions that say anything about the content of p; the fields of an
\* object without a text are only acknowledged.
Effective(p, c) ==
  {a \in c.actions : a.dest = p /\ (a.form = "data" => a.body = "embed")}

\* apply_claim_payload of claim_payload_from_actions: the last action on a
\* path counts, and their order is the maker's.  Nothing is applied when all
\* are read_only or an idempotency key was used before.
Applied(c, d) ==
  {d} \cup {e \in Disks : \A p \in Paths :
             IF Effective(p, c) = {} THEN e[p] = d[p]
             ELSE \E a \in Effective(p, c) : e[p] \in MayHold(p, a, d)}

-----------------------------------------------------------------------------
(* Evidence *)

\* Mutant of MechanicalVerdicts: obligations are all alike.
VerdictsAlike(d, f) ==
  IF BoundaryHolds(d, f) THEN obligations ELSE {}

\* synthesize_mechanical_evidence
MechanicalVerdicts(d, f) ==
  LET gap == IF FileWrites(claim) # {} THEN \E a \in FileWrites(claim) : ~Matches(a, d)
                                       ELSE claim.mechanical
  IN  IF BoundaryHolds(d, f) /\ ~gap THEN {o \in obligations : ~Intent(o)} ELSE {}

\* What a checker may answer: verdicts, which may name an obligation that
\* does not exist, or the old form without verdicts.
Verdict == [about : UNION Contracts \cup {"unknown"}, ok : BOOLEAN]
Answers ==
  {[flat |-> FALSE, verdicts |-> vs] :
     vs \in {<<v>> : v \in Verdict} \cup {<<v, w>> : v \in Verdict, w \in Verdict}}
  \cup {[flat |-> TRUE, verdicts |-> <<[about |-> "unknown", ok |-> b]>>] : b \in BOOLEAN}

\* align_evidence_to_contract: verdicts on the same obligation must agree;
\* verdicts on none stand for the single obligation or, one after the
\* other, for the obligations that have none.
Aligned(vs) ==
  LET refs == SetToSeq(obligations)
      orphans == SelectSeq(vs, LAMBDA v : v.about \notin obligations)
      Named(o) == SelectSeq(vs, LAMBDA v : v.about = o)
      All(s) == s # <<>> /\ \A i \in DOMAIN s : s[i].ok
      Orphan(i) == orphans[IF i < Len(orphans) THEN i ELSE Len(orphans)]
  IN  {refs[i] : i \in {j \in DOMAIN refs :
         LET own == Named(refs[j]) IN
         CASE Len(refs) = 1 -> All(own \o orphans)
           [] Len(refs) > 1 /\ own # <<>> -> All(own)
           [] OTHER -> orphans # <<>> /\ Orphan(j).ok}}

\* _finalize_evidence of the checker's answer: gaps of the boundary revoke
\* its verdicts; those of the old form are made after that, and only the
\* gaps tell.
Finalized(a, d, f) ==
  LET ok == BoundaryHolds(d, f)
      verdicts == IF a.flat THEN a.verdicts
                  ELSE [i \in DOMAIN a.verdicts |->
                          [a.verdicts[i] EXCEPT !.ok = @ /\ ok]]
  IN  [satisfied |-> Aligned(verdicts), boundaryGap |-> ~ok, integrity |-> FALSE,
       by |-> "checker"]

FinalizedMechanical(d, f) ==
  [satisfied |-> MechanicalVerdicts(d, f), boundaryGap |-> ~BoundaryHolds(d, f),
   integrity |-> FALSE, by |-> "disk"]

\* What the Gate can admit (module Gate).
Acceptable ==
  evidence.satisfied = obligations /\ ~evidence.boundaryGap /\ ~evidence.integrity

-----------------------------------------------------------------------------
DeliveryInit ==
  /\ disk = [p \in Paths |-> "absent"]
  /\ partial = [p \in Paths |-> "absent"]
  /\ forbidden = FALSE
  /\ hinted \in BOOLEAN /\ embedPath \in Paths \cup {"none"}
  /\ dual \in BOOLEAN
  /\ obligations \in Contracts
  /\ dpc = "work"
  /\ tries = 0
  /\ claim = NoClaim /\ bound = FALSE
  /\ before = [p \in Paths |-> "absent"]
  /\ evidence = NoEvidence

\* The maker's episode with tools, whether it ends well or not.
Work ==
  /\ dpc = "work"
  /\ \E l \in Leavings : disk' = l[1] /\ partial' = l[2] /\ forbidden' = l[3]
  /\ dpc' = IF dual THEN "first" ELSE "ask"
  /\ UNCHANGED <<givenVars, tries, claim, bound, before, evidence>>

\* A workdir that satisfies the boundary needs no claim of the maker's; else
\* it is asked, without tools.
MechanicalFirst ==
  /\ dpc = "first"
  /\ Verify(disk)
  /\ IF BoundaryHolds(disk', forbidden)
     THEN claim' = Mechanical(disk') /\ dpc' = "bind"
     ELSE dpc' = "ask" /\ UNCHANGED claim
  /\ UNCHANGED <<givenVars, forbidden, tries, bound, before, evidence>>

\* run_with_format_repair
MaxRepairs == IF dual THEN 1 ELSE 2

Claimed == \E m \in MakerClaims : claim' = [actions |-> m, mechanical |-> FALSE]

AskClaim ==
  /\ dpc = "ask"
  /\ \/ Claimed /\ tries' = 0 /\ dpc' = "bind"
     \/ tries < MaxRepairs /\ tries' = tries + 1 /\ UNCHANGED <<claim, dpc>>
     \/ tries = MaxRepairs /\ tries' = 0 /\ dpc' = "recover" /\ UNCHANGED claim
  /\ UNCHANGED <<givenVars, disk, partial, forbidden, bound, before, evidence>>

\* A claim in the log of the episode, or one made from the workdir, or the
\* attempt has failed.
RecoverClaim ==
  /\ dpc = "recover"
  /\ \/ Claimed /\ dpc' = "bind" /\ UNCHANGED <<disk, partial>>
     \/ /\ Verify(disk)
        /\ IF BoundaryHolds(disk', forbidden)
           THEN claim' = Mechanical(disk') /\ dpc' = "bind"
           ELSE dpc' = "failed" /\ UNCHANGED claim
  /\ UNCHANGED <<givenVars, forbidden, tries, bound, before, evidence>>

Bind ==
  /\ dpc = "bind"
  /\ Verify(disk)
  /\ claim' = Bound(claim, disk', forbidden)
  /\ bound' = BoundaryHolds(disk', forbidden)
  /\ dpc' = "apply"
  /\ UNCHANGED <<givenVars, forbidden, tries, before, evidence>>

\* The run loop applies the claim, verifies again
\* (align_claim_delivery_progress) and takes the fingerprint.
ApplyClaim ==
  /\ dpc = "apply"
  /\ \E e \in Applied(claim, disk) : Verify(e)
  /\ before' = disk'
  /\ dpc' = "check"
  /\ UNCHANGED <<givenVars, forbidden, tries, claim, bound, evidence>>

\* A browser that the maker left behind goes on writing: its network capture
\* appears, or a screenshot is opened and written.
FlushCapture ==
  /\ dpc \notin {"work", "failed"}
  /\ \/ /\ \E p \in HarPaths :
             partial[p] = "absent" /\ partial' = [partial EXCEPT ![p] = "good"]
        /\ UNCHANGED disk
     \/ /\ \E p \in Captures, c \in {"empty", "good"} : disk' = [disk EXCEPT ![p] = c]
        /\ UNCHANGED partial
  /\ UNCHANGED <<givenVars, forbidden, dpc, tries, claim, bound, before, evidence>>

\* Without intent obligations no model is asked.
MechanicalCheck ==
  /\ dpc = "check"
  /\ IF \E o \in obligations : Intent(o)
     THEN dpc' = "audit" /\ UNCHANGED <<disk, partial, evidence>>
     ELSE /\ Verify(disk)
          /\ evidence' = FinalizedMechanical(disk', forbidden)
          /\ dpc' = "deliver"
  /\ UNCHANGED <<givenVars, forbidden, tries, claim, bound, before>>

\* The checker's episodes; it has tools, and what it does with them is seen
\* by the fingerprint only.
Audit ==
  /\ dpc = "audit"
  /\ \E d \in {disk} \cup {[disk EXCEPT ![p] = c] : p \in Paths, c \in {"absent", "good"}} :
       /\ Verify(d)
       /\ \/ evidence' \in {Finalized(a, disk', forbidden) : a \in Answers}
          \/ evidence' = FinalizedMechanical(disk', forbidden)
  /\ dpc' = "deliver"
  /\ UNCHANGED <<givenVars, forbidden, tries, claim, bound, before>>

\* Mutant of Deliver: the fingerprint is not compared.
DeliverUnseen ==
  /\ dpc = "deliver"
  /\ dpc' = "gate"
  /\ UNCHANGED <<givenVars, disk, partial, forbidden, tries, claim, bound, before, evidence>>

\* The run loop compares the fingerprints before the Gate decides.  What
\* browsers flush, captures and staged network captures, is not counted, and
\* no other staged file that a verification would take is left.
Deliver ==
  /\ dpc = "deliver"
  /\ evidence' = [evidence EXCEPT !.integrity = \E p \in Paths \ Captures : disk[p] # before[p]]
  /\ dpc' = "gate"
  /\ UNCHANGED <<givenVars, disk, partial, forbidden, tries, claim, bound, before>>

DeliveryNext ==
  \/ Work \/ MechanicalFirst \/ AskClaim \/ RecoverClaim \/ Bind \/ ApplyClaim
  \/ FlushCapture \/ MechanicalCheck \/ Audit \/ Deliver

DeliverySpec == DeliveryInit /\ [][DeliveryNext]_deliveryVars

-----------------------------------------------------------------------------
DeliveryTypeOK ==
  /\ disk \in Disks /\ partial \in Disks /\ before \in Disks
  /\ forbidden \in BOOLEAN
  /\ hinted \in BOOLEAN /\ embedPath \in Paths \cup {"none"}
  /\ dual \in BOOLEAN
  /\ obligations \in Contracts
  /\ dpc \in {"work", "first", "ask", "recover", "bind", "apply", "check", "audit",
              "deliver", "gate", "failed"}
  /\ tries \in 0..2
  /\ claim.actions \subseteq ClaimActions /\ claim.mechanical \in BOOLEAN
  /\ bound \in BOOLEAN
  /\ evidence.satisfied \subseteq obligations

\* What the Gate can admit, whoever attested it, is a workdir that satisfies
\* the boundary at that moment and holds the files the maker left: a checker
\* that wrote files, staged files promoted while it worked, and verdicts
\* given before a gap was found do not get through.  Of screenshots and their
\* .meta.json (integrity.py) only this is known: there is one.
AcceptedHolds ==
  dpc = "gate" /\ Acceptable =>
    /\ ~forbidden
    /\ \A p \in Paths \ Captures : Holds(p, disk[p]) /\ disk[p] = before[p]
    /\ \A p \in Captures : disk[p] # "absent"

\* An obligation about the intent is satisfied by the checker's word only,
\* not by the files, also when the checker failed and the evidence is made
\* from the workdir after all.
IntentByChecker ==
  dpc = "gate" /\ (\E o \in evidence.satisfied : Intent(o)) => evidence.by = "checker"

\* When the workdir satisfied the boundary as the claim was bound, applying
\* the claim does not change the object in a JSON deliverable, whatever the
\* maker claimed to write there.  The exceptions are an object with a field
\* called content or text, and an action whose payload names another path
\* than its target does (rebind_claim_from_disk reads only the target); and of
\* .meta.json files of screenshots, which change at any time, nothing is said.
VerifiedKept ==
  [][dpc = "apply" /\ dpc' = "check" /\ bound =>
       \A p \in JsonPaths \ Captures : disk[p] \in {"good", "better"} =>
         disk'[p] = disk[p] \/ \E a \in claim.actions : a.target # p /\ a.dest = p]_deliveryVars
=============================================================================
