------------------------------ MODULE Reporting ------------------------------
(***************************************************************************)
(* From the published state of a run to the exit class of the command that *)
(* drove it: the decision of authorizeReportFinalization                   *)
(* (evidence/src/report-authorization.ts) and the reduction of             *)
(* cli/src/exit-code.ts with the projections of cli/src/orchestrator.ts.   *)
(*                                                                         *)
(* What is read under the lock is a record:                                *)
(*   chain     "intact", "broken", or "advanced" past what was verified    *)
(*   standing  of the publication: "current", "stale" (another watermark), *)
(*             "underived" (the projection is not proven complete) or      *)
(*             "mixed" (proofs and pointers of several generations)        *)
(*   proofs    key -> [strict, declared, eligible, missing, unexpected,    *)
(*             gaps], or Unproven                                          *)
(*   verdicts  key -> (subject with a current pointer -> verdict)          *)
(***************************************************************************)
EXTENDS FiniteSets

CONSTANT Unproven   \* a key without an authoritative proof row

Verdict == {"PASS", "FAIL", "NOT_EVALUABLE"}

\* The rows of one pass agree: only declared subjects are eligible, the others of
\* them are missing, and every pointer is to a verdict.
Coherent(f, bound) ==
  /\ f.chain \in {"intact", "broken", "advanced"}
  /\ f.standing \in {"current", "stale", "underived", "mixed"}
  /\ \A k \in bound :
       /\ f.proofs[k] # Unproven =>
            /\ f.proofs[k].eligible \subseteq f.proofs[k].declared
            /\ f.proofs[k].missing = f.proofs[k].declared \ f.proofs[k].eligible
       /\ \A s \in DOMAIN f.verdicts[k] : f.verdicts[k][s] \in Verdict

StrictKeys(f, bound) == {k \in bound : f.proofs[k] # Unproven /\ f.proofs[k].strict}

-----------------------------------------------------------------------------
(* Boundary B *)

Unpointed(f, bound) ==
  {k \in StrictKeys(f, bound) : ~(f.proofs[k].eligible \subseteq DOMAIN f.verdicts[k])}

\* A declared subject without evidence, an undeclared one of the own scope, a
\* persisted gap, or a pointer outside the eligible subjects.
Anomalous(f, bound) ==
  {k \in StrictKeys(f, bound) :
     \/ f.proofs[k].missing # {} \/ f.proofs[k].unexpected \/ f.proofs[k].gaps
     \/ ~(DOMAIN f.verdicts[k] \subseteq f.proofs[k].eligible)}

\* What the selector makes of the persisted rows; the first that applies.
publicationState(f, bound) ==
  CASE \A k \in bound : f.proofs[k] = Unproven -> "MISSING_PROOF"
    [] f.standing = "mixed" -> "GENERATION_MISMATCH"
    [] f.standing = "underived" -> "DERIVATION_NOT_READY"
    [] f.standing = "stale" -> "CURRENT_POINTER_STALE"
    [] Unpointed(f, bound) # {} -> "MISSING_SUBJECT_POINTER"
    [] OTHER -> "CURRENT"

\* A broken chain is frozen for the exit-3 report: it counts as authorized because
\* the decision is an execution failure anyway.  Only what may heal is retried.
disposition(f, bound) ==
  LET state == publicationState(f, bound)
  IN  CASE f.chain = "broken" -> "AUTHORIZED"
        [] state = "MISSING_PROOF" \/ (\E k \in bound : f.proofs[k] = Unproven) -> "RETRY"
        [] state \in {"GENERATION_MISMATCH", "MISSING_SUBJECT_POINTER"} -> "NOT_EVALUABLE"
        [] state \in {"DERIVATION_NOT_READY", "CURRENT_POINTER_STALE"} -> "RETRY"
        [] f.chain = "advanced" -> "RETRY"
        [] Anomalous(f, bound) # {} -> "NOT_EVALUABLE"
        [] OTHER -> "AUTHORIZED"

-----------------------------------------------------------------------------
(* The exit class *)

\* The current verdicts that classify: a strict key's inside its eligible subjects.
boundSubjectVerdicts(f, bound) ==
  UNION {{<<k, s>> : s \in IF k \in StrictKeys(f, bound)
                             THEN DOMAIN f.verdicts[k] \cap f.proofs[k].eligible
                             ELSE DOMAIN f.verdicts[k]} : k \in bound}

SomeVerdict(f, bound, verdict) ==
  \E v \in boundSubjectVerdicts(f, bound) : f.verdicts[v[1]][v[2]] = verdict

\* The domain of a bound key is not covered by verdicts.
Uncovered(f, bound, k) ==
  \/ f.proofs[k] = Unproven
  \/ k \in StrictKeys(f, bound) /\ f.proofs[k].declared = {}
  \/ k \in Anomalous(f, bound) \cup Unpointed(f, bound)
  \/ \A v \in boundSubjectVerdicts(f, bound) : v[1] # k

\* Mutant: a refused authorization does not stop a PASS.
classifyExit_unrefused(f, bound) ==
  IF f.chain = "broken" THEN 3
  ELSE IF SomeVerdict(f, bound, "FAIL") THEN 1
  ELSE IF \/ \E k \in bound : Uncovered(f, bound, k)
          \/ SomeVerdict(f, bound, "NOT_EVALUABLE")
          \/ bound = {} THEN 2
  ELSE 0

\* For a COMPLETED run; any other run is classified EXECUTION_FAILURE, 3.
classifyExit(f, bound) ==
  IF f.chain = "broken" THEN 3
  ELSE IF SomeVerdict(f, bound, "FAIL") THEN 1
  ELSE IF \/ \E k \in bound : Uncovered(f, bound, k)
          \/ SomeVerdict(f, bound, "NOT_EVALUABLE")
          \/ disposition(f, bound) # "AUTHORIZED"
          \/ bound = {} THEN 2
  ELSE 0

-----------------------------------------------------------------------------
(***************************************************************************)
(* What the exit classes promise, said of the published state alone.       *)
(***************************************************************************)
\* Every declared subject of every bound key passes, over the whole evidence.
Holds(f, bound) ==
  /\ f.chain = "intact" /\ f.standing = "current" /\ bound # {}
  /\ \A k \in bound :
       /\ f.proofs[k] # Unproven
       /\ DOMAIN f.verdicts[k] # {}
       /\ \A s \in DOMAIN f.verdicts[k] : f.verdicts[k][s] = "PASS"
       /\ f.proofs[k].strict =>
            /\ f.proofs[k].eligible = f.proofs[k].declared
            /\ DOMAIN f.verdicts[k] = f.proofs[k].declared
            /\ ~f.proofs[k].unexpected /\ ~f.proofs[k].gaps

\* A subject the run owns fails, over evidence that verifies.
Fails(f, bound) ==
  /\ f.chain # "broken"
  /\ \E k \in bound : \E s \in DOMAIN f.verdicts[k] :
       /\ f.verdicts[k][s] = "FAIL"
       /\ f.proofs[k] # Unproven /\ f.proofs[k].strict => s \in f.proofs[k].eligible
=============================================================================
