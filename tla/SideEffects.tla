---------------------------- MODULE SideEffects ----------------------------
(***************************************************************************)
(* What the engine concludes about a mutation from what it observed: the   *)
(* pure functions of packages/engine/src/classify.ts, the monotone         *)
(* aggregation of step-processor.ts, and the emergency derivation of       *)
(* engine-emergency.ts.                                                    *)
(*                                                                         *)
(* An HTTP attempt is abstracted to the record executeHttp returns, plus   *)
(* one field no client can observe: whether the mutation took effect at    *)
(* the target.  Status codes are reduced to the classes the code tells     *)
(* apart.                                                                  *)
(***************************************************************************)
EXTENDS Naturals

Knowledge == {"NOT_APPLICABLE", "KNOWN_ABSENT", "KNOWN_OCCURRED", "INDETERMINATE"}

TransportStage ==
  {"PREPARED", "CONNECTING", "REQUEST_SENT", "RESPONSE_HEADERS", "RESPONSE_COMPLETE"}

\* Mutant: off by one stage.
Sent_offByOne(stage) == stage \notin {"PREPARED", "CONNECTING", "REQUEST_SENT"}

\* stageAtLeast(stage, 'REQUEST_SENT'): the request may have left the process.
Sent(stage) == stage \notin {"PREPARED", "CONNECTING"}

StatusClass == {"none", "2xx", "4xx", "other"}

(***************************************************************************)
(* executeHttp: every combination of stage, outcome and status it returns. *)
(* An oversized body stops at PREPARED; a provable connection failure at   *)
(* CONNECTING; an abort or any other transport error is reported as        *)
(* REQUEST_SENT; a response over the size cap is FAILED even when its      *)
(* status is 2xx.  (An unresolved credential or a denied address throws    *)
(* instead of returning.)  `effect` is the target's: a 2xx means the       *)
(* mutation happened, an unsent request that it did not, anything else is  *)
(* open, except a 4xx of a contract that guarantees no effect.             *)
(***************************************************************************)
Attempt(stage, outcome, status, effect) ==
  [stage |-> stage, outcome |-> outcome, status |-> status, effect |-> effect]

executeHttp(noEffect4xx) ==
  {Attempt(g, "FAILED", "none", FALSE) : g \in {"PREPARED", "CONNECTING"}}
  \cup {Attempt("REQUEST_SENT", "FAILED", "none", x) : x \in BOOLEAN}
  \cup {Attempt("RESPONSE_COMPLETE", "SUCCEEDED", "2xx", TRUE)}
  \cup {Attempt(g, "FAILED", "2xx", TRUE) : g \in {"RESPONSE_HEADERS", "RESPONSE_COMPLETE"}}
  \cup {Attempt(g, "FAILED", "4xx", x) :
          g \in {"RESPONSE_HEADERS", "RESPONSE_COMPLETE"},
          x \in IF noEffect4xx THEN {FALSE} ELSE BOOLEAN}
  \cup {Attempt(g, "FAILED", "other", x) :
          g \in {"RESPONSE_HEADERS", "RESPONSE_COMPLETE"}, x \in BOOLEAN}

(***************************************************************************)
(* classifyInvocation, for the outcomes executeHttp produces.              *)
(***************************************************************************)
classifyInvocation(mutating, noEffect4xx, a) ==
  CASE ~mutating                           -> "NOT_APPLICABLE"
    [] mutating /\ a.outcome = "SUCCEEDED" -> "KNOWN_OCCURRED"
    [] mutating /\ a.outcome = "FAILED"    ->
         IF ~Sent(a.stage) \/ (a.status = "4xx" /\ noEffect4xx)
         THEN "KNOWN_ABSENT"
         ELSE "INDETERMINATE"

SAFE_RETRY_MAX_ATTEMPTS == 3

\* maxAttempts as runClaimed computes it from the declared policy.
MaxAttempts(safe) == IF safe THEN SAFE_RETRY_MAX_ATTEMPTS ELSE 1

(***************************************************************************)
(* decideRetry.  `safe` is declaredPolicy = SAFE.                          *)
(***************************************************************************)
decideRetry(safe, mutating, outcome, knowledge, attemptsSoFar) ==
  /\ attemptsSoFar < MaxAttempts(safe)
  /\ safe
  /\ ~(mutating /\ knowledge = "INDETERMINATE")
  /\ outcome = "FAILED"
  /\ knowledge = "KNOWN_ABSENT" \/ ~mutating

KnowledgeRank(k) ==
  CASE k = "NOT_APPLICABLE" -> 0
    [] k = "KNOWN_ABSENT"   -> 1
    [] k = "KNOWN_OCCURRED" -> 2
    [] k = "INDETERMINATE"  -> 3

worstKnowledge(a, b) == IF KnowledgeRank(a) >= KnowledgeRank(b) THEN a ELSE b

\* Mutant: the recorded rows are believed complete.
deriveEmergencyStepTruth_rowsOnly(mutating, recorded, preSendProven) ==
  CASE ~mutating -> "NOT_APPLICABLE"
    [] mutating /\ recorded \cap {"INDETERMINATE", "KNOWN_OCCURRED"} # {} -> "INDETERMINATE"
    [] mutating /\ recorded \cap {"INDETERMINATE", "KNOWN_OCCURRED"} = {} ->
         IF ~preSendProven /\ recorded = {} THEN "INDETERMINATE" ELSE "KNOWN_ABSENT"

(***************************************************************************)
(* deriveEmergencyStepTruth: what a step is recorded as when processStep   *)
(* threw.  `recorded` is the set of knowledge values of its invocation     *)
(* rows; preSendProven is executingAt IS NULL.                             *)
(***************************************************************************)
deriveEmergencyStepTruth(mutating, recorded, preSendProven) ==
  CASE ~mutating -> "NOT_APPLICABLE"
    [] mutating /\ recorded \cap {"INDETERMINATE", "KNOWN_OCCURRED"} # {} -> "INDETERMINATE"
    [] mutating /\ recorded \cap {"INDETERMINATE", "KNOWN_OCCURRED"} = {} ->
         IF ~preSendProven \/ recorded = {} THEN "INDETERMINATE" ELSE "KNOWN_ABSENT"

=============================================================================
