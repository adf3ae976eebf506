------------------------- MODULE SideEffectsProofs -------------------------
(***************************************************************************)
(* What the pure functions of module SideEffects guarantee for every       *)
(* attempt, attempt count and set of recorded invocations.                 *)
(***************************************************************************)
EXTENDS SideEffects, TLAPS

\* Every attempt executeHttp returns: a success happened, and a failure that was provably
\* not sent, or that the contract calls free of effects, did not.
LEMMA AttemptEffect ==
  ASSUME NEW noEffect4xx \in BOOLEAN, NEW a \in executeHttp(noEffect4xx)
  PROVE  /\ a.outcome \in {"SUCCEEDED", "FAILED"}
         /\ a.outcome = "SUCCEEDED" => a.effect
         /\ a.outcome = "FAILED" /\ ~Sent(a.stage) => ~a.effect
         /\ a.outcome = "FAILED" /\ a.status = "4xx" /\ noEffect4xx => ~a.effect
  <1>1. CASE noEffect4xx
    BY <1>1 DEF executeHttp, Attempt, Sent
  <1>2. CASE ~noEffect4xx
    BY <1>2 DEF executeHttp, Attempt, Sent
  <1> QED
    BY <1>1, <1>2

\* The classification never claims more than the target did (ADR-0008): KNOWN_ABSENT
\* means no effect and KNOWN_OCCURRED means an effect, whatever the transport reported.
THEOREM ClassificationTruthful ==
  ASSUME NEW noEffect4xx \in BOOLEAN, NEW a \in executeHttp(noEffect4xx)
  PROVE  /\ classifyInvocation(TRUE, noEffect4xx, a) = "KNOWN_ABSENT" => ~a.effect
         /\ classifyInvocation(TRUE, noEffect4xx, a) = "KNOWN_OCCURRED" => a.effect
  BY AttemptEffect DEF classifyInvocation

\* A mutation is retried only when the attempt before it had no effect, and never past
\* the attempt limit, for every policy.
THEOREM RetryOnlyWhenAbsent ==
  ASSUME NEW noEffect4xx \in BOOLEAN, NEW a \in executeHttp(noEffect4xx),
         NEW safe \in BOOLEAN, NEW n \in Nat,
         decideRetry(safe, TRUE, a.outcome, classifyInvocation(TRUE, noEffect4xx, a), n)
  PROVE  ~a.effect /\ safe /\ n < SAFE_RETRY_MAX_ATTEMPTS
  BY ClassificationTruthful DEF decideRetry, MaxAttempts

\* worstKnowledge is the join of a total order, so the aggregate over a wave does not
\* depend on the order its invocations are folded in, and never falls below any of them.
THEOREM WorstKnowledgeIsJoin ==
  ASSUME NEW a \in Knowledge, NEW b \in Knowledge, NEW c \in Knowledge
  PROVE  /\ worstKnowledge(a, b) \in Knowledge
         /\ worstKnowledge(a, b) = worstKnowledge(b, a)
         /\ worstKnowledge(worstKnowledge(a, b), c) = worstKnowledge(a, worstKnowledge(b, c))
         /\ KnowledgeRank(worstKnowledge(a, b)) >= KnowledgeRank(a)
  BY DEF Knowledge, worstKnowledge, KnowledgeRank

\* The emergency path claims KNOWN_ABSENT only with the independent pre-send proof, and
\* never over a recorded invocation that says otherwise.
THEOREM EmergencyConservative ==
  ASSUME NEW recorded \in SUBSET Knowledge, NEW preSendProven \in BOOLEAN,
         deriveEmergencyStepTruth(TRUE, recorded, preSendProven) # "INDETERMINATE"
  PROVE  /\ deriveEmergencyStepTruth(TRUE, recorded, preSendProven) = "KNOWN_ABSENT"
         /\ preSendProven
         /\ recorded # {}
         /\ recorded \cap {"INDETERMINATE", "KNOWN_OCCURRED"} = {}
  BY DEF deriveEmergencyStepTruth

=============================================================================
