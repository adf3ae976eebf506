------------------------------ MODULE RunAnchor ------------------------------
(***************************************************************************)
(* The anchor of a run (packages/evidence/src/run-anchor.ts): the scope    *)
(* and generation its setup step established at the target, derived from   *)
(* durable rows only, while the setup step is executed, taken over and     *)
(* executed again by several owner generations.                            *)
(*                                                                         *)
(* A generation is its fencing token.  It sends one setup request (the     *)
(* validator requires repeat 1, concurrency 1, retryPolicy NONE), records  *)
(* the invocation, captures the response and writes the terminal state, in *)
(* that order (engine/src/step-processor.ts); only the last is fenced, and *)
(* the generation may die between any two of them.  The target may apply a *)
(* request long after it was sent.                                         *)
(*                                                                         *)
(* Bound: MaxToken generations.                                            *)
(***************************************************************************)
EXTENDS Integers, FiniteSets

CONSTANTS
  MaxToken,       \* bound on the fencing token
  DeclaredScope,  \* the scope the run declares
  SetupScopes,    \* the scopes the target may answer with
  None, Unusable  \* nothing stored; a response that cannot anchor

ASSUME AnchorAssumption ==
  MaxToken \in Nat \ {0} /\ DeclaredScope \in SetupScopes

Tokens == 1 .. MaxToken

Stages == {"CONNECTING", "REQUEST_SENT", "RESPONSE_COMPLETE"}

VARIABLES
  mints,        \* whether every reset of the target mints a new generation
  generation,   \* the target's generation
  applied,      \* the pair the request of a generation established, or None
  token,        \* the fencing token of the setup step
  stepState,    \* "EXECUTING", "SUCCEEDED" or "FAILED"
  work,         \* how far each generation is
  stage,        \* the transport stage it observed
  invocation,   \* the stage of its recorded invocation, or None
  observation   \* its stored response: a pair, Unusable or None

targetState == <<mints, generation, applied>>
rows == <<invocation, observation>>
anchorVars == <<targetState, token, stepState, work, stage, rows>>

Go(t, next) == work' = [work EXCEPT ![t] = next]

AnchorInit ==
  /\ mints \in BOOLEAN
  /\ generation = 0
  /\ applied = [t \in Tokens |-> None]
  /\ token = 1
  /\ stepState = "EXECUTING"
  /\ work = [t \in Tokens |-> IF t = 1 THEN "send" ELSE "none"]
  /\ stage = [t \in Tokens |-> "CONNECTING"]
  /\ invocation = [t \in Tokens |-> None]
  /\ observation = [t \in Tokens |-> None]

-----------------------------------------------------------------------------
\* The lease ran out and another owner claims the step; the old one may live.
TakeOver ==
  /\ stepState = "EXECUTING" /\ token < MaxToken
  /\ token' = token + 1
  /\ Go(token + 1, "send")
  /\ UNCHANGED <<targetState, stepState, stage, rows>>

\* The request leaves, or fails before it is sent.
SendSetup(t) ==
  /\ work[t] = "send"
  /\ \/ Go(t, "wait") /\ stage' = [stage EXCEPT ![t] = "REQUEST_SENT"]
     \/ Go(t, "record") /\ UNCHANGED stage
  /\ UNCHANGED <<targetState, token, stepState, rows>>

\* The target resets the scope, whenever the request arrives.
ApplySetup(t) ==
  /\ stage[t] # "CONNECTING" /\ applied[t] = None
  /\ generation' = IF mints THEN generation + 1 ELSE generation
  /\ \E scope \in SetupScopes : applied' = [applied EXCEPT ![t] = <<scope, generation'>>]
  /\ UNCHANGED <<mints, token, stepState, work, stage, rows>>

\* A 2xx is read, or the wait ends without one.
Hear(t) ==
  /\ work[t] = "wait"
  /\ Go(t, "record")
  /\ \/ applied[t] # None /\ stage' = [stage EXCEPT ![t] = "RESPONSE_COMPLETE"]
     \/ UNCHANGED stage
  /\ UNCHANGED <<targetState, token, stepState, rows>>

recordSetupInvocation(t) ==
  /\ work[t] = "record"
  /\ invocation' = [invocation EXCEPT ![t] = stage[t]]
  /\ Go(t, IF stage[t] = "RESPONSE_COMPLETE" THEN "capture" ELSE "finish")
  /\ UNCHANGED <<targetState, token, stepState, stage, observation>>

\* What is stored of the response may be truncated, redacted or malformed;
\* a capture that fails never fails the step.
captureSetupResponse(t) ==
  /\ work[t] = "capture"
  /\ \E row \in {applied[t], Unusable, None} :
       observation' = [observation EXCEPT ![t] = row]
  /\ Go(t, "finish")
  /\ UNCHANGED <<targetState, token, stepState, stage, invocation>>

\* The terminal write is fenced on the generation.
FinishSetup(t) ==
  /\ work[t] = "finish"
  /\ Go(t, "done")
  /\ stepState' = IF t # token \/ stepState # "EXECUTING" THEN stepState
                  ELSE IF stage[t] = "RESPONSE_COMPLETE" THEN "SUCCEEDED" ELSE "FAILED"
  /\ UNCHANGED <<targetState, token, stage, rows>>

WorkerDies(t) ==
  /\ work[t] \in {"send", "wait", "record", "capture", "finish"}
  /\ Go(t, "dead")
  /\ UNCHANGED <<targetState, token, stepState, stage, rows>>

AnchorNext ==
  \/ TakeOver
  \/ \E t \in Tokens :
       \/ SendSetup(t) \/ ApplySetup(t) \/ Hear(t) \/ recordSetupInvocation(t)
       \/ captureSetupResponse(t) \/ FinishSetup(t) \/ WorkerDies(t)

AnchorSpec == AnchorInit /\ [][AnchorNext]_anchorVars

-----------------------------------------------------------------------------
(***************************************************************************)
(* deriveRunAnchor                                                         *)
(***************************************************************************)
\* A candidate joins a recorded invocation and is readable.
Candidate(t) == invocation[t] # None /\ observation[t] \notin {None, Unusable}

\* Generations that recorded an invocation and are not the terminal owner.
StaleGenerations == {t \in Tokens \ {token} : invocation[t] # None}

\* Mutant: only a generation whose response is stored can be in conflict.
Convergent_ignoringSilent(t) == Candidate(t) => observation[t] = observation[token]

\* A stale generation is convergent only when its own response names the pair
\* of the anchor: nothing recorded before the send proves that nothing was sent.
Convergent(t) == Candidate(t) /\ observation[t] = observation[token]

Anchor(s, why) == [state |-> s, why |-> why, pair |-> None]

deriveRunAnchor ==
  IF stepState # "SUCCEEDED" THEN Anchor("ANCHOR_UNPROVEN", "SETUP_STEP_NOT_SUCCEEDED")
  ELSE IF ~Candidate(token)
       THEN Anchor("ANCHOR_UNPROVEN", "NO_VALID_TERMINAL_OWNER_RESPONSE")
  ELSE IF observation[token][1] # DeclaredScope
       THEN Anchor("ANCHOR_UNPROVEN", "DECLARED_SCOPE_NOT_OBSERVED")
  ELSE IF \E t \in StaleGenerations : ~Convergent(t)
       THEN Anchor("EVIDENCE_CONFLICT", "STALE_GENERATION_CONFLICT")
  ELSE [state |-> "ESTABLISHED", why |-> "ANCHOR_ESTABLISHED", pair |-> observation[token]]

Established == deriveRunAnchor.state = "ESTABLISHED"

-----------------------------------------------------------------------------
\* Whatever was taken over, lost, delayed or recorded late: an established
\* anchor is what the terminal owner's own request established, in the scope
\* the run declared, and no other generation that left a record of its request
\* established anything else, then or later (run-anchor.ts, stale generations).
AnchorOwned ==
  Established =>
    /\ deriveRunAnchor.pair = applied[token]
    /\ deriveRunAnchor.pair[1] = DeclaredScope
    /\ \A t \in StaleGenerations : applied[t] = deriveRunAnchor.pair

\* docs/decisions/ADR-0026: a stale request that may have reset the scope is
\* never silently ignored; zero recorded rows prove nothing.
AnchorExcludesUnrecordedSends ==
  Established => \A t \in Tokens : applied[t] \in {None, deriveRunAnchor.pair}
=============================================================================
