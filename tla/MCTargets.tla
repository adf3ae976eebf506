----------------------------- MODULE MCTargets -----------------------------
(* Small instances of the two targets for model checking.  A behaviour is   *)
(* one of the checkout target or one of the webhook target: they share the  *)
(* fault machinery, not a database.                                         *)
EXTENDS Checkout, Webhook, TLC

CONSTANTS q1, q2, i1, i2, sc1, sc2, a1, a2, d1, d2, p1

VARIABLE running
targetVars == <<running, checkoutVars, webhookVars>>

OneTriggerEach ==
  {[version |-> FAULT_PLAN_VERSION, kind |-> k, activation |-> "first_n_matching_deliveries",
    maxTriggers |-> 1] : k \in FAULT_KINDS}

MCInit == running \in {"commerce", "fintech"} /\ CheckoutInit /\ WebhookInit
MCNext ==
  /\ UNCHANGED running
  /\ \/ /\ running = "commerce" /\ CheckoutNext
        /\ UNCHANGED <<processingMode, wallet, entityVars, processingVars, webhookReply, webhookHit,
                       wpc, wl, lineage>>
     \/ /\ running = "fintech" /\ WebhookNext
        /\ UNCHANGED <<stockVars, businessVars, clientVars, dbFailed>>
MCSpec == MCInit /\ [][MCNext]_targetVars

Interchangeable ==
  UNION {Permutations(S) : S \in {{q1, q2}, {sc1, sc2}, {i1, i2}, {a1, a2}, {d1, d2}}}
=============================================================================
