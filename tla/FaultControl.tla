---------------------------- MODULE FaultControl ----------------------------
(***************************************************************************)
(* The controlled-fault plans a target keeps in its own database: at most  *)
(* one plan per kind, armed and disarmed by its admin API, consumed by the *)
(* hooks of its request path.  Both targets carry the same machinery.      *)
(*                                                                         *)
(* A plan's time to live is a bit that Expire sets; FaultsGranted is a     *)
(* history of the triggers ever granted, which no code reads.              *)
(***************************************************************************)
EXTENDS Naturals

CONSTANTS
  FaultPlanInputs,   \* bodies of arming requests, [version, kind, activation, maxTriggers]
  MaxDisturbances    \* bound on what administrators and the environment do

FAULT_PLAN_VERSION == "controlled-fault/v1"
PRE_MUTATION_REJECTION == "PRE_MUTATION_REJECTION"
CRASH_MID_PROCESSING == "CRASH_MID_PROCESSING"
RESPONSE_TRUNCATION == "RESPONSE_TRUNCATION"
FAULT_KINDS == {PRE_MUTATION_REJECTION, CRASH_MID_PROCESSING, RESPONSE_TRUNCATION}
FAULT_ACTIVATIONS == {"first_n_matching_deliveries"}
FAULT_PLAN_TRIGGERS == 1 .. 10

VARIABLES
  plans,          \* the plan row of each kind, or NoPlan
  faultsGranted,  \* history: triggers granted by all armings of a kind
  disturbances    \* administrative requests, expiries and errors so far

faultVars == <<plans, faultsGranted, disturbances>>

Plan == [maxTriggers : {0} \union FAULT_PLAN_TRIGGERS, triggersUsed : Nat, expired : BOOLEAN]
NoPlan == [maxTriggers |-> 0, triggersUsed |-> 0, expired |-> FALSE]

FaultInit ==
  /\ plans = [k \in FAULT_KINDS |-> NoPlan]
  /\ faultsGranted = [k \in FAULT_KINDS |-> 0]
  /\ disturbances = 0

Disturb == disturbances < MaxDisturbances /\ disturbances' = disturbances + 1

validateFaultPlanInput(input) ==
  /\ input.version = FAULT_PLAN_VERSION
  /\ input.kind \in FAULT_KINDS
  /\ input.activation \in FAULT_ACTIVATIONS
  /\ input.maxTriggers \in FAULT_PLAN_TRIGGERS

\* Arming replaces the plan of its kind: a fresh budget and time to live.
arm(input) ==
  /\ Disturb
  /\ IF validateFaultPlanInput(input)
       THEN /\ plans' = [plans EXCEPT ![input.kind] =
                 [maxTriggers |-> input.maxTriggers, triggersUsed |-> 0, expired |-> FALSE]]
            /\ faultsGranted' = [faultsGranted EXCEPT ![input.kind] = @ + input.maxTriggers]
       ELSE UNCHANGED <<plans, faultsGranted>>

disarm(kind) ==
  /\ plans[kind] # NoPlan
  /\ Disturb
  /\ plans' = [plans EXCEPT ![kind] = NoPlan]
  /\ UNCHANGED faultsGranted

\* FAULT_PLAN_TTL_MS elapses.
ExpirePlan(kind) ==
  /\ Disturb
  /\ plans[kind] # NoPlan /\ ~plans[kind].expired
  /\ plans' = [plans EXCEPT ![kind].expired = TRUE]
  /\ UNCHANGED faultsGranted

FaultAdmin ==
  \/ \E input \in FaultPlanInputs : arm(input)
  \/ \E k \in FAULT_KINDS : disarm(k) \/ ExpirePlan(k)

Triggerable_offByOne(kind) ==
  /\ plans[kind] # NoPlan /\ ~plans[kind].expired
  /\ plans[kind].triggersUsed <= plans[kind].maxTriggers

\* The WHERE clause of the conditional update.
Triggerable(kind) ==
  /\ ~plans[kind].expired
  /\ plans[kind].triggersUsed < plans[kind].maxTriggers

\* One atomic conditional update.  No caller tells DISARMED from
\* BUDGET_EXHAUSTED: both are "the hook did not trigger".
consumeTrigger(kind, triggered) ==
  /\ triggered = Triggerable(kind)
  /\ plans' = IF triggered THEN [plans EXCEPT ![kind].triggersUsed = @ + 1] ELSE plans
  /\ UNCHANGED <<faultsGranted, disturbances>>
=============================================================================
