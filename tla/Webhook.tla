------------------------------- MODULE Webhook -------------------------------
(***************************************************************************)
(* The fintech target: physical deliveries of a provider's events credit   *)
(* one wallet, concurrently, under an idempotency key whose scope is the   *)
(* event or the payment, while an administrator switches the mode, resets  *)
(* the scenario and arms faults, and an inspector reads the lineage of a   *)
(* payment.  Every awaited statement or transaction is one action.         *)
(*                                                                         *)
(* Each payment has the canonical amount, so the wallet's balance counts   *)
(* credits.  An effect and its ledger entry are one record.  A reset makes *)
(* a new wallet; a payment's identity names its wallet, so that deleted    *)
(* payments and events never come back.                                    *)
(***************************************************************************)
EXTENDS Integers, FiniteSets, FaultControl

CONSTANTS
  Payments,       \* logical payments the provider may create
  Deliveries,     \* physical deliveries
  DeliveryIds     \* deliveryAttemptIds of their headers

EventTypes == {"PAYMENT_CONFIRMED", "PAYMENT_SETTLED"}
PROCESSING_MODES == {"VULNERABLE", "SECURE"}

VARIABLES
  processingMode,
  wallet,           \* [id, balanceMinor]; a reset creates the next one, 0: none yet
  payments,         \* provider_payment rows, [name, wallet]
  providerEvents,   \* provider_event rows, [payment, type]
  deliveries,       \* webhook_delivery rows, [id, delivery, event, status]
  webhookAttempts,  \* processing_attempt rows, [delivery, event, outcome]
  ledger,           \* effects with their ledger entries
  webhookReply, webhookHit,
  wpc, wl,          \* per delivery: control point, locals
  lineage           \* the inspector: control point and what it read

entityVars == <<payments, providerEvents>>
processingVars == <<deliveries, webhookAttempts, ledger>>
webhookVars == <<processingMode, wallet, entityVars, processingVars, webhookReply, webhookHit,
                 wpc, wl, lineage, faultVars>>

NoEvent == [payment |-> [name |-> "none", wallet |-> 0], type |-> "none"]
NoDelivery == [id |-> "none", event |-> NoEvent, mode |-> "none", outcome |-> "none"]
Idle == [point |-> "idle", wallet |-> 0, balance |-> 0, difference |-> 0]

WebhookInit ==
  /\ processingMode = "VULNERABLE"
  /\ wallet = [id |-> 0, balanceMinor |-> 0]
  /\ payments = {} /\ providerEvents = {}
  /\ deliveries = {} /\ webhookAttempts = {} /\ ledger = {}
  /\ webhookReply = [d \in Deliveries |-> "none"]
  /\ webhookHit = [d \in Deliveries |-> "none"]
  /\ wpc = [d \in Deliveries |-> "idle"]
  /\ wl = [d \in Deliveries |-> NoDelivery]
  /\ lineage = Idle
  /\ FaultInit

-----------------------------------------------------------------------------
(* The provider and the administrator *)

\* createCanonicalPaymentScenario: the payment, then its events one by one.
CreatePayment(p) ==
  /\ wallet.id > 0
  /\ [name |-> p, wallet |-> wallet.id] \notin payments
  /\ payments' = payments \union {[name |-> p, wallet |-> wallet.id]}
  /\ UNCHANGED <<processingMode, wallet, providerEvents, processingVars, webhookReply, webhookHit,
                 wpc, wl, lineage, faultVars>>

CreateEvent(payment, type) ==
  /\ type = "PAYMENT_SETTLED" =>
       [payment |-> payment, type |-> "PAYMENT_CONFIRMED"] \in providerEvents
  /\ providerEvents' = providerEvents \union {[payment |-> payment, type |-> type]}
  /\ UNCHANGED <<processingMode, wallet, payments, processingVars, webhookReply, webhookHit,
                 wpc, wl, lineage, faultVars>>

setProcessingMode(mode) ==
  /\ mode # processingMode
  /\ Disturb
  /\ processingMode' = mode
  /\ UNCHANGED <<wallet, entityVars, processingVars, webhookReply, webhookHit, wpc, wl, lineage,
                 plans, faultsGranted>>

\* One transaction: every row deleted, the mode VULNERABLE, a new wallet.
resetScenario ==
  /\ Disturb
  /\ processingMode' = "VULNERABLE"
  /\ wallet' = [id |-> wallet.id + 1, balanceMinor |-> 0]
  /\ payments' = {} /\ providerEvents' = {}
  /\ deliveries' = {} /\ webhookAttempts' = {} /\ ledger' = {}
  /\ UNCHANGED <<webhookReply, webhookHit, wpc, wl, lineage, plans, faultsGranted>>

-----------------------------------------------------------------------------
(* One delivery: processDelivery and its route *)

WAt(d, point) == wpc[d] = point
WGo(d, point) == wpc' = [wpc EXCEPT ![d] = point]
WReply(d, status) ==
  /\ webhookReply' = [webhookReply EXCEPT ![d] = status]
  /\ wl' = [wl EXCEPT ![d] = NoDelivery]
  /\ WGo(d, "done")
MyEvent(d) == wl[d].event

\* Refused before any row is read: header, signature, schema, unknown event,
\* or a payload that contradicts the registered event or payment.
RefuseDelivery(d) ==
  /\ WAt(d, "idle")
  /\ WReply(d, "refused")
  /\ UNCHANGED <<processingMode, wallet, entityVars, processingVars, webhookHit, lineage,
                 faultVars>>

\* The event with its payment and wallet, in one read.
ResolveEvent(d) ==
  /\ WAt(d, "idle")
  /\ \E e \in providerEvents, id \in DeliveryIds :
       wl' = [wl EXCEPT ![d].event = e, ![d].id = id]
  /\ WGo(d, "fault")
  /\ UNCHANGED <<processingMode, wallet, entityVars, processingVars, webhookReply, webhookHit,
                 lineage, faultVars>>

WebhookHook(d, point, kind, next, last) ==
  /\ WAt(d, point)
  /\ \E triggered \in BOOLEAN :
       /\ consumeTrigger(kind, triggered)
       /\ webhookHit' = IF triggered THEN [webhookHit EXCEPT ![d] = kind] ELSE webhookHit
       /\ IF triggered THEN WReply(d, last)
          ELSE IF next = "done" THEN WReply(d, wl[d].outcome)
          ELSE WGo(d, next) /\ UNCHANGED <<webhookReply, wl>>
  /\ UNCHANGED <<processingMode, wallet, entityVars, processingVars, lineage>>

\* A foreign key into a deleted event fails the insert.
CreateDelivery(d) ==
  /\ WAt(d, "delivery")
  /\ IF \E row \in deliveries : row.id = wl[d].id
       THEN WReply(d, "DUPLICATE_DELIVERY_IDENTITY") /\ UNCHANGED deliveries
     ELSE IF MyEvent(d) \in providerEvents
       THEN /\ deliveries' = deliveries \union
                 {[id |-> wl[d].id, delivery |-> d, event |-> MyEvent(d), status |-> "ACCEPTED"]}
            /\ WGo(d, "attempt") /\ UNCHANGED <<webhookReply, wl>>
     ELSE WReply(d, "error") /\ UNCHANGED deliveries
  /\ UNCHANGED <<processingMode, wallet, entityVars, webhookAttempts, ledger, webhookHit,
                 lineage, faultVars>>

CreateWebhookAttempt(d) ==
  /\ WAt(d, "attempt")
  /\ IF \E row \in deliveries : row.delivery = d
       THEN /\ webhookAttempts' = webhookAttempts \union
                 {[delivery |-> d, event |-> MyEvent(d), outcome |-> "none"]}
            /\ WGo(d, "mode") /\ UNCHANGED <<webhookReply, wl>>
       ELSE WReply(d, "error") /\ UNCHANGED webhookAttempts
  /\ UNCHANGED <<processingMode, wallet, entityVars, deliveries, ledger, webhookHit, lineage,
                 faultVars>>

ReadMode(d) ==
  /\ WAt(d, "mode")
  /\ wl' = [wl EXCEPT ![d].mode = processingMode]
  /\ WGo(d, "credit")
  /\ UNCHANGED <<processingMode, wallet, entityVars, processingVars, webhookReply, webhookHit,
                 lineage, faultVars>>

deriveIdempotencyKey_swapped(mode, event) ==
  [payment |-> event.payment, event |-> IF mode = "SECURE" THEN event.type ELSE "any"]

\* The scope of the key is the whole difference between the two modes.
deriveIdempotencyKey(mode, event) ==
  [payment |-> event.payment, event |-> IF mode = "SECURE" THEN "any" ELSE event.type]

Key(d) == deriveIdempotencyKey(wl[d].mode, MyEvent(d))
WAttemptsOf(d) == {a \in webhookAttempts : a.delivery = d}

BalanceAfter_always(applied) == [wallet EXCEPT !.balanceMinor = @ + 1]
BalanceAfter(applied) == IF applied THEN [wallet EXCEPT !.balanceMinor = @ + 1] ELSE wallet

\* One transaction: effect, ledger entry with its unique key, balance.  The
\* key's conflict rolls back to a duplicate, anything else to a failure.
applyWalletCreditFinancialEffect(d) ==
  /\ WAt(d, "credit")
  /\ IF WAttemptsOf(d) = {}
       THEN WGo(d, "failed") /\ UNCHANGED <<ledger, wallet, wl>>
       ELSE LET applied == \A l \in ledger : l.key # Key(d)
            IN  /\ ledger' = IF applied
                     THEN ledger \union {[key |-> Key(d), delivery |-> d, event |-> MyEvent(d),
                                          mode |-> wl[d].mode]}
                     ELSE ledger
                /\ wallet' = BalanceAfter(applied)
                /\ wl' = [wl EXCEPT ![d].outcome =
                             IF applied THEN "APPLIED" ELSE "IDEMPOTENT_DUPLICATE"]
                /\ WGo(d, "finalize")
  /\ UNCHANGED <<processingMode, entityVars, deliveries, webhookAttempts, webhookReply, webhookHit,
                 lineage, faultVars>>

TryBlock_finalizeToo == {"mode", "credit", "finalize"}
TryBlock == {"mode", "credit"}

\* The database fails the mode read or the transaction, which rolls back.
CreditFails(d) ==
  /\ wpc[d] \in TryBlock
  /\ Disturb
  /\ WGo(d, "failed")
  /\ UNCHANGED <<processingMode, wallet, entityVars, processingVars, webhookReply, webhookHit, wl,
                 lineage, plans, faultsGranted>>

SetWebhookOutcome(d, outcome) ==
  webhookAttempts' =
    {IF a.delivery = d THEN [a EXCEPT !.outcome = outcome] ELSE a : a \in webhookAttempts}

\* Two best-effort updates, then the error response.
RecordFailedAttempt(d) ==
  /\ WAt(d, "failed")
  /\ SetWebhookOutcome(d, "FAILED")
  /\ WGo(d, "failedDelivery")
  /\ UNCHANGED <<processingMode, wallet, entityVars, deliveries, ledger, webhookReply, webhookHit,
                 wl, lineage, faultVars>>

RecordFailedDelivery(d) ==
  /\ WAt(d, "failedDelivery")
  /\ deliveries' = {IF row.delivery = d THEN [row EXCEPT !.status = "FAILED_PROCESSING"] ELSE row :
                      row \in deliveries}
  /\ WReply(d, "PROCESSING_FAILED")
  /\ UNCHANGED <<processingMode, wallet, entityVars, webhookAttempts, ledger, webhookHit,
                 lineage, faultVars>>

\* Outside the try: when it fails, because a reset deleted the row or the
\* database is unavailable, the attempt is left as it is.
FinalizeDelivery(d) ==
  /\ WAt(d, "finalize")
  /\ \/ /\ WAttemptsOf(d) # {}
        /\ SetWebhookOutcome(d, wl[d].outcome)
        /\ WGo(d, "truncate")
        /\ UNCHANGED <<webhookReply, wl, disturbances>>
     \/ /\ IF WAttemptsOf(d) = {} THEN UNCHANGED disturbances ELSE Disturb
        /\ WReply(d, "error")
        /\ UNCHANGED webhookAttempts
  /\ UNCHANGED <<processingMode, wallet, entityVars, deliveries, ledger, webhookHit, lineage,
                 plans, faultsGranted>>

Delivery(d) ==
  \/ RefuseDelivery(d) \/ ResolveEvent(d) \/ CreateDelivery(d) \/ CreateWebhookAttempt(d)
  \/ ReadMode(d) \/ applyWalletCreditFinancialEffect(d) \/ CreditFails(d)
  \/ RecordFailedAttempt(d) \/ RecordFailedDelivery(d) \/ FinalizeDelivery(d)
  \/ WebhookHook(d, "fault", PRE_MUTATION_REJECTION, "delivery", "rejected")
  \/ WebhookHook(d, "truncate", RESPONSE_TRUNCATION, "crash", "lost")
  \/ WebhookHook(d, "crash", CRASH_MID_PROCESSING, "done", "lost")

-----------------------------------------------------------------------------
(* paymentLineage: the payment with its wallet, and later the ledger's sum *)

ReadLineage ==
  /\ lineage.point \in {"idle", "reported"}
  /\ payments # {}
  /\ lineage' = [point |-> "sum", wallet |-> wallet.id, balance |-> wallet.balanceMinor,
                 difference |-> 0]
  /\ UNCHANGED <<processingMode, wallet, entityVars, processingVars, webhookReply, webhookHit,
                 wpc, wl, faultVars>>

LedgerSum_distinctAmounts(walletId) ==
  IF \E l \in ledger : l.event.payment.wallet = walletId THEN 1 ELSE 0
LedgerSum(walletId) == Cardinality({l \in ledger : l.event.payment.wallet = walletId})

SumLedger ==
  /\ lineage.point = "sum"
  /\ lineage' = [lineage EXCEPT !.point = "reported", !.balance = 0,
                                !.difference = lineage.balance - LedgerSum(lineage.wallet)]
  /\ UNCHANGED <<processingMode, wallet, entityVars, processingVars, webhookReply, webhookHit,
                 wpc, wl, faultVars>>

WebhookNext ==
  \/ \E p \in Payments : CreatePayment(p)
  \/ \E m \in payments, t \in EventTypes : CreateEvent(m, t)
  \/ \E m \in PROCESSING_MODES : setProcessingMode(m)
  \/ resetScenario
  \/ \E d \in Deliveries : Delivery(d)
  \/ ReadLineage \/ SumLedger
  \/ FaultAdmin /\ UNCHANGED <<processingMode, wallet, entityVars, processingVars, webhookReply,
                               webhookHit, wpc, wl, lineage>>

WebhookSpec == WebhookInit /\ [][WebhookNext]_webhookVars

-----------------------------------------------------------------------------
(* Properties *)

\* The wallet's balance is the sum of its accepted ledger entries, whatever
\* overlaps and whenever the scenario is reset.
WalletConserved ==
  /\ wallet.balanceMinor = Cardinality(ledger)
  /\ \A l \in ledger : l.event.payment.wallet = wallet.id

\* In the secure mode a payment, in the naive mode an event is credited at
\* most once, however many deliveries race (deriveIdempotencyKey, the unique
\* index); only deliveries of both modes or naive ones credit a payment twice.
CreditedOnce ==
  \A l1, l2 \in ledger :
    /\ l1.event.payment = l2.event.payment
    /\ l1.mode = l2.mode
    /\ l1.mode = "SECURE" \/ l1.event = l2.event
    => l1 = l2

\* The recorded outcome of an attempt is what happened to its delivery: a
\* suppressed duplicate is suppressed by another delivery's credit, a failed
\* attempt credited nothing, and a lost response belongs to a final attempt.
DeliveryOutcomesTruthful ==
  \A a \in webhookAttempts :
    LET own == {l \in ledger : l.delivery = a.delivery}
    IN  /\ a.outcome = "APPLIED" => own # {}
        /\ a.outcome = "FAILED" => own = {}
        /\ a.outcome = "IDEMPOTENT_DUPLICATE" =>
             own = {} /\ \E l \in ledger : l.event.payment = a.event.payment
        /\ webhookReply[a.delivery] = "lost" => a.outcome \in {"APPLIED", "IDEMPOTENT_DUPLICATE"}
        /\ webhookReply[a.delivery] = "APPLIED" => own # {}

\* The inspector reads balance and ledger in two statements.  Credits that
\* commit in between can only make the ledger look larger: unless the
\* scenario was reset, it never reports money without ledger entries.
NoPhantomBalance ==
  lineage.wallet = wallet.id => lineage.difference <= 0
=============================================================================
