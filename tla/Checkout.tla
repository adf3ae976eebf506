------------------------------ MODULE Checkout ------------------------------
(***************************************************************************)
(* The commerce target: concurrent physical submissions of logical         *)
(* checkout intents against the last units of one SKU, in the naive or the *)
(* idempotent mode, while an administrator resets the scenario, switches   *)
(* the mode and arms response faults.  Every statement or transaction that *)
(* the code awaits is one action of the submission that runs it.           *)
(*                                                                         *)
(* A row identity created by the database is modelled by what makes it     *)
(* unique: an intent row by its scope, its intent and the generation it    *)
(* was created in (a reset deletes the older ones).  A reservation and its *)
(* order are one record; its unit names the stock baseline it was taken    *)
(* from, and no code reads it.  Totals, currencies, customers, the start   *)
(* sequence and the configuration's revision decide nothing here and are   *)
(* left out.                                                               *)
(***************************************************************************)
EXTENDS Integers, FiniteSets, FaultControl

CONSTANTS
  Requests,          \* physical submissions, one HTTP request each
  Intents,           \* checkoutIntentIds of their payloads
  AttemptIds,        \* requestAttemptIds of their headers
  Scopes,            \* scope tokens
  Units              \* baselines a reset may declare

ASSUME CheckoutAssumption == Units \subseteq Nat /\ "none" \notin Scopes

Modes == {"VULNERABLE", "SECURE"}
NoMode == "none"
NoScope == "none"

VARIABLES
  settings,          \* the processing mode; NoMode: no row yet
  sku,               \* [scope, initial, remaining]; scope NoScope: no row yet
  generation,        \* per scope: generationId, 0 before the first reset
  intents,           \* checkout_intent rows
  settled,           \* those with status SETTLED
  events,            \* intent rows that have their checkout_event
  requestAttempts,   \* request_attempt rows, [id, row, request]
  attempts,          \* processing_attempt rows
  orders,            \* order rows with their reservation
  reply,             \* what each client saw
  hit,               \* the fault that a submission met, or "none"
  cpc, cl,           \* per submission: control point, locals
  dbFailed           \* history: the database has failed a statement

businessVars == <<intents, settled, events, requestAttempts, attempts, orders>>
stockVars == <<settings, sku, generation>>
clientVars == <<reply, hit, cpc, cl>>
checkoutVars == <<stockVars, businessVars, clientVars, dbFailed, faultVars>>

Baseline == <<sku.scope, IF sku.scope = NoScope THEN 0 ELSE generation[sku.scope]>>
RowOf(scope, r) == [scope |-> scope, intent |-> cl[r].intent, gen |-> generation[scope]]
Outcomes == {"ACCEPTED", "INTENT_ALREADY_ACCEPTED", "STOCK_UNAVAILABLE"}
NoReply == [status |-> "none", outcome |-> "none"]
NoRow == [scope |-> NoScope, intent |-> "none", gen |-> 0]
NoLocal == [intent |-> "none", id |-> "none", mode |-> NoMode, scope |-> NoScope, row |-> NoRow, outcome |-> "none"]

CheckoutInit ==
  /\ settings = NoMode
  /\ sku = [scope |-> NoScope, initial |-> 0, remaining |-> 0]
  /\ generation = [s \in Scopes |-> 0]
  /\ intents = {} /\ settled = {} /\ events = {}
  /\ requestAttempts = {} /\ attempts = {} /\ orders = {}
  /\ reply = [r \in Requests |-> NoReply]
  /\ hit = [r \in Requests |-> "none"]
  /\ cpc = [r \in Requests |-> "idle"]
  /\ cl = [r \in Requests |-> NoLocal]
  /\ dbFailed = FALSE
  /\ FaultInit

-----------------------------------------------------------------------------
(* One submission *)

At(r, point) == cpc[r] = point
Go(r, point) == cpc' = [cpc EXCEPT ![r] = point]
Reply(r, status, outcome) ==
  /\ reply' = [reply EXCEPT ![r] = [status |-> status, outcome |-> outcome]]
  /\ cl' = [cl EXCEPT ![r] = NoLocal]
  /\ Go(r, "done")
Result(r, outcome, point) == cl' = [cl EXCEPT ![r].outcome = outcome] /\ Go(r, point)

\* Header, signature or payload refused: nothing is read or written.
RefuseSubmission(r) ==
  /\ At(r, "idle")
  /\ Reply(r, "refused", "none")
  /\ UNCHANGED <<stockVars, businessVars, hit, dbFailed, faultVars>>

\* The hook after all validation and before any persistence.
PreMutationHook(r) ==
  /\ At(r, "idle")
  /\ \E triggered \in BOOLEAN :
       /\ consumeTrigger(PRE_MUTATION_REJECTION, triggered)
       /\ IF triggered
            THEN /\ hit' = [hit EXCEPT ![r] = PRE_MUTATION_REJECTION]
                 /\ Reply(r, "rejected", "none")
            ELSE /\ \E intent \in Intents, id \in AttemptIds :
                      cl' = [cl EXCEPT ![r].intent = intent, ![r].id = id]
                 /\ Go(r, "configuration") /\ UNCHANGED <<reply, hit>>
  /\ UNCHANGED <<stockVars, businessVars, dbFailed>>

\* getProcessingConfiguration creates the settings row with its defaults.
Configuration == IF settings = NoMode THEN "VULNERABLE" ELSE settings

ReadConfiguration(r) ==
  /\ At(r, "configuration")
  /\ settings' = Configuration
  /\ cl' = [cl EXCEPT ![r].mode = Configuration]
  /\ Go(r, "scope")
  /\ UNCHANGED <<sku, generation, businessVars, reply, hit, dbFailed, faultVars>>

currentScope(r) ==
  /\ At(r, "scope")
  /\ IF sku.scope = NoScope
       THEN Reply(r, "SKU_NOT_INITIALIZED", "none")
       ELSE /\ cl' = [cl EXCEPT ![r].scope = sku.scope]
            /\ Go(r, "intent") /\ UNCHANGED reply
  /\ UNCHANGED <<stockVars, businessVars, hit, dbFailed, faultVars>>

\* The upsert, whose loser reads the winner's row.
UpsertIntent(r) ==
  /\ At(r, "intent")
  /\ LET row == RowOf(cl[r].scope, r)
     IN  /\ intents' = intents \union {row}
         /\ cl' = [cl EXCEPT ![r].row = row]
  /\ Go(r, "event")
  /\ UNCHANGED <<stockVars, settled, events, requestAttempts, attempts, orders, reply, hit,
                 dbFailed, faultVars>>

\* A foreign key into a row that a reset deleted fails the statement.
UpsertEvent(r) ==
  /\ At(r, "event")
  /\ IF cl[r].row \in intents
       THEN /\ events' = events \union {cl[r].row}
            /\ Go(r, "request") /\ UNCHANGED <<reply, cl>>
       ELSE Reply(r, "error", "none") /\ UNCHANGED events
  /\ UNCHANGED <<stockVars, intents, settled, requestAttempts, attempts, orders, hit,
                 dbFailed, faultVars>>

\* requestAttemptId is unique over all scopes.
CreateRequestAttempt(r) ==
  /\ At(r, "request")
  /\ IF \E a \in requestAttempts : a.id = cl[r].id
       THEN Reply(r, "REQUEST_ATTEMPT_IDENTITY_CONFLICT", "none") /\ UNCHANGED requestAttempts
     ELSE IF cl[r].row \in events
       THEN /\ requestAttempts' = requestAttempts \union
                 {[id |-> cl[r].id, row |-> cl[r].row, request |-> r]}
            /\ Go(r, "attempt") /\ UNCHANGED <<reply, cl>>
     ELSE Reply(r, "error", "none") /\ UNCHANGED requestAttempts
  /\ UNCHANGED <<stockVars, intents, settled, events, attempts, orders, hit, dbFailed, faultVars>>

CreateProcessingAttempt(r) ==
  /\ At(r, "attempt")
  /\ IF \E a \in requestAttempts : a.request = r
       THEN /\ attempts' = attempts \union
                 {[request |-> r, row |-> cl[r].row, mode |-> cl[r].mode, outcome |-> "none"]}
            /\ Go(r, IF cl[r].mode = "VULNERABLE" THEN "check" ELSE "reserve")
            /\ UNCHANGED <<reply, cl>>
       ELSE Reply(r, "error", "none") /\ UNCHANGED attempts
  /\ UNCHANGED <<stockVars, intents, settled, events, requestAttempts, orders, hit,
                 dbFailed, faultVars>>

AttemptsOf(r) == {a \in attempts : a.request = r}
TakeUnit_clamped == sku' = [sku EXCEPT !.remaining = IF @ > 0 THEN @ - 1 ELSE 0]
TakeUnit == sku' = [sku EXCEPT !.remaining = @ - 1]
NewOrder(r) == [request |-> r, row |-> cl[r].row, mode |-> cl[r].mode, unit |-> Baseline]

\* reserveNaiveCheckThenAct, the read outside any transaction ...
NaiveCheck(r) ==
  /\ At(r, "check")
  /\ IF sku.remaining <= 0 THEN Result(r, "STOCK_UNAVAILABLE", "finalize")
                           ELSE Go(r, "act") /\ UNCHANGED cl
  /\ UNCHANGED <<stockVars, businessVars, reply, hit, dbFailed, faultVars>>

\* ... and the transaction, whose decrement is unconditional.
NaiveAct(r) ==
  /\ At(r, "act")
  /\ IF AttemptsOf(r) # {}
       THEN /\ orders' = orders \union {NewOrder(r)}
            /\ TakeUnit
            /\ Result(r, "ACCEPTED", "finalize")
       ELSE Go(r, "failed") /\ UNCHANGED <<orders, sku, cl>>
  /\ UNCHANGED <<settings, generation, intents, settled, events, requestAttempts, attempts,
                 reply, hit, dbFailed, faultVars>>

\* A settlement that matches no row, settled or deleted, is an already
\* accepted intent; the decrement is conditional on a unit being there.
ReserveOutcome_oversold(r) ==
  IF cl[r].row \notin intents \ settled THEN "INTENT_ALREADY_ACCEPTED"
  ELSE IF sku.remaining < 0 THEN "STOCK_UNAVAILABLE"
  ELSE "ACCEPTED"
ReserveOutcome(r) ==
  IF cl[r].row \notin intents \ settled THEN "INTENT_ALREADY_ACCEPTED"
  ELSE IF sku.remaining <= 0 THEN "STOCK_UNAVAILABLE"
  ELSE "ACCEPTED"

\* StockUnavailableSignal rolls the settlement back.
SettledAfter(r, outcome) ==
  IF outcome = "ACCEPTED" THEN settled \union {cl[r].row} ELSE settled

\* One transaction: the conditional settlement, the conditional decrement,
\* the order.
reserveIdempotentIntentScoped(r) ==
  /\ At(r, "reserve")
  /\ LET outcome == ReserveOutcome(r)
     IN  /\ settled' = SettledAfter(r, outcome)
         /\ IF outcome = "ACCEPTED"
              THEN orders' = orders \union {NewOrder(r)} /\ TakeUnit
              ELSE UNCHANGED <<orders, sku>>
         /\ Result(r, outcome, "finalize")
  /\ UNCHANGED <<settings, generation, intents, events, requestAttempts, attempts, reply, hit,
                 dbFailed, faultVars>>

\* Mutant: the update finds the attempt by its intent.
SetOutcome_byIntent(r, outcome) ==
  attempts' = {IF a.row = cl[r].row THEN [a EXCEPT !.outcome = outcome] ELSE a : a \in attempts}
SetOutcome(r, outcome) ==
  attempts' = {IF a.request = r THEN [a EXCEPT !.outcome = outcome] ELSE a : a \in attempts}

\* The update of the attempt row throws when a reset deleted the row.
FinalizeAttempt(r) ==
  /\ At(r, "finalize")
  /\ IF AttemptsOf(r) # {}
       THEN /\ SetOutcome(r, IF cl[r].outcome = "STOCK_UNAVAILABLE" THEN "FAILED" ELSE cl[r].outcome)
            /\ Go(r, "truncate")
       ELSE Go(r, "failed") /\ UNCHANGED attempts
  /\ UNCHANGED <<stockVars, intents, settled, events, requestAttempts, orders, reply, hit, cl,
                 dbFailed, faultVars>>

\* The catch block: the attempt is recorded FAILED if its row is there; an
\* error of that update is swallowed.
RecordFailure(r) ==
  /\ At(r, "failed")
  /\ \/ SetOutcome(r, "FAILED") /\ UNCHANGED <<dbFailed, faultVars>>
     \/ Disturb /\ dbFailed' = TRUE /\ UNCHANGED <<attempts, plans, faultsGranted>>
  /\ Reply(r, "error", "none")
  /\ UNCHANGED <<stockVars, intents, settled, events, requestAttempts, orders, hit>>

\* The two response-loss hooks of the route, truncation first.
ResponseHook(r, point, kind) ==
  /\ At(r, point)
  /\ \E triggered \in BOOLEAN :
       /\ consumeTrigger(kind, triggered)
       /\ IF triggered
            THEN Reply(r, "lost", "none") /\ hit' = [hit EXCEPT ![r] = kind]
          ELSE IF point = "truncate"
            THEN Go(r, "crash") /\ UNCHANGED <<reply, cl, hit>>
          ELSE Reply(r, "ok", cl[r].outcome) /\ UNCHANGED hit
  /\ UNCHANGED <<stockVars, businessVars, dbFailed>>

\* The database fails a statement.  Before the processing attempt exists the
\* error goes straight to the client; after it, through the catch block.  At
\* "truncate" it is the scope read that follows the update of the attempt.
DbError(r) ==
  /\ Disturb
  /\ dbFailed' = TRUE
  /\ \/ /\ cpc[r] \in {"configuration", "scope", "intent", "event", "request", "attempt"}
        /\ Reply(r, "error", "none")
     \/ /\ cpc[r] \in {"check", "act", "reserve", "finalize", "truncate"}
        /\ Go(r, "failed") /\ UNCHANGED <<reply, cl>>
  /\ UNCHANGED <<stockVars, businessVars, hit, plans, faultsGranted>>

Submission(r) ==
  \/ RefuseSubmission(r) \/ PreMutationHook(r) \/ ReadConfiguration(r) \/ currentScope(r)
  \/ UpsertIntent(r) \/ UpsertEvent(r) \/ CreateRequestAttempt(r) \/ CreateProcessingAttempt(r)
  \/ NaiveCheck(r) \/ NaiveAct(r) \/ reserveIdempotentIntentScoped(r)
  \/ FinalizeAttempt(r) \/ RecordFailure(r) \/ DbError(r)
  \/ ResponseHook(r, "truncate", RESPONSE_TRUNCATION)
  \/ ResponseHook(r, "crash", CRASH_MID_PROCESSING)

-----------------------------------------------------------------------------
(* Administration *)

setProcessingConfiguration(mode) ==
  /\ mode # settings
  /\ Disturb
  /\ settings' = mode
  /\ UNCHANGED <<sku, generation, businessVars, clientVars, dbFailed, plans, faultsGranted>>

\* One transaction: the generation advances, the business rows of the scope
\* are deleted, the SKU is bound to the scope and its stock declared anew.
\* Without a mode the settings must exist and the SKU must not be another
\* scope's.
resetScenarioContext(scope, units, mode) ==
  /\ Disturb
  /\ mode = NoMode => settings # NoMode /\ sku.scope \in {NoScope, scope}
  /\ settings' = IF mode = NoMode THEN settings ELSE mode
  /\ generation' = [generation EXCEPT ![scope] = @ + 1]
  /\ intents' = {row \in intents : row.scope # scope}
  /\ settled' = {row \in settled : row.scope # scope}
  /\ events' = {row \in events : row.scope # scope}
  /\ requestAttempts' = {a \in requestAttempts : a.row.scope # scope}
  /\ attempts' = {a \in attempts : a.row.scope # scope}
  /\ orders' = {o \in orders : o.row.scope # scope}
  /\ sku' = [scope |-> scope, initial |-> units, remaining |-> units]
  /\ UNCHANGED <<clientVars, dbFailed, plans, faultsGranted>>

Administration ==
  \/ \E m \in Modes : setProcessingConfiguration(m)
  \/ \E s \in Scopes, u \in Units, m \in Modes \union {NoMode} : resetScenarioContext(s, u, m)
  \/ FaultAdmin /\ UNCHANGED <<stockVars, businessVars, clientVars, dbFailed>>

CheckoutNext == (\E r \in Requests : Submission(r)) \/ Administration
CheckoutSpec == CheckoutInit /\ [][CheckoutNext]_checkoutVars

-----------------------------------------------------------------------------
(* Properties *)

OfBaseline == {o \in orders : o.unit = Baseline}
Naive(os) == {o \in os : o.mode = "VULNERABLE"}

\* Every unit of the declared stock is either remaining or taken by exactly
\* one order, whatever overlaps and whenever the scenario is reset
\* (resetScenarioContext, both reserve pipelines).
StockConserved == sku.remaining = sku.initial - Cardinality(OfBaseline)

\* The idempotent pipeline neither takes a unit that is not there, also while
\* naive requests of an earlier configuration are still in flight, nor accepts
\* one intent twice (reserveIdempotentIntentScoped).
SecureSellsOnlyStock ==
  /\ sku.remaining + Cardinality(Naive(OfBaseline)) >= 0
  /\ \A o1, o2 \in orders :
       o1.mode = "SECURE" /\ o2.mode = "SECURE" /\ o1.row = o2.row => o1 = o2

\* What is recorded and answered is what happened: an attempt is ACCEPTED by
\* its own order, INTENT_ALREADY_ACCEPTED by another submission's order, and
\* FAILED without an order unless a statement after the commit failed; a lost
\* response belongs to a finalized attempt (submitCheckout, the route's hooks).
OutcomesTruthful ==
  \A a \in attempts :
    LET own == {o \in orders : o.request = a.request}
    IN  /\ a.outcome = "ACCEPTED" => own # {}
        /\ a.outcome = "INTENT_ALREADY_ACCEPTED" =>
             own = {} /\ \E o \in orders : o.row = a.row /\ o.mode = "SECURE"
        /\ a.outcome = "FAILED" /\ own # {} => dbFailed
        /\ reply[a.request].status \in {"ok", "lost"} => a.outcome # "none"
        /\ reply[a.request].outcome = "ACCEPTED" => own # {}

\* No kind of fault is met by more submissions than its armings granted,
\* however many hooks run at once (consumeTrigger).
FaultBudgetKept ==
  \A k \in FAULT_KINDS : Cardinality({r \in Requests : hit[r] = k}) <= faultsGranted[k]
=============================================================================
