--------------------------- MODULE CheckoutProofs ---------------------------
(***************************************************************************)
(* Proofs about Checkout, for any number of submissions, intents, scopes   *)
(* and resets.  What a unit of stock is counted against is the baseline it *)
(* was taken from: the invariant says that orders are of past or current   *)
(* baselines, so that a reset starts the count of the new one at nothing.  *)
(***************************************************************************)
EXTENDS Checkout, FiniteSetTheorems, TLAPS

ScopeNames == Scopes \cup {NoScope}
ModeNames == Modes \cup {NoMode}
Row == [scope : ScopeNames, intent : Intents \cup {"none"}, gen : Nat]
Local == [intent : Intents \cup {"none"}, id : AttemptIds \cup {"none"}, mode : ModeNames,
          scope : ScopeNames, row : Row, outcome : Outcomes \cup {"none"}]
Order == [request : Requests, row : Row, mode : ModeNames, unit : ScopeNames \X Nat]

\* Before its reserve transaction, a submission has no order.
Unserved == {"idle", "configuration", "scope", "intent", "event", "request", "attempt",
             "check", "act", "reserve"}
Points == Unserved \cup {"finalize", "failed", "truncate", "crash", "done"}

StockTypes ==
  /\ settings \in ModeNames
  /\ generation \in [Scopes -> Nat]
  /\ sku \in [scope : ScopeNames, initial : Nat, remaining : Int]
  /\ orders \subseteq Order /\ IsFiniteSet(orders)

ClientTypes == cpc \in [Requests -> Points] /\ cl \in [Requests -> Local]

\* A submission at p with locals l runs the pipeline of the mode it has read.
FlowOK(p, l) ==
  /\ p = "intent" => l.scope \in Scopes
  /\ p \in {"check", "act"} => l.mode = "VULNERABLE"
  /\ p = "reserve" => l.mode # "VULNERABLE"

Flows ==
  /\ \A r \in Requests : FlowOK(cpc[r], cl[r])
  /\ \A o \in orders : cpc[o.request] \notin Unserved

\* No order names a baseline that has not been declared yet.
UnitsPast == \A o \in orders : o.unit[1] \in Scopes => o.unit[2] <= generation[o.unit[1]]

\* The intent of an order of the idempotent pipeline is settled.
SecureSettled == \A o \in orders : o.mode = "SECURE" => o.row \in settled

StockInv ==
  /\ StockTypes /\ ClientTypes /\ Flows /\ UnitsPast /\ SecureSettled
  /\ StockConserved /\ SecureSellsOnlyStock

-----------------------------------------------------------------------------

\* The initial locals are well-typed.
LEMMA NoLocalType == NoLocal \in Local /\ NoLocal.outcome = "none"
BY DEF NoLocal, Local, NoRow, Row, ScopeNames, ModeNames

\* The initial states satisfy the invariant.
LEMMA StockInit == CheckoutInit => StockInv
<1> SUFFICES ASSUME CheckoutInit PROVE StockInv
  OBVIOUS
<1> USE DEF CheckoutInit
<1>1. IsFiniteSet({}) /\ Cardinality({}) = 0
  BY FS_EmptySet
<1>2. StockTypes
  BY <1>1 DEF StockTypes, ScopeNames, ModeNames
<1>3. ClientTypes
  BY NoLocalType DEF ClientTypes, Points, Unserved
<1>4. Flows /\ UnitsPast /\ SecureSettled
  BY DEF Flows, FlowOK, UnitsPast, SecureSettled
<1>5. OfBaseline = {} /\ Naive(OfBaseline) = {}
  BY DEF OfBaseline, Naive
<1>6. /\ Cardinality(OfBaseline) = 0 /\ Cardinality(Naive(OfBaseline)) = 0
      /\ sku.remaining = 0 /\ sku.initial = 0 /\ orders = {}
  BY <1>1, <1>5
<1>7. StockConserved /\ SecureSellsOnlyStock
  BY <1>6 DEF StockConserved, SecureSellsOnlyStock
<1> QED
  BY <1>2, <1>3, <1>4, <1>7 DEF StockInv

-----------------------------------------------------------------------------
(* Steps that take no unit *)

\* Submission r goes to point p with locals l, and no stock or order moves.
QuietMove(r, p, l) ==
  /\ cpc' = [cpc EXCEPT ![r] = p]
  /\ cl' = [cl EXCEPT ![r] = l]
  /\ UNCHANGED <<sku, generation, settled, orders>>

\* A quiet step keeps the invariant if the submission arrives well-typed, on
\* its pipeline, and does not go back before its transaction.
LEMMA QuietKeeps ==
  ASSUME StockInv, settings' \in ModeNames,
         NEW r \in Requests, NEW p \in Points, NEW l \in Local, QuietMove(r, p, l),
         FlowOK(p, l), p \in Unserved => cpc[r] \in Unserved
  PROVE  StockInv'
<1> USE DEF QuietMove
<1>1. StockTypes'
  BY DEF StockInv, StockTypes
<1>2. ClientTypes'
  BY DEF StockInv, ClientTypes
<1>3. /\ cpc'[r] = p /\ cl'[r] = l
      /\ \A q \in Requests \ {r} : cpc'[q] = cpc[q] /\ cl'[q] = cl[q]
  BY DEF StockInv, ClientTypes
<1>4. \A q \in Requests : FlowOK(cpc'[q], cl'[q])
  BY <1>3 DEF StockInv, Flows
<1>5. \A o \in orders : o.request \in Requests
  BY DEF StockInv, StockTypes, Order
<1>6. Flows'
  BY <1>3, <1>4, <1>5 DEF StockInv, Flows
<1>7. UnitsPast' /\ SecureSettled'
  BY DEF StockInv, UnitsPast, SecureSettled
<1>8. OfBaseline' = OfBaseline /\ Naive(OfBaseline)' = Naive(OfBaseline)
  BY DEF OfBaseline, Naive, Baseline
<1>9. StockConserved' /\ SecureSellsOnlyStock'
  BY <1>8 DEF StockInv, StockConserved, SecureSellsOnlyStock
<1> QED
  BY <1>1, <1>2, <1>6, <1>7, <1>9 DEF StockInv
\* What the quiet actions share: the columns they leave alone, and that their
\* types keep.
LEMMA FactsOf ==
  ASSUME StockInv, NEW r \in Requests
  PROVE  /\ cl \in [Requests -> Local] /\ cpc \in [Requests -> Points]
         /\ cl[r] \in Local /\ cpc[r] \in Points /\ FlowOK(cpc[r], cl[r])
         /\ settings \in ModeNames /\ Configuration \in ModeNames /\ Configuration # NoMode
         /\ NoLocal \in Local
BY NoLocalType DEF StockInv, ClientTypes, StockTypes, Flows, Configuration, ModeNames, Modes, NoMode

\* Answering the client ends the submission.
LEMMA ReplyQuiet ==
  ASSUME StockInv, settings' \in ModeNames, NEW r \in Requests, NEW status, NEW outcome,
         Reply(r, status, outcome), UNCHANGED <<sku, generation, settled, orders>>
  PROVE  StockInv'
<1>1. QuietMove(r, "done", NoLocal)
  BY DEF QuietMove, Reply, Go
<1>2. FlowOK("done", NoLocal) /\ "done" \in Points /\ "done" \notin Unserved
  BY DEF FlowOK, Points, Unserved
<1> QED
  BY <1>1, <1>2, FactsOf, QuietKeeps

\* Going on to p with the same locals.
LEMMA GoQuiet ==
  ASSUME StockInv, settings' \in ModeNames, NEW r \in Requests, NEW p \in Points,
         Go(r, p), UNCHANGED cl, UNCHANGED <<sku, generation, settled, orders>>,
         FlowOK(p, cl[r]), p \in Unserved => cpc[r] \in Unserved
  PROVE  StockInv'
<1>1. cl' = [cl EXCEPT ![r] = cl[r]] /\ cl[r] \in Local
  BY FactsOf
<1>2. QuietMove(r, p, cl[r])
  BY <1>1 DEF QuietMove, Go
<1> QED
  BY <1>1, <1>2, QuietKeeps

\* The steps up to the processing attempt.
LEMMA Arrival ==
  ASSUME StockInv, NEW r \in Requests,
         \/ RefuseSubmission(r) \/ PreMutationHook(r) \/ ReadConfiguration(r)
         \/ currentScope(r) \/ UpsertIntent(r) \/ UpsertEvent(r)
         \/ CreateRequestAttempt(r) \/ CreateProcessingAttempt(r)
  PROVE  StockInv'
<1> USE FactsOf DEF stockVars, businessVars, At
<1>0. StockTypes
  BY DEF StockInv
<1>1. CASE RefuseSubmission(r)
  BY <1>1, ReplyQuiet DEF RefuseSubmission
<1>2. CASE PreMutationHook(r)
  <2>1. CASE Reply(r, "rejected", "none")
    BY <1>2, <2>1, ReplyQuiet DEF PreMutationHook
  <2>2. CASE \E intent \in Intents, id \in AttemptIds :
               cl' = [cl EXCEPT ![r].intent = intent, ![r].id = id] /\ Go(r, "configuration")
    <3>1. PICK intent \in Intents, id \in AttemptIds :
            cl' = [cl EXCEPT ![r].intent = intent, ![r].id = id] /\ Go(r, "configuration")
      BY <2>2
    <3> DEFINE l == [cl[r] EXCEPT !.intent = intent, !.id = id]
    <3>2. l \in Local
      BY DEF Local
    <3>3. QuietMove(r, "configuration", l)
      BY <1>2, <3>1 DEF QuietMove, Go, PreMutationHook
    <3>4. /\ FlowOK("configuration", l)
          /\ "configuration" \in Points /\ cpc[r] \in Unserved
      BY <1>2 DEF FlowOK, Points, Unserved, PreMutationHook
    <3> QED
      BY <1>2, <3>2, <3>3, <3>4, QuietKeeps DEF PreMutationHook
  <2> QED
    BY <1>2, <2>1, <2>2 DEF PreMutationHook
<1>3. CASE ReadConfiguration(r)
  <2> DEFINE l == [cl[r] EXCEPT !.mode = Configuration]
  <2>1. l \in Local
    BY DEF Local
  <2>2. QuietMove(r, "scope", l)
    BY <1>3 DEF QuietMove, Go, ReadConfiguration
  <2>3. FlowOK("scope", l) /\ "scope" \in Points /\ cpc[r] \in Unserved
    BY <1>3 DEF FlowOK, Points, Unserved, ReadConfiguration
  <2> QED
    BY <1>3, <2>1, <2>2, <2>3, QuietKeeps DEF ReadConfiguration
<1>4. CASE currentScope(r)
  <2>1. CASE sku.scope = NoScope
    BY <1>4, <2>1, ReplyQuiet DEF currentScope
  <2>2. CASE sku.scope # NoScope
    <3> DEFINE l == [cl[r] EXCEPT !.scope = sku.scope]
    <3>1. sku.scope \in Scopes
      BY <1>0, <2>2 DEF StockTypes, ScopeNames
    <3>2. l \in Local /\ l.scope = sku.scope
      BY <3>1 DEF Local, ScopeNames
    <3>3. QuietMove(r, "intent", l)
      BY <1>4, <2>2 DEF QuietMove, Go, currentScope
    <3>4. FlowOK("intent", l) /\ "intent" \in Points /\ cpc[r] \in Unserved
      BY <1>4, <3>1, <3>2 DEF FlowOK, Points, Unserved, currentScope
    <3> QED
      BY <1>4, <3>2, <3>3, <3>4, QuietKeeps DEF currentScope
  <2> QED
    BY <2>1, <2>2
<1>5. CASE UpsertIntent(r)
  <2> DEFINE row == RowOf(cl[r].scope, r)
             l == [cl[r] EXCEPT !.row = row]
  <2>1. cl[r].scope \in Scopes
    BY <1>5 DEF UpsertIntent, FlowOK
  <2>2. row \in Row
    BY <1>0, <2>1 DEF RowOf, Row, Local, ScopeNames, StockTypes
  <2>3. l \in Local
    BY <2>2 DEF Local
  <2>4. QuietMove(r, "event", l)
    BY <1>5 DEF QuietMove, Go, UpsertIntent
  <2>5. FlowOK("event", l) /\ "event" \in Points /\ cpc[r] \in Unserved
    BY <1>5 DEF FlowOK, Points, Unserved, UpsertIntent
  <2> QED
    BY <1>5, <2>3, <2>4, <2>5, QuietKeeps DEF UpsertIntent
<1>6. CASE UpsertEvent(r)
  <2>1. FlowOK("request", cl[r]) /\ "request" \in Points /\ cpc[r] \in Unserved
    BY <1>6 DEF FlowOK, Points, Unserved, UpsertEvent
  <2> QED
    BY <1>6, <2>1, ReplyQuiet, GoQuiet DEF UpsertEvent
<1>7. CASE CreateRequestAttempt(r)
  <2>1. FlowOK("attempt", cl[r]) /\ "attempt" \in Points /\ cpc[r] \in Unserved
    BY <1>7 DEF FlowOK, Points, Unserved, CreateRequestAttempt
  <2> QED
    BY <1>7, <2>1, ReplyQuiet, GoQuiet DEF CreateRequestAttempt
<1>8. CASE CreateProcessingAttempt(r)
  <2> DEFINE p == IF cl[r].mode = "VULNERABLE" THEN "check" ELSE "reserve"
  <2>1. FlowOK(p, cl[r]) /\ p \in Points /\ cpc[r] \in Unserved
    BY <1>8 DEF FlowOK, Points, Unserved, CreateProcessingAttempt
  <2>2. CASE Go(r, p) /\ UNCHANGED cl
    BY <1>8, <2>1, <2>2, GoQuiet DEF CreateProcessingAttempt
  <2>3. CASE Reply(r, "error", "none")
    BY <1>8, <2>3, ReplyQuiet DEF CreateProcessingAttempt
  <2> QED
    BY <1>8, <2>2, <2>3 DEF CreateProcessingAttempt
<1> QED
  BY <1>1, <1>2, <1>3, <1>4, <1>5, <1>6, <1>7, <1>8
\* The steps after the transaction, and the database's errors.
LEMMA Departure ==
  ASSUME StockInv, NEW r \in Requests,
         \/ FinalizeAttempt(r) \/ RecordFailure(r) \/ DbError(r)
         \/ ResponseHook(r, "truncate", RESPONSE_TRUNCATION)
         \/ ResponseHook(r, "crash", CRASH_MID_PROCESSING)
  PROVE  StockInv'
<1> USE FactsOf DEF stockVars, businessVars
<1>0. /\ FlowOK("truncate", cl[r]) /\ FlowOK("crash", cl[r]) /\ FlowOK("failed", cl[r])
      /\ {"truncate", "crash", "failed"} \subseteq Points \ Unserved
  BY DEF FlowOK, Points, Unserved
<1>1. CASE FinalizeAttempt(r)
  BY <1>0, <1>1, GoQuiet DEF FinalizeAttempt
<1>2. CASE RecordFailure(r)
  BY <1>2, ReplyQuiet DEF RecordFailure
<1>3. CASE DbError(r)
  BY <1>0, <1>3, ReplyQuiet, GoQuiet DEF DbError
<1>4. CASE \E point \in {"truncate", "crash"} : \E kind : ResponseHook(r, point, kind)
  <2>1. UNCHANGED <<stockVars, businessVars>>
    BY <1>4 DEF ResponseHook
  <2>2. \/ \E status, outcome : Reply(r, status, outcome)
        \/ Go(r, "crash") /\ UNCHANGED cl
    BY <1>4 DEF ResponseHook
  <2> QED
    BY <1>0, <2>1, <2>2, ReplyQuiet, GoQuiet
<1> QED
  BY <1>1, <1>2, <1>3, <1>4

-----------------------------------------------------------------------------
(* The transactions that take a unit *)

\* A transaction of a submission that has no order yet takes one unit: the
\* count of the current baseline follows the stock.
LEMMA UnitTaken ==
  ASSUME StockInv, NEW r \in Requests, cpc[r] \in Unserved,
         orders' = orders \cup {NewOrder(r)}, TakeUnit, UNCHANGED generation
  PROVE  /\ StockTypes' \/ settings' \notin ModeNames
         /\ UnitsPast' /\ StockConserved'
         /\ \A o \in orders : o.request # r
         /\ Naive(OfBaseline)' = IF cl[r].mode = "VULNERABLE"
                                   THEN Naive(OfBaseline) \cup {NewOrder(r)}
                                   ELSE Naive(OfBaseline)
         /\ IsFiniteSet(Naive(OfBaseline)) /\ NewOrder(r) \notin orders
         /\ sku'.remaining = sku.remaining - 1 /\ sku.remaining \in Int
<1> USE FactsOf
<1>1. StockTypes /\ Flows /\ UnitsPast /\ StockConserved
  BY DEF StockInv
<1>2. \A o \in orders : o.request # r
  BY <1>1 DEF Flows
<1>3. NewOrder(r) \notin orders
  BY <1>2 DEF NewOrder
<1>4. /\ sku.remaining \in Int /\ sku.initial \in Nat /\ sku' = [sku EXCEPT !.remaining = @ - 1]
      /\ sku'.remaining = sku.remaining - 1 /\ sku'.initial = sku.initial
      /\ sku'.scope = sku.scope
  BY <1>1 DEF TakeUnit, StockTypes
<1>5. Baseline \in ScopeNames \X Nat
  BY <1>1 DEF Baseline, StockTypes, ScopeNames
<1>6. NewOrder(r) \in Order
  BY <1>5 DEF NewOrder, Order, Local
<1>7. IsFiniteSet(orders')
  BY <1>1, FS_AddElement DEF StockTypes
<1>8. StockTypes' \/ settings' \notin ModeNames
  BY <1>1, <1>4, <1>6, <1>7 DEF StockTypes
<1>9. Baseline' = Baseline
  BY <1>4 DEF Baseline
<1>10. OfBaseline' = OfBaseline \cup {NewOrder(r)}
  BY <1>9 DEF OfBaseline, NewOrder
<1>11. IsFiniteSet(OfBaseline) /\ IsFiniteSet(Naive(OfBaseline))
  <2>1. OfBaseline \in SUBSET orders /\ Naive(OfBaseline) \in SUBSET orders
    BY DEF OfBaseline, Naive
  <2> QED
    BY <1>1, <2>1, FS_Subset DEF StockTypes
<1>12. Cardinality(OfBaseline') = Cardinality(OfBaseline) + 1 /\ Cardinality(OfBaseline) \in Nat
  <2>1. NewOrder(r) \notin OfBaseline
    BY <1>3 DEF OfBaseline
  <2> QED
    BY <1>10, <1>11, <2>1, FS_AddElement, FS_CardinalityType
<1>13. StockConserved'
  BY <1>1, <1>4, <1>12 DEF StockConserved
<1>14. UnitsPast'
  <2>1. NewOrder(r).unit = Baseline
    BY DEF NewOrder
  <2>2. Baseline[1] \in Scopes => Baseline[2] <= generation[Baseline[1]]
    BY <1>1, CheckoutAssumption DEF Baseline, StockTypes, ScopeNames, NoScope
  <2> QED
    BY <1>1, <2>1, <2>2 DEF UnitsPast
<1>15. Naive(OfBaseline)' = IF cl[r].mode = "VULNERABLE"
                              THEN Naive(OfBaseline) \cup {NewOrder(r)} ELSE Naive(OfBaseline)
  BY <1>10 DEF Naive, NewOrder
<1> QED
  BY <1>2, <1>3, <1>4, <1>8, <1>11, <1>13, <1>14, <1>15

\* After either transaction the submission is past it, with the same locals
\* but the outcome.
LEMMA Served ==
  ASSUME StockInv, NEW r \in Requests, NEW p \in {"finalize", "failed"}, Go(r, p),
         cl' = cl \/ \E outcome \in Outcomes : cl' = [cl EXCEPT ![r].outcome = outcome],
         \A o \in orders' : o \in orders \/ o.request = r
  PROVE  ClientTypes' /\ Flows'
<1> USE FactsOf
<1>0. p \in Points \ Unserved
  BY DEF Points, Unserved
<1>1. cl' \in [Requests -> Local]
  <2>1. CASE cl' = cl
    BY <2>1
  <2>2. CASE \E outcome \in Outcomes : cl' = [cl EXCEPT ![r].outcome = outcome]
    <3>1. PICK outcome \in Outcomes : cl' = [cl EXCEPT ![r].outcome = outcome]
      BY <2>2
    <3>2. [cl[r] EXCEPT !.outcome = outcome] \in Local
      BY DEF Local
    <3>3. cl' = [cl EXCEPT ![r] = [cl[r] EXCEPT !.outcome = outcome]]
      BY <3>1
    <3> QED
      BY <3>2, <3>3
  <2> QED
    BY <2>1, <2>2
<1>2. /\ cpc' \in [Requests -> Points] /\ cpc'[r] = p
      /\ \A q \in Requests \ {r} : cpc'[q] = cpc[q] /\ cl'[q] = cl[q]
  BY <1>0 DEF Go
<1>3. \A q \in Requests : FlowOK(cpc'[q], cl'[q])
  <2>1. FlowOK(p, cl'[r])
    BY DEF FlowOK
  <2>2. \A q \in Requests : FlowOK(cpc[q], cl[q])
    BY DEF StockInv, Flows
  <2> QED
    BY <1>2, <2>1, <2>2
<1>4. \A o \in orders' : cpc'[o.request] \notin Unserved
  <2>1. \A o \in orders : o.request \in Requests /\ cpc[o.request] \notin Unserved
    BY DEF StockInv, StockTypes, Order, Flows
  <2> QED
    BY <1>0, <1>2, <2>1
<1> QED
  BY <1>1, <1>2, <1>3, <1>4 DEF ClientTypes, Flows

\* The decrement of the naive pipeline is unconditional: it may take the stock
\* below zero, but then naive orders account for the difference.
LEMMA NaiveActKeeps ==
  ASSUME StockInv, NEW r \in Requests, NaiveAct(r)
  PROVE  StockInv'
<1> USE FactsOf
<1>1. cpc[r] \in Unserved /\ cl[r].mode = "VULNERABLE"
  BY DEF NaiveAct, At, Unserved, FlowOK
<1>2. settings' \in ModeNames /\ UNCHANGED <<generation, settled>>
  BY DEF NaiveAct
<1>3. CASE AttemptsOf(r) # {}
  <2>1. orders' = orders \cup {NewOrder(r)} /\ TakeUnit
    BY <1>3 DEF NaiveAct
  <2>2. /\ StockTypes' /\ UnitsPast' /\ StockConserved'
        /\ Naive(OfBaseline)' = Naive(OfBaseline) \cup {NewOrder(r)}
        /\ IsFiniteSet(Naive(OfBaseline)) /\ NewOrder(r) \notin Naive(OfBaseline)
        /\ sku'.remaining = sku.remaining - 1 /\ sku.remaining \in Int
    BY <1>1, <1>2, <2>1, UnitTaken DEF Naive, OfBaseline
  <2>3. Cardinality(Naive(OfBaseline)') = Cardinality(Naive(OfBaseline)) + 1
        /\ Cardinality(Naive(OfBaseline)) \in Nat
    BY <2>2, FS_AddElement, FS_CardinalityType
  <2>4. NewOrder(r).mode # "SECURE" /\ NewOrder(r).request = r
    BY <1>1 DEF NewOrder
  <2>5. SecureSettled' /\ SecureSellsOnlyStock'
    BY <1>2, <2>1, <2>2, <2>3, <2>4 DEF StockInv, SecureSettled, SecureSellsOnlyStock
  <2>6. ClientTypes' /\ Flows'
    <3>1. Go(r, "finalize") /\ cl' = [cl EXCEPT ![r].outcome = "ACCEPTED"] /\ "ACCEPTED" \in Outcomes
      BY <1>3 DEF NaiveAct, Result, Outcomes
    <3> QED
      BY <2>1, <2>4, <3>1, Served
  <2> QED
    BY <2>2, <2>5, <2>6 DEF StockInv
<1>4. CASE AttemptsOf(r) = {}
  <2>1. /\ "failed" \in Points \ Unserved /\ FlowOK("failed", cl[r])
        /\ Go(r, "failed") /\ UNCHANGED <<cl, sku, orders>>
    BY <1>4 DEF Points, Unserved, FlowOK, NaiveAct
  <2> QED
    BY <1>2, <2>1, GoQuiet
<1> QED
  BY <1>3, <1>4

\* The read outside any transaction takes nothing.
LEMMA NaiveCheckKeeps ==
  ASSUME StockInv, NEW r \in Requests, NaiveCheck(r)
  PROVE  StockInv'
<1> USE FactsOf DEF stockVars, businessVars
<1>1. cpc[r] \in Unserved /\ cl[r].mode = "VULNERABLE"
  BY DEF NaiveCheck, At, Unserved, FlowOK
<1>2. settings' \in ModeNames /\ UNCHANGED <<sku, generation, settled, orders>>
  BY DEF NaiveCheck
<1>3. CASE Result(r, "STOCK_UNAVAILABLE", "finalize")
  <2> DEFINE l == [cl[r] EXCEPT !.outcome = "STOCK_UNAVAILABLE"]
  <2>1. l \in Local
    BY DEF Local, Outcomes
  <2>2. QuietMove(r, "finalize", l)
    BY <1>2, <1>3 DEF QuietMove, Result, Go
  <2>3. FlowOK("finalize", l) /\ "finalize" \in Points
    BY DEF FlowOK, Points
  <2> QED
    BY <1>1, <1>2, <2>1, <2>2, <2>3, QuietKeeps
<1>4. CASE Go(r, "act") /\ UNCHANGED cl
  <2>1. FlowOK("act", cl[r]) /\ "act" \in Points
    BY <1>1 DEF FlowOK, Points, Unserved
  <2> QED
    BY <1>1, <1>2, <1>4, <2>1, GoQuiet
<1> QED
  BY <1>3, <1>4 DEF NaiveCheck

\* The conditional settlement lets one order of an intent through, and the
\* conditional decrement takes only a unit that is there.
LEMMA ReserveKeeps ==
  ASSUME StockInv, NEW r \in Requests, reserveIdempotentIntentScoped(r)
  PROVE  StockInv'
<1> USE FactsOf
<1> DEFINE outcome == ReserveOutcome(r)
<1>1. cpc[r] \in Unserved /\ cl[r].mode # "VULNERABLE"
  BY DEF reserveIdempotentIntentScoped, At, Unserved, FlowOK
<1>2. /\ settings' \in ModeNames /\ UNCHANGED generation
      /\ Go(r, "finalize") /\ cl' = [cl EXCEPT ![r].outcome = outcome] /\ outcome \in Outcomes
  BY DEF reserveIdempotentIntentScoped, Result, ReserveOutcome, Outcomes
<1>3. CASE outcome = "ACCEPTED"
  <2>1. /\ orders' = orders \cup {NewOrder(r)} /\ TakeUnit
        /\ settled' = settled \cup {cl[r].row}
    BY <1>3 DEF reserveIdempotentIntentScoped, SettledAfter
  <2>2. cl[r].row \notin settled /\ ~(sku.remaining <= 0)
    BY <1>3 DEF ReserveOutcome
  <2>3. /\ StockTypes' /\ UnitsPast' /\ StockConserved'
        /\ Naive(OfBaseline)' = Naive(OfBaseline)
        /\ IsFiniteSet(Naive(OfBaseline))
        /\ sku'.remaining = sku.remaining - 1 /\ sku.remaining \in Int
    BY <1>1, <1>2, <2>1, UnitTaken
  <2>4. Cardinality(Naive(OfBaseline)) \in Nat
    BY <2>3, FS_CardinalityType
  <2>5. sku'.remaining + Cardinality(Naive(OfBaseline)') >= 0
    BY <2>2, <2>3, <2>4
  <2>6. NewOrder(r).row = cl[r].row /\ NewOrder(r).request = r
    BY DEF NewOrder
  <2>7. SecureSettled'
    BY <2>1, <2>6 DEF StockInv, SecureSettled
  <2>8. \A o1, o2 \in orders' :
          o1.mode = "SECURE" /\ o2.mode = "SECURE" /\ o1.row = o2.row => o1 = o2
    BY <2>1, <2>2, <2>6 DEF StockInv, SecureSettled, SecureSellsOnlyStock
  <2>9. ClientTypes' /\ Flows'
    <3>1. cl' = [cl EXCEPT ![r].outcome = "ACCEPTED"] /\ "ACCEPTED" \in Outcomes
      BY <1>2, <1>3
    <3> QED
      BY <1>2, <2>1, <2>6, <3>1, Served
  <2> QED
    BY <2>3, <2>5, <2>7, <2>8, <2>9 DEF StockInv, SecureSellsOnlyStock
<1>4. CASE outcome # "ACCEPTED"
  <2> DEFINE l == [cl[r] EXCEPT !.outcome = outcome]
  <2>1. l \in Local
    BY <1>2 DEF Local
  <2>2. UNCHANGED <<sku, settled, orders>>
    BY <1>4 DEF reserveIdempotentIntentScoped, SettledAfter
  <2>3. QuietMove(r, "finalize", l)
    BY <1>2, <2>2 DEF QuietMove, Go
  <2>4. FlowOK("finalize", l) /\ "finalize" \in Points
    BY DEF FlowOK, Points
  <2> QED
    BY <1>1, <1>2, <2>1, <2>3, <2>4, QuietKeeps
<1> QED
  BY <1>3, <1>4

-----------------------------------------------------------------------------
(* Administration *)

\* The SKU is bound to a baseline that no order names, with its stock whole.
LEMMA ResetKeeps ==
  ASSUME StockInv, NEW scope \in Scopes, NEW units \in Units, NEW mode \in ModeNames,
         resetScenarioContext(scope, units, mode)
  PROVE  StockInv'
<1> USE CheckoutAssumption DEF clientVars
<1>1. /\ StockTypes /\ ClientTypes /\ Flows /\ UnitsPast /\ SecureSettled /\ SecureSellsOnlyStock
  BY DEF StockInv
<1>2. /\ orders' = {o \in orders : o.row.scope # scope}
      /\ settled' = {row \in settled : row.scope # scope}
      /\ sku' = [scope |-> scope, initial |-> units, remaining |-> units]
      /\ generation' = [generation EXCEPT ![scope] = @ + 1]
      /\ settings' \in ModeNames /\ UNCHANGED <<cpc, cl>>
  BY <1>1 DEF resetScenarioContext, StockTypes
<1>3. orders' \in SUBSET orders /\ IsFiniteSet(orders')
  BY <1>1, <1>2, FS_Subset DEF StockTypes
<1>4. /\ generation' \in [Scopes -> Nat] /\ generation'[scope] = generation[scope] + 1
      /\ \A s \in Scopes : generation[s] <= generation'[s]
  BY <1>1, <1>2 DEF StockTypes
<1>5. StockTypes'
  BY <1>1, <1>2, <1>3, <1>4 DEF StockTypes, ScopeNames
<1>6. ClientTypes' /\ Flows' /\ SecureSettled'
  BY <1>1, <1>2, <1>3 DEF ClientTypes, Flows, SecureSettled
<1>7. UnitsPast'
  <2>1. \A o \in orders : o.unit[2] \in Nat
    BY <1>1 DEF StockTypes, Order
  <2> QED
    BY <1>1, <1>3, <1>4, <2>1 DEF UnitsPast, StockTypes
<1>8. Baseline' = <<scope, generation[scope] + 1>>
  BY <1>2, <1>4 DEF Baseline, NoScope
<1>9. OfBaseline' = {}
  <2>1. \A o \in orders : o.unit[1] = scope => o.unit[2] <= generation[scope]
    BY <1>1 DEF UnitsPast
  <2>2. generation[scope] \in Nat /\ \A o \in orders : o.unit[2] \in Nat
    BY <1>1 DEF StockTypes, Order
  <2>3. \A o \in orders : o.unit # <<scope, generation[scope] + 1>>
    BY <2>1, <2>2
  <2> QED
    BY <1>3, <1>8, <2>3 DEF OfBaseline
<1>10. Naive(OfBaseline') = {}
  BY <1>9 DEF Naive
<1>11. Cardinality(OfBaseline') = 0 /\ Cardinality(Naive(OfBaseline')) = 0
  BY <1>9, <1>10, FS_EmptySet
<1>12. sku'.remaining = units /\ sku'.initial = units /\ units \in Nat
  BY <1>2
<1>13. StockConserved'
  BY <1>11, <1>12 DEF StockConserved
<1>14. SecureSellsOnlyStock'
  BY <1>1, <1>3, <1>11, <1>12 DEF SecureSellsOnlyStock, Naive
<1> QED
  BY <1>5, <1>6, <1>7, <1>13, <1>14 DEF StockInv

\* Steps that leave stock, orders and submissions alone.
LEMMA StockFrame ==
  ASSUME StockInv, settings' \in ModeNames, UNCHANGED <<sku, generation, settled, orders, cpc, cl>>
  PROVE  StockInv'
<1>1. OfBaseline' = OfBaseline /\ Naive(OfBaseline)' = Naive(OfBaseline)
  BY DEF OfBaseline, Naive, Baseline
<1>2. StockTypes' /\ ClientTypes' /\ Flows' /\ UnitsPast' /\ SecureSettled'
  BY DEF StockInv, StockTypes, ClientTypes, Flows, UnitsPast, SecureSettled
<1>3. StockConserved' /\ SecureSellsOnlyStock'
  BY <1>1 DEF StockInv, StockConserved, SecureSellsOnlyStock
<1> QED
  BY <1>2, <1>3 DEF StockInv

\* Every step keeps the invariant.
LEMMA StockStep ==
  ASSUME StockInv, [CheckoutNext]_checkoutVars
  PROVE  StockInv'
<1>0. settings \in ModeNames
  BY DEF StockInv, StockTypes
<1>1. CASE \E r \in Requests : Submission(r)
  BY <1>1, Arrival, Departure, NaiveCheckKeeps, NaiveActKeeps, ReserveKeeps DEF Submission
<1>2. CASE \E m \in Modes : setProcessingConfiguration(m)
  BY <1>2, StockFrame DEF setProcessingConfiguration, businessVars, clientVars, ModeNames
<1>3. CASE \E s \in Scopes, u \in Units, m \in Modes \union {NoMode} : resetScenarioContext(s, u, m)
  BY <1>3, ResetKeeps DEF ModeNames
<1>4. CASE UNCHANGED <<stockVars, businessVars, clientVars, dbFailed>>
  BY <1>0, <1>4, StockFrame DEF stockVars, businessVars, clientVars
<1> QED
  BY <1>1, <1>2, <1>3, <1>4 DEF CheckoutNext, Administration, checkoutVars

\* The invariant holds throughout.
LEMMA StockInvariant == CheckoutSpec => []StockInv
BY StockInit, StockStep, PTL DEF CheckoutSpec

\* Every unit of the declared stock is remaining or taken by exactly one order,
\* for any number of overlapping submissions and resets.
THEOREM StockConservedCorrect == CheckoutSpec => []StockConserved
<1>1. StockInv => StockConserved
  BY DEF StockInv
<1> QED
  BY <1>1, StockInvariant, PTL

\* The idempotent pipeline never takes a unit that is not there and never
\* accepts an intent twice, whatever naive submissions are still in flight.
THEOREM SecureSellsOnlyStockCorrect == CheckoutSpec => []SecureSellsOnlyStock
<1>1. StockInv => SecureSellsOnlyStock
  BY DEF StockInv
<1> QED
  BY <1>1, StockInvariant, PTL
-----------------------------------------------------------------------------
(* The budget of the fault hooks *)

Hits(k) == {r \in Requests : hit[r] = k}

\* What a plan may still trigger, the hits that its kind has had included, is
\* within the triggers granted.
BudgetOK(k) ==
  /\ IsFiniteSet(Hits(k))
  /\ plans[k].triggersUsed <= plans[k].maxTriggers
  /\ Cardinality(Hits(k)) + (plans[k].maxTriggers - plans[k].triggersUsed) <= faultsGranted[k]

BudgetInv ==
  /\ hit \in [Requests -> FAULT_KINDS \cup {"none"}]
  /\ plans \in [FAULT_KINDS -> Plan]
  /\ faultsGranted \in [FAULT_KINDS -> Nat]
  /\ \A k \in FAULT_KINDS : BudgetOK(k)

\* A plan admits a number of triggers, and no plan admits none.
LEMMA PlanTypes ==
  /\ NoPlan \in Plan /\ NoPlan.maxTriggers = 0 /\ NoPlan.triggersUsed = 0
  /\ \A p \in Plan : p.maxTriggers \in Nat /\ p.triggersUsed \in Nat
  /\ "none" \notin FAULT_KINDS
BY DEF NoPlan, Plan, FAULT_PLAN_TRIGGERS, FAULT_KINDS, PRE_MUTATION_REJECTION,
       CRASH_MID_PROCESSING, RESPONSE_TRUNCATION

\* At first nothing is armed and nothing was hit.
LEMMA BudgetInit == CheckoutInit => BudgetInv
<1> SUFFICES ASSUME CheckoutInit PROVE BudgetInv
  OBVIOUS
<1> USE PlanTypes DEF CheckoutInit, FaultInit
<1>1. ASSUME NEW k \in FAULT_KINDS PROVE BudgetOK(k)
  <2>1. Hits(k) = {}
    BY DEF Hits
  <2>2. IsFiniteSet(Hits(k)) /\ Cardinality(Hits(k)) = 0
    BY <2>1, FS_EmptySet
  <2>3. plans[k] = NoPlan /\ faultsGranted[k] = 0
    OBVIOUS
  <2> QED
    BY <2>2, <2>3 DEF BudgetOK
<1> QED
  BY <1>1 DEF BudgetInv

\* A hook that triggers uses one trigger of its plan, and its submission meets
\* the fault: one more hit, one less to come.
LEMMA HookKeeps ==
  ASSUME BudgetInv, NEW r \in Requests, NEW kind \in FAULT_KINDS, NEW triggered \in BOOLEAN,
         consumeTrigger(kind, triggered),
         hit' = IF triggered THEN [hit EXCEPT ![r] = kind] ELSE hit
  PROVE  BudgetInv'
<1>1. CASE ~triggered
  BY <1>1 DEF consumeTrigger, BudgetInv, BudgetOK, Hits
<1>2. CASE triggered
  <2> USE PlanTypes
  <2>1. /\ plans[kind].triggersUsed < plans[kind].maxTriggers
        /\ plans' = [plans EXCEPT ![kind].triggersUsed = @ + 1]
        /\ faultsGranted' = faultsGranted /\ hit' = [hit EXCEPT ![r] = kind]
    BY <1>2 DEF consumeTrigger, Triggerable
  <2>2. /\ plans[kind] \in Plan /\ plans[kind].triggersUsed + 1 \in Nat
        /\ plans \in [FAULT_KINDS -> Plan] /\ hit \in [Requests -> FAULT_KINDS \cup {"none"}]
        /\ faultsGranted \in [FAULT_KINDS -> Nat]
    BY DEF BudgetInv
  <2>3. /\ plans' \in [FAULT_KINDS -> Plan]
        /\ plans'[kind].triggersUsed = plans[kind].triggersUsed + 1
        /\ plans'[kind].maxTriggers = plans[kind].maxTriggers
        /\ \A k \in FAULT_KINDS \ {kind} : plans'[k] = plans[k]
    <3>1. [plans[kind] EXCEPT !.triggersUsed = @ + 1] \in Plan
      BY <2>2 DEF Plan
    <3> QED
      BY <2>1, <2>2, <3>1 DEF Plan
  <2>4. hit' \in [Requests -> FAULT_KINDS \cup {"none"}]
    BY <2>1, <2>2
  <2>5. \A k \in FAULT_KINDS : IsFiniteSet(Hits(k)) /\ Cardinality(Hits(k)) \in Nat
    BY FS_CardinalityType DEF BudgetInv, BudgetOK
  <2>6. BudgetOK(kind)'
    <3>1. Hits(kind)' = Hits(kind) \cup {r}
      BY <2>1, <2>2 DEF Hits
    <3>2. IsFiniteSet(Hits(kind)') /\ Cardinality(Hits(kind)') <= Cardinality(Hits(kind)) + 1
          /\ Cardinality(Hits(kind)') \in Nat
      <4> DEFINE H == Hits(kind)
      <4>1. IsFiniteSet(H) /\ Cardinality(H) \in Nat
        BY <2>5
      <4>2. /\ IsFiniteSet(H \cup {r})
            /\ Cardinality(H \cup {r}) = IF r \in H THEN Cardinality(H) ELSE Cardinality(H) + 1
        BY <4>1, FS_AddElement
      <4> HIDE DEF H
      <4>3. /\ Cardinality(H \cup {r}) \in Nat
            /\ Cardinality(H \cup {r}) <= Cardinality(H) + 1
        BY <4>1, <4>2
      <4> QED
        BY <3>1, <4>2, <4>3 DEF H
    <3>3. BudgetOK(kind) /\ faultsGranted[kind] \in Nat
      BY <2>2 DEF BudgetInv
    <3> QED
      BY <2>1, <2>2, <2>3, <2>5, <3>2, <3>3 DEF BudgetOK
  <2>7. ASSUME NEW k \in FAULT_KINDS \ {kind} PROVE BudgetOK(k)'
    <3>1. Hits(k)' \in SUBSET Hits(k)
      BY <2>1, <2>2 DEF Hits
    <3>2. /\ IsFiniteSet(Hits(k)') /\ Cardinality(Hits(k)') <= Cardinality(Hits(k))
          /\ Cardinality(Hits(k)') \in Nat
      BY <2>5, <3>1, FS_Subset, FS_CardinalityType
    <3>3. BudgetOK(k) /\ faultsGranted[k] \in Nat /\ plans[k] \in Plan
      BY <2>2 DEF BudgetInv
    <3> QED
      BY <2>1, <2>3, <2>5, <3>2, <3>3 DEF BudgetOK
  <2> QED
    BY <2>1, <2>2, <2>3, <2>4, <2>6, <2>7 DEF BudgetInv
<1> QED
  BY <1>1, <1>2

\* Arming grants what the new plan may trigger; disarming and expiry grant nothing.
LEMMA FaultAdminKeeps ==
  ASSUME BudgetInv, FaultAdmin, hit' = hit
  PROVE  BudgetInv'
<1> USE PlanTypes
<1>1. /\ plans \in [FAULT_KINDS -> Plan] /\ faultsGranted \in [FAULT_KINDS -> Nat]
      /\ hit \in [Requests -> FAULT_KINDS \cup {"none"}]
      /\ \A k \in FAULT_KINDS : BudgetOK(k) /\ Cardinality(Hits(k)) \in Nat
  BY FS_CardinalityType DEF BudgetInv, BudgetOK
<1>2. \A k : Hits(k)' = Hits(k)
  BY DEF Hits
<1>3. CASE \E input \in FaultPlanInputs : arm(input)
  <2>1. PICK input \in FaultPlanInputs : arm(input)
    BY <1>3
  <2>2. CASE ~validateFaultPlanInput(input)
    BY <1>1, <1>2, <2>1, <2>2 DEF arm, BudgetInv, BudgetOK
  <2>3. CASE validateFaultPlanInput(input)
    <3> DEFINE k == input.kind
               plan == [maxTriggers |-> input.maxTriggers, triggersUsed |-> 0, expired |-> FALSE]
    <3>1. k \in FAULT_KINDS /\ input.maxTriggers \in Nat /\ plan \in Plan
      BY <2>3 DEF validateFaultPlanInput, FAULT_PLAN_TRIGGERS, Plan
    <3>2. /\ plans' = [plans EXCEPT ![k] = plan]
          /\ faultsGranted' = [faultsGranted EXCEPT ![k] = @ + input.maxTriggers]
      BY <2>1, <2>3 DEF arm
    <3>3. plans' \in [FAULT_KINDS -> Plan] /\ faultsGranted' \in [FAULT_KINDS -> Nat]
      BY <1>1, <3>1, <3>2
    <3>4. BudgetOK(k)'
      BY <1>1, <1>2, <3>1, <3>2 DEF BudgetOK
    <3>5. \A j \in FAULT_KINDS \ {k} : BudgetOK(j)'
      BY <1>1, <1>2, <3>1, <3>2 DEF BudgetOK
    <3> QED
      BY <1>1, <3>1, <3>3, <3>4, <3>5 DEF BudgetInv
  <2> QED
    BY <2>2, <2>3
<1>4. CASE \E k \in FAULT_KINDS : disarm(k) \/ ExpirePlan(k)
  <2>1. PICK k \in FAULT_KINDS : disarm(k) \/ ExpirePlan(k)
    BY <1>4
  <2>0. /\ plans[k] \in Plan /\ plans[k].maxTriggers \in Nat /\ plans[k].triggersUsed \in Nat
        /\ plans[k].triggersUsed <= plans[k].maxTriggers
    BY <1>1 DEF BudgetOK
  <2> DEFINE Lesser(plan) == /\ plan.triggersUsed <= plan.maxTriggers
                             /\ plan.maxTriggers - plan.triggersUsed
                                  <= plans[k].maxTriggers - plans[k].triggersUsed
  <2>2. /\ \E plan \in Plan : plans' = [plans EXCEPT ![k] = plan] /\ Lesser(plan)
        /\ faultsGranted' = faultsGranted
    <3>1. CASE disarm(k)
      <4>1. Lesser(NoPlan)
        BY <2>0
      <4>2. plans' = [plans EXCEPT ![k] = NoPlan] /\ faultsGranted' = faultsGranted
        BY <3>1 DEF disarm
      <4> QED
        BY <4>1, <4>2
    <3>2. CASE ExpirePlan(k)
      <4> DEFINE plan == [plans[k] EXCEPT !.expired = TRUE]
      <4>1. /\ plan \in Plan /\ plan.triggersUsed = plans[k].triggersUsed
            /\ plan.maxTriggers = plans[k].maxTriggers
        BY <1>1, <2>1 DEF Plan
      <4>2. plans' = [plans EXCEPT ![k] = plan] /\ faultsGranted' = faultsGranted
        BY <3>2 DEF ExpirePlan
      <4>3. Lesser(plan)
        BY <2>0, <4>1
      <4> HIDE DEF plan, Lesser
      <4> QED
        BY <4>1, <4>2, <4>3
    <3> QED
      BY <2>1, <3>1, <3>2
  <2>3. PICK plan \in Plan : plans' = [plans EXCEPT ![k] = plan] /\ Lesser(plan)
    BY <2>2
  <2>4. plans'[k] = plan /\ \A j \in FAULT_KINDS \ {k} : plans'[j] = plans[j]
    BY <1>1, <2>3
  <2>5. BudgetOK(k)'
    <3>1. BudgetOK(k) /\ plans[k] \in Plan /\ faultsGranted[k] \in Nat
      BY <1>1
    <3> QED
      BY <1>1, <1>2, <2>2, <2>3, <2>4, <3>1 DEF BudgetOK
  <2>6. \A j \in FAULT_KINDS \ {k} : BudgetOK(j)'
    BY <1>1, <1>2, <2>2, <2>4 DEF BudgetOK
  <2> QED
    BY <1>1, <2>2, <2>3, <2>5, <2>6 DEF BudgetInv
<1> QED
  BY <1>3, <1>4 DEF FaultAdmin

\* Every step keeps the budget.
LEMMA BudgetStep ==
  ASSUME BudgetInv, [CheckoutNext]_checkoutVars
  PROVE  BudgetInv'
<1>1. CASE UNCHANGED <<hit, plans, faultsGranted>>
  BY <1>1 DEF BudgetInv, BudgetOK, Hits
<1>2. ASSUME NEW r \in Requests, PreMutationHook(r) PROVE BudgetInv'
  <2>1. PICK triggered \in BOOLEAN :
          /\ consumeTrigger(PRE_MUTATION_REJECTION, triggered)
          /\ hit' = IF triggered THEN [hit EXCEPT ![r] = PRE_MUTATION_REJECTION] ELSE hit
    BY <1>2 DEF PreMutationHook
  <2> QED
    BY <2>1, HookKeeps DEF FAULT_KINDS
<1>3. ASSUME NEW r \in Requests, NEW point, NEW kind \in FAULT_KINDS, ResponseHook(r, point, kind)
      PROVE BudgetInv'
  <2>1. PICK triggered \in BOOLEAN :
          /\ consumeTrigger(kind, triggered)
          /\ hit' = IF triggered THEN [hit EXCEPT ![r] = kind] ELSE hit
    BY <1>3 DEF ResponseHook
  <2> QED
    BY <2>1, HookKeeps
<1>4. CASE FaultAdmin /\ hit' = hit
  BY <1>4, FaultAdminKeeps
<1>5. ASSUME NEW r \in Requests, Submission(r) PROVE BudgetInv'
  <2>1. CASE \/ RefuseSubmission(r) \/ ReadConfiguration(r) \/ currentScope(r)
             \/ UpsertIntent(r) \/ UpsertEvent(r) \/ CreateRequestAttempt(r)
             \/ CreateProcessingAttempt(r) \/ NaiveCheck(r) \/ NaiveAct(r)
             \/ reserveIdempotentIntentScoped(r) \/ FinalizeAttempt(r)
    BY <1>1, <2>1 DEF RefuseSubmission, ReadConfiguration, currentScope, UpsertIntent, UpsertEvent,
       CreateRequestAttempt, CreateProcessingAttempt, NaiveCheck, NaiveAct,
       reserveIdempotentIntentScoped, FinalizeAttempt, faultVars
  <2>2. CASE RecordFailure(r) \/ DbError(r)
    BY <1>1, <2>2 DEF RecordFailure, DbError, faultVars
  <2>3. CASE \/ ResponseHook(r, "truncate", RESPONSE_TRUNCATION)
             \/ ResponseHook(r, "crash", CRASH_MID_PROCESSING)
    BY <1>3, <2>3 DEF FAULT_KINDS
  <2> QED
    BY <1>2, <1>5, <2>1, <2>2, <2>3 DEF Submission
<1>6. CASE \/ \E m \in Modes : setProcessingConfiguration(m)
           \/ \E s \in Scopes, u \in Units, m \in Modes \union {NoMode} : resetScenarioContext(s, u, m)
  BY <1>1, <1>6 DEF setProcessingConfiguration, resetScenarioContext, clientVars
<1> QED
  BY <1>1, <1>4, <1>5, <1>6 DEF CheckoutNext, Administration, checkoutVars, clientVars, faultVars

\* No kind of fault is met by more submissions than its armings granted, for
\* any number of concurrent hooks and rearmings.
THEOREM FaultBudgetKeptCorrect == CheckoutSpec => []FaultBudgetKept
<1>1. BudgetInv => FaultBudgetKept
  <2> SUFFICES ASSUME BudgetInv, NEW k \in FAULT_KINDS
               PROVE  Cardinality(Hits(k)) <= faultsGranted[k]
    BY DEF FaultBudgetKept, Hits
  <2>1. /\ IsFiniteSet(Hits(k)) /\ plans[k] \in Plan /\ faultsGranted[k] \in Nat
        /\ plans[k].triggersUsed <= plans[k].maxTriggers
        /\ Cardinality(Hits(k)) + (plans[k].maxTriggers - plans[k].triggersUsed) <= faultsGranted[k]
    BY DEF BudgetInv, BudgetOK
  <2>2. Cardinality(Hits(k)) \in Nat
    BY <2>1, FS_CardinalityType
  <2> QED
    BY <2>1, <2>2, PlanTypes
<1>2. CheckoutSpec => []BudgetInv
  BY BudgetInit, BudgetStep, PTL DEF CheckoutSpec
<1> QED
  BY <1>1, <1>2, PTL

-----------------------------------------------------------------------------
(***************************************************************************)
(* What is recorded of a submission.  Its attempt and its order carry one  *)
(* row, so that a reset deletes both or neither; an attempt is there only  *)
(* as long as its intent row is, so that a settlement that matches no row  *)
(* was settled by an order that is still there.                            *)
(***************************************************************************)
AttemptOutcomes == Outcomes \cup {"none", "FAILED"}
Attempt == [request : Requests, row : Row, mode : ModeNames, outcome : AttemptOutcomes]
RequestAttempt == [id : AttemptIds \cup {"none"}, row : Row, request : Requests]
Statuses == {"none", "refused", "rejected", "SKU_NOT_INITIALIZED", "error",
             "REQUEST_ATTEMPT_IDENTITY_CONFLICT", "lost", "ok"}

OutcomeTypes ==
  /\ attempts \subseteq Attempt /\ requestAttempts \subseteq RequestAttempt
  /\ reply \in [Requests -> [status : Statuses, outcome : Outcomes \cup {"none"}]]
  /\ dbFailed \in BOOLEAN

Before == {"idle", "configuration", "scope", "intent", "event", "request"}
Reserving == {"check", "act", "reserve"}
Answering == {"finalize", "truncate", "crash"}

\* What each control point knows of the mode, the outcome and the answer.
PointOK(r) ==
  /\ cpc[r] \in {"scope", "intent", "event", "request", "attempt", "reserve"} => cl[r].mode \in Modes
  /\ cpc[r] \in Answering => cl[r].outcome # "none"
  /\ cpc[r] # "done" => reply[r] = NoReply

\* Whatever names an intent row was deleted with it.
RowsKept ==
  /\ events \subseteq intents
  /\ \A a \in requestAttempts \cup attempts : a.row \in intents
  /\ \A row \in settled : \E o \in orders : o.row = row /\ o.mode = "SECURE"

Own(r) == {o \in orders : o.request = r}

\* An outcome is true of an attempt.
TrueOf(outcome, a) ==
  /\ outcome = "ACCEPTED" => Own(a.request) # {}
  /\ outcome = "INTENT_ALREADY_ACCEPTED" =>
       Own(a.request) = {} /\ \E o \in orders : o.row = a.row /\ o.mode = "SECURE"
  /\ outcome \in {"FAILED", "STOCK_UNAVAILABLE"} /\ Own(a.request) # {} => dbFailed

RequestAttemptOK(a) ==
  /\ cpc[a.request] \notin Before
  /\ cpc[a.request] = "attempt" => a.row = cl[a.request].row

AttemptOK(a) ==
  LET p == cpc[a.request]
      l == cl[a.request]
  IN  /\ p \notin Before \cup {"attempt"}
      /\ p # "done" => a.row = l.row
      /\ \A o \in Own(a.request) : o.row = a.row
      /\ TrueOf(a.outcome, a)
      /\ p \in Reserving => a.outcome = "none"
      /\ p \in Answering => TrueOf(l.outcome, a)
      /\ p \in {"truncate", "crash"} => a.outcome # "none"
      /\ p = "failed" => TrueOf("FAILED", a)
      /\ reply[a.request].status \in {"ok", "lost"} => a.outcome # "none"
      /\ TrueOf(reply[a.request].outcome, a)

OutcomeInv ==
  /\ StockInv /\ OutcomeTypes /\ RowsKept
  /\ \A r \in Requests : PointOK(r)
  /\ \A a \in requestAttempts : RequestAttemptOK(a)
  /\ \A a \in attempts : AttemptOK(a)


\* What holds of a submission and its columns wherever it stands.
LEMMA OutcomeFacts ==
  ASSUME OutcomeInv, NEW r \in Requests
  PROVE  /\ cl \in [Requests -> Local] /\ cpc \in [Requests -> Points]
         /\ cl[r] \in Local /\ cpc[r] \in Points /\ FlowOK(cpc[r], cl[r]) /\ PointOK(r)
         /\ reply \in [Requests -> [status : Statuses, outcome : Outcomes \cup {"none"}]]
         /\ attempts \subseteq Attempt /\ requestAttempts \subseteq RequestAttempt
         /\ dbFailed \in BOOLEAN
         /\ cpc[r] \in Unserved => Own(r) = {}
         /\ \A a \in attempts : a.request = r => cpc[r] \notin Before \cup {"attempt"}
         /\ \A a \in requestAttempts : a.request = r => cpc[r] \notin Before
<1>1. StockInv
  BY DEF OutcomeInv
<1>2. cpc[r] \in Unserved => Own(r) = {}
  BY <1>1 DEF StockInv, Flows, Own
<1>3. /\ \A a \in attempts : a.request = r => cpc[r] \notin Before \cup {"attempt"}
      /\ \A a \in requestAttempts : a.request = r => cpc[r] \notin Before
  BY DEF OutcomeInv, AttemptOK, RequestAttemptOK
<1> QED
  BY <1>1, <1>2, <1>3, FactsOf DEF OutcomeInv, OutcomeTypes

\* Submission r goes to point p with locals l, and its client has seen y.
Moves(r, p, l, y) ==
  /\ cpc' = [cpc EXCEPT ![r] = p]
  /\ cl' = [cl EXCEPT ![r] = l]
  /\ reply' = [reply EXCEPT ![r] = y]

\* A step of r may touch only its own rows: all others keep what is true of them.
LEMMA OneMoves ==
  ASSUME OutcomeInv, StockInv', NEW r \in Requests, NEW p, NEW l,
         NEW y \in [status : Statuses, outcome : Outcomes \cup {"none"}], Moves(r, p, l, y),
         orders' = orders \/ orders' = orders \cup {NewOrder(r)},
         dbFailed' \in BOOLEAN, dbFailed => dbFailed',
         RowsKept', PointOK(r)', attempts' \subseteq Attempt, requestAttempts' \subseteq RequestAttempt,
         \A a \in requestAttempts' : a.request # r => a \in requestAttempts,
         \A a \in requestAttempts' : a.request = r => RequestAttemptOK(a)',
         \A a \in attempts' : a.request # r => a \in attempts,
         \A a \in attempts' : a.request = r => AttemptOK(a)'
  PROVE  OutcomeInv'
<1> USE DEF Moves
<1>1. /\ \A q \in Requests \ {r} : cpc'[q] = cpc[q] /\ cl'[q] = cl[q] /\ reply'[q] = reply[q]
      /\ reply' \in [Requests -> [status : Statuses, outcome : Outcomes \cup {"none"}]]
  BY OutcomeFacts
<1>2. OutcomeTypes'
  BY <1>1 DEF OutcomeTypes
<1>3. \A q \in Requests : PointOK(q)'
  BY <1>1 DEF OutcomeInv, PointOK
<1>4. \A a \in requestAttempts' : RequestAttemptOK(a)'
  <2> SUFFICES ASSUME NEW a \in requestAttempts', a.request # r PROVE RequestAttemptOK(a)'
    OBVIOUS
  <2>1. a.request \in Requests \ {r} /\ RequestAttemptOK(a)
    BY DEF OutcomeInv, RequestAttempt
  <2> QED
    BY <1>1, <2>1 DEF RequestAttemptOK
<1>5. \A a \in attempts' : AttemptOK(a)'
  <2> SUFFICES ASSUME NEW a \in attempts', a.request # r PROVE AttemptOK(a)'
    OBVIOUS
  <2>1. a.request \in Requests \ {r} /\ AttemptOK(a)
    BY DEF OutcomeInv, Attempt
  <2>2. Own(a.request)' = Own(a.request) /\ orders \subseteq orders'
    BY <2>1 DEF Own, NewOrder
  <2>3. \A outcome : TrueOf(outcome, a) => TrueOf(outcome, a)'
    BY <2>2 DEF TrueOf
  <2>4. cpc'[a.request] = cpc[a.request] /\ cl'[a.request] = cl[a.request]
        /\ reply'[a.request] = reply[a.request]
    BY <1>1, <2>1
  <2> QED
    BY <2>1, <2>2, <2>3, <2>4 DEF AttemptOK
<1> QED
  BY <1>2, <1>3, <1>4, <1>5 DEF OutcomeInv

\* A step that leaves intents, settlements and orders alone keeps their rows.
LEMMA RowsFrame ==
  ASSUME OutcomeInv, intents \subseteq intents', UNCHANGED <<settled, orders>>,
         events' \subseteq intents',
         \A a \in requestAttempts' : a \in requestAttempts \/ a.row \in intents',
         \A a \in attempts' : a.row \in intents' \/ \E b \in attempts : b.row = a.row
  PROVE  RowsKept'
BY DEF OutcomeInv, RowsKept

\* The answer ends a submission that has no attempt yet.
LEMMA RefusedEarly ==
  ASSUME OutcomeInv, StockInv', NEW r \in Requests, cpc[r] \in Before \cup {"attempt"},
         NEW status \in Statuses, Reply(r, status, "none"), status \notin {"ok", "lost"},
         UNCHANGED <<businessVars>>, dbFailed' \in BOOLEAN, dbFailed => dbFailed'
  PROVE  OutcomeInv'
<1> USE OutcomeFacts DEF businessVars
<1> DEFINE y == [status |-> status, outcome |-> "none"]
<1>1. Moves(r, "done", NoLocal, y)
  BY DEF Moves, Reply, Go
<1>2. y \in [status : Statuses, outcome : Outcomes \cup {"none"}]
  OBVIOUS
<1>3. RowsKept'
  BY DEF OutcomeInv, RowsKept
<1>4. cpc'[r] = "done"
  BY <1>1 DEF Moves
<1>5. PointOK(r)'
  BY <1>4 DEF PointOK, Answering
<1>6. \A a \in requestAttempts' : a.request = r => RequestAttemptOK(a)'
  BY <1>4 DEF RequestAttemptOK, Before
<1>7. \A a \in attempts' : a.request # r
  OBVIOUS
<1> HIDE DEF y
<1> QED
  BY <1>1, <1>2, <1>3, <1>5, <1>6, <1>7, OneMoves

\* A step of a submission that has no attempt yet and writes no attempt.
LEMMA NoAttemptYet ==
  ASSUME OutcomeInv, StockInv', NEW r \in Requests, cpc[r] \in Before,
         NEW p \in Before \cup {"attempt"}, NEW l \in Local, Moves(r, p, l, reply[r]),
         p \in {"scope", "intent", "event", "request", "attempt"} => l.mode \in Modes,
         UNCHANGED <<settled, orders, attempts, dbFailed>>,
         intents \subseteq intents', events' \subseteq intents',
         requestAttempts' \subseteq RequestAttempt,
         \A a \in requestAttempts' : \/ a \in requestAttempts
                                     \/ /\ a.request = r /\ a.row = l.row /\ p = "attempt"
                                        /\ a.row \in intents'
  PROVE  OutcomeInv'
<1> USE OutcomeFacts
<1>1. cpc'[r] = p /\ cl'[r] = l /\ reply'[r] = reply[r]
  BY DEF Moves
<1>2. RowsKept'
  BY RowsFrame DEF OutcomeInv, RowsKept
<1>3. PointOK(r)'
  BY <1>1 DEF PointOK, Before, Answering
<1>4. \A a \in requestAttempts' : a.request = r => RequestAttemptOK(a)'
  BY <1>1 DEF RequestAttemptOK, Before
<1> QED
  BY <1>2, <1>3, <1>4, OneMoves DEF OutcomeInv

\* The steps up to the request attempt.
LEMMA ArrivalOutcome ==
  ASSUME OutcomeInv, StockInv', NEW r \in Requests,
         \/ RefuseSubmission(r) \/ PreMutationHook(r) \/ ReadConfiguration(r)
         \/ currentScope(r) \/ UpsertIntent(r) \/ UpsertEvent(r) \/ CreateRequestAttempt(r)
  PROVE  OutcomeInv'
<1> USE OutcomeFacts DEF stockVars, businessVars, At
<1>0. RowsKept /\ StockInv
  BY DEF OutcomeInv
<1>1. CASE RefuseSubmission(r)
  BY <1>1, RefusedEarly DEF RefuseSubmission, Before, Statuses
<1>2. CASE PreMutationHook(r)
  <2>0. /\ cpc[r] \in Before /\ "configuration" \in Before
        /\ UNCHANGED <<settled, orders, attempts, dbFailed, intents, events, requestAttempts>>
    BY <1>2 DEF PreMutationHook, Before
  <2>1. CASE Reply(r, "rejected", "none")
    BY <1>2, <2>0, <2>1, RefusedEarly DEF PreMutationHook, Statuses
  <2>2. CASE /\ Go(r, "configuration") /\ UNCHANGED reply
             /\ \E intent \in Intents, id \in AttemptIds :
                  cl' = [cl EXCEPT ![r].intent = intent, ![r].id = id]
    <3>1. PICK intent \in Intents, id \in AttemptIds :
            cl' = [cl EXCEPT ![r].intent = intent, ![r].id = id]
      BY <2>2
    <3> DEFINE l == [cl[r] EXCEPT !.intent = intent, !.id = id]
    <3>2. l \in Local
      BY DEF Local
    <3>3. Moves(r, "configuration", l, reply[r])
      BY <2>2, <3>1 DEF Moves, Go
    <3> HIDE DEF l
    <3> QED
      BY <1>0, <2>0, <3>2, <3>3, NoAttemptYet DEF RowsKept
  <2> QED
    BY <1>2, <2>1, <2>2 DEF PreMutationHook
<1>3. CASE ReadConfiguration(r)
  <2> DEFINE l == [cl[r] EXCEPT !.mode = Configuration]
  <2>1. Configuration \in Modes
    BY <1>0, FactsOf DEF ModeNames
  <2>2. l \in Local /\ l.mode = Configuration
    BY <2>1 DEF Local, ModeNames
  <2>3. Moves(r, "scope", l, reply[r])
    BY <1>3 DEF Moves, Go, ReadConfiguration
  <2>4. /\ cpc[r] \in Before /\ "scope" \in Before
        /\ UNCHANGED <<settled, orders, attempts, dbFailed, intents, events, requestAttempts>>
    BY <1>3 DEF ReadConfiguration, Before
  <2> HIDE DEF l
  <2> QED
    BY <1>0, <2>1, <2>2, <2>3, <2>4, NoAttemptYet DEF RowsKept
<1>4. CASE currentScope(r)
  <2>1. /\ cpc[r] \in Before /\ "intent" \in Before /\ cl[r].mode \in Modes
        /\ UNCHANGED <<settled, orders, attempts, dbFailed, intents, events, requestAttempts>>
    BY <1>4 DEF currentScope, Before, PointOK
  <2>2. CASE sku.scope = NoScope
    BY <1>4, <2>1, <2>2, RefusedEarly DEF currentScope, Statuses
  <2>3. CASE sku.scope # NoScope
    <3> DEFINE l == [cl[r] EXCEPT !.scope = sku.scope]
    <3>1. sku.scope \in ScopeNames
      BY <1>0 DEF StockInv, StockTypes
    <3>2. l \in Local /\ l.mode = cl[r].mode
      BY <3>1 DEF Local
    <3>3. Moves(r, "intent", l, reply[r])
      BY <1>4, <2>3 DEF Moves, Go, currentScope
    <3> HIDE DEF l
    <3> QED
      BY <1>0, <2>1, <3>2, <3>3, NoAttemptYet DEF RowsKept
  <2> QED
    BY <2>2, <2>3
<1>5. CASE UpsertIntent(r)
  <2> DEFINE row == RowOf(cl[r].scope, r)
             l == [cl[r] EXCEPT !.row = row]
  <2>1. cl[r].scope \in Scopes
    BY <1>5 DEF UpsertIntent, FlowOK
  <2>2. row \in Row
    BY <1>0, <2>1 DEF RowOf, Row, Local, ScopeNames, StockTypes, StockInv
  <2>3. l \in Local /\ l.mode = cl[r].mode
    BY <2>2 DEF Local
  <2>4. Moves(r, "event", l, reply[r])
    BY <1>5 DEF Moves, Go, UpsertIntent
  <2>5. /\ cpc[r] \in Before /\ "event" \in Before /\ cl[r].mode \in Modes
        /\ UNCHANGED <<settled, orders, attempts, dbFailed, events, requestAttempts>>
        /\ intents \subseteq intents'
    BY <1>5 DEF UpsertIntent, Before, PointOK
  <2> HIDE DEF l
  <2> QED
    BY <1>0, <2>3, <2>4, <2>5, NoAttemptYet DEF RowsKept
<1>6. CASE UpsertEvent(r)
  <2>1. /\ cpc[r] \in Before /\ "request" \in Before /\ cl[r].mode \in Modes
        /\ UNCHANGED <<settled, orders, attempts, dbFailed, intents, requestAttempts>>
    BY <1>6 DEF UpsertEvent, Before, PointOK
  <2>2. CASE cl[r].row \notin intents
    BY <1>6, <2>1, <2>2, RefusedEarly DEF UpsertEvent, Statuses
  <2>3. CASE cl[r].row \in intents
    <3>1. Moves(r, "request", cl[r], reply[r]) /\ events' \subseteq intents'
      BY <1>0, <1>6, <2>3 DEF Moves, Go, UpsertEvent, RowsKept
    <3> QED
      BY <2>1, <3>1, NoAttemptYet
  <2> QED
    BY <2>2, <2>3
<1>7. CASE CreateRequestAttempt(r)
  <2>1. /\ cpc[r] \in Before /\ cl[r].mode \in Modes
        /\ UNCHANGED <<settled, orders, attempts, dbFailed, intents, events>>
    BY <1>7 DEF CreateRequestAttempt, Before, PointOK
  <2>2. CASE UNCHANGED requestAttempts /\ \E status \in Statuses \ {"ok", "lost"} : Reply(r, status, "none")
    BY <2>1, <2>2, RefusedEarly
  <2> DEFINE a == [id |-> cl[r].id, row |-> cl[r].row, request |-> r]
  <2>3. CASE /\ cl[r].row \in events /\ requestAttempts' = requestAttempts \cup {a}
             /\ Go(r, "attempt") /\ UNCHANGED <<reply, cl>>
    <3>1. Moves(r, "attempt", cl[r], reply[r])
      BY <2>3 DEF Moves, Go
    <3>2. a \in RequestAttempt /\ a.request = r /\ a.row = cl[r].row /\ cl[r].row \in intents
      BY <1>0, <2>3 DEF RequestAttempt, Local, RowsKept
    <3>3. events' \subseteq intents'
      BY <1>0, <2>1 DEF RowsKept
    <3> HIDE DEF a
    <3>4. /\ requestAttempts' \subseteq RequestAttempt /\ intents \subseteq intents'
          /\ \A b \in requestAttempts' :
               \/ b \in requestAttempts
               \/ b.request = r /\ b.row = cl[r].row /\ b.row \in intents'
      BY <2>1, <2>3, <3>2
    <3> QED
      BY <2>1, <3>1, <3>3, <3>4, NoAttemptYet
  <2> QED
    BY <1>7, <2>2, <2>3 DEF CreateRequestAttempt, Statuses
<1> QED
  BY <1>1, <1>2, <1>3, <1>4, <1>5, <1>6, <1>7

\* The attempt starts without an outcome, on the row of its request attempt.
LEMMA AttemptCreated ==
  ASSUME OutcomeInv, StockInv', NEW r \in Requests, CreateProcessingAttempt(r)
  PROVE  OutcomeInv'
<1> USE OutcomeFacts DEF stockVars, businessVars, At
<1>1. RowsKept /\ cpc[r] = "attempt" /\ cl[r].mode \in Modes /\ reply[r] = NoReply
  BY DEF OutcomeInv, CreateProcessingAttempt, PointOK
<1>2. UNCHANGED <<intents, settled, events, requestAttempts, orders, dbFailed>>
  BY DEF CreateProcessingAttempt
<1>3. CASE UNCHANGED attempts /\ Reply(r, "error", "none")
  BY <1>1, <1>2, <1>3, RefusedEarly DEF Statuses
<1> PICK new : new = [request |-> r, row |-> cl[r].row, mode |-> cl[r].mode, outcome |-> "none"]
  OBVIOUS
<1> DEFINE p == IF cl[r].mode = "VULNERABLE" THEN "check" ELSE "reserve"
<1>4. CASE /\ \E a \in requestAttempts : a.request = r
           /\ attempts' = attempts \cup {new} /\ Go(r, p) /\ UNCHANGED <<reply, cl>>
  <2>1. Moves(r, p, cl[r], reply[r]) /\ cpc'[r] = p /\ cl' = cl /\ reply' = reply
    BY <1>4 DEF Moves, Go
  <2>2. PICK b \in requestAttempts : b.request = r
    BY <1>4
  <2>3. b.row = cl[r].row /\ b.row \in intents
    BY <1>1, <2>2 DEF OutcomeInv, RequestAttemptOK, RowsKept
  <2>4. new \in Attempt /\ new.request = r /\ new.row = cl[r].row /\ new.outcome = "none"
    BY DEF Attempt, Local, AttemptOutcomes
  <2>5. RowsKept'
    BY <1>1, <1>2, <1>4, <2>3, <2>4 DEF RowsKept
  <2>6. p \in Reserving /\ p # "done" /\ p \notin Before \cup {"attempt"} \cup Answering /\ p # "failed"
    BY DEF Reserving, Before, Answering
  <2>7. PointOK(r)'
    BY <1>1, <2>1, <2>6 DEF PointOK, Answering, Reserving
  <2>8. Own(r)' = {}
    BY <1>1, <1>2 DEF Own, Unserved
  <2>9. \A outcome : outcome = "none" => TrueOf(outcome, new)'
    BY DEF TrueOf
  <2>10. reply'[r].status = "none" /\ reply'[r].outcome = "none"
    BY <1>1, <2>1 DEF NoReply
  <2> HIDE DEF p
  <2>11. AttemptOK(new)'
    BY <2>1, <2>4, <2>6, <2>8, <2>9, <2>10 DEF AttemptOK, Answering
  <2>12. \A a \in requestAttempts' : a.request = r => RequestAttemptOK(a)'
    BY <2>1, <2>6 DEF RequestAttemptOK
  <2>13. \A a \in attempts' : (a.request = r => a = new) /\ (a.request # r => a \in attempts)
    BY <1>1, <1>4, <2>4
  <2> QED
    BY <1>1, <1>2, <1>4, <2>1, <2>4, <2>5, <2>7, <2>11, <2>12, <2>13, OneMoves
<1> QED
  BY <1>3, <1>4 DEF CreateProcessingAttempt

-----------------------------------------------------------------------------
(* The reserve transactions and what is recorded of them *)

\* A submission before its transaction has an attempt without outcome and no order.
LEMMA ReservedMove ==
  ASSUME OutcomeInv, StockInv', NEW r \in Requests, cpc[r] \in Reserving,
         NEW p \in {"act", "finalize", "failed"}, NEW l \in Local, l.row = cl[r].row,
         Moves(r, p, l, reply[r]),
         orders' = orders \/ orders' = orders \cup {NewOrder(r)},
         p # "finalize" => orders' = orders,
         p = "finalize" => /\ l.outcome # "none"
                           /\ \A a \in attempts : a.request = r => TrueOf(l.outcome, a)',
         UNCHANGED <<attempts, requestAttempts, dbFailed>>, RowsKept'
  PROVE  OutcomeInv'
<1> USE OutcomeFacts
<1>1. cpc'[r] = p /\ cl'[r] = l /\ reply'[r] = reply[r] /\ reply[r] = NoReply
  BY DEF Moves, PointOK, Reserving
<1>2. PointOK(r)'
  BY <1>1 DEF PointOK, Answering
<1>3. \A a \in requestAttempts' : a.request = r => RequestAttemptOK(a)'
  BY <1>1 DEF RequestAttemptOK, Before
<1>4. Own(r) = {} /\ \A o \in Own(r)' : o.row = cl[r].row
  BY DEF Own, NewOrder, Reserving, Unserved
<1>5. ASSUME NEW a \in attempts, a.request = r PROVE AttemptOK(a)'
  <2>1. a.outcome = "none" /\ a.row = cl[r].row
    BY <1>5 DEF OutcomeInv, AttemptOK, Reserving
  <2>2. \A outcome : outcome = "none" => TrueOf(outcome, a)'
    BY DEF TrueOf
  <2>3. p = "failed" => TrueOf("FAILED", a)'
    BY <1>4, <1>5 DEF TrueOf, Own
  <2>4. p \notin Before \cup {"attempt", "done", "truncate", "crash"} /\ (p \in Answering => p = "finalize")
    BY DEF Before, Answering
  <2>5. reply'[r].status = "none" /\ reply'[r].outcome = "none"
    BY <1>1 DEF NoReply
  <2> QED
    BY <1>1, <1>4, <1>5, <2>1, <2>2, <2>3, <2>4, <2>5 DEF AttemptOK
<1> QED
  BY <1>2, <1>3, <1>5, OneMoves DEF OutcomeInv

\* A submission past its transaction, or failing, records what is true of it.
LEMMA LateMove ==
  ASSUME OutcomeInv, StockInv', NEW r \in Requests, cpc[r] \notin Before \cup {"attempt"},
         NEW p \in {"truncate", "crash", "failed", "done"}, NEW l,
         NEW y \in [status : Statuses, outcome : Outcomes \cup {"none"}], Moves(r, p, l, y),
         p # "done" => l = cl[r] /\ y = reply[r] /\ cpc[r] # "done",
         p \in {"truncate", "crash"} => cpc[r] \in Answering,
         UNCHANGED <<intents, settled, events, requestAttempts, orders>>,
         dbFailed' \in BOOLEAN, dbFailed => dbFailed',
         attempts' \subseteq Attempt,
         \A a \in attempts' : a \in attempts
                              \/ \E b \in attempts : b.request = r /\ a.request = r /\ b.row = a.row,
         \A a \in attempts' : a.request = r =>
           /\ TrueOf(a.outcome, a)' /\ TrueOf(y.outcome, a)'
           /\ p \in {"truncate", "crash"} => a.outcome # "none" /\ TrueOf(l.outcome, a)'
           /\ p = "failed" => TrueOf("FAILED", a)'
           /\ y.status \in {"ok", "lost"} => a.outcome # "none"
  PROVE  OutcomeInv'
<1> USE OutcomeFacts
<1>1. cpc'[r] = p /\ cl'[r] = l /\ reply'[r] = y
  BY DEF Moves
<1>2. PointOK(r)'
  BY <1>1 DEF PointOK, Answering
<1>3. \A a \in requestAttempts' : a.request = r => RequestAttemptOK(a)'
  BY <1>1 DEF RequestAttemptOK, Before
<1>4. RowsKept'
  BY DEF OutcomeInv, RowsKept
<1>5. ASSUME NEW a \in attempts', a.request = r PROVE AttemptOK(a)'
  <2>1. PICK b \in attempts : b.request = r /\ b.row = a.row
    BY <1>5
  <2>2. AttemptOK(b)
    BY DEF OutcomeInv
  <2>3. (p # "done" => a.row = l.row) /\ \A o \in Own(r)' : o.row = a.row
    BY <2>1, <2>2 DEF AttemptOK, Own
  <2>4. p \notin Before \cup {"attempt"} \cup Reserving /\ (p \in Answering => p \in {"truncate", "crash"})
    BY DEF Before, Reserving, Answering
  <2> QED
    BY <1>1, <1>5, <2>3, <2>4 DEF AttemptOK
<1> QED
  BY <1>2, <1>3, <1>4, <1>5, OneMoves

\* What is true of an attempt does not depend on its own columns, but on its
\* submission and row.
LEMMA TrueOfRow ==
  ASSUME NEW a, NEW b, a.request = b.request, a.row = b.row, NEW outcome, TrueOf(outcome, a),
         orders' = orders, dbFailed => dbFailed'
  PROVE  TrueOf(outcome, b)'
BY DEF TrueOf, Own

\* Recording an outcome replaces that of the submission's own attempt.
LEMMA SetOutcomeIs ==
  ASSUME OutcomeInv, NEW r \in Requests, NEW outcome \in AttemptOutcomes, SetOutcome(r, outcome)
  PROVE  /\ attempts' \subseteq Attempt
         /\ \A a \in attempts' :
              /\ a \in attempts
                   \/ \E b \in attempts : b.request = r /\ a.request = r /\ b.row = a.row
              /\ a.request = r => a.outcome = outcome
<1>1. attempts \subseteq Attempt
  BY OutcomeFacts
<1> SUFFICES ASSUME NEW a \in attempts'
             PROVE  /\ a \in Attempt
                    /\ a \in attempts
                         \/ \E b \in attempts : b.request = r /\ a.request = r /\ b.row = a.row
                    /\ a.request = r => a.outcome = outcome
  BY <1>1
<1>2. PICK b \in attempts : a = IF b.request = r THEN [b EXCEPT !.outcome = outcome] ELSE b
  BY DEF SetOutcome
<1>3. CASE b.request = r
  <2>1. a \in Attempt /\ a.request = r /\ a.row = b.row /\ a.outcome = outcome
    BY <1>1, <1>2, <1>3 DEF Attempt
  <2> QED
    BY <1>3, <2>1
<1>4. CASE b.request # r
  BY <1>1, <1>2, <1>4
<1> QED
  BY <1>3, <1>4

\* The reserve pipelines: an order is created with the outcome ACCEPTED.
LEMMA ReserveOutcomes ==
  ASSUME OutcomeInv, StockInv', NEW r \in Requests,
         NaiveCheck(r) \/ NaiveAct(r) \/ reserveIdempotentIntentScoped(r)
  PROVE  OutcomeInv'
<1> USE OutcomeFacts DEF stockVars, businessVars, At
<1>0. RowsKept /\ Own(r) = {} /\ cpc[r] \in Reserving
  BY DEF OutcomeInv, NaiveCheck, NaiveAct, reserveIdempotentIntentScoped, Reserving, Unserved
<1>1. \A outcome \in Outcomes : LET l == [cl[r] EXCEPT !.outcome = outcome]
                                IN  l \in Local /\ l.row = cl[r].row /\ l.outcome = outcome
  BY DEF Local
<1>2. CASE NaiveCheck(r)
  <2>0. UNCHANGED <<orders, attempts, requestAttempts, dbFailed>> /\ RowsKept'
    BY <1>0, <1>2 DEF NaiveCheck, RowsKept
  <2>1. CASE Go(r, "act") /\ UNCHANGED cl
    <3>1. Moves(r, "act", cl[r], reply[r])
      BY <1>2, <2>1 DEF Moves, Go, NaiveCheck
    <3> QED
      BY <1>0, <2>0, <3>1, ReservedMove
  <2>2. CASE Result(r, "STOCK_UNAVAILABLE", "finalize")
    <3> PICK l : l = [cl[r] EXCEPT !.outcome = "STOCK_UNAVAILABLE"]
      OBVIOUS
    <3>1. Moves(r, "finalize", l, reply[r])
      BY <1>2, <2>2 DEF Moves, Go, NaiveCheck, Result
    <3>2. l \in Local /\ l.row = cl[r].row /\ l.outcome = "STOCK_UNAVAILABLE"
      BY <1>1 DEF Outcomes
    <3>3. \A a \in attempts : a.request = r => TrueOf(l.outcome, a)'
      BY <1>0, <2>0, <3>2 DEF TrueOf, Own
    <3> QED
      BY <1>0, <2>0, <3>1, <3>2, <3>3, ReservedMove
  <2> QED
    BY <1>2, <2>1, <2>2 DEF NaiveCheck
<1>3. CASE NaiveAct(r)
  <2>0. UNCHANGED <<intents, settled, events, attempts, requestAttempts, dbFailed>>
    BY <1>3 DEF NaiveAct
  <2>1. CASE Go(r, "failed") /\ UNCHANGED <<orders, cl>>
    <3>1. Moves(r, "failed", cl[r], reply[r]) /\ RowsKept'
      BY <1>0, <1>3, <2>0, <2>1 DEF Moves, Go, NaiveAct, RowsKept
    <3> QED
      BY <1>0, <2>0, <2>1, <3>1, ReservedMove
  <2>2. CASE orders' = orders \cup {NewOrder(r)} /\ Result(r, "ACCEPTED", "finalize")
    <3> PICK l : l = [cl[r] EXCEPT !.outcome = "ACCEPTED"]
      OBVIOUS
    <3>1. Moves(r, "finalize", l, reply[r])
      BY <1>3, <2>2 DEF Moves, Go, NaiveAct, Result
    <3>2. l \in Local /\ l.row = cl[r].row /\ l.outcome = "ACCEPTED"
      BY <1>1 DEF Outcomes
    <3>3. RowsKept'
      BY <1>0, <2>0, <2>2 DEF RowsKept
    <3>4. NewOrder(r) \in Own(r)'
      BY <2>2 DEF Own, NewOrder
    <3>5. \A a \in attempts : a.request = r => TrueOf(l.outcome, a)'
      BY <3>2, <3>4 DEF TrueOf
    <3> QED
      BY <1>0, <2>0, <2>2, <3>1, <3>2, <3>3, <3>5, ReservedMove
  <2> QED
    BY <1>3, <2>1, <2>2 DEF NaiveAct
<1>4. CASE reserveIdempotentIntentScoped(r)
  <2> PICK outcome : outcome = ReserveOutcome(r)
    OBVIOUS
  <2> PICK l : l = [cl[r] EXCEPT !.outcome = outcome]
    OBVIOUS
  <2>0. UNCHANGED <<intents, events, attempts, requestAttempts, dbFailed>> /\ outcome \in Outcomes
    BY <1>4 DEF reserveIdempotentIntentScoped, ReserveOutcome, Outcomes
  <2>1. l \in Local /\ l.row = cl[r].row /\ l.outcome = outcome /\ outcome # "none"
    BY <1>1, <2>0 DEF Outcomes
  <2>2. Moves(r, "finalize", l, reply[r])
    BY <1>4 DEF Moves, Go, reserveIdempotentIntentScoped, Result
  <2>3. CASE outcome = "ACCEPTED"
    <3>1. orders' = orders \cup {NewOrder(r)} /\ settled' = settled \cup {cl[r].row}
      BY <1>4, <2>3 DEF reserveIdempotentIntentScoped, SettledAfter
    <3>2. NewOrder(r) \in Own(r)' /\ NewOrder(r).row = cl[r].row
      BY <3>1 DEF Own, NewOrder
    <3>3. NewOrder(r).mode = "SECURE"
      BY <1>4 DEF NewOrder, reserveIdempotentIntentScoped, PointOK, FlowOK, Modes
    <3>4. RowsKept'
      BY <1>0, <2>0, <3>1, <3>2, <3>3 DEF RowsKept
    <3>5. \A a \in attempts : a.request = r => TrueOf(l.outcome, a)'
      BY <2>1, <2>3, <3>2 DEF TrueOf
    <3> QED
      BY <1>0, <2>0, <2>1, <2>2, <3>1, <3>4, <3>5, ReservedMove
  <2>4. CASE outcome # "ACCEPTED"
    <3>1. orders' = orders /\ settled' = settled
      BY <1>4, <2>4 DEF reserveIdempotentIntentScoped, SettledAfter
    <3>2. RowsKept'
      BY <1>0, <2>0, <3>1 DEF RowsKept
    <3>3. ASSUME NEW a \in attempts, a.request = r, outcome = "INTENT_ALREADY_ACCEPTED"
          PROVE  \E o \in orders : o.row = a.row /\ o.mode = "SECURE"
      <4>1. a.row = cl[r].row /\ a.row \in intents
        BY <1>0, <3>3 DEF OutcomeInv, AttemptOK, RowsKept, Reserving
      <4>2. cl[r].row \notin intents \ settled
        BY <3>3 DEF ReserveOutcome
      <4> QED
        BY <1>0, <4>1, <4>2 DEF RowsKept
    <3>4. \A a \in attempts : a.request = r => TrueOf(l.outcome, a)'
      BY <1>0, <2>1, <2>4, <3>1, <3>3 DEF TrueOf, Own
    <3> QED
      BY <1>0, <2>0, <2>1, <2>2, <3>1, <3>2, <3>4, ReservedMove
  <2> QED
    BY <2>3, <2>4
<1> QED
  BY <1>2, <1>3, <1>4

\* What a submission records, answers and gives up with is true of its attempt.
LEMMA DepartureOutcomes ==
  ASSUME OutcomeInv, StockInv', NEW r \in Requests,
         \/ FinalizeAttempt(r) \/ RecordFailure(r) \/ DbError(r)
         \/ ResponseHook(r, "truncate", RESPONSE_TRUNCATION)
         \/ ResponseHook(r, "crash", CRASH_MID_PROCESSING)
  PROVE  OutcomeInv'
<1> USE OutcomeFacts DEF stockVars, businessVars, At
<1>0. /\ \A a \in attempts : AttemptOK(a)
      /\ NoReply.outcome = "none" /\ NoReply.status = "none"
  BY DEF OutcomeInv, NoReply
<1>5. \A a, outcome : outcome = "none" => TrueOf(outcome, a)'
  BY DEF TrueOf
<1>1. CASE FinalizeAttempt(r)
  <2>0. /\ cpc[r] = "finalize" /\ cpc[r] \notin Before \cup {"attempt"} /\ cpc[r] \in Answering
        /\ UNCHANGED <<intents, settled, events, requestAttempts, orders, dbFailed>>
        /\ cl[r].outcome \in Outcomes /\ reply[r] = NoReply
    BY <1>1 DEF FinalizeAttempt, Before, Answering, PointOK, Local
  <2>1. CASE AttemptsOf(r) = {}
    <3>1. Moves(r, "failed", cl[r], reply[r]) /\ attempts' = attempts
      BY <1>1, <2>1 DEF FinalizeAttempt, Go, Moves
    <3>2. \A a \in attempts : a.request # r
      BY <2>1 DEF AttemptsOf
    <3> QED
      BY <2>0, <3>1, <3>2, LateMove
  <2>2. CASE AttemptsOf(r) # {}
    <3> PICK rec : rec = IF cl[r].outcome = "STOCK_UNAVAILABLE" THEN "FAILED" ELSE cl[r].outcome
      OBVIOUS
    <3>1. Moves(r, "truncate", cl[r], reply[r]) /\ SetOutcome(r, rec)
      BY <1>1, <2>2 DEF FinalizeAttempt, Go, Moves
    <3>2. rec \in AttemptOutcomes /\ rec # "none"
      BY <2>0 DEF AttemptOutcomes, Outcomes
    <3>3. ASSUME NEW a \in attempts', a.request = r
          PROVE  TrueOf(rec, a)' /\ TrueOf(cl[r].outcome, a)
      <4>1. PICK b \in attempts : b.request = r /\ b.row = a.row
        BY <3>1, <3>2, <3>3, SetOutcomeIs
      <4>2. TrueOf(cl[r].outcome, b)
        BY <1>0, <2>0, <4>1 DEF AttemptOK
      <4>3. TrueOf(rec, b)
        BY <4>2 DEF TrueOf
      <4>4. TrueOf(rec, a)'
        BY <2>0, <3>3, <4>1, <4>3, TrueOfRow
      <4> QED
        BY <3>3, <4>1, <4>2, <4>4 DEF TrueOf
    <3> PICK outcome : outcome = cl[r].outcome
      OBVIOUS
    <3>4. \A a \in attempts' : a.request = r => TrueOf(outcome, a)'
      BY <2>0, <3>3, TrueOfRow
    <3>5. /\ attempts' \subseteq Attempt
          /\ \A a \in attempts' :
               a \in attempts \/ \E b \in attempts : b.request = r /\ a.request = r /\ b.row = a.row
          /\ \A a \in attempts' : a.request = r => a.outcome = rec
      BY <3>1, <3>2, SetOutcomeIs
    <3> PICK l, y : l = cl[r] /\ y = reply[r]
      OBVIOUS
    <3>6. ASSUME NEW a \in attempts', a.request = r
          PROVE  /\ TrueOf(a.outcome, a)' /\ TrueOf(y.outcome, a)' /\ TrueOf(l.outcome, a)'
                 /\ a.outcome # "none" /\ y.status \notin {"ok", "lost"}
      <4>1. a.outcome = rec /\ l.outcome = outcome /\ y.outcome = "none" /\ y.status = "none"
        BY <1>0, <2>0, <3>5, <3>6
      <4>2. TrueOf(rec, a)' /\ TrueOf(outcome, a)' /\ TrueOf("none", a)'
        BY <1>5, <3>3, <3>4, <3>6
      <4> QED
        BY <3>2, <4>1, <4>2
    <3>7. /\ Moves(r, "truncate", l, y)
          /\ y \in [status : Statuses, outcome : Outcomes \cup {"none"}]
      BY <3>1
    <3>8. cpc[r] # "done"
      BY <2>0
    <3> QED
      BY <2>0, <3>5, <3>6, <3>7, <3>8, LateMove
  <2> QED
    BY <2>1, <2>2
<1>2. CASE RecordFailure(r)
  <2> DEFINE y == [status |-> "error", outcome |-> "none"]
  <2>0. /\ cpc[r] = "failed" /\ cpc[r] \notin Before \cup {"attempt"}
        /\ UNCHANGED <<intents, settled, events, requestAttempts, orders>>
    BY <1>2 DEF RecordFailure, Before
  <2>5. dbFailed' \in BOOLEAN /\ (dbFailed => dbFailed')
    <3>1. UNCHANGED <<dbFailed, faultVars>> \/ dbFailed' = TRUE
      BY <1>2, Zenon DEF RecordFailure
    <3>2. dbFailed \in BOOLEAN
      BY OutcomeFacts
    <3>3. CASE UNCHANGED <<dbFailed, faultVars>>
      <4>1. dbFailed' = dbFailed
        BY <3>3
      <4> QED
        BY <3>2, <4>1, Zenon
    <3>4. CASE dbFailed' = TRUE
      BY <3>4, Zenon
    <3> QED
      BY <3>1, <3>3, <3>4, Zenon
  <2>1. /\ Moves(r, "done", NoLocal, y) /\ y.outcome = "none" /\ y.status = "error"
        /\ y \in [status : Statuses, outcome : Outcomes \cup {"none"}]
    BY <1>2 DEF RecordFailure, Reply, Go, Moves, Statuses
  <2> HIDE DEF y
  <2>4. \A a : TrueOf(y.outcome, a)'
    BY <1>5, <2>1
  <2>6. ASSUME attempts' \subseteq Attempt,
               \A a \in attempts' :
                 a \in attempts \/ \E b \in attempts : b.request = r /\ a.request = r /\ b.row = a.row,
               \A a \in attempts' : a.request = r => TrueOf(a.outcome, a)'
        PROVE  OutcomeInv'
    <3> PICK l : l = NoLocal
      OBVIOUS
    <3>1. Moves(r, "done", l, y)
      BY <2>1
    <3>2. \A a \in attempts' : a.request = r => TrueOf(a.outcome, a)' /\ TrueOf(y.outcome, a)'
      BY <2>4, <2>6
    <3>3. y.status \notin {"ok", "lost"} /\ y \in [status : Statuses, outcome : Outcomes \cup {"none"}]
      BY <2>1
    <3> QED
      BY <2>0, <2>5, <2>6, <3>1, <3>2, <3>3, LateMove
  <2>2. CASE SetOutcome(r, "FAILED")
    <3>1. ASSUME NEW a \in attempts', a.request = r PROVE TrueOf(a.outcome, a)'
      <4>1. PICK b \in attempts : b.request = r /\ b.row = a.row
        BY <2>2, <3>1, SetOutcomeIs DEF AttemptOutcomes
      <4>2. TrueOf("FAILED", b)
        BY <1>0, <2>0, <4>1 DEF AttemptOK
      <4>3. a.outcome = "FAILED"
        BY <2>2, <3>1, SetOutcomeIs DEF AttemptOutcomes
      <4> QED
        BY <2>0, <2>5, <3>1, <4>1, <4>2, <4>3, TrueOfRow
    <3>2. /\ attempts' \subseteq Attempt
          /\ \A a \in attempts' :
               a \in attempts \/ \E b \in attempts : b.request = r /\ a.request = r /\ b.row = a.row
      BY <2>2, SetOutcomeIs DEF AttemptOutcomes
    <3> QED
      BY <2>6, <3>1, <3>2
  <2>3. CASE attempts' = attempts
    <3>1. ASSUME NEW a \in attempts, a.request = r PROVE TrueOf(a.outcome, a)'
      <4>1. TrueOf(a.outcome, a)
        BY <1>0 DEF AttemptOK
      <4> QED
        BY <2>0, <2>5, <4>1, TrueOfRow
    <3> QED
      BY <2>3, <2>6, <3>1
  <2> QED
    BY <1>2, <2>2, <2>3 DEF RecordFailure
<1>3. CASE DbError(r)
  <2>0. UNCHANGED <<businessVars>> /\ dbFailed' = TRUE
    BY <1>3 DEF DbError
  <2>1. CASE cpc[r] \in Before \cup {"attempt"} /\ Reply(r, "error", "none")
    BY <2>0, <2>1, RefusedEarly DEF Statuses
  <2>2. CASE /\ cpc[r] \in Reserving \cup {"finalize", "truncate"}
             /\ Go(r, "failed") /\ UNCHANGED <<reply, cl>>
    <3>1. Moves(r, "failed", cl[r], reply[r]) /\ reply[r] = NoReply
          /\ cpc[r] \notin Before \cup {"attempt", "done"}
      BY <2>2 DEF Moves, Go, PointOK, Before, Reserving
    <3> PICK l, y : l = cl[r] /\ y = reply[r]
      OBVIOUS
    <3>2. ASSUME NEW a \in attempts, a.request = r
          PROVE  TrueOf(a.outcome, a)' /\ TrueOf(y.outcome, a)' /\ TrueOf("FAILED", a)'
      <4>1. TrueOf(a.outcome, a)
        BY <1>0 DEF AttemptOK
      <4>2. TrueOf(a.outcome, a)'
        BY <2>0, <4>1, TrueOfRow
      <4>3. TrueOf("FAILED", a)'
        BY <2>0 DEF TrueOf
      <4>4. y.outcome = "none"
        BY <1>0, <3>1
      <4> QED
        BY <1>5, <4>2, <4>3, <4>4
    <3>3. y.status \notin {"ok", "lost"} /\ Moves(r, "failed", l, y)
      BY <1>0, <3>1
    <3> QED
      BY <2>0, <3>1, <3>2, <3>3, LateMove
  <2>3. \/ cpc[r] \in Before \cup {"attempt"} /\ Reply(r, "error", "none")
        \/ /\ cpc[r] \in Reserving \cup {"finalize", "truncate"}
           /\ Go(r, "failed") /\ UNCHANGED <<reply, cl>>
    BY <1>3, Zenon DEF DbError, Before, Reserving
  <2> QED
    BY <2>1, <2>2, <2>3
<1>4. CASE \/ ResponseHook(r, "truncate", RESPONSE_TRUNCATION)
           \/ ResponseHook(r, "crash", CRASH_MID_PROCESSING)
  <2>0. /\ cpc[r] \in {"truncate", "crash"} /\ cpc[r] \in Answering /\ cl[r].outcome \in Outcomes
        /\ UNCHANGED <<businessVars, dbFailed>> /\ reply[r] = NoReply
        /\ cpc[r] \notin Before \cup {"attempt", "done"}
    BY <1>4 DEF ResponseHook, Before, Answering, PointOK, Local
  <2> PICK outcome : outcome = cl[r].outcome
    OBVIOUS
  <2>1. ASSUME NEW a \in attempts, a.request = r
        PROVE  /\ TrueOf(a.outcome, a)' /\ TrueOf(outcome, a)' /\ TrueOf("none", a)'
               /\ a.outcome # "none"
    <3>1. TrueOf(a.outcome, a) /\ TrueOf(outcome, a) /\ a.outcome # "none"
      BY <1>0, <2>0, <2>1 DEF AttemptOK
    <3>2. TrueOf("none", a)
      BY DEF TrueOf
    <3> QED
      BY <2>0, <3>1, <3>2, TrueOfRow
  <2>2. CASE Go(r, "crash") /\ UNCHANGED <<reply, cl>>
    <3>1. Moves(r, "crash", cl[r], reply[r])
      BY <2>2 DEF Moves, Go
    <3> QED
      BY <2>0, <2>1, <3>1, LateMove DEF NoReply
  <2>3. ASSUME NEW status \in {"ok", "lost"}, NEW seen \in {"none", outcome}, Reply(r, status, seen)
        PROVE  OutcomeInv'
    <3> DEFINE y == [status |-> status, outcome |-> seen]
    <3>1. Moves(r, "done", NoLocal, y)
      BY <2>3 DEF Moves, Reply, Go
    <3>2. y \in [status : Statuses, outcome : Outcomes \cup {"none"}] /\ y.outcome = seen
      BY <2>0 DEF Statuses
    <3> HIDE DEF y
    <3> QED
      BY <2>0, <2>1, <3>1, <3>2, LateMove
  <2> QED
    BY <1>4, <2>2, <2>3 DEF ResponseHook
<1> QED
  BY <1>1, <1>2, <1>3, <1>4

\* A reset deletes the orders of an attempt exactly when it deletes the attempt.
LEMMA ResetOutcomes ==
  ASSUME OutcomeInv, StockInv', NEW scope \in Scopes, NEW units \in Units,
         NEW mode \in Modes \cup {NoMode}, resetScenarioContext(scope, units, mode)
  PROVE  OutcomeInv'
<1>1. /\ intents' = {row \in intents : row.scope # scope}
      /\ settled' = {row \in settled : row.scope # scope}
      /\ events' = {row \in events : row.scope # scope}
      /\ requestAttempts' = {a \in requestAttempts : a.row.scope # scope}
      /\ attempts' = {a \in attempts : a.row.scope # scope}
      /\ orders' = {o \in orders : o.row.scope # scope}
      /\ UNCHANGED <<reply, hit, cpc, cl>> /\ dbFailed' = dbFailed
  BY DEF resetScenarioContext, clientVars
<1>2. OutcomeTypes'
  BY <1>1 DEF OutcomeInv, OutcomeTypes
<1>3. RowsKept'
  BY <1>1 DEF OutcomeInv, RowsKept
<1>4. \A r \in Requests : PointOK(r)'
  BY <1>1 DEF OutcomeInv, PointOK
<1>5. \A a \in requestAttempts' : RequestAttemptOK(a)'
  BY <1>1 DEF OutcomeInv, RequestAttemptOK
<1>6. ASSUME NEW a \in attempts' PROVE AttemptOK(a)'
  <2>1. a \in attempts /\ a.row.scope # scope /\ AttemptOK(a)
    BY <1>1, <1>6 DEF OutcomeInv
  <2>2. \A o \in Own(a.request) : o.row = a.row
    BY <2>1 DEF AttemptOK
  <2>3. Own(a.request)' = Own(a.request)
    BY <1>1, <2>1, <2>2 DEF Own
  <2>4. \A outcome : TrueOf(outcome, a) => TrueOf(outcome, a)'
    BY <1>1, <2>1, <2>3 DEF TrueOf
  <2> QED
    BY <1>1, <2>1, <2>3, <2>4 DEF AttemptOK
<1> QED
  BY <1>2, <1>3, <1>4, <1>5, <1>6 DEF OutcomeInv

\* What leaves the business rows, the submissions and their answers alone
\* leaves every recorded outcome true.
LEMMA OutcomesFrame ==
  ASSUME OutcomeInv, StockInv', UNCHANGED <<businessVars, clientVars, dbFailed>>
  PROVE  OutcomeInv'
<1>1. UNCHANGED <<intents, settled, events, requestAttempts, attempts, orders, reply, cpc, cl>>
      /\ dbFailed' = dbFailed
  BY DEF businessVars, clientVars
<1>2. \A a : Own(a)' = Own(a)
  BY <1>1 DEF Own
<1>3. \A outcome, a : TrueOf(outcome, a)' = TrueOf(outcome, a)
  BY <1>1, <1>2 DEF TrueOf
<1>4. \A a \in attempts : AttemptOK(a) => AttemptOK(a)'
  BY <1>1, <1>2, <1>3 DEF AttemptOK
<1>5. \A a \in requestAttempts : RequestAttemptOK(a) => RequestAttemptOK(a)'
  BY <1>1 DEF RequestAttemptOK
<1>6. OutcomeTypes' /\ RowsKept' /\ \A r \in Requests : PointOK(r)'
  BY <1>1 DEF OutcomeInv, OutcomeTypes, RowsKept, PointOK
<1> QED
  BY <1>1, <1>4, <1>5, <1>6 DEF OutcomeInv

\* Nothing is recorded at the start.
LEMMA OutcomeInit == CheckoutInit => OutcomeInv
<1> SUFFICES ASSUME CheckoutInit PROVE OutcomeInv
  OBVIOUS
<1>1. /\ intents = {} /\ settled = {} /\ events = {} /\ requestAttempts = {} /\ attempts = {}
      /\ reply = [r \in Requests |-> NoReply] /\ cpc = [r \in Requests |-> "idle"]
      /\ dbFailed = FALSE
  BY DEF CheckoutInit
<1>2. OutcomeTypes
  BY <1>1 DEF OutcomeTypes, NoReply, Statuses
<1>3. RowsKept
  BY <1>1 DEF RowsKept
<1>4. \A r \in Requests : PointOK(r)
  BY <1>1 DEF PointOK, Answering
<1> QED
  BY <1>1, <1>2, <1>3, <1>4, StockInit DEF OutcomeInv

\* Every step keeps what is recorded and answered true.
LEMMA OutcomeStep == OutcomeInv /\ [CheckoutNext]_checkoutVars => OutcomeInv'
<1> SUFFICES ASSUME OutcomeInv, [CheckoutNext]_checkoutVars PROVE OutcomeInv'
  OBVIOUS
<1>1. StockInv'
  BY StockStep DEF OutcomeInv
<1>2. ASSUME NEW r \in Requests, Submission(r) PROVE OutcomeInv'
  <2>1. CASE \/ RefuseSubmission(r) \/ PreMutationHook(r) \/ ReadConfiguration(r)
             \/ currentScope(r) \/ UpsertIntent(r) \/ UpsertEvent(r) \/ CreateRequestAttempt(r)
    BY <1>1, <2>1, ArrivalOutcome
  <2>2. CASE CreateProcessingAttempt(r)
    BY <1>1, <2>2, AttemptCreated
  <2>3. CASE NaiveCheck(r) \/ NaiveAct(r) \/ reserveIdempotentIntentScoped(r)
    BY <1>1, <2>3, ReserveOutcomes
  <2>4. CASE \/ FinalizeAttempt(r) \/ RecordFailure(r) \/ DbError(r)
             \/ ResponseHook(r, "truncate", RESPONSE_TRUNCATION)
             \/ ResponseHook(r, "crash", CRASH_MID_PROCESSING)
    BY <1>1, <2>4, DepartureOutcomes
  <2> QED
    BY <1>2, <2>1, <2>2, <2>3, <2>4, Zenon DEF Submission
<1>3. ASSUME NEW m \in Modes, setProcessingConfiguration(m) PROVE OutcomeInv'
  BY <1>1, <1>3, OutcomesFrame DEF setProcessingConfiguration
<1>4. ASSUME NEW s \in Scopes, NEW u \in Units, NEW m \in Modes \cup {NoMode},
             resetScenarioContext(s, u, m)
      PROVE  OutcomeInv'
  BY <1>1, <1>4, ResetOutcomes
<1>5. CASE UNCHANGED <<businessVars, clientVars, dbFailed>>
  BY <1>1, <1>5, OutcomesFrame
<1>6. CASE UNCHANGED checkoutVars
  BY <1>5, <1>6 DEF checkoutVars
<1>7. CASE FaultAdmin /\ UNCHANGED <<stockVars, businessVars, clientVars, dbFailed>>
  BY <1>5, <1>7
<1> QED
  BY <1>2, <1>3, <1>4, <1>6, <1>7, Zenon DEF CheckoutNext, Administration

\* What is recorded and answered is what happened, for any number of
\* overlapping submissions, resets, changes of mode, faults and database errors.
THEOREM OutcomesTruthfulCorrect == CheckoutSpec => []OutcomesTruthful
<1>1. OutcomeInv => OutcomesTruthful
  BY DEF OutcomeInv, OutcomesTruthful, AttemptOK, TrueOf, Own
<1>2. CheckoutSpec => []OutcomeInv
  BY OutcomeInit, OutcomeStep, PTL DEF CheckoutSpec
<1> QED
  BY <1>1, <1>2, PTL

=============================================================================
