---------------------------- MODULE WebhookProofs ----------------------------
(***************************************************************************)
(* Proofs about Webhook, for any number of payments, deliveries and        *)
(* resets.  Credits belong to the current wallet because an attempt does:  *)
(* a reset deletes every row, and a delivery that is still under way finds *)
(* its own row gone before it can write another one.                       *)
(***************************************************************************)
EXTENDS Webhook, FiniteSetTheorems, TLAPS

PaymentIds == [name : Payments \cup {"none"}, wallet : Nat]
Events == [payment : PaymentIds, type : EventTypes \cup {"none"}]
Local == [id : DeliveryIds \cup {"none"}, event : Events, mode : PROCESSING_MODES \cup {"none"},
          outcome : {"none", "APPLIED", "IDEMPOTENT_DUPLICATE"}]

Points == {"idle", "fault", "delivery", "attempt", "mode", "credit", "failed", "failedDelivery",
           "finalize", "truncate", "crash", "done"}

WebhookTypes ==
  /\ processingMode \in PROCESSING_MODES
  /\ wallet \in [id : Nat, balanceMinor : Nat]
  /\ providerEvents \subseteq Events
  /\ wpc \in [Deliveries -> Points] /\ wl \in [Deliveries -> Local]
  /\ IsFiniteSet(ledger)

\* Every row is of the current wallet.
OfWallet(e) == e.payment.wallet = wallet.id
RowsCurrent ==
  /\ \A m \in payments : m.wallet = wallet.id /\ m \in PaymentIds
  /\ \A e \in providerEvents : OfWallet(e)
  /\ \A row \in deliveries : OfWallet(row.event)
  /\ \A a \in webhookAttempts : OfWallet(a.event)
  /\ \A l \in ledger : OfWallet(l.event)

\* Until it answers, a delivery's rows name the event it resolved.
OwnRows ==
  \A d \in Deliveries :
    /\ wpc[d] = "attempt" => \A row \in deliveries : row.delivery = d => row.event = MyEvent(d)
    /\ wpc[d] \in {"mode", "credit"} => \A a \in WAttemptsOf(d) : a.event = MyEvent(d)

\* A delivery has no row of a kind before it creates it.
NotYet ==
  \A d \in Deliveries :
    /\ wpc[d] \in {"idle", "fault", "delivery"} => \A row \in deliveries : row.delivery # d
    /\ wpc[d] \in {"idle", "fault", "delivery", "attempt"} => WAttemptsOf(d) = {}

\* The key of an entry is that of its mode and event, and the index is unique.
KeysUnique ==
  /\ \A l \in ledger : l.key = deriveIdempotencyKey(l.mode, l.event)
  /\ \A l1, l2 \in ledger : l1.key = l2.key => l1 = l2

LedgerInv ==
  /\ WebhookTypes /\ RowsCurrent /\ OwnRows /\ NotYet /\ KeysUnique
  /\ wallet.balanceMinor = Cardinality(ledger)

-----------------------------------------------------------------------------

\* The locals of a delivery that has not begun.
LEMMA NoDeliveryType == NoDelivery \in Local
BY DEF NoDelivery, Local, NoEvent, Events, PaymentIds

\* The initial states satisfy the invariant.
LEMMA LedgerInit == WebhookInit => LedgerInv
<1> SUFFICES ASSUME WebhookInit PROVE LedgerInv
  OBVIOUS
<1> USE DEF WebhookInit
<1>1. IsFiniteSet({}) /\ Cardinality({}) = 0
  BY FS_EmptySet
<1>2. WebhookTypes
  BY <1>1, NoDeliveryType DEF WebhookTypes, PROCESSING_MODES, Points
<1>3. RowsCurrent /\ OwnRows /\ NotYet /\ KeysUnique
  BY DEF RowsCurrent, OwnRows, NotYet, KeysUnique, WAttemptsOf
<1> QED
  BY <1>1, <1>2, <1>3 DEF LedgerInv

\* Delivery d goes to p with locals l.
Moves(d, p, l) ==
  /\ wpc' = [wpc EXCEPT ![d] = p]
  /\ wl' = [wl EXCEPT ![d] = l]
\* Rows of old that may have changed their outcome, and new ones of d.
RowsFrom(new, old, d) ==
  \A x \in new :
    /\ OfWallet(x.event)
    /\ x.delivery = d \/ \E y \in old : y.delivery = x.delivery /\ y.event = x.event

\* What the rows of d are when it arrives at p with locals l.
Arrives(d, p, l, rows, tries) ==
  /\ p = "attempt" => \A x \in rows : x.delivery = d => x.event = l.event
  /\ p \in {"mode", "credit"} => \A x \in tries : x.delivery = d => x.event = l.event
  /\ p \in {"idle", "fault", "delivery"} => \A x \in rows : x.delivery # d
  /\ p \in {"idle", "fault", "delivery", "attempt"} => \A x \in tries : x.delivery # d

\* A step of d that credits nothing.
LEMMA MoveKeeps ==
  ASSUME LedgerInv, NEW d \in Deliveries, NEW p \in Points, NEW l \in Local, Moves(d, p, l),
         UNCHANGED <<processingMode, wallet, payments, providerEvents, ledger>>,
         RowsFrom(deliveries', deliveries, d), RowsFrom(webhookAttempts', webhookAttempts, d),
         Arrives(d, p, l, deliveries', webhookAttempts')
  PROVE  LedgerInv'
<1> USE DEF Moves
<1>1. /\ wpc'[d] = p /\ wl'[d] = l
      /\ \A c \in Deliveries \ {d} : wpc'[c] = wpc[c] /\ wl'[c] = wl[c]
  BY DEF LedgerInv, WebhookTypes
<1>2. WebhookTypes'
  BY DEF LedgerInv, WebhookTypes
<1>3. RowsCurrent'
  BY DEF LedgerInv, RowsCurrent, RowsFrom, OfWallet
<1>4. ASSUME NEW c \in Deliveries \ {d}
      PROVE  /\ wpc'[c] = wpc[c] /\ MyEvent(c)' = MyEvent(c)
             /\ \A x \in deliveries' :
                  x.delivery = c => \E y \in deliveries : y.delivery = c /\ y.event = x.event
             /\ \A x \in webhookAttempts' :
                  x.delivery = c => \E y \in webhookAttempts : y.delivery = c /\ y.event = x.event
  BY <1>1, <1>4 DEF RowsFrom, MyEvent
<1>5. OwnRows'
  <2>1. ASSUME NEW c \in Deliveries \ {d}
        PROVE  /\ wpc'[c] = "attempt" =>
                    \A x \in deliveries' : x.delivery = c => x.event = MyEvent(c)'
               /\ wpc'[c] \in {"mode", "credit"} =>
                    \A x \in webhookAttempts' : x.delivery = c => x.event = MyEvent(c)'
    BY <1>4, <2>1 DEF LedgerInv, OwnRows, WAttemptsOf
  <2>2. /\ wpc'[d] = "attempt" => \A x \in deliveries' : x.delivery = d => x.event = MyEvent(d)'
        /\ wpc'[d] \in {"mode", "credit"} =>
             \A x \in webhookAttempts' : x.delivery = d => x.event = MyEvent(d)'
    BY <1>1 DEF Arrives, MyEvent
  <2> QED
    BY <2>1, <2>2 DEF OwnRows, WAttemptsOf
<1>6. NotYet'
  <2>1. ASSUME NEW c \in Deliveries \ {d}
        PROVE  /\ wpc'[c] \in {"idle", "fault", "delivery"} =>
                    \A x \in deliveries' : x.delivery # c
               /\ wpc'[c] \in {"idle", "fault", "delivery", "attempt"} =>
                    \A x \in webhookAttempts' : x.delivery # c
    BY <1>4, <2>1 DEF LedgerInv, NotYet, WAttemptsOf
  <2>2. /\ wpc'[d] \in {"idle", "fault", "delivery"} => \A x \in deliveries' : x.delivery # d
        /\ wpc'[d] \in {"idle", "fault", "delivery", "attempt"} =>
             \A x \in webhookAttempts' : x.delivery # d
    BY <1>1 DEF Arrives
  <2> QED
    BY <2>1, <2>2 DEF NotYet, WAttemptsOf
<1>7. KeysUnique' /\ wallet'.balanceMinor = Cardinality(ledger')
  BY DEF LedgerInv, KeysUnique
<1> QED
  BY <1>2, <1>3, <1>5, <1>6, <1>7 DEF LedgerInv

\* The rows of a delivery where it stands.
LEMMA Stands ==
  ASSUME LedgerInv, NEW d \in Deliveries
  PROVE  /\ Arrives(d, wpc[d], wl[d], deliveries, webhookAttempts)
         /\ RowsFrom(deliveries, deliveries, d)
         /\ RowsFrom(webhookAttempts, webhookAttempts, d)
         /\ wl[d] \in Local /\ NoDelivery \in Local /\ wl \in [Deliveries -> Local]
BY NoDeliveryType DEF LedgerInv, WebhookTypes, OwnRows, NotYet, RowsCurrent, Arrives, RowsFrom,
                      WAttemptsOf, MyEvent

\* Answering ends the delivery.
LEMMA ReplyKeeps ==
  ASSUME LedgerInv, NEW d \in Deliveries, NEW status, WReply(d, status),
         UNCHANGED <<processingMode, wallet, payments, providerEvents, ledger>>,
         RowsFrom(deliveries', deliveries, d), RowsFrom(webhookAttempts', webhookAttempts, d)
  PROVE  LedgerInv'
<1>1. Moves(d, "done", NoDelivery)
  BY DEF Moves, WReply, WGo
<1>2. Arrives(d, "done", NoDelivery, deliveries', webhookAttempts')
  BY DEF Arrives
<1> QED
  BY <1>1, <1>2, MoveKeeps, Stands DEF Points

\* Going on with the same locals.
LEMMA GoKeeps ==
  ASSUME LedgerInv, NEW d \in Deliveries, NEW p \in Points, WGo(d, p), UNCHANGED wl,
         UNCHANGED <<processingMode, wallet, payments, providerEvents, ledger>>,
         RowsFrom(deliveries', deliveries, d), RowsFrom(webhookAttempts', webhookAttempts, d),
         Arrives(d, p, wl[d], deliveries', webhookAttempts')
  PROVE  LedgerInv'
<1>1. wl' = [wl EXCEPT ![d] = wl[d]] /\ wl[d] \in Local
  BY Stands
<1>2. Moves(d, p, wl[d])
  BY <1>1 DEF Moves, WGo
<1> QED
  BY <1>1, <1>2, MoveKeeps

\* The steps that leave every row as it is.
LEMMA WithoutRows ==
  ASSUME LedgerInv, NEW d \in Deliveries,
         \/ RefuseDelivery(d) \/ ResolveEvent(d) \/ ReadMode(d) \/ CreditFails(d)
         \/ WebhookHook(d, "fault", PRE_MUTATION_REJECTION, "delivery", "rejected")
         \/ WebhookHook(d, "truncate", RESPONSE_TRUNCATION, "crash", "lost")
         \/ WebhookHook(d, "crash", CRASH_MID_PROCESSING, "done", "lost")
  PROVE  LedgerInv'
<1> USE Stands DEF entityVars, processingVars, Points
<1>0. UNCHANGED <<processingMode, wallet, payments, providerEvents, ledger, deliveries, webhookAttempts>>
  BY DEF RefuseDelivery, ResolveEvent, ReadMode, CreditFails, WebhookHook
<1>1. RowsFrom(deliveries', deliveries, d) /\ RowsFrom(webhookAttempts', webhookAttempts, d)
  BY <1>0
<1>2. CASE RefuseDelivery(d)
  BY <1>0, <1>1, <1>2, ReplyKeeps DEF RefuseDelivery
<1>3. CASE ResolveEvent(d)
  <2>1. PICK e \in providerEvents, id \in DeliveryIds : wl' = [wl EXCEPT ![d].event = e, ![d].id = id]
    BY <1>3 DEF ResolveEvent
  <2> DEFINE l == [wl[d] EXCEPT !.event = e, !.id = id]
  <2>2. l \in Local
    BY DEF LedgerInv, WebhookTypes, Local
  <2>3. Moves(d, "fault", l)
    BY <1>3, <2>1 DEF Moves, ResolveEvent, WGo
  <2>4. Arrives(d, "fault", l, deliveries', webhookAttempts')
    BY <1>0, <1>3 DEF Arrives, ResolveEvent, WAt
  <2> QED
    BY <1>0, <1>1, <2>2, <2>3, <2>4, MoveKeeps
<1>4. CASE ReadMode(d)
  <2> DEFINE l == [wl[d] EXCEPT !.mode = processingMode]
  <2>1. l \in Local /\ l.event = wl[d].event
    BY DEF LedgerInv, WebhookTypes, Local
  <2>2. Moves(d, "credit", l)
    BY <1>4 DEF Moves, ReadMode, WGo
  <2>3. Arrives(d, "credit", l, deliveries', webhookAttempts')
    BY <1>0, <1>4, <2>1 DEF Arrives, ReadMode, WAt
  <2> QED
    BY <1>0, <1>1, <2>1, <2>2, <2>3, MoveKeeps
<1>5. CASE CreditFails(d)
  <2>1. Arrives(d, "failed", wl[d], deliveries', webhookAttempts')
    BY DEF Arrives
  <2> QED
    BY <1>0, <1>1, <1>5, <2>1, GoKeeps DEF CreditFails
<1>6. CASE \E kind : WebhookHook(d, "fault", kind, "delivery", "rejected")
  <2>1. Arrives(d, "delivery", wl[d], deliveries', webhookAttempts')
    BY <1>0, <1>6 DEF Arrives, WebhookHook, WAt
  <2>2. \/ \E status : WReply(d, status)
        \/ WGo(d, "delivery") /\ UNCHANGED wl
    BY <1>6 DEF WebhookHook
  <2> QED
    BY <1>0, <1>1, <2>1, <2>2, ReplyKeeps, GoKeeps
<1>7. CASE \E point, kind, next : next \in {"crash", "done"} /\ WebhookHook(d, point, kind, next, "lost")
  <2>1. Arrives(d, "crash", wl[d], deliveries', webhookAttempts')
    BY DEF Arrives
  <2>2. \/ \E status : WReply(d, status)
        \/ WGo(d, "crash") /\ UNCHANGED wl
    BY <1>7 DEF WebhookHook
  <2> QED
    BY <1>0, <1>1, <2>1, <2>2, ReplyKeeps, GoKeeps
<1> QED
  BY <1>2, <1>3, <1>4, <1>5, <1>6, <1>7

\* The steps that write delivery and attempt rows.
LEMMA WithRows ==
  ASSUME LedgerInv, NEW d \in Deliveries,
         \/ CreateDelivery(d) \/ CreateWebhookAttempt(d)
         \/ RecordFailedAttempt(d) \/ RecordFailedDelivery(d) \/ FinalizeDelivery(d)
  PROVE  LedgerInv'
<1> USE Stands DEF entityVars, Points
<1>0. UNCHANGED <<processingMode, wallet, payments, providerEvents, ledger>>
  BY DEF CreateDelivery, CreateWebhookAttempt, RecordFailedAttempt, RecordFailedDelivery,
         FinalizeDelivery
<1>1. CASE CreateDelivery(d)
  <2>1. CASE deliveries' = deliveries
    <3>1. \E status : WReply(d, status)
      BY <1>1, <2>1 DEF CreateDelivery, LedgerInv, NotYet, WAt
    <3> QED
      BY <1>0, <1>1, <2>1, <3>1, ReplyKeeps DEF CreateDelivery
  <2>2. CASE deliveries' # deliveries
    <3> DEFINE row == [id |-> wl[d].id, delivery |-> d, event |-> MyEvent(d), status |-> "ACCEPTED"]
    <3>1. /\ MyEvent(d) \in providerEvents /\ deliveries' = deliveries \cup {row}
          /\ WGo(d, "attempt") /\ UNCHANGED wl /\ UNCHANGED webhookAttempts
          /\ wpc[d] = "delivery"
      BY <1>1, <2>2 DEF CreateDelivery, WAt
    <3>2. OfWallet(row.event)
      BY <3>1 DEF LedgerInv, RowsCurrent
    <3>3. RowsFrom(deliveries', deliveries, d)
      BY <3>1, <3>2 DEF RowsFrom
    <3>4. Arrives(d, "attempt", wl[d], deliveries', webhookAttempts')
      BY <3>1 DEF Arrives, MyEvent
    <3> QED
      BY <1>0, <3>1, <3>3, <3>4, GoKeeps
  <2> QED
    BY <2>1, <2>2
<1>2. CASE CreateWebhookAttempt(d)
  <2>1. CASE \A row \in deliveries : row.delivery # d
    BY <1>0, <1>2, <2>1, ReplyKeeps DEF CreateWebhookAttempt
  <2>2. CASE \E row \in deliveries : row.delivery = d
    <3> DEFINE row == [delivery |-> d, event |-> MyEvent(d), outcome |-> "none"]
    <3>1. /\ webhookAttempts' = webhookAttempts \cup {row}
          /\ WGo(d, "mode") /\ UNCHANGED wl /\ UNCHANGED deliveries
          /\ wpc[d] = "attempt"
      BY <1>2, <2>2 DEF CreateWebhookAttempt, WAt
    <3>2. OfWallet(row.event)
      BY <2>2, <3>1 DEF LedgerInv, RowsCurrent, OwnRows
    <3>3. RowsFrom(webhookAttempts', webhookAttempts, d)
      BY <3>1, <3>2 DEF RowsFrom
    <3>4. Arrives(d, "mode", wl[d], deliveries', webhookAttempts')
      BY <3>1 DEF Arrives, MyEvent
    <3> QED
      BY <1>0, <3>1, <3>3, <3>4, GoKeeps
  <2> QED
    BY <2>1, <2>2
<1>3. ASSUME NEW outcome, SetWebhookOutcome(d, outcome)
      PROVE  RowsFrom(webhookAttempts', webhookAttempts, d)
  <2>1. webhookAttempts' =
          {IF a.delivery = d THEN [a EXCEPT !.outcome = outcome] ELSE a : a \in webhookAttempts}
    BY <1>3 DEF SetWebhookOutcome
  <2>2. \A x \in webhookAttempts' :
          \E a \in webhookAttempts : a.delivery = x.delivery /\ a.event = x.event
    <3> SUFFICES ASSUME NEW a \in webhookAttempts
                 PROVE  LET x == [a EXCEPT !.outcome = outcome]
                        IN  a.delivery = x.delivery /\ a.event = x.event
      BY <2>1
    <3> QED
      OBVIOUS
  <2> QED
    BY <2>2 DEF LedgerInv, RowsCurrent, OfWallet, RowsFrom
<1>4. Arrives(d, "failedDelivery", wl[d], deliveries', webhookAttempts')
      /\ Arrives(d, "truncate", wl[d], deliveries', webhookAttempts')
  BY DEF Arrives
<1>5. CASE RecordFailedAttempt(d)
  BY <1>0, <1>3, <1>4, <1>5, GoKeeps DEF RecordFailedAttempt
<1>6. CASE RecordFailedDelivery(d)
  <2>1. deliveries' =
          {IF row.delivery = d THEN [row EXCEPT !.status = "FAILED_PROCESSING"] ELSE row :
             row \in deliveries}
    BY <1>6 DEF RecordFailedDelivery
  <2>2. \A x \in deliveries' : \E y \in deliveries : y.delivery = x.delivery /\ y.event = x.event
    <3> SUFFICES ASSUME NEW y \in deliveries
                 PROVE  LET x == [y EXCEPT !.status = "FAILED_PROCESSING"]
                        IN  y.delivery = x.delivery /\ y.event = x.event
      BY <2>1
    <3> QED
      OBVIOUS
  <2>3. RowsFrom(deliveries', deliveries, d)
    BY <2>2 DEF LedgerInv, RowsCurrent, OfWallet, RowsFrom
  <2> QED
    BY <1>0, <1>6, <2>3, ReplyKeeps DEF RecordFailedDelivery
<1>7. CASE FinalizeDelivery(d)
  BY <1>0, <1>3, <1>4, <1>7, GoKeeps, ReplyKeeps DEF FinalizeDelivery
<1> QED
  BY <1>1, <1>2, <1>5, <1>6, <1>7
-----------------------------------------------------------------------------
(* The transaction that credits *)

\* A credit needs the attempt's own row, so it is of the current wallet; the
\* unique index lets one entry of a key in, and the balance follows.
LEMMA CreditKeeps ==
  ASSUME LedgerInv, NEW d \in Deliveries, applyWalletCreditFinancialEffect(d)
  PROVE  LedgerInv'
<1> USE DEF entityVars
<1>s. wl[d] \in Local
  BY Stands
<1> DEFINE entry == [key |-> Key(d), delivery |-> d, event |-> MyEvent(d), mode |-> wl[d].mode]
<1>0. /\ UNCHANGED <<processingMode, payments, providerEvents, deliveries, webhookAttempts>>
      /\ wpc[d] = "credit"
  BY DEF applyWalletCreditFinancialEffect, WAt
<1>1. CASE WAttemptsOf(d) = {}
  <2>1. UNCHANGED <<ledger, wallet, wl>> /\ WGo(d, "failed")
    BY <1>1 DEF applyWalletCreditFinancialEffect
  <2>2. Arrives(d, "failed", wl[d], deliveries', webhookAttempts')
    BY DEF Arrives
  <2> QED
    BY <1>0, <2>1, <2>2, GoKeeps, Stands DEF Points
<1>2. CASE WAttemptsOf(d) # {}
  <2> DEFINE applied == \A l \in ledger : l.key # Key(d)
             l2 == [wl[d] EXCEPT !.outcome = IF applied THEN "APPLIED" ELSE "IDEMPOTENT_DUPLICATE"]
  <2>1. /\ ledger' = IF applied THEN ledger \cup {entry} ELSE ledger
        /\ wallet' = IF applied THEN [wallet EXCEPT !.balanceMinor = @ + 1] ELSE wallet
        /\ Moves(d, "finalize", l2)
    BY <1>2 DEF applyWalletCreditFinancialEffect, BalanceAfter, Moves, WGo
  <2>2. l2 \in Local /\ {"finalize", "failed"} \subseteq Points
    BY <1>s DEF Local, Points
  <2>3. Arrives(d, "finalize", l2, deliveries', webhookAttempts')
    BY DEF Arrives
  <2>4. CASE ~applied
    BY <1>0, <2>1, <2>2, <2>3, <2>4, MoveKeeps, Stands
  <2>5. CASE applied
    <3>1. /\ wallet'.id = wallet.id /\ wallet'.balanceMinor = wallet.balanceMinor + 1
          /\ wallet' \in [id : Nat, balanceMinor : Nat]
      BY <2>1, <2>5 DEF LedgerInv, WebhookTypes
    <3>2. OfWallet(MyEvent(d))
      <4>1. PICK a \in webhookAttempts : a.delivery = d
        BY <1>2 DEF WAttemptsOf
      <4>2. a.event = MyEvent(d)
        BY <1>0, <4>1 DEF LedgerInv, OwnRows, WAttemptsOf
      <4> QED
        BY <4>1, <4>2 DEF LedgerInv, RowsCurrent
    <3>3. ledger' = ledger \cup {entry} /\ entry \notin ledger
      BY <2>1, <2>5
    <3>4. IsFiniteSet(ledger') /\ Cardinality(ledger') = Cardinality(ledger) + 1
      <4>1. IsFiniteSet(ledger)
        BY DEF LedgerInv, WebhookTypes
      <4> HIDE DEF entry
      <4> QED
        BY <3>3, <4>1, FS_AddElement
    <3>5. RowsCurrent'
      BY <1>0, <3>1, <3>2, <3>3 DEF LedgerInv, RowsCurrent, OfWallet
    <3>6. KeysUnique'
      BY <2>5, <3>3 DEF LedgerInv, KeysUnique, Key
    <3>7. /\ wpc'[d] = "finalize" /\ wpc' \in [Deliveries -> Points] /\ wl' \in [Deliveries -> Local]
          /\ \A c \in Deliveries \ {d} : wpc'[c] = wpc[c] /\ wl'[c] = wl[c]
      BY <2>1, <2>2 DEF Moves, LedgerInv, WebhookTypes
    <3>8. OwnRows' /\ NotYet'
      BY <1>0, <3>7 DEF LedgerInv, OwnRows, NotYet, WAttemptsOf, MyEvent
    <3>9. WebhookTypes'
      BY <1>0, <3>1, <3>4, <3>7 DEF LedgerInv, WebhookTypes
    <3> QED
      BY <3>1, <3>4, <3>5, <3>6, <3>8, <3>9 DEF LedgerInv
  <2> QED
    BY <2>4, <2>5
<1> QED
  BY <1>1, <1>2

-----------------------------------------------------------------------------
(* The provider, the administrator and the inspector *)

\* A reset begins a wallet without rows.
LEMMA ResetKeeps ==
  ASSUME LedgerInv, resetScenario
  PROVE  LedgerInv'
<1>1. /\ processingMode' = "VULNERABLE" /\ wallet' = [id |-> wallet.id + 1, balanceMinor |-> 0]
      /\ payments' = {} /\ providerEvents' = {} /\ deliveries' = {}
      /\ webhookAttempts' = {} /\ ledger' = {} /\ UNCHANGED <<wpc, wl>>
  BY DEF resetScenario
<1>2. IsFiniteSet(ledger') /\ Cardinality(ledger') = 0
  BY <1>1, FS_EmptySet
<1>3. WebhookTypes'
  BY <1>1, <1>2 DEF LedgerInv, WebhookTypes, PROCESSING_MODES
<1>4. RowsCurrent' /\ OwnRows' /\ NotYet' /\ KeysUnique'
  BY <1>1 DEF RowsCurrent, OwnRows, NotYet, KeysUnique, WAttemptsOf
<1> QED
  BY <1>1, <1>2, <1>3, <1>4 DEF LedgerInv

\* New payments and events are of the current wallet.
LEMMA ProviderKeeps ==
  ASSUME LedgerInv, UNCHANGED <<wallet, processingVars, wpc, wl>>,
         processingMode' \in PROCESSING_MODES,
         \A m \in payments' : m.wallet = wallet.id /\ m \in PaymentIds,
         \A e \in providerEvents' : OfWallet(e) /\ e \in Events
  PROVE  LedgerInv'
<1> USE DEF processingVars
<1>1. WebhookTypes'
  BY DEF LedgerInv, WebhookTypes
<1>2. RowsCurrent'
  BY DEF LedgerInv, RowsCurrent, OfWallet
<1>3. OwnRows' /\ NotYet' /\ KeysUnique'
  BY DEF LedgerInv, OwnRows, NotYet, KeysUnique, WAttemptsOf, MyEvent
<1> QED
  BY <1>1, <1>2, <1>3 DEF LedgerInv

\* Every step keeps the invariant.
LEMMA LedgerStep ==
  ASSUME LedgerInv, [WebhookNext]_webhookVars
  PROVE  LedgerInv'
<1>0. /\ processingMode \in PROCESSING_MODES /\ wallet.id \in Nat
      /\ \A m \in payments : m.wallet = wallet.id /\ m \in PaymentIds
      /\ \A e \in providerEvents : OfWallet(e) /\ e \in Events
  BY DEF LedgerInv, WebhookTypes, RowsCurrent
<1>1. CASE \E p \in Payments : CreatePayment(p)
  <2>1. PICK p \in Payments : CreatePayment(p)
    BY <1>1
  <2>2. /\ payments' = payments \cup {[name |-> p, wallet |-> wallet.id]}
        /\ UNCHANGED <<processingMode, wallet, providerEvents, processingVars, wpc, wl>>
    BY <2>1 DEF CreatePayment
  <2>3. [name |-> p, wallet |-> wallet.id] \in PaymentIds
    BY <1>0 DEF PaymentIds
  <2> QED
    BY <1>0, <2>2, <2>3, ProviderKeeps
<1>2. CASE \E m \in payments, t \in EventTypes : CreateEvent(m, t)
  <2>1. PICK m \in payments, t \in EventTypes : CreateEvent(m, t)
    BY <1>2
  <2> DEFINE e == [payment |-> m, type |-> t]
  <2>2. /\ providerEvents' = providerEvents \cup {e}
        /\ UNCHANGED <<processingMode, wallet, payments, processingVars, wpc, wl>>
    BY <2>1 DEF CreateEvent
  <2>3. OfWallet(e)
    BY <1>0 DEF OfWallet
  <2>4. e \in Events
    BY <1>0 DEF Events
  <2> QED
    BY <1>0, <2>2, <2>3, <2>4, ProviderKeeps
<1>3. CASE \E m \in PROCESSING_MODES : setProcessingMode(m)
  BY <1>0, <1>3, ProviderKeeps DEF setProcessingMode, entityVars
<1>4. CASE resetScenario
  BY <1>4, ResetKeeps
<1>5. CASE \E d \in Deliveries : Delivery(d)
  BY <1>5, WithoutRows, WithRows, CreditKeeps DEF Delivery
<1>6. CASE UNCHANGED <<processingMode, wallet, entityVars, processingVars, wpc, wl>>
  BY <1>0, <1>6, ProviderKeeps DEF entityVars
<1> QED
  BY <1>1, <1>2, <1>3, <1>4, <1>5, <1>6 DEF WebhookNext, webhookVars, ReadLineage, SumLedger

\* The invariant holds throughout.
LEMMA LedgerInvariant == WebhookSpec => []LedgerInv
BY LedgerInit, LedgerStep, PTL DEF WebhookSpec

\* The balance of the wallet is the sum of its entries, for any number of
\* overlapping deliveries, failures and resets.
THEOREM WalletConservedCorrect == WebhookSpec => []WalletConserved
<1>1. LedgerInv => WalletConserved
  BY DEF LedgerInv, RowsCurrent, OfWallet, WalletConserved
<1> QED
  BY <1>1, LedgerInvariant, PTL

\* In the secure mode a payment, in the naive mode an event is credited at most
\* once, however many deliveries race.
THEOREM CreditedOnceCorrect == WebhookSpec => []CreditedOnce
<1>1. LedgerInv => CreditedOnce
  <2> SUFFICES ASSUME LedgerInv, NEW l1 \in ledger, NEW l2 \in ledger,
                      l1.event.payment = l2.event.payment, l1.mode = l2.mode,
                      l1.mode = "SECURE" \/ l1.event = l2.event
               PROVE  l1 = l2
    BY DEF CreditedOnce
  <2>1. l1.key = deriveIdempotencyKey(l1.mode, l1.event) /\ l2.key = deriveIdempotencyKey(l2.mode, l2.event)
    BY DEF LedgerInv, KeysUnique
  <2>2. l1.key = l2.key
    BY <2>1 DEF deriveIdempotencyKey
  <2> QED
    BY <2>2 DEF LedgerInv, KeysUnique
<1> QED
  BY <1>1, LedgerInvariant, PTL

-----------------------------------------------------------------------------
(***************************************************************************)
(* What is recorded of a delivery.  Before the transaction commits, its    *)
(* delivery has no entry; the outcome it then holds, records and answers   *)
(* is true of the ledger, which only grows until a reset deletes the       *)
(* attempts with it.                                                       *)
(***************************************************************************)
Credited == {"APPLIED", "IDEMPOTENT_DUPLICATE"}
AttemptRows == [delivery : Deliveries, event : Events, outcome : Credited \cup {"none", "FAILED"}]
Replies == Credited \cup {"none", "refused", "rejected", "error", "lost", "PROCESSING_FAILED",
                          "DUPLICATE_DELIVERY_IDENTITY"}

Uncredited == {"idle", "fault", "delivery", "attempt", "mode", "credit", "failed", "failedDelivery"}
Decided == {"finalize", "truncate", "crash"}

EntriesOf(d) == {x \in ledger : x.delivery = d}

\* An outcome is true of an attempt.
CreditTrue(outcome, a) ==
  /\ outcome = "APPLIED" => EntriesOf(a.delivery) # {}
  /\ outcome = "FAILED" => EntriesOf(a.delivery) = {}
  /\ outcome = "IDEMPOTENT_DUPLICATE" =>
       EntriesOf(a.delivery) = {} /\ \E x \in ledger : x.event.payment = a.event.payment

\* What each control point knows of the ledger, the outcome and the answer.
DeliveryTrue(d) ==
  /\ wpc[d] \in Uncredited => EntriesOf(d) = {}
  /\ wpc[d] \in Decided => wl[d].outcome \in Credited
  /\ wpc[d] # "done" => webhookReply[d] = "none"

AttemptTrue(a) ==
  LET p == wpc[a.delivery]
  IN  /\ CreditTrue(a.outcome, a)
      /\ p \in {"mode", "credit"} => a.outcome = "none"
      /\ p \in Decided => CreditTrue(wl[a.delivery].outcome, a)
      /\ p \in {"truncate", "crash"} => a.outcome \in Credited
      /\ webhookReply[a.delivery] = "lost" => a.outcome \in Credited
      /\ webhookReply[a.delivery] = "APPLIED" => EntriesOf(a.delivery) # {}

TruthInv ==
  /\ LedgerInv
  /\ webhookReply \in [Deliveries -> Replies]
  /\ webhookAttempts \subseteq AttemptRows
  /\ \A d \in Deliveries : DeliveryTrue(d)
  /\ \A a \in webhookAttempts : AttemptTrue(a)

Lineages == [point : {"idle", "sum", "reported"}, wallet : Nat, balance : Nat, difference : Int]

\* What the inspector read of the current wallet is not more than it holds.
LineageInv ==
  /\ LedgerInv
  /\ lineage \in Lineages /\ lineage.wallet <= wallet.id
  /\ lineage.wallet = wallet.id =>
       /\ lineage.difference <= 0
       /\ lineage.point = "sum" => lineage.balance <= wallet.balanceMinor

-----------------------------------------------------------------------------
(* The inspector *)

\* A reset begins the next wallet; any other step keeps it and can only add to
\* its balance.
LEMMA WalletForward ==
  ASSUME LedgerInv, [WebhookNext]_webhookVars
  PROVE  \/ wallet'.id = wallet.id /\ wallet'.balanceMinor >= wallet.balanceMinor
         \/ wallet'.id = wallet.id + 1 /\ lineage' = lineage
<1>0. wallet.balanceMinor \in Nat /\ wallet.id \in Nat /\ wallet \in [id : Nat, balanceMinor : Nat]
  BY DEF LedgerInv, WebhookTypes
<1>1. CASE UNCHANGED wallet
  BY <1>0, <1>1
<1>2. CASE resetScenario
  BY <1>2 DEF resetScenario
<1>3. ASSUME NEW d \in Deliveries, Delivery(d) PROVE wallet' = wallet \/ BalanceAfter(TRUE) = wallet'
  <2>1. CASE applyWalletCreditFinancialEffect(d)
    BY <2>1 DEF applyWalletCreditFinancialEffect, BalanceAfter
  <2>2. CASE ~applyWalletCreditFinancialEffect(d)
    BY <1>3, <2>2 DEF Delivery, RefuseDelivery, ResolveEvent, CreateDelivery, CreateWebhookAttempt,
       ReadMode, CreditFails, RecordFailedAttempt, RecordFailedDelivery, FinalizeDelivery, WebhookHook
  <2> QED
    BY <2>1, <2>2
<1>4. CASE BalanceAfter(TRUE) = wallet'
  BY <1>0, <1>4 DEF BalanceAfter
<1>5. CASE \/ \E p \in Payments : CreatePayment(p)
           \/ \E m \in payments, t \in EventTypes : CreateEvent(m, t)
           \/ \E m \in PROCESSING_MODES : setProcessingMode(m)
           \/ ReadLineage \/ SumLedger
  BY <1>1, <1>5 DEF CreatePayment, CreateEvent, setProcessingMode, ReadLineage, SumLedger
<1> QED
  BY <1>1, <1>2, <1>3, <1>4, <1>5 DEF WebhookNext, webhookVars

\* The inspector reads the balance and adds up the ledger in two steps of its own.
LEMMA InspectorMoves ==
  ASSUME [WebhookNext]_webhookVars
  PROVE  UNCHANGED lineage \/ ReadLineage \/ SumLedger
<1>1. ASSUME NEW d \in Deliveries, Delivery(d) PROVE UNCHANGED lineage
  BY <1>1 DEF Delivery, RefuseDelivery, ResolveEvent, CreateDelivery, CreateWebhookAttempt,
     ReadMode, applyWalletCreditFinancialEffect, CreditFails, RecordFailedAttempt,
     RecordFailedDelivery, FinalizeDelivery, WebhookHook
<1>2. CASE \/ \E p \in Payments : CreatePayment(p)
           \/ \E m \in payments, t \in EventTypes : CreateEvent(m, t)
           \/ \E m \in PROCESSING_MODES : setProcessingMode(m)
           \/ resetScenario
  BY <1>2 DEF CreatePayment, CreateEvent, setProcessingMode, resetScenario
<1> QED
  BY <1>1, <1>2 DEF WebhookNext, webhookVars

\* The inspector never holds more than the wallet it read still has.
LEMMA LineageStep ==
  ASSUME LineageInv, [WebhookNext]_webhookVars
  PROVE  LineageInv'
<1>1. LedgerInv' /\ LedgerInv
  BY LedgerStep DEF LineageInv
<1>2. /\ wallet.balanceMinor \in Nat /\ wallet.id \in Nat
      /\ wallet'.balanceMinor \in Nat /\ wallet'.id \in Nat
  BY <1>1 DEF LedgerInv, WebhookTypes
<1>3. CASE UNCHANGED lineage
  BY <1>1, <1>2, <1>3, WalletForward DEF LineageInv, Lineages
<1>4. CASE ReadLineage
  <2>1. /\ lineage' \in Lineages /\ lineage'.wallet = wallet.id /\ lineage'.balance = wallet.balanceMinor
        /\ lineage'.difference = 0 /\ wallet' = wallet
    BY <1>2, <1>4 DEF ReadLineage, Lineages
  <2> QED
    BY <1>1, <1>2, <2>1 DEF LineageInv
<1>5. CASE SumLedger
  <2>1. wallet' = wallet /\ lineage.point = "sum"
    BY <1>5 DEF SumLedger
  <2>2. lineage' = [lineage EXCEPT !.point = "reported", !.balance = 0,
                                   !.difference = lineage.balance - LedgerSum(lineage.wallet)]
    BY <1>5 DEF SumLedger
  <2>3. lineage.wallet = wallet.id => LedgerSum(lineage.wallet) = wallet.balanceMinor
    <3>1. \A x \in ledger : x.event.payment.wallet = wallet.id
      BY <1>1 DEF LedgerInv, RowsCurrent, OfWallet
    <3>2. {x \in ledger : x.event.payment.wallet = wallet.id} = ledger
      BY <3>1
    <3> QED
      BY <1>1, <3>2 DEF LedgerSum, LedgerInv
  <2>4. LedgerSum(lineage.wallet) \in Nat
    <3> DEFINE S == {x \in ledger : x.event.payment.wallet = lineage.wallet}
    <3>1. IsFiniteSet(ledger) /\ S \subseteq ledger
      BY <1>1 DEF LedgerInv, WebhookTypes
    <3>2. LedgerSum(lineage.wallet) = Cardinality(S)
      BY DEF LedgerSum
    <3> HIDE DEF S
    <3>3. IsFiniteSet(S)
      BY <3>1, FS_Subset
    <3> QED
      BY <3>2, <3>3, FS_CardinalityType
  <2>5. /\ lineage' \in Lineages
        /\ lineage'.wallet = lineage.wallet /\ lineage'.point = "reported"
        /\ lineage'.difference = lineage.balance - LedgerSum(lineage.wallet)
    <3>1. lineage \in Lineages
      BY DEF LineageInv
    <3> PICK difference : difference = lineage.balance - LedgerSum(lineage.wallet)
      OBVIOUS
    <3>2. difference \in Int
      BY <2>4, <3>1 DEF Lineages
    <3>3. lineage' = [lineage EXCEPT !.point = "reported", !.balance = 0, !.difference = difference]
      BY <2>2
    <3> QED
      BY <3>1, <3>2, <3>3 DEF Lineages
  <2>6. lineage.balance \in Nat /\ lineage.wallet <= wallet.id
    BY DEF LineageInv, Lineages
  <2>7. lineage.wallet = wallet.id => lineage'.difference <= 0
    BY <1>2, <2>1, <2>3, <2>5, <2>6 DEF LineageInv
  <2> QED
    BY <1>1, <2>1, <2>5, <2>6, <2>7 DEF LineageInv
<1> QED
  BY <1>3, <1>4, <1>5, InspectorMoves

\* The inspector never reports money without ledger entries of a wallet that
\* was not reset meanwhile, whatever is credited between its two reads.
THEOREM NoPhantomBalanceCorrect == WebhookSpec => []NoPhantomBalance
<1>1. WebhookInit => LineageInv
  BY LedgerInit DEF WebhookInit, LineageInv, Lineages, Idle
<1>2. LineageInv => NoPhantomBalance
  BY DEF LineageInv, NoPhantomBalance
<1> QED
  BY <1>1, <1>2, LineageStep, PTL DEF WebhookSpec

-----------------------------------------------------------------------------
(* What the steps of a delivery keep true *)

\* What holds of a delivery and its columns wherever it stands.
LEMMA TruthFacts ==
  ASSUME TruthInv, NEW d \in Deliveries
  PROVE  /\ wpc \in [Deliveries -> Points] /\ wl \in [Deliveries -> Local]
         /\ webhookReply \in [Deliveries -> Replies] /\ webhookAttempts \subseteq AttemptRows
         /\ wl[d] \in Local /\ MyEvent(d) \in Events /\ wl[d].outcome \in Credited \cup {"none"}
         /\ DeliveryTrue(d)
         /\ \A a \in webhookAttempts : AttemptTrue(a)
         /\ \A a \in webhookAttempts : a.delivery = d => wpc[d] \notin {"idle", "fault", "delivery", "attempt"}
<1>1. LedgerInv
  BY DEF TruthInv
<1>2. /\ wpc \in [Deliveries -> Points] /\ wl \in [Deliveries -> Local]
  BY <1>1 DEF LedgerInv, WebhookTypes
<1>3. wl[d] \in Local
  BY <1>2
<1>4. MyEvent(d) \in Events /\ wl[d].outcome \in Credited \cup {"none"}
  BY <1>3 DEF Local, MyEvent, Credited
<1>5. \A a \in webhookAttempts : a.delivery = d => wpc[d] \notin {"idle", "fault", "delivery", "attempt"}
  BY <1>1 DEF LedgerInv, NotYet, WAttemptsOf
<1> QED
  BY <1>2, <1>3, <1>4, <1>5 DEF TruthInv

\* Delivery d goes to p with locals l, and its client has seen y.
Answers(d, p, l, y) ==
  Moves(d, p, l) /\ webhookReply' = [webhookReply EXCEPT ![d] = y]

\* A step of d adds only entries of its own: what is true of the other
\* deliveries stays true.
LEMMA OneAnswers ==
  ASSUME TruthInv, LedgerInv', NEW d \in Deliveries, NEW p, NEW l, NEW y \in Replies,
         Answers(d, p, l, y),
         ledger \subseteq ledger', \A x \in ledger' : x \in ledger \/ x.delivery = d,
         webhookAttempts' \subseteq AttemptRows,
         \A a \in webhookAttempts' : a.delivery # d => a \in webhookAttempts,
         \A a \in webhookAttempts' : a.delivery = d => AttemptTrue(a)',
         DeliveryTrue(d)'
  PROVE  TruthInv'
<1> USE DEF Answers, Moves
<1>1. /\ \A c \in Deliveries \ {d} : /\ wpc'[c] = wpc[c] /\ wl'[c] = wl[c]
                                     /\ webhookReply'[c] = webhookReply[c]
      /\ webhookReply' \in [Deliveries -> Replies]
  BY TruthFacts
<1>2. ASSUME NEW c \in Deliveries \ {d} PROVE EntriesOf(c)' = EntriesOf(c)
  BY <1>2 DEF EntriesOf
<1>3. \A c \in Deliveries : DeliveryTrue(c)'
  <2> SUFFICES ASSUME NEW c \in Deliveries \ {d} PROVE DeliveryTrue(c)'
    OBVIOUS
  <2>1. DeliveryTrue(c)
    BY DEF TruthInv
  <2> QED
    BY <1>1, <1>2, <2>1 DEF DeliveryTrue
<1>4. \A a \in webhookAttempts' : AttemptTrue(a)'
  <2> SUFFICES ASSUME NEW a \in webhookAttempts', a.delivery # d PROVE AttemptTrue(a)'
    OBVIOUS
  <2>1. a.delivery \in Deliveries \ {d} /\ AttemptTrue(a)
    BY DEF TruthInv, AttemptRows
  <2>2. \A outcome : CreditTrue(outcome, a) => CreditTrue(outcome, a)'
    BY <1>2, <2>1 DEF CreditTrue
  <2> QED
    BY <1>1, <1>2, <2>1, <2>2 DEF AttemptTrue
<1> QED
  BY <1>1, <1>3, <1>4 DEF TruthInv

\* What is true of an attempt depends on its delivery and its event only.
LEMMA CreditTrueOfRow ==
  ASSUME NEW a, NEW b, a.delivery = b.delivery, a.event = b.event, NEW outcome,
         CreditTrue(outcome, a), ledger' = ledger
  PROVE  CreditTrue(outcome, b)'
BY DEF CreditTrue, EntriesOf

\* The answer of a delivery that has no attempt or whose attempt is true of it.
LEMMA AnswerKeeps ==
  ASSUME TruthInv, LedgerInv', NEW d \in Deliveries, NEW status \in Replies, WReply(d, status),
         UNCHANGED ledger, webhookAttempts' = webhookAttempts,
         status = "lost" => \A a \in WAttemptsOf(d) : a.outcome \in Credited,
         status = "APPLIED" => wpc[d] \in Decided /\ wl[d].outcome = "APPLIED"
  PROVE  TruthInv'
<1> USE TruthFacts
<1> PICK l : l = NoDelivery
  OBVIOUS
<1>1. Answers(d, "done", l, status)
  BY DEF Answers, Moves, WReply, WGo
<1>2. wpc'[d] = "done" /\ webhookReply'[d] = status
  BY <1>1 DEF Answers, Moves
<1>3. DeliveryTrue(d)'
  BY <1>2 DEF DeliveryTrue, Uncredited, Decided
<1>4. ASSUME NEW a \in webhookAttempts, a.delivery = d PROVE AttemptTrue(a)'
  <2>1. AttemptTrue(a) /\ (status = "lost" => a.outcome \in Credited)
    BY <1>4 DEF WAttemptsOf
  <2>2. CreditTrue(a.outcome, a)'
    BY <2>1, CreditTrueOfRow DEF AttemptTrue
  <2>3. status = "APPLIED" => EntriesOf(d) # {}
    BY <1>4, <2>1 DEF AttemptTrue, CreditTrue
  <2>4. EntriesOf(d)' = EntriesOf(d)
    BY DEF EntriesOf
  <2> QED
    BY <1>2, <1>4, <2>1, <2>2, <2>3, <2>4 DEF AttemptTrue, Decided
<1> QED
  BY <1>1, <1>3, <1>4, OneAnswers

\* A delivery that has credited nothing yet goes on, its attempt recorded
\* neither as applied nor as a duplicate.
LEMMA UncreditedGoes ==
  ASSUME TruthInv, LedgerInv', NEW d \in Deliveries, wpc[d] \in Uncredited,
         NEW p \in Uncredited, NEW l, Moves(d, p, l),
         UNCHANGED <<webhookReply, ledger>>,
         webhookAttempts' \subseteq AttemptRows,
         \A a \in webhookAttempts' : a.delivery # d => a \in webhookAttempts,
         \A a \in webhookAttempts' : a.delivery = d =>
           a.outcome = "none" \/ (a.outcome = "FAILED" /\ p \notin {"mode", "credit"})
  PROVE  TruthInv'
<1> USE TruthFacts
<1>1. webhookReply[d] = "none" /\ EntriesOf(d) = {}
  BY DEF DeliveryTrue, Uncredited
<1>2. Answers(d, p, l, "none")
  BY <1>1 DEF Answers
<1>3. wpc'[d] = p /\ webhookReply'[d] = "none" /\ EntriesOf(d)' = {}
  BY <1>1 DEF Moves, EntriesOf
<1>4. p \notin Decided
  BY DEF Uncredited, Decided
<1>5. DeliveryTrue(d)'
  BY <1>3, <1>4 DEF DeliveryTrue
<1>6. ASSUME NEW a \in webhookAttempts', a.delivery = d PROVE AttemptTrue(a)'
  BY <1>3, <1>4, <1>6 DEF AttemptTrue, CreditTrue, Decided
<1>7. "none" \in Replies
  BY DEF Replies
<1> QED
  BY <1>2, <1>5, <1>6, <1>7, OneAnswers

\* The steps of a delivery before its transaction, and of one that failed.
LEMMA BeforeCredit ==
  ASSUME TruthInv, LedgerInv', NEW d \in Deliveries,
         \/ RefuseDelivery(d) \/ ResolveEvent(d) \/ CreateDelivery(d) \/ CreateWebhookAttempt(d)
         \/ ReadMode(d) \/ CreditFails(d) \/ RecordFailedAttempt(d) \/ RecordFailedDelivery(d)
         \/ WebhookHook(d, "fault", PRE_MUTATION_REJECTION, "delivery", "rejected")
  PROVE  TruthInv'
<1> USE TruthFacts DEF entityVars, processingVars, WAt
<1>0. ledger' = ledger
  BY DEF RefuseDelivery, ResolveEvent, CreateDelivery, CreateWebhookAttempt, ReadMode, CreditFails,
         RecordFailedAttempt, RecordFailedDelivery, WebhookHook
<1>1. ASSUME NEW status \in {"refused", "rejected", "error", "DUPLICATE_DELIVERY_IDENTITY",
                             "PROCESSING_FAILED"},
             WReply(d, status), webhookAttempts' = webhookAttempts
      PROVE  TruthInv'
  BY <1>0, <1>1, AnswerKeeps DEF Replies
<1>2. ASSUME NEW p \in {"fault", "delivery", "attempt"}, NEW l, Moves(d, p, l),
             wpc[d] \in {"idle", "fault", "delivery"}, UNCHANGED <<webhookReply, webhookAttempts>>
      PROVE  TruthInv'
  <2>1. \A a \in webhookAttempts : a.delivery # d
    BY <1>2
  <2>2. p \in Uncredited /\ wpc[d] \in Uncredited
    BY <1>2 DEF Uncredited
  <2> QED
    BY <1>0, <1>2, <2>1, <2>2, UncreditedGoes
<1>3. CASE RefuseDelivery(d)
  BY <1>1, <1>3 DEF RefuseDelivery
<1>4. CASE ResolveEvent(d)
  <2>1. PICK e \in providerEvents, id \in DeliveryIds : wl' = [wl EXCEPT ![d].event = e, ![d].id = id]
    BY <1>4 DEF ResolveEvent
  <2> PICK l : l = [wl[d] EXCEPT !.event = e, !.id = id]
    OBVIOUS
  <2>2. Moves(d, "fault", l)
    BY <1>4, <2>1 DEF Moves, ResolveEvent, WGo
  <2> QED
    BY <1>2, <1>4, <2>2 DEF ResolveEvent
<1>5. ASSUME NEW p, WGo(d, p), UNCHANGED wl PROVE Moves(d, p, wl[d])
  BY <1>5 DEF Moves, WGo
<1> PICK l : l = wl[d]
  OBVIOUS
<1>6. CASE CreateDelivery(d)
  <2>1. webhookAttempts' = webhookAttempts /\ wpc[d] = "delivery"
    BY <1>6 DEF CreateDelivery
  <2>2. \/ WReply(d, "DUPLICATE_DELIVERY_IDENTITY") \/ WReply(d, "error")
        \/ WGo(d, "attempt") /\ UNCHANGED <<webhookReply, wl>>
    BY <1>6, Zenon DEF CreateDelivery
  <2> QED
    BY <1>1, <1>2, <1>5, <2>1, <2>2
<1>7. CASE CreateWebhookAttempt(d)
  <2>1. CASE \A row \in deliveries : row.delivery # d
    BY <1>1, <1>7, <2>1 DEF CreateWebhookAttempt
  <2>2. CASE \E row \in deliveries : row.delivery = d
    <3> DEFINE row == [delivery |-> d, event |-> MyEvent(d), outcome |-> "none"]
    <3>1. /\ webhookAttempts' = webhookAttempts \cup {row} /\ wpc[d] = "attempt"
          /\ WGo(d, "mode") /\ UNCHANGED wl /\ webhookReply' = webhookReply
      BY <1>7, <2>2 DEF CreateWebhookAttempt
    <3>2. row \in AttemptRows /\ row.delivery = d /\ row.outcome = "none"
      BY DEF AttemptRows
    <3>3. \A a \in webhookAttempts : a.delivery # d
      BY <3>1
    <3>4. Moves(d, "mode", l)
      BY <1>5, <3>1
    <3>5. wpc[d] \in Uncredited /\ "mode" \in Uncredited
      BY <3>1 DEF Uncredited
    <3> HIDE DEF row
    <3>6. webhookAttempts' \subseteq AttemptRows
      BY <3>1, <3>2
    <3> QED
      BY <1>0, <3>1, <3>2, <3>3, <3>4, <3>5, <3>6, UncreditedGoes
  <2> QED
    BY <2>1, <2>2
<1>8. CASE ReadMode(d) \/ CreditFails(d)
  <2>1. /\ UNCHANGED <<webhookReply, webhookAttempts>> /\ wpc[d] \in {"mode", "credit"}
        /\ wpc[d] \in Uncredited /\ {"credit", "failed"} \subseteq Uncredited
    BY <1>8 DEF ReadMode, CreditFails, Uncredited, TryBlock
  <2>2. \A a \in webhookAttempts : a.delivery = d => a.outcome = "none"
    BY <2>1 DEF AttemptTrue
  <2>3. \E p \in {"credit", "failed"} : \E k : Moves(d, p, k)
    <3>1. CASE ReadMode(d)
      <4>1. Moves(d, "credit", [wl[d] EXCEPT !.mode = processingMode])
        BY <3>1 DEF Moves, ReadMode, WGo
      <4> QED
        BY <4>1
    <3>2. CASE CreditFails(d)
      BY <1>5, <3>2 DEF CreditFails
    <3> QED
      BY <1>8, <3>1, <3>2
  <2> QED
    BY <1>0, <2>1, <2>2, <2>3, UncreditedGoes
<1>9. CASE RecordFailedAttempt(d)
  <2>1. /\ SetWebhookOutcome(d, "FAILED") /\ wpc[d] = "failed"
        /\ webhookReply' = webhookReply /\ Moves(d, "failedDelivery", l)
    BY <1>5, <1>9 DEF RecordFailedAttempt
  <2>2. ASSUME NEW a \in webhookAttempts'
        PROVE  a \in AttemptRows /\ IF a.delivery = d THEN a.outcome = "FAILED" ELSE a \in webhookAttempts
    <3>1. PICK b \in webhookAttempts : a = IF b.delivery = d THEN [b EXCEPT !.outcome = "FAILED"] ELSE b
      BY <2>1, <2>2 DEF SetWebhookOutcome
    <3>2. b \in AttemptRows
      OBVIOUS
    <3> QED
      BY <3>1, <3>2 DEF AttemptRows
  <2>3. wpc[d] \in Uncredited /\ "failedDelivery" \in Uncredited
    BY <2>1 DEF Uncredited
  <2> QED
    BY <1>0, <2>1, <2>2, <2>3, UncreditedGoes
<1>10. CASE RecordFailedDelivery(d)
  BY <1>1, <1>10 DEF RecordFailedDelivery
<1>11. CASE WebhookHook(d, "fault", PRE_MUTATION_REJECTION, "delivery", "rejected")
  <2>1. webhookAttempts' = webhookAttempts /\ wpc[d] = "fault"
    BY <1>11 DEF WebhookHook
  <2>2. \/ WReply(d, "rejected")
        \/ WGo(d, "delivery") /\ UNCHANGED <<webhookReply, wl>>
    BY <1>11 DEF WebhookHook
  <2> QED
    BY <1>1, <1>2, <1>5, <2>1, <2>2
<1> QED
  BY <1>3, <1>4, <1>6, <1>7, <1>8, <1>9, <1>10, <1>11

\* The transaction decides what is true: either the delivery has its entry now,
\* or another entry of its key was there.
LEMMA CreditDecides ==
  ASSUME TruthInv, LedgerInv', NEW d \in Deliveries, applyWalletCreditFinancialEffect(d)
  PROVE  TruthInv'
<1> USE TruthFacts DEF entityVars, WAt
<1>0. /\ wpc[d] = "credit" /\ wpc[d] \in Uncredited /\ EntriesOf(d) = {} /\ webhookReply[d] = "none"
      /\ UNCHANGED <<webhookReply, webhookAttempts>>
  BY DEF applyWalletCreditFinancialEffect, DeliveryTrue, Uncredited
<1>1. CASE WAttemptsOf(d) = {}
  <2> PICK l : l = wl[d]
    OBVIOUS
  <2>1. ledger' = ledger /\ Moves(d, "failed", l)
    BY <1>1 DEF applyWalletCreditFinancialEffect, Moves, WGo
  <2>2. "failed" \in Uncredited /\ \A a \in webhookAttempts : a.delivery # d
    BY <1>1 DEF Uncredited, WAttemptsOf
  <2> QED
    BY <1>0, <2>1, <2>2, UncreditedGoes
<1>2. CASE WAttemptsOf(d) # {}
  <2> DEFINE entry == [key |-> Key(d), delivery |-> d, event |-> MyEvent(d), mode |-> wl[d].mode]
             applied == \A x \in ledger : x.key # Key(d)
  <2> PICK outcome : outcome = IF applied THEN "APPLIED" ELSE "IDEMPOTENT_DUPLICATE"
    OBVIOUS
  <2> PICK l : l = [wl[d] EXCEPT !.outcome = outcome]
    OBVIOUS
  <2>1. /\ ledger' = IF applied THEN ledger \cup {entry} ELSE ledger
        /\ Moves(d, "finalize", l)
    BY <1>2 DEF applyWalletCreditFinancialEffect, Moves, WGo
  <2>2. l.outcome = outcome /\ outcome \in Credited
    BY DEF Credited, Local
  <2>3. wpc'[d] = "finalize" /\ wl'[d] = l /\ webhookReply'[d] = "none"
    BY <1>0, <2>1 DEF Moves
  <2>4. DeliveryTrue(d)'
    BY <2>2, <2>3 DEF DeliveryTrue, Uncredited
  <2>5. ASSUME NEW a \in webhookAttempts, a.delivery = d PROVE AttemptTrue(a)'
    <3>1. a.outcome = "none" /\ a.event = MyEvent(d)
      BY <1>0, <2>5 DEF AttemptTrue, TruthInv, LedgerInv, OwnRows, WAttemptsOf
    <3>2. CreditTrue(outcome, a)'
      <4>1. CASE applied
        <5>1. entry \in EntriesOf(d)'
          BY <2>1, <4>1 DEF EntriesOf
        <5> QED
          BY <2>5, <4>1, <5>1 DEF CreditTrue
      <4>2. CASE ~applied
        <5>1. PICK x \in ledger : x.key = Key(d)
          BY <4>2
        <5>2. x.key = deriveIdempotencyKey(x.mode, x.event)
          BY DEF TruthInv, LedgerInv, KeysUnique
        <5>3. x.event.payment = a.event.payment
          BY <3>1, <5>1, <5>2 DEF Key, deriveIdempotencyKey
        <5>4. ledger' = ledger /\ EntriesOf(d)' = {}
          BY <1>0, <2>1, <4>2 DEF EntriesOf
        <5> QED
          BY <2>5, <4>2, <5>3, <5>4 DEF CreditTrue
      <4> QED
        BY <4>1, <4>2
    <3>3. CreditTrue(a.outcome, a)'
      BY <3>1 DEF CreditTrue
    <3> QED
      BY <2>2, <2>3, <2>5, <3>2, <3>3 DEF AttemptTrue
  <2>6. ledger \subseteq ledger' /\ \A x \in ledger' : x \in ledger \/ x.delivery = d
    BY <2>1
  <2>7. Answers(d, "finalize", l, "none") /\ "none" \in Replies
    BY <1>0, <2>1 DEF Answers, Replies
  <2> HIDE DEF entry, applied
  <2> QED
    BY <1>0, <2>4, <2>5, <2>6, <2>7, OneAnswers
<1> QED
  BY <1>1, <1>2

\* What was decided is recorded and answered.
LEMMA AfterCredit ==
  ASSUME TruthInv, LedgerInv', NEW d \in Deliveries,
         \/ FinalizeDelivery(d)
         \/ WebhookHook(d, "truncate", RESPONSE_TRUNCATION, "crash", "lost")
         \/ WebhookHook(d, "crash", CRASH_MID_PROCESSING, "done", "lost")
  PROVE  TruthInv'
<1> USE TruthFacts DEF entityVars, processingVars, WAt
<1>0. /\ ledger' = ledger /\ wpc[d] \in Decided
      /\ wl[d].outcome \in Credited /\ wl[d].outcome \in Replies /\ webhookReply[d] = "none"
  BY DEF FinalizeDelivery, WebhookHook, DeliveryTrue, Decided, Replies
<1> PICK l, outcome : l = wl[d] /\ outcome = wl[d].outcome
  OBVIOUS
<1>1. ASSUME NEW p \in {"truncate", "crash"}, WGo(d, p), UNCHANGED <<webhookReply, wl>>,
             webhookAttempts' \subseteq AttemptRows,
             \A a \in webhookAttempts' : a.delivery # d => a \in webhookAttempts,
             \A a \in webhookAttempts' : a.delivery = d =>
               /\ a.outcome \in Credited /\ CreditTrue(a.outcome, a)' /\ CreditTrue(outcome, a)'
      PROVE  TruthInv'
  <2>1. Answers(d, p, l, "none") /\ "none" \in Replies
    BY <1>0, <1>1 DEF Answers, Moves, WGo, Replies
  <2>2. wpc'[d] = p /\ wl'[d] = l /\ webhookReply'[d] = "none" /\ l.outcome = outcome
    BY <2>1 DEF Answers, Moves
  <2>3. DeliveryTrue(d)'
    BY <1>0, <2>2 DEF DeliveryTrue, Uncredited
  <2>4. ASSUME NEW a \in webhookAttempts', a.delivery = d PROVE AttemptTrue(a)'
    BY <1>1, <2>2, <2>4 DEF AttemptTrue
  <2> QED
    BY <1>0, <1>1, <2>1, <2>3, <2>4, OneAnswers
<1>2. \A a \in webhookAttempts : a.delivery = d => CreditTrue(outcome, a)
  BY <1>0 DEF AttemptTrue
<1>3. CASE FinalizeDelivery(d)
  <2>1. CASE SetWebhookOutcome(d, outcome) /\ WGo(d, "truncate") /\ UNCHANGED <<webhookReply, wl>>
    <3>1. ASSUME NEW a \in webhookAttempts'
          PROVE  /\ a \in AttemptRows
                 /\ IF a.delivery = d
                      THEN a.outcome = outcome /\ \E b \in webhookAttempts : b.delivery = d /\ b.event = a.event
                      ELSE a \in webhookAttempts
      <4>1. PICK b \in webhookAttempts : a = IF b.delivery = d THEN [b EXCEPT !.outcome = outcome] ELSE b
        BY <2>1, <3>1 DEF SetWebhookOutcome
      <4>2. b \in AttemptRows
        OBVIOUS
      <4> QED
        BY <1>0, <4>1, <4>2 DEF AttemptRows
    <3>2. ASSUME NEW a \in webhookAttempts', a.delivery = d PROVE CreditTrue(outcome, a)'
      <4>1. PICK b \in webhookAttempts : b.delivery = d /\ b.event = a.event
        BY <3>1, <3>2
      <4> QED
        BY <1>0, <1>2, <3>2, <4>1, CreditTrueOfRow
    <3> QED
      BY <1>0, <1>1, <2>1, <3>1, <3>2
  <2>2. CASE WReply(d, "error") /\ UNCHANGED webhookAttempts
    BY <1>0, <2>2, AnswerKeeps DEF Replies
  <2> QED
    BY <1>3, <2>1, <2>2 DEF FinalizeDelivery
<1>4. CASE \/ WebhookHook(d, "truncate", RESPONSE_TRUNCATION, "crash", "lost")
           \/ WebhookHook(d, "crash", CRASH_MID_PROCESSING, "done", "lost")
  <2>1. webhookAttempts' = webhookAttempts /\ wpc[d] \in {"truncate", "crash"}
    BY <1>4 DEF WebhookHook
  <2>2. \A a \in webhookAttempts : a.delivery = d => a.outcome \in Credited /\ AttemptTrue(a)
    BY <2>1 DEF AttemptTrue
  <2>3. \/ WReply(d, "lost") \/ WReply(d, outcome)
        \/ WGo(d, "crash") /\ UNCHANGED <<webhookReply, wl>>
    BY <1>4 DEF WebhookHook
  <2>4. CASE WReply(d, "lost")
    BY <1>0, <2>1, <2>2, <2>4, AnswerKeeps DEF Replies, WAttemptsOf
  <2>5. CASE WReply(d, outcome)
    BY <1>0, <2>1, <2>5, AnswerKeeps DEF Credited
  <2>6. CASE WGo(d, "crash") /\ UNCHANGED <<webhookReply, wl>>
    <3>1. ASSUME NEW a \in webhookAttempts, a.delivery = d
          PROVE  CreditTrue(a.outcome, a)' /\ CreditTrue(outcome, a)'
      BY <1>0, <1>2, <2>2, <3>1, CreditTrueOfRow DEF AttemptTrue
    <3> QED
      BY <1>1, <2>1, <2>2, <2>6, <3>1
  <2> QED
    BY <2>3, <2>4, <2>5, <2>6
<1> QED
  BY <1>3, <1>4

\* A reset deletes every attempt and every entry at once.
LEMMA ResetTruth ==
  ASSUME TruthInv, LedgerInv', resetScenario
  PROVE  TruthInv'
<1>1. webhookAttempts' = {} /\ ledger' = {} /\ UNCHANGED <<webhookReply, wpc, wl>>
  BY DEF resetScenario
<1>2. \A d \in Deliveries : DeliveryTrue(d)'
  BY <1>1 DEF TruthInv, DeliveryTrue, EntriesOf
<1> QED
  BY <1>1, <1>2 DEF TruthInv

\* What leaves the rows, the deliveries and their answers alone leaves every
\* recorded outcome true.
LEMMA TruthFrame ==
  ASSUME TruthInv, LedgerInv', UNCHANGED <<webhookAttempts, ledger, webhookReply, wpc, wl>>
  PROVE  TruthInv'
<1>1. \A d : EntriesOf(d)' = EntriesOf(d)
  BY DEF EntriesOf
<1>2. \A outcome, a : CreditTrue(outcome, a)' = CreditTrue(outcome, a)
  BY <1>1 DEF CreditTrue
<1>3. \A a \in webhookAttempts : AttemptTrue(a)'
  BY <1>1, <1>2 DEF TruthInv, AttemptTrue
<1>4. \A d \in Deliveries : DeliveryTrue(d)'
  BY <1>1 DEF TruthInv, DeliveryTrue
<1> QED
  BY <1>3, <1>4 DEF TruthInv

\* Every step keeps what is recorded and answered true.
LEMMA TruthStep ==
  ASSUME TruthInv, [WebhookNext]_webhookVars
  PROVE  TruthInv'
<1>1. LedgerInv'
  BY LedgerStep DEF TruthInv
<1>2. ASSUME NEW d \in Deliveries, Delivery(d) PROVE TruthInv'
  <2>1. CASE \/ RefuseDelivery(d) \/ ResolveEvent(d) \/ CreateDelivery(d) \/ CreateWebhookAttempt(d)
             \/ ReadMode(d) \/ CreditFails(d) \/ RecordFailedAttempt(d) \/ RecordFailedDelivery(d)
             \/ WebhookHook(d, "fault", PRE_MUTATION_REJECTION, "delivery", "rejected")
    BY <1>1, <2>1, BeforeCredit
  <2>2. CASE applyWalletCreditFinancialEffect(d)
    BY <1>1, <2>2, CreditDecides
  <2>3. CASE \/ FinalizeDelivery(d)
             \/ WebhookHook(d, "truncate", RESPONSE_TRUNCATION, "crash", "lost")
             \/ WebhookHook(d, "crash", CRASH_MID_PROCESSING, "done", "lost")
    BY <1>1, <2>3, AfterCredit
  <2> QED
    BY <1>2, <2>1, <2>2, <2>3, Zenon DEF Delivery
<1>3. CASE resetScenario
  BY <1>1, <1>3, ResetTruth
<1>4. CASE UNCHANGED <<webhookAttempts, ledger, webhookReply, wpc, wl>>
  BY <1>1, <1>4, TruthFrame
<1>5. CASE \/ \E p \in Payments : CreatePayment(p)
           \/ \E m \in payments, t \in EventTypes : CreateEvent(m, t)
           \/ \E m \in PROCESSING_MODES : setProcessingMode(m)
           \/ ReadLineage \/ SumLedger
  BY <1>4, <1>5 DEF CreatePayment, CreateEvent, setProcessingMode, ReadLineage, SumLedger, processingVars
<1>6. CASE \/ UNCHANGED webhookVars
           \/ FaultAdmin /\ UNCHANGED <<processingMode, wallet, entityVars, processingVars, webhookReply,
                                        webhookHit, wpc, wl, lineage>>
  BY <1>4, <1>6 DEF webhookVars, processingVars
<1> QED
  BY <1>2, <1>3, <1>5, <1>6, Zenon DEF WebhookNext

\* The recorded outcome of an attempt and the answer to its client are what
\* happened, for any number of racing deliveries, failures and resets.
THEOREM DeliveryOutcomesTruthfulCorrect == WebhookSpec => []DeliveryOutcomesTruthful
<1>1. WebhookInit => TruthInv
  <2> SUFFICES ASSUME WebhookInit PROVE TruthInv
    OBVIOUS
  <2>1. /\ webhookAttempts = {} /\ ledger = {} /\ webhookReply = [d \in Deliveries |-> "none"]
        /\ wpc = [d \in Deliveries |-> "idle"]
    BY DEF WebhookInit
  <2>2. \A d \in Deliveries : DeliveryTrue(d)
    BY <2>1 DEF DeliveryTrue, EntriesOf, Decided
  <2> QED
    BY <2>1, <2>2, LedgerInit DEF TruthInv, Replies
<1>2. TruthInv => DeliveryOutcomesTruthful
  BY DEF TruthInv, AttemptTrue, CreditTrue, EntriesOf, Credited, DeliveryOutcomesTruthful
<1> QED
  BY <1>1, <1>2, TruthStep, PTL DEF WebhookSpec
=============================================================================
