--------------------------- MODULE PaymentPipeline ---------------------------
(***************************************************************************)
(* A payment on its way from the provider to a wallet, across two services *)
(* with a database each.  The main API creates intents and credits wallets *)
(* (modules/payments, real-money.service.ts); the payment service creates  *)
(* provider orders, verifies payments and delivers one signed event per    *)
(* verified transaction through an outbox (apps/payment).                  *)
(*                                                                         *)
(* A transaction or an autocommitted statement is one action.  Amounts,    *)
(* users and signatures are checked for equality with what the intent says *)
(* and never differ here, so an intent stands for its amount and owner.    *)
(***************************************************************************)
EXTENDS Naturals, FiniteSets

CONSTANTS
    Intents,     \* payment intents, one per idempotency key
    RealMoney,   \* those with purpose REAL_MONEY_GAME_DEPOSIT
    Txns,        \* provider transaction ids; an outbox event is known by its txn
    Requests,    \* concurrent HTTP requests of the payment service
    Workers,     \* concurrent runs of deliverNextEvent
    MaxFaults,   \* bound: failed calls and crashes
    NoIntent, NoTxn

ASSUME PaymentAssumption ==
    /\ RealMoney \subseteq Intents
    /\ MaxFaults \in Nat
    /\ NoIntent \notin Intents /\ NoTxn \notin Txns

VARIABLES
    \* the main API and its database
    intent,      \* payment_intents: status and provider_txn_id
    expired,     \* intents whose expires_at has passed
    deposit,     \* real_money_deposits: status
    processed,   \* processed_payment_events
    ledger,      \* ledger rows; each adds its amount to the wallet row it locks
    statements,  \* statements a request has decided on and not yet executed
    \* the payment service and its database
    session,     \* checkout_sessions
    order,       \* payment_service_orders: status, and whether payment_session_id is set
    recorded,    \* provider_transactions
    outbox,      \* outbox_events: status, whether locked_until is ahead, payload
    request,     \* where each request is
    worker,      \* where each delivery is
    \* outside
    charges,     \* successful payments at the provider
    orphans,     \* events posted by a delivery that gave up on the answer
    faults

mainVars  == <<intent, deposit, processed, ledger>>
queueVars == <<outbox, worker, orphans>>
orderVars == <<session, order, recorded, request>>
vars == <<intent, expired, deposit, processed, ledger, statements, session, order,
          recorded, outbox, request, worker, charges, orphans, faults>>

IntentStatus == {"NONE", "CREATED", "CREDITED", "EXPIRED"}
OutboxStatus == {"NONE", "PENDING", "PROCESSING", "DELIVERED"}

Charge  == [txn : Txns, intent : Intents, late : BOOLEAN]
Row     == [txn : Txns, intent : Intents]
Order   == [status : {"NONE", "CREATING", "ACTIVE", "PAID_VERIFIED"}, ready : BOOLEAN]
Event   == [status : OutboxStatus, leased : BOOLEAN, intent : Intents \cup {NoIntent},
            late : BOOLEAN]
Worker  == [at : {"idle", "posted", "ok", "failed"}, event : Txns \cup {NoTxn}]
Request == [at : {"idle", "ordering", "record"}, intent : Intents \cup {NoIntent},
            txn : Txns \cup {NoTxn}, late : BOOLEAN]
Idle    == [at |-> "idle", intent |-> NoIntent, txn |-> NoTxn, late |-> FALSE]
Resting == [at |-> "idle", event |-> NoTxn]

TypeOK ==
    /\ intent \in [Intents -> [status : IntentStatus, txn : Txns \cup {NoTxn}]]
    /\ expired \subseteq Intents
    /\ deposit \in [Intents -> {"NONE", "INTENT_CREATED", "CREDITED"}]
    /\ processed \subseteq Txns
    /\ ledger \subseteq Row
    /\ statements \subseteq [do : {"expire", "deposit"}, intent : Intents]
    /\ session \subseteq Intents
    /\ order \in [Intents -> Order]
    /\ recorded \subseteq Row
    /\ outbox \in [Txns -> Event]
    /\ request \in [Requests -> Request]
    /\ worker \in [Workers -> Worker]
    /\ charges \subseteq Charge
    /\ orphans \subseteq Txns
    /\ faults \in 0 .. MaxFaults

Init ==
    /\ intent = [i \in Intents |-> [status |-> "NONE", txn |-> NoTxn]]
    /\ expired = {}
    /\ deposit = [i \in Intents |-> "NONE"]
    /\ processed = {} /\ ledger = {} /\ statements = {}
    /\ session = {} /\ recorded = {} /\ charges = {} /\ orphans = {}
    /\ order = [i \in Intents |-> [status |-> "NONE", ready |-> FALSE]]
    /\ outbox = [t \in Txns |-> [status |-> "NONE", leased |-> FALSE,
                                 intent |-> NoIntent, late |-> FALSE]]
    /\ request = [q \in Requests |-> Idle]
    /\ worker = [w \in Workers |-> Resting]
    /\ faults = 0

-----------------------------------------------------------------------------
(* Main API: intents *)

\* createIntent, or its replay, which changes nothing; createDepositIntent then
\* goes on to the deposit row, in a statement of its own.
CreateIntent(i) ==
    /\ intent' = IF intent[i].status = "NONE"
                 THEN [intent EXCEPT ![i].status = "CREATED"] ELSE intent
    /\ statements' = IF i \in RealMoney
                     THEN statements \cup {[do |-> "deposit", intent |-> i]} ELSE statements
    /\ UNCHANGED <<expired, deposit, processed, ledger, orderVars, queueVars, charges, faults>>

\* Variant with a fault: the upsert resets an existing row.
SaveDepositAnew(i) ==
    /\ [do |-> "deposit", intent |-> i] \in statements
    /\ statements' = statements \ {[do |-> "deposit", intent |-> i]}
    /\ deposit' = [deposit EXCEPT ![i] = "INTENT_CREATED"]
    /\ UNCHANGED <<intent, expired, processed, ledger, orderVars, queueVars, charges, faults>>

\* realMoneyDeposit.upsert with an empty update.
SaveDeposit(i) ==
    /\ [do |-> "deposit", intent |-> i] \in statements
    /\ statements' = statements \ {[do |-> "deposit", intent |-> i]}
    /\ deposit' = [deposit EXCEPT ![i] = IF @ = "NONE" THEN "INTENT_CREATED" ELSE @]
    /\ UNCHANGED <<intent, expired, processed, ledger, orderVars, queueVars, charges, faults>>

\* getIntent reads an intent that is CREATED and past its time ...
GetIntent(i) ==
    /\ intent[i].status = "CREATED" /\ i \in expired
    /\ statements' = statements \cup {[do |-> "expire", intent |-> i]}
    /\ UNCHANGED <<mainVars, expired, orderVars, queueVars, charges, faults>>

\* ... and then updates it by id, whatever it has become.
ExpireIntent(i) ==
    /\ [do |-> "expire", intent |-> i] \in statements
    /\ statements' = statements \ {[do |-> "expire", intent |-> i]}
    /\ intent' = [intent EXCEPT ![i].status = "EXPIRED"]
    /\ UNCHANGED <<expired, deposit, processed, ledger, orderVars, queueVars, charges, faults>>

\* The request dies before the statement is executed.
StatementLost(s) ==
    /\ s \in statements /\ faults < MaxFaults
    /\ statements' = statements \ {s}
    /\ faults' = faults + 1
    /\ UNCHANGED <<mainVars, expired, orderVars, queueVars, charges>>

-----------------------------------------------------------------------------
(* Payment service: checkout and reconciliation *)

\* exchangeSignedIntent
ExchangeSignedIntent(i) ==
    /\ intent[i].status # "NONE" /\ i \notin expired /\ i \notin session
    /\ session' = session \cup {i}
    /\ UNCHANGED <<mainVars, expired, statements, order, recorded, request, queueVars, charges, faults>>

\* createProviderOrder up to the call of the provider; an order that already has
\* its payment_session_id is returned as it is.
CreateProviderOrder(q, i) ==
    /\ request[q] = Idle
    /\ i \in session \ expired /\ ~order[i].ready
    /\ order' = [order EXCEPT ![i].status = IF @ = "NONE" THEN "CREATING" ELSE @]
    /\ request' = [request EXCEPT ![q] = [Idle EXCEPT !.at = "ordering", !.intent = i]]
    /\ UNCHANGED <<mainVars, expired, statements, session, recorded, queueVars, charges, faults>>

\* The provider has answered (under the session's idempotency key, so always the
\* same order); the update does not look at the status the row has by then.
ProviderOrderCreated(q) ==
    /\ request[q].at = "ordering"
    /\ order' = [order EXCEPT ![request[q].intent] = [status |-> "ACTIVE", ready |-> TRUE]]
    /\ request' = [request EXCEPT ![q] = Idle]
    /\ UNCHANGED <<mainVars, expired, statements, session, recorded, queueVars, charges, faults>>

\* reconcileOrder, from the return page or a webhook: the provider says PAID and
\* lists a successful payment.  paidAt is its completion time or, without one, now.
ReconcileOrder(q, c) ==
    /\ request[q] = Idle
    /\ order[c.intent].status # "NONE"
    /\ \E late \in {c.late, c.intent \in expired} :
         request' = [request EXCEPT ![q] = [at |-> "record", intent |-> c.intent,
                                            txn |-> c.txn, late |-> late]]
    /\ UNCHANGED <<mainVars, expired, statements, session, order, recorded, queueVars, charges, faults>>

\* Variant with a fault: provider_order_id is not unique.
OtherTxnRecordedNever(i, t) == FALSE

\* UNIQUE(provider_order_id): the order already has another transaction.
OtherTxnRecorded(i, t) == \E r \in recorded : r.intent = i /\ r.txn # t

\* The transaction of reconcileOrder: ON CONFLICT (provider_txn_id) DO NOTHING,
\* one outbox event for a new row, the order's status.  A conflict on the order
\* rolls everything back.
RecordTransaction(q) ==
    LET i == request[q].intent
        t == request[q].txn
        known == \E r \in recorded : r.txn = t
        conflict == ~known /\ OtherTxnRecorded(i, t)
    IN  /\ request[q].at = "record"
        /\ recorded' = IF known \/ conflict THEN recorded
                       ELSE recorded \cup {[txn |-> t, intent |-> i]}
        /\ outbox' = IF known \/ conflict THEN outbox
                     ELSE [outbox EXCEPT ![t] = [status |-> "PENDING", leased |-> FALSE,
                                                 intent |-> i, late |-> request[q].late]]
        /\ order' = IF conflict THEN order
                    ELSE [order EXCEPT ![i].status = "PAID_VERIFIED"]
        /\ request' = [request EXCEPT ![q] = Idle]
        /\ UNCHANGED <<mainVars, expired, statements, session, worker, orphans, charges, faults>>

\* A call of a request throws, or its process dies.
RequestFails(q) ==
    /\ request[q] # Idle /\ faults < MaxFaults
    /\ request' = [request EXCEPT ![q] = Idle]
    /\ faults' = faults + 1
    /\ UNCHANGED <<mainVars, expired, statements, session, order, recorded, queueVars, charges>>

-----------------------------------------------------------------------------
(* Main API: processVerifiedEvent, one Serializable transaction *)

\* The transaction's early return for an event seen before.
Seen(t) == t \in processed

\* Variant with a fault: the completion time is not compared with expires_at.
CreditableAtAnyTime(t) == intent[outbox[t].intent].status # "CREDITED"

Creditable(t) == intent[outbox[t].intent].status # "CREDITED" /\ ~outbox[t].late

SameTxn(t) == intent[outbox[t].intent].status = "CREDITED" /\ intent[outbox[t].intent].txn = t

\* 200, rather than PAYMENT_INTENT_ALREADY_CREDITED or PAYMENT_INTENT_EXPIRED.
Accepted(t) == Seen(t) \/ SameTxn(t) \/ Creditable(t)

\* creditRealMoneyDeposit or creditPremiumWallet, the intent, the event.
ProcessVerifiedEvent(t) ==
    LET i == outbox[t].intent
        credit == ~Seen(t) /\ Creditable(t)
    IN  /\ ledger' = IF credit THEN ledger \cup {[txn |-> t, intent |-> i]} ELSE ledger
        /\ intent' = IF credit THEN [intent EXCEPT ![i] = [status |-> "CREDITED", txn |-> t]]
                               ELSE intent
        /\ deposit' = IF credit /\ i \in RealMoney THEN [deposit EXCEPT ![i] = "CREDITED"]
                                                   ELSE deposit
        /\ processed' = IF Accepted(t) THEN processed \cup {t} ELSE processed

-----------------------------------------------------------------------------
(* Payment service: deliverNextEvent *)

\* Variant with a fault: an abandoned PROCESSING row is not taken up again.
ClaimPendingOnly(w, t) ==
    /\ worker[w] = Resting
    /\ outbox[t].status = "PENDING"
    /\ outbox' = [outbox EXCEPT ![t].status = "PROCESSING", ![t].leased = TRUE]
    /\ worker' = [worker EXCEPT ![w] = [at |-> "posted", event |-> t]]
    /\ UNCHANGED <<mainVars, expired, statements, orderVars, orphans, charges, faults>>

\* The claim, for an event whose next_attempt_at has come, and the POST.
Claim(w, t) ==
    /\ worker[w] = Resting
    /\ outbox[t].status \in {"PENDING", "PROCESSING"} /\ ~outbox[t].leased
    /\ outbox' = [outbox EXCEPT ![t].status = "PROCESSING", ![t].leased = TRUE]
    /\ worker' = [worker EXCEPT ![w] = [at |-> "posted", event |-> t]]
    /\ UNCHANGED <<mainVars, expired, statements, orderVars, orphans, charges, faults>>

\* Variant with a fault: response.ok is not looked at.
HandleAlwaysOk(w) ==
    /\ worker[w].at = "posted"
    /\ ProcessVerifiedEvent(worker[w].event)
    /\ worker' = [worker EXCEPT ![w].at = "ok"]
    /\ UNCHANGED <<expired, statements, orderVars, outbox, orphans, charges, faults>>

\* The main API processes the event and the delivery gets the answer.
Handle(w) ==
    /\ worker[w].at = "posted"
    /\ ProcessVerifiedEvent(worker[w].event)
    /\ worker' = [worker EXCEPT ![w].at = IF Accepted(worker[w].event) THEN "ok" ELSE "failed"]
    /\ UNCHANGED <<expired, statements, orderVars, outbox, orphans, charges, faults>>

\* Nobody waits for the answer any more: the event may never arrive, or may still
\* be processed after the delivery has ended.
AnswerLost(w) ==
    \/ UNCHANGED orphans
    \/ worker[w].at = "posted" /\ orphans' = orphans \cup {worker[w].event}

\* The delivery's fetch, or its update to DELIVERED, throws.
DeliveryFails(w) ==
    /\ worker[w].at \in {"posted", "ok"} /\ faults < MaxFaults
    /\ worker' = [worker EXCEPT ![w].at = "failed"]
    /\ AnswerLost(w)
    /\ faults' = faults + 1
    /\ UNCHANGED <<mainVars, expired, statements, orderVars, outbox, charges>>

HandleOrphan(t) ==
    /\ t \in orphans
    /\ ProcessVerifiedEvent(t)
    /\ orphans' = orphans \ {t}
    /\ UNCHANGED <<expired, statements, orderVars, outbox, worker, charges, faults>>

\* Both updates are by id only: they overwrite what a delivery that took over
\* after the lease expired has written.
MarkDelivered(w) ==
    /\ worker[w].at = "ok"
    /\ outbox' = [outbox EXCEPT ![worker[w].event].status = "DELIVERED",
                                ![worker[w].event].leased = FALSE]
    /\ worker' = [worker EXCEPT ![w] = Resting]
    /\ UNCHANGED <<mainVars, expired, statements, orderVars, orphans, charges, faults>>

MarkFailed(w) ==
    /\ worker[w].at = "failed"
    /\ outbox' = [outbox EXCEPT ![worker[w].event].status = "PENDING",
                                ![worker[w].event].leased = FALSE]
    /\ worker' = [worker EXCEPT ![w] = Resting]
    /\ UNCHANGED <<mainVars, expired, statements, orderVars, orphans, charges, faults>>

\* The payment service dies during a delivery; the row stays PROCESSING.
DeliveryCrashes(w) ==
    /\ worker[w] # Resting /\ faults < MaxFaults
    /\ AnswerLost(w)
    /\ worker' = [worker EXCEPT ![w] = Resting]
    /\ faults' = faults + 1
    /\ UNCHANGED <<mainVars, expired, statements, orderVars, outbox, charges>>

-----------------------------------------------------------------------------
(* Environment *)

\* expires_at of intent and checkout session (the same instant) passes.
Expire(i) ==
    /\ intent[i].status # "NONE" /\ i \notin expired
    /\ expired' = expired \cup {i}
    /\ UNCHANGED <<mainVars, statements, orderVars, queueVars, charges, faults>>

\* The customer pays at the provider, which does not know expires_at.
Pay(i, t) ==
    /\ order[i].ready /\ \A c \in charges : c.txn # t
    /\ charges' = charges \cup {[txn |-> t, intent |-> i, late |-> i \in expired]}
    /\ UNCHANGED <<mainVars, expired, statements, orderVars, queueVars, faults>>

\* locked_until passes although the delivery may still be running.
LeaseExpires(t) ==
    /\ outbox[t].leased
    /\ outbox' = [outbox EXCEPT ![t].leased = FALSE]
    /\ UNCHANGED <<mainVars, expired, statements, orderVars, worker, orphans, charges, faults>>

-----------------------------------------------------------------------------

MainApi(i) ==
    \/ CreateIntent(i) \/ SaveDeposit(i) \/ GetIntent(i) \/ ExpireIntent(i)
    \/ \E s \in statements : s.intent = i /\ StatementLost(s)

Checkout(q) ==
    \/ \E i \in Intents : CreateProviderOrder(q, i)
    \/ \E c \in charges : ReconcileOrder(q, c)
    \/ ProviderOrderCreated(q) \/ RecordTransaction(q) \/ RequestFails(q)

Delivery(w) ==
    \/ \E t \in Txns : Claim(w, t)
    \/ Handle(w) \/ DeliveryFails(w) \/ MarkDelivered(w) \/ MarkFailed(w) \/ DeliveryCrashes(w)

Next ==
    \/ \E i \in Intents : MainApi(i) \/ ExchangeSignedIntent(i) \/ Expire(i)
    \/ \E q \in Requests : Checkout(q)
    \/ \E w \in Workers : Delivery(w)
    \/ \E t \in Txns : HandleOrphan(t) \/ LeaseExpires(t)
    \/ \E i \in Intents, t \in Txns : Pay(i, t)

Spec == Init /\ [][Next]_vars

\* The worker timer fires every 2 s whatever became of earlier deliveries, and the
\* back-off makes a failing event give way to others, so an event that can be
\* claimed again and again is claimed; leases run out; a post is answered.
Fairness ==
    /\ \A t \in Txns : SF_vars(\E w \in Workers : Claim(w, t))
    /\ \A t \in Txns : WF_vars(LeaseExpires(t))
    /\ \A w \in Workers : WF_vars(Handle(w) \/ MarkDelivered(w) \/ MarkFailed(w))

FairSpec == Spec /\ Fairness

-----------------------------------------------------------------------------
(* Properties *)

\* A payment intent is credited at most once, although events are delivered again
\* after lost answers and expired leases, several payments may be captured for one
\* order, and getIntent may turn a CREDITED intent into an EXPIRED one.
CreditedOnce == \A a, b \in ledger : a.intent = b.intent => a = b

\* A wallet is credited only for a payment the provider captured before the intent
\* expired, for an order of that very intent.
CreditIsPaidInTime ==
    \A a \in ledger : \E c \in charges : c.txn = a.txn /\ c.intent = a.intent /\ ~c.late

\* The deposit row is CREDITED exactly when the real-money ledger has the credit,
\* although createDepositIntent may write its row after the event was processed.
DepositFollowsCredit ==
    \A i \in RealMoney : deposit[i] = "CREDITED" <=> \E a \in ledger : a.intent = i

\* The payment service forgets an event (DELIVERED is never claimed) only after
\* the main API has credited it.
DeliveredIsCredited ==
    \A t \in Txns : outbox[t].status = "DELIVERED" =>
        [txn |-> t, intent |-> outbox[t].intent] \in ledger

\* Under FairSpec: an event for a payment made in time is credited in the end,
\* whatever calls fail and whichever service restarts on the way.
PaidIsCredited ==
    \A t \in Txns :
        (outbox[t].status # "NONE" /\ ~outbox[t].late) ~> (\E a \in ledger : a.txn = t)

-----------------------------------------------------------------------------
(* The inductive invariant behind the safety properties *)

EventRow(t) == [txn |-> t, intent |-> outbox[t].intent]

\* A transaction pays for one order; what a request is about to record is one.
ChargesAreSane ==
    /\ \A c, d \in charges : c.txn = d.txn => c = d
    /\ \A c \in charges : c.late => c.intent \in expired
    /\ \A q \in Requests : request[q].at = "record" =>
         \E c \in charges : /\ c.txn = request[q].txn /\ c.intent = request[q].intent
                            /\ c.late => request[q].late
    /\ \A q \in Requests : request[q].at = "ordering" => request[q].intent \in Intents

\* One recorded transaction per order, one outbox event per recorded transaction.
OneEventPerOrder ==
    /\ \A a, b \in recorded : a.intent = b.intent => a = b
    /\ \A t \in Txns : outbox[t].status # "NONE" =>
         /\ EventRow(t) \in recorded
         /\ \E c \in charges : /\ c.txn = t /\ c.intent = outbox[t].intent
                               /\ c.late => outbox[t].late
    /\ \A a \in recorded : outbox[a.txn].status # "NONE" /\ EventRow(a.txn) = a

\* Only outbox events travel, and an event is answered 200, remembered or
\* DELIVERED only when its credit is in the ledger.
EventsAreCredited ==
    /\ \A w \in Workers : worker[w].at # "idle" =>
         worker[w].event \in Txns /\ outbox[worker[w].event].status # "NONE"
    /\ \A w \in Workers : worker[w].at = "ok" => EventRow(worker[w].event) \in ledger
    /\ \A t \in orphans : outbox[t].status # "NONE"
    /\ \A t \in processed : EventRow(t) \in ledger
    /\ \A i \in Intents : intent[i].txn # NoTxn => [txn |-> intent[i].txn, intent |-> i] \in ledger

\* The ledger holds events that were in time.
LedgerIsOfEvents ==
    \A a \in ledger : outbox[a.txn].status # "NONE" /\ EventRow(a.txn) = a /\ ~outbox[a.txn].late

IInv ==
    /\ TypeOK
    /\ ChargesAreSane
    /\ OneEventPerOrder
    /\ EventsAreCredited
    /\ LedgerIsOfEvents
    /\ DepositFollowsCredit
    /\ DeliveredIsCredited

-----------------------------------------------------------------------------
(* What the documentation says and the code does not guarantee *)

\* PRODUCTION_RUNBOOK.md: pending outbox events "retry after a main API outage and
\* credit exactly once".
PendingEventIsCredited ==
    \A t \in Txns : outbox[t].status = "PENDING" ~> (\E a \in ledger : a.txn = t)
=============================================================================
