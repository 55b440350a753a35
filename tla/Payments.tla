------------------------------- MODULE Payments -------------------------------
(***************************************************************************)
(* PaymentsService (apps/api/src/payments/payments.service.ts) and its     *)
(* providers: checkout, the webhook, and the admin's "mark as paid", each  *)
(* of which ends in a grant of module Subscriptions.                       *)
(*                                                                         *)
(* Handlers run concurrently; one action runs from one `await` to the next.*)
(* The provider keeps a transaction per payment and announces its outcome  *)
(* until it is answered with a 200, and possibly again.  The webhook is    *)
(* public, and what a notification says of itself need not be so: the      *)
(* outcome is fetched for the transaction it names, the payment is looked  *)
(* up by the payment it names, and nothing compares the two.               *)
(***************************************************************************)
EXTENDS Subscriptions

CONSTANTS
  Payments,   \* identities of payment rows
  Payer,      \* Payer[p]: the user who checks out p
  Bodies,     \* the notifications that may reach the webhook
  Events      \* what happens around the service, of PaymentEvents

PaymentEvents == {"crash",        \* the API process restarts
                  "settles",      \* createPayment settles at once, as the mock does
                  "createFails",  \* createPayment throws: error or timeout
                  "verifyFails",  \* the webhook cannot fetch the payment
                  "markPaid"}     \* an admin marks a payment as paid

(* What the webhook reads of a notification: object.id, the transaction,   *)
(* given as the payment it was created for, and metadata.paymentId, Null   *)
(* when there is none.                                                     *)
Notifications == [object : Payments, paymentId : Payments \cup {Null}]

(* The provider's own: createPayment puts the payment into the metadata.   *)
Own(p) == [object |-> p, paymentId |-> p]

ASSUME PaymentsAssumption ==
  /\ Payer \in [Payments -> Users]
  /\ Null \notin Payments
  /\ IsFiniteSet(Callers)
  /\ Bodies \subseteq Notifications
  /\ \A p \in Payments : Own(p) \in Bodies

VARIABLES
  status,     \* status[p]: column status of p, NONE before its checkout
  txn,        \* txn[p]: the provider's transaction
  known,      \* the payments whose providerTxnId is stored
  acked,      \* the payments whose own notification was answered with a 200
  handler,    \* handler[h]: where a request is
  given       \* history: grants written, per payment

payVars == <<status, txn, known, acked, handler, given>>
vars    == <<subVars, payVars>>

Handlers == Callers

HandlerRecords ==
  [via : {"none", "checkout", "webhook", "foreign", "admin"},
   pc : {"idle", "creating", "storing", "settled", "reading", "marking", "failing",
         "granting"},
   payment : Payments \cup {Null}]

Idle == [via |-> "none", pc |-> "idle", payment |-> Null]

TypeOK ==
  /\ SubTypeOK
  /\ status \in [Payments -> {"NONE", "PENDING", "SUCCEEDED", "FAILED", "MANUAL"}]
  /\ txn \in [Payments -> {"none", "pending", "succeeded", "canceled"}]
  /\ known \subseteq Payments
  /\ acked \subseteq Payments
  /\ handler \in [Handlers -> HandlerRecords]
  /\ given \in [Payments -> Nat]

Init ==
  /\ SubInit
  /\ status = [p \in Payments |-> "NONE"]
  /\ txn = [p \in Payments |-> "none"]
  /\ known = {}
  /\ acked = {}
  /\ handler = [h \in Handlers |-> Idle]
  /\ given = [p \in Payments |-> 0]

At(h, pc) == handler[h].pc = pc

Start(h, via, pc, p) ==
  /\ At(h, "idle")
  /\ handler' = [handler EXCEPT ![h] = [via |-> via, pc |-> pc, payment |-> p]]

Goto(h, pc) == handler' = [handler EXCEPT ![h].pc = pc]

(* The request is answered: the provider's notification with a 200.        *)
Finish(h) ==
  /\ handler' = [handler EXCEPT ![h] = Idle]
  /\ acked' = IF handler[h].via = "webhook" THEN acked \cup {handler[h].payment}
              ELSE acked

-----------------------------------------------------------------------------
(* checkout of an available tariff: the row is created first ...           *)
Checkout(h, p) ==
  /\ status[p] = "NONE"
  /\ Start(h, "checkout", "creating", p)
  /\ status' = [status EXCEPT ![p] = "PENDING"]
  /\ UNCHANGED <<subVars, txn, known, acked, given>>

(* ... then the transaction, which may be settled at once ...              *)
CreatePayment(h) ==
  LET p == handler[h].payment IN
  /\ At(h, "creating")
  /\ \/ txn' = [txn EXCEPT ![p] = "pending"] /\ Goto(h, "storing")
     \/ /\ "settles" \in Events
        /\ txn' = [txn EXCEPT ![p] = "succeeded"]
        /\ Goto(h, "settled")
  /\ UNCHANGED <<subVars, status, known, acked, given>>

(* ... then its id, and markSucceeded for one that is settled.             *)
StoreTxnId(h) ==
  /\ known' = known \cup {handler[h].payment}
  /\ \/ At(h, "storing") /\ Finish(h)
     \/ At(h, "settled") /\ Goto(h, "reading") /\ UNCHANGED acked
  /\ UNCHANGED <<subVars, status, txn, given>>

(* An error or a timeout, with or without a transaction at the provider.   *)
CreatePaymentFails(h) ==
  /\ "createFails" \in Events
  /\ At(h, "creating")
  /\ \/ UNCHANGED txn
     \/ txn' = [txn EXCEPT ![handler[h].payment] = "pending"]
  /\ Finish(h)
  /\ UNCHANGED <<subVars, status, known, given>>

(* The user pays, or does not.                                             *)
Settle(p) ==
  /\ txn[p] = "pending"
  /\ \E outcome \in {"succeeded", "canceled"} : txn' = [txn EXCEPT ![p] = outcome]
  /\ UNCHANGED <<subVars, status, known, acked, handler, given>>

(* By the payment that is named, else by the transaction.                  *)
findByTxnOrId(b) ==
  IF b.paymentId # Null THEN {p \in Payments : p = b.paymentId /\ status[p] # "NONE"}
  ELSE {p \in known : p = b.object}

Notifier(b, p) == IF b = Own(p) THEN "webhook" ELSE "foreign"

(* Mutants: the notification is trusted, the payment is not fetched; and a *)
(* payment that is still pending counts as failed.                         *)
WebhookUnverified(h, b, p) ==
  /\ txn[b.object] # "none"
  /\ p \in findByTxnOrId(b)
  /\ Start(h, Notifier(b, p), IF txn[b.object] = "canceled" THEN "failing" ELSE "reading", p)
  /\ UNCHANGED <<subVars, status, txn, known, acked, given>>

WebhookOfPending(h, b, p) ==
  /\ txn[b.object] # "none"
  /\ p \in findByTxnOrId(b)
  /\ Start(h, Notifier(b, p), IF txn[b.object] = "succeeded" THEN "reading" ELSE "failing", p)
  /\ UNCHANGED <<subVars, status, txn, known, acked, given>>

(* The webhook: the outcome of b's transaction, fetched, is the verdict on *)
(* the payment p that b leads to.  A pending one is ignored, and so is a   *)
(* notification that leads to none.                                        *)
Webhook(h, b, p) ==
  /\ txn[b.object] \in {"succeeded", "canceled"}
  /\ p \in findByTxnOrId(b)
  /\ Start(h, Notifier(b, p), IF txn[b.object] = "succeeded" THEN "reading" ELSE "failing", p)
  /\ UNCHANGED <<subVars, status, txn, known, acked, given>>

(* The fetch fails: the verdict is "ignored" and the provider gets a 200.  *)
WebhookIgnored(p) ==
  /\ "verifyFails" \in Events
  /\ txn[p] \in {"succeeded", "canceled"}
  /\ acked' = acked \cup {p}
  /\ UNCHANGED <<subVars, status, txn, known, handler, given>>

MarkFailed(h) ==
  /\ At(h, "failing")
  /\ status' = [status EXCEPT ![handler[h].payment] = "FAILED"]
  /\ Finish(h)
  /\ UNCHANGED <<subVars, txn, known, given>>

(* Mutants: the test at the top of markSucceeded is dropped; and it is one *)
(* for any payment with a row.                                             *)
NeverProcessed(p) == FALSE
AlreadyKnown(p)   == status[p] # "NONE"

AlreadyProcessed(p) == status[p] = "SUCCEEDED"

(* markSucceeded: the read ...                                             *)
MarkSucceededRead(h) ==
  /\ At(h, "reading")
  /\ handler[h].via # "admin"
  /\ IF AlreadyProcessed(handler[h].payment)
       THEN Finish(h)
       ELSE Goto(h, "marking") /\ UNCHANGED acked
  /\ UNCHANGED <<subVars, status, txn, known, given>>

(* markManuallyPaid: the same, and an error for a SUCCEEDED payment.       *)
MarkManuallyPaid(h, p) ==
  /\ "markPaid" \in Events
  /\ status[p] # "NONE"
  /\ ~AlreadyProcessed(p)
  /\ Start(h, "admin", "marking", p)
  /\ UNCHANGED <<subVars, status, txn, known, acked, given>>

(* Mutant: the grant is forgotten.                                         *)
MarkPaidOnly(h) ==
  LET p == handler[h].payment IN
  /\ At(h, "marking")
  /\ status' = [status EXCEPT ![p] = IF handler[h].via = "admin" THEN "MANUAL"
                                     ELSE "SUCCEEDED"]
  /\ Finish(h)
  /\ UNCHANGED <<subVars, txn, known, given>>

(* ... the write, and the call of grantOrExtend.                           *)
MarkPaid(h) ==
  LET p == handler[h].payment IN
  /\ At(h, "marking")
  /\ status' = [status EXCEPT ![p] = IF handler[h].via = "admin" THEN "MANUAL"
                                     ELSE "SUCCEEDED"]
  /\ BeginGrant(h, Payer[p])
  /\ Goto(h, "granting")
  /\ UNCHANGED <<now, subs, granted, txn, known, acked, given>>

GrantStep(h) ==
  /\ At(h, "granting")
  /\ \/ GrantRead(h) /\ UNCHANGED payVars
     \/ /\ GrantWrite(h)
        /\ given' = [given EXCEPT ![handler[h].payment] = @ + 1]
        /\ Finish(h)
        /\ UNCHANGED <<status, txn, known>>

Crash ==
  /\ "crash" \in Events
  /\ \E h \in Handlers : ~At(h, "idle")
  /\ handler' = [h \in Handlers |-> Idle]
  /\ grants' = [c \in Callers |-> NoGrant]
  /\ UNCHANGED <<now, subs, granted, status, txn, known, acked, given>>

-----------------------------------------------------------------------------
HandlerStep(h) ==
  \/ CreatePayment(h) \/ CreatePaymentFails(h) \/ StoreTxnId(h)
  \/ MarkSucceededRead(h) \/ MarkFailed(h) \/ MarkPaid(h) \/ GrantStep(h)

InBudget(p) ==
  granted[Payer[p]] + Cardinality({q \in Handlers : ~At(q, "idle")}) < MaxGrants

Request(h, p) ==
  /\ InBudget(p)
  /\ \/ Checkout(h, p) \/ MarkManuallyPaid(h, p)
     \/ \E b \in Bodies : Webhook(h, b, p)

Around == (expireDue \/ Tick) /\ UNCHANGED payVars

PayNext ==
  \/ \E h \in Handlers : HandlerStep(h) \/ \E p \in Payments : Request(h, p)
  \/ \E p \in Payments : Settle(p) \/ WebhookIgnored(p)
  \/ Crash \/ Around

PaySpec == Init /\ [][PayNext]_vars

-----------------------------------------------------------------------------
(* The gateway has confirmed to a notification that leads to p that its    *)
(* transaction, which need not be that of p, is paid; or canceled; or both.*)
Names(b, p)     == b.paymentId = p \/ (b.paymentId = Null /\ b.object = p)
SeenPaid(p)     == \E b \in Bodies : Names(b, p) /\ txn[b.object] = "succeeded"
SeenCanceled(p) == \E b \in Bodies : Names(b, p) /\ txn[b.object] = "canceled"
Contested(p)    == SeenPaid(p) /\ SeenCanceled(p)

(* "Re-fetch the payment to avoid trusting the unsigned notification body":*)
(* unless an admin marks payments, what is granted or shown as SUCCEEDED   *)
(* was paid, itself.  So it is when every notification is the provider's   *)
(* own; one that names another's payment is believed in this.              *)
OwnPaymentConfirmed ==
  "markPaid" \notin Events =>
    \A p \in Payments :
      given[p] > 0 \/ status[p] = "SUCCEEDED" => txn[p] = "succeeded"

(* What is true of any notifications: nothing is granted or shown as       *)
(* SUCCEEDED without a transaction that the gateway confirms as paid, named*)
(* in a notification that leads to the payment, unless an admin says so.   *)
NothingForFree ==
  "markPaid" \notin Events =>
    \A p \in Payments : given[p] > 0 \/ status[p] = "SUCCEEDED" => SeenPaid(p)

(* A payment shown as FAILED had a canceled transaction named with it, and *)
(* nothing was or will be granted for it unless a paid one was named with  *)
(* it as well, or by an admin: with the provider's own notifications, no   *)
(* late or concurrent handler has overwritten another's verdict.           *)
FailedGetsNothing ==
  "markPaid" \notin Events =>
    \A p \in Payments : status[p] = "FAILED" =>
      /\ SeenCanceled(p)
      /\ \/ Contested(p)
         \/ /\ given[p] = 0
            /\ \A h \in Handlers : At(h, "granting") => handler[h].payment # p

(* A payment is granted at most once, however often its outcome is         *)
(* announced, and however many handlers run: markSucceeded is idempotent.  *)
GrantedOnce == \A p \in Payments : given[p] <= 1

(* How far that fails: only requests that read the status before the first *)
(* of them wrote it grant again, so a payment is granted at most once per  *)
(* handler, and with one handler once.  No later notification, failed call *)
(* or crash adds a grant, unless paid and canceled transactions are both   *)
(* named with the payment: then FAILED lets the next one grant again.      *)
GrantExcess ==
  "markPaid" \notin Events =>
    \A p \in Payments : given[p] <= Cardinality(Handlers) \/ Contested(p)

(* "already processed" is true: when no request is in progress, a payment  *)
(* whose status is SUCCEEDED or MANUAL has been granted, whoever raced to  *)
(* write it, and need not be looked at again.                              *)
ProcessedIsGranted ==
  (\A h \in Handlers : At(h, "idle")) =>
    \A p \in Payments : status[p] \in {"SUCCEEDED", "MANUAL"} => given[p] > 0

(* From the gateway to the subscription: who has a live one has a payment  *)
(* of his own with which a transaction was named that the gateway confirms *)
(* as paid, unless an admin marks payments, whatever crashes, fails, is    *)
(* repeated or late.                                                       *)
ServedHavePaid ==
  "markPaid" \notin Events =>
    \A u \in Users : getActive(u) # {} =>
      \E p \in Payments : Payer[p] = u /\ SeenPaid(p)

(* The event loop runs the handlers, and the scheduler the sweep; the      *)
(* provider announces an outcome until it is answered with a 200.          *)
FairPaySpec ==
  /\ PaySpec
  /\ WF_vars(expireDue /\ UNCHANGED payVars)
  /\ \A h \in Handlers : WF_vars(HandlerStep(h))
  /\ \A p \in Payments :
       SF_vars(p \notin acked /\ InBudget(p) /\ \E h \in Handlers : Webhook(h, Own(p), p))

(* Who has paid is served: a payment that succeeds is granted in the end.  *)
PaidIsGranted == \A p \in Payments : txn[p] = "succeeded" ~> given[p] > 0
===============================================================================
