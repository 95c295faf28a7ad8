--------------------------- MODULE DirectBooking ---------------------------
(***************************************************************************)
(* One direct-booking order of apps/api and everything its row lock        *)
(* protects: the order's state machine, the reservation hold it commits,   *)
(* the payment requests, checkout attempts and provider payments of those  *)
(* reservations, bank-transfer evidence, the queue workers that apply      *)
(* provider notifications and the minute scheduler.                        *)
(*                                                                         *)
(* Every action is one database transaction or one remote answer, so a     *)
(* handler that commits several times is several actions and a crash may   *)
(* come between any two of them.  Orders share no rows but inventory; what *)
(* availability answers is a choice here and is module Inventory's matter. *)
(*                                                                         *)
(* Instants are naturals, 0 stands for a NULL timestamp: a NULL is never   *)
(* in the future.  A reservation is named by the quote it was committed    *)
(* from, so `reservation = booking_quote' is lockedHeldReservation's       *)
(* comparison of reservations.booking_quote_id with the order's.           *)
(***************************************************************************)
EXTENDS Naturals, FiniteSets

CONSTANTS
    InitialHold,        \* settings.initial_hold_minutes
    CheckoutExtension,  \* settings.checkout_extension_minutes
    MaximumHold,        \* settings.maximum_hold_minutes, from held_at
    QuoteTtl,           \* how long a booking quote can be committed
    SessionTtl,         \* settings.session_ttl_minutes
    RecoveryTtl,        \* direct-booking.recovery_ttl_minutes
    Retention,          \* settings.retention_days
    CheckoutTtls,       \* lifetimes the provider gives a hosted checkout
    Methods,            \* enabled payment capabilities, see AllMethods
    Outcomes,           \* statuses the provider reports, see AllOutcomes
    Matches,            \* whether its payments agree with their attempts
    StaffMoves,         \* what staff do besides reviewing, see AllStaffMoves
    DepositsInTotal,    \* how many deposits the reservation total covers
    Workers,            \* processes of the provider-events queue
    JobTries,           \* ProcessProviderEventJob::$tries
    MaxTime,            \* bound: last instant of the run
    MaxQuotes,          \* bound: quotes, hence reservations, of the order
    MaxRequests,        \* bound: payment requests
    MaxAttempts,        \* bound: checkout attempts
    MaxPayments,        \* bound: payments the guest makes at the provider
    MaxEvidence,        \* bound: uploads of transfer evidence
    MaxCalls            \* bound: createHostedCheckout calls open per attempt

AllMethods == {"hosted_checkout", "manual_bank_transfer"}
AllStaffMoves == {"rehold", "release", "confirm", "cancel", "tender", "send", "revoke"}
AllOutcomes == {"approved", "rejected", "cancelled", "pending"}

ASSUME DurationsAssumption ==
    /\ InitialHold \in Nat \ {0} /\ MaximumHold \in Nat /\ InitialHold <= MaximumHold
    /\ CheckoutExtension \in Nat /\ QuoteTtl \in Nat \ {0} /\ SessionTtl \in Nat
    /\ RecoveryTtl \in Nat /\ Retention \in Nat /\ CheckoutTtls \subseteq Nat
ASSUME BoundsAssumption ==
    /\ JobTries \in Nat /\ DepositsInTotal \in Nat /\ MaxTime \in Nat
    /\ MaxQuotes \in Nat /\ MaxRequests \in Nat /\ MaxAttempts \in Nat
    /\ MaxPayments \in Nat /\ MaxEvidence \in Nat /\ MaxCalls \in Nat
ASSUME ChoicesAssumption ==
    /\ Methods \subseteq AllMethods /\ StaffMoves \subseteq AllStaffMoves
    /\ Outcomes \subseteq AllOutcomes /\ Matches \subseteq BOOLEAN

VARIABLES
    now,      \* the clock
    order,    \* the direct_booking_orders row
    quotes,   \* booking quotes made for the order so far
    res,      \* reservations, by the quote they were committed from
    req,      \* payment_requests
    att,      \* payment_attempts
    calls,    \* createHostedCheckout calls in flight, by attempt
    owed,     \* attempts whose checkout call has its extension step to do
    pay,      \* payments at the provider with what Inn recorded of each
    ev,       \* guest_payment_evidences and where their review stands
    wk,       \* workers of the provider-events queue
    sweep,    \* the order as direct-booking:maintain selected it
    used,     \* retry identities of failures and reviews in the event ledger
    tasks     \* finance review tasks: why, and on which reservation

vars == <<now, order, quotes, res, req, att, calls, owed, pay, ev, wk, sweep,
          used, tasks>>

Quotes == 1..MaxQuotes
Requests == 1..MaxRequests
Attempts == 1..MaxAttempts
Payments == 1..MaxPayments
Evidences == 1..MaxEvidence

OrderStates == {"started", "quoted", "held", "payment_pending",
    "awaiting_manual_payment", "evidence_pending", "finance_review",
    "paid_pending_confirmation", "payment_failed", "evidence_rejected",
    "expired", "paid_needs_review", "confirmed", "canceled", "refunded"}

(* The rows of DirectBookingStateMachine::transitions.                     *)
Transitions ==
    { <<"started", "quoted", "pricing">>, <<"started", "expired", "scheduler">>,
      <<"quoted", "held", "inventory">>, <<"quoted", "expired", "scheduler">>,
      <<"held", "payment_pending", "payments">>,
      <<"held", "awaiting_manual_payment", "payments">>,
      <<"held", "expired", "scheduler">>,
      <<"payment_pending", "payment_pending", "payments">>,
      <<"payment_pending", "paid_pending_confirmation", "provider">>,
      <<"payment_pending", "payment_failed", "provider">>,
      <<"payment_pending", "paid_needs_review", "provider">>,
      <<"payment_pending", "expired", "scheduler">>,
      <<"awaiting_manual_payment", "evidence_pending", "guest_evidence">>,
      <<"awaiting_manual_payment", "expired", "scheduler">>,
      <<"evidence_pending", "finance_review", "evidence_scanner">>,
      <<"evidence_pending", "finance_review", "scheduler">>,
      <<"evidence_pending", "evidence_rejected", "evidence_scanner">>,
      <<"finance_review", "confirmed", "finance">>,
      <<"finance_review", "evidence_rejected", "finance">>,
      <<"finance_review", "refunded", "refund">>,
      <<"paid_pending_confirmation", "confirmed", "reservation">>,
      <<"paid_pending_confirmation", "paid_needs_review", "reservation">>,
      <<"payment_failed", "payment_pending", "payments">>,
      <<"payment_failed", "expired", "scheduler">>,
      <<"evidence_rejected", "awaiting_manual_payment", "payments">>,
      <<"evidence_rejected", "expired", "scheduler">>,
      <<"expired", "started", "recovery">>,
      <<"expired", "paid_needs_review", "provider">>,
      <<"expired", "expired", "scheduler">>,
      <<"paid_needs_review", "confirmed", "finance">>,
      <<"paid_needs_review", "refunded", "refund">>,
      <<"confirmed", "canceled", "cancellation">>,
      <<"confirmed", "refunded", "refund">>,
      <<"confirmed", "confirmed", "scheduler">>,
      <<"canceled", "refunded", "refund">>,
      <<"canceled", "canceled", "scheduler">>,
      <<"refunded", "refunded", "scheduler">> }

-----------------------------------------------------------------------------
Future(t) == t > now
LessOf(a, b) == IF a < b THEN a ELSE b

(* Mutant: the retention scrub is not looked at.                           *)
BugMayMove(o, to, authority) == <<o.state, to, authority>> \in Transitions

(* transition(): a scrubbed session only keeps its state, and the table    *)
(* names who may take each edge.                                           *)
MayMove(o, to, authority) ==
    /\ o.pii_scrubbed_at # 0 => to = o.state
    /\ <<o.state, to, authority>> \in Transitions

(* What an accepted transition writes, besides the timestamps a branch adds. *)
Moved(o, to) == [o EXCEPT !.state = to, !.state_version = @ + 1]

(* DirectBookingTokenService::resolve; only the retention scrub revokes.   *)
SessionOpen == order.pii_scrubbed_at = 0 /\ order.session_expires_at >= now

OrderReservation == res[order.reservation_id]

(* assertLiveHold, and the same comparison in handle() and approved().     *)
LiveHold ==
    /\ order.reservation_id # 0
    /\ OrderReservation.status = "hold"
    /\ Future(OrderReservation.hold_expires_at)
    /\ Future(order.hold_expires_at)
    /\ OrderReservation.hold_expires_at = order.hold_expires_at

(* Mutant: a superseded request can still be paid.                         *)
BugPayableStates == {"open", "processing", "superseded"}
PayableStates == {"open", "processing"}
LiveAttemptStates == {"creating", "checkout_ready", "pending"}

MadeRequests == {r \in Requests : req[r].state # "none"}
MadeAttempts == {a \in Attempts : att[a].state # "none"}
MadePayments == {p \in Payments : pay[p].attempt # 0}
MadeEvidence == {e \in Evidences : ev[e].status # "none"}

(* Folio balance left on a reservation, in deposits: recorded payments,    *)
(* applied or not, lower it and refunds restore it.                        *)
FolioPayments(q) ==
    Cardinality({p \in MadePayments : pay[p].booked \in {"applied", "unapplied"}
                                      /\ att[pay[p].attempt].reservation = q})
    + Cardinality({e \in MadeEvidence : ev[e].booked # "none" /\ ev[e].reservation = q})
    + (IF res[q].tender = "none" THEN 0 ELSE 1)
Outstanding(q) == FolioPayments(q) < DepositsInTotal

(* provision(): the request snapshots the hold's expiry and becomes the    *)
(* order's request; its deposit must be due.                               *)
NewRequest(q, expires) ==
    [state |-> "open", reservation |-> q, expires_at |-> expires, paid_by |-> 0,
     hosted |-> FALSE]

(* Mutant: attempts take the request's state, which is none of theirs.     *)
BugClosedAttempts(r) ==
    [a \in Attempts |-> IF att[a].request = r THEN [att[a] EXCEPT !.state = "superseded"] ELSE att[a]]

(* The attempts of a request that a supersede or an expiry closes.         *)
ClosedAttempts(r) ==
    [a \in Attempts |->
        IF att[a].request = r /\ att[a].state \in LiveAttemptStates
        THEN [att[a] EXCEPT !.state = "expired"] ELSE att[a]]

(* Mutant: the replaced request stays open.                                *)
BugSuperseded(r) == req
Superseded(r) == [req EXCEPT ![r].state = "superseded"]

-----------------------------------------------------------------------------
(* DirectBookingTokenService::issue, at instant 1.                         *)
Init ==
    /\ now = 1
    /\ order = [state |-> "started", state_version |-> 1,
                session_expires_at |-> 1 + SessionTtl,
                recovery_expires_at |-> 1 + RecoveryTtl,
                retained_until |-> 1 + Retention,
                quote_expires_at |-> 0, hold_expires_at |-> 0, held_at |-> 0,
                hold_extended_at |-> 0, pii_scrubbed_at |-> 0,
                booking_quote_id |-> 0, reservation_id |-> 0,
                payment_request_id |-> 0]
    /\ quotes = 0
    /\ res = [q \in Quotes |-> [status |-> "none", hold_expires_at |-> 0, deposit |-> "none",
                              tender |-> "none"]]
    /\ req = [r \in Requests |-> [state |-> "none", reservation |-> 0, expires_at |-> 0,
                                  paid_by |-> 0, hosted |-> FALSE]]
    /\ att = [a \in Attempts |-> [state |-> "none", request |-> 0, reservation |-> 0,
                                  checkout_expires_at |-> 0, url |-> FALSE]]
    /\ calls = [a \in Attempts |-> 0]
    /\ owed = {}
    /\ pay = [p \in Payments |-> [attempt |-> 0, status |-> "none", matches |-> TRUE,
                                  booked |-> "none", tries |-> 0, done |-> FALSE]]
    /\ ev = [e \in Evidences |-> [status |-> "none", reservation |-> 0, booked |-> "none",
                                  review |-> "idle"]]
    /\ wk = [w \in Workers |-> [pc |-> "idle", payment |-> 0, status |-> "none"]]
    /\ sweep = [version |-> 0, late |-> FALSE]
    /\ used = {}
    /\ tasks = {}

-----------------------------------------------------------------------------
(* The guest's commands, DirectBookingApiService.  `expected_state_version' *)
(* is the version the row has: a command carrying another one changes      *)
(* nothing.                                                                *)

Quote ==
    /\ SessionOpen
    /\ order.state = "started" /\ MayMove(order, "quoted", "pricing")
    /\ quotes < MaxQuotes
    /\ quotes' = quotes + 1
    /\ order' = [Moved(order, "quoted") EXCEPT
                    !.booking_quote_id = quotes + 1,
                    !.quote_expires_at = now + QuoteTtl]
    /\ UNCHANGED <<now, res, req, att, calls, owed, pay, ev, wk, sweep, used, tasks>>

(* CommitBookingQuote finds inventory, the hold is shortened to policy and *)
(* provisionHeld issues the deposit request, all before the transition.    *)
(* A quoted order has no request: recover() clears it.  Holds that would   *)
(* outlive the run are not taken (MaxTime).                                *)
Hold ==
    LET q == order.booking_quote_id
        expires == now + LessOf(InitialHold, MaximumHold)
    IN  /\ SessionOpen
        /\ order.state = "quoted" /\ MayMove(order, "held", "inventory")
        /\ Future(order.quote_expires_at)
        /\ now + MaximumHold < MaxTime
        /\ res' = [res EXCEPT ![q] = [status |-> "hold", hold_expires_at |-> expires,
                                      deposit |-> "due", tender |-> "none"]]
        /\ order.payment_request_id = 0
        /\ \E r \in Requests :
              /\ r = Cardinality(MadeRequests) + 1
              /\ req' = [req EXCEPT ![r] = NewRequest(q, expires)]
              /\ order' = [Moved(order, "held") EXCEPT
                              !.reservation_id = q, !.held_at = now,
                              !.hold_expires_at = expires, !.payment_request_id = r]
        /\ UNCHANGED <<now, quotes, att, calls, owed, pay, ev, wk, sweep, used, tasks>>

(* IssueDirectBookingPaymentRequest::handle for a held order: the request  *)
(* made with the hold is the one the guest pays.  From any other state but *)
(* payment_failed the transition is refused: an extension without minutes, *)
(* or an edge the table does not have.                                     *)
IssueHeld ==
    /\ SessionOpen /\ "hosted_checkout" \in Methods
    /\ LiveHold
    /\ order.state = "held" /\ MayMove(order, "payment_pending", "payments")
    /\ order.payment_request_id # 0
    /\ req' = [req EXCEPT ![order.payment_request_id].hosted = TRUE]
    /\ order' = Moved(order, "payment_pending")
    /\ UNCHANGED <<now, quotes, res, att, calls, owed, pay, ev, wk, sweep, used, tasks>>

(* The same command after a failed payment supersedes the request, closes  *)
(* its attempts and issues a replacement (checkout and payments/retry).    *)
IssueReplacement ==
    LET old == order.payment_request_id
        q == order.reservation_id
    IN  /\ SessionOpen /\ "hosted_checkout" \in Methods
        /\ LiveHold
        /\ order.state = "payment_failed" /\ MayMove(order, "payment_pending", "payments")
        /\ old # 0 /\ req[old].state # "paid"
        /\ q = order.booking_quote_id
        /\ res[q].deposit = "due" /\ Outstanding(q)
        /\ \E r \in Requests :
              /\ r = Cardinality(MadeRequests) + 1
              /\ req' = [Superseded(old) EXCEPT
                            ![r] = [NewRequest(q, res[q].hold_expires_at)
                                        EXCEPT !.hosted = TRUE]]
              /\ order' = [Moved(order, "payment_pending") EXCEPT !.payment_request_id = r]
        /\ att' = ClosedAttempts(old)
        /\ UNCHANGED <<now, quotes, res, calls, owed, pay, ev, wk, sweep, used, tasks>>

CheckoutManual ==
    /\ SessionOpen /\ "manual_bank_transfer" \in Methods
    /\ LiveHold
    /\ MayMove(order, "awaiting_manual_payment", "payments")
    /\ order' = Moved(order, "awaiting_manual_payment")
    /\ UNCHANGED <<now, quotes, res, req, att, calls, owed, pay, ev, wk, sweep, used, tasks>>

RetryManual ==
    /\ SessionOpen
    /\ LiveHold
    /\ order.state = "evidence_rejected"
    /\ MayMove(order, "awaiting_manual_payment", "payments")
    /\ order' = Moved(order, "awaiting_manual_payment")
    /\ UNCHANGED <<now, quotes, res, req, att, calls, owed, pay, ev, wk, sweep, used, tasks>>

SubmitEvidence ==
    /\ SessionOpen
    /\ order.state = "awaiting_manual_payment"
    /\ MayMove(order, "evidence_pending", "guest_evidence")
    /\ LiveHold
    /\ OrderReservation.deposit = "due"
    /\ \E e \in Evidences :
          /\ e = Cardinality(MadeEvidence) + 1
          /\ ev' = [ev EXCEPT ![e] = [status |-> "pending", booked |-> "none",
                                      reservation |-> order.reservation_id,
                                      review |-> "idle"]]
    /\ order' = Moved(order, "evidence_pending")
    /\ UNCHANGED <<now, quotes, res, req, att, calls, owed, pay, wk, sweep, used, tasks>>

(* recover(): credentials and both clocks renew, the payment and hold      *)
(* facts are cleared, the reservation and hold_extended_at stay.  With     *)
(* dates the quote is made again; quote() replaces it before any hold.     *)
Recover ==
    /\ order.pii_scrubbed_at = 0 /\ order.recovery_expires_at >= now
    /\ order.state = "expired" /\ MayMove(order, "started", "recovery")
    /\ \E reprice \in BOOLEAN :
          /\ reprice => order.booking_quote_id # 0 /\ quotes < MaxQuotes
          /\ quotes' = IF reprice THEN quotes + 1 ELSE quotes
          /\ order' = [Moved(order, "started") EXCEPT
                          !.booking_quote_id = IF reprice THEN quotes + 1 ELSE @,
                          !.quote_expires_at = IF reprice THEN now + QuoteTtl ELSE 0,
                          !.payment_request_id = 0, !.hold_expires_at = 0,
                          !.session_expires_at = now + SessionTtl,
                          !.recovery_expires_at = now + RecoveryTtl]
    /\ UNCHANGED <<now, res, req, att, calls, owed, pay, ev, wk, sweep, used, tasks>>

-----------------------------------------------------------------------------
(* CreateProviderCheckout: the attempt row, the remote call, its answer.   *)

LiveAttempt(r) == {a \in MadeAttempts : att[a].request = r /\ att[a].state \in LiveAttemptStates}
CheckoutLapsed(a) ==
    att[a].state = "checkout_ready" /\ att[a].checkout_expires_at # 0
    /\ att[a].checkout_expires_at < now

(* Without a live attempt, or with one whose checkout lapsed, a new one is *)
(* made; one still Creating is called for again; an open one is returned.  *)
(* A request is payable up to and at its expiry.                           *)
OpenCheckout(r) ==
    LET q == req[r].reservation
    IN  /\ req[r].hosted /\ req[r].state \in PayableStates /\ req[r].expires_at >= now
        /\ \/ \E first \in LiveAttempt(r) \cup {0}, a \in Attempts :
                 /\ IF first = 0 THEN LiveAttempt(r) = {} ELSE CheckoutLapsed(first)
                 /\ Outstanding(q) /\ res[q].deposit \notin {"paid", "refunded"}
                 /\ a = Cardinality(MadeAttempts) + 1
                 /\ att' = [b \in Attempts |->
                              IF b = a THEN [state |-> "creating", request |-> r,
                                             reservation |-> q, checkout_expires_at |-> 0,
                                             url |-> FALSE]
                              ELSE IF b = first THEN [att[b] EXCEPT !.state = "expired"]
                              ELSE att[b]]
                 /\ calls' = [calls EXCEPT ![a] = 1]
                 /\ req' = [req EXCEPT ![r].state = "processing"]
                 /\ UNCHANGED owed
           \/ \E a \in LiveAttempt(r) :
                 /\ att[a].state = "creating" /\ calls[a] < MaxCalls
                 /\ calls' = [calls EXCEPT ![a] = @ + 1]
                 /\ UNCHANGED <<req, att, owed>>
           \/ \E a \in LiveAttempt(r) :
                 /\ att[a].state # "creating" /\ ~CheckoutLapsed(a)
                 /\ owed' = owed \cup {a}
                 /\ UNCHANGED <<req, att, calls>>
        /\ UNCHANGED <<now, order, quotes, res, pay, ev, wk, sweep, used, tasks>>

(* createHostedCheckout answers: the row is overwritten whatever a webhook *)
(* or a supersede wrote meanwhile.  checkout() goes on to its extension.   *)
CheckoutReady(a) ==
    /\ calls[a] > 0
    /\ calls' = [calls EXCEPT ![a] = @ - 1]
    /\ \E ttl \in CheckoutTtls :
          att' = [att EXCEPT ![a].state = "checkout_ready", ![a].url = TRUE,
                             ![a].checkout_expires_at = now + ttl]
    /\ owed' = owed \cup {a}
    /\ UNCHANGED <<now, order, quotes, res, req, pay, ev, wk, sweep, used, tasks>>

CheckoutFailed(a) ==
    /\ calls[a] > 0
    /\ calls' = [calls EXCEPT ![a] = @ - 1]
    /\ UNCHANGED <<now, order, quotes, res, req, att, owed, pay, ev, wk, sweep, used, tasks>>

(* Mutant: every checkout extends the hold again.                          *)
BugExtensionAsked(a) ==
    IF order.hold_expires_at # 0 /\ att[a].checkout_expires_at > order.hold_expires_at
       /\ order.held_at + MaximumHold > order.hold_expires_at
    THEN LessOf(CheckoutExtension,
                LessOf(order.held_at + MaximumHold - order.hold_expires_at,
                       att[a].checkout_expires_at - order.hold_expires_at))
    ELSE 0

(* The minutes checkout() asks for, from the row it read back.             *)
ExtensionAsked(a) ==
    IF /\ order.hold_expires_at # 0 /\ order.hold_extended_at = 0
       /\ att[a].checkout_expires_at > order.hold_expires_at
       /\ order.held_at + MaximumHold > order.hold_expires_at
    THEN LessOf(CheckoutExtension,
                LessOf(order.held_at + MaximumHold - order.hold_expires_at,
                       att[a].checkout_expires_at - order.hold_expires_at))
    ELSE 0

ExtendedHold(minutes) ==
    LessOf(order.hold_expires_at + minutes, order.held_at + MaximumHold)

(* Mutant: the payment request keeps the expiry it was issued with.        *)
BugRequestsExtended(expires) == req

RequestsExtended(expires) ==
    IF order.payment_request_id = 0 THEN req
    ELSE [req EXCEPT ![order.payment_request_id].expires_at = expires]

(* The extension step of checkout(): from payment_pending it moves three   *)
(* expiries together; the same transition from held or payment_failed is   *)
(* an edge of the table and moves the state alone.                         *)
ExtendCheckout(a) ==
    LET expires == ExtendedHold(ExtensionAsked(a))
    IN  /\ a \in owed
        /\ owed' = owed \ {a}
        /\ ExtensionAsked(a) > 0
        /\ MayMove(order, "payment_pending", "payments")
        /\ \/ /\ order.state = "payment_pending"
              /\ LiveHold /\ order.reservation_id = order.booking_quote_id
              /\ Future(expires) /\ expires > order.hold_expires_at
              /\ res' = [res EXCEPT ![order.reservation_id].hold_expires_at = expires]
              /\ req' = RequestsExtended(expires)
              /\ order' = [Moved(order, "payment_pending") EXCEPT
                              !.hold_expires_at = expires, !.hold_extended_at = now]
           \/ /\ order.state # "payment_pending"
              /\ order' = Moved(order, "payment_pending")
              /\ UNCHANGED <<res, req>>
        /\ UNCHANGED <<now, quotes, att, calls, pay, ev, wk, sweep, used, tasks>>

(* The call ends without one: nothing to ask for, a refused transition, or *)
(* a caller (payments/retry) that does not extend.                         *)
LeaveCheckout(a) ==
    /\ a \in owed
    /\ owed' = owed \ {a}
    /\ UNCHANGED <<now, order, quotes, res, req, att, calls, pay, ev, wk, sweep, used, tasks>>

-----------------------------------------------------------------------------
(* The payment provider, as the gateway sees it: the guest pays an open    *)
(* checkout page, whatever Inn has done with the attempt since, and a      *)
(* pending payment is settled later.  `matches' is whether identity,       *)
(* amount and currency agree with the attempt.                             *)

GuestPays(a) ==
    /\ att[a].url
    /\ \E p \in Payments, status \in Outcomes, matches \in Matches :
          /\ p = Cardinality(MadePayments) + 1
          /\ pay' = [pay EXCEPT ![p].attempt = a, ![p].status = status, ![p].matches = matches]
    /\ UNCHANGED <<now, order, quotes, res, req, att, calls, owed, ev, wk, sweep, used, tasks>>

ProviderSettles(p) ==
    /\ pay[p].status = "pending"
    /\ \E status \in Outcomes \ {"pending"} : pay' = [pay EXCEPT ![p].status = status]
    /\ UNCHANGED <<now, order, quotes, res, req, att, calls, owed, ev, wk, sweep, used, tasks>>

-----------------------------------------------------------------------------
(* ProcessProviderEvent on a queue worker.  A worker holds the payment and *)
(* the status it fetched; each step below is one commit.                   *)

Idle == [pc |-> "idle", payment |-> 0, status |-> "none"]

(* Mutant: an expired order is not looked up.                              *)
BugOrderOf(a) == order.reservation_id = att[a].reservation /\ order.state # "expired"

(* lockedOrder: the order whose reservation is the attempt's, if any.      *)
OrderOf(a) == order.reservation_id # 0 /\ order.reservation_id = att[a].reservation

(* The event reached Processed or Mismatched.                              *)
Finish(w) ==
    /\ wk' = [wk EXCEPT ![w] = Idle]
    /\ pay' = [pay EXCEPT ![wk[w].payment].done = @ \/ wk[w].status = "approved"]

(* Any delivery of a notification makes a worker look the payment up; a    *)
(* job is tried JobTries times, then an operator has to replay it.         *)
Fetch(w, p) ==
    /\ wk[w].pc = "idle"
    /\ p \in MadePayments /\ pay[p].tries < JobTries
    /\ pay' = [pay EXCEPT ![p].tries = @ + 1]
    /\ wk' = [wk EXCEPT ![w] = [pc |-> "apply", payment |-> p, status |-> pay[p].status]]
    /\ UNCHANGED <<now, order, quotes, res, req, att, calls, owed, ev, sweep, used, tasks>>

(* The attempt takes the fetched status, in whatever order they arrive; a  *)
(* payment that was refunded meanwhile leaves its state alone.             *)
Apply(w) ==
    LET p == wk[w].payment
        a == pay[p].attempt
        status == wk[w].status
        next == CASE ~pay[p].matches -> IF status = "approved" /\ OrderOf(a) THEN "book_review" ELSE "idle"
                  [] status = "approved" -> "record"
                  [] status \in {"rejected", "cancelled"} -> "fail"
                  [] OTHER -> "idle"
    IN  /\ wk[w].pc = "apply"
        /\ att' = IF ~pay[p].matches THEN [att EXCEPT ![a].state = "mismatched"]
                  ELSE IF status = "refunded" THEN att
                  ELSE [att EXCEPT ![a].state = status]
        /\ IF next = "idle" THEN Finish(w)
           ELSE wk' = [wk EXCEPT ![w].pc = next] /\ pay' = pay
        /\ UNCHANGED <<now, order, quotes, res, req, calls, owed, ev, sweep, used, tasks>>

(* Mutant: whether the deposit is still due is not looked at.              *)
BugApplicable(p) ==
    LET r == att[pay[p].attempt].request
    IN  /\ req[r].state \in PayableStates /\ req[r].expires_at >= now
        /\ req[r].paid_by = 0
        /\ pay[p].booked = "none" => Outstanding(req[r].reservation)

(* PaymentService::recordProvider.  Applicable: a payment not seen before, *)
(* or one recorded for review that the request can still take.             *)
Applicable(p) ==
    LET r == att[pay[p].attempt].request
        q == req[r].reservation
    IN  /\ req[r].state \in PayableStates /\ req[r].expires_at >= now
        /\ req[r].paid_by = 0
        /\ pay[p].booked = "none" => Outstanding(q) /\ res[q].deposit = "due"

Record(w) ==
    LET p == wk[w].payment
        a == pay[p].attempt
        r == att[a].request
    IN  /\ wk[w].pc = "record"
        /\ \/ /\ req[r].paid_by = p
              /\ wk' = [wk EXCEPT ![w].pc = "approve"]
              /\ UNCHANGED <<pay, req, res, att>>
           \/ /\ req[r].paid_by # p /\ Applicable(p)
              /\ req' = [req EXCEPT ![r].state = "paid", ![r].paid_by = p]
              /\ IF pay[p].booked = "none"
                 THEN /\ pay' = [pay EXCEPT ![p].booked = "applied"]
                      /\ res' = [res EXCEPT ![req[r].reservation].deposit = "paid"]
                 ELSE UNCHANGED <<pay, res>>
              /\ wk' = [wk EXCEPT ![w].pc = "approve"]
              /\ UNCHANGED att
           \/ /\ req[r].paid_by # p /\ ~Applicable(p)
              /\ att' = [att EXCEPT ![a].state = "mismatched"]
              /\ IF OrderOf(a) THEN wk' = [wk EXCEPT ![w].pc = "book_review"] /\ pay' = pay
                               ELSE Finish(w)
              /\ UNCHANGED <<req, res>>
        /\ UNCHANGED <<now, order, quotes, calls, owed, ev, sweep, used, tasks>>

(* recordProviderNeedsReview: the money is on the folio, unapplied.        *)
BookReview(w) ==
    LET p == wk[w].payment
    IN  /\ wk[w].pc = "book_review"
        /\ pay' = [pay EXCEPT ![p].booked = IF @ = "none" THEN "unapplied" ELSE @]
        /\ wk' = [wk EXCEPT ![w].pc = "mark"]
        /\ UNCHANGED <<now, order, quotes, res, req, att, calls, owed, ev, sweep, used, tasks>>

(* markNeedsReview: a failed order is first made payable again.            *)
Normalized(o) == IF o.state = "payment_failed" THEN Moved(o, "payment_pending") ELSE o

(* Mutant: no finance task for an order that is not moved.                 *)
BugMarkNeedsReview(o) ==
    LET n == Normalized(o)
        moves == n.state \in {"payment_pending", "expired"}
    IN  /\ moves => MayMove(n, "paid_needs_review", "provider")
        /\ order' = IF moves THEN Moved(n, "paid_needs_review") ELSE n
        /\ tasks' = IF moves THEN tasks \cup {<<"paid", o.reservation_id>>} ELSE tasks

MarkNeedsReview(o) ==
    LET n == Normalized(o)
    IN  /\ n.state \in {"payment_pending", "expired"} => MayMove(n, "paid_needs_review", "provider")
        /\ order' = IF n.state \in {"payment_pending", "expired"}
                    THEN Moved(n, "paid_needs_review") ELSE n
        /\ tasks' = tasks \cup {<<"paid", o.reservation_id>>}

(* DirectBookingPaymentReconciler::needsReview.                            *)
Mark(w) ==
    LET a == att[pay[wk[w].payment].attempt]
    IN  /\ wk[w].pc = "mark"
        /\ IF OrderOf(pay[wk[w].payment].attempt) THEN MarkNeedsReview(order)
                                                  ELSE UNCHANGED <<order, tasks>>
        /\ Finish(w)
        /\ UNCHANGED <<now, quotes, res, req, att, calls, owed, ev, sweep, used>>

(* Mutant: the hold is not compared again under the lock.                  *)
BugConfirmable(a) ==
    order.state = "payment_pending" /\ order.payment_request_id = att[a].request

(* What approved() asks of the order before it confirms.                   *)
Confirmable(a) ==
    /\ order.state = "payment_pending"
    /\ order.payment_request_id = att[a].request
    /\ LiveHold

(* DirectBookingPaymentReconciler::approved in its one transaction, with   *)
(* ReservationService::confirm inside: it may find the inventory gone.     *)
Approve(w) ==
    LET a == pay[wk[w].payment].attempt
        paid == Moved(order, "paid_pending_confirmation")
    IN  /\ wk[w].pc = "approve"
        /\ \/ /\ ~OrderOf(a) \/ order.state = "confirmed"
              /\ UNCHANGED <<order, res, tasks>>
           \/ /\ OrderOf(a) /\ order.state # "confirmed" /\ ~Confirmable(a)
              /\ MarkNeedsReview(order)
              /\ UNCHANGED res
           \/ /\ OrderOf(a) /\ Confirmable(a)
              /\ MayMove(order, "paid_pending_confirmation", "provider")
              /\ MayMove(paid, "confirmed", "reservation")
              /\ order' = Moved(paid, "confirmed")
              /\ res' = [res EXCEPT ![order.reservation_id].status = "confirmed",
                                    ![order.reservation_id].hold_expires_at = 0]
              /\ UNCHANGED tasks
           \/ /\ OrderOf(a) /\ Confirmable(a)
              /\ MayMove(order, "paid_pending_confirmation", "provider")
              /\ MayMove(paid, "paid_needs_review", "reservation")
              /\ order' = Moved(paid, "paid_needs_review")
              /\ tasks' = tasks \cup {<<"paid", order.reservation_id>>}
              /\ UNCHANGED res
        /\ Finish(w)
        /\ UNCHANGED <<now, quotes, req, att, calls, owed, ev, sweep, used>>

(* DirectBookingPaymentReconciler::failed: any attempt of the reservation  *)
(* fails a pending order, once per attempt and status.                     *)
Fail(w) ==
    LET a == pay[wk[w].payment].attempt
    IN  /\ wk[w].pc = "fail"
        /\ \/ /\ ~OrderOf(a) \/ order.state # "payment_pending"
              /\ UNCHANGED <<order, used>>
           \/ /\ OrderOf(a) /\ order.state = "payment_pending" /\ <<wk[w].status, a>> \notin used
              /\ MayMove(order, "payment_failed", "provider")
              /\ order' = Moved(order, "payment_failed")
              /\ used' = used \cup {<<wk[w].status, a>>}
        /\ Finish(w)
        /\ UNCHANGED <<now, quotes, res, req, att, calls, owed, ev, sweep, tasks>>

(* A step throws or the worker dies: what was committed stays, the event   *)
(* is Failed or its lease runs out, and the job may be tried again.        *)
WorkerFails(w) ==
    /\ wk[w].pc # "idle"
    /\ wk' = [wk EXCEPT ![w] = Idle]
    /\ UNCHANGED <<now, order, quotes, res, req, att, calls, owed, pay, ev, sweep, used, tasks>>

-----------------------------------------------------------------------------
(* ReviewPaymentEvidence and DirectBookingManualReviewReconciler.  Approval *)
(* commits three times: the order goes to finance review, the payment is   *)
(* booked, the order is confirmed.  A second reviewer's call is the same   *)
(* three steps taken later: one review of an upload is open at a time.     *)

OrderOfEvidence(e) == order.reservation_id # 0 /\ order.reservation_id = ev[e].reservation

(* prepareApproval() asks nothing of the evidence: approved or rejected    *)
(* evidence moves the order as well, once for each upload.                 *)
PrepareApproval(e) ==
    /\ ev[e].status # "none" /\ ev[e].review = "idle"
    /\ ev' = [ev EXCEPT ![e].review = "prepared"]
    /\ \/ /\ ~(OrderOfEvidence(e) /\ order.state = "evidence_pending")
          /\ UNCHANGED <<order, used>>
       \/ /\ OrderOfEvidence(e) /\ order.state = "evidence_pending"
          /\ <<"scanned", e>> \notin used
          /\ MayMove(order, "finance_review", "evidence_scanner")
          /\ order' = Moved(order, "finance_review")
          /\ used' = used \cup {<<"scanned", e>>}
    /\ UNCHANGED <<now, quotes, res, req, att, calls, owed, pay, wk, sweep, tasks>>

(* The transfer is recorded on any reservation that is not cancelled, with *)
(* the deposit if one is still due.  Approved evidence has its payment and *)
(* goes on to be confirmed again; rejected evidence ends here by throwing. *)
BookEvidence(e) ==
    LET q == ev[e].reservation
    IN  /\ ev[e].review = "prepared"
        /\ \/ /\ ev[e].status = "pending"
              /\ res[q].status # "cancelled" /\ Outstanding(q)
              /\ IF res[q].deposit = "due"
                 THEN /\ ev' = [ev EXCEPT ![e].status = "approved", ![e].booked = "deposit",
                                          ![e].review = "booked"]
                      /\ res' = [res EXCEPT ![q].deposit = "paid"]
                 ELSE /\ ev' = [ev EXCEPT ![e].status = "approved", ![e].booked = "plain",
                                          ![e].review = "booked"]
                      /\ res' = res
           \/ /\ ev[e].status = "approved"
              /\ ev' = [ev EXCEPT ![e].review = "booked"]
              /\ res' = res
        /\ UNCHANGED <<now, order, quotes, req, att, calls, owed, pay, wk, sweep, used, tasks>>

(* Mutant: a request no checkout was opened for is left open.              *)
BugSettledBy(r, e) ==
    IF r # 0 /\ req[r].state = "processing"
    THEN [req EXCEPT ![r].state = "paid", ![r].paid_by = MaxPayments + e] ELSE req

(* The order's request counts as paid by the evidence if it is payable.    *)
SettledBy(r, e) ==
    IF r # 0 /\ req[r].state \in PayableStates
    THEN [req EXCEPT ![r].state = "paid", ![r].paid_by = MaxPayments + e] ELSE req

(* approved(): the open request counts as paid either way; a hold that has *)
(* lapsed leaves the order in finance review with a task.                  *)
ConfirmEvidence(e) ==
    LET live == /\ OrderReservation.status = "hold"
                /\ Future(OrderReservation.hold_expires_at)
                /\ Future(order.hold_expires_at)
    IN  /\ ev[e].review = "booked"
        /\ ev' = [ev EXCEPT ![e].review = "idle"]
        /\ \/ /\ ~(OrderOfEvidence(e) /\ order.state = "finance_review")
              /\ UNCHANGED <<order, res, req, tasks>>
           \/ /\ OrderOfEvidence(e) /\ order.state = "finance_review"
              /\ req' = SettledBy(order.payment_request_id, e)
              /\ \/ /\ ~live
                    /\ tasks' = tasks \cup {<<"late_manual", order.reservation_id>>}
                    /\ UNCHANGED <<order, res>>
                 \/ /\ live /\ MayMove(order, "confirmed", "finance")
                    /\ order' = Moved(order, "confirmed")
                    /\ res' = [res EXCEPT ![order.reservation_id].status = "confirmed",
                                          ![order.reservation_id].hold_expires_at = 0]
                    /\ UNCHANGED tasks
        /\ UNCHANGED <<now, quotes, att, calls, owed, pay, wk, sweep, used>>

RejectEvidence(e) ==
    /\ ev[e].status \in {"pending", "rejected"} /\ ev[e].review \in {"idle", "prepared"}
    /\ ev' = [ev EXCEPT ![e].status = "rejected", ![e].review = "rejecting"]
    /\ UNCHANGED <<now, order, quotes, res, req, att, calls, owed, pay, wk, sweep, used, tasks>>

ApplyRejection(e) ==
    /\ ev[e].review = "rejecting"
    /\ ev' = [ev EXCEPT ![e].review = "idle"]
    /\ \/ /\ ~(OrderOfEvidence(e) /\ order.state \in {"evidence_pending", "finance_review"})
          /\ UNCHANGED <<order, used>>
       \/ /\ OrderOfEvidence(e) /\ order.state \in {"evidence_pending", "finance_review"}
          /\ <<"rejected", e>> \notin used
          /\ MayMove(order, "evidence_rejected",
                     IF order.state = "evidence_pending" THEN "evidence_scanner" ELSE "finance")
          /\ order' = Moved(order, "evidence_rejected")
          /\ used' = used \cup {<<"rejected", e>>}
    /\ UNCHANGED <<now, quotes, res, req, att, calls, owed, pay, wk, sweep, tasks>>

(* The request dies or a step throws, confirm() finding no inventory among *)
(* the reasons: nothing of the open transaction stays.                     *)
ReviewStops(e) ==
    /\ ev[e].review # "idle"
    /\ ev' = [ev EXCEPT ![e].review = "idle"]
    /\ UNCHANGED <<now, order, quotes, res, req, att, calls, owed, pay, wk, sweep, used, tasks>>

-----------------------------------------------------------------------------
(* The scheduler: direct-booking:maintain, reservation-holds:expire and    *)
(* payments:expire-requests.                                               *)

HoldStates == {"held", "payment_pending", "awaiting_manual_payment", "payment_failed",
               "evidence_rejected", "evidence_pending"}

(* Mutant: a failed payment's hold is never looked at again.               *)
BugDue(o) ==
    \/ o.state = "started" /\ o.session_expires_at <= now
    \/ o.state = "quoted" /\ o.quote_expires_at <= now
    \/ o.state \in HoldStates \ {"payment_failed"} /\ o.hold_expires_at <= now

Due(o) ==
    \/ o.state = "started" /\ o.session_expires_at <= now
    \/ o.state = "quoted" /\ o.quote_expires_at <= now
    \/ o.state \in HoldStates /\ o.hold_expires_at <= now

(* Mutant: evidence is escalated without a deadline.                       *)
BugSweepSelect ==
    /\ sweep.version = 0 /\ (Due(order) \/ order.state = "evidence_pending")
    /\ sweep' = [version |-> order.state_version, late |-> order.state = "evidence_pending"]
    /\ UNCHANGED <<now, order, quotes, res, req, att, calls, owed, pay, ev, wk, used, tasks>>

(* The batch is read without locks and written order by order later.       *)
SweepSelect ==
    /\ sweep.version = 0 /\ Due(order)
    /\ sweep' = [version |-> order.state_version, late |-> order.state = "evidence_pending"]
    /\ UNCHANGED <<now, order, quotes, res, req, att, calls, owed, pay, ev, wk, used, tasks>>

(* Mutant: the selected row is written back whatever happened since.       *)
BugStillSelected == TRUE

(* transition() refuses the selected row if its version has moved on.      *)
StillSelected == order.state_version = sweep.version

SweepExpire ==
    LET to == IF sweep.late THEN "finance_review" ELSE "expired"
    IN  /\ sweep.version # 0
        /\ sweep' = [version |-> 0, late |-> FALSE]
        /\ order' = IF StillSelected /\ MayMove(order, to, "scheduler")
                    THEN Moved(order, to) ELSE order
        /\ UNCHANGED <<now, quotes, res, req, att, calls, owed, pay, ev, wk, used, tasks>>

ExpireHold(q) ==
    /\ res[q].status = "hold" /\ ~Future(res[q].hold_expires_at)
    /\ res' = [res EXCEPT ![q].status = "draft", ![q].hold_expires_at = 0]
    /\ UNCHANGED <<now, order, quotes, req, att, calls, owed, pay, ev, wk, sweep, used, tasks>>

ExpireRequest(r) ==
    /\ req[r].state \in PayableStates /\ ~Future(req[r].expires_at)
    /\ req' = [req EXCEPT ![r].state = "expired"]
    /\ att' = ClosedAttempts(r)
    /\ UNCHANGED <<now, order, quotes, res, calls, owed, pay, ev, wk, sweep, used, tasks>>

(* recordPiiScrubbed, under the row lock with the same test repeated.      *)
Scrub ==
    /\ order.state \in {"expired", "confirmed", "canceled", "refunded"}
    /\ order.retained_until <= now /\ order.pii_scrubbed_at = 0
    /\ order' = [order EXCEPT !.state_version = @ + 1, !.pii_scrubbed_at = now]
    /\ UNCHANGED <<now, quotes, res, req, att, calls, owed, pay, ev, wk, sweep, used, tasks>>

-----------------------------------------------------------------------------
(* Staff on the reservation and its requests: ReservationService, Close-   *)
(* ReservationWithPolicy, the front desk.  None of them touches the order. *)

StaffRehold(q) ==
    /\ "rehold" \in StaffMoves /\ res[q].status = "draft" /\ now + InitialHold < MaxTime
    /\ res' = [res EXCEPT ![q].status = "hold", ![q].hold_expires_at = now + InitialHold]
    /\ UNCHANGED <<now, order, quotes, req, att, calls, owed, pay, ev, wk, sweep, used, tasks>>

StaffRelease(q) ==
    /\ "release" \in StaffMoves /\ res[q].status = "hold"
    /\ res' = [res EXCEPT ![q].status = "draft", ![q].hold_expires_at = 0]
    /\ UNCHANGED <<now, order, quotes, req, att, calls, owed, pay, ev, wk, sweep, used, tasks>>

StaffConfirm(q) ==
    /\ "confirm" \in StaffMoves
    /\ \/ res[q].status = "draft"
       \/ res[q].status = "hold" /\ Future(res[q].hold_expires_at)
    /\ res' = [res EXCEPT ![q].status = "confirmed", ![q].hold_expires_at = 0]
    /\ UNCHANGED <<now, order, quotes, req, att, calls, owed, pay, ev, wk, sweep, used, tasks>>

StaffCancel(q) ==
    /\ "cancel" \in StaffMoves /\ res[q].status \in {"draft", "hold", "confirmed"}
    /\ res' = [res EXCEPT ![q].status = "cancelled", ![q].hold_expires_at = 0,
                          ![q].deposit = IF @ = "due" THEN "waived" ELSE @]
    /\ UNCHANGED <<now, order, quotes, req, att, calls, owed, pay, ev, wk, sweep, used, tasks>>

(* RecordFrontDeskPayment: a tender for the deposit or for the balance, at *)
(* most one per reservation here.                                          *)
StaffTender(q) ==
    /\ "tender" \in StaffMoves /\ res[q].tender = "none"
    /\ res[q].status \notin {"none", "cancelled"} /\ Outstanding(q)
    /\ \/ /\ res[q].deposit = "due"
          /\ res' = [res EXCEPT ![q].tender = "deposit", ![q].deposit = "paid"]
       \/ res' = [res EXCEPT ![q].tender = "plain"]
    /\ UNCHANGED <<now, order, quotes, req, att, calls, owed, pay, ev, wk, sweep, used, tasks>>

(* RotateOrResendPaymentRequest: a new link, so that the payment page can  *)
(* open a checkout whatever the order is doing.                            *)
StaffSend(r) ==
    /\ "send" \in StaffMoves /\ req[r].state = "open" /\ req[r].expires_at >= now
    /\ req' = [req EXCEPT ![r].hosted = TRUE]
    /\ UNCHANGED <<now, order, quotes, res, att, calls, owed, pay, ev, wk, sweep, used, tasks>>

StaffRevoke(r) ==
    /\ "revoke" \in StaffMoves /\ req[r].state \in PayableStates
    /\ req' = [req EXCEPT ![r].state = "revoked"]
    /\ att' = ClosedAttempts(r)
    /\ UNCHANGED <<now, order, quotes, res, calls, owed, pay, ev, wk, sweep, used, tasks>>

(* CompleteRefund of a whole payment, the provider having returned it.     *)
(* RequestRefund lets unapplied funds go back at any time, applied money   *)
(* when the folio is in credit: overpaid, or the reservation closed.       *)
Refundable(p) ==
    LET q == att[pay[p].attempt].reservation
    IN  \/ pay[p].booked = "unapplied"
        \/ pay[p].booked = "applied" /\ (res[q].status = "cancelled" \/ FolioPayments(q) > DepositsInTotal)

Refund(p) ==
    LET q == att[pay[p].attempt].reservation
    IN  /\ p \in MadePayments /\ Refundable(p)
        /\ pay' = [pay EXCEPT ![p].booked = "refunded", ![p].status = "refunded"]
        /\ res' = IF pay[p].booked = "applied" /\ res[q].deposit = "paid"
                  THEN [res EXCEPT ![q].deposit = "refunded"] ELSE res
        /\ UNCHANGED <<now, order, quotes, req, att, calls, owed, ev, wk, sweep, used, tasks>>

(* DirectBookingPaymentReconciler::refunded, after the refund committed.   *)
NotifyRefund(p) ==
    /\ p \in MadePayments /\ pay[p].booked = "refunded" /\ OrderOf(pay[p].attempt)
    /\ order.state \in {"confirmed", "paid_needs_review"}
    /\ MayMove(order, "refunded", "refund")
    /\ order' = Moved(order, "refunded")
    /\ UNCHANGED <<now, quotes, res, req, att, calls, owed, pay, ev, wk, sweep, used, tasks>>

Tick ==
    /\ now < MaxTime
    /\ now' = now + 1
    /\ UNCHANGED <<order, quotes, res, req, att, calls, owed, pay, ev, wk, sweep, used, tasks>>

-----------------------------------------------------------------------------
GuestNext == Quote \/ Hold \/ IssueHeld \/ IssueReplacement \/ CheckoutManual
             \/ RetryManual \/ SubmitEvidence \/ Recover
CheckoutNext ==
    \/ \E r \in Requests : OpenCheckout(r)
    \/ \E a \in Attempts : CheckoutReady(a) \/ CheckoutFailed(a) \/ ExtendCheckout(a)
                            \/ LeaveCheckout(a) \/ GuestPays(a)
    \/ \E p \in Payments : ProviderSettles(p)
WorkerStep(w) == Apply(w) \/ Record(w) \/ BookReview(w) \/ Mark(w) \/ Approve(w) \/ Fail(w)
WorkerNext ==
    \E w \in Workers : \/ WorkerStep(w) \/ WorkerFails(w)
                        \/ \E p \in Payments : Fetch(w, p)
ReviewNext ==
    \E e \in Evidences : PrepareApproval(e) \/ BookEvidence(e) \/ ConfirmEvidence(e)
                         \/ RejectEvidence(e) \/ ApplyRejection(e) \/ ReviewStops(e)
SchedulerNext ==
    \/ SweepSelect \/ SweepExpire \/ Scrub
    \/ \E q \in Quotes : ExpireHold(q)
    \/ \E r \in Requests : ExpireRequest(r)
StaffNext ==
    \/ \E q \in Quotes : StaffRehold(q) \/ StaffRelease(q) \/ StaffConfirm(q) \/ StaffCancel(q)
                          \/ StaffTender(q)
    \/ \E r \in Requests : StaffSend(r) \/ StaffRevoke(r)
    \/ \E p \in Payments : Refund(p) \/ NotifyRefund(p)

Next == GuestNext \/ CheckoutNext \/ WorkerNext \/ ReviewNext \/ SchedulerNext
        \/ StaffNext \/ Tick

Spec == Init /\ [][Next]_vars

(* The scheduler runs every minute and the clock advances; a queue worker  *)
(* that is up goes on with its job, and a job that is due is taken.  A     *)
(* review that was begun is one request and goes on; that staff begin one, *)
(* or approve the same evidence again, is possible and never assumed.      *)
SchedulerFairness == WF_vars(Tick) /\ WF_vars(SweepSelect) /\ WF_vars(SweepExpire)
WorkerFairness ==
    \A w \in Workers : WF_vars(WorkerStep(w)) /\ WF_vars(\E p \in Payments : Fetch(w, p))
ReviewFairness ==
    \A e \in Evidences :
        WF_vars(BookEvidence(e)) /\ WF_vars(ConfirmEvidence(e)) /\ WF_vars(ApplyRejection(e))
FairSpec == Spec /\ SchedulerFairness /\ WorkerFairness /\ ReviewFairness

-----------------------------------------------------------------------------
(* Properties.                                                             *)

Instants == Nat
ReservationStates == {"none", "draft", "hold", "confirmed", "cancelled"}
AttemptStates == LiveAttemptStates \cup
    {"none", "approved", "rejected", "cancelled", "mismatched", "expired"}
OrderRows ==
    [state : OrderStates, state_version : Nat \ {0},
     session_expires_at : Instants, recovery_expires_at : Instants,
     retained_until : Instants, quote_expires_at : Instants, hold_expires_at : Instants,
     held_at : Instants, hold_extended_at : Instants, pii_scrubbed_at : Instants,
     booking_quote_id : Quotes \cup {0}, reservation_id : Quotes \cup {0},
     payment_request_id : Requests \cup {0}]
ReservationRows ==
    [status : ReservationStates, hold_expires_at : Instants,
     deposit : {"none", "due", "paid", "waived", "refunded"},
     tender : {"none", "deposit", "plain"}]
RequestRows ==
    [state : PayableStates \cup {"none", "paid", "superseded", "revoked", "expired"},
     reservation : Quotes \cup {0}, expires_at : Instants,
     paid_by : 0..(MaxPayments + MaxEvidence), hosted : BOOLEAN]
AttemptRows ==
    [state : AttemptStates, request : Requests \cup {0}, reservation : Quotes \cup {0},
     checkout_expires_at : Instants, url : BOOLEAN]
PaymentRows ==
    [attempt : Attempts \cup {0}, status : AllOutcomes \cup {"none", "refunded"},
     matches : BOOLEAN, booked : {"none", "applied", "unapplied", "refunded"},
     tries : Nat, done : BOOLEAN]
EvidenceRows ==
    [status : {"none", "pending", "approved", "rejected"}, reservation : Quotes \cup {0},
     booked : {"none", "deposit", "plain"}, review : {"idle", "prepared", "booked", "rejecting"}]
WorkerSteps == {"idle", "apply", "record", "book_review", "mark", "approve", "fail"}
WorkerStates ==
    [pc : WorkerSteps, payment : Payments \cup {0}, status : AllOutcomes \cup {"none", "refunded"}]

(* Every row keeps to the columns and enumerations of its table.           *)
TypeOK ==
    /\ now \in Instants
    /\ order \in OrderRows
    /\ quotes \in 0..MaxQuotes
    /\ res \in [Quotes -> ReservationRows]
    /\ req \in [Requests -> RequestRows]
    /\ att \in [Attempts -> AttemptRows]
    /\ calls \in [Attempts -> Nat]
    /\ owed \subseteq Attempts
    /\ pay \in [Payments -> PaymentRows]
    /\ ev \in [Evidences -> EvidenceRows]
    /\ wk \in [Workers -> WorkerStates]
    /\ sweep \in [version : Nat, late : BOOLEAN]

EvidenceOf(payer) == payer - MaxPayments
PaidFor(payer) ==
    IF payer \in Payments THEN att[pay[payer].attempt].reservation ELSE ev[EvidenceOf(payer)].reservation

(* approved(), both reconcilers: a confirmed order has a reservation that  *)
(* was confirmed, money given for it, and no request left to pay again.    *)
ConfirmedIsPaid ==
    order.state = "confirmed" =>
        LET r == order.payment_request_id
            paid == req[r].state = "paid" /\ PaidFor(req[r].paid_by) = order.reservation_id
        IN  /\ OrderReservation.status \in {"confirmed", "cancelled"}
            /\ r # 0 /\ req[r].state \notin PayableStates
            /\ paid \/ \E e \in MadeEvidence : ev[e].booked # "none" /\ OrderOfEvidence(e)

(* recordProvider(), front desk, evidence: however many workers, retries   *)
(* and late attempts there are, one payment takes a deposit.               *)
DepositTakenOnce ==
    \A q \in Quotes :
        Cardinality({p \in MadePayments : pay[p].booked = "applied" /\ att[pay[p].attempt].reservation = q})
        + Cardinality({e \in MadeEvidence : ev[e].booked = "deposit" /\ ev[e].reservation = q})
        + (IF res[q].tender = "deposit" THEN 1 ELSE 0) <= 1

(* A payment applied to the reservation the order has was applied through  *)
(* the request it still holds: a retry never replaces a request that has   *)
(* been paid.  Once recovery has taken another reservation, the property   *)
(* says nothing of the first one's money.                                  *)
MoneyOnCurrentRequest ==
    \A p \in MadePayments :
        LET a == att[pay[p].attempt]
        IN  pay[p].booked = "applied" /\ a.reservation = order.reservation_id
            /\ order.payment_request_id # 0 => a.request = order.payment_request_id

(* The hold of an order waiting for money is extended at most once and     *)
(* never past maximum_hold_minutes from held_at.                           *)
HoldWithinPolicy ==
    order.state \in HoldStates =>
        /\ order.hold_expires_at <= order.held_at + MaximumHold
        /\ order.hold_expires_at <= order.held_at + InitialHold + CheckoutExtension

(* While the hold is honoured, the guest can pay exactly as long: the      *)
(* request expires when the order's and the reservation's hold do.         *)
ExpiriesAgree ==
    LET r == order.payment_request_id
    IN  order.state \in HoldStates /\ r # 0 /\ req[r].state \in PayableStates
        => /\ req[r].expires_at = order.hold_expires_at
           /\ LiveHold => req[r].expires_at = OrderReservation.hold_expires_at

(* "Only one active app-owned payment request/checkout may compete." One   *)
(* reservation never has two requests that can be paid, whatever the guest *)
(* retries; and an earlier reservation's, let go by expiry and recovery,   *)
(* can still be paid at its very last instant only, when isPast() takes it *)
(* and the sweep already counts it as due.                                 *)
CanBePaid == {r \in MadeRequests : req[r].state \in PayableStates /\ req[r].expires_at >= now}
SingleOpenRequest ==
    \A r, s \in CanBePaid :
        r # s => /\ req[r].reservation # req[s].reservation
                 /\ req[r].expires_at = now \/ req[s].expires_at = now

(* Once Inn has finished with an approved payment for the reservation the  *)
(* order holds, the money is on the folio and the order is confirmed with  *)
(* it, or refunded, or Finance has a task; money nobody applied has one.   *)
MoneyIsAccountedFor ==
    \A p \in MadePayments :
        pay[p].done /\ att[pay[p].attempt].reservation = order.reservation_id =>
            /\ pay[p].booked # "none"
            /\ \/ <<"paid", order.reservation_id>> \in tasks
               \/ /\ order.state \in {"confirmed", "refunded"}
                  /\ pay[p].booked = "unapplied" => req[att[pay[p].attempt].request].paid_by = p

(* scrub(): the contact data of an order that can still move is kept.      *)
ScrubbedIsClosed ==
    order.pii_scrubbed_at # 0 => order.state \in {"expired", "confirmed", "canceled", "refunded"}

(* direct-booking:maintain acts on rows it read before: an order expires   *)
(* only past its deadline and never while evidence is under review, and    *)
(* the sweep, the one step that leaves every upload as it is, escalates    *)
(* evidence to Finance only once the hold has run out.                     *)
ExpiredOnlyWhenDue ==
    [][/\ order'.state = "expired" /\ order.state # "expired"
          => Due(order) /\ order.state # "evidence_pending"
       /\ order.state = "evidence_pending" /\ order'.state = "finance_review" /\ ev' = ev
          => order.hold_expires_at <= now]_vars

(* approved(), both reconcilers: an order is confirmed over a hold that is *)
(* still running, and the hold becomes the confirmed reservation.          *)
ConfirmsOnlyLiveHolds ==
    [][order'.state = "confirmed" /\ order.state # "confirmed"
       => /\ OrderReservation.status = "hold"
          /\ OrderReservation.hold_expires_at > now /\ order.hold_expires_at > now
          /\ res'[order.reservation_id].status = "confirmed"]_vars

(* An order never waits for money forever: it is paid, expires or reaches  *)
(* Finance, whatever the guest retries.  The reservation's own hold is     *)
(* another row and ends by reservation-holds:expire.                       *)
HoldsEnd == order.state \in HoldStates ~> order.state \notin HoldStates

(* An approved payment for the order's reservation reaches the folio,      *)
(* whatever became of the order, unless every try of its job failed.       *)
Owing(p) ==
    /\ pay[p].status = "approved" /\ pay[p].booked = "none"
    /\ att[pay[p].attempt].reservation = order.reservation_id
Exhausted(p) ==
    pay[p].tries = JobTries /\ ~pay[p].done /\ \A w \in Workers : wk[w].payment # p
ApprovedIsBooked == \A p \in Payments : Owing(p) ~> ~Owing(p) \/ Exhausted(p)

(* "A provider payment found after expiry or after inventory loss becomes  *)
(* `paid_needs_review'": an approved payment that was processed is booked. *)
LatePaymentsAreBooked == \A p \in MadePayments : pay[p].done => pay[p].booked # "none"

(* "accepted manual evidence whose hold lapses moves to `finance_review'   *)
(* without restoring inventory, so Finance can confirm recovered inventory *)
(* or refund": an order in finance review whose transfer is booked leaves  *)
(* it again.                                                               *)
FinanceReviewEnds ==
    order.state = "finance_review" /\ (\E e \in MadeEvidence : ev[e].booked # "none" /\ OrderOfEvidence(e))
    ~> order.state # "finance_review"
=============================================================================
