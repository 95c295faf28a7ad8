--------------------- MODULE DirectBookingTablesProofs ---------------------
(***************************************************************************)
(* How the rows of DirectBooking's tables refer to each other, for any     *)
(* number of quotes, requests, attempts, payments, uploads and workers: a  *)
(* row, once made, keeps the rows it is about, and a new one has an id     *)
(* that nothing refers to.  Linked says so and is inductive; on the way    *)
(* one lemma for each table says what a step may do to a row of it.        *)
(***************************************************************************)
EXTENDS DirectBookingProofs, FiniteSetTheorems

(* Rows are made in the order of their ids.                                *)
Counted(made, all) == \E n \in all \cup {0} : made = 1..n
Numbered ==
    /\ Counted(MadeRequests, Requests) /\ Counted(MadeAttempts, Attempts)
    /\ Counted(MadePayments, Payments) /\ Counted(MadeEvidence, Evidences)

(* A quote that was not committed yet has no reservation.                  *)
ReservationsLinked ==
    /\ order.booking_quote_id <= quotes
    /\ \A q \in Quotes :
          /\ q > quotes => res[q].status = "none"
          /\ res[q].status = "none" => res[q].deposit = "none" /\ res[q].tender = "none"
    /\ order.state = "quoted" =>
          order.booking_quote_id # 0 /\ res[order.booking_quote_id].status = "none"
    /\ order.reservation_id # 0 => res[order.reservation_id].status # "none"

(* The reservation of a quote that was committed.                          *)
Reserved(q) == q \in Quotes /\ res[q].status # "none"

(* A request is of a reservation; the order's is of the order's            *)
(* reservation, and both expiries are one.                                 *)
RequestsLinked ==
    /\ \A r \in MadeRequests : Reserved(req[r].reservation)
    /\ \A r \in Requests : req[r].paid_by # 0 <=> req[r].state = "paid"
    /\ order.payment_request_id # 0 =>
          /\ order.payment_request_id \in MadeRequests
          /\ req[order.payment_request_id].reservation = order.reservation_id
          /\ req[order.payment_request_id].expires_at = order.hold_expires_at

(* An attempt carries the reservation of its request, and only an attempt  *)
(* that was made has a checkout.                                           *)
AttemptsLinked ==
    \A a \in Attempts :
        IF a \in MadeAttempts
        THEN /\ att[a].request \in MadeRequests
             /\ att[a].reservation = req[att[a].request].reservation
        ELSE ~att[a].url /\ calls[a] = 0

(* A payment is of an attempt; what was not made has no trace.             *)
PaymentsLinked ==
    \A p \in Payments :
        IF p \in MadePayments
        THEN pay[p].attempt \in MadeAttempts /\ pay[p].status # "none"
        ELSE pay[p].status = "none" /\ pay[p].booked = "none" /\ ~pay[p].done

(* Evidence is of a reservation, and what was approved has been booked.    *)
EvidenceLinked ==
    \A e \in Evidences :
        IF e \in MadeEvidence
        THEN /\ Reserved(ev[e].reservation)
             /\ ev[e].status = "approved" \/ ev[e].review = "booked" => ev[e].booked # "none"
        ELSE ev[e].booked = "none" /\ ev[e].review = "idle"

(* A job is about a payment that was made.                                 *)
WorkersLinked ==
    \A w \in Workers :
        wk[w].pc # "idle" => wk[w].payment \in MadePayments /\ wk[w].status # "none"

Linked == /\ Numbered /\ ReservationsLinked /\ RequestsLinked /\ AttemptsLinked
          /\ PaymentsLinked /\ EvidenceLinked /\ WorkersLinked

-----------------------------------------------------------------------------
(* The order's row: its columns besides the state.                         *)

(* The step leaves them alone.                                             *)
SameColumns ==
    /\ order'.booking_quote_id = order.booking_quote_id
    /\ order'.reservation_id = order.reservation_id
    /\ order'.payment_request_id = order.payment_request_id
    /\ order'.held_at = order.held_at
    /\ order'.hold_expires_at = order.hold_expires_at
    /\ order'.hold_extended_at = order.hold_extended_at

(* The extension step that does extend.                                    *)
Extends(a) == ExtendCheckout(a) /\ order.state = "payment_pending"

(* The states in which money is awaited or reviewed.                       *)
Waiting == HoldStates \cup {"finance_review"}

(* A step fills the row, or moves its state alone along one of these       *)
(* edges.                                                                  *)
OrderStep ==
    \/ Quote \/ Hold \/ IssueReplacement \/ Recover \/ \E a \in Attempts : Extends(a)
    \/ /\ SameColumns
       /\ \/ order'.state = order.state
          \/ order.state \in Waiting /\ order'.state \in Waiting
          \/ Confirms /\ order.state \in Waiting /\ order'.state = "confirmed"
          \/ order.state \in Waiting \cup {"expired"} /\ order'.state = "paid_needs_review"
          \/ order.state \in {"confirmed", "paid_needs_review"} /\ order'.state = "refunded"
          \/ /\ SweepExpire /\ order.state \in HoldStates \cup {"started", "quoted"}
             /\ order'.state = "expired"

(* An accepted transition keeps the other columns.                         *)
LEMMA MovedColumns ==
    ASSUME NEW o \in OrderRows, NEW to \in OrderStates
    PROVE  /\ Moved(o, to) \in OrderRows /\ Moved(o, to).state = to
           /\ Moved(o, to).booking_quote_id = o.booking_quote_id
           /\ Moved(o, to).reservation_id = o.reservation_id
           /\ Moved(o, to).payment_request_id = o.payment_request_id
           /\ Moved(o, to).held_at = o.held_at
           /\ Moved(o, to).hold_expires_at = o.hold_expires_at
           /\ Moved(o, to).hold_extended_at = o.hold_extended_at
BY MovedType DEF Moved, OrderRows

(* One transition, or two of the reconcilers' transactions.                *)
LEMMA MovesColumns ==
    ASSUME order \in OrderRows, NEW to \in OrderStates
    PROVE  /\ order' = Moved(order, to) => SameColumns /\ order'.state = to
           /\ \A by \in OrderStates :
                 order' = Moved(Moved(order, by), to) => SameColumns /\ order'.state = to
<1>1. order' = Moved(order, to) => SameColumns /\ order'.state = to
  BY MovedColumns DEF SameColumns
<1>2. ASSUME NEW by \in OrderStates, order' = Moved(Moved(order, by), to)
      PROVE  SameColumns /\ order'.state = to
  <2>1. Moved(order, by) \in OrderRows
    BY MovedColumns
  <2>. QED
    BY <1>2, <2>1, MovedColumns DEF SameColumns
<1>. QED
  BY <1>1, <1>2

(* markNeedsReview: from which states an order is marked.                  *)
LEMMA ReviewColumns ==
    ASSUME order \in OrderRows, MarkNeedsReview(order)
    PROVE  /\ SameColumns
           /\ \/ order' = order
              \/ order.state \in Waiting \cup {"expired"} /\ order'.state = "paid_needs_review"
<1>1. CASE order.state = "payment_failed"
  <2>1. Normalized(order) = Moved(order, "payment_pending")
    BY <1>1 DEF Normalized
  <2>2. Normalized(order).state = "payment_pending"
    BY <2>1, MovedColumns DEF OrderStates
  <2>3. order' = Moved(Moved(order, "payment_pending"), "paid_needs_review")
    BY <2>1, <2>2 DEF MarkNeedsReview
  <2>. QED
    BY <1>1, <2>3, MovesColumns DEF OrderStates, Waiting, HoldStates
<1>2. CASE order.state # "payment_failed"
  <2>1. \/ order' = order
        \/ /\ order.state \in {"payment_pending", "expired"}
           /\ order' = Moved(order, "paid_needs_review")
    BY <1>2 DEF MarkNeedsReview, Normalized
  <2>. QED
    BY <2>1, MovesColumns DEF OrderStates, SameColumns, Waiting, HoldStates
<1>. QED
  BY <1>1, <1>2

(* Besides the commands that fill the row, a step moves its state alone.   *)
LEMMA OrderSteps == TypeOK /\ [Next]_vars => OrderStep
<1> SUFFICES ASSUME TypeOK, [Next]_vars PROVE OrderStep
  OBVIOUS
<1>a. order \in OrderRows
  BY Rows
<1>b. \A to \in OrderStates : order' = Moved(order, to) => SameColumns /\ order'.state = to
  BY <1>a, MovesColumns
<1>c. order' = order => OrderStep
  BY DEF OrderStep, SameColumns
<1>1. CASE GuestNext
  <2>1. CASE IssueHeld
    BY <2>1, <1>b DEF IssueHeld, OrderStep, OrderStates, Waiting, HoldStates
  <2>2. CASE CheckoutManual
    BY <2>2, <1>b DEF CheckoutManual, MayMove, Transitions, OrderStep, OrderStates, Waiting, HoldStates
  <2>3. CASE RetryManual
    BY <2>3, <1>b DEF RetryManual, OrderStep, OrderStates, Waiting, HoldStates
  <2>4. CASE SubmitEvidence
    BY <2>4, <1>b DEF SubmitEvidence, OrderStep, OrderStates, Waiting, HoldStates
  <2>. QED
    BY <1>1, <2>1, <2>2, <2>3, <2>4 DEF GuestNext, OrderStep
<1>2. CASE CheckoutNext
  <2>1. ASSUME NEW a \in Attempts, ExtendCheckout(a)
        PROVE  OrderStep
    <3>1. CASE order.state = "payment_pending"
      BY <2>1, <3>1 DEF OrderStep, Extends
    <3>2. CASE order.state # "payment_pending"
      BY <2>1, <3>2, <1>b DEF ExtendCheckout, MayMove, Transitions, OrderStep, OrderStates,
         Waiting, HoldStates
    <3>. QED
      BY <3>1, <3>2
  <2>. QED
    BY <1>2, <1>c, <2>1 DEF CheckoutNext, OpenCheckout, CheckoutReady, CheckoutFailed,
       LeaveCheckout, GuestPays, ProviderSettles
<1>3. CASE WorkerNext
  <2>1. ASSUME NEW w \in Workers, Mark(w)
        PROVE  OrderStep
    BY <2>1, <1>a, <1>c, ReviewColumns DEF Mark, OrderStep
  <2>2. ASSUME NEW w \in Workers, Approve(w)
        PROVE  OrderStep
    <3>1. CASE MarkNeedsReview(order)
      BY <3>1, <1>a, <1>c, ReviewColumns DEF OrderStep
    <3>2. CASE order' = Moved(Moved(order, "paid_pending_confirmation"), "confirmed")
               /\ order.state = "payment_pending"
      BY <2>2, <3>2, <1>a, MovesColumns DEF OrderStep, OrderStates, Confirms, Waiting, HoldStates
    <3>3. CASE order' = Moved(Moved(order, "paid_pending_confirmation"), "paid_needs_review")
               /\ order.state = "payment_pending"
      BY <3>3, <1>a, MovesColumns DEF OrderStep, OrderStates, Waiting, HoldStates
    <3>. QED
      BY <2>2, <1>c, <3>1, <3>2, <3>3 DEF Approve, Confirmable
  <2>3. ASSUME NEW w \in Workers, Fail(w)
        PROVE  OrderStep
    BY <2>3, <1>b, <1>c DEF Fail, OrderStep, OrderStates, Waiting, HoldStates
  <2>. QED
    BY <1>3, <1>c, <2>1, <2>2, <2>3 DEF WorkerNext, WorkerStep, Apply, Record, BookReview,
       WorkerFails, Fetch
<1>4. CASE ReviewNext
  <2>1. ASSUME NEW e \in Evidences, PrepareApproval(e)
        PROVE  OrderStep
    BY <2>1, <1>b, <1>c DEF PrepareApproval, OrderStep, OrderStates, Waiting, HoldStates
  <2>2. ASSUME NEW e \in Evidences, ConfirmEvidence(e)
        PROVE  OrderStep
    <3>1. order' = order \/ (order' = Moved(order, "confirmed") /\ order.state = "finance_review")
      BY <2>2 DEF ConfirmEvidence
    <3>. QED
      BY <2>2, <3>1, <1>b, <1>c DEF OrderStep, OrderStates, Confirms, Waiting
  <2>3. ASSUME NEW e \in Evidences, ApplyRejection(e)
        PROVE  OrderStep
    BY <2>3, <1>b, <1>c DEF ApplyRejection, OrderStep, OrderStates, Waiting, HoldStates
  <2>. QED
    BY <1>4, <1>c, <2>1, <2>2, <2>3 DEF ReviewNext, BookEvidence, RejectEvidence, ReviewStops
<1>5. CASE SchedulerNext
  <2>1. CASE SweepExpire
    <3>1. \/ order' = order
          \/ order' = Moved(order, "finance_review") /\ MayMove(order, "finance_review", "scheduler")
          \/ order' = Moved(order, "expired") /\ MayMove(order, "expired", "scheduler")
      BY <2>1 DEF SweepExpire
    <3>. QED
      BY <2>1, <3>1, <1>b, <1>c DEF MayMove, Transitions, OrderStep, OrderStates, Waiting, HoldStates
  <2>2. CASE Scrub
    BY <2>2, <1>a DEF Scrub, OrderStep, SameColumns, OrderRows
  <2>. QED
    BY <1>5, <1>c, <2>1, <2>2 DEF SchedulerNext, SweepSelect, ExpireHold, ExpireRequest
<1>6. CASE StaffNext
  <2>1. ASSUME NEW p \in Payments, NotifyRefund(p)
        PROVE  OrderStep
    BY <2>1, <1>b DEF NotifyRefund, OrderStep, OrderStates
  <2>. QED
    BY <1>6, <1>c, <2>1 DEF StaffNext, StaffRehold, StaffRelease, StaffConfirm, StaffCancel,
       StaffTender, StaffSend, StaffRevoke, Refund
<1>7. CASE Tick \/ UNCHANGED vars
  BY <1>7, <1>c DEF Tick, vars
<1>. QED
  BY <1>1, <1>2, <1>3, <1>4, <1>5, <1>6, <1>7 DEF Next

(* What the commands that fill the row write.                              *)
LEMMA QuoteRow ==
    ASSUME TypeOK, Quote
    PROVE  /\ order'.state = "quoted" /\ order'.booking_quote_id = quotes + 1
           /\ order'.reservation_id = order.reservation_id
           /\ order'.payment_request_id = order.payment_request_id
           /\ order'.held_at = order.held_at
           /\ order'.hold_expires_at = order.hold_expires_at
           /\ order'.hold_extended_at = order.hold_extended_at
<1> DEFINE row == Moved(order, "quoted")
<1>1. \E until : order' = [row EXCEPT !.booking_quote_id = quotes + 1, !.quote_expires_at = until]
  BY DEF Quote
<1>2. /\ row \in OrderRows /\ row.state = "quoted"
      /\ row.reservation_id = order.reservation_id
      /\ row.payment_request_id = order.payment_request_id
      /\ row.held_at = order.held_at /\ row.hold_expires_at = order.hold_expires_at
      /\ row.hold_extended_at = order.hold_extended_at
  BY Rows, MovedColumns DEF OrderStates
<1> HIDE DEF row
<1>. QED
  BY <1>1, <1>2 DEF OrderRows

(* Hold: the new reservation, its request and one expiry for both.         *)
LEMMA HoldRow ==
    ASSUME TypeOK, Hold
    PROVE  /\ order'.state = "held" /\ order'.booking_quote_id = order.booking_quote_id
           /\ order'.reservation_id = order.booking_quote_id
           /\ order'.held_at = now
           /\ order'.hold_expires_at = now + LessOf(InitialHold, MaximumHold)
           /\ order'.hold_extended_at = order.hold_extended_at
           /\ order'.payment_request_id = Cardinality(MadeRequests) + 1
           /\ order'.payment_request_id \in Requests
<1> DEFINE row == Moved(order, "held")
           expires == now + LessOf(InitialHold, MaximumHold)
<1>1. \E r \in Requests :
         /\ r = Cardinality(MadeRequests) + 1
         /\ order' = [row EXCEPT !.reservation_id = order.booking_quote_id, !.held_at = now,
                                 !.hold_expires_at = expires, !.payment_request_id = r]
  BY DEF Hold
<1>2. /\ row \in OrderRows /\ row.state = "held"
      /\ row.booking_quote_id = order.booking_quote_id
      /\ row.hold_extended_at = order.hold_extended_at
  BY Rows, MovedColumns DEF OrderStates
<1> HIDE DEF row, expires
<1>. QED
  BY <1>1, <1>2 DEF OrderRows, expires

(* IssueReplacement: the order's request is the new one.                   *)
LEMMA ReplacementRow ==
    ASSUME TypeOK, IssueReplacement
    PROVE  /\ order'.state = "payment_pending" /\ order'.booking_quote_id = order.booking_quote_id
           /\ order'.reservation_id = order.reservation_id
           /\ order'.held_at = order.held_at
           /\ order'.hold_expires_at = order.hold_expires_at
           /\ order'.hold_extended_at = order.hold_extended_at
           /\ order'.payment_request_id = Cardinality(MadeRequests) + 1
           /\ order'.payment_request_id \in Requests
<1> DEFINE row == Moved(order, "payment_pending")
<1>1. \E r \in Requests :
         /\ r = Cardinality(MadeRequests) + 1
         /\ order' = [row EXCEPT !.payment_request_id = r]
  BY DEF IssueReplacement
<1>2. /\ row \in OrderRows /\ row.state = "payment_pending"
      /\ row.booking_quote_id = order.booking_quote_id
      /\ row.reservation_id = order.reservation_id
      /\ row.held_at = order.held_at /\ row.hold_expires_at = order.hold_expires_at
      /\ row.hold_extended_at = order.hold_extended_at
  BY Rows, MovedColumns DEF OrderStates
<1> HIDE DEF row
<1>. QED
  BY <1>1, <1>2 DEF OrderRows

(* Recover: started again, without a request or a hold.                    *)
LEMMA RecoverRow ==
    ASSUME TypeOK, Recover
    PROVE  /\ order'.state = "started"
           /\ \/ quotes' = quotes /\ order'.booking_quote_id = order.booking_quote_id
              \/ quotes' = quotes + 1 /\ order'.booking_quote_id = quotes + 1
           /\ order'.reservation_id = order.reservation_id
           /\ order'.payment_request_id = 0 /\ order'.hold_expires_at = 0
           /\ order'.held_at = order.held_at
           /\ order'.hold_extended_at = order.hold_extended_at
<1> DEFINE row == Moved(order, "started")
<1>1. \E quote, until :
         /\ \/ quotes' = quotes /\ quote = order.booking_quote_id
            \/ quotes' = quotes + 1 /\ quote = quotes + 1
         /\ order' = [row EXCEPT !.booking_quote_id = quote, !.quote_expires_at = until,
                                 !.payment_request_id = 0, !.hold_expires_at = 0,
                                 !.session_expires_at = now + SessionTtl,
                                 !.recovery_expires_at = now + RecoveryTtl]
  <2>0. row.booking_quote_id = order.booking_quote_id
    BY Rows, MovedColumns DEF OrderStates
  <2>1. PICK reprice \in BOOLEAN :
          /\ quotes' = IF reprice THEN quotes + 1 ELSE quotes
          /\ order' = [row EXCEPT !.booking_quote_id = IF reprice THEN quotes + 1
                                                      ELSE row.booking_quote_id,
                                  !.quote_expires_at = IF reprice THEN now + QuoteTtl ELSE 0,
                                  !.payment_request_id = 0, !.hold_expires_at = 0,
                                  !.session_expires_at = now + SessionTtl,
                                  !.recovery_expires_at = now + RecoveryTtl]
    BY DEF Recover
  <2> HIDE DEF row
  <2>2. CASE reprice
    BY <2>1, <2>2
  <2>3. CASE ~reprice
    BY <2>0, <2>1, <2>3
  <2>. QED
    BY <2>2, <2>3
<1>2. /\ row \in OrderRows /\ row.state = "started"
      /\ row.reservation_id = order.reservation_id
      /\ row.held_at = order.held_at
      /\ row.hold_extended_at = order.hold_extended_at
  BY Rows, MovedColumns DEF OrderStates
<1> HIDE DEF row
<1>. QED
  BY <1>1, <1>2 DEF OrderRows

(* The extension: a later expiry, marked as extended.                      *)
LEMMA ExtendsRow ==
    ASSUME TypeOK, NEW a \in Attempts, Extends(a)
    PROVE  /\ order'.state = "payment_pending" /\ order'.booking_quote_id = order.booking_quote_id
           /\ order'.reservation_id = order.reservation_id
           /\ order'.payment_request_id = order.payment_request_id
           /\ order'.held_at = order.held_at
           /\ order'.hold_expires_at = ExtendedHold(ExtensionAsked(a))
           /\ order'.hold_extended_at = now
<1> DEFINE row == Moved(order, "payment_pending")
           expires == ExtendedHold(ExtensionAsked(a))
<1>1. order' = [row EXCEPT !.hold_expires_at = expires, !.hold_extended_at = now]
  BY DEF Extends, ExtendCheckout
<1>2. /\ row \in OrderRows /\ row.state = "payment_pending"
      /\ row.booking_quote_id = order.booking_quote_id
      /\ row.reservation_id = order.reservation_id
      /\ row.payment_request_id = order.payment_request_id
      /\ row.held_at = order.held_at
  BY Rows, MovedColumns DEF OrderStates
<1> HIDE DEF row, expires
<1>. QED
  BY <1>1, <1>2 DEF OrderRows, expires

-----------------------------------------------------------------------------
(* Which steps write which table.                                          *)

(* Each table is the same after a step, or the step is one of these.       *)
Writers ==
    /\ \/ req' = req \/ Hold \/ IssueHeld \/ IssueReplacement
       \/ \E r \in Requests : OpenCheckout(r) \/ ExpireRequest(r) \/ StaffSend(r) \/ StaffRevoke(r)
       \/ \E a \in Attempts : Extends(a)
       \/ \E w \in Workers : Record(w)
       \/ \E e \in Evidences : ConfirmEvidence(e)
    /\ \/ att' = att /\ calls' = calls
       \/ IssueReplacement
       \/ \E r \in Requests : OpenCheckout(r) \/ ExpireRequest(r) \/ StaffRevoke(r)
       \/ \E a \in Attempts : CheckoutReady(a) \/ CheckoutFailed(a)
       \/ \E w \in Workers : Apply(w) \/ Record(w)
    /\ \/ pay' = pay
       \/ \E a \in Attempts : GuestPays(a)
       \/ \E p \in Payments : ProviderSettles(p) \/ Refund(p) \/ \E w \in Workers : Fetch(w, p)
       \/ \E w \in Workers : WorkerStep(w)
    /\ \/ ev' = ev
       \/ SubmitEvidence \/ ReviewNext
    /\ \/ res' = res \/ Hold
       \/ \E a \in Attempts : Extends(a)
       \/ \E w \in Workers : Record(w) \/ Approve(w)
       \/ \E e \in Evidences : BookEvidence(e) \/ ConfirmEvidence(e)
       \/ \E q \in Quotes : \/ ExpireHold(q) \/ StaffRehold(q) \/ StaffRelease(q)
                            \/ StaffConfirm(q) \/ StaffCancel(q) \/ StaffTender(q)
       \/ \E p \in Payments : Refund(p)
    /\ wk' = wk \/ WorkerNext
    /\ quotes' = quotes \/ Quote \/ Recover
    /\ tasks \subseteq tasks'

(* The guest's, the provider's, the workers', the reviewers', the          *)
(* scheduler's and the staff's steps, one after the other.                 *)
LEMMA TableWriters == [Next]_vars => Writers
<1>1. GuestNext => /\ UNCHANGED <<calls, pay, wk, tasks>>
                   /\ att' = att \/ IssueReplacement
                   /\ req' = req \/ Hold \/ IssueHeld \/ IssueReplacement
                   /\ ev' = ev \/ SubmitEvidence
                   /\ res' = res \/ Hold
                   /\ quotes' = quotes \/ Quote \/ Recover
  BY DEF GuestNext, Quote, Hold, IssueHeld, IssueReplacement, CheckoutManual, RetryManual,
         SubmitEvidence, Recover
<1>2. ASSUME NEW a \in Attempts, ExtendCheckout(a)
      PROVE  /\ UNCHANGED <<att, calls, pay, ev, wk, quotes, tasks>>
             /\ UNCHANGED <<req, res>> \/ Extends(a)
  BY <1>2 DEF ExtendCheckout, Extends
<1>3. CheckoutNext => Writers
  BY <1>2 DEF CheckoutNext, OpenCheckout, CheckoutReady, CheckoutFailed, LeaveCheckout,
         GuestPays, ProviderSettles, Writers
<1>4. ASSUME NEW w \in Workers, WorkerStep(w)
      PROVE  /\ UNCHANGED <<calls, ev, quotes>>
             /\ req' = req \/ Record(w)
             /\ att' = att \/ Apply(w) \/ Record(w)
             /\ res' = res \/ Record(w) \/ Approve(w)
             /\ tasks \subseteq tasks'
  BY <1>4 DEF WorkerStep, Apply, Record, BookReview, Mark, Approve, Fail, MarkNeedsReview
<1>5. ASSUME NEW w \in Workers, WorkerFails(w) \/ \E p \in Payments : Fetch(w, p)
      PROVE  /\ UNCHANGED <<req, att, calls, ev, res, quotes, tasks>>
             /\ pay' = pay \/ \E p \in Payments : Fetch(w, p)
  BY <1>5 DEF WorkerFails, Fetch
<1>6. WorkerNext => Writers
  BY <1>4, <1>5 DEF WorkerNext, Writers
<1>7. ASSUME NEW e \in Evidences,
             \/ PrepareApproval(e) \/ BookEvidence(e) \/ ConfirmEvidence(e)
             \/ RejectEvidence(e) \/ ApplyRejection(e) \/ ReviewStops(e)
      PROVE  /\ UNCHANGED <<att, calls, pay, wk, quotes>>
             /\ req' = req \/ ConfirmEvidence(e)
             /\ res' = res \/ BookEvidence(e) \/ ConfirmEvidence(e)
             /\ tasks \subseteq tasks'
  BY <1>7 DEF PrepareApproval, BookEvidence, ConfirmEvidence, RejectEvidence, ApplyRejection,
         ReviewStops
<1>8. ReviewNext => Writers
  BY <1>7 DEF ReviewNext, Writers
<1>9. SchedulerNext => Writers
  BY DEF SchedulerNext, SweepSelect, SweepExpire, Scrub, ExpireHold, ExpireRequest, Writers
<1>10. StaffNext => Writers
  BY DEF StaffNext, StaffRehold, StaffRelease, StaffConfirm, StaffCancel, StaffTender,
         StaffSend, StaffRevoke, Refund, NotifyRefund, Writers
<1>11. Tick \/ UNCHANGED vars => Writers
  BY DEF Tick, vars, Writers
<1>. QED
  BY <1>1, <1>3, <1>6, <1>8, <1>9, <1>10, <1>11 DEF Next, Writers

-----------------------------------------------------------------------------
(* The next id of a table is that of no row.                               *)
LEMMA NextId ==
    ASSUME NEW N \in Nat, NEW made, Counted(made, 1..N), NEW i \in 1..N, i = Cardinality(made) + 1
    PROVE  i \notin made /\ Counted(made \cup {i}, 1..N)
<1>1. PICK n \in (1..N) \cup {0} : made = 1..n
  BY DEF Counted
<1>2. Cardinality(made) = n
  BY <1>1, FS_Interval
<1>3. made \cup {i} = 1..i
  BY <1>1, <1>2
<1>. QED
  BY <1>1, <1>2, <1>3 DEF Counted

(* The same for the four tables of the model.                              *)
LEMMA NextIds ==
    ASSUME Numbered
    PROVE  /\ \A i \in Requests : i = Cardinality(MadeRequests) + 1 =>
                  i \notin MadeRequests /\ Counted(MadeRequests \cup {i}, Requests)
           /\ \A i \in Attempts : i = Cardinality(MadeAttempts) + 1 =>
                  i \notin MadeAttempts /\ Counted(MadeAttempts \cup {i}, Attempts)
           /\ \A i \in Payments : i = Cardinality(MadePayments) + 1 =>
                  i \notin MadePayments /\ Counted(MadePayments \cup {i}, Payments)
           /\ \A i \in Evidences : i = Cardinality(MadeEvidence) + 1 =>
                  i \notin MadeEvidence /\ Counted(MadeEvidence \cup {i}, Evidences)
BY NextId, BoundsAssumption DEF Numbered, Requests, Attempts, Payments, Evidences

(* A table whose rows stay made and that gains at most the next id.        *)
LEMMA StaysCounted ==
    ASSUME NEW N \in Nat, NEW made \in SUBSET (1..N), NEW later \in SUBSET (1..N),
           Counted(made, 1..N), made \subseteq later,
           \A i \in later \ made : i = Cardinality(made) + 1
    PROVE  Counted(later, 1..N)
<1>1. CASE later = made
  BY <1>1
<1>2. CASE later # made
  <2>1. PICK i \in later \ made : TRUE
    BY <1>2
  <2>2. later = made \cup {i} /\ i = Cardinality(made) + 1 /\ i \in 1..N
    BY <2>1
  <2>. QED
    BY <2>2, NextId
<1>. QED
  BY <1>1, <1>2

-----------------------------------------------------------------------------
(* What a step may do to a row of each table.                              *)

(* A request: unchanged, issued, sent or extended, or moved on: closed,    *)
(* superseded, paid through a provider payment or through evidence.        *)
RequestMove(r) ==
    \/ req'[r] = req[r]
    \/ /\ req[r].state = "none" /\ req'[r].state = "open" /\ req'[r].paid_by = 0
       /\ r = Cardinality(MadeRequests) + 1 /\ r = order'.payment_request_id
       /\ req'[r].expires_at = order'.hold_expires_at
       /\ req'[r].reservation = order'.reservation_id
       /\ Hold \/ IssueReplacement
    \/ /\ req[r].state # "none" /\ req'[r].reservation = req[r].reservation
       /\ req'[r].state = req[r].state /\ req'[r].paid_by = req[r].paid_by
       /\ \/ req'[r].expires_at = req[r].expires_at
          \/ /\ r = order.payment_request_id /\ req'[r].expires_at = order'.hold_expires_at
             /\ \E a \in Attempts : Extends(a)
    \/ /\ req[r].state # "none" /\ req'[r].reservation = req[r].reservation
       /\ req'[r].expires_at = req[r].expires_at
       /\ \/ /\ req[r].state \in PayableStates /\ req'[r].paid_by = req[r].paid_by
             /\ req'[r].state \in {"processing", "expired", "revoked"}
          \/ /\ r = order.payment_request_id /\ IssueReplacement
             /\ req[r].state # "paid" /\ req'[r].paid_by = req[r].paid_by
             /\ req'[r].state = "superseded"
          \/ /\ req[r].state \in PayableStates /\ req'[r].state = "paid"
             /\ \E w \in Workers :
                   /\ Record(w) /\ r = att[pay[wk[w].payment].attempt].request
                   /\ req'[r].paid_by = wk[w].payment
          \/ /\ req[r].state \in PayableStates /\ req'[r].state = "paid"
             /\ r = order.payment_request_id
             /\ \E e \in Evidences :
                   ConfirmEvidence(e) /\ OrderOfEvidence(e) /\ req'[r].paid_by = MaxPayments + e

(* An attempt: unchanged, made for a request, or moved to another state.   *)
AttemptMove(a) ==
    \/ att'[a] = att[a]
    \/ /\ att[a].state = "none" /\ att'[a].state = "creating" /\ ~att'[a].url
       /\ a = Cardinality(MadeAttempts) + 1
       /\ att'[a].request \in MadeRequests
       /\ att'[a].reservation = req[att'[a].request].reservation
    \/ /\ att[a].state # "none" /\ att'[a].state # "none"
       /\ att'[a].request = att[a].request /\ att'[a].reservation = att[a].reservation

(* A payment: unchanged, made by the guest, or taken further: booked at    *)
(* most once, returned, finished.                                          *)
PaymentMove(p) ==
    \/ pay'[p] = pay[p]
    \/ /\ pay[p].attempt = 0 /\ p = Cardinality(MadePayments) + 1
       /\ pay'[p].attempt \in MadeAttempts /\ pay'[p].status # "none"
       /\ pay'[p].booked = pay[p].booked /\ pay'[p].done = pay[p].done
    \/ /\ pay[p].attempt # 0 /\ pay'[p].attempt = pay[p].attempt /\ pay'[p].status # "none"
       /\ \/ pay'[p].booked = pay[p].booked
          \/ /\ pay[p].booked = "none" /\ pay'[p].booked = "applied"
             /\ \E w \in Workers : Record(w) /\ wk[w].payment = p /\ Applicable(p)
          \/ pay[p].booked = "none" /\ pay'[p].booked = "unapplied"
          \/ pay[p].booked # "none" /\ pay'[p].booked = "refunded"
       /\ \/ pay'[p].done = pay[p].done
          \/ \E w \in Workers : WorkerStep(w) /\ wk[w].payment = p /\ wk[w].status = "approved"

(* Evidence: unchanged, uploaded, or taken further in its review.          *)
EvidenceMove(e) ==
    \/ ev'[e] = ev[e]
    \/ /\ ev[e].status = "none" /\ ev'[e].status = "pending" /\ e = Cardinality(MadeEvidence) + 1
       /\ ev'[e].booked = "none" /\ ev'[e].review = "idle"
       /\ ev'[e].reservation = order.reservation_id /\ order.reservation_id # 0
    \/ /\ ev[e].status # "none" /\ ev'[e].status # "none"
       /\ ev'[e].reservation = ev[e].reservation
       /\ \/ /\ ev'[e].booked = ev[e].booked
             /\ ev'[e].review = "booked" => ev[e].review = "booked"
             /\ ev'[e].status = "approved" => ev[e].status = "approved"
          \/ BookEvidence(e) /\ ev'[e].booked # "none"

(* A reservation: committed by a hold, or moved on: its deposit is paid or *)
(* waived while due, and returned once paid.                               *)
ReservationMove(q) ==
    \/ /\ res[q].status = "none"
       /\ \/ res'[q] = res[q]
          \/ /\ Hold /\ q = order.booking_quote_id /\ res'[q].status = "hold"
             /\ res'[q].deposit = "due" /\ res'[q].tender = "none"
    \/ /\ res[q].status # "none" /\ res'[q].status # "none"
       /\ res[q].status \in {"confirmed", "cancelled"} => res'[q].status \in {"confirmed", "cancelled"}
       /\ \/ /\ res'[q].deposit = res[q].deposit
             /\ res'[q].tender \in {res[q].tender, "plain"}
          \/ /\ res[q].deposit = "due" /\ res'[q].deposit \in {"paid", "waived"}
             /\ res'[q].tender = res[q].tender
          \/ /\ res[q].deposit = "paid" /\ res'[q].deposit = "refunded"
             /\ res'[q].tender = res[q].tender
          \/ /\ res[q].deposit = "due" /\ res'[q].deposit = "paid"
             /\ res'[q].tender = "deposit" /\ StaffTender(q)

(* A worker: idle, starting on a payment, or one step further with it.     *)
WorkerMove(w) ==
    \/ wk'[w] = wk[w]
    \/ wk'[w].pc = "idle"
    \/ \E p \in MadePayments : wk'[w] = [pc |-> "apply", payment |-> p, status |-> pay[p].status]
    \/ /\ WorkerStep(w) /\ wk[w].pc # "idle"
       /\ wk'[w].payment = wk[w].payment /\ wk'[w].status = wk[w].status
       /\ \/ wk'[w].pc \in {"record", "book_review"}
          \/ wk'[w].pc = "fail" /\ wk[w].status # "approved"
          \/ wk'[w].pc = "mark" /\ BookReview(w)
          \/ wk'[w].pc = "approve" /\ Record(w)

(* One step of the proof for each action that writes payment_requests.     *)
LEMMA RequestMoves == TypeOK /\ Linked /\ [Next]_vars => \A r \in Requests : RequestMove(r)
<1> SUFFICES ASSUME TypeOK, Linked, [Next]_vars, NEW r \in Requests PROVE RequestMove(r)
  OBVIOUS
<1>a. /\ req \in [Requests -> RequestRows] /\ order \in OrderRows
      /\ \A i \in Requests : i = Cardinality(MadeRequests) + 1 => req[i].state = "none"
      /\ \A q \in Quotes \cup {0}, expires \in Nat : NewRequest(q, expires) \in RequestRows
  BY NextIds, NewRequestType, Rows DEF TypeOK, Linked, MadeRequests
<1>b. order.payment_request_id \in Requests \cup {0}
      /\ (order.payment_request_id # 0 => req[order.payment_request_id].state # "none")
  BY <1>a DEF Linked, RequestsLinked, MadeRequests, OrderRows
<1>1. CASE Hold
  <2> DEFINE new == NewRequest(order.booking_quote_id, now + LessOf(InitialHold, MaximumHold))
  <2>1. \E i \in Requests : i = Cardinality(MadeRequests) + 1 /\ req' = [req EXCEPT ![i] = new]
    BY <1>1 DEF Hold
  <2>2. /\ new.state = "open" /\ new.paid_by = 0 /\ new.reservation = order.booking_quote_id
        /\ new.expires_at = now + LessOf(InitialHold, MaximumHold)
    BY DEF NewRequest
  <2> HIDE DEF new
  <2>. QED
    BY <2>1, <2>2, <1>1, <1>a, HoldRow DEF RequestMove
<1>2. CASE IssueReplacement
  <2> DEFINE new == [NewRequest(order.reservation_id, res[order.reservation_id].hold_expires_at)
                        EXCEPT !.hosted = TRUE]
             old == order.payment_request_id
  <2>1. /\ \E i \in Requests : i = Cardinality(MadeRequests) + 1
                               /\ req' = [Superseded(old) EXCEPT ![i] = new]
        /\ old # 0 /\ req[old].state # "paid"
        /\ res[order.reservation_id].hold_expires_at = order.hold_expires_at
    BY <1>2 DEF IssueReplacement, LiveHold, OrderReservation
  <2>2. /\ new.state = "open" /\ new.paid_by = 0 /\ new.reservation = order.reservation_id
        /\ new.expires_at = order.hold_expires_at
    BY <2>1 DEF NewRequest
  <2>3. /\ Superseded(old) \in [Requests -> RequestRows]
        /\ \A i \in Requests \ {old} : Superseded(old)[i] = req[i]
        /\ Superseded(old)[old] = [req[old] EXCEPT !.state = "superseded"]
    BY <1>a, <1>b, <2>1, SupersededType DEF Superseded
  <2>4. req[old].state # "none"
    BY <1>b, <2>1
  <2> HIDE DEF new
  <2>5. PICK i \in Requests : i = Cardinality(MadeRequests) + 1 /\ req' = [Superseded(old) EXCEPT ![i] = new]
    BY <2>1
  <2>6. req[i].state = "none" /\ i # old
    BY <1>a, <2>4, <2>5
  <2>7. CASE r = i
    BY <2>2, <2>3, <2>5, <2>6, <2>7, <1>2, ReplacementRow DEF RequestMove
  <2>8. CASE r = old
    <3>1. req'[r] = [req[r] EXCEPT !.state = "superseded"]
      BY <2>3, <2>5, <2>6, <2>8
    <3>. QED
      BY <3>1, <2>1, <2>4, <2>8, <1>2, <1>a DEF RequestMove, RequestRows
  <2>9. CASE r # i /\ r # old
    BY <2>3, <2>5, <2>9 DEF RequestMove
  <2>. QED
    BY <2>7, <2>8, <2>9
<1>3. CASE IssueHeld
  <2>1. req' = [req EXCEPT ![order.payment_request_id].hosted = TRUE] /\ order.payment_request_id # 0
    BY <1>3 DEF IssueHeld
  <2>. QED
    BY <2>1, <1>a, <1>b DEF RequestMove, RequestRows
<1>4. ASSUME NEW i \in Requests, OpenCheckout(i)
      PROVE  RequestMove(r)
  <2>1. req' = req \/ req' = [req EXCEPT ![i].state = "processing"]
    BY <1>4 DEF OpenCheckout
  <2>2. req[i].state \in PayableStates
    BY <1>4 DEF OpenCheckout
  <2>. QED
    BY <2>1, <2>2, <1>a DEF RequestMove, RequestRows, PayableStates
<1>5. ASSUME NEW i \in Requests, ExpireRequest(i) \/ StaffRevoke(i)
      PROVE  RequestMove(r)
  <2>1. /\ \E to \in {"expired", "revoked"} : req' = [req EXCEPT ![i].state = to]
        /\ req[i].state \in PayableStates
    BY <1>5 DEF ExpireRequest, StaffRevoke
  <2>. QED
    BY <2>1, <1>a DEF RequestMove, RequestRows, PayableStates
<1>6. ASSUME NEW i \in Requests, StaffSend(i)
      PROVE  RequestMove(r)
  <2>1. req' = [req EXCEPT ![i].hosted = TRUE] /\ req[i].state = "open"
    BY <1>6 DEF StaffSend
  <2>. QED
    BY <2>1, <1>a DEF RequestMove, RequestRows
<1>7. ASSUME NEW a \in Attempts, Extends(a)
      PROVE  RequestMove(r)
  <2> DEFINE expires == ExtendedHold(ExtensionAsked(a))
  <2>1. req' = RequestsExtended(expires) /\ order'.hold_expires_at = expires
    BY <1>7, ExtendsRow DEF Extends, ExtendCheckout
  <2> HIDE DEF expires
  <2>2. CASE order.payment_request_id = 0
    BY <2>1, <2>2 DEF RequestsExtended, RequestMove
  <2>3. CASE order.payment_request_id # 0
    <3>1. req' = [req EXCEPT ![order.payment_request_id].expires_at = expires]
      BY <2>1, <2>3 DEF RequestsExtended
    <3>. QED
      BY <2>1, <2>3, <3>1, <1>7, <1>a, <1>b DEF RequestMove, RequestRows
  <2>. QED
    BY <2>2, <2>3
<1>8. ASSUME NEW w \in Workers, Record(w)
      PROVE  RequestMove(r)
  <2> DEFINE p == wk[w].payment
             i == att[pay[p].attempt].request
  <2>1. \/ req' = req
        \/ req' = [req EXCEPT ![i].state = "paid", ![i].paid_by = p] /\ req[i].state \in PayableStates
    BY <1>8 DEF Record, Applicable
  <2> HIDE DEF p, i
  <2>2. CASE r = i /\ req' # req
    <3>1. /\ req[r].state \in PayableStates /\ req'[r].state = "paid" /\ req'[r].paid_by = p
          /\ req'[r].reservation = req[r].reservation /\ req'[r].expires_at = req[r].expires_at
      BY <2>1, <2>2, <1>a DEF RequestRows
    <3>2. p = wk[w].payment /\ r = att[pay[wk[w].payment].attempt].request
      BY <2>2 DEF p, i
    <3>. QED
      BY <3>1, <3>2, <1>8 DEF RequestMove, PayableStates
  <2>3. CASE r # i \/ req' = req
    BY <2>1, <2>3, <1>a DEF RequestMove
  <2>. QED
    BY <2>2, <2>3
<1>9. ASSUME NEW e \in Evidences, ConfirmEvidence(e)
      PROVE  RequestMove(r)
  <2> DEFINE i == order.payment_request_id
  <2>1. \/ req' = req
        \/ OrderOfEvidence(e) /\ req' = SettledBy(i, e)
    BY <1>9 DEF ConfirmEvidence
  <2>2. CASE req' # req
    <3>1. /\ req[i].state \in PayableStates /\ OrderOfEvidence(e)
          /\ req' = [req EXCEPT ![i].state = "paid", ![i].paid_by = MaxPayments + e]
      BY <2>1, <2>2 DEF SettledBy
    <3>. QED
      BY <3>1, <1>9, <1>a DEF RequestMove, RequestRows, PayableStates
  <2>. QED
    BY <2>2 DEF RequestMove
<1>. QED
  BY <1>1, <1>2, <1>3, <1>4, <1>5, <1>6, <1>7, <1>8, <1>9, TableWriters DEF Writers, RequestMove

(* The same for payment_attempts and the calls in flight.                  *)
LEMMA AttemptMoves ==
    TypeOK /\ Linked /\ [Next]_vars =>
        /\ \A a \in Attempts : AttemptMove(a)
        /\ \A a \in Attempts : att'[a].state = "none" => calls'[a] = calls[a] /\ att'[a] = att[a]
<1> SUFFICES ASSUME TypeOK, Linked, [Next]_vars, NEW a \in Attempts
             PROVE  AttemptMove(a) /\ (att'[a].state = "none" => calls'[a] = calls[a] /\ att'[a] = att[a])
  OBVIOUS
<1>a. /\ att \in [Attempts -> AttemptRows] /\ calls \in [Attempts -> Nat]
      /\ \A i \in Attempts : i = Cardinality(MadeAttempts) + 1 => att[i].state = "none"
      /\ \A i \in Attempts : calls[i] > 0 => att[i].state # "none"
  <2>1. \A i \in Attempts : i = Cardinality(MadeAttempts) + 1 => i \notin MadeAttempts
    BY NextIds DEF Linked
  <2>2. att \in [Attempts -> AttemptRows] /\ calls \in [Attempts -> Nat]
    BY DEF TypeOK
  <2>3. \A i \in Attempts : i \in MadeAttempts \/ calls[i] = 0
    BY DEF Linked, AttemptsLinked
  <2>. QED
    BY <2>1, <2>2, <2>3 DEF MadeAttempts
<1>b. ASSUME NEW r, att' = ClosedAttempts(r), calls' = calls
      PROVE  AttemptMove(a) /\ (att'[a].state = "none" => calls'[a] = calls[a] /\ att'[a] = att[a])
  <2>1. att'[a] = att[a] \/ (att[a].state \in LiveAttemptStates /\ att'[a] = [att[a] EXCEPT !.state = "expired"])
    BY <1>b DEF ClosedAttempts
  <2>. QED
    BY <2>1, <1>a, <1>b DEF AttemptMove, AttemptRows, LiveAttemptStates
<1>c. ASSUME NEW i \in Attempts, att[i].state # "none", NEW to \in AttemptStates \ {"none"},
             att' = [att EXCEPT ![i].state = to], calls' = calls
      PROVE  AttemptMove(a) /\ (att'[a].state = "none" => calls'[a] = calls[a] /\ att'[a] = att[a])
  BY <1>a, <1>c DEF AttemptMove, AttemptRows
<1>d. \A w \in Workers : wk[w].pc # "idle" =>
          /\ pay[wk[w].payment].attempt \in MadeAttempts
          /\ wk[w].status \in {"approved", "rejected", "cancelled", "pending", "refunded"}
  BY DEF Linked, WorkersLinked, PaymentsLinked, MadePayments, TypeOK, WorkerStates, AllOutcomes
<1>1. CASE IssueReplacement
  BY <1>1, <1>b DEF IssueReplacement
<1>2. ASSUME NEW r \in Requests, OpenCheckout(r)
      PROVE  AttemptMove(a) /\ (att'[a].state = "none" => calls'[a] = calls[a] /\ att'[a] = att[a])
  <2>1. CASE att' = att
    <3>1. calls' = calls \/ \E i \in LiveAttempt(r) : calls' = [calls EXCEPT ![i] = @ + 1]
      BY <1>2, <2>1, <1>a DEF OpenCheckout
    <3>. QED
      BY <2>1, <3>1, <1>a DEF AttemptMove, LiveAttempt, MadeAttempts
  <2>2. CASE att' # att
    <3>1. PICK first \in LiveAttempt(r) \cup {0}, i \in Attempts :
            /\ i = Cardinality(MadeAttempts) + 1
            /\ att' = [b \in Attempts |->
                         IF b = i THEN [state |-> "creating", request |-> r,
                                        reservation |-> req[r].reservation,
                                        checkout_expires_at |-> 0, url |-> FALSE]
                         ELSE IF b = first THEN [att[b] EXCEPT !.state = "expired"]
                         ELSE att[b]]
            /\ calls' = [calls EXCEPT ![i] = 1]
      BY <1>2, <2>2 DEF OpenCheckout
    <3>2. r \in MadeRequests
      BY <1>2 DEF OpenCheckout, MadeRequests, PayableStates
    <3>3. CASE a = i
      BY <3>1, <3>2, <3>3, <1>a DEF AttemptMove
    <3>4. CASE a # i /\ a = first
      <4>1. att[a].state \in LiveAttemptStates
        BY <3>4, <3>1 DEF LiveAttempt, Attempts
      <4>2. att'[a] = [att[a] EXCEPT !.state = "expired"]
        BY <3>1, <3>4
      <4>. QED
        BY <4>1, <4>2, <1>a DEF AttemptMove, AttemptRows, LiveAttemptStates
    <3>5. CASE a # i /\ a # first
      BY <3>1, <3>5, <1>a DEF AttemptMove
    <3>. QED
      BY <3>3, <3>4, <3>5
  <2>. QED
    BY <2>1, <2>2
<1>3. ASSUME NEW r \in Requests, ExpireRequest(r) \/ StaffRevoke(r)
      PROVE  AttemptMove(a) /\ (att'[a].state = "none" => calls'[a] = calls[a] /\ att'[a] = att[a])
  BY <1>3, <1>b DEF ExpireRequest, StaffRevoke
<1>4. ASSUME NEW i \in Attempts, CheckoutReady(i)
      PROVE  AttemptMove(a) /\ (att'[a].state = "none" => calls'[a] = calls[a] /\ att'[a] = att[a])
  <2>1. /\ \E until : att' = [att EXCEPT ![i].state = "checkout_ready", ![i].url = TRUE,
                                         ![i].checkout_expires_at = until]
        /\ calls' = [calls EXCEPT ![i] = @ - 1] /\ calls[i] > 0
    BY <1>4 DEF CheckoutReady
  <2>. QED
    BY <2>1, <1>a DEF AttemptMove, AttemptRows
<1>5. ASSUME NEW i \in Attempts, CheckoutFailed(i)
      PROVE  AttemptMove(a) /\ (att'[a].state = "none" => calls'[a] = calls[a] /\ att'[a] = att[a])
  <2>1. att' = att /\ calls' = [calls EXCEPT ![i] = @ - 1] /\ calls[i] > 0
    BY <1>5 DEF CheckoutFailed
  <2>. QED
    BY <2>1, <1>a DEF AttemptMove
<1>6. ASSUME NEW w \in Workers, Apply(w)
      PROVE  AttemptMove(a) /\ (att'[a].state = "none" => calls'[a] = calls[a] /\ att'[a] = att[a])
  <2>1. /\ \/ att' = att
           \/ \E to \in {"mismatched", "approved", "rejected", "cancelled", "pending"} :
                 att' = [att EXCEPT ![pay[wk[w].payment].attempt].state = to]
        /\ pay[wk[w].payment].attempt \in MadeAttempts /\ calls' = calls
    BY <1>6, <1>d DEF Apply
  <2>. QED
    BY <2>1, <1>c DEF AttemptStates, LiveAttemptStates, MadeAttempts, AttemptMove
<1>7. ASSUME NEW w \in Workers, Record(w)
      PROVE  AttemptMove(a) /\ (att'[a].state = "none" => calls'[a] = calls[a] /\ att'[a] = att[a])
  <2>1. /\ att' = att \/ att' = [att EXCEPT ![pay[wk[w].payment].attempt].state = "mismatched"]
        /\ pay[wk[w].payment].attempt \in MadeAttempts /\ calls' = calls
    BY <1>7, <1>d DEF Record
  <2>2. CASE att' = att
    BY <2>1, <2>2 DEF AttemptMove
  <2>3. CASE att' = [att EXCEPT ![pay[wk[w].payment].attempt].state = "mismatched"]
    <3>1. "mismatched" \in AttemptStates \ {"none"}
      BY DEF AttemptStates
    <3>2. /\ pay[wk[w].payment].attempt \in Attempts
          /\ att[pay[wk[w].payment].attempt].state # "none"
      BY <2>1 DEF MadeAttempts
    <3>. QED
      BY <2>1, <2>3, <3>1, <3>2, <1>c
  <2>. QED
    BY <2>1, <2>2, <2>3
<1>. QED
  BY <1>1, <1>2, <1>3, <1>4, <1>5, <1>6, <1>7, TableWriters DEF Writers, AttemptMove

(* A worker on a job has a payment that was made.                          *)
LEMMA WorkersPayment ==
    ASSUME TypeOK, Linked, NEW w \in Workers, wk[w].pc # "idle"
    PROVE  /\ wk[w].payment \in Payments /\ pay[wk[w].payment].attempt # 0
           /\ pay[wk[w].payment].status # "none"
           /\ pay[wk[w].payment].attempt \in Attempts
           /\ att[pay[wk[w].payment].attempt].state # "none"
           /\ att[pay[wk[w].payment].attempt].request \in MadeRequests
           /\ Reserved(att[pay[wk[w].payment].attempt].reservation)
           /\ att[pay[wk[w].payment].attempt].reservation =
                req[att[pay[wk[w].payment].attempt].request].reservation
<1>1. wk[w].payment \in MadePayments
  BY DEF Linked, WorkersLinked
<1>2. /\ pay[wk[w].payment].attempt \in MadeAttempts /\ pay[wk[w].payment].status # "none"
      /\ wk[w].payment \in Payments /\ pay[wk[w].payment].attempt # 0
  BY <1>1 DEF Linked, PaymentsLinked, MadePayments
<1>. QED
  BY <1>2 DEF Linked, AttemptsLinked, RequestsLinked, MadeAttempts

(* The same for the provider's payments.                                   *)
LEMMA PaymentMoves == TypeOK /\ Linked /\ [Next]_vars => \A p \in Payments : PaymentMove(p)
<1> SUFFICES ASSUME TypeOK, Linked, [Next]_vars, NEW p \in Payments PROVE PaymentMove(p)
  OBVIOUS
<1>a. /\ pay \in [Payments -> PaymentRows]
      /\ \A i \in Payments : pay[i].attempt = 0 => pay[i].status = "none" /\ pay[i].booked = "none"
      /\ \A i \in Payments : pay[i].attempt # 0 => pay[i].status # "none"
      /\ \A i \in Payments : i = Cardinality(MadePayments) + 1 => pay[i].attempt = 0
  <2>1. \A i \in Payments : i = Cardinality(MadePayments) + 1 => i \notin MadePayments
    BY NextIds DEF Linked
  <2>. QED
    BY <2>1 DEF TypeOK, Linked, PaymentsLinked, MadePayments
<1>b. ASSUME NEW w \in Workers, wk[w].pc # "idle", WorkerStep(w), Finish(w)
      PROVE  PaymentMove(p)
  <2> DEFINE i == wk[w].payment
             over == wk[w].status = "approved"
  <2>1. pay' = [pay EXCEPT ![i].done = pay[i].done \/ over]
    BY <1>b DEF Finish
  <2>2. i \in Payments /\ pay[i].attempt # 0 /\ pay[i].status # "none"
    BY <1>b, WorkersPayment
  <2>3. CASE p # i
    BY <2>1, <2>3 DEF PaymentMove
  <2>4. CASE p = i
    <3> HIDE DEF i
    <3>1. /\ pay'[p].attempt = pay[p].attempt /\ pay'[p].status = pay[p].status
          /\ pay'[p].booked = pay[p].booked
          /\ pay'[p].done = (pay[p].done \/ over)
      BY <2>1, <2>2, <2>4, <1>a DEF PaymentRows
    <3>2. pay[p].done \in BOOLEAN
      BY <1>a DEF PaymentRows
    <3>3. CASE over
      BY <3>1, <3>3, <2>2, <2>4, <1>b DEF PaymentMove, i
    <3>4. CASE ~over
      <4>1. pay'[p].done = pay[p].done
        BY <3>1, <3>2, <3>4
      <4>. QED
        BY <3>1, <4>1, <2>2, <2>4 DEF PaymentMove
    <3>. QED
      BY <3>3, <3>4
  <2>. QED
    BY <2>3, <2>4
<1>1. ASSUME NEW a \in Attempts, GuestPays(a)
      PROVE  PaymentMove(p)
  <2>1. PICK i \in Payments, status \in Outcomes, matches \in Matches :
          /\ i = Cardinality(MadePayments) + 1
          /\ pay' = [pay EXCEPT ![i].attempt = a, ![i].status = status, ![i].matches = matches]
    BY <1>1 DEF GuestPays
  <2>2. a \in MadeAttempts
    BY <1>1 DEF GuestPays, Linked, AttemptsLinked
  <2>3. status # "none"
    BY ChoicesAssumption DEF AllOutcomes
  <2>. QED
    BY <2>1, <2>2, <2>3, <1>a DEF PaymentMove, PaymentRows
<1>2. ASSUME NEW i \in Payments, ProviderSettles(i)
      PROVE  PaymentMove(p)
  <2>1. PICK status \in Outcomes : pay' = [pay EXCEPT ![i].status = status]
    BY <1>2 DEF ProviderSettles
  <2>2. status # "none" /\ pay[i].status = "pending"
    BY <1>2, ChoicesAssumption DEF AllOutcomes, ProviderSettles
  <2>. QED
    BY <2>1, <2>2, <1>a DEF PaymentMove, PaymentRows
<1>3. ASSUME NEW i \in Payments, Refund(i)
      PROVE  PaymentMove(p)
  <2>1. /\ pay' = [pay EXCEPT ![i].booked = "refunded", ![i].status = "refunded"]
        /\ pay[i].booked # "none" /\ pay[i].attempt # 0
    BY <1>3 DEF Refund, Refundable, MadePayments
  <2>. QED
    BY <2>1, <1>a DEF PaymentMove, PaymentRows
<1>4. ASSUME NEW w \in Workers, NEW i \in Payments, Fetch(w, i)
      PROVE  PaymentMove(p)
  <2>1. pay' = [pay EXCEPT ![i].tries = @ + 1] /\ pay[i].attempt # 0
    BY <1>4 DEF Fetch, MadePayments
  <2>. QED
    BY <2>1, <1>a DEF PaymentMove, PaymentRows
<1>5. ASSUME NEW w \in Workers, WorkerStep(w)
      PROVE  PaymentMove(p)
  <2>0. wk[w].pc # "idle"
    BY <1>5 DEF WorkerStep, Apply, Record, BookReview, Mark, Approve, Fail
  <2>1. CASE Finish(w)
    BY <2>0, <2>1, <1>5, <1>b
  <2>2. CASE pay' = pay
    BY <2>2 DEF PaymentMove
  <2>3. CASE Apply(w) \/ Mark(w) \/ Approve(w) \/ Fail(w)
    BY <2>1, <2>2, <2>3 DEF Apply, Mark, Approve, Fail
  <2>4. CASE Record(w)
    <3> DEFINE i == wk[w].payment
    <3>1. \/ pay' = pay \/ Finish(w)
          \/ pay' = [pay EXCEPT ![i].booked = "applied"] /\ pay[i].booked = "none" /\ Applicable(i)
      BY <2>4 DEF Record
    <3>2. CASE pay' = [pay EXCEPT ![i].booked = "applied"] /\ pay[i].booked = "none" /\ Applicable(i)
      <4>1. i \in Payments /\ pay[i].attempt # 0 /\ pay[i].status # "none"
        BY <2>0, WorkersPayment
      <4>2. CASE p = i
        <5>1. /\ pay'[p].attempt = pay[p].attempt /\ pay'[p].status = pay[p].status
              /\ pay'[p].booked = "applied" /\ pay'[p].done = pay[p].done
          BY <3>2, <4>1, <4>2, <1>a DEF PaymentRows
        <5>. QED
          BY <5>1, <3>2, <4>1, <4>2, <2>4 DEF PaymentMove
      <4>3. CASE p # i
        BY <3>2, <4>3 DEF PaymentMove
      <4>. QED
        BY <4>2, <4>3
    <3>. QED
      BY <3>1, <3>2, <2>1, <2>2
  <2>5. CASE BookReview(w)
    <3> DEFINE i == wk[w].payment
    <3>1. pay' = [pay EXCEPT ![i].booked = IF pay[i].booked = "none" THEN "unapplied" ELSE pay[i].booked]
      BY <2>5 DEF BookReview
    <3>2. i \in Payments /\ pay[i].attempt # 0 /\ pay[i].status # "none"
      BY <2>0, WorkersPayment
    <3> HIDE DEF i
    <3>3. CASE p = i
      <4>1. /\ pay'[p].attempt = pay[p].attempt /\ pay'[p].status = pay[p].status
            /\ pay'[p].booked = pay[p].booked \/ (pay[p].booked = "none" /\ pay'[p].booked = "unapplied")
            /\ pay'[p].done = pay[p].done
        BY <3>1, <3>2, <3>3, <1>a DEF PaymentRows
      <4>. QED
        BY <4>1, <3>2, <3>3 DEF PaymentMove
    <3>4. CASE p # i
      BY <3>1, <3>4 DEF PaymentMove
    <3>. QED
      BY <3>3, <3>4
  <2>. QED
    BY <1>5, <2>3, <2>4, <2>5 DEF WorkerStep
<1>. QED
  BY <1>1, <1>2, <1>3, <1>4, <1>5, TableWriters DEF Writers, PaymentMove

(* The same for guest_payment_evidences.                                   *)
LEMMA EvidenceMoves == TypeOK /\ Linked /\ [Next]_vars => \A e \in Evidences : EvidenceMove(e)
<1> SUFFICES ASSUME TypeOK, Linked, [Next]_vars, NEW e \in Evidences PROVE EvidenceMove(e)
  OBVIOUS
<1>a. /\ ev \in [Evidences -> EvidenceRows]
      /\ \A i \in Evidences : ev[i].review # "idle" => ev[i].status # "none"
      /\ \A i \in Evidences : i = Cardinality(MadeEvidence) + 1 => ev[i].status = "none"
  <2>1. \A i \in Evidences : i = Cardinality(MadeEvidence) + 1 => i \notin MadeEvidence
    BY NextIds DEF Linked
  <2>. QED
    BY <2>1 DEF TypeOK, Linked, EvidenceLinked, MadeEvidence
<1>1. CASE SubmitEvidence
  <2>1. PICK i \in Evidences :
          /\ i = Cardinality(MadeEvidence) + 1
          /\ ev' = [ev EXCEPT ![i] = [status |-> "pending", booked |-> "none",
                                      reservation |-> order.reservation_id, review |-> "idle"]]
    BY <1>1 DEF SubmitEvidence
  <2>2. order.reservation_id # 0
    BY <1>1 DEF SubmitEvidence, LiveHold
  <2>. QED
    BY <2>1, <2>2, <1>a DEF EvidenceMove
<1>2. ASSUME NEW i \in Evidences, PrepareApproval(i)
      PROVE  EvidenceMove(e)
  <2>1. ev' = [ev EXCEPT ![i].review = "prepared"] /\ ev[i].status # "none"
    BY <1>2 DEF PrepareApproval
  <2>. QED
    BY <2>1, <1>a DEF EvidenceMove, EvidenceRows
<1>3. ASSUME NEW i \in Evidences, BookEvidence(i)
      PROVE  EvidenceMove(e)
  <2>1. CASE ev[i].status = "pending"
    <3>1. PICK as \in {"deposit", "plain"} :
            ev' = [ev EXCEPT ![i].status = "approved", ![i].booked = as, ![i].review = "booked"]
      BY <1>3, <2>1 DEF BookEvidence
    <3>2. CASE e = i
      <4>1. ev'[i] = [ev[i] EXCEPT !.status = "approved", !.booked = as, !.review = "booked"]
            /\ ev[i] \in EvidenceRows
        BY <3>1, <1>a
      <4>2. /\ ev'[e].status # "none" /\ ev'[e].reservation = ev[e].reservation
            /\ ev'[e].booked # "none" /\ ev[e].status # "none"
        BY <2>1, <3>2, <4>1 DEF EvidenceRows
      <4>. QED
        BY <4>2, <3>2, <1>3 DEF EvidenceMove
    <3>3. CASE e # i
      BY <3>1, <3>3, <1>a DEF EvidenceMove
    <3>. QED
      BY <3>2, <3>3
  <2>2. CASE ev[i].status # "pending"
    <3>1. ev[i].status = "approved" /\ ev' = [ev EXCEPT ![i].review = "booked"]
      BY <1>3, <2>2 DEF BookEvidence
    <3>2. ev[i].booked # "none"
      BY <3>1 DEF Linked, EvidenceLinked, MadeEvidence
    <3>3. CASE e = i
      <4>1. /\ ev'[e].status # "none" /\ ev'[e].reservation = ev[e].reservation
            /\ ev'[e].booked # "none" /\ ev[e].status # "none"
        BY <3>1, <3>2, <3>3, <1>a DEF EvidenceRows
      <4>. QED
        BY <4>1, <3>3, <1>3 DEF EvidenceMove
    <3>4. CASE e # i
      BY <3>1, <3>4, <1>a DEF EvidenceMove
    <3>. QED
      BY <3>3, <3>4
  <2>. QED
    BY <2>1, <2>2
<1>4. ASSUME NEW i \in Evidences, ConfirmEvidence(i) \/ ApplyRejection(i) \/ ReviewStops(i)
      PROVE  EvidenceMove(e)
  <2>1. ev' = [ev EXCEPT ![i].review = "idle"] /\ ev[i].review # "idle"
    BY <1>4 DEF ConfirmEvidence, ApplyRejection, ReviewStops
  <2>. QED
    BY <2>1, <1>a DEF EvidenceMove, EvidenceRows
<1>5. ASSUME NEW i \in Evidences, RejectEvidence(i)
      PROVE  EvidenceMove(e)
  <2>1. ev' = [ev EXCEPT ![i].status = "rejected", ![i].review = "rejecting"] /\ ev[i].status # "none"
    BY <1>5 DEF RejectEvidence
  <2>. QED
    BY <2>1, <1>a DEF EvidenceMove, EvidenceRows
<1>. QED
  BY <1>1, <1>2, <1>3, <1>4, <1>5, TableWriters DEF Writers, ReviewNext, EvidenceMove

(* The same for reservations.                                              *)
LEMMA ReservationMoves == TypeOK /\ Linked /\ [Next]_vars => \A q \in Quotes : ReservationMove(q)
<1> SUFFICES ASSUME TypeOK, Linked, [Next]_vars, NEW q \in Quotes PROVE ReservationMove(q)
  OBVIOUS
<1>a. res \in [Quotes -> ReservationRows]
  BY DEF TypeOK
<1>b. res'[q] = res[q] => ReservationMove(q)
  BY DEF ReservationMove
(* A change of the reservation's status and hold alone.                    *)
<1>c. ASSUME NEW i \in Quotes, NEW to \in ReservationStates \ {"none"}, NEW until,
             res' = [res EXCEPT ![i].status = to, ![i].hold_expires_at = until],
             res[i].status \in {"draft", "hold"} \/ (res[i].status = "confirmed" /\ to = "cancelled")
      PROVE  ReservationMove(q)
  BY <1>a, <1>c DEF ReservationMove, ReservationRows
<1>d. ASSUME order.reservation_id # 0
      PROVE  order.reservation_id \in Quotes
  BY <1>d, Rows
<1>1. CASE Hold
  <2> DEFINE i == order.booking_quote_id
  <2>1. \E expires : res' = [res EXCEPT ![i] = [status |-> "hold", hold_expires_at |-> expires,
                                                deposit |-> "due", tender |-> "none"]]
    BY <1>1 DEF Hold
  <2>2. i \in Quotes /\ res[i].status = "none"
    BY <1>1, Rows DEF Hold, Linked, ReservationsLinked
  <2>. QED
    BY <2>1, <2>2, <1>1, <1>a, <1>b DEF ReservationMove
<1>2. ASSUME NEW a \in Attempts, Extends(a)
      PROVE  ReservationMove(q)
  <2>1. /\ order.reservation_id # 0 /\ res[order.reservation_id].status = "hold"
        /\ \E until : res' = [res EXCEPT ![order.reservation_id].hold_expires_at = until]
    BY <1>2 DEF Extends, ExtendCheckout, LiveHold, OrderReservation
  <2>. QED
    BY <2>1, <1>a, <1>d DEF ReservationMove, ReservationRows
<1>3. ASSUME NEW i \in Quotes, res[i].deposit = "due", res[i].status # "none",
             res' = [res EXCEPT ![i].deposit = "paid"]
      PROVE  ReservationMove(q)
  BY <1>3, <1>a DEF ReservationMove, ReservationRows
<1>4. ASSUME NEW w \in Workers, Record(w)
      PROVE  ReservationMove(q)
  <2> DEFINE r == att[pay[wk[w].payment].attempt].request
  <2>1. \/ res' = res
        \/ res' = [res EXCEPT ![req[r].reservation].deposit = "paid"] /\ res[req[r].reservation].deposit = "due"
    BY <1>4 DEF Record, Applicable
  <2>2. Reserved(req[r].reservation)
    BY <1>4, WorkersPayment DEF Record
  <2> HIDE DEF r
  <2>. QED
    BY <2>1, <2>2, <1>3, <1>b DEF Reserved
<1>5. ASSUME NEW to \in {"confirmed"}, order.reservation_id # 0, OrderReservation.status = "hold",
             res' = [res EXCEPT ![order.reservation_id].status = to,
                                ![order.reservation_id].hold_expires_at = 0]
      PROVE  ReservationMove(q)
  BY <1>5, <1>c, <1>d DEF OrderReservation, ReservationStates
<1>6. ASSUME NEW w \in Workers, Approve(w)
      PROVE  ReservationMove(q)
  BY <1>6, <1>5, <1>b DEF Approve, Confirmable, LiveHold
<1>7. ASSUME NEW e \in Evidences, BookEvidence(e)
      PROVE  ReservationMove(q)
  <2>1. Reserved(ev[e].reservation)
    BY <1>7 DEF BookEvidence, Linked, EvidenceLinked, MadeEvidence
  <2>. QED
    BY <2>1, <1>7, <1>3, <1>b DEF BookEvidence, Reserved
<1>8. ASSUME NEW e \in Evidences, ConfirmEvidence(e)
      PROVE  ReservationMove(q)
  BY <1>8, <1>5, <1>b DEF ConfirmEvidence, OrderOfEvidence
<1>9. ASSUME NEW i \in Quotes,
             ExpireHold(i) \/ StaffRehold(i) \/ StaffRelease(i) \/ StaffConfirm(i)
      PROVE  ReservationMove(q)
  BY <1>9, <1>c DEF ExpireHold, StaffRehold, StaffRelease, StaffConfirm, ReservationStates
<1>10. ASSUME NEW i \in Quotes, StaffCancel(i)
       PROVE  ReservationMove(q)
  <2>1. /\ res' = [res EXCEPT ![i].status = "cancelled", ![i].hold_expires_at = 0,
                              ![i].deposit = IF res[i].deposit = "due" THEN "waived" ELSE res[i].deposit]
        /\ res[i].status # "none"
    BY <1>10 DEF StaffCancel
  <2>. QED
    BY <2>1, <1>a DEF ReservationMove, ReservationRows
<1>11. ASSUME NEW i \in Quotes, StaffTender(i)
       PROVE  ReservationMove(q)
  <2>1. /\ \/ res[i].deposit = "due" /\ res' = [res EXCEPT ![i].tender = "deposit", ![i].deposit = "paid"]
           \/ res' = [res EXCEPT ![i].tender = "plain"]
        /\ res[i].status # "none"
    BY <1>11 DEF StaffTender
  <2>2. CASE q # i
    BY <2>1, <2>2, <1>a, <1>b
  <2>3. CASE q = i
    <3>1. /\ res'[q].status = res[q].status
          /\ \/ res[q].deposit = "due" /\ res'[q].tender = "deposit" /\ res'[q].deposit = "paid"
             \/ res'[q].tender = "plain" /\ res'[q].deposit = res[q].deposit
      BY <2>1, <2>3, <1>a DEF ReservationRows
    <3>. QED
      BY <3>1, <2>1, <2>3, <1>11 DEF ReservationMove
  <2>. QED
    BY <2>2, <2>3
<1>12. ASSUME NEW p \in Payments, Refund(p)
       PROVE  ReservationMove(q)
  <2> DEFINE i == att[pay[p].attempt].reservation
  <2>1. /\ p \in MadePayments
        /\ res' = res \/ (res' = [res EXCEPT ![i].deposit = "refunded"] /\ res[i].deposit = "paid")
    BY <1>12 DEF Refund
  <2>2. i \in Quotes /\ res[i].status # "none"
    BY <2>1 DEF Linked, PaymentsLinked, AttemptsLinked, RequestsLinked, MadeAttempts, MadePayments, Reserved
  <2> HIDE DEF i
  <2>. QED
    BY <2>1, <2>2, <1>a, <1>b DEF ReservationMove, ReservationRows
<1>. QED
  BY <1>1, <1>2, <1>4, <1>6, <1>7, <1>8, <1>9, <1>10, <1>11, <1>12, <1>b, TableWriters DEF Writers

(* What a queue worker does next.                                          *)
LEMMA JobMoves == TypeOK /\ Linked /\ [Next]_vars => \A w \in Workers : WorkerMove(w)
<1> SUFFICES ASSUME TypeOK, Linked, [Next]_vars, NEW w \in Workers PROVE WorkerMove(w)
  OBVIOUS
<1>a. wk \in [Workers -> WorkerStates]
  BY DEF TypeOK
<1>b. ASSUME NEW v \in Workers, wk' = [wk EXCEPT ![v] = Idle]
      PROVE  WorkerMove(w)
  BY <1>a, <1>b DEF WorkerMove, Idle
<1>c. ASSUME NEW v \in Workers, NEW to, wk' = [wk EXCEPT ![v].pc = to], v # w \/ to = "idle"
      PROVE  WorkerMove(w)
  BY <1>a, <1>c DEF WorkerMove, WorkerStates
<1>d. ASSUME NEW to, WorkerStep(w), wk[w].pc # "idle", wk' = [wk EXCEPT ![w].pc = to],
             \/ to \in {"record", "book_review"}
             \/ to = "fail" /\ wk[w].status # "approved"
             \/ to = "mark" /\ BookReview(w)
             \/ to = "approve" /\ Record(w)
      PROVE  WorkerMove(w)
  <2>1. wk'[w].pc = to /\ wk'[w].payment = wk[w].payment /\ wk'[w].status = wk[w].status
    BY <1>a, <1>d DEF WorkerStates
  <2>. QED
    BY <2>1, <1>d DEF WorkerMove
<1>1. ASSUME NEW v \in Workers, Apply(v)
      PROVE  WorkerMove(w)
  <2>1. \/ Finish(v)
        \/ \E to : /\ wk' = [wk EXCEPT ![v].pc = to]
                   /\ to \in {"record", "book_review"} \/ (to = "fail" /\ wk[v].status # "approved")
    BY <1>1 DEF Apply
  <2>2. WorkerStep(v) /\ wk[v].pc # "idle"
    BY <1>1 DEF WorkerStep, Apply
  <2>. QED
    BY <2>1, <2>2, <1>b, <1>c, <1>d DEF Finish
<1>2. ASSUME NEW v \in Workers, Record(v)
      PROVE  WorkerMove(w)
  <2>1. \/ Finish(v)
        \/ \E to \in {"approve", "book_review"} : wk' = [wk EXCEPT ![v].pc = to]
    BY <1>2 DEF Record
  <2>2. WorkerStep(v) /\ wk[v].pc # "idle"
    BY <1>2 DEF WorkerStep, Record
  <2>. QED
    BY <2>1, <2>2, <1>2, <1>b, <1>c, <1>d DEF Finish
<1>3. ASSUME NEW v \in Workers, BookReview(v)
      PROVE  WorkerMove(w)
  <2>1. wk' = [wk EXCEPT ![v].pc = "mark"]
    BY <1>3 DEF BookReview
  <2>2. WorkerStep(v) /\ wk[v].pc # "idle"
    BY <1>3 DEF WorkerStep, BookReview
  <2>. QED
    BY <2>1, <2>2, <1>3, <1>c, <1>d
<1>4. ASSUME NEW v \in Workers, Mark(v) \/ Approve(v) \/ Fail(v) \/ WorkerFails(v)
      PROVE  WorkerMove(w)
  BY <1>4, <1>b DEF Mark, Approve, Fail, WorkerFails, Finish
<1>5. ASSUME NEW v \in Workers, NEW p \in Payments, Fetch(v, p)
      PROVE  WorkerMove(w)
  BY <1>5, <1>a DEF Fetch, WorkerMove
<1>. QED
  BY <1>1, <1>2, <1>3, <1>4, <1>5, TableWriters DEF Writers, WorkerNext, WorkerStep, WorkerMove

-----------------------------------------------------------------------------
(* The rows of the tables keep what they are about.                        *)

(* At first every table is empty.                                          *)
LEMMA LinkedInit == Init => Linked
<1> SUFFICES ASSUME Init PROVE Linked
  OBVIOUS
<1>1. /\ MadeRequests = {} /\ MadeAttempts = {} /\ MadePayments = {} /\ MadeEvidence = {}
  BY DEF Init, MadeRequests, MadeAttempts, MadePayments, MadeEvidence
<1>2. \A all : Counted({}, all)
  <2>1. {} = 1..0
    OBVIOUS
  <2>. QED
    BY <2>1 DEF Counted
<1>3. Numbered
  BY <1>1, <1>2 DEF Numbered
<1>4. ReservationsLinked /\ RequestsLinked
  BY <1>1 DEF Init, ReservationsLinked, RequestsLinked
<1>5. AttemptsLinked /\ PaymentsLinked /\ EvidenceLinked /\ WorkersLinked
  BY <1>1 DEF Init, AttemptsLinked, PaymentsLinked, EvidenceLinked, WorkersLinked
<1>. QED
  BY <1>3, <1>4, <1>5 DEF Linked

(* A row that was made stays made, and about the same rows.                *)
LEMMA RowsStay ==
    ASSUME TypeOK, Linked, [Next]_vars
    PROVE  /\ \A q \in Quotes : Reserved(q) => Reserved(q)'
           /\ MadeRequests \subseteq MadeRequests'
           /\ \A r \in MadeRequests : req'[r].reservation = req[r].reservation
           /\ MadeAttempts \subseteq MadeAttempts'
           /\ \A a \in MadeAttempts :
                 att'[a].request = att[a].request /\ att'[a].reservation = att[a].reservation
           /\ MadePayments \subseteq MadePayments'
           /\ \A p \in MadePayments : pay'[p].attempt = pay[p].attempt
           /\ MadeEvidence \subseteq MadeEvidence'
           /\ \A e \in MadeEvidence : ev'[e].reservation = ev[e].reservation
<1>1. \A q \in Quotes : Reserved(q) => Reserved(q)'
  BY ReservationMoves DEF ReservationMove, Reserved
<1>2. /\ MadeRequests \subseteq MadeRequests'
      /\ \A r \in MadeRequests : req'[r].reservation = req[r].reservation
  BY RequestMoves DEF RequestMove, MadeRequests
<1>3. /\ MadeAttempts \subseteq MadeAttempts'
      /\ \A a \in MadeAttempts :
            att'[a].request = att[a].request /\ att'[a].reservation = att[a].reservation
  BY AttemptMoves DEF AttemptMove, MadeAttempts
<1>4. /\ MadePayments \subseteq MadePayments'
      /\ \A p \in MadePayments : pay'[p].attempt = pay[p].attempt
  BY PaymentMoves DEF PaymentMove, MadePayments
<1>5. /\ MadeEvidence \subseteq MadeEvidence'
      /\ \A e \in MadeEvidence : ev'[e].reservation = ev[e].reservation
  BY EvidenceMoves DEF EvidenceMove, MadeEvidence
<1>. QED
  BY <1>1, <1>2, <1>3, <1>4, <1>5

(* The request, the quote and the reservation a step leaves on the order.  *)
LEMMA NumberedStep == TypeOK /\ Linked /\ [Next]_vars => Numbered'
<1> SUFFICES ASSUME TypeOK, Linked, [Next]_vars PROVE Numbered'
  OBVIOUS
<1>1. Counted(MadeRequests', Requests)
  <2>1. \A i \in MadeRequests' \ MadeRequests : i = Cardinality(MadeRequests) + 1
    BY RequestMoves DEF RequestMove, MadeRequests
  <2>. QED
    BY <2>1, RowsStay, StaysCounted, BoundsAssumption DEF Linked, Numbered, Requests, MadeRequests
<1>2. Counted(MadeAttempts', Attempts)
  <2>1. \A i \in MadeAttempts' \ MadeAttempts : i = Cardinality(MadeAttempts) + 1
    BY AttemptMoves DEF AttemptMove, MadeAttempts
  <2>. QED
    BY <2>1, RowsStay, StaysCounted, BoundsAssumption DEF Linked, Numbered, Attempts, MadeAttempts
<1>3. Counted(MadePayments', Payments)
  <2>1. \A i \in MadePayments' \ MadePayments : i = Cardinality(MadePayments) + 1
    BY PaymentMoves DEF PaymentMove, MadePayments
  <2>. QED
    BY <2>1, RowsStay, StaysCounted, BoundsAssumption DEF Linked, Numbered, Payments, MadePayments
<1>4. Counted(MadeEvidence', Evidences)
  <2>1. \A i \in MadeEvidence' \ MadeEvidence : i = Cardinality(MadeEvidence) + 1
    BY EvidenceMoves DEF EvidenceMove, MadeEvidence
  <2>. QED
    BY <2>1, RowsStay, StaysCounted, BoundsAssumption DEF Linked, Numbered, Evidences, MadeEvidence
<1>. QED
  BY <1>1, <1>2, <1>3, <1>4 DEF Numbered, Requests, Attempts, Payments, Evidences

(* Quotes are never taken back.                                            *)
LEMMA QuotesGrow ==
    ASSUME TypeOK, [Next]_vars
    PROVE  quotes' \in Nat /\ quotes' >= quotes
<1>1. quotes \in Nat /\ quotes' \in Nat
  BY Rows, NextType, BoundsAssumption DEF TypeOK
<1>. QED
  BY <1>1, TableWriters, RecoverRow DEF Writers, Quote

(* A quote is committed once: what the order quotes has no reservation     *)
(* yet, what it holds has one.                                             *)
LEMMA ReservationsStep == TypeOK /\ Linked /\ [Next]_vars => ReservationsLinked'
<1> SUFFICES ASSUME TypeOK, Linked, [Next]_vars PROVE ReservationsLinked'
  OBVIOUS
<1>a. /\ quotes \in Nat /\ quotes' \in Nat /\ quotes' >= quotes
      /\ order.booking_quote_id \in Nat /\ order.booking_quote_id <= quotes
      /\ order.booking_quote_id \in Quotes \cup {0}
      /\ order.reservation_id \in Quotes \cup {0}
  BY Rows, QuotesGrow, BoundsAssumption DEF Linked, ReservationsLinked, Quotes
<1>b. OrderStep
  BY OrderSteps
<1>c. /\ Quote => order'.booking_quote_id = quotes + 1 /\ quotes' = quotes + 1 /\ res' = res
      /\ Hold => /\ order.booking_quote_id # 0 /\ order'.reservation_id = order.booking_quote_id
                 /\ res'[order.booking_quote_id].status = "hold" /\ order'.state = "held"
                 /\ res[order.booking_quote_id].status = "none" /\ order.state = "quoted"
                 /\ quotes' = quotes
  <2>1. Quote => order'.booking_quote_id = quotes + 1 /\ quotes' = quotes + 1 /\ res' = res
    BY QuoteRow DEF Quote
  <2>2. ASSUME Hold
        PROVE  /\ order.booking_quote_id # 0 /\ order'.reservation_id = order.booking_quote_id
               /\ res'[order.booking_quote_id].status = "hold" /\ order'.state = "held"
               /\ res[order.booking_quote_id].status = "none" /\ order.state = "quoted"
               /\ quotes' = quotes
    <3>1. order.booking_quote_id # 0 /\ res[order.booking_quote_id].status = "none"
          /\ order.state = "quoted" /\ quotes' = quotes
      BY <2>2 DEF Hold, Linked, ReservationsLinked
    <3>2. res'[order.booking_quote_id].status = "hold"
      BY <2>2, <3>1, <1>a DEF Hold, TypeOK
    <3>. QED
      BY <2>2, <3>1, <3>2, HoldRow
  <2>. QED
    BY <2>1, <2>2
<1>1. order'.booking_quote_id <= quotes'
  BY <1>a, <1>b, <1>c, HoldRow, ReplacementRow, RecoverRow, ExtendsRow DEF OrderStep, SameColumns
<1>2. ASSUME NEW q \in Quotes, q > quotes'
      PROVE  res'[q].status = "none"
  <2>1. q > quotes
    BY <1>2, <1>a DEF Quotes
  <2>2. res[q].status = "none"
    BY <2>1 DEF Linked, ReservationsLinked
  <2>3. ~(Hold /\ q = order.booking_quote_id)
    BY <2>1, <1>a DEF Quotes
  <2>. QED
    BY <2>2, <2>3, ReservationMoves DEF ReservationMove
<1>3. ASSUME NEW q \in Quotes, res'[q].status = "none"
      PROVE  res'[q].deposit = "none" /\ res'[q].tender = "none"
  BY <1>3, ReservationMoves DEF ReservationMove, Linked, ReservationsLinked
<1>4. ASSUME order'.state = "quoted"
      PROVE  order'.booking_quote_id # 0 /\ res'[order'.booking_quote_id].status = "none"
  <2>1. CASE Quote
    <3>1. order'.booking_quote_id \in Quotes
      <4>1. quotes < MaxQuotes
        BY <2>1 DEF Quote
      <4>. QED
        BY <2>1, <4>1, <1>a, <1>c, BoundsAssumption DEF Quotes
    <3>. QED
      BY <2>1, <3>1, <1>a, <1>c DEF Linked, ReservationsLinked
  <2>2. CASE ~Quote
    <3>1. SameColumns /\ order.state = "quoted"
      BY <2>2, <1>4, <1>b, HoldRow, ReplacementRow, RecoverRow, ExtendsRow DEF OrderStep, Waiting, HoldStates
    <3>2. order.booking_quote_id \in Quotes /\ res[order.booking_quote_id].status = "none"
      BY <3>1, <1>a DEF Linked, ReservationsLinked
    <3>3. ~Hold
      BY <1>4, <1>c
    <3>4. ReservationMove(order.booking_quote_id)
      BY <3>2, ReservationMoves
    <3>5. res'[order.booking_quote_id] = res[order.booking_quote_id]
      BY <3>2, <3>3, <3>4 DEF ReservationMove
    <3>. QED
      BY <3>1, <3>2, <3>5 DEF SameColumns, Quotes
  <2>. QED
    BY <2>1, <2>2
<1>5. ASSUME order'.reservation_id # 0
      PROVE  res'[order'.reservation_id].status # "none"
  <2>1. CASE Hold
    BY <2>1, <1>c
  <2>2. CASE ~Hold
    <3>1. order'.reservation_id = order.reservation_id
      BY <2>2, <1>b, QuoteRow, ReplacementRow, RecoverRow, ExtendsRow DEF OrderStep, SameColumns
    <3>2. order.reservation_id \in Quotes /\ res[order.reservation_id].status # "none"
      BY <3>1, <1>5, <1>a DEF Linked, ReservationsLinked
    <3>. QED
      BY <3>1, <3>2, RowsStay DEF Reserved
  <2>. QED
    BY <2>1, <2>2
<1>. QED
  BY <1>1, <1>2, <1>3, <1>4, <1>5 DEF ReservationsLinked, Quotes

(* Hold, replacement, extension and recovery leave the order with a        *)
(* request of its reservation that expires with its hold, or with none.    *)
LEMMA RequestsStep == TypeOK /\ Linked /\ [Next]_vars => RequestsLinked'
<1> SUFFICES ASSUME TypeOK, Linked, [Next]_vars PROVE RequestsLinked'
  OBVIOUS
<1>a. /\ req \in [Requests -> RequestRows]
      /\ order.reservation_id \in Quotes \cup {0}
      /\ order.booking_quote_id \in Quotes \cup {0}
      /\ order.payment_request_id \in Requests \cup {0}
      /\ \A i \in Requests : i = Cardinality(MadeRequests) + 1 => req[i].state = "none"
  BY Rows, NextIds DEF TypeOK, Linked, MadeRequests, OrderRows
<1>b. order'.reservation_id # 0 => Reserved(order.reservation_id)'
  <2>1. TypeOK' /\ ReservationsLinked'
    BY NextType, ReservationsStep
  <2>. QED
    BY <2>1 DEF TypeOK, OrderRows, ReservationsLinked, Reserved, Quotes
<1>1. ASSUME NEW r \in MadeRequests'
      PROVE  Reserved(req[r].reservation)'
  <2>1. CASE r \in MadeRequests
    BY <2>1, RowsStay DEF Linked, RequestsLinked, Reserved
  <2>2. CASE r \notin MadeRequests
    <3>1. r \in Requests /\ req'[r].reservation = order'.reservation_id /\ (Hold \/ IssueReplacement)
      BY <2>2, <1>1, RequestMoves DEF RequestMove, MadeRequests
    <3>2. Hold => order'.reservation_id # 0
      BY HoldRow DEF Hold, Linked, ReservationsLinked
    <3>3. IssueReplacement => order'.reservation_id # 0
      BY ReplacementRow DEF IssueReplacement, LiveHold
    <3>. QED
      BY <3>1, <3>2, <3>3, <1>b
  <2>. QED
    BY <2>1, <2>2
<1>2. ASSUME NEW r \in Requests
      PROVE  req'[r].paid_by # 0 <=> req'[r].state = "paid"
  <2>1. req[r].paid_by # 0 <=> req[r].state = "paid"
    BY DEF Linked, RequestsLinked
  <2>2. \A w \in Workers : Record(w) => wk[w].payment # 0
    <3>1. \A w \in Workers : Record(w) => wk[w].pc # "idle"
      BY DEF Record
    <3>. QED
      BY <3>1, WorkersPayment DEF Payments
  <2>3. \A e \in Evidences : MaxPayments + e # 0
    BY BoundsAssumption DEF Evidences
  <2>. QED
    BY <2>1, <2>2, <2>3, RequestMoves DEF RequestMove, PayableStates
<1> DEFINE Current == order'.payment_request_id # 0 =>
                        /\ order'.payment_request_id \in MadeRequests'
                        /\ req'[order'.payment_request_id].reservation = order'.reservation_id
                        /\ req'[order'.payment_request_id].expires_at = order'.hold_expires_at
<1>3. Current
  <2>1. CASE Hold
    <3>1. PICK i \in Requests :
            /\ i = Cardinality(MadeRequests) + 1
            /\ req' = [req EXCEPT ![i] = NewRequest(order.booking_quote_id,
                                                    now + LessOf(InitialHold, MaximumHold))]
      BY <2>1 DEF Hold
    <3>2. /\ req'[i].state = "open" /\ req'[i].reservation = order.booking_quote_id
          /\ req'[i].expires_at = now + LessOf(InitialHold, MaximumHold)
      BY <3>1, <1>a DEF NewRequest
    <3>. QED
      BY <3>1, <3>2, <2>1, HoldRow DEF MadeRequests
  <2>2. CASE IssueReplacement
    <3>1. PICK i \in Requests :
            /\ i = Cardinality(MadeRequests) + 1
            /\ req' = [Superseded(order.payment_request_id) EXCEPT
                          ![i] = [NewRequest(order.reservation_id,
                                             res[order.reservation_id].hold_expires_at)
                                    EXCEPT !.hosted = TRUE]]
      BY <2>2 DEF IssueReplacement
    <3>2. res[order.reservation_id].hold_expires_at = order.hold_expires_at
      BY <2>2 DEF IssueReplacement, LiveHold, OrderReservation
    <3>3. /\ req'[i].state = "open" /\ req'[i].reservation = order.reservation_id
          /\ req'[i].expires_at = order.hold_expires_at
      BY <3>1, <3>2, <1>a, SupersededType DEF NewRequest
    <3>. QED
      BY <3>1, <3>3, <2>2, ReplacementRow DEF MadeRequests
  <2>3. CASE Recover
    BY <2>3, RecoverRow
  <2>4. ASSUME NEW a \in Attempts, Extends(a)
        PROVE  Current
    <3> DEFINE i == order.payment_request_id
    <3>1. order'.payment_request_id = i /\ order'.reservation_id = order.reservation_id
          /\ order'.hold_expires_at = ExtendedHold(ExtensionAsked(a))
      BY <2>4, ExtendsRow
    <3>2. req' = RequestsExtended(ExtendedHold(ExtensionAsked(a)))
      BY <2>4 DEF Extends, ExtendCheckout
    <3>3. ASSUME i # 0
          PROVE  /\ i \in MadeRequests' /\ req'[i].reservation = order.reservation_id
                 /\ req'[i].expires_at = ExtendedHold(ExtensionAsked(a))
      <4>1. i \in MadeRequests /\ i \in Requests /\ req[i].reservation = order.reservation_id
        BY <3>3, <1>a DEF Linked, RequestsLinked
      <4>2. req'[i].expires_at = ExtendedHold(ExtensionAsked(a))
        BY <3>2, <3>3, <4>1, <1>a DEF RequestsExtended, RequestRows
      <4>. QED
        BY <4>1, <4>2, RowsStay
    <3>. QED
      BY <3>1, <3>3
  <2>5. CASE /\ order'.payment_request_id = order.payment_request_id
             /\ order'.reservation_id = order.reservation_id
             /\ order'.hold_expires_at = order.hold_expires_at
    <3>1. ASSUME order.payment_request_id # 0
          PROVE  Current
      <4>1. /\ order.payment_request_id \in MadeRequests /\ order.payment_request_id \in Requests
            /\ req[order.payment_request_id].reservation = order.reservation_id
            /\ req[order.payment_request_id].expires_at = order.hold_expires_at
        BY <3>1, <1>a DEF Linked, RequestsLinked
      <4>2. req'[order.payment_request_id].expires_at = order.hold_expires_at
        BY <4>1, <2>5, RequestMoves DEF RequestMove, MadeRequests
      <4>. QED
        BY <4>1, <4>2, <2>5, RowsStay
    <3>. QED
      BY <3>1, <2>5
  <2>. QED
    BY <2>1, <2>2, <2>3, <2>4, <2>5, OrderSteps, QuoteRow DEF OrderStep, SameColumns
<1>. QED
  BY <1>1, <1>2, <1>3 DEF RequestsLinked, Requests, PayableStates

(* The other tables follow the requests, attempts and payments they name.  *)
LEMMA LinkedStep == TypeOK /\ Linked /\ [Next]_vars => Linked'
<1> SUFFICES ASSUME TypeOK, Linked, [Next]_vars PROVE Linked'
  OBVIOUS
<1>1. AttemptsLinked'
  <2>1. ASSUME NEW a \in MadeAttempts'
        PROVE  /\ att'[a].request \in MadeRequests'
               /\ att'[a].reservation = req'[att'[a].request].reservation
    <3>1. CASE a \in MadeAttempts
      <4>1. att[a].request \in MadeRequests /\ att[a].reservation = req[att[a].request].reservation
        BY <3>1 DEF Linked, AttemptsLinked, MadeAttempts
      <4>. QED
        BY <3>1, <4>1, RowsStay
    <3>2. CASE a \notin MadeAttempts
      <4>1. /\ att'[a].request \in MadeRequests
            /\ att'[a].reservation = req[att'[a].request].reservation
        BY <3>2, <2>1, AttemptMoves DEF AttemptMove, MadeAttempts
      <4>. QED
        BY <4>1, RowsStay
    <3>. QED
      BY <3>1, <3>2
  <2>2. ASSUME NEW a \in Attempts \ MadeAttempts'
        PROVE  ~att'[a].url /\ calls'[a] = 0
    <3>1. att'[a].state = "none" /\ a \in Attempts \ MadeAttempts
      BY <2>2, RowsStay DEF MadeAttempts
    <3>2. calls'[a] = calls[a] /\ att'[a] = att[a]
      BY <3>1, AttemptMoves
    <3>. QED
      BY <3>1, <3>2 DEF Linked, AttemptsLinked
  <2>. QED
    BY <2>1, <2>2 DEF AttemptsLinked, Attempts
<1>2. PaymentsLinked'
  <2>1. ASSUME NEW p \in Payments, p \in MadePayments'
        PROVE  pay'[p].attempt \in MadeAttempts' /\ pay'[p].status # "none"
    <3>1. CASE p \in MadePayments
      <4>1. pay[p].attempt \in MadeAttempts /\ pay[p].status # "none"
        BY <3>1 DEF Linked, PaymentsLinked
      <4>. QED
        BY <3>1, <4>1, RowsStay, PaymentMoves DEF PaymentMove
    <3>2. CASE p \notin MadePayments
      <4>1. pay'[p].attempt \in MadeAttempts /\ pay'[p].status # "none"
        BY <3>2, <2>1, PaymentMoves DEF PaymentMove, MadePayments
      <4>. QED
        BY <4>1, RowsStay
    <3>. QED
      BY <3>1, <3>2
  <2>2. ASSUME NEW p \in Payments, p \notin MadePayments'
        PROVE  pay'[p].status = "none" /\ pay'[p].booked = "none" /\ ~pay'[p].done
    <3>1. p \notin MadePayments /\ pay'[p].attempt = 0
      BY <2>2, RowsStay DEF MadePayments
    <3>2. pay'[p] = pay[p]
      BY <3>1, PaymentMoves DEF PaymentMove, MadeAttempts, Attempts
    <3>. QED
      BY <3>1, <3>2 DEF Linked, PaymentsLinked
  <2>. QED
    BY <2>1, <2>2 DEF PaymentsLinked, Payments
<1>3. EvidenceLinked'
  <2>1. ASSUME NEW e \in Evidences, e \in MadeEvidence'
        PROVE  /\ Reserved(ev[e].reservation)'
               /\ ev'[e].status = "approved" \/ ev'[e].review = "booked" => ev'[e].booked # "none"
    <3>1. CASE e \in MadeEvidence
      <4>1. /\ Reserved(ev[e].reservation)
            /\ ev[e].status = "approved" \/ ev[e].review = "booked" => ev[e].booked # "none"
        BY <3>1 DEF Linked, EvidenceLinked
      <4>2. Reserved(ev[e].reservation)'
        BY <3>1, <4>1, RowsStay DEF Reserved
      <4>3. ev'[e].status = "approved" \/ ev'[e].review = "booked" => ev'[e].booked # "none"
        BY <3>1, <4>1, EvidenceMoves DEF EvidenceMove, MadeEvidence
      <4>. QED
        BY <4>2, <4>3
    <3>2. CASE e \notin MadeEvidence
      <4>1. /\ ev'[e].reservation = order.reservation_id /\ order.reservation_id # 0
            /\ ev'[e].review = "idle" /\ ev'[e].status = "pending"
        BY <3>2, <2>1, EvidenceMoves DEF EvidenceMove, MadeEvidence
      <4>2. Reserved(order.reservation_id)
        BY <4>1, Rows DEF Linked, ReservationsLinked, Reserved
      <4>3. Reserved(ev[e].reservation)'
        BY <4>1, <4>2, RowsStay DEF Reserved
      <4>. QED
        BY <4>1, <4>3
    <3>. QED
      BY <3>1, <3>2
  <2>2. ASSUME NEW e \in Evidences, e \notin MadeEvidence'
        PROVE  ev'[e].booked = "none" /\ ev'[e].review = "idle"
    <3>1. e \notin MadeEvidence /\ ev'[e].status = "none"
      BY <2>2, RowsStay DEF MadeEvidence
    <3>2. ev'[e] = ev[e]
      BY <3>1, EvidenceMoves DEF EvidenceMove
    <3>. QED
      BY <3>1, <3>2 DEF Linked, EvidenceLinked
  <2>. QED
    BY <2>1, <2>2 DEF EvidenceLinked, Evidences
<1>4. WorkersLinked'
  <2>1. ASSUME NEW w \in Workers, wk'[w].pc # "idle"
        PROVE  wk'[w].payment \in MadePayments' /\ wk'[w].status # "none"
    <3>1. \A p \in MadePayments : pay[p].status # "none"
      BY DEF Linked, PaymentsLinked, MadePayments
    <3>2. wk'[w].payment \in MadePayments /\ wk'[w].status # "none"
      <4>1. WorkerMove(w)
        BY JobMoves
      <4>2. wk[w].pc # "idle" => wk[w].payment \in MadePayments /\ wk[w].status # "none"
        BY DEF Linked, WorkersLinked
      <4>. QED
        <5>1. CASE \E p \in MadePayments :
                      wk'[w] = [pc |-> "apply", payment |-> p, status |-> pay[p].status]
          BY <3>1, <5>1
        <5>2. CASE /\ wk[w].pc # "idle"
                   /\ wk'[w].payment = wk[w].payment /\ wk'[w].status = wk[w].status
          BY <4>2, <5>2
        <5>3. CASE wk'[w] = wk[w]
          BY <2>1, <4>2, <5>3
        <5>. QED
          BY <2>1, <4>1, <5>1, <5>2, <5>3 DEF WorkerMove
    <3>. QED
      BY <3>2, RowsStay
  <2>. QED
    BY <2>1 DEF WorkersLinked
<1>. QED
  BY <1>1, <1>2, <1>3, <1>4, NumberedStep, ReservationsStep, RequestsStep DEF Linked

(* Every row of every table refers to rows that exist and keeps them.      *)
THEOREM RowsLinked == Spec => [](TypeOK /\ Linked)
BY LinkedInit, LinkedStep, TypeCorrect, PTL DEF Spec
=============================================================================
