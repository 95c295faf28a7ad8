---------------------- MODULE DirectBookingMoneyProofs ----------------------
(***************************************************************************)
(* What DirectBooking keeps of holds and money for any number of quotes,   *)
(* requests, attempts, payments, uploads and workers: the hold stays       *)
(* within policy, one request can be paid, one payer takes the deposit,    *)
(* a confirmed order is paid, and what was paid is confirmed, returned or  *)
(* known to Finance.                                                       *)
(*                                                                         *)
(* Over Linked, the links between the tables, lie four facts that are      *)
(* inductive one after the other: who paid a request (Paid), what a worker *)
(* knows of its payment (Working), who took a deposit (OneTaker) and which *)
(* request can be paid (OneRequest).                                       *)
(***************************************************************************)
EXTENDS DirectBookingTablesProofs

(* Who paid a request, and what a worker knows of its payment.             *)
Paid ==
    \A r \in Requests :
        LET payer == req[r].paid_by
        IN  /\ payer \in Payments =>
                  /\ payer \in MadePayments /\ att[pay[payer].attempt].request = r
                  /\ pay[payer].booked # "none"
            /\ payer > MaxPayments =>
                  /\ EvidenceOf(payer) \in MadeEvidence
                  /\ ev[EvidenceOf(payer)].reservation = req[r].reservation

(* What the step a worker is at says of its payment.                       *)
Working ==
    \A w \in Workers :
        LET p == wk[w].payment
        IN  /\ wk[w].pc = "fail" => wk[w].status # "approved"
            /\ wk[w].pc = "mark" => pay[p].booked # "none"
            /\ wk[w].pc = "approve" => req[att[pay[p].attempt].request].paid_by = p

(* Who takes the deposit of a reservation: a tender of the front desk, a   *)
(* payment, or a transfer, numbered as in paid_by.                         *)
Takes(payer, q) ==
    \/ payer = 0 /\ res[q].tender = "deposit"
    \/ /\ payer \in MadePayments
       /\ pay[payer].booked = "applied" /\ att[pay[payer].attempt].reservation = q
    \/ \E e \in MadeEvidence :
          payer = MaxPayments + e /\ ev[e].booked = "deposit" /\ ev[e].reservation = q

(* A deposit somebody took is paid, and nobody else took it.               *)
OneTaker ==
    \A q \in Quotes :
        /\ \A payer \in Nat : Takes(payer, q) => res[q].deposit \in {"paid", "refunded"}
        /\ \A a, b \in Nat : Takes(a, q) /\ Takes(b, q) => a = b

(* The request the order holds is the one that can be paid: of its own     *)
(* reservation there is no other, and older ones have lapsed; nor have     *)
(* those two of one reservation.                                           *)
OneRequest ==
    LET current == order.payment_request_id
    IN  /\ \A r \in Requests : req[r].state \in PayableStates =>
              /\ r = current \/ req[r].expires_at <= now
              /\ current # 0 /\ req[r].reservation = order.reservation_id => r = current
        /\ \A r, s \in Requests :
              /\ req[r].state \in PayableStates /\ req[s].state \in PayableStates
              /\ req[r].reservation = req[s].reservation
              => r = s
        /\ order.state \in {"started", "quoted"} => current = 0
        /\ order.state = "expired" => current = 0 \/ order.hold_expires_at <= now
        /\ order.state \in HoldStates \cup {"finance_review", "confirmed"} => current # 0

(* The hold's columns, whatever the state of the order.                    *)
HoldColumns ==
    /\ order.hold_expires_at <= order.held_at + MaximumHold
    /\ order.hold_expires_at <= order.held_at + InitialHold
            + (IF order.hold_extended_at = 0 THEN 0 ELSE CheckoutExtension)
    /\ now > 0

-----------------------------------------------------------------------------
(* The hold's policy.                                                      *)

(* Only a hold and the one extension move the expiry forward.              *)
LEMMA HoldColumnsStep == TypeOK /\ HoldColumns /\ [Next]_vars => HoldColumns'
<1> SUFFICES ASSUME TypeOK, HoldColumns, [Next]_vars PROVE HoldColumns'
  OBVIOUS
<1>a. now \in Nat /\ order.held_at \in Nat /\ order.hold_expires_at \in Nat
  BY Rows DEF OrderRows, Instants
<1>b. now' > 0
  <2>1. now' = now \/ now' = now + 1
    BY SweepSteps DEF SweepSelect, SweepExpire
  <2>. QED
    BY <2>1, <1>a DEF HoldColumns
<1>1. CASE SameColumns
  BY <1>1, <1>b DEF SameColumns, HoldColumns
<1>2. CASE Quote
  BY <1>2, <1>b, QuoteRow DEF HoldColumns
<1>3. CASE IssueReplacement
  BY <1>3, <1>b, ReplacementRow DEF HoldColumns
<1>4. CASE Recover
  BY <1>4, <1>a, <1>b, RecoverRow, DurationsAssumption DEF HoldColumns
<1>5. CASE Hold
  BY <1>5, <1>a, <1>b, HoldRow, DurationsAssumption DEF HoldColumns, LessOf
<1>6. ASSUME NEW a \in Attempts, Extends(a)
      PROVE  HoldColumns'
  <2>1. att[a].checkout_expires_at \in Nat
    BY DEF TypeOK, AttemptRows, Instants
  <2>2. ExtensionAsked(a) > 0
    BY <1>6 DEF Extends, ExtendCheckout
  <2>3. order.hold_extended_at = 0 /\ ExtensionAsked(a) \in Nat /\ ExtensionAsked(a) <= CheckoutExtension
    BY <2>1, <2>2, <1>a, DurationsAssumption DEF ExtensionAsked, LessOf
  <2>4. order.hold_expires_at <= order.held_at + InitialHold
    BY <2>3, <1>a, DurationsAssumption DEF HoldColumns
  <2>5. order'.held_at = order.held_at /\ order'.hold_extended_at # 0
        /\ order'.hold_expires_at = ExtendedHold(ExtensionAsked(a))
    BY <1>6, ExtendsRow DEF HoldColumns
  <2>6. /\ ExtendedHold(ExtensionAsked(a)) <= order.held_at + MaximumHold
        /\ ExtendedHold(ExtensionAsked(a)) <= order.held_at + InitialHold + CheckoutExtension
    BY <2>3, <2>4, <1>a, DurationsAssumption DEF ExtendedHold, LessOf
  <2>. QED
    BY <2>5, <2>6, <1>b DEF HoldColumns
<1>. QED
  BY <1>1, <1>2, <1>3, <1>4, <1>5, <1>6, OrderSteps DEF OrderStep

(* checkout() and the extension step: whatever is retried and recovered,   *)
(* an order that waits for money holds inventory no longer than maximum_   *)
(* hold_minutes, and is extended by checkout_extension_minutes at most.    *)
THEOREM HoldKeptWithinPolicy == Spec => []HoldWithinPolicy
<1>1. Init => HoldColumns
  BY DurationsAssumption DEF Init, HoldColumns
<1>2. TypeOK /\ HoldColumns => HoldWithinPolicy
  <2>. SUFFICES ASSUME TypeOK, HoldColumns PROVE HoldWithinPolicy
    OBVIOUS
  <2>1. order.held_at \in Nat /\ order.hold_expires_at \in Nat
    BY Rows DEF OrderRows, Instants
  <2>. QED
    BY <2>1, DurationsAssumption DEF HoldColumns, HoldWithinPolicy
<1>. QED
  BY <1>1, <1>2, HoldColumnsStep, TypeCorrect, PTL DEF Spec

-----------------------------------------------------------------------------
(* Who paid a request, and what a worker knows of its payment.             *)

(* The money of a payment stays on the folio, the request it paid stays    *)
(* paid by it.                                                             *)
LEMMA MoneyStays ==
    ASSUME TypeOK, Linked, [Next]_vars
    PROVE  /\ \A p \in MadePayments : pay[p].booked # "none" => pay'[p].booked # "none"
           /\ \A r \in Requests : req[r].paid_by # 0 =>
                 req'[r].paid_by = req[r].paid_by /\ req'[r].reservation = req[r].reservation
<1>1. \A p \in MadePayments : pay[p].booked # "none" => pay'[p].booked # "none"
  BY PaymentMoves DEF PaymentMove, MadePayments
<1>2. ASSUME NEW r \in Requests, req[r].paid_by # 0
      PROVE  req'[r].paid_by = req[r].paid_by /\ req'[r].reservation = req[r].reservation
  <2>1. req[r].state = "paid"
    BY <1>2 DEF Linked, RequestsLinked
  <2>2. RequestMove(r)
    BY RequestMoves
  <2>. QED
    BY <2>1, <2>2 DEF RequestMove, PayableStates
<1>. QED
  BY <1>1, <1>2

(* The worker that makes a request paid puts its payment on the folio.     *)
LEMMA RecordPays ==
    ASSUME TypeOK, Linked, NEW w \in Workers, Record(w), wk'[w].pc = "approve"
    PROVE  /\ req'[att'[pay'[wk[w].payment].attempt].request].paid_by = wk[w].payment
           /\ req' # req => pay'[wk[w].payment].booked # "none"
<1> DEFINE p == wk[w].payment
           r == att[pay[p].attempt].request
<1>1. /\ p \in Payments /\ r \in Requests /\ pay \in [Payments -> PaymentRows]
      /\ req \in [Requests -> RequestRows] /\ wk \in [Workers -> WorkerStates]
  BY WorkersPayment DEF Record, MadeRequests, TypeOK
<1>2. CASE req[r].paid_by = p /\ UNCHANGED <<pay, req, res, att>>
  BY <1>2
<1>3. CASE /\ req' = [req EXCEPT ![r].state = "paid", ![r].paid_by = p] /\ att' = att
           /\ \/ pay[p].booked = "none" /\ pay' = [pay EXCEPT ![p].booked = "applied"]
              \/ pay[p].booked # "none" /\ pay' = pay
  <2> HIDE DEF p, r
  <2>1. pay'[p].attempt = pay[p].attempt /\ pay'[p].booked # "none"
    BY <1>1, <1>3 DEF PaymentRows
  <2>2. req'[r].paid_by = p
    BY <1>1, <1>3 DEF RequestRows
  <2>. QED
    BY <2>1, <2>2, <1>3 DEF p, r
<1>4. CASE Finish(w) \/ wk' = [wk EXCEPT ![w].pc = "book_review"]
  BY <1>1, <1>4 DEF Finish, Idle, WorkerStates
<1>. QED
  BY <1>2, <1>3, <1>4 DEF Record

(* A payer is recorded by recordProvider() or by the review of evidence.   *)
LEMMA PaidStep == TypeOK /\ Linked /\ Paid /\ [Next]_vars => Paid'
<1> SUFFICES ASSUME TypeOK, Linked, Paid, [Next]_vars, NEW r \in Requests
             PROVE  /\ req'[r].paid_by \in Payments =>
                          /\ req'[r].paid_by \in MadePayments'
                          /\ att'[pay'[req'[r].paid_by].attempt].request = r
                          /\ pay'[req'[r].paid_by].booked # "none"
                    /\ req'[r].paid_by > MaxPayments =>
                          /\ EvidenceOf(req'[r].paid_by) \in MadeEvidence'
                          /\ ev'[EvidenceOf(req'[r].paid_by)].reservation = req'[r].reservation
  BY DEF Paid, Payments, Requests, EvidenceOf
<1>a. MaxPayments \in Nat
  BY BoundsAssumption
<1>b. \A p \in MadePayments : pay[p].attempt \in MadeAttempts
  BY DEF Linked, PaymentsLinked, MadePayments
<1>1. CASE req[r].paid_by # 0
  <2>1. req'[r].paid_by = req[r].paid_by /\ req'[r].reservation = req[r].reservation
    BY <1>1, MoneyStays
  <2> DEFINE payer == req[r].paid_by
  <2>2. ASSUME payer \in Payments
        PROVE  /\ payer \in MadePayments' /\ att'[pay'[payer].attempt].request = r
               /\ pay'[payer].booked # "none"
    <3>1. payer \in MadePayments /\ att[pay[payer].attempt].request = r /\ pay[payer].booked # "none"
      BY <2>2 DEF Paid
    <3>. QED
      BY <3>1, <1>b, MoneyStays, RowsStay
  <2>3. ASSUME payer > MaxPayments
        PROVE  /\ EvidenceOf(payer) \in MadeEvidence'
               /\ ev'[EvidenceOf(payer)].reservation = req[r].reservation
    <3>1. EvidenceOf(payer) \in MadeEvidence /\ ev[EvidenceOf(payer)].reservation = req[r].reservation
      BY <2>3 DEF Paid
    <3>. QED
      BY <3>1, RowsStay
  <2>. QED
    BY <2>1, <2>2, <2>3
<1>2. CASE req[r].paid_by = 0 /\ req'[r].paid_by # 0
  <2>1. \/ \E w \in Workers : /\ Record(w) /\ r = att[pay[wk[w].payment].attempt].request
                              /\ req'[r].paid_by = wk[w].payment
        \/ /\ r = order.payment_request_id /\ req'[r].reservation = req[r].reservation
           /\ \E e \in Evidences :
                 ConfirmEvidence(e) /\ OrderOfEvidence(e) /\ req'[r].paid_by = MaxPayments + e
    BY <1>2, RequestMoves DEF RequestMove
  <2>2. ASSUME NEW w \in Workers, Record(w), r = att[pay[wk[w].payment].attempt].request,
               req'[r].paid_by = wk[w].payment
        PROVE  /\ wk[w].payment \in MadePayments' /\ att'[pay'[wk[w].payment].attempt].request = r
               /\ pay'[wk[w].payment].booked # "none" /\ ~(wk[w].payment > MaxPayments)
    <3>0. wk[w].pc # "idle"
      BY <2>2 DEF Record
    <3>1. wk[w].payment \in MadePayments /\ wk[w].payment \in Payments
      BY <3>0, WorkersPayment DEF MadePayments
    <3>2. req' # req
      BY <1>2
    <3>3. wk'[w].pc = "approve"
      <4>1. wk' = [wk EXCEPT ![w].pc = "approve"]
        BY <2>2, <3>2 DEF Record
      <4>. QED
        BY <4>1 DEF TypeOK, WorkerStates
    <3>4. pay'[wk[w].payment].booked # "none"
      BY <2>2, <3>2, <3>3, RecordPays
    <3>. QED
      BY <3>1, <3>4, <2>2, <1>a, <1>b, RowsStay DEF Payments
  <2>3. ASSUME NEW e \in Evidences, ConfirmEvidence(e), OrderOfEvidence(e), r = order.payment_request_id,
               req'[r].paid_by = MaxPayments + e, req'[r].reservation = req[r].reservation
        PROVE  /\ EvidenceOf(MaxPayments + e) \in MadeEvidence'
               /\ ev'[EvidenceOf(MaxPayments + e)].reservation = req'[r].reservation
               /\ MaxPayments + e \notin Payments
    <3>1. EvidenceOf(MaxPayments + e) = e /\ MaxPayments + e \notin Payments
      BY <1>a DEF EvidenceOf, Evidences, Payments
    <3>2. e \in MadeEvidence /\ ev[e].reservation = order.reservation_id
      BY <2>3 DEF ConfirmEvidence, OrderOfEvidence, Linked, EvidenceLinked
    <3>3. req[r].reservation = order.reservation_id
      BY <2>3 DEF Linked, RequestsLinked, Requests
    <3>. QED
      BY <3>1, <3>2, <3>3, <2>3, RowsStay
  <2>. QED
    BY <2>1, <2>2, <2>3
<1>3. CASE req'[r].paid_by = 0
  BY <1>3, <1>a DEF Payments
<1>. QED
  BY <1>1, <1>2, <1>3

(* A step of another worker takes nothing of it back.                      *)
LEMMA WorkingStep == TypeOK /\ Linked /\ Working /\ [Next]_vars => Working'
<1> SUFFICES ASSUME TypeOK, Linked, Working, [Next]_vars, NEW w \in Workers
             PROVE  /\ wk'[w].pc = "fail" => wk'[w].status # "approved"
                    /\ wk'[w].pc = "mark" => pay'[wk'[w].payment].booked # "none"
                    /\ wk'[w].pc = "approve" =>
                          req'[att'[pay'[wk'[w].payment].attempt].request].paid_by = wk'[w].payment
  BY DEF Working
<1>1. CASE wk'[w] = wk[w] /\ wk[w].pc # "idle"
  <2> DEFINE p == wk[w].payment
  <2>1. /\ p \in MadePayments /\ p # 0 /\ pay[p].attempt \in MadeAttempts
        /\ att[pay[p].attempt].request \in Requests
    BY <1>1, WorkersPayment DEF MadePayments, Payments, MadeAttempts, MadeRequests
  <2>2. /\ pay'[p].attempt = pay[p].attempt
        /\ att'[pay[p].attempt].request = att[pay[p].attempt].request
    BY <2>1, RowsStay
  <2>3. wk[w].pc = "mark" => pay'[p].booked # "none"
    BY <2>1, MoneyStays DEF Working
  <2>4. wk[w].pc = "approve" => req'[att[pay[p].attempt].request].paid_by = p
    BY <2>1, MoneyStays DEF Working
  <2>5. wk[w].pc = "fail" => wk[w].status # "approved"
    BY DEF Working
  <2>. QED
    BY <1>1, <2>2, <2>3, <2>4, <2>5
<1>2. CASE wk'[w].pc = "mark" /\ BookReview(w) /\ wk'[w].payment = wk[w].payment
  <2>1. wk[w].payment \in Payments
    BY <1>2, WorkersPayment DEF BookReview
  <2>2. pay'[wk[w].payment].booked # "none"
    BY <1>2, <2>1 DEF BookReview, TypeOK, PaymentRows
  <2>. QED
    BY <1>2, <2>2
<1>3. CASE wk'[w].pc = "approve" /\ Record(w) /\ wk'[w].payment = wk[w].payment
  BY <1>3, RecordPays
<1>4. CASE wk'[w].pc \in {"idle", "apply", "record", "book_review"}
  BY <1>4
<1>5. CASE wk'[w].pc = "fail" /\ wk'[w].status = wk[w].status /\ wk[w].status # "approved"
  BY <1>5
<1>6. (\E p \in MadePayments : wk'[w] = [pc |-> "apply", payment |-> p, status |-> pay[p].status])
      => wk'[w].pc = "apply"
  OBVIOUS
<1>7. WorkerMove(w)
  BY JobMoves
<1>8. wk'[w] = wk[w] => wk[w].pc # "idle" \/ wk'[w].pc = "idle"
  OBVIOUS
<1>. QED
  BY <1>1, <1>2, <1>3, <1>4, <1>5, <1>6, <1>7, <1>8 DEF WorkerMove

-----------------------------------------------------------------------------
(* One payer takes a deposit.                                              *)

(* A step adds at most one payer to a reservation, and only while its      *)
(* deposit is due.                                                         *)
LEMMA OneMoreTaker ==
    ASSUME TypeOK, Linked, [Next]_vars, NEW q \in Quotes
    PROVE  \/ \A payer \in Nat : Takes(payer, q)' => Takes(payer, q)
           \/ /\ res[q].deposit = "due" /\ res'[q].deposit = "paid"
              /\ \E t \in Nat : \A payer \in Nat : Takes(payer, q)' => payer = t \/ Takes(payer, q)
<1> DEFINE Goal == \/ \A payer \in Nat : Takes(payer, q)' => Takes(payer, q)
                   \/ /\ res[q].deposit = "due" /\ res'[q].deposit = "paid"
                      /\ \E t \in Nat : \A payer \in Nat : Takes(payer, q)' => payer = t \/ Takes(payer, q)
<1>a. /\ pay \in [Payments -> PaymentRows] /\ ev \in [Evidences -> EvidenceRows]
      /\ res \in [Quotes -> ReservationRows] /\ MaxPayments \in Nat
  BY BoundsAssumption DEF TypeOK
(* Payments that are applied were, unless this step records one.           *)
<1>b. ASSUME NEW p \in MadePayments', pay'[p].booked = "applied", att'[pay'[p].attempt].reservation = q
      PROVE  \/ Takes(p, q)
             \/ \E w \in Workers : /\ Record(w) /\ wk[w].payment = p /\ pay[p].booked = "none"
                                   /\ att[pay[p].attempt].reservation = q
  <2>1. p \in Payments /\ PaymentMove(p)
    BY PaymentMoves DEF MadePayments
  <2>2. p \in MadePayments
    <3>1. pay[p].attempt = 0 => pay[p].booked = "none"
      BY <2>1 DEF Linked, PaymentsLinked, MadePayments
    <3>2. pay[p].attempt # 0
      BY <2>1, <3>1, <1>b DEF PaymentMove, MadePayments
    <3>. QED
      BY <2>1, <3>2 DEF MadePayments
  <2>3. pay[p].attempt \in MadeAttempts /\ att[pay[p].attempt].reservation = q
    BY <1>b, <2>1, <2>2, RowsStay DEF Linked, PaymentsLinked
  <2>. QED
    BY <1>b, <2>1, <2>2, <2>3 DEF PaymentMove, Takes
<1>c. ASSUME NEW e \in MadeEvidence', ev'[e].booked = "deposit", ev'[e].reservation = q
      PROVE  Takes(MaxPayments + e, q) \/ (BookEvidence(e) /\ ev[e].reservation = q /\ ev[e].status # "none")
  <2>1. e \in Evidences /\ EvidenceMove(e)
    BY EvidenceMoves DEF MadeEvidence
  <2>. QED
    BY <1>c, <2>1 DEF EvidenceMove, Takes, MadeEvidence
<1>d. res'[q].tender = "deposit" =>
        res[q].tender = "deposit" \/ (StaffTender(q) /\ res[q].deposit = "due" /\ res'[q].deposit = "paid")
  <2>1. ReservationMove(q)
    BY ReservationMoves
  <2>2. res[q].status = "none" => res[q].tender = "none"
    BY DEF Linked, ReservationsLinked
  <2>. QED
    BY <2>1, <2>2 DEF ReservationMove
<1>1. ASSUME NEW w \in Workers, Record(w), pay[wk[w].payment].booked = "none",
             att[pay[wk[w].payment].attempt].reservation = q, pay'[wk[w].payment].booked = "applied"
      PROVE  Goal
  <2> DEFINE p == wk[w].payment
             r == att[pay[p].attempt].request
  <2>1. p \in Payments /\ p \in MadePayments /\ req[r].reservation = q
    BY <1>1, WorkersPayment DEF Record, MadePayments
  <2>2. /\ pay' = [pay EXCEPT ![p].booked = "applied"] /\ res[q].deposit = "due"
        /\ res' = [res EXCEPT ![q].deposit = "paid"] /\ ev' = ev /\ att' = att
    <3>1. pay' # pay
      BY <1>1
    <3>2. ~Finish(w)
      BY <1>1, <2>1, <1>a DEF Finish, PaymentRows
    <3>. QED
      BY <1>1, <2>1, <3>1, <3>2 DEF Record, Applicable
  <2> HIDE DEF p, r
  <2>3. res'[q].tender = res[q].tender /\ res'[q].deposit = "paid"
    BY <2>2, <1>a DEF ReservationRows
  <2>4. \A o \in Payments : o # p => pay'[o] = pay[o]
    BY <2>2, <1>a
  <2>5. ASSUME NEW payer \in Nat, Takes(payer, q)'
        PROVE  payer = p \/ Takes(payer, q)
    BY <2>2, <2>3, <2>4, <2>5 DEF Takes, MadePayments, MadeEvidence
  <2>6. p \in Nat
    BY <2>1 DEF Payments
  <2>. QED
    BY <2>2, <2>3, <2>5, <2>6
<1>2. ASSUME NEW e \in Evidences, BookEvidence(e), ev[e].reservation = q
      PROVE  Goal
  <2>1. att' = att /\ pay' = pay
    BY <1>2 DEF BookEvidence
  <2>2. ev[e].status # "none"
    BY <1>2 DEF BookEvidence
  <2>3. \/ res' = res /\ ev'[e].booked = "plain"
        \/ res[q].deposit = "due" /\ res' = [res EXCEPT ![q].deposit = "paid"]
        \/ res' = res /\ ev'[e].booked = ev[e].booked /\ ev'[e].reservation = ev[e].reservation
    BY <1>2, <1>a DEF BookEvidence, EvidenceRows
  <2>4. \A d \in Evidences : d # e => ev'[d] = ev[d]
    BY <1>2, <1>a DEF BookEvidence
  <2>5. res'[q].tender = res[q].tender
    BY <2>3, <1>a DEF ReservationRows
  <2>6. ASSUME NEW payer \in Nat, Takes(payer, q)', payer # MaxPayments + e
        PROVE  Takes(payer, q)
    BY <2>1, <2>4, <2>5, <2>6 DEF Takes, MadePayments, MadeEvidence
  <2>7. CASE res' = res /\ ev'[e].booked = "plain"
    <3>1. ~Takes(MaxPayments + e, q)'
      BY <2>7, <1>a DEF Takes, MadeEvidence, MadePayments, Evidences, Payments
    <3>. QED
      BY <2>6, <3>1
  <2>8. CASE res[q].deposit = "due" /\ res' = [res EXCEPT ![q].deposit = "paid"]
    <3>1. res'[q].deposit = "paid" /\ MaxPayments + e \in Nat
      BY <2>8, <1>a DEF ReservationRows, Evidences
    <3>. QED
      BY <2>6, <2>8, <3>1
  <2>9. CASE res' = res /\ ev'[e].booked = ev[e].booked /\ ev'[e].reservation = ev[e].reservation
    <3>1. \A payer \in Nat : Takes(payer, q)' => Takes(payer, q)
      BY <2>1, <2>2, <2>4, <2>9 DEF Takes, MadePayments, MadeEvidence
    <3>. QED
      BY <3>1
  <2>. QED
    BY <2>3, <2>7, <2>8, <2>9
<1>3. CASE StaffTender(q) /\ res[q].deposit = "due" /\ res'[q].deposit = "paid"
  <2>1. pay' = pay /\ ev' = ev /\ att' = att
    BY <1>3 DEF StaffTender
  <2>2. \A payer \in Nat : Takes(payer, q)' => payer = 0 \/ Takes(payer, q)
    BY <2>1 DEF Takes, MadePayments, MadeEvidence
  <2>. QED
    BY <1>3, <2>2
<1>4. CASE Goal
  BY <1>4
<1>5. CASE ~Goal
  <2>1. ASSUME NEW payer \in Nat, Takes(payer, q)'
        PROVE  Takes(payer, q)
    <3>1. CASE payer = 0 /\ res'[q].tender = "deposit"
      BY <3>1, <1>d, <1>3, <1>5 DEF Takes
    <3>2. CASE /\ payer \in MadePayments'
               /\ pay'[payer].booked = "applied" /\ att'[pay'[payer].attempt].reservation = q
      BY <3>2, <1>b, <1>1, <1>5
    <3>3. ASSUME NEW e \in MadeEvidence', payer = MaxPayments + e,
                 ev'[e].booked = "deposit", ev'[e].reservation = q
          PROVE  Takes(payer, q)
      <4>1. e \in Evidences
        BY <3>3 DEF MadeEvidence
      <4>. QED
        BY <3>3, <4>1, <1>c, <1>2, <1>5
    <3>. QED
      BY <2>1, <3>1, <3>2, <3>3 DEF Takes
  <2>. QED
    BY <2>1
<1>. QED
  BY <1>4, <1>5

(* Who comes second finds the deposit no longer due.                       *)
LEMMA OneTakerStep == TypeOK /\ Linked /\ OneTaker /\ [Next]_vars => OneTaker'
<1> SUFFICES ASSUME TypeOK, Linked, OneTaker, [Next]_vars, NEW q \in Quotes
             PROVE  /\ \A payer \in Nat : Takes(payer, q)' => res'[q].deposit \in {"paid", "refunded"}
                    /\ \A a, b \in Nat : Takes(a, q)' /\ Takes(b, q)' => a = b
  BY DEF OneTaker, Quotes
<1>1. /\ \A payer \in Nat : Takes(payer, q) => res[q].deposit \in {"paid", "refunded"}
      /\ \A a, b \in Nat : Takes(a, q) /\ Takes(b, q) => a = b
  BY DEF OneTaker
<1>2. CASE \A payer \in Nat : Takes(payer, q)' => Takes(payer, q)
  <2>1. ReservationMove(q)
    BY ReservationMoves
  <2>2. res[q].status = "none" => res[q].deposit = "none"
    BY DEF Linked, ReservationsLinked
  <2>3. res[q].deposit \in {"paid", "refunded"} => res'[q].deposit \in {"paid", "refunded"}
    BY <2>1, <2>2 DEF ReservationMove
  <2>. QED
    BY <1>1, <1>2, <2>3
<1>3. CASE /\ res[q].deposit = "due" /\ res'[q].deposit = "paid"
           /\ \E t \in Nat : \A payer \in Nat : Takes(payer, q)' => payer = t \/ Takes(payer, q)
  <2>1. \A payer \in Nat : ~Takes(payer, q)
    BY <1>1, <1>3
  <2>. QED
    BY <1>3, <2>1
<1>. QED
  BY <1>2, <1>3, OneMoreTaker

-----------------------------------------------------------------------------
(* The request that can be paid is the one the order holds.                *)

(* The clock does not go back.                                             *)
LEMMA TimePasses == TypeOK /\ [Next]_vars => now \in Nat /\ now' \in Nat /\ now' >= now
<1> SUFFICES ASSUME TypeOK, [Next]_vars PROVE now \in Nat /\ now' \in Nat /\ now' >= now
  OBVIOUS
<1>1. now \in Nat
  BY Rows
<1>2. now' = now \/ now' = now + 1
  BY SweepSteps DEF SweepSelect, SweepExpire
<1>. QED
  BY <1>1, <1>2

(* A request that is payable after a step was payable before, or is new.   *)
LEMMA StaysPayable ==
    ASSUME TypeOK, Linked, [Next]_vars, NEW r \in Requests, req'[r].state \in PayableStates
    PROVE  \/ /\ r = order'.payment_request_id /\ (Hold \/ IssueReplacement)
              /\ req'[r].reservation = order'.reservation_id
           \/ /\ req[r].state \in PayableStates /\ req'[r].reservation = req[r].reservation
              /\ \/ req'[r].expires_at = req[r].expires_at
                 \/ r = order.payment_request_id /\ \E a \in Attempts : Extends(a)
BY RequestMoves DEF RequestMove, PayableStates

(* The reservation a hold commits is about none of the older rows.         *)
LEMMA HoldIsFresh ==
    ASSUME TypeOK, Linked, Hold
    PROVE  /\ order.payment_request_id = 0 /\ order'.reservation_id # 0
           /\ order'.reservation_id \in Quotes /\ ~Reserved(order'.reservation_id)
<1>1. order.state = "quoted" /\ order.payment_request_id = 0
  BY DEF Hold
<1>2. /\ order.booking_quote_id # 0 /\ res[order.booking_quote_id].status = "none"
      /\ order.booking_quote_id \in Quotes
  BY <1>1, Rows DEF Linked, ReservationsLinked
<1>. QED
  BY <1>1, <1>2, HoldRow DEF Reserved

(* A replaced request can no longer be paid.                               *)
LEMMA OldRequestClosed ==
    ASSUME TypeOK, Linked, IssueReplacement
    PROVE  /\ order.payment_request_id \in Requests
           /\ req'[order.payment_request_id].state = "superseded"
<1> DEFINE old == order.payment_request_id
<1>1. /\ req \in [Requests -> RequestRows] /\ old \in Requests /\ req[old].state # "none"
  BY Rows DEF TypeOK, IssueReplacement, Linked, RequestsLinked, MadeRequests, OrderRows
<1>2. PICK i \in Requests : /\ i = Cardinality(MadeRequests) + 1
                            /\ \E new : req' = [Superseded(old) EXCEPT ![i] = new]
  BY DEF IssueReplacement
<1>3. i # old
  BY <1>1, <1>2, NextIds DEF Linked, MadeRequests
<1>4. Superseded(old) \in [Requests -> RequestRows] /\ Superseded(old)[old].state = "superseded"
  BY <1>1, SupersededType DEF Superseded, RequestRows
<1>. QED
  BY <1>1, <1>2, <1>3, <1>4

(* A new request comes with a fresh reservation or in the place of the one *)
(* it supersedes; recovery drops one that has lapsed.                      *)
LEMMA OneRequestStep ==
    TypeOK /\ SweepInv /\ Linked /\ OneRequest /\ [Next]_vars => OneRequest'
<1> SUFFICES ASSUME TypeOK, SweepInv, Linked, OneRequest, [Next]_vars PROVE OneRequest'
  OBVIOUS
<1> DEFINE current == order.payment_request_id
<1>a. /\ now \in Nat /\ now' \in Nat /\ now' >= now /\ order.hold_expires_at \in Nat
      /\ \A r \in Requests : req[r].expires_at \in Nat
      /\ current \in Requests \cup {0}
  BY TimePasses, Rows DEF TypeOK, OrderRows, RequestRows, Instants
<1>b. /\ \A r \in Requests : req[r].state \in PayableStates =>
            /\ r = current \/ req[r].expires_at <= now
            /\ current # 0 /\ req[r].reservation = order.reservation_id => r = current
      /\ order.state \in {"started", "quoted"} => current = 0
      /\ order.state = "expired" => current = 0 \/ order.hold_expires_at <= now
      /\ order.state \in HoldStates \cup {"finance_review", "confirmed"} => current # 0
  BY DEF OneRequest
<1>c. /\ Quote => order.state = "started" /\ current = 0 /\ order'.state = "quoted"
                  /\ order'.payment_request_id = 0
      /\ Hold => order'.payment_request_id \in Requests /\ order'.state = "held"
                 /\ ~Reserved(order'.reservation_id) /\ current = 0
      /\ IssueReplacement => order'.payment_request_id \in Requests /\ order'.state = "payment_pending"
                             /\ order'.reservation_id = order.reservation_id /\ current # 0
      /\ Recover => order.state = "expired" /\ order'.state = "started" /\ order'.payment_request_id = 0
      /\ \A a \in Attempts : Extends(a) =>
            /\ order.state = "payment_pending" /\ order'.state = "payment_pending"
            /\ order'.payment_request_id = current /\ order'.reservation_id = order.reservation_id
  <2>1. Quote => order.state = "started" /\ current = 0 /\ order'.state = "quoted"
                 /\ order'.payment_request_id = 0
    BY <1>b, QuoteRow DEF Quote
  <2>2. Hold => order'.payment_request_id \in Requests /\ order'.state = "held"
                /\ ~Reserved(order'.reservation_id) /\ current = 0
    BY HoldIsFresh, HoldRow
  <2>3. IssueReplacement => order'.payment_request_id \in Requests /\ order'.state = "payment_pending"
                            /\ order'.reservation_id = order.reservation_id /\ current # 0
    BY ReplacementRow DEF IssueReplacement
  <2>4. Recover => order.state = "expired" /\ order'.state = "started" /\ order'.payment_request_id = 0
    BY RecoverRow DEF Recover
  <2>5. \A a \in Attempts : Extends(a) =>
            /\ order.state = "payment_pending" /\ order'.state = "payment_pending"
            /\ order'.payment_request_id = current /\ order'.reservation_id = order.reservation_id
    BY ExtendsRow DEF Extends
  <2>. QED
    BY <2>1, <2>2, <2>3, <2>4, <2>5
<1>d. OrderStep
  BY OrderSteps
<1>e. 0 \notin Requests
  BY DEF Requests
<1>1. ASSUME NEW r \in Requests, req'[r].state \in PayableStates
      PROVE  /\ r = order'.payment_request_id \/ req'[r].expires_at <= now'
             /\ order'.payment_request_id # 0 /\ req'[r].reservation = order'.reservation_id
                  => r = order'.payment_request_id
  <2>1. CASE r = order'.payment_request_id
    BY <2>1
  <2>2. CASE r # order'.payment_request_id
    <3>1. /\ req[r].state \in PayableStates /\ req'[r].reservation = req[r].reservation
          /\ \/ req'[r].expires_at = req[r].expires_at
             \/ r = current /\ \E a \in Attempts : Extends(a)
      BY <1>1, <2>2, StaysPayable
    <3>2. Reserved(req[r].reservation)
      BY <3>1 DEF Linked, RequestsLinked, MadeRequests, PayableStates
    <3>3. CASE r = current
      <4>1. ~(\E a \in Attempts : Extends(a)) /\ ~SameColumns /\ ~Quote /\ ~Hold
        BY <2>2, <3>3, <1>c, <1>e DEF SameColumns
      <4>2. ~IssueReplacement
        BY <3>3, <1>1, OldRequestClosed DEF PayableStates
      <4>3. Recover
        BY <4>1, <4>2, <1>d DEF OrderStep
      <4>4. req[r].expires_at = order.hold_expires_at /\ current # 0
        BY <3>3, <1>e DEF Linked, RequestsLinked
      <4>5. order.hold_expires_at <= now
        BY <4>3, <4>4, <1>b, <1>c
      <4>. QED
        BY <3>1, <4>1, <4>3, <4>4, <4>5, <1>a, <1>c
    <3>4. CASE r # current
      <4>1. req'[r].expires_at = req[r].expires_at /\ req[r].expires_at <= now
        BY <3>1, <3>4, <1>b
      <4>2. ~(current # 0 /\ req[r].reservation = order.reservation_id)
        BY <3>1, <3>4, <1>b
      <4>3. ~(order'.payment_request_id # 0 /\ req[r].reservation = order'.reservation_id)
        BY <3>2, <4>2, <1>c, <1>d DEF OrderStep, SameColumns
      <4>. QED
        BY <3>1, <4>1, <4>3, <1>a
    <3>. QED
      BY <3>3, <3>4
  <2>. QED
    BY <2>1, <2>2
<1>2. order'.state \in {"started", "quoted"} => order'.payment_request_id = 0
  BY <1>b, <1>c, <1>d DEF OrderStep, SameColumns, Waiting, HoldStates
<1>3. ASSUME order'.state = "expired"
      PROVE  order'.payment_request_id = 0 \/ order'.hold_expires_at <= now'
  <2>1. SameColumns
    BY <1>3, <1>c, <1>d DEF OrderStep
  <2>2. CASE order.state = "expired"
    BY <2>1, <2>2, <1>a, <1>b DEF SameColumns
  <2>3. CASE order.state # "expired"
    <3>1. Due(order)
      BY <1>3, <2>3, ExpiresWhenDue
    <3>2. current = 0 \/ order.hold_expires_at <= now
      BY <3>1, <1>b DEF Due
    <3>. QED
      BY <2>1, <3>2, <1>a DEF SameColumns
  <2>. QED
    BY <2>2, <2>3
<1>4. order'.state \in HoldStates \cup {"finance_review", "confirmed"} => order'.payment_request_id # 0
  BY <1>b, <1>c, <1>d, <1>e DEF OrderStep, SameColumns, Waiting, HoldStates
<1>5. ASSUME NEW r \in Requests, NEW s \in Requests, r # s,
             req'[r].state \in PayableStates, req'[s].state \in PayableStates,
             req'[r].reservation = req'[s].reservation
      PROVE  FALSE
  <2> DEFINE New(i) == /\ i = order'.payment_request_id /\ (Hold \/ IssueReplacement)
                       /\ req'[i].reservation = order'.reservation_id
             Old(i) == /\ req[i].state \in PayableStates
                       /\ req'[i].reservation = req[i].reservation
  <2>1. \A i \in {r, s} : New(i) \/ Old(i)
    BY <1>5, StaysPayable
  <2>2. ~(Old(r) /\ Old(s))
    BY <1>5 DEF OneRequest
  <2>3. ~(New(r) /\ New(s))
    BY <1>5
  <2>4. ASSUME NEW i \in {r, s}, NEW j \in {r, s}, New(i), Old(j)
        PROVE  FALSE
    <3>1. j \in Requests /\ req[j].state \in PayableStates /\ req'[j].state \in PayableStates
          /\ req[j].reservation = order'.reservation_id
      BY <1>5, <2>4
    <3>2. Reserved(req[j].reservation)
      BY <3>1 DEF Linked, RequestsLinked, MadeRequests, PayableStates
    <3>3. IssueReplacement
      BY <2>4, <3>1, <3>2, <1>c
    <3>4. j = current
      BY <3>1, <3>3, <1>b, <1>c
    <3>. QED
      BY <3>1, <3>3, <3>4, OldRequestClosed DEF PayableStates
  <2>. QED
    BY <2>1, <2>2, <2>3, <2>4
<1>. QED
  BY <1>1, <1>2, <1>3, <1>4, <1>5 DEF OneRequest, Requests, PayableStates, HoldStates

-----------------------------------------------------------------------------
(* The invariant, and what follows from it alone.                          *)

(* All of it.                                                              *)
MoneyInv == Linked /\ Paid /\ Working /\ OneTaker /\ OneRequest

(* Nothing was paid at first.                                              *)
LEMMA MoneyInit == Init => MoneyInv
<1> SUFFICES ASSUME Init PROVE MoneyInv
  OBVIOUS
<1>1. Paid
  BY BoundsAssumption DEF Init, Paid, Payments
<1>2. Working
  BY DEF Init, Working
<1>3. OneTaker
  BY DEF Init, OneTaker, Takes, MadePayments, MadeEvidence
<1>4. OneRequest
  BY DEF Init, OneRequest, PayableStates, HoldStates
<1>. QED
  BY <1>1, <1>2, <1>3, <1>4, LinkedInit DEF MoneyInv

(* Every row refers to rows that exist, a request is paid by money on the  *)
(* folio, a deposit has one payer and the order one request to pay.        *)
THEOREM MoneyInvariant == Spec => [](TypeOK /\ MoneyInv)
<1>1. TypeOK /\ SweepInv /\ MoneyInv /\ [Next]_vars => MoneyInv'
  BY LinkedStep, PaidStep, WorkingStep, OneTakerStep, OneRequestStep DEF MoneyInv
<1>. QED
  BY <1>1, MoneyInit, SweepInvariant, PTL DEF Spec

(* checkout() moves three expiries together: while its hold is honoured,   *)
(* the order's request can be paid exactly as long as the hold runs.       *)
THEOREM ExpiriesMoveTogether == Spec => []ExpiriesAgree
<1>1. MoneyInv => ExpiriesAgree
  BY DEF MoneyInv, Linked, RequestsLinked, ExpiriesAgree, LiveHold
<1>. QED
  BY <1>1, MoneyInvariant, PTL

(* A set whose elements are all the same one has no more than one.         *)
LEMMA AtMostOne ==
    ASSUME NEW S, \A a, b \in S : a = b
    PROVE  IsFiniteSet(S) /\ Cardinality(S) \in 0..1 /\ (S # {} => Cardinality(S) = 1)
<1>1. CASE S = {}
  BY <1>1, FS_EmptySet
<1>2. CASE S # {}
  <2>1. PICK x \in S : TRUE
    BY <1>2
  <2>2. S = {x}
    BY <2>1
  <2>. QED
    BY <1>2, <2>2, FS_Singleton
<1>. QED
  BY <1>1, <1>2

(* "Only one active app-owned payment request/checkout may compete": a     *)
(* reservation never has two requests that can be paid, and an earlier     *)
(* reservation's can be paid beside the current one at its last instant    *)
(* only, however often the guest retries and recovers.                     *)
THEOREM OneOpenRequest == Spec => []SingleOpenRequest
<1>1. TypeOK /\ MoneyInv => SingleOpenRequest
  <2> SUFFICES ASSUME TypeOK, MoneyInv, NEW r \in CanBePaid, NEW s \in CanBePaid, r # s
               PROVE  /\ req[r].reservation # req[s].reservation
                      /\ req[r].expires_at = now \/ req[s].expires_at = now
    BY DEF SingleOpenRequest
  <2>1. /\ r \in Requests /\ req[r].state \in PayableStates /\ req[r].expires_at >= now
        /\ s \in Requests /\ req[s].state \in PayableStates /\ req[s].expires_at >= now
    BY DEF CanBePaid, MadeRequests
  <2>2. req[r].reservation # req[s].reservation
    BY <2>1 DEF MoneyInv, OneRequest
  <2>3. req[r].expires_at <= now \/ req[s].expires_at <= now
    BY <2>1 DEF MoneyInv, OneRequest
  <2>4. now \in Nat /\ req[r].expires_at \in Nat /\ req[s].expires_at \in Nat
    BY <2>1, Rows DEF TypeOK, RequestRows, Instants
  <2>. QED
    BY <2>1, <2>2, <2>3, <2>4
<1>. QED
  BY <1>1, MoneyInvariant, PTL

(* recordProvider(), front desk, evidence: however many workers, retries   *)
(* and late attempts there are, one payer takes a reservation's deposit.   *)
THEOREM DepositHasOnePayer == Spec => []DepositTakenOnce
<1>1. TypeOK /\ MoneyInv => DepositTakenOnce
  <2> SUFFICES ASSUME TypeOK, MoneyInv, NEW q \in Quotes
               PROVE  Cardinality({p \in MadePayments : pay[p].booked = "applied"
                                                        /\ att[pay[p].attempt].reservation = q})
                      + Cardinality({e \in MadeEvidence : ev[e].booked = "deposit" /\ ev[e].reservation = q})
                      + (IF res[q].tender = "deposit" THEN 1 ELSE 0) <= 1
    BY DEF DepositTakenOnce
  <2> DEFINE P == {p \in MadePayments : pay[p].booked = "applied" /\ att[pay[p].attempt].reservation = q}
             E == {e \in MadeEvidence : ev[e].booked = "deposit" /\ ev[e].reservation = q}
             T == IF res[q].tender = "deposit" THEN 1 ELSE 0
  <2>1. \A a, b \in Nat : Takes(a, q) /\ Takes(b, q) => a = b
    BY DEF MoneyInv, OneTaker
  <2>2. \A p \in P : Takes(p, q) /\ p \in 1..MaxPayments
    BY DEF Takes, MadePayments, Payments
  <2>3. \A e \in E : Takes(MaxPayments + e, q) /\ e \in 1..MaxEvidence
    BY DEF Takes, MadeEvidence, Evidences
  <2>4. T # 0 => Takes(0, q)
    BY DEF Takes
  <2>5. T \in {0, 1}
    OBVIOUS
  <2> HIDE DEF P, E, T
  <2>6. \A a, b \in P : a = b
    BY <2>1, <2>2, BoundsAssumption
  <2>7. \A a, b \in E : a = b
    BY <2>1, <2>3, BoundsAssumption
  <2>8. P = {} \/ E = {}
    BY <2>1, <2>2, <2>3, BoundsAssumption
  <2>9. T = 0 \/ (P = {} /\ E = {})
    BY <2>1, <2>2, <2>3, <2>4, BoundsAssumption
  <2>10. /\ Cardinality(P) \in 0..1 /\ Cardinality(E) \in 0..1
         /\ (P = {} => Cardinality(P) = 0) /\ (E = {} => Cardinality(E) = 0)
    BY <2>6, <2>7, AtMostOne, FS_EmptySet
  <2>11. Cardinality(P) + Cardinality(E) + T <= 1
    BY <2>5, <2>8, <2>9, <2>10
  <2>. QED
    BY <2>11 DEF P, E, T
<1>. QED
  BY <1>1, MoneyInvariant, PTL

-----------------------------------------------------------------------------
(* A payment that is applied stays on the request the order holds.         *)

(* A payment that is applied was, unless a worker records it now.          *)
LEMMA AppliedBy ==
    ASSUME TypeOK, Linked, [Next]_vars, NEW p \in MadePayments', pay'[p].booked = "applied"
    PROVE  /\ p \in MadePayments /\ pay'[p].attempt = pay[p].attempt
           /\ pay[p].attempt \in MadeAttempts
           /\ att'[pay[p].attempt].request = att[pay[p].attempt].request
           /\ att'[pay[p].attempt].reservation = att[pay[p].attempt].reservation
           /\ \/ pay[p].booked = "applied"
              \/ \E w \in Workers : Record(w) /\ wk[w].payment = p /\ Applicable(p)
<1>1. p \in Payments /\ PaymentMove(p)
  BY PaymentMoves DEF MadePayments
<1>2. p \in MadePayments
  <2>1. pay[p].attempt = 0 => pay[p].booked = "none"
    BY <1>1 DEF Linked, PaymentsLinked, MadePayments
  <2>2. pay[p].attempt # 0
    BY <1>1, <2>1 DEF PaymentMove, MadePayments
  <2>. QED
    BY <1>1, <2>2 DEF MadePayments
<1>3. pay[p].attempt \in MadeAttempts
  BY <1>1, <1>2 DEF Linked, PaymentsLinked
<1>4. pay[p].booked = "applied" \/ \E w \in Workers : Record(w) /\ wk[w].payment = p /\ Applicable(p)
  BY <1>1 DEF PaymentMove
<1>. QED
  BY <1>2, <1>3, <1>4, RowsStay

(* The request is replaced only while the deposit is due, that is while    *)
(* nothing was applied; what is recorded is on the order's request.        *)
LEMMA MoneyOnCurrentStep ==
    TypeOK /\ MoneyInv /\ MoneyOnCurrentRequest /\ [Next]_vars => MoneyOnCurrentRequest'
<1> SUFFICES ASSUME TypeOK, MoneyInv, MoneyOnCurrentRequest, [Next]_vars, NEW p \in MadePayments',
                    pay'[p].booked = "applied",
                    att'[pay'[p].attempt].reservation = order'.reservation_id,
                    order'.payment_request_id # 0
             PROVE  att'[pay'[p].attempt].request = order'.payment_request_id
  BY DEF MoneyOnCurrentRequest
<1> DEFINE a == pay[p].attempt
           r == att[a].request
<1>a. Linked /\ OneTaker /\ OneRequest
  BY DEF MoneyInv
<1>b. /\ p \in MadePayments /\ pay'[p].attempt = a /\ a \in MadeAttempts
      /\ att'[a].request = r /\ att'[a].reservation = att[a].reservation
      /\ \/ pay[p].booked = "applied"
         \/ \E w \in Workers : Record(w) /\ wk[w].payment = p /\ Applicable(p)
  BY <1>a, AppliedBy
<1>c. /\ r \in MadeRequests /\ r \in Requests
      /\ att[a].reservation = req[r].reservation /\ Reserved(att[a].reservation)
  BY <1>a, <1>b DEF Linked, AttemptsLinked, RequestsLinked, MadeAttempts, MadeRequests
<1>1. ~Hold
  BY <1>a, <1>b, <1>c, HoldIsFresh
<1>2. ~IssueReplacement
  <2> SUFFICES ASSUME IssueReplacement PROVE FALSE
    OBVIOUS
  <2>1. pay' = pay /\ order'.reservation_id = order.reservation_id
        /\ res[order.reservation_id].deposit = "due"
    BY ReplacementRow DEF IssueReplacement
  <2>2. Takes(p, order.reservation_id)
    BY <1>b, <2>1 DEF Takes
  <2>3. p \in Nat /\ order.reservation_id \in Quotes
    BY <1>b, <1>c, <2>1 DEF MadePayments, Payments, Reserved
  <2>. QED
    BY <1>a, <2>1, <2>2, <2>3 DEF OneTaker
<1>3. order'.payment_request_id = order.payment_request_id /\ order'.reservation_id = order.reservation_id
  BY <1>1, <1>2, OrderSteps, QuoteRow, RecoverRow, ExtendsRow DEF OrderStep, SameColumns
<1>4. CASE pay[p].booked = "applied"
  BY <1>b, <1>3, <1>4 DEF MoneyOnCurrentRequest
<1>5. CASE Applicable(p)
  <2>1. req[r].state \in PayableStates
    BY <1>5 DEF Applicable
  <2>2. req[r].reservation = order.reservation_id /\ order.payment_request_id # 0
    BY <1>b, <1>c, <1>3
  <2>. QED
    BY <1>a, <1>b, <1>c, <1>3, <2>1, <2>2 DEF OneRequest
<1>. QED
  BY <1>b, <1>4, <1>5

(* A retry never replaces a request that has been paid, and no late        *)
(* attempt's payment is applied through a request the order let go of.     *)
THEOREM MoneyStaysOnCurrentRequest == Spec => []MoneyOnCurrentRequest
<1>1. Init => MoneyOnCurrentRequest
  BY DEF Init, MoneyOnCurrentRequest, MadePayments
<1>. QED
  BY <1>1, MoneyOnCurrentStep, MoneyInvariant, PTL DEF Spec

-----------------------------------------------------------------------------
(* What becomes of a confirmed order.                                      *)

(* ConfirmedIsPaid without a look at who paid: MoneyInv says who did.      *)
ConfirmedSettled ==
    order.state = "confirmed" =>
        /\ OrderReservation.status \in {"confirmed", "cancelled"}
        /\ req[order.payment_request_id].state \notin PayableStates
        /\ \/ req[order.payment_request_id].state = "paid"
           \/ \E e \in MadeEvidence : ev[e].booked # "none" /\ OrderOfEvidence(e)

(* A payment approves its order only when the request it paid is the one   *)
(* the order holds.                                                        *)
LEMMA ApproveConfirms ==
    ASSUME TypeOK, MoneyInv, NEW w \in Workers, Approve(w),
           order'.state = "confirmed", order.state # "confirmed"
    PROVE  /\ req[order.payment_request_id].state = "paid"
           /\ UNCHANGED <<req, ev>>
<1> DEFINE p == wk[w].payment
<1>a. order \in OrderRows /\ Linked /\ Working
  BY Rows DEF MoneyInv
<1>1. /\ p \in Payments /\ att[pay[p].attempt].request \in Requests
      /\ req[att[pay[p].attempt].request].paid_by = p
  BY <1>a, WorkersPayment DEF Approve, Working, MadeRequests
<1>2. ~MarkNeedsReview(order)
  BY <1>a, ReviewColumns
<1>3. order' # Moved(Moved(order, "paid_pending_confirmation"), "paid_needs_review")
  BY <1>a, MovesColumns DEF OrderStates
<1>4. Confirmable(pay[p].attempt) /\ UNCHANGED <<req, ev>>
  BY <1>2, <1>3 DEF Approve
<1>5. req[att[pay[p].attempt].request].state = "paid"
  BY <1>a, <1>1 DEF Linked, RequestsLinked, Payments
<1>. QED
  BY <1>4, <1>5 DEF Confirmable

(* What confirmed the order stays, and what confirms it is there.          *)
LEMMA ConfirmedSettledStep ==
    TypeOK /\ MoneyInv /\ ConfirmedSettled /\ [Next]_vars => ConfirmedSettled'
<1> SUFFICES ASSUME TypeOK, MoneyInv, ConfirmedSettled, [Next]_vars, order'.state = "confirmed"
             PROVE  /\ res'[order'.reservation_id].status \in {"confirmed", "cancelled"}
                    /\ req'[order'.payment_request_id].state \notin PayableStates
                    /\ \/ req'[order'.payment_request_id].state = "paid"
                       \/ \E e \in MadeEvidence' :
                             ev'[e].booked # "none" /\ OrderOfEvidence(e)'
  BY DEF ConfirmedSettled, OrderReservation, PayableStates
<1> DEFINE current == order.payment_request_id
           q == order.reservation_id
<1>a. Linked /\ OneRequest /\ Linked'
  BY LinkedStep DEF MoneyInv
<1>1. /\ order'.payment_request_id = current /\ order'.reservation_id = q
      /\ order.state \in Waiting \cup {"confirmed"}
  BY OrderSteps, QuoteRow, HoldRow, ReplacementRow, RecoverRow, ExtendsRow DEF OrderStep, SameColumns
<1>2. /\ current # 0 /\ current \in Requests /\ current \in MadeRequests
      /\ q \in Quotes /\ q # 0 /\ res[q].status # "none"
  <2>1. current # 0 /\ current \in Requests
    BY <1>a, <1>1, Rows DEF OneRequest, Waiting, OrderRows
  <2>2. current \in MadeRequests /\ Reserved(q)
    BY <1>a, <2>1 DEF Linked, RequestsLinked
  <2>. QED
    BY <2>1, <2>2 DEF Reserved, Quotes
<1>3. CASE order.state = "confirmed"
  <2>1. /\ res[q].status \in {"confirmed", "cancelled"} /\ req[current].state \notin PayableStates
        /\ \/ req[current].state = "paid"
           \/ \E e \in MadeEvidence : ev[e].booked # "none" /\ OrderOfEvidence(e)
    BY <1>3 DEF ConfirmedSettled, OrderReservation
  <2>2. res'[q].status \in {"confirmed", "cancelled"}
    BY <1>a, <1>2, <2>1, ReservationMoves DEF ReservationMove
  <2>3. req'[current].state \notin PayableStates
    <3>1. ~Hold /\ ~IssueReplacement
      BY HoldRow, ReplacementRow
    <3>. QED
      BY <1>a, <1>1, <1>2, <2>1, <3>1, StaysPayable
  <2>4. req[current].state = "paid" => req'[current].state = "paid"
    BY <1>a, <1>2, MoneyStays DEF Linked, RequestsLinked
  <2>5. ASSUME NEW e \in MadeEvidence, ev[e].booked # "none", OrderOfEvidence(e)
        PROVE  e \in MadeEvidence' /\ ev'[e].booked # "none" /\ OrderOfEvidence(e)'
    <3>1. ev'[e].booked # "none"
      BY <1>a, <2>5, EvidenceMoves DEF EvidenceMove, MadeEvidence
    <3>. QED
      BY <1>a, <1>1, <2>5, <3>1, RowsStay DEF OrderOfEvidence
  <2>. QED
    BY <1>1, <2>1, <2>2, <2>3, <2>4, <2>5
<1>4. CASE order.state # "confirmed"
  <2>1. Confirms /\ res'[q].status = "confirmed"
    BY <1>4, ConfirmsWhenLive DEF OverLiveHold
  <2>2. ASSUME NEW w \in Workers, Approve(w)
        PROVE  req'[current].state = "paid"
    BY <1>4, <2>2, ApproveConfirms
  <2>3. ASSUME NEW e \in Evidences, ConfirmEvidence(e)
        PROVE  /\ req'[current].state \notin PayableStates
               /\ e \in MadeEvidence' /\ ev'[e].booked # "none" /\ OrderOfEvidence(e)'
    <3>1. /\ OrderOfEvidence(e) /\ req' = SettledBy(current, e)
          /\ ev' = [ev EXCEPT ![e].review = "idle"] /\ ev[e].review = "booked"
      BY <1>4, <2>3 DEF ConfirmEvidence
    <3>2. e \in MadeEvidence /\ ev[e].booked # "none"
      BY <1>a, <3>1 DEF Linked, EvidenceLinked
    <3>3. ev'[e].booked = ev[e].booked
      BY <3>1 DEF TypeOK, EvidenceRows
    <3>4. req'[current].state \notin PayableStates
      BY <1>2, <3>1 DEF SettledBy, TypeOK, RequestRows, PayableStates
    <3>. QED
      BY <1>a, <1>1, <3>1, <3>2, <3>3, <3>4, RowsStay DEF OrderOfEvidence
  <2>4. "paid" \notin PayableStates
    BY DEF PayableStates
  <2>. QED
    BY <1>1, <2>1, <2>2, <2>3, <2>4 DEF Confirms
<1>. QED
  BY <1>3, <1>4

(* approved(), both reconcilers: a confirmed order has a reservation that  *)
(* was confirmed, money given for it, and no request left to pay again.    *)
THEOREM ConfirmedOrdersArePaid == Spec => []ConfirmedIsPaid
<1>1. Init => ConfirmedSettled
  BY DEF Init, ConfirmedSettled
<1>2. TypeOK /\ MoneyInv /\ ConfirmedSettled => ConfirmedIsPaid
  <2> SUFFICES ASSUME TypeOK, MoneyInv, ConfirmedSettled, order.state = "confirmed" PROVE ConfirmedIsPaid
    BY DEF ConfirmedIsPaid
  <2> DEFINE r == order.payment_request_id
             payer == req[r].paid_by
  <2>1. r # 0 /\ r \in Requests /\ r \in MadeRequests /\ req[r].reservation = order.reservation_id
    BY Rows DEF MoneyInv, OneRequest, Linked, RequestsLinked, OrderRows
  <2>2. ASSUME req[r].state = "paid"
        PROVE  PaidFor(payer) = order.reservation_id
    <3>1. payer # 0 /\ payer \in 0..(MaxPayments + MaxEvidence) /\ MaxPayments \in Nat
      BY <2>1, <2>2, BoundsAssumption DEF MoneyInv, Linked, RequestsLinked, TypeOK, RequestRows
    <3>2. CASE payer \in Payments
      <4>1. payer \in MadePayments /\ att[pay[payer].attempt].request = r
        BY <2>1, <3>2 DEF MoneyInv, Paid
      <4>2. att[pay[payer].attempt].reservation = req[r].reservation
        BY <4>1 DEF MoneyInv, Linked, PaymentsLinked, AttemptsLinked, MadePayments, MadeAttempts
      <4>. QED
        BY <2>1, <3>2, <4>2 DEF PaidFor
    <3>3. CASE payer \notin Payments
      <4>1. payer > MaxPayments
        BY <3>1, <3>3, BoundsAssumption DEF Payments
      <4>2. ev[EvidenceOf(payer)].reservation = req[r].reservation
        BY <2>1, <4>1 DEF MoneyInv, Paid
      <4>. QED
        BY <2>1, <3>3, <4>2 DEF PaidFor
    <3>. QED
      BY <3>2, <3>3
  <2>. QED
    BY <2>1, <2>2 DEF ConfirmedSettled, ConfirmedIsPaid
<1>. QED
  BY <1>1, <1>2, ConfirmedSettledStep, MoneyInvariant, PTL DEF Spec

-----------------------------------------------------------------------------
(* What becomes of a payment Inn has finished with.                        *)

(* The event of an approved payment is finished after the order was looked *)
(* up, unless no order has the reservation.                                *)
LEMMA FinishedBy ==
    ASSUME TypeOK, Linked, Working, NEW w \in Workers, WorkerStep(w), wk[w].status = "approved",
           ~pay[wk[w].payment].done, pay'[wk[w].payment].done
    PROVE  \/ ~OrderOf(pay[wk[w].payment].attempt)
           \/ Mark(w) \/ Approve(w)
<1>a. pay' # pay
  OBVIOUS
<1>1. CASE Apply(w)
  BY <1>1, <1>a DEF Apply
<1>2. CASE Record(w)
  <2>1. wk[w].payment \in Payments /\ pay \in [Payments -> PaymentRows]
    BY <1>2, WorkersPayment DEF Record, TypeOK
  <2>2. pay' # [pay EXCEPT ![wk[w].payment].booked = "applied"]
    BY <2>1 DEF PaymentRows
  <2>. QED
    BY <1>2, <1>a, <2>2 DEF Record
<1>3. CASE BookReview(w)
  <2>1. wk[w].payment \in Payments /\ pay \in [Payments -> PaymentRows]
    BY <1>3, WorkersPayment DEF BookReview, TypeOK
  <2>. QED
    BY <1>3, <2>1 DEF BookReview, PaymentRows
<1>4. CASE Fail(w)
  BY <1>4 DEF Fail, Working
<1>. QED
  BY <1>1, <1>2, <1>3, <1>4 DEF WorkerStep

(* A worker finishes after it confirmed the order with the payment or left *)
(* a task, and neither is undone.                                          *)
LEMMA AccountedStep ==
    TypeOK /\ MoneyInv /\ MoneyIsAccountedFor /\ [Next]_vars => MoneyIsAccountedFor'
<1> SUFFICES ASSUME TypeOK, MoneyInv, MoneyIsAccountedFor, [Next]_vars, NEW p \in MadePayments',
                    pay'[p].done, att'[pay'[p].attempt].reservation = order'.reservation_id
             PROVE  /\ pay'[p].booked # "none"
                    /\ \/ <<"paid", order'.reservation_id>> \in tasks'
                       \/ /\ order'.state \in {"confirmed", "refunded"}
                          /\ pay'[p].booked = "unapplied" =>
                                req'[att'[pay'[p].attempt].request].paid_by = p
  BY DEF MoneyIsAccountedFor
<1> DEFINE a == pay[p].attempt
           r == att[a].request
<1>a. Linked /\ Paid /\ Working
  BY DEF MoneyInv
<1>b. p \in Payments /\ PaymentMove(p)
  BY <1>a, PaymentMoves DEF MadePayments
<1>c. p \in MadePayments
  <2>1. pay[p].attempt = 0 => ~pay[p].done
    BY <1>a, <1>b DEF Linked, PaymentsLinked, MadePayments
  <2>2. pay[p].attempt # 0
    BY <1>b, <2>1 DEF PaymentMove, MadePayments
  <2>. QED
    BY <1>b, <2>2 DEF MadePayments
<1>d. /\ a \in MadeAttempts /\ pay'[p].attempt = a
      /\ att'[a].request = r /\ att'[a].reservation = att[a].reservation
      /\ r \in Requests /\ Reserved(att[a].reservation)
  <2>1. a \in MadeAttempts
    BY <1>a, <1>b, <1>c DEF Linked, PaymentsLinked
  <2>2. r \in MadeRequests /\ Reserved(att[a].reservation)
    BY <1>a, <2>1 DEF Linked, AttemptsLinked, RequestsLinked, MadeAttempts
  <2>. QED
    BY <1>a, <1>c, <2>1, <2>2, RowsStay DEF MadeRequests
<1>e. order'.reservation_id = order.reservation_id /\ OrderOf(a)
  <2>1. ~Hold
    BY <1>a, <1>d, HoldIsFresh
  <2>2. order'.reservation_id = order.reservation_id
    BY <2>1, OrderSteps, QuoteRow, ReplacementRow, RecoverRow, ExtendsRow DEF OrderStep, SameColumns
  <2>. QED
    BY <1>d, <2>2 DEF OrderOf, Reserved, Quotes
<1>1. CASE pay[p].done
  <2>1. /\ pay[p].booked # "none"
        /\ \/ <<"paid", order.reservation_id>> \in tasks
           \/ /\ order.state \in {"confirmed", "refunded"}
              /\ pay[p].booked = "unapplied" => req[r].paid_by = p
    BY <1>1, <1>c, <1>d, <1>e DEF MoneyIsAccountedFor
  <2>2. pay'[p].booked # "none"
    BY <1>a, <1>c, <2>1, MoneyStays
  <2>3. <<"paid", order.reservation_id>> \in tasks => <<"paid", order'.reservation_id>> \in tasks'
    BY <1>e, TableWriters DEF Writers
  <2>4. order.state \in {"confirmed", "refunded"} => order'.state \in {"confirmed", "refunded"}
    BY OrderSteps DEF OrderStep, Quote, Hold, IssueReplacement, Recover, Extends, Waiting, HoldStates
  <2>5. pay'[p].booked = "unapplied" => pay[p].booked = "unapplied"
    BY <1>b, <2>1 DEF PaymentMove
  <2>6. req[r].paid_by = p => req'[r].paid_by = p
    BY <1>a, <1>b, <1>d, MoneyStays DEF Payments
  <2>. QED
    BY <1>d, <2>1, <2>2, <2>3, <2>4, <2>5, <2>6
<1>2. CASE ~pay[p].done
  <2>1. PICK w \in Workers : WorkerStep(w) /\ wk[w].payment = p /\ wk[w].status = "approved"
    BY <1>2, <1>b, <1>c DEF PaymentMove, MadePayments
  <2>2. CASE Mark(w)
    <3>1. pay[p].booked # "none"
      BY <1>a, <2>1, <2>2 DEF Mark, Working
    <3>2. MarkNeedsReview(order)
      BY <1>e, <2>1, <2>2 DEF Mark
    <3>3. <<"paid", order.reservation_id>> \in tasks'
      BY <3>2 DEF MarkNeedsReview
    <3>. QED
      BY <1>a, <1>c, <1>e, <3>1, <3>3, MoneyStays
  <2>3. CASE Approve(w)
    <3>1. req[r].paid_by = p
      BY <1>a, <2>1, <2>3 DEF Approve, Working
    <3>2. pay[p].booked # "none"
      BY <1>a, <1>b, <1>d, <3>1 DEF Paid
    <3>3. req'[r].paid_by = p
      BY <1>a, <1>b, <1>d, <3>1, MoneyStays DEF Payments
    <3>4. <<"paid", order.reservation_id>> \in tasks' \/ order'.state = "confirmed"
      <4>1. order \in OrderRows
        BY Rows
      <4>2. MarkNeedsReview(order) => <<"paid", order.reservation_id>> \in tasks'
        BY DEF MarkNeedsReview
      <4>3. Moved(Moved(order, "paid_pending_confirmation"), "confirmed").state = "confirmed"
        BY <4>1, MovedType DEF OrderStates
      <4>. QED
        BY <1>e, <2>1, <2>3, <4>2, <4>3 DEF Approve
    <3>. QED
      BY <1>a, <1>c, <1>d, <1>e, <3>2, <3>3, <3>4, MoneyStays
  <2>. QED
    BY <1>2, <1>a, <1>e, <2>1, <2>2, <2>3, FinishedBy
<1>. QED
  BY <1>1, <1>2

(* Once Inn has finished with an approved payment for the reservation the  *)
(* order holds, through whichever interleaving of workers, recoveries,     *)
(* expiries and refunds, the money is on the folio and the order is        *)
(* confirmed with it, or refunded, or Finance has a task.                  *)
THEOREM MoneyKeptAccountedFor == Spec => []MoneyIsAccountedFor
<1>1. Init => MoneyIsAccountedFor
  BY DEF Init, MoneyIsAccountedFor, MadePayments
<1>. QED
  BY <1>1, AccountedStep, MoneyInvariant, PTL DEF Spec
=============================================================================
