------------------------ MODULE DirectBookingProofs ------------------------
(***************************************************************************)
(* What DirectBooking's runs show on small instances, proved for all       *)
(* values of its constants: every row keeps to its columns; every write of *)
(* the order moves its version on, so the maintenance command, which acts  *)
(* on a batch it read before, can only write rows nobody touched; a        *)
(* scrubbed order stays closed; an order is confirmed over a running hold. *)
(***************************************************************************)
EXTENDS DirectBooking, TLAPS

USE DurationsAssumption, BoundsAssumption, ChoicesAssumption
    DEF DurationsAssumption, BoundsAssumption, ChoicesAssumption

-----------------------------------------------------------------------------
(* Helpers of the model.                                                   *)

(* An accepted transition keeps the row a row.                             *)
LEMMA MovedType ==
    ASSUME NEW o \in OrderRows, NEW to \in OrderStates
    PROVE  /\ Moved(o, to) \in OrderRows
           /\ Moved(o, to).state = to
           /\ Moved(o, to).state_version = o.state_version + 1
<1>1. o.state_version + 1 \in Nat \ {0}
  BY DEF OrderRows
<1>2. [o EXCEPT !.state = to, !.state_version = o.state_version + 1] \in OrderRows
  BY <1>1 DEF OrderRows
<1>3. QED
  BY <1>2 DEF Moved, OrderRows

(* Closing a request's attempts leaves rows of the table.                  *)
LEMMA ClosedAttemptsType ==
    ASSUME att \in [Attempts -> AttemptRows], NEW r
    PROVE  ClosedAttempts(r) \in [Attempts -> AttemptRows]
BY DEF ClosedAttempts, AttemptRows, AttemptStates

LEMMA SupersededType ==
    ASSUME req \in [Requests -> RequestRows], NEW r
    PROVE  Superseded(r) \in [Requests -> RequestRows]
BY DEF Superseded, RequestRows, PayableStates

LEMMA NewRequestType ==
    ASSUME NEW q \in Quotes \cup {0}, NEW expires \in Nat
    PROVE  NewRequest(q, expires) \in RequestRows
BY DEF NewRequest, RequestRows, PayableStates, Instants

LEMMA InitType == Init => TypeOK
BY DEF Init, TypeOK, OrderRows, ReservationRows, RequestRows, AttemptRows, PaymentRows,
       EvidenceRows, WorkerStates, WorkerSteps, Instants, OrderStates, ReservationStates,
       AttemptStates, Quotes, Requests, Attempts, Payments, Evidences, AllOutcomes

-----------------------------------------------------------------------------
(* TypeOK is inductive as it stands: one lemma for each part of Next, one  *)
(* step for each of its actions.                                           *)

(* The conjuncts of TypeOK, to be cited one at a time.                     *)
LEMMA Rows ==
    ASSUME TypeOK
    PROVE  /\ now \in Nat /\ order \in OrderRows /\ quotes \in 0..MaxQuotes
           /\ order.booking_quote_id \in Quotes \cup {0}
           /\ order.reservation_id \in Quotes \cup {0}
BY DEF TypeOK, Instants, OrderRows

LEMMA GuestType == TypeOK /\ GuestNext => TypeOK'
<1> SUFFICES ASSUME TypeOK, GuestNext PROVE TypeOK'
  OBVIOUS
<1>a. now \in Nat /\ order \in OrderRows
  BY Rows
<1>b. order.booking_quote_id \in Quotes \cup {0} /\ order.reservation_id \in Quotes \cup {0}
  BY Rows
<1>c. res \in [Quotes -> ReservationRows]
  BY DEF TypeOK
<1>d. req \in [Requests -> RequestRows]
  BY DEF TypeOK
<1>e. att \in [Attempts -> AttemptRows]
  BY DEF TypeOK
<1>1. CASE Quote
  <2>1. Moved(order, "quoted") \in OrderRows
    BY MovedType, <1>a DEF OrderStates
  <2>2. quotes + 1 \in Quotes /\ quotes' = quotes + 1
    <3>1. quotes < MaxQuotes /\ quotes' = quotes + 1
      BY <1>1 DEF Quote
    <3>2. QED
      BY <3>1, Rows DEF Quotes
  <2>3. order' = [Moved(order, "quoted") EXCEPT
                    !.booking_quote_id = quotes + 1, !.quote_expires_at = now + QuoteTtl]
        /\ UNCHANGED <<now, res, req, att, calls, owed, pay, ev, wk, sweep>>
    BY <1>1 DEF Quote
  <2>4. now + QuoteTtl \in Nat
    BY <1>a
  <2>5. order' \in OrderRows
    BY <2>1, <2>2, <2>3, <2>4 DEF OrderRows, Instants
  <2>6. quotes' \in 0..MaxQuotes
    BY <2>2 DEF Quotes
  <2>7. QED
    BY <2>3, <2>5, <2>6 DEF TypeOK
<1>2. CASE Hold
  <2> DEFINE expires == now + LessOf(InitialHold, MaximumHold)
  <2>1. Moved(order, "held") \in OrderRows
    BY MovedType, <1>a DEF OrderStates
  <2>2. expires \in Nat
    BY <1>a DEF LessOf
  <2>3. PICK r \in Requests :
          /\ req' = [req EXCEPT ![r] = NewRequest(order.booking_quote_id, expires)]
          /\ order' = [Moved(order, "held") EXCEPT
                          !.reservation_id = order.booking_quote_id, !.held_at = now,
                          !.hold_expires_at = expires, !.payment_request_id = r]
    BY <1>2 DEF Hold
  <2>4. res' = [res EXCEPT ![order.booking_quote_id] =
                   [status |-> "hold", hold_expires_at |-> expires, deposit |-> "due", tender |-> "none"]]
        /\ UNCHANGED <<now, quotes, att, calls, owed, pay, ev, wk, sweep>>
    BY <1>2 DEF Hold
  <2> HIDE DEF expires
  <2>5. order' \in OrderRows
    BY <2>1, <2>2, <2>3, <1>a, <1>b DEF OrderRows, Instants
  <2>6. res' \in [Quotes -> ReservationRows]
    BY <2>2, <2>4, <1>c DEF ReservationRows, ReservationStates, Instants
  <2>7. NewRequest(order.booking_quote_id, expires) \in RequestRows
    BY <2>2, <1>b, NewRequestType
  <2>8. QED
    BY <2>3, <2>4, <2>5, <2>6, <2>7 DEF TypeOK
<1>3. CASE IssueHeld
  <2>1. order' = Moved(order, "payment_pending")
        /\ req' = [req EXCEPT ![order.payment_request_id].hosted = TRUE]
        /\ UNCHANGED <<now, quotes, res, att, calls, owed, pay, ev, wk, sweep>>
    BY <1>3 DEF IssueHeld
  <2>2. order' \in OrderRows
    BY <2>1, MovedType, <1>a DEF OrderStates
  <2>3. req' \in [Requests -> RequestRows]
    BY <2>1, <1>d DEF RequestRows
  <2>4. QED
    BY <2>1, <2>2, <2>3 DEF TypeOK
<1>4. CASE IssueReplacement
  <2> DEFINE new == [NewRequest(order.reservation_id, res[order.reservation_id].hold_expires_at)
                        EXCEPT !.hosted = TRUE]
  <2>1. Moved(order, "payment_pending") \in OrderRows
    BY MovedType, <1>a DEF OrderStates
  <2>2. PICK r \in Requests :
          /\ req' = [Superseded(order.payment_request_id) EXCEPT ![r] = new]
          /\ order' = [Moved(order, "payment_pending") EXCEPT !.payment_request_id = r]
    BY <1>4 DEF IssueReplacement
  <2>3. att' = ClosedAttempts(order.payment_request_id)
        /\ UNCHANGED <<now, quotes, res, calls, owed, pay, ev, wk, sweep>>
    BY <1>4 DEF IssueReplacement
  <2>4. order.reservation_id \in Quotes
    BY <1>4, <1>b DEF IssueReplacement, LiveHold
  <2>5. new \in RequestRows
    <3>1. res[order.reservation_id].hold_expires_at \in Nat
      BY <2>4, <1>c DEF ReservationRows, Instants
    <3>2. NewRequest(order.reservation_id, res[order.reservation_id].hold_expires_at) \in RequestRows
      BY <2>4, <3>1, NewRequestType
    <3>3. QED
      BY <3>2 DEF RequestRows
  <2> HIDE DEF new
  <2>6. order' \in OrderRows
    BY <2>1, <2>2 DEF OrderRows
  <2>7. req' \in [Requests -> RequestRows]
    BY <2>2, <2>5, <1>d, SupersededType
  <2>8. att' \in [Attempts -> AttemptRows]
    BY <2>3, <1>e, ClosedAttemptsType
  <2>9. QED
    BY <2>3, <2>6, <2>7, <2>8 DEF TypeOK
<1>5. CASE CheckoutManual
  BY <1>5, MovedType, <1>a DEF CheckoutManual, OrderStates, TypeOK
<1>6. CASE RetryManual
  BY <1>6, MovedType, <1>a DEF RetryManual, OrderStates, TypeOK
<1>7. CASE SubmitEvidence
  <2>1. order' = Moved(order, "evidence_pending")
        /\ UNCHANGED <<now, quotes, res, req, att, calls, owed, pay, wk, sweep>>
    BY <1>7 DEF SubmitEvidence
  <2>2. PICK e \in Evidences :
          ev' = [ev EXCEPT ![e] = [status |-> "pending", booked |-> "none",
                                   reservation |-> order.reservation_id, review |-> "idle"]]
    BY <1>7 DEF SubmitEvidence
  <2>3. order' \in OrderRows
    BY <2>1, MovedType, <1>a DEF OrderStates
  <2>4. ev \in [Evidences -> EvidenceRows]
    BY DEF TypeOK
  <2>5. ev' \in [Evidences -> EvidenceRows]
    BY <2>2, <2>4, <1>b DEF EvidenceRows
  <2>6. QED
    BY <2>1, <2>3, <2>5 DEF TypeOK
<1>8. CASE Recover
  <2>1. Moved(order, "started") \in OrderRows
    BY MovedType, <1>a DEF OrderStates
  <2>2. PICK reprice \in BOOLEAN :
          /\ reprice => quotes < MaxQuotes
          /\ quotes' = IF reprice THEN quotes + 1 ELSE quotes
          /\ order' = [Moved(order, "started") EXCEPT
                          !.booking_quote_id = IF reprice THEN quotes + 1 ELSE @,
                          !.quote_expires_at = IF reprice THEN now + QuoteTtl ELSE 0,
                          !.payment_request_id = 0, !.hold_expires_at = 0,
                          !.session_expires_at = now + SessionTtl,
                          !.recovery_expires_at = now + RecoveryTtl]
    BY <1>8 DEF Recover
  <2>3. UNCHANGED <<now, res, req, att, calls, owed, pay, ev, wk, sweep>>
    BY <1>8 DEF Recover
  <2>4. quotes' \in 0..MaxQuotes /\ (reprice => quotes + 1 \in Quotes)
    BY <2>2, Rows DEF Quotes
  <2>5. order' \in OrderRows
    <3>1. now + QuoteTtl \in Nat /\ now + SessionTtl \in Nat /\ now + RecoveryTtl \in Nat
      BY <1>a
    <3>2. CASE reprice
      BY <2>1, <2>2, <2>4, <3>1, <3>2 DEF OrderRows, Instants
    <3>3. CASE ~reprice
      BY <2>1, <2>2, <2>4, <3>1, <3>3 DEF OrderRows, Instants
    <3>4. QED
      BY <3>2, <3>3
  <2>6. QED
    BY <2>3, <2>4, <2>5 DEF TypeOK
<1>9. QED
  BY <1>1, <1>2, <1>3, <1>4, <1>5, <1>6, <1>7, <1>8 DEF GuestNext

LEMMA CheckoutType == TypeOK /\ CheckoutNext => TypeOK'
<1> SUFFICES ASSUME TypeOK, CheckoutNext PROVE TypeOK'
  OBVIOUS
<1>a. now \in Nat /\ order \in OrderRows
  BY Rows
<1>c. res \in [Quotes -> ReservationRows]
  BY DEF TypeOK
<1>d. req \in [Requests -> RequestRows]
  BY DEF TypeOK
<1>e. att \in [Attempts -> AttemptRows]
  BY DEF TypeOK
<1>f. calls \in [Attempts -> Nat] /\ owed \subseteq Attempts
  BY DEF TypeOK
<1>g. pay \in [Payments -> PaymentRows]
  BY DEF TypeOK
<1>1. ASSUME NEW r \in Requests, OpenCheckout(r) PROVE TypeOK'
  <2>1. UNCHANGED <<now, order, quotes, res, pay, ev, wk, sweep>>
    BY <1>1 DEF OpenCheckout
  <2>2. CASE \E a \in LiveAttempt(r) :
                 /\ att[a].state = "creating" /\ calls[a] < MaxCalls
                 /\ calls' = [calls EXCEPT ![a] = @ + 1]
                 /\ UNCHANGED <<req, att, owed>>
    <3>1. calls' \in [Attempts -> Nat]
      BY <2>2, <1>f DEF LiveAttempt, MadeAttempts
    <3>2. QED
      BY <2>1, <2>2, <3>1 DEF TypeOK
  <2>3. CASE \E a \in LiveAttempt(r) :
                 /\ att[a].state # "creating" /\ ~CheckoutLapsed(a)
                 /\ owed' = owed \cup {a}
                 /\ UNCHANGED <<req, att, calls>>
    BY <2>1, <2>3 DEF TypeOK, LiveAttempt, MadeAttempts
  <2>4. ASSUME NEW first \in LiveAttempt(r) \cup {0}, NEW a \in Attempts,
               att' = [b \in Attempts |->
                         IF b = a THEN [state |-> "creating", request |-> r,
                                        reservation |-> req[r].reservation,
                                        checkout_expires_at |-> 0, url |-> FALSE]
                         ELSE IF b = first THEN [att[b] EXCEPT !.state = "expired"]
                         ELSE att[b]],
               calls' = [calls EXCEPT ![a] = 1],
               req' = [req EXCEPT ![r].state = "processing"],
               owed' = owed
        PROVE  TypeOK'
    <3>1. [state |-> "creating", request |-> r, reservation |-> req[r].reservation,
           checkout_expires_at |-> 0, url |-> FALSE] \in AttemptRows
      <4>1. req[r].reservation \in Quotes \cup {0}
        BY <1>d DEF RequestRows
      <4>2. QED
        BY <4>1 DEF AttemptRows, AttemptStates, LiveAttemptStates, Instants
    <3>2. \A b \in Attempts : att[b] \in AttemptRows /\ [att[b] EXCEPT !.state = "expired"] \in AttemptRows
      BY <1>e DEF AttemptRows, AttemptStates
    <3>3. att' \in [Attempts -> AttemptRows]
      BY <2>4, <3>1, <3>2
    <3>4. req' \in [Requests -> RequestRows]
      BY <2>4, <1>d DEF RequestRows, PayableStates
    <3>5. calls' \in [Attempts -> Nat] /\ owed' \subseteq Attempts
      BY <2>4, <1>f
    <3>6. QED
      BY <2>1, <3>3, <3>4, <3>5 DEF TypeOK
  <2>5. \/ \E first \in LiveAttempt(r) \cup {0}, a \in Attempts :
              /\ att' = [b \in Attempts |->
                           IF b = a THEN [state |-> "creating", request |-> r,
                                          reservation |-> req[r].reservation,
                                          checkout_expires_at |-> 0, url |-> FALSE]
                           ELSE IF b = first THEN [att[b] EXCEPT !.state = "expired"]
                           ELSE att[b]]
              /\ calls' = [calls EXCEPT ![a] = 1]
              /\ req' = [req EXCEPT ![r].state = "processing"]
              /\ owed' = owed
        \/ \E a \in LiveAttempt(r) :
              /\ att[a].state = "creating" /\ calls[a] < MaxCalls
              /\ calls' = [calls EXCEPT ![a] = @ + 1]
              /\ UNCHANGED <<req, att, owed>>
        \/ \E a \in LiveAttempt(r) :
              /\ att[a].state # "creating" /\ ~CheckoutLapsed(a)
              /\ owed' = owed \cup {a}
              /\ UNCHANGED <<req, att, calls>>
    BY <1>1 DEF OpenCheckout
  <2>6. QED
    BY <2>2, <2>3, <2>4, <2>5
<1>2. ASSUME NEW a \in Attempts, CheckoutReady(a) PROVE TypeOK'
  <2>1. PICK ttl \in CheckoutTtls :
          att' = [att EXCEPT ![a].state = "checkout_ready", ![a].url = TRUE,
                             ![a].checkout_expires_at = now + ttl]
    BY <1>2 DEF CheckoutReady
  <2>2. calls' = [calls EXCEPT ![a] = @ - 1] /\ calls[a] > 0 /\ owed' = owed \cup {a}
        /\ UNCHANGED <<now, order, quotes, res, req, pay, ev, wk, sweep>>
    BY <1>2 DEF CheckoutReady
  <2>3. now + ttl \in Nat
    BY <1>a
  <2>4. [att[a] EXCEPT !.state = "checkout_ready", !.url = TRUE, !.checkout_expires_at = now + ttl]
            \in AttemptRows
    BY <2>3, <1>e DEF AttemptRows, AttemptStates, LiveAttemptStates, Instants
  <2>5. att' \in [Attempts -> AttemptRows]
    BY <2>1, <2>4, <1>e
  <2>6. calls' \in [Attempts -> Nat]
    BY <2>2, <1>f
  <2>7. QED
    BY <2>2, <2>5, <2>6, <1>f DEF TypeOK
<1>3. ASSUME NEW a \in Attempts, CheckoutFailed(a) PROVE TypeOK'
  <2>1. calls' \in [Attempts -> Nat]
    BY <1>3, <1>f DEF CheckoutFailed
  <2>2. QED
    BY <1>3, <2>1 DEF CheckoutFailed, TypeOK
<1>4. ASSUME NEW a \in Attempts, ExtendCheckout(a) PROVE TypeOK'
  <2> DEFINE expires == ExtendedHold(ExtensionAsked(a))
  <2>1. expires \in Nat
    <3>1. order.hold_expires_at \in Nat /\ order.held_at \in Nat /\ att[a].checkout_expires_at \in Nat
      BY <1>a, <1>e DEF OrderRows, AttemptRows, Instants
    <3>2. ExtensionAsked(a) \in Nat
      BY <3>1 DEF ExtensionAsked, LessOf
    <3>3. QED
      BY <3>1, <3>2 DEF ExtendedHold, LessOf
  <2>2. Moved(order, "payment_pending") \in OrderRows
    BY MovedType, <1>a DEF OrderStates
  <2>3. owed' = owed \ {a} /\ UNCHANGED <<now, quotes, att, calls, pay, ev, wk, sweep>>
    BY <1>4 DEF ExtendCheckout
  <2>4. CASE order' = Moved(order, "payment_pending") /\ UNCHANGED <<res, req>>
    BY <2>2, <2>3, <2>4 DEF TypeOK
  <2>5. CASE /\ res' = [res EXCEPT ![order.reservation_id].hold_expires_at = expires]
             /\ req' = RequestsExtended(expires)
             /\ order' = [Moved(order, "payment_pending") EXCEPT
                             !.hold_expires_at = expires, !.hold_extended_at = now]
    <3> HIDE DEF expires
    <3>1. order' \in OrderRows
      BY <2>1, <2>2, <2>5, <1>a DEF OrderRows, Instants
    <3>2. res' \in [Quotes -> ReservationRows]
      BY <2>1, <2>5, <1>c DEF ReservationRows, Instants
    <3>3. req' \in [Requests -> RequestRows]
      BY <2>1, <2>5, <1>d DEF RequestsExtended, RequestRows, Instants
    <3>4. QED
      BY <2>3, <3>1, <3>2, <3>3 DEF TypeOK
  <2>6. QED
    BY <1>4, <2>4, <2>5 DEF ExtendCheckout
<1>5. ASSUME NEW a \in Attempts, LeaveCheckout(a) PROVE TypeOK'
  BY <1>5 DEF LeaveCheckout, TypeOK
<1>6. ASSUME NEW a \in Attempts, GuestPays(a) PROVE TypeOK'
  <2>1. PICK p \in Payments, status \in Outcomes, matches \in Matches :
          pay' = [pay EXCEPT ![p].attempt = a, ![p].status = status, ![p].matches = matches]
    BY <1>6 DEF GuestPays
  <2>2. UNCHANGED <<now, order, quotes, res, req, att, calls, owed, ev, wk, sweep>>
    BY <1>6 DEF GuestPays
  <2>3. [pay[p] EXCEPT !.attempt = a, !.status = status, !.matches = matches] \in PaymentRows
    BY <1>g DEF PaymentRows
  <2>4. pay' \in [Payments -> PaymentRows]
    BY <2>1, <2>3, <1>g
  <2>5. QED
    BY <2>2, <2>4 DEF TypeOK
<1>7. ASSUME NEW p \in Payments, ProviderSettles(p) PROVE TypeOK'
  <2>1. PICK status \in Outcomes : pay' = [pay EXCEPT ![p].status = status]
    BY <1>7 DEF ProviderSettles
  <2>2. pay' \in [Payments -> PaymentRows]
    BY <2>1, <1>g DEF PaymentRows
  <2>3. QED
    BY <1>7, <2>2 DEF ProviderSettles, TypeOK
<1>8. QED
  BY <1>1, <1>2, <1>3, <1>4, <1>5, <1>6, <1>7 DEF CheckoutNext

(* ReservationService::confirm leaves a reservation row, if there was one. *)
LEMMA ConfirmedRowType ==
    ASSUME res \in [Quotes -> ReservationRows], NEW q
    PROVE  [res EXCEPT ![q].status = "confirmed", ![q].hold_expires_at = 0]
               \in [Quotes -> ReservationRows]
<1>1. [res EXCEPT ![q].status = "confirmed"] \in [Quotes -> ReservationRows]
  BY DEF ReservationRows, ReservationStates
<1>2. QED
  BY <1>1 DEF ReservationRows, Instants

(* Taking a deposit leaves a reservation row too.                          *)
LEMMA PaidRowType ==
    ASSUME res \in [Quotes -> ReservationRows], NEW q
    PROVE  [res EXCEPT ![q].deposit = "paid"] \in [Quotes -> ReservationRows]
BY DEF ReservationRows

(* What markNeedsReview leaves in the row.                                 *)
LEMMA NeedsReviewType ==
    ASSUME order \in OrderRows, MarkNeedsReview(order)
    PROVE  order' \in OrderRows
<1>1. Normalized(order) \in OrderRows
  BY MovedType DEF Normalized, OrderStates
<1>2. Moved(Normalized(order), "paid_needs_review") \in OrderRows
  BY <1>1, MovedType DEF OrderStates
<1>3. QED
  BY <1>1, <1>2 DEF MarkNeedsReview

(* The end of an event leaves rows of both tables.                         *)
LEMMA FinishType ==
    ASSUME NEW w \in Workers, Finish(w), pay \in [Payments -> PaymentRows],
           wk \in [Workers -> WorkerStates]
    PROVE  wk' \in [Workers -> WorkerStates] /\ pay' \in [Payments -> PaymentRows]
<1>1. Idle \in WorkerStates
  BY DEF Idle, WorkerStates, WorkerSteps
<1>2. wk' \in [Workers -> WorkerStates]
  BY <1>1 DEF Finish
<1>3. \A p \in Payments : [pay[p] EXCEPT !.done = @ \/ wk[w].status = "approved"] \in PaymentRows
  BY DEF PaymentRows
<1>4. pay' \in [Payments -> PaymentRows]
  BY <1>3 DEF Finish
<1>5. QED
  BY <1>2, <1>4

(* A worker that goes on is still a worker.                                *)
LEMMA WorkerMoves ==
    ASSUME NEW w \in Workers, NEW step \in WorkerSteps, wk \in [Workers -> WorkerStates]
    PROVE  [wk EXCEPT ![w].pc = step] \in [Workers -> WorkerStates]
BY DEF WorkerStates

LEMMA WorkerType == TypeOK /\ WorkerNext => TypeOK'
<1> SUFFICES ASSUME TypeOK, NEW w \in Workers,
                    \/ WorkerStep(w) \/ WorkerFails(w)
                    \/ \E p \in Payments : Fetch(w, p)
             PROVE  TypeOK'
  BY DEF WorkerNext
<1>a. now \in Nat /\ order \in OrderRows
  BY Rows
<1>b. order.reservation_id \in Quotes \cup {0}
  BY Rows
<1>c. res \in [Quotes -> ReservationRows]
  BY DEF TypeOK
<1>d. req \in [Requests -> RequestRows]
  BY DEF TypeOK
<1>e. att \in [Attempts -> AttemptRows]
  BY DEF TypeOK
<1>g. pay \in [Payments -> PaymentRows]
  BY DEF TypeOK
<1>h. wk \in [Workers -> WorkerStates]
  BY DEF TypeOK
<1>i. wk[w].payment \in Payments \cup {0} /\ wk[w].status \in AllOutcomes \cup {"none", "refunded"}
  BY <1>h DEF WorkerStates
<1>1. ASSUME NEW p \in Payments, Fetch(w, p) PROVE TypeOK'
  <2>1. pay' = [pay EXCEPT ![p].tries = @ + 1]
        /\ wk' = [wk EXCEPT ![w] = [pc |-> "apply", payment |-> p, status |-> pay[p].status]]
        /\ UNCHANGED <<now, order, quotes, res, req, att, calls, owed, ev, sweep>>
    BY <1>1 DEF Fetch
  <2>2. pay' \in [Payments -> PaymentRows]
    BY <2>1, <1>g DEF PaymentRows
  <2>3. [pc |-> "apply", payment |-> p, status |-> pay[p].status] \in WorkerStates
    BY <1>g DEF PaymentRows, WorkerStates, WorkerSteps
  <2>4. QED
    BY <2>1, <2>2, <2>3, <1>h DEF TypeOK
<1>2. CASE Apply(w)
  <2> DEFINE a == pay[wk[w].payment].attempt
             next == CASE ~pay[wk[w].payment].matches ->
                               IF wk[w].status = "approved" /\ OrderOf(a) THEN "book_review" ELSE "idle"
                       [] wk[w].status = "approved" -> "record"
                       [] wk[w].status \in {"rejected", "cancelled"} -> "fail"
                       [] OTHER -> "idle"
  <2>1. UNCHANGED <<now, order, quotes, res, req, calls, owed, ev, sweep>>
    BY <1>2 DEF Apply
  <2>2. att' \in [Attempts -> AttemptRows]
    <3>1. \/ att' = att
          \/ att' = [att EXCEPT ![a].state = "mismatched"]
          \/ wk[w].status # "refunded" /\ att' = [att EXCEPT ![a].state = wk[w].status]
      BY <1>2 DEF Apply
    <3>2. "mismatched" \in AttemptStates
          /\ (wk[w].status # "refunded" => wk[w].status \in AttemptStates)
      BY <1>i DEF AttemptStates, AllOutcomes, LiveAttemptStates
    <3>3. QED
      BY <3>1, <3>2, <1>e DEF AttemptRows
  <2>3. next \in WorkerSteps
    BY DEF WorkerSteps
  <2>4. Finish(w) \/ (wk' = [wk EXCEPT ![w].pc = next] /\ pay' = pay)
    BY <1>2 DEF Apply
  <2> HIDE DEF next
  <2>5. wk' \in [Workers -> WorkerStates] /\ pay' \in [Payments -> PaymentRows]
    BY <2>3, <2>4, WorkerMoves, FinishType, <1>g, <1>h
  <2>6. QED
    BY <2>1, <2>2, <2>5 DEF TypeOK
<1>3. CASE Record(w)
  <2> DEFINE p == wk[w].payment
             a == pay[p].attempt
             r == att[a].request
  <2>1. UNCHANGED <<now, order, quotes, calls, owed, ev, sweep>>
    BY <1>3 DEF Record
  <2>2. CASE wk' = [wk EXCEPT ![w].pc = "approve"] /\ UNCHANGED <<pay, req, res, att>>
    BY <2>1, <2>2, <1>h, WorkerMoves DEF TypeOK, WorkerSteps
  <2>3. CASE /\ req' = [req EXCEPT ![r].state = "paid", ![r].paid_by = p]
             /\ \/ /\ pay' = [pay EXCEPT ![p].booked = "applied"]
                   /\ res' = [res EXCEPT ![req[r].reservation].deposit = "paid"]
                \/ UNCHANGED <<pay, res>>
             /\ wk' = [wk EXCEPT ![w].pc = "approve"]
             /\ UNCHANGED att
    <3>1. p \in 0..(MaxPayments + MaxEvidence)
      BY <1>i DEF Payments
    <3>2. \A s \in Requests : [req[s] EXCEPT !.state = "paid", !.paid_by = p] \in RequestRows
      BY <3>1, <1>d DEF RequestRows
    <3>3. req' \in [Requests -> RequestRows]
      BY <2>3, <3>2, <1>d
    <3>4. pay' \in [Payments -> PaymentRows]
      <4>1. \A s \in Payments : [pay[s] EXCEPT !.booked = "applied"] \in PaymentRows
        BY <1>g DEF PaymentRows
      <4>2. pay' = pay \/ pay' = [pay EXCEPT ![p].booked = "applied"]
        BY <2>3
      <4>3. QED
        BY <4>1, <4>2, <1>g
    <3>5. res' \in [Quotes -> ReservationRows]
      <4>1. res' = res \/ \E q : res' = [res EXCEPT ![q].deposit = "paid"]
        BY <2>3
      <4>2. QED
        BY <4>1, PaidRowType, <1>c
    <3>6. wk' \in [Workers -> WorkerStates]
      BY <2>3, <1>h, WorkerMoves DEF WorkerSteps
    <3>7. QED
      BY <2>1, <2>3, <3>3, <3>4, <3>5, <3>6 DEF TypeOK
  <2>4. CASE /\ att' = [att EXCEPT ![a].state = "mismatched"]
             /\ (wk' = [wk EXCEPT ![w].pc = "book_review"] /\ pay' = pay) \/ Finish(w)
             /\ UNCHANGED <<req, res>>
    <3>1. att' \in [Attempts -> AttemptRows]
      BY <2>4, <1>e DEF AttemptRows, AttemptStates
    <3>2. "book_review" \in WorkerSteps
      BY DEF WorkerSteps
    <3>3. (wk' = [wk EXCEPT ![w].pc = "book_review"] /\ pay' = pay) \/ Finish(w)
      BY <2>4
    <3>4. wk' \in [Workers -> WorkerStates] /\ pay' \in [Payments -> PaymentRows]
      BY <3>2, <3>3, <1>g, <1>h, WorkerMoves, FinishType
    <3>5. QED
      BY <2>1, <2>4, <3>1, <3>4 DEF TypeOK
  <2>5. QED
    BY <1>3, <2>2, <2>3, <2>4 DEF Record
<1>4. CASE BookReview(w)
  <2>1. UNCHANGED <<now, order, quotes, res, req, att, calls, owed, ev, sweep>>
        /\ wk' = [wk EXCEPT ![w].pc = "mark"]
        /\ pay' = [pay EXCEPT ![wk[w].payment].booked = IF @ = "none" THEN "unapplied" ELSE @]
    BY <1>4 DEF BookReview
  <2>2. wk' \in [Workers -> WorkerStates]
    BY <2>1, <1>h, WorkerMoves DEF WorkerSteps
  <2>3. \A p \in Payments :
          [pay[p] EXCEPT !.booked = IF @ = "none" THEN "unapplied" ELSE @] \in PaymentRows
    BY <1>g DEF PaymentRows
  <2>4. pay' \in [Payments -> PaymentRows]
    BY <2>1, <2>3, <1>g
  <2>5. QED
    BY <2>1, <2>2, <2>4 DEF TypeOK
<1>5. CASE Mark(w)
  <2>1. Finish(w) /\ UNCHANGED <<now, quotes, res, req, att, calls, owed, ev, sweep>>
    BY <1>5 DEF Mark
  <2>2. MarkNeedsReview(order) \/ order' = order
    BY <1>5 DEF Mark
  <2>3. order' \in OrderRows
    BY <2>2, NeedsReviewType, <1>a
  <2>4. QED
    BY <2>1, <2>3, FinishType, <1>g, <1>h DEF TypeOK
<1>6. CASE Approve(w)
  <2> DEFINE paid == Moved(order, "paid_pending_confirmation")
  <2>1. Finish(w) /\ UNCHANGED <<now, quotes, req, att, calls, owed, ev, sweep>>
    BY <1>6 DEF Approve
  <2>2. \/ order' = order \/ MarkNeedsReview(order)
        \/ order' = Moved(paid, "confirmed") \/ order' = Moved(paid, "paid_needs_review")
    BY <1>6 DEF Approve
  <2>3. order' \in OrderRows
    <3>1. paid \in OrderRows
      BY MovedType, <1>a DEF OrderStates
    <3> HIDE DEF paid
    <3>2. QED
      BY <2>2, <3>1, MovedType, NeedsReviewType, <1>a DEF OrderStates
  <2>4. \/ res' = res
        \/ res' = [res EXCEPT ![order.reservation_id].status = "confirmed",
                              ![order.reservation_id].hold_expires_at = 0]
    BY <1>6 DEF Approve
  <2>5. res' \in [Quotes -> ReservationRows]
    BY <2>4, ConfirmedRowType, <1>c
  <2>6. QED
    BY <2>1, <2>3, <2>5, FinishType, <1>g, <1>h DEF TypeOK
<1>7. CASE Fail(w)
  <2>1. Finish(w) /\ UNCHANGED <<now, quotes, res, req, att, calls, owed, ev, sweep>>
    BY <1>7 DEF Fail
  <2>2. order' = order \/ order' = Moved(order, "payment_failed")
    BY <1>7 DEF Fail
  <2>3. order' \in OrderRows
    BY <2>2, MovedType, <1>a DEF OrderStates
  <2>4. QED
    BY <2>1, <2>3, FinishType, <1>g, <1>h DEF TypeOK
<1>8. CASE WorkerFails(w)
  <2>1. Idle \in WorkerStates
    BY DEF Idle, WorkerStates, WorkerSteps
  <2>2. QED
    BY <1>8, <2>1, <1>h DEF WorkerFails, TypeOK
<1>9. QED
  BY <1>1, <1>2, <1>3, <1>4, <1>5, <1>6, <1>7, <1>8 DEF WorkerStep

(* A request that evidence settled is a request row.                       *)
LEMMA SettledType ==
    ASSUME req \in [Requests -> RequestRows], NEW r, NEW e \in Evidences
    PROVE  SettledBy(r, e) \in [Requests -> RequestRows]
<1>1. MaxPayments + e \in 0..(MaxPayments + MaxEvidence)
  BY DEF Evidences
<1>2. \A row \in RequestRows :
        [row EXCEPT !.state = "paid", !.paid_by = MaxPayments + e] \in RequestRows
  BY <1>1 DEF RequestRows
<1>3. [req EXCEPT ![r].state = "paid", ![r].paid_by = MaxPayments + e] \in [Requests -> RequestRows]
  BY <1>2
<1>4. QED
  BY <1>3 DEF SettledBy

LEMMA ReviewType == TypeOK /\ ReviewNext => TypeOK'
<1> SUFFICES ASSUME TypeOK, NEW e \in Evidences,
                    \/ PrepareApproval(e) \/ BookEvidence(e) \/ ConfirmEvidence(e)
                    \/ RejectEvidence(e) \/ ApplyRejection(e) \/ ReviewStops(e)
             PROVE  TypeOK'
  BY DEF ReviewNext
<1>a. order \in OrderRows
  BY Rows
<1>c. res \in [Quotes -> ReservationRows]
  BY DEF TypeOK
<1>d. req \in [Requests -> RequestRows]
  BY DEF TypeOK
<1>j. ev \in [Evidences -> EvidenceRows]
  BY DEF TypeOK
<1>k. \A review \in {"idle", "prepared", "booked", "rejecting"} :
        [ev EXCEPT ![e].review = review] \in [Evidences -> EvidenceRows]
  BY <1>j DEF EvidenceRows
<1>1. CASE PrepareApproval(e)
  <2>1. order' = order \/ order' = Moved(order, "finance_review")
    BY <1>1 DEF PrepareApproval
  <2>2. order' \in OrderRows
    BY <2>1, MovedType, <1>a DEF OrderStates
  <2>3. QED
    BY <1>1, <2>2, <1>k DEF PrepareApproval, TypeOK
<1>2. CASE BookEvidence(e)
  <2>1. \/ ev' = [ev EXCEPT ![e].review = "booked"]
        \/ \E booked \in {"deposit", "plain"} :
              ev' = [ev EXCEPT ![e].status = "approved", ![e].booked = booked, ![e].review = "booked"]
    BY <1>2 DEF BookEvidence
  <2>2. \A booked \in {"deposit", "plain"} :
          [ev[e] EXCEPT !.status = "approved", !.booked = booked, !.review = "booked"] \in EvidenceRows
    BY <1>j DEF EvidenceRows
  <2>3. ev' \in [Evidences -> EvidenceRows]
    BY <2>1, <2>2, <1>j, <1>k
  <2>4. res' \in [Quotes -> ReservationRows]
    BY <1>2, PaidRowType, <1>c DEF BookEvidence
  <2>5. QED
    BY <1>2, <2>3, <2>4 DEF BookEvidence, TypeOK
<1>3. CASE ConfirmEvidence(e)
  <2>1. ev' = [ev EXCEPT ![e].review = "idle"]
        /\ UNCHANGED <<now, quotes, att, calls, owed, pay, wk, sweep>>
    BY <1>3 DEF ConfirmEvidence
  <2>2. order' = order \/ order' = Moved(order, "confirmed")
    BY <1>3 DEF ConfirmEvidence
  <2>3. order' \in OrderRows
    BY <2>2, MovedType, <1>a DEF OrderStates
  <2>4. \/ res' = res
        \/ res' = [res EXCEPT ![order.reservation_id].status = "confirmed",
                              ![order.reservation_id].hold_expires_at = 0]
    BY <1>3 DEF ConfirmEvidence
  <2>5. res' \in [Quotes -> ReservationRows]
    BY <2>4, ConfirmedRowType, <1>c
  <2>6. req' = req \/ req' = SettledBy(order.payment_request_id, e)
    BY <1>3 DEF ConfirmEvidence
  <2>7. req' \in [Requests -> RequestRows]
    BY <2>6, SettledType, <1>d
  <2>8. QED
    BY <2>1, <2>3, <2>5, <2>7, <1>k DEF TypeOK
<1>4. CASE RejectEvidence(e)
  <2>1. [ev[e] EXCEPT !.status = "rejected", !.review = "rejecting"] \in EvidenceRows
    BY <1>j DEF EvidenceRows
  <2>2. ev' \in [Evidences -> EvidenceRows]
    BY <1>4, <2>1, <1>j DEF RejectEvidence
  <2>3. QED
    BY <1>4, <2>2 DEF RejectEvidence, TypeOK
<1>5. CASE ApplyRejection(e)
  <2>1. order' = order \/ order' = Moved(order, "evidence_rejected")
    BY <1>5 DEF ApplyRejection
  <2>2. order' \in OrderRows
    BY <2>1, MovedType, <1>a DEF OrderStates
  <2>3. QED
    BY <1>5, <2>2, <1>k DEF ApplyRejection, TypeOK
<1>6. CASE ReviewStops(e)
  BY <1>6, <1>k DEF ReviewStops, TypeOK
<1>7. QED
  BY <1>1, <1>2, <1>3, <1>4, <1>5, <1>6

LEMMA SchedulerType == TypeOK /\ SchedulerNext => TypeOK'
<1> SUFFICES ASSUME TypeOK, SchedulerNext PROVE TypeOK'
  OBVIOUS
<1>a. now \in Nat /\ order \in OrderRows
  BY Rows
<1>c. res \in [Quotes -> ReservationRows]
  BY DEF TypeOK
<1>1. CASE SweepSelect
  <2>1. sweep' \in [version : Nat, late : BOOLEAN]
    BY <1>1, <1>a DEF SweepSelect, OrderRows
  <2>2. QED
    BY <1>1, <2>1 DEF SweepSelect, TypeOK
<1>2. CASE SweepExpire
  <2>1. order' \in OrderRows
    <3>1. order' = order \/ order' = Moved(order, "finance_review") \/ order' = Moved(order, "expired")
      BY <1>2 DEF SweepExpire
    <3>2. QED
      BY <3>1, MovedType, <1>a DEF OrderStates
  <2>2. sweep' \in [version : Nat, late : BOOLEAN]
    BY <1>2 DEF SweepExpire
  <2>3. QED
    BY <1>2, <2>1, <2>2 DEF SweepExpire, TypeOK
<1>3. CASE Scrub
  <2>1. order' \in OrderRows
    <3>1. order' = [order EXCEPT !.state_version = @ + 1, !.pii_scrubbed_at = now]
      BY <1>3 DEF Scrub
    <3>2. order.state_version + 1 \in Nat \ {0}
      BY <1>a DEF OrderRows
    <3>3. QED
      BY <3>1, <3>2, <1>a DEF OrderRows, Instants
  <2>2. QED
    BY <1>3, <2>1 DEF Scrub, TypeOK
<1>4. ASSUME NEW q \in Quotes, ExpireHold(q) PROVE TypeOK'
  <2>1. [res[q] EXCEPT !.status = "draft", !.hold_expires_at = 0] \in ReservationRows
    BY <1>c DEF ReservationRows, ReservationStates, Instants
  <2>2. res' \in [Quotes -> ReservationRows]
    BY <1>4, <2>1, <1>c DEF ExpireHold
  <2>3. QED
    BY <1>4, <2>2 DEF ExpireHold, TypeOK
<1>5. ASSUME NEW r \in Requests, ExpireRequest(r) PROVE TypeOK'
  <2>1. req' \in [Requests -> RequestRows]
    BY <1>5 DEF ExpireRequest, TypeOK, RequestRows
  <2>2. att' \in [Attempts -> AttemptRows]
    BY <1>5, ClosedAttemptsType DEF ExpireRequest, TypeOK
  <2>3. QED
    BY <1>5, <2>1, <2>2 DEF ExpireRequest, TypeOK
<1>6. QED
  BY <1>1, <1>2, <1>3, <1>4, <1>5 DEF SchedulerNext

LEMMA StaffType == TypeOK /\ StaffNext => TypeOK'
<1> SUFFICES ASSUME TypeOK, StaffNext PROVE TypeOK'
  OBVIOUS
<1>a. now \in Nat /\ order \in OrderRows
  BY Rows
<1>c. res \in [Quotes -> ReservationRows]
  BY DEF TypeOK
<1>d. req \in [Requests -> RequestRows]
  BY DEF TypeOK
<1>g. pay \in [Payments -> PaymentRows]
  BY DEF TypeOK
<1>1. ASSUME NEW q \in Quotes,
             \/ StaffRehold(q) \/ StaffRelease(q) \/ StaffConfirm(q) \/ StaffCancel(q)
             \/ StaffTender(q)
      PROVE  TypeOK'
  <2>1. UNCHANGED <<now, order, quotes, req, att, calls, owed, pay, ev, wk, sweep>>
    BY <1>1 DEF StaffRehold, StaffRelease, StaffConfirm, StaffCancel, StaffTender
  <2>2. \A status \in ReservationStates, expires \in Nat :
          [res EXCEPT ![q].status = status, ![q].hold_expires_at = expires] \in [Quotes -> ReservationRows]
    BY <1>c DEF ReservationRows, Instants
  <2>3. res' \in [Quotes -> ReservationRows]
    <3>1. CASE StaffRehold(q)
      BY <2>2, <3>1, <1>a DEF StaffRehold, ReservationStates
    <3>2. CASE StaffRelease(q)
      BY <2>2, <3>2 DEF StaffRelease, ReservationStates
    <3>3. CASE StaffConfirm(q)
      BY <2>2, <3>3 DEF StaffConfirm, ReservationStates
    <3>4. CASE StaffCancel(q)
      <4>1. [res[q] EXCEPT !.status = "cancelled", !.hold_expires_at = 0,
                           !.deposit = IF @ = "due" THEN "waived" ELSE @] \in ReservationRows
        BY <1>c DEF ReservationRows, ReservationStates, Instants
      <4>2. QED
        BY <3>4, <4>1, <1>c DEF StaffCancel
    <3>5. CASE StaffTender(q)
      <4>1. [res[q] EXCEPT !.tender = "deposit", !.deposit = "paid"] \in ReservationRows
            /\ [res[q] EXCEPT !.tender = "plain"] \in ReservationRows
        BY <1>c DEF ReservationRows
      <4>2. QED
        BY <3>5, <4>1, <1>c DEF StaffTender
    <3>6. QED
      BY <1>1, <3>1, <3>2, <3>3, <3>4, <3>5
  <2>4. QED
    BY <2>1, <2>3 DEF TypeOK
<1>2. ASSUME NEW r \in Requests, StaffSend(r) \/ StaffRevoke(r) PROVE TypeOK'
  <2>1. req' \in [Requests -> RequestRows]
    <3>1. [req[r] EXCEPT !.hosted = TRUE] \in RequestRows /\ [req[r] EXCEPT !.state = "revoked"] \in RequestRows
      BY <1>d DEF RequestRows
    <3>2. req' = [req EXCEPT ![r].hosted = TRUE] \/ req' = [req EXCEPT ![r].state = "revoked"]
      BY <1>2 DEF StaffSend, StaffRevoke
    <3>3. QED
      BY <3>1, <3>2, <1>d
  <2>2. att' \in [Attempts -> AttemptRows]
    BY <1>2, ClosedAttemptsType DEF StaffSend, StaffRevoke, TypeOK
  <2>3. QED
    BY <1>2, <2>1, <2>2 DEF StaffSend, StaffRevoke, TypeOK
<1>3. ASSUME NEW p \in Payments, Refund(p) PROVE TypeOK'
  <2>1. [pay[p] EXCEPT !.booked = "refunded", !.status = "refunded"] \in PaymentRows
    BY <1>g DEF PaymentRows
  <2>2. pay' \in [Payments -> PaymentRows]
    BY <1>3, <2>1, <1>g DEF Refund
  <2>3. res' = res \/ \E q : res' = [res EXCEPT ![q].deposit = "refunded"]
    BY <1>3 DEF Refund
  <2>4. res' \in [Quotes -> ReservationRows]
    BY <2>3, <1>c DEF ReservationRows
  <2>5. QED
    BY <1>3, <2>2, <2>4 DEF Refund, TypeOK
<1>4. ASSUME NEW p \in Payments, NotifyRefund(p) PROVE TypeOK'
  BY <1>4, MovedType, <1>a DEF NotifyRefund, OrderStates, TypeOK
<1>5. QED
  BY <1>1, <1>2, <1>3, <1>4 DEF StaffNext

LEMMA NextType == TypeOK /\ [Next]_vars => TypeOK'
<1>1. TypeOK /\ UNCHANGED vars => TypeOK'
  BY DEF TypeOK, vars
<1>2. TypeOK /\ Tick => TypeOK'
  BY DEF TypeOK, Tick, Instants
<1>3. QED
  BY <1>1, <1>2, GuestType, CheckoutType, WorkerType, ReviewType, SchedulerType, StaffType DEF Next

(* Every row keeps to its columns, whatever the guest, the provider, the   *)
(* queue workers, the scheduler and staff do and wherever they stop.       *)
THEOREM TypeCorrect == Spec => []TypeOK
BY InitType, NextType, PTL DEF Spec

-----------------------------------------------------------------------------
(* The order's row: all that a step may do to it.  A write that is not the *)
(* scrub is made of accepted transitions, so it moves the version on, and  *)
(* on a scrubbed row it keeps the state; only the sweep expires an order   *)
(* and only the two reconcilers confirm one.                               *)
Confirms == (\E w \in Workers : Approve(w)) \/ (\E e \in Evidences : ConfirmEvidence(e))
Prepares == \E e \in Evidences : PrepareApproval(e)
Write ==
    /\ order'.state_version > order.state_version
    /\ order'.pii_scrubbed_at = order.pii_scrubbed_at
    /\ order.pii_scrubbed_at = 0 \/ order'.state = order.state
    /\ order'.state = "expired" => order.state = "expired"
    /\ order'.state = "confirmed" => order.state = "confirmed" \/ Confirms
    /\ order'.state = "finance_review" => order.state = "finance_review" \/ Prepares
OrderMove == order' = order \/ Scrub \/ SweepExpire \/ Write

(* transition() once, and what its caller adds to the row.                 *)
LEMMA TransitionWrites ==
    ASSUME order \in OrderRows, NEW to \in OrderStates \ {"expired"}, NEW authority,
           MayMove(order, to, authority), to = "confirmed" => Confirms,
           to = "finance_review" => Prepares,
           order'.state = to, order'.state_version = order.state_version + 1,
           order'.pii_scrubbed_at = order.pii_scrubbed_at
    PROVE  Write
BY DEF Write, MayMove, OrderRows

LEMMA MovedWrites ==
    ASSUME order \in OrderRows, NEW to \in OrderStates \ {"expired"}, NEW authority,
           MayMove(order, to, authority), to = "confirmed" => Confirms,
           to = "finance_review" => Prepares,
           order' = Moved(order, to)
    PROVE  Write
<1>1. order'.state = to /\ order'.state_version = order.state_version + 1
  BY MovedType
<1>2. order'.pii_scrubbed_at = order.pii_scrubbed_at
  BY DEF Moved, OrderRows
<1>3. QED
  BY <1>1, <1>2, TransitionWrites

(* A scrubbed order cannot be marked: the review transition is refused.    *)
LEMMA ReviewWrites ==
    ASSUME order \in OrderRows, MarkNeedsReview(order)
    PROVE  order' = order \/ Write
<1> DEFINE n == Normalized(order)
<1>1. n \in OrderRows /\ n.pii_scrubbed_at = order.pii_scrubbed_at
      /\ n.state_version >= order.state_version
      /\ (n = order \/ n.state = "payment_pending")
  <2>1. CASE order.state = "payment_failed"
    <3>1. n = Moved(order, "payment_pending")
      BY <2>1 DEF Normalized
    <3>2. n.pii_scrubbed_at = order.pii_scrubbed_at
      BY <3>1 DEF Moved, OrderRows
    <3>3. order.state_version \in Nat
      BY DEF OrderRows
    <3>4. QED
      BY <3>1, <3>2, <3>3, MovedType DEF OrderStates
  <2>2. CASE order.state # "payment_failed"
    BY <2>2 DEF Normalized, OrderRows
  <2>3. QED
    BY <2>1, <2>2
<1>2. CASE n.state \notin {"payment_pending", "expired"}
  BY <1>1, <1>2 DEF MarkNeedsReview
<1>3. CASE n.state \in {"payment_pending", "expired"}
  <2>1. MayMove(n, "paid_needs_review", "provider") /\ order' = Moved(n, "paid_needs_review")
    BY <1>3 DEF MarkNeedsReview
  <2>2. order.pii_scrubbed_at = 0
    BY <2>1, <1>1, <1>3 DEF MayMove
  <2> HIDE DEF n
  <2>3. order'.state = "paid_needs_review" /\ order'.state_version = n.state_version + 1
    BY <2>1, <1>1, MovedType DEF OrderStates
  <2>4. order'.pii_scrubbed_at = order.pii_scrubbed_at
    BY <2>1, <1>1 DEF Moved, OrderRows
  <2>5. order'.state_version > order.state_version
    BY <2>3, <1>1 DEF OrderRows
  <2>6. QED
    BY <2>2, <2>3, <2>4, <2>5 DEF Write
<1>4. QED
  BY <1>2, <1>3

(* The two transitions approved() makes in its one transaction.            *)
LEMMA TwiceWrites ==
    ASSUME order \in OrderRows, NEW to \in OrderStates \ {"expired"}, NEW authority,
           MayMove(order, "paid_pending_confirmation", "provider"),
           MayMove(Moved(order, "paid_pending_confirmation"), to, authority),
           to \notin {"paid_pending_confirmation", "finance_review"}, Confirms,
           order' = Moved(Moved(order, "paid_pending_confirmation"), to)
    PROVE  Write
<1> DEFINE paid == Moved(order, "paid_pending_confirmation")
<1>1. paid \in OrderRows /\ paid.state = "paid_pending_confirmation"
      /\ paid.state_version = order.state_version + 1
  BY MovedType DEF OrderStates
<1>2. paid.pii_scrubbed_at = order.pii_scrubbed_at
  BY DEF Moved, OrderRows
<1>3. order.pii_scrubbed_at = 0
  BY <1>1, <1>2 DEF MayMove
<1> HIDE DEF paid
<1>4. order'.state = to /\ order'.state_version = paid.state_version + 1
  BY <1>1, MovedType DEF paid
<1>5. order'.pii_scrubbed_at = paid.pii_scrubbed_at
  BY <1>1 DEF Moved, OrderRows, paid
<1>6. order.state_version \in Nat
  BY DEF OrderRows
<1>7. QED
  BY <1>1, <1>2, <1>3, <1>4, <1>5, <1>6 DEF Write

LEMMA GuestMoves == TypeOK /\ GuestNext => OrderMove
<1> SUFFICES ASSUME TypeOK, GuestNext PROVE order' = order \/ Write
  BY DEF OrderMove
<1>a. order \in OrderRows
  BY Rows
<1>b. \A to \in OrderStates :
        /\ Moved(order, to) \in OrderRows
        /\ Moved(order, to).state = to
        /\ Moved(order, to).state_version = order.state_version + 1
        /\ Moved(order, to).pii_scrubbed_at = order.pii_scrubbed_at
  BY <1>a, MovedType DEF Moved, OrderRows
<1>1. CASE Quote
  <2>1. MayMove(order, "quoted", "pricing")
        /\ order' = [Moved(order, "quoted") EXCEPT
                        !.booking_quote_id = quotes + 1, !.quote_expires_at = now + QuoteTtl]
    BY <1>1 DEF Quote
  <2>2. QED
    BY <2>1, <1>a, <1>b, TransitionWrites DEF OrderRows, OrderStates
<1>2. CASE Hold
  <2>1. MayMove(order, "held", "inventory")
        /\ \E expires, r : order' = [Moved(order, "held") EXCEPT
                        !.reservation_id = order.booking_quote_id, !.held_at = now,
                        !.hold_expires_at = expires, !.payment_request_id = r]
    BY <1>2 DEF Hold
  <2>2. QED
    BY <2>1, <1>a, <1>b, TransitionWrites DEF OrderRows, OrderStates
<1>3. CASE IssueHeld
  BY <1>3, <1>a, MovedWrites DEF IssueHeld, OrderStates
<1>4. CASE IssueReplacement
  <2>1. MayMove(order, "payment_pending", "payments")
        /\ \E r : order' = [Moved(order, "payment_pending") EXCEPT !.payment_request_id = r]
    BY <1>4 DEF IssueReplacement
  <2>2. QED
    BY <2>1, <1>a, <1>b, TransitionWrites DEF OrderRows, OrderStates
<1>5. CASE CheckoutManual
  BY <1>5, <1>a, MovedWrites DEF CheckoutManual, OrderStates
<1>6. CASE RetryManual
  BY <1>6, <1>a, MovedWrites DEF RetryManual, OrderStates
<1>7. CASE SubmitEvidence
  BY <1>7, <1>a, MovedWrites DEF SubmitEvidence, OrderStates
<1>8. CASE Recover
  <2>1. MayMove(order, "started", "recovery")
        /\ \E quote, until : order' = [Moved(order, "started") EXCEPT
                        !.booking_quote_id = quote, !.quote_expires_at = until,
                        !.payment_request_id = 0, !.hold_expires_at = 0,
                        !.session_expires_at = now + SessionTtl,
                        !.recovery_expires_at = now + RecoveryTtl]
    <3>1. PICK reprice \in BOOLEAN :
            order' = [Moved(order, "started") EXCEPT
                          !.booking_quote_id = IF reprice THEN quotes + 1 ELSE @,
                          !.quote_expires_at = IF reprice THEN now + QuoteTtl ELSE 0,
                          !.payment_request_id = 0, !.hold_expires_at = 0,
                          !.session_expires_at = now + SessionTtl,
                          !.recovery_expires_at = now + RecoveryTtl]
      BY <1>8 DEF Recover
    <3>2. MayMove(order, "started", "recovery")
      BY <1>8 DEF Recover
    <3>3. QED
      BY <3>1, <3>2
  <2>2. QED
    BY <2>1, <1>a, <1>b, TransitionWrites DEF OrderRows, OrderStates
<1>9. QED
  BY <1>1, <1>2, <1>3, <1>4, <1>5, <1>6, <1>7, <1>8 DEF GuestNext

LEMMA CheckoutMoves == TypeOK /\ CheckoutNext => OrderMove
<1> SUFFICES ASSUME TypeOK, CheckoutNext PROVE order' = order \/ Write
  BY DEF OrderMove
<1>a. order \in OrderRows
  BY Rows
<1>b. \A to \in OrderStates :
        /\ Moved(order, to) \in OrderRows
        /\ Moved(order, to).state = to
        /\ Moved(order, to).state_version = order.state_version + 1
        /\ Moved(order, to).pii_scrubbed_at = order.pii_scrubbed_at
  BY <1>a, MovedType DEF Moved, OrderRows
<1>1. ASSUME NEW a \in Attempts, ExtendCheckout(a) PROVE Write
  <2>1. MayMove(order, "payment_pending", "payments")
    BY <1>1 DEF ExtendCheckout
  <2>2. \/ order' = Moved(order, "payment_pending")
        \/ \E expires : order' = [Moved(order, "payment_pending") EXCEPT
                             !.hold_expires_at = expires, !.hold_extended_at = now]
    BY <1>1 DEF ExtendCheckout
  <2>3. CASE order' = Moved(order, "payment_pending")
    BY <2>1, <2>3, <1>a, MovedWrites DEF OrderStates
  <2>4. CASE \E expires : order' = [Moved(order, "payment_pending") EXCEPT
                               !.hold_expires_at = expires, !.hold_extended_at = now]
    BY <2>1, <2>4, <1>a, <1>b, TransitionWrites DEF OrderRows, OrderStates
  <2>5. QED
    BY <2>2, <2>3, <2>4
<1>2. QED
  BY <1>1 DEF CheckoutNext, OpenCheckout, CheckoutReady, CheckoutFailed, LeaveCheckout,
              GuestPays, ProviderSettles

LEMMA WorkerMovesOrder == TypeOK /\ WorkerNext => OrderMove
<1> SUFFICES ASSUME TypeOK, NEW w \in Workers,
                    \/ WorkerStep(w) \/ WorkerFails(w)
                    \/ \E p \in Payments : Fetch(w, p)
             PROVE  order' = order \/ Write
  BY DEF WorkerNext, OrderMove
<1>a. order \in OrderRows
  BY Rows
<1>1. CASE Mark(w)
  BY <1>1, <1>a, ReviewWrites DEF Mark
<1>2. CASE Approve(w)
  <2>1. CASE MarkNeedsReview(order)
    BY <2>1, <1>a, ReviewWrites
  <2>2. CASE \E to \in {"confirmed", "paid_needs_review"} :
               /\ MayMove(order, "paid_pending_confirmation", "provider")
               /\ MayMove(Moved(order, "paid_pending_confirmation"), to, "reservation")
               /\ order' = Moved(Moved(order, "paid_pending_confirmation"), to)
    BY <1>2, <2>2, <1>a, TwiceWrites DEF OrderStates, Confirms
  <2>3. QED
    BY <1>2, <2>1, <2>2 DEF Approve
<1>3. CASE Fail(w)
  BY <1>3, <1>a, MovedWrites DEF Fail, OrderStates
<1>4. CASE Apply(w) \/ Record(w) \/ BookReview(w) \/ WorkerFails(w) \/ \E p \in Payments : Fetch(w, p)
  BY <1>4 DEF Apply, Record, BookReview, WorkerFails, Fetch
<1>5. QED
  BY <1>1, <1>2, <1>3, <1>4 DEF WorkerStep

LEMMA ReviewMoves == TypeOK /\ ReviewNext => OrderMove
<1> SUFFICES ASSUME TypeOK, NEW e \in Evidences,
                    \/ PrepareApproval(e) \/ BookEvidence(e) \/ ConfirmEvidence(e)
                    \/ RejectEvidence(e) \/ ApplyRejection(e) \/ ReviewStops(e)
             PROVE  order' = order \/ Write
  BY DEF ReviewNext, OrderMove
<1>a. order \in OrderRows
  BY Rows
<1>1. CASE PrepareApproval(e)
  <2>1. Prepares
    BY <1>1 DEF Prepares
  <2>2. QED
    BY <1>1, <2>1, <1>a, MovedWrites DEF PrepareApproval, OrderStates
<1>2. CASE ConfirmEvidence(e)
  <2>1. Confirms
    BY <1>2 DEF Confirms
  <2>2. QED
    BY <1>2, <2>1, <1>a, MovedWrites DEF ConfirmEvidence, OrderStates
<1>3. CASE ApplyRejection(e)
  <2>1. order' = order \/ \E authority :
          MayMove(order, "evidence_rejected", authority) /\ order' = Moved(order, "evidence_rejected")
    BY <1>3 DEF ApplyRejection
  <2>2. QED
    BY <2>1, <1>a, MovedWrites DEF OrderStates
<1>4. CASE BookEvidence(e) \/ RejectEvidence(e) \/ ReviewStops(e)
  BY <1>4 DEF BookEvidence, RejectEvidence, ReviewStops
<1>5. QED
  BY <1>1, <1>2, <1>3, <1>4

LEMMA OrderMoves == TypeOK /\ [Next]_vars => OrderMove
<1> SUFFICES ASSUME TypeOK, [Next]_vars PROVE OrderMove
  OBVIOUS
<1>a. order \in OrderRows
  BY Rows
<1>1. CASE SchedulerNext
  BY <1>1 DEF SchedulerNext, SweepSelect, ExpireHold, ExpireRequest, OrderMove
<1>2. CASE StaffNext
  <2>1. ASSUME NEW p \in Payments, NotifyRefund(p) PROVE OrderMove
    BY <2>1, <1>a, MovedWrites DEF NotifyRefund, OrderStates, OrderMove
  <2>2. QED
    BY <1>2, <2>1 DEF StaffNext, StaffRehold, StaffRelease, StaffConfirm, StaffCancel,
                      StaffTender, StaffSend, StaffRevoke, Refund, OrderMove
<1>3. CASE Tick \/ UNCHANGED vars
  BY <1>3 DEF Tick, vars, OrderMove
<1>4. QED
  BY <1>1, <1>2, <1>3, GuestMoves, CheckoutMoves, WorkerMovesOrder, ReviewMoves DEF Next

-----------------------------------------------------------------------------
(* A scrubbed session stays where it was.                                  *)

LEMMA ScrubbedIsClosedStep == TypeOK /\ ScrubbedIsClosed /\ [Next]_vars => ScrubbedIsClosed'
<1> SUFFICES ASSUME TypeOK, ScrubbedIsClosed, [Next]_vars PROVE ScrubbedIsClosed'
  OBVIOUS
<1>a. order \in OrderRows /\ OrderMove
  BY Rows, OrderMoves
<1>1. CASE Scrub
  BY <1>1, <1>a DEF Scrub, ScrubbedIsClosed, OrderRows
<1>2. CASE SweepExpire
  <2> DEFINE to == IF sweep.late THEN "finance_review" ELSE "expired"
  <2>1. order' = order \/ (MayMove(order, to, "scheduler") /\ order' = Moved(order, to))
    BY <1>2 DEF SweepExpire
  <2>2. CASE order' = Moved(order, to) /\ MayMove(order, to, "scheduler")
    <3>1. order'.pii_scrubbed_at = order.pii_scrubbed_at /\ order'.state = to
      <4>1. to \in OrderStates
        BY DEF OrderStates
      <4> HIDE DEF to
      <4>2. order'.state = to
        BY <2>2, <4>1, <1>a, MovedType
      <4>3. order'.pii_scrubbed_at = order.pii_scrubbed_at
        BY <2>2, <1>a DEF Moved, OrderRows
      <4>4. QED
        BY <4>2, <4>3
    <3>2. order.pii_scrubbed_at # 0 => to = order.state
      BY <2>2 DEF MayMove
    <3>3. QED
      BY <3>1, <3>2 DEF ScrubbedIsClosed
  <2>3. QED
    BY <2>1, <2>2 DEF ScrubbedIsClosed
<1>3. CASE Write \/ order' = order
  BY <1>3 DEF Write, ScrubbedIsClosed
<1>4. QED
  BY <1>a, <1>1, <1>2, <1>3 DEF OrderMove

(* transition() and recordPiiScrubbed: once the retention scrub has taken  *)
(* an order's contact data nothing, not a late payment either, moves it    *)
(* out of the closed states.                                               *)
THEOREM ScrubbedStaysClosed == Spec => []ScrubbedIsClosed
<1>1. Init => ScrubbedIsClosed
  BY DEF Init, ScrubbedIsClosed
<1>2. QED
  BY <1>1, ScrubbedIsClosedStep, TypeCorrect, PTL DEF Spec

-----------------------------------------------------------------------------
(* The maintenance command writes rows it read before.  What makes that    *)
(* safe is the version: every write of the row takes a larger one, so the  *)
(* version read still being there means that the row is the one read, and  *)
(* a deadline that had passed then has passed now.                         *)
SweepInv ==
    /\ sweep.version <= order.state_version
    /\ sweep.version = order.state_version =>
          /\ Due(order)
          /\ sweep.late <=> order.state = "evidence_pending"

LEMMA SweepSteps ==
    [Next]_vars => \/ SweepSelect \/ SweepExpire
                   \/ sweep' = sweep /\ (now' = now \/ (now' = now + 1 /\ order' = order))
<1>1. GuestNext => sweep' = sweep /\ now' = now
  BY DEF GuestNext, Quote, Hold, IssueHeld, IssueReplacement, CheckoutManual, RetryManual,
         SubmitEvidence, Recover
<1>2. CheckoutNext => sweep' = sweep /\ now' = now
  BY DEF CheckoutNext, OpenCheckout, CheckoutReady, CheckoutFailed, ExtendCheckout,
         LeaveCheckout, GuestPays, ProviderSettles
<1>3. WorkerNext => sweep' = sweep /\ now' = now
  BY DEF WorkerNext, WorkerStep, WorkerFails, Fetch, Apply, Record, BookReview, Mark, Approve, Fail
<1>4. ReviewNext => sweep' = sweep /\ now' = now
  BY DEF ReviewNext, PrepareApproval, BookEvidence, ConfirmEvidence, RejectEvidence,
         ApplyRejection, ReviewStops
<1>5. SchedulerNext => SweepSelect \/ SweepExpire \/ (sweep' = sweep /\ now' = now)
  BY DEF SchedulerNext, Scrub, ExpireHold, ExpireRequest
<1>6. StaffNext => sweep' = sweep /\ now' = now
  BY DEF StaffNext, StaffRehold, StaffRelease, StaffConfirm, StaffCancel, StaffTender,
         StaffSend, StaffRevoke, Refund, NotifyRefund
<1>7. Tick => sweep' = sweep /\ now' = now + 1 /\ order' = order
  BY DEF Tick
<1>8. UNCHANGED vars => sweep' = sweep /\ now' = now
  BY DEF vars
<1>9. QED
  BY <1>1, <1>2, <1>3, <1>4, <1>5, <1>6, <1>7, <1>8 DEF Next

LEMMA SweepInvStep == TypeOK /\ SweepInv /\ [Next]_vars => SweepInv'
<1> SUFFICES ASSUME TypeOK, SweepInv, [Next]_vars PROVE SweepInv'
  OBVIOUS
<1>a. order \in OrderRows /\ now \in Nat
  BY Rows
<1>b. sweep.version \in Nat
  BY DEF TypeOK
<1>c. order.state_version \in Nat \ {0}
  BY <1>a DEF OrderRows
<1>1. CASE SweepSelect
  <2>1. sweep' = [version |-> order.state_version, late |-> order.state = "evidence_pending"]
        /\ Due(order) /\ order' = order /\ now' = now
    BY <1>1 DEF SweepSelect
  <2>2. Due(order)'
    BY <2>1 DEF Due
  <2>3. sweep'.version = order'.state_version /\ sweep'.late = (order'.state = "evidence_pending")
    BY <2>1
  <2>4. order'.state_version <= order'.state_version
    BY <2>1, <1>c
  <2>5. QED
    BY <2>2, <2>3, <2>4 DEF SweepInv
<1>2. CASE SweepExpire
  <2>1. sweep'.version = 0
    BY <1>2 DEF SweepExpire
  <2>2. order'.state_version \in Nat \ {0}
    <3>1. order' \in OrderRows
      BY NextType DEF TypeOK
    <3>2. QED
      BY <3>1 DEF OrderRows
  <2>3. QED
    BY <2>1, <2>2 DEF SweepInv
<1>3. CASE sweep' = sweep /\ order' = order /\ (now' = now \/ now' = now + 1)
  <2>1. Due(order) => Due(order)'
    <3>1. order.session_expires_at \in Nat /\ order.quote_expires_at \in Nat
          /\ order.hold_expires_at \in Nat
      BY <1>a DEF OrderRows, Instants
    <3>2. QED
      BY <1>3, <3>1, <1>a DEF Due
  <2>2. QED
    BY <1>3, <2>1 DEF SweepInv
<1>4. CASE sweep' = sweep /\ order'.state_version > order.state_version
  <2>1. order'.state_version \in Nat
    <3>1. order' \in OrderRows
      BY NextType DEF TypeOK
    <3>2. QED
      BY <3>1 DEF OrderRows
  <2>2. QED
    BY <1>4, <2>1, <1>b, <1>c DEF SweepInv
<1>5. Scrub => order'.state_version > order.state_version
  BY <1>a, <1>c DEF Scrub, OrderRows
<1>6. QED
  BY <1>1, <1>2, <1>3, <1>4, <1>5, SweepSteps, OrderMoves DEF OrderMove, Write

LEMMA SweepInvariant == Spec => [](TypeOK /\ SweepInv)
<1>1. Init => SweepInv
  BY DEF Init, SweepInv
<1>2. QED
  BY <1>1, InitType, NextType, SweepInvStep, PTL DEF Spec

(* An order expires by the sweep alone, past the deadline of its state.    *)
LEMMA ExpiresWhenDue ==
    ASSUME TypeOK, SweepInv, [Next]_vars, order'.state = "expired", order.state # "expired"
    PROVE  SweepExpire /\ Due(order) /\ order.state # "evidence_pending"
<1>1. order \in OrderRows /\ OrderMove
  BY Rows, OrderMoves
<1>2. SweepExpire
  BY <1>1 DEF OrderMove, Write, Scrub, OrderRows
<1>3. StillSelected /\ order' = Moved(order, IF sweep.late THEN "finance_review" ELSE "expired")
  BY <1>2 DEF SweepExpire
<1>4. ~sweep.late
  BY <1>1, <1>3, MovedType DEF OrderStates
<1>5. QED
  BY <1>2, <1>3, <1>4 DEF SweepInv, StillSelected

(* Evidence goes to Finance when staff begin to approve an upload, or by   *)
(* the sweep past the deadline of the hold.                                *)
LEMMA EscalatesWhenDue ==
    ASSUME TypeOK, SweepInv, [Next]_vars,
           order.state = "evidence_pending", order'.state = "finance_review", ev' = ev
    PROVE  order.hold_expires_at <= now
<1>1. order \in OrderRows /\ OrderMove
  BY Rows, OrderMoves
<1>2. ~Prepares
  <2>1. SUFFICES ASSUME NEW e \in Evidences, PrepareApproval(e) PROVE FALSE
    BY DEF Prepares
  <2>2. ev[e].review = "idle" /\ ev' = [ev EXCEPT ![e].review = "prepared"]
    BY <2>1 DEF PrepareApproval
  <2>3. ev'[e].review = "prepared"
    BY <2>2 DEF TypeOK, EvidenceRows
  <2>4. QED
    BY <2>2, <2>3
<1>3. SweepExpire
  BY <1>1, <1>2 DEF OrderMove, Write, Scrub, OrderRows
<1>4. StillSelected
  BY <1>3 DEF SweepExpire
<1>5. QED
  BY <1>4 DEF SweepInv, StillSelected, Due

(* direct-booking:maintain: no order expires before the deadline of its    *)
(* state, or while Finance reviews its evidence, and evidence is escalated *)
(* past the hold's deadline only, however long ago the batch was read and  *)
(* whatever happened to the order since.                                   *)
THEOREM NeverExpiredEarly == Spec => ExpiredOnlyWhenDue
<1>1. TypeOK /\ SweepInv /\ [Next]_vars =>
        [/\ order'.state = "expired" /\ order.state # "expired"
              => Due(order) /\ order.state # "evidence_pending"
         /\ order.state = "evidence_pending" /\ order'.state = "finance_review" /\ ev' = ev
              => order.hold_expires_at <= now]_vars
  BY ExpiresWhenDue, EscalatesWhenDue
<1>2. QED
  BY <1>1, SweepInvariant, PTL DEF Spec, ExpiredOnlyWhenDue

-----------------------------------------------------------------------------
(* Only the two reconcilers confirm an order, and over a running hold.     *)
OverLiveHold ==
    /\ OrderReservation.status = "hold"
    /\ OrderReservation.hold_expires_at > now /\ order.hold_expires_at > now
    /\ res'[order.reservation_id].status = "confirmed"

LEMMA ConfirmsWhenLive ==
    ASSUME TypeOK, [Next]_vars, order'.state = "confirmed", order.state # "confirmed"
    PROVE  Confirms /\ OverLiveHold
<1>a. order \in OrderRows /\ OrderMove /\ res \in [Quotes -> ReservationRows]
  BY Rows, OrderMoves DEF TypeOK
<1>b. order.reservation_id \in Quotes \cup {0}
  BY Rows
<1>1. Confirms
  <2>1. SweepExpire => order' = order \/ order'.state \in {"expired", "finance_review"}
    BY <1>a, MovedType DEF SweepExpire, OrderStates
  <2>2. Scrub => order'.state = order.state
    BY <1>a DEF Scrub, OrderRows
  <2>3. QED
    BY <1>a, <2>1, <2>2 DEF OrderMove, Write
<1>2. ASSUME NEW w \in Workers, Approve(w) PROVE OverLiveHold
  <2>1. MarkNeedsReview(order) => order'.state # "confirmed" \/ order' = order
    <3>1. Normalized(order) = order \/ Normalized(order).state = "payment_pending"
      BY <1>a, MovedType DEF Normalized, OrderStates
    <3>2. Normalized(order) \in OrderRows
      BY <1>a, MovedType DEF Normalized, OrderStates
    <3>3. Moved(Normalized(order), "paid_needs_review").state = "paid_needs_review"
      BY <3>2, MovedType DEF OrderStates
    <3>4. QED
      BY <3>1, <3>3 DEF MarkNeedsReview
  <2>2. Moved(Moved(order, "paid_pending_confirmation"), "paid_needs_review").state = "paid_needs_review"
    BY <1>a, MovedType DEF OrderStates
  <2>3. LiveHold /\ res' = [res EXCEPT ![order.reservation_id].status = "confirmed",
                                       ![order.reservation_id].hold_expires_at = 0]
    BY <1>2, <2>1, <2>2 DEF Approve, Confirmable
  <2>4. order.reservation_id \in Quotes
    BY <1>b, <2>3 DEF LiveHold
  <2>5. res'[order.reservation_id].status = "confirmed"
    BY <1>a, <2>3, <2>4 DEF ReservationRows
  <2>6. QED
    BY <2>3, <2>5 DEF LiveHold, Future, OverLiveHold
<1>3. ASSUME NEW e \in Evidences, ConfirmEvidence(e) PROVE OverLiveHold
  <2>1. /\ OrderOfEvidence(e)
        /\ OrderReservation.status = "hold" /\ Future(OrderReservation.hold_expires_at)
        /\ Future(order.hold_expires_at)
        /\ res' = [res EXCEPT ![order.reservation_id].status = "confirmed",
                              ![order.reservation_id].hold_expires_at = 0]
    BY <1>3 DEF ConfirmEvidence
  <2>2. order.reservation_id \in Quotes
    BY <1>b, <2>1 DEF OrderOfEvidence
  <2>3. res'[order.reservation_id].status = "confirmed"
    BY <1>a, <2>1, <2>2 DEF ReservationRows
  <2>4. QED
    BY <2>1, <2>3 DEF Future, OverLiveHold
<1>4. QED
  BY <1>1, <1>2, <1>3 DEF Confirms

(* approved(), in both reconcilers: an order is confirmed, by a payment or *)
(* by evidence, only over a hold that is still running on the reservation  *)
(* and on the order, and in the same step the hold becomes the confirmed   *)
(* reservation: what expires or is cancelled meanwhile is never sold.      *)
THEOREM ConfirmedOverLiveHold == Spec => ConfirmsOnlyLiveHolds
<1>1. TypeOK /\ [Next]_vars =>
        [order'.state = "confirmed" /\ order.state # "confirmed"
         => /\ OrderReservation.status = "hold"
            /\ OrderReservation.hold_expires_at > now /\ order.hold_expires_at > now
            /\ res'[order.reservation_id].status = "confirmed"]_vars
  BY ConfirmsWhenLive DEF OverLiveHold
<1>2. QED
  BY <1>1, TypeCorrect, PTL DEF Spec, ConfirmsOnlyLiveHolds
=============================================================================
