------------------------------- MODULE Refunds -------------------------------
(***************************************************************************)
(* One payment taken by the provider and the ways its money goes back:     *)
(* refunds that staff request and Finance executes, recovers or completes, *)
(* and chargebacks the provider reports.  The folio and the rows live in   *)
(* Inn; `remote' and `claims' are the provider's, seen only through calls. *)
(*                                                                         *)
(* A remote call is never inside a transaction, so executing and           *)
(* recovering a refund are several steps of a worker, which may stop       *)
(* between any two.  Direct booking's own notice of a refund is in         *)
(* DirectBooking; promotions, receipts and audit entries are left out.     *)
(***************************************************************************)
EXTENDS Integers, FiniteSets, FiniteSetsExt

CONSTANTS
    Requests,       \* refund requests
    Disputes,       \* chargebacks
    Finance,        \* callers of execute and recover, the schedule among them
    Scheduler,      \* the one of them that runs payments:recover-refunds
    Queue,          \* queue workers that process chargeback notifications
    Ids,            \* refund identities the provider gives
    Typo,           \* an identity the provider never gave
    Paid,           \* the payment's amount
    Disputed,       \* dispute -> amount
    Costs,          \* what the stay may come to cost
    MaxNews,        \* bound: notifications of one dispute waiting at a time
    None            \* a NULL column

ASSUME MoneyAssumption ==
    /\ Paid \in Nat \ {0} /\ Costs \subseteq Nat /\ MaxNews \in Nat
    /\ Disputed \in [Disputes -> 1..Paid]
ASSUME NamesAssumption ==
    /\ Scheduler \in Finance /\ Finance \cap Queue = {}
    /\ IsFiniteSet(Requests) /\ IsFiniteSet(Disputes) /\ IsFiniteSet(Ids)
    /\ Typo \notin Ids /\ None \notin Ids \cup {Typo} \cup Requests \cup Disputes

VARIABLES
    stay,       \* what the folio charges apart from this payment
    folio,      \* folio_status
    req,        \* refund_requested changes, and whether a refund_completed follows
    exe,        \* provider_refunds
    refunded,   \* whether the payment's status is refunded
    disp,       \* provider_disputes and their folio lines
    remote,     \* the provider's refunds
    claims,     \* the provider's chargebacks
    news,       \* dispute -> notifications not yet processed
    wk          \* workers

ledger == <<stay, folio, req, refunded>>
vars == <<stay, folio, req, exe, refunded, disp, remote, claims, news, wk>>

Typed == Ids \cup {Typo}
RefundStates == {"none", "requested", "processing", "succeeded", "mismatched"}
DisputeStates == {"none", "open", "under_review", "won", "lost"}
ClaimStates == {"none", "opened", "in_process", "settled", "reimbursed"}
Steps == {"idle", "asked", "calling", "answered", "recover", "fetch", "fetched", "facts"}

TypeOK ==
    /\ stay \in Nat /\ folio \in {"open", "closed"} /\ refunded \in BOOLEAN
    /\ req \in [Requests -> [amount: 0..Paid, completed: BOOLEAN,
                             reference: Typed \cup {None, "by hand"}]]
    /\ exe \in [Requests -> [state: RefundStates, id: Typed \cup {None}]]
    /\ disp \in [Disputes -> [state: DisputeStates, line: 0..Paid, reversed: BOOLEAN,
                              impact: {"none", "pending_finance", "applied", "reversed"}]]
    /\ remote \in [Ids -> [key: Requests \cup {None}, amount: 0..Paid,
                           status: {"none", "pending", "approved", "rejected"}]]
    /\ claims \in [Disputes -> ClaimStates] /\ news \in [Disputes -> Nat]
    /\ wk \in [Finance \cup Queue ->
                 [step: Steps, about: Requests \cup Disputes \cup {None},
                  id: Typed \cup {None},
                  read: {"", "ok", "wrong"} \cup ClaimStates \cup RefundStates]]

-----------------------------------------------------------------------------
(* The folio.                                                              *)

Least(x, y) == IF x < y THEN x ELSE y
Positive(x) == IF x > 0 THEN x ELSE 0

Completed == MapThenSumSet(LAMBDA r : req[r].amount, {r \in Requests : req[r].completed})
OpenRequests == MapThenSumSet(LAMBDA r : req[r].amount, {r \in Requests : ~req[r].completed})
Standing(d) == disp[d].line > 0 /\ ~disp[d].reversed
ChargedBack == MapThenSumSet(LAMBDA d : disp[d].line, {d \in Disputes : Standing(d)})
Balance == stay - Paid + Completed + ChargedBack

(* A discount, or the rest of a cancelled stay, leaves the guest credit.   *)
ReduceStay ==
    /\ folio = "open"
    /\ stay' \in Costs /\ stay' < stay
    /\ UNCHANGED <<folio, req, exe, refunded, disp, remote, claims, news, wk>>

CloseFolio ==
    /\ folio = "open" /\ Balance = 0
    /\ folio' = "closed"
    /\ UNCHANGED <<stay, req, exe, refunded, disp, remote, claims, news, wk>>

ReopenFolio ==
    /\ folio = "closed"
    /\ folio' = "open"
    /\ UNCHANGED <<stay, req, exe, refunded, disp, remote, claims, news, wk>>

-----------------------------------------------------------------------------
(* Requests and their completion.                                          *)

(* Mutant: requests that are still open are not set aside.                 *)
BugRefundable == Least(Positive(Paid - Completed), Positive(-Balance))

(* What RequestRefund finds left on the payment and on the guest's credit. *)
Refundable == Least(Positive(Paid - Completed - OpenRequests),
                    Positive(-Balance - OpenRequests))

Request(r) ==
    /\ req[r].amount = 0 /\ ~refunded
    /\ \E amount \in 1..Refundable : req' = [req EXCEPT ![r].amount = amount]
    /\ UNCHANGED <<stay, folio, exe, refunded, disp, remote, claims, news, wk>>

LostChargebacks ==
    MapThenSumSet(LAMBDA d : Disputed[d],
        {d \in Disputes : disp[d].state = "lost" /\ disp[d].impact = "applied"})

MayComplete(r) ==
    /\ folio = "open" /\ ~refunded
    /\ Completed + req[r].amount <= Positive(Paid - LostChargebacks)

(* CompleteRefund::handle on a request without a completion.               *)
Complete(r, reference) ==
    /\ MayComplete(r)
    /\ req' = [req EXCEPT ![r].completed = TRUE, ![r].reference = reference]
    /\ refunded' = (Completed + req[r].amount = Paid)
    /\ UNCHANGED <<stay, folio>>

(* Staff complete a request with a reference of their own; the command     *)
(* does not ask whether the provider holds the money.                      *)
CompleteByHand(r) ==
    /\ req[r].amount > 0 /\ ~req[r].completed
    /\ Complete(r, "by hand")
    /\ UNCHANGED <<exe, disp, remote, claims, news, wk>>

-----------------------------------------------------------------------------
(* Executing a refund at the provider.                                     *)

Idle == [step |-> "idle", about |-> None, id |-> None, read |-> ""]
At(step, r, id) == [step |-> step, about |-> r, id |-> id, read |-> ""]
Goes(w, next) == wk' = [wk EXCEPT ![w] = next]
Settled(r) == exe[r].state = "succeeded" /\ req[r].completed

(* The unique index on provider_refund_id.                                 *)
Taken(r, id) == \E s \in Requests \ {r} : exe[s].id = id

(* ExecuteProviderRefund, its transaction: the row, made at the first call. *)
Execute(w, r) ==
    /\ wk[w].step = "idle" /\ req[r].amount > 0 /\ ~Settled(r)
    /\ exe' = [exe EXCEPT ![r].state = IF @ = "none" THEN "requested" ELSE @]
    /\ Goes(w, IF exe[r].id = None
               THEN [At("asked", r, None) EXCEPT !.read = exe'[r].state]
               ELSE At("recover", r, exe[r].id))
    /\ UNCHANGED <<stay, folio, req, refunded, disp, remote, claims, news>>

(* The update before the call looks at nothing; it writes what differs     *)
(* from the row as this worker read it.                                    *)
MarkProcessing(w) ==
    /\ wk[w].step = "asked"
    /\ exe' = [exe EXCEPT ![wk[w].about].state =
                  IF wk[w].read = "processing" THEN @ ELSE "processing"]
    /\ Goes(w, At("calling", wk[w].about, None))
    /\ UNCHANGED <<stay, folio, req, refunded, disp, remote, claims, news>>

Returned == MapThenSumSet(LAMBDA i : remote[i].amount,
                          {i \in Ids : remote[i].status \in {"pending", "approved"}})
Unused == {i \in Ids : remote[i].status = "none"}
New(i, key, amount, status) ==
    remote' = [remote EXCEPT ![i] = [key |-> key, amount |-> amount, status |-> status]]

(* The provider refunds once per idempotency key and never more than was   *)
(* paid; then its answer arrives, or is lost, or it refuses.               *)
Call(w) ==
    LET r == wk[w].about
        known == {i \in Ids : remote[i].key = r}
    IN  /\ wk[w].step = "calling"
        /\ \/ \E i \in IF known = {} THEN Unused ELSE known :
                 /\ IF known = {}
                    THEN /\ Returned + req[r].amount <= Paid
                         /\ \E status \in {"pending", "approved"} :
                                New(i, r, req[r].amount, status)
                    ELSE UNCHANGED remote
                 /\ \/ Goes(w, [At("answered", r, i) EXCEPT
                          !.read = IF remote'[i].status = "approved" THEN "ok" ELSE "wrong"])
                    \/ Goes(w, Idle)
           \/ Goes(w, Idle) /\ UNCHANGED remote
        /\ UNCHANGED <<stay, folio, req, exe, refunded, disp, claims, news>>

(* The answer is written over whatever the row says now: the identity, or  *)
(* the state, which this worker last saw processing, if it changes.        *)
TakeAnswer(w) ==
    LET r == wk[w].about
        i == wk[w].id
    IN  /\ wk[w].step = "answered"
        /\ IF wk[w].read # "ok"
           THEN /\ exe' = [exe EXCEPT ![r].state = "mismatched"]
                /\ Goes(w, Idle)
           ELSE IF Taken(r, i)
           THEN Goes(w, Idle) /\ UNCHANGED exe
           ELSE /\ exe' = [exe EXCEPT ![r].id = i]
                /\ Goes(w, At("recover", r, i))
        /\ UNCHANGED <<stay, folio, req, refunded, disp, remote, claims, news>>

-----------------------------------------------------------------------------
(* Recovering a refund: RecoverProviderRefund.                             *)

(* Finance names the identity they see at the provider, or mistype it.     *)
AskRecovery(w, r, i) ==
    /\ wk[w].step = "idle" /\ w # Scheduler
    /\ exe[r].state # "none"
    /\ i \in {Typo} \cup (Ids \ Unused)
    /\ Goes(w, At("recover", r, i))
    /\ UNCHANGED <<stay, folio, req, exe, refunded, disp, remote, claims, news>>

(* Mutant: the command looks for rows the provider was never asked about.  *)
BugScheduleRecovery(r) ==
    /\ wk[Scheduler].step = "idle"
    /\ exe[r].state = "requested" /\ exe[r].id # None
    /\ Goes(Scheduler, At("recover", r, exe[r].id))
    /\ UNCHANGED <<stay, folio, req, exe, refunded, disp, remote, claims, news>>

(* payments:recover-refunds picks up a row that is stuck.                  *)
ScheduleRecovery(r) ==
    /\ wk[Scheduler].step = "idle"
    /\ exe[r].state = "processing" /\ exe[r].id # None
    /\ Goes(Scheduler, At("recover", r, exe[r].id))
    /\ UNCHANGED <<stay, folio, req, exe, refunded, disp, remote, claims, news>>

(* The first transaction records the identity, unless another is recorded. *)
Claim(w) ==
    LET r == wk[w].about
        i == wk[w].id
    IN  /\ wk[w].step = "recover"
        /\ IF exe[r].id \notin {None, i} \/ Settled(r) \/ Taken(r, i)
           THEN Goes(w, Idle) /\ UNCHANGED exe
           ELSE /\ exe' = [exe EXCEPT ![r] = [state |-> "processing", id |-> i]]
                /\ Goes(w, At("fetch", r, i))
        /\ UNCHANGED <<stay, folio, req, refunded, disp, remote, claims, news>>

(* Mutant: any refund the provider knows will do.                          *)
BugMatches(r, i) == remote[i].status # "none"

Matches(r, i) == remote[i].status = "approved" /\ remote[i].amount = req[r].amount

(* The authoritative lookup; an unknown identity throws.                   *)
FetchRefund(w) ==
    LET r == wk[w].about
        i == wk[w].id
    IN  /\ wk[w].step = "fetch"
        /\ IF i \in {Typo} \cup Unused
           THEN Goes(w, Idle)
           ELSE Goes(w, [At("fetched", r, i) EXCEPT
                            !.read = IF Matches(r, i) THEN "ok" ELSE "wrong"])
        /\ UNCHANGED <<stay, folio, req, exe, refunded, disp, remote, claims, news>>

(* Mutant: the refund is marked succeeded before its completion is tried.  *)
BugFinishMatched(r, i) ==
    /\ exe[r].id = i
    /\ exe' = [exe EXCEPT ![r].state = "succeeded"]
    /\ IF ~req[r].completed /\ MayComplete(r) THEN Complete(r, i) ELSE UNCHANGED ledger

(* The completion and the row's success commit together or not at all.     *)
FinishMatched(r, i) ==
    IF exe[r].id = i /\ ~Settled(r) /\ (req[r].completed \/ MayComplete(r))
    THEN /\ exe' = [exe EXCEPT ![r].state = "succeeded"]
         /\ IF req[r].completed THEN UNCHANGED ledger ELSE Complete(r, i)
    ELSE UNCHANGED <<exe, stay, folio, req, refunded>>

FinishRecovery(w) ==
    LET r == wk[w].about
        i == wk[w].id
    IN  /\ wk[w].step = "fetched"
        /\ IF wk[w].read = "ok" THEN FinishMatched(r, i)
           ELSE /\ exe' = [exe EXCEPT ![r].state = IF @ = "succeeded" THEN @ ELSE "mismatched"]
                /\ UNCHANGED ledger
        /\ Goes(w, Idle)
        /\ UNCHANGED <<disp, remote, claims, news>>

-----------------------------------------------------------------------------
(* Chargebacks: ProcessProviderEvent on a queue worker.                    *)

FetchDispute(q, d) ==
    /\ wk[q].step = "idle" /\ news[d] > 0
    /\ news' = [news EXCEPT ![d] = @ - 1]
    /\ Goes(q, [At("facts", d, None) EXCEPT !.read = claims[d]])
    /\ UNCHANGED <<stay, folio, req, exe, refunded, disp, remote, claims>>

(* Mutant: the provider's word is stored as it came.                       *)
BugStateOf(claim) == claim

StateOf(claim) ==
    CASE claim = "settled" -> "lost"
      [] claim = "reimbursed" -> "won"
      [] claim = "in_process" -> "under_review"
      [] OTHER -> "open"

(* Mutant: refunds already made are not counted.                           *)
BugChargeable(d) == Least(Disputed[d], Positive(Paid - ChargedBack))

(* What is left to charge back.                                            *)
Chargeable(d) == Least(Disputed[d], Positive(Paid - Completed - ChargedBack))

(* applyImpact(): the row of dispute d once its state is `state'.          *)
Impact(d, state) ==
    LET row == [disp[d] EXCEPT !.state = state]
    IN  CASE state = "lost" /\ row.line = 0 ->
               IF folio = "closed" THEN [row EXCEPT !.impact = "pending_finance"]
               ELSE IF Chargeable(d) = 0 THEN [row EXCEPT !.impact = "none"]
               ELSE [row EXCEPT !.line = Chargeable(d), !.impact = "applied"]
          [] state = "won" /\ row.line > 0 /\ ~row.reversed ->
               IF folio = "closed" THEN [row EXCEPT !.impact = "pending_finance"]
               ELSE [row EXCEPT !.reversed = TRUE, !.impact = "reversed"]
          [] state = "under_review" -> [row EXCEPT !.impact = "pending_finance"]
          [] OTHER -> row

(* Finance may reverse any line of an open folio by hand; the dispute's    *)
(* own row does not change.                                                *)
ReverseChargeback(d) ==
    /\ folio = "open" /\ Standing(d)
    /\ disp' = [disp EXCEPT ![d].reversed = TRUE]
    /\ UNCHANGED <<stay, folio, req, exe, refunded, remote, claims, news, wk>>

RecordDispute(q) ==
    LET d == wk[q].about
    IN  /\ wk[q].step = "facts"
        /\ disp' = [disp EXCEPT ![d] = Impact(d, StateOf(wk[q].read))]
        /\ Goes(q, Idle)
        /\ UNCHANGED <<stay, folio, req, exe, refunded, remote, claims, news>>

-----------------------------------------------------------------------------
(* The provider, and failures.                                             *)

DashboardRefund(i, amount) ==
    /\ i \in Unused /\ Returned + amount <= Paid
    /\ New(i, None, amount, "approved")
    /\ UNCHANGED <<stay, folio, req, exe, refunded, disp, claims, news, wk>>

RefundDecided(i) ==
    /\ remote[i].status = "pending"
    /\ \E status \in {"approved", "rejected"} : remote' = [remote EXCEPT ![i].status = status]
    /\ UNCHANGED <<stay, folio, req, exe, refunded, disp, claims, news, wk>>

ClaimMoves(d) ==
    /\ claims' = [claims EXCEPT ![d] =
                    CASE @ = "none" -> "opened" [] @ = "opened" -> "in_process"
                      [] @ = "in_process" -> "settled" [] OTHER -> "reimbursed"]
    /\ claims[d] # "reimbursed" /\ news[d] < MaxNews
    /\ news' = [news EXCEPT ![d] = @ + 1]
    /\ UNCHANGED <<stay, folio, req, exe, refunded, disp, remote, wk>>

(* A worker stops; the queue gives its notification to another.  The       *)
(* scheduled command may stop too, but leaves no rows that one of Finance  *)
(* would not.                                                              *)
Crash(w) ==
    /\ w # Scheduler /\ wk[w].step # "idle"
    /\ Goes(w, Idle)
    /\ news' = IF w \in Queue THEN [news EXCEPT ![wk[w].about] = @ + 1] ELSE news
    /\ UNCHANGED <<stay, folio, req, exe, refunded, disp, remote, claims>>

-----------------------------------------------------------------------------
Init ==
    /\ stay = Paid /\ folio = "open" /\ refunded = FALSE
    /\ req = [r \in Requests |-> [amount |-> 0, completed |-> FALSE, reference |-> None]]
    /\ exe = [r \in Requests |-> [state |-> "none", id |-> None]]
    /\ disp = [d \in Disputes |-> [state |-> "none", line |-> 0, reversed |-> FALSE,
                                   impact |-> "none"]]
    /\ remote = [i \in Ids |-> [key |-> None, amount |-> 0, status |-> "none"]]
    /\ claims = [d \in Disputes |-> "none"] /\ news = [d \in Disputes |-> 0]
    /\ wk = [w \in Finance \cup Queue |-> Idle]

Works(w) ==
    \/ MarkProcessing(w) \/ Call(w) \/ TakeAnswer(w)
    \/ Claim(w) \/ FetchRefund(w) \/ FinishRecovery(w)

Next ==
    \/ ReduceStay \/ CloseFolio \/ ReopenFolio
    \/ \E r \in Requests : Request(r) \/ CompleteByHand(r) \/ ScheduleRecovery(r)
    \/ \E w \in Finance, r \in Requests :
          \/ w # Scheduler /\ Execute(w, r)
          \/ \E i \in Typed : AskRecovery(w, r, i)
    \/ \E w \in Finance : Works(w)
    \/ \E q \in Queue, d \in Disputes : FetchDispute(q, d)
    \/ \E q \in Queue : RecordDispute(q)
    \/ \E i \in Ids : RefundDecided(i) \/ \E amount \in 1..Paid : DashboardRefund(i, amount)
    \/ \E d \in Disputes : ClaimMoves(d) \/ ReverseChargeback(d)
    \/ \E w \in Finance \cup Queue : Crash(w)

(* The command runs every ten minutes, oldest attempt first, so no stuck   *)
(* row is passed over for ever; a call ends, if only by its timeout; the   *)
(* queue runs.  Nothing obliges staff, guests or the provider.             *)
Fairness ==
    /\ \A r \in Requests : SF_vars(ScheduleRecovery(r))
    /\ \A w \in Finance : WF_vars(Works(w))

Spec == Init /\ [][Next]_vars
FairSpec == Spec /\ Fairness

-----------------------------------------------------------------------------
(* docs/p3-06-mercado-pago-payments-implementation-plan.md:97, "Provider   *)
(* refund execution must succeed or be authoritatively recovered before    *)
(* CompleteRefund posts": whatever crossing workers, crashes and mistyped  *)
(* identities do, a completion that names a provider refund names one the  *)
(* provider approved, of that amount.                                      *)
PostedRefundsWereReturned ==
    \A r \in Requests : req[r].completed /\ req[r].reference # "by hand" =>
        /\ req[r].reference \in Ids
        /\ remote[req[r].reference].status = "approved"
        /\ remote[req[r].reference].amount = req[r].amount

(* Requests made side by side never promise more than was paid, and the    *)
(* payment is marked refunded exactly when all of it went back             *)
(* (RequestRefund:37-56, CompleteRefund:40-75).                            *)
RequestsFitPayment ==
    /\ Completed + OpenRequests <= Paid
    /\ refunded <=> Completed = Paid

(* A row that says succeeded stands for a completed request: the two       *)
(* commit together, and no stale worker's answer can leave the success     *)
(* without its folio line (RecoverProviderRefund:104-126).                 *)
SucceededIsPosted == \A r \in Requests : exe[r].state = "succeeded" => req[r].completed

(* A chargeback takes no more than refunds and other chargebacks left at   *)
(* that moment (RecordProviderDispute:148-161).                            *)
ChargebacksFit ==
    [][ChargedBack' > ChargedBack => (Completed + ChargedBack)' <= Paid]_vars

(* A refund whose identity is recorded does not stay in processing: the    *)
(* schedule finds it approved, or mismatched, unless its completion is     *)
(* refused because the folio is closed or the money went another way, or   *)
(* the identity is none of the provider's.                                 *)
Stuck(r) == exe[r].state = "processing" /\ exe[r].id \in Ids
StuckRefundsSettle ==
    \A r \in Requests :
        Stuck(r) ~> (~Stuck(r) \/ (~req[r].completed /\ ~MayComplete(r)))

(* CompleteRefund.php:53-54, "Completing this refund would exceed the      *)
(* source payment.": refunds and chargebacks together return no more than  *)
(* was paid.                                                               *)
ReturnedWithinPayment == Completed + ChargedBack <= Paid
=============================================================================
