--------------------------- MODULE RefundsProofs ---------------------------
(***************************************************************************)
(* What Refunds keeps for any requests, disputes, workers, identities and  *)
(* amounts that meet its assumptions: nothing is posted as returned by the *)
(* provider that the provider did not return, no success is without its    *)
(* folio line, and requests and chargebacks stay within the payment.       *)
(***************************************************************************)
EXTENDS Refunds, SumProofs

References == Typed \cup {"by hand"}
ReqRow == [amount: Nat, completed: BOOLEAN, reference: References \cup {None}]
ExeRow == [state: RefundStates, id: Typed \cup {None}]
RemoteRow == [key: Requests \cup {None}, amount: Nat,
              status: {"none", "pending", "approved", "rejected"}]
Run == [step: Steps, about: Requests \cup Disputes \cup {None}, id: Typed \cup {None},
        read: {"", "ok", "wrong"} \cup ClaimStates \cup RefundStates]

(* The types of the rows the properties look at.  That an amount is at     *)
(* most what was paid follows from the sums (MoneyInv below).              *)
Shape ==
    /\ req \in [Requests -> ReqRow]
    /\ exe \in [Requests -> ExeRow]
    /\ remote \in [Ids -> RemoteRow]
    /\ claims \in [Disputes -> ClaimStates]
    /\ wk \in [Finance \cup Queue -> Run]

Executing == {"asked", "calling", "answered", "recover", "fetch", "fetched"}

(* The provider returned the amount of request r as its refund i.          *)
Proven(r, i) ==
    /\ i \in Ids
    /\ remote[i].status = "approved" /\ remote[i].amount = req[r].amount

(* What a worker knows of the refund it is at.                             *)
Aware ==
    \A w \in Finance \cup Queue :
        /\ wk[w].step \in Executing =>
               wk[w].about \in Requests /\ req[wk[w].about].amount > 0
        /\ wk[w].step = "answered" => wk[w].id \in Ids
        /\ wk[w].step \in {"recover", "fetch", "fetched"} => wk[w].id \in Typed
        /\ wk[w].step = "fetched" /\ wk[w].read = "ok" => Proven(wk[w].about, wk[w].id)

(* A request that is executed or completed has its amount.                 *)
Begun ==
    \A r \in Requests :
        exe[r].state # "none" \/ req[r].completed => req[r].amount > 0

IInv == Shape /\ Aware /\ Begun /\ PostedRefundsWereReturned /\ SucceededIsPosted

-----------------------------------------------------------------------------
(* Rows a step may write, each of its type.                                *)

LEMMA GoesShape ==
    ASSUME Shape, NEW w \in Finance \cup Queue, NEW next \in Run, Goes(w, next)
    PROVE  /\ wk' \in [Finance \cup Queue -> Run]
           /\ wk'[w] = next
           /\ \A v \in (Finance \cup Queue) \ {w} : wk'[v] = wk[v]
  BY DEF Shape, Goes

LEMMA IdleRun == Idle \in Run
  BY DEF Idle, Run, Steps

LEMMA AtRun ==
    ASSUME NEW step \in Steps, NEW r \in Requests \cup Disputes, NEW id \in Typed \cup {None}
    PROVE  /\ At(step, r, id) \in Run
           /\ \A x \in {"ok", "wrong"} \cup ClaimStates \cup RefundStates :
                  [At(step, r, id) EXCEPT !.read = x] \in Run
  BY DEF At, Run

(* Completing a request writes its row, and its amount stays.              *)
LEMMA CompleteWrites ==
    ASSUME Shape, NEW r \in Requests, NEW i \in References, Complete(r, i)
    PROVE  /\ req' \in [Requests -> ReqRow]
           /\ req'[r].completed /\ req'[r].reference = i /\ req'[r].amount = req[r].amount
           /\ \A s \in Requests \ {r} : req'[s] = req[s]
<1>1. [req[r] EXCEPT !.completed = TRUE, !.reference = i] \in ReqRow
  BY DEF Shape, ReqRow
<1>2. req' = [req EXCEPT ![r] = [req[r] EXCEPT !.completed = TRUE, !.reference = i]]
  BY DEF Complete, Shape
<1>. QED
  BY <1>1, <1>2 DEF Shape, ReqRow

(* What a worker is about, when it executes a refund.                      *)
LEMMA AboutRequest ==
    ASSUME Shape, Aware, NEW w \in Finance, wk[w].step \in Executing
    PROVE  /\ w \in Finance \cup Queue /\ wk[w].about \in Requests
           /\ req[wk[w].about].amount > 0
  BY DEF Aware

-----------------------------------------------------------------------------
(* The invariant does not look at the other tables.                        *)
LEMMA Rest ==
    ASSUME IInv, UNCHANGED <<req, exe, remote, claims, wk>>
    PROVE  IInv'
  BY DEF IInv, Shape, Aware, Begun, Proven, PostedRefundsWereReturned, SucceededIsPosted

(* A step of one worker that leaves the requests, what the provider        *)
(* approved and what is succeeded as they are, and knows what Aware says.  *)
LEMMA WorkerCalls ==
    ASSUME IInv, NEW w \in Finance \cup Queue, NEW next \in Run, Goes(w, next),
           UNCHANGED <<req, claims>>,
           remote' \in [Ids -> RemoteRow],
           \A i \in Ids : remote[i].status = "approved" => remote'[i] = remote[i],
           exe' \in [Requests -> ExeRow],
           \A r \in Requests :
               /\ exe'[r].state # "none" => req[r].amount > 0
               /\ exe'[r].state = "succeeded" => req[r].completed,
           next.step \in Executing =>
               next.about \in Requests /\ req[next.about].amount > 0,
           next.step = "answered" => next.id \in Ids,
           next.step \in {"recover", "fetch", "fetched"} => next.id \in Typed,
           next.step = "fetched" /\ next.read = "ok" => Proven(next.about, next.id)
    PROVE  IInv'
<1>1. Shape'
  BY GoesShape DEF IInv, Shape
<1>2. Aware'
  BY GoesShape DEF IInv, Aware, Proven
<1>3. Begun' /\ SucceededIsPosted'
  BY DEF IInv, Begun, SucceededIsPosted
<1>4. PostedRefundsWereReturned'
  BY DEF IInv, PostedRefundsWereReturned
<1>. QED
  BY <1>1, <1>2, <1>3, <1>4 DEF IInv

LEMMA WorkerMoves ==
    ASSUME IInv, NEW w \in Finance \cup Queue, NEW next \in Run, Goes(w, next),
           UNCHANGED <<req, remote, claims>>,
           exe' \in [Requests -> ExeRow],
           \A r \in Requests :
               /\ exe'[r].state # "none" => req[r].amount > 0
               /\ exe'[r].state = "succeeded" => req[r].completed,
           next.step \in Executing =>
               next.about \in Requests /\ req[next.about].amount > 0,
           next.step = "answered" => next.id \in Ids,
           next.step \in {"recover", "fetch", "fetched"} => next.id \in Typed,
           next.step = "fetched" /\ next.read = "ok" => Proven(next.about, next.id)
    PROVE  IInv'
<1>1. remote' \in [Ids -> RemoteRow]
  BY DEF IInv, Shape
<1>. QED
  BY <1>1, WorkerCalls

(* What the provider has approved it does not change.                      *)
LEMMA RemoteMoves ==
    ASSUME IInv, UNCHANGED <<req, exe, claims, wk>>,
           remote' \in [Ids -> RemoteRow],
           \A i \in Ids : remote[i].status = "approved" => remote'[i] = remote[i]
    PROVE  IInv'
<1>1. Shape'
  BY DEF IInv, Shape
<1>2. Aware'
  BY DEF IInv, Aware, Proven
<1>3. Begun' /\ SucceededIsPosted'
  BY DEF IInv, Begun, SucceededIsPosted
<1>4. PostedRefundsWereReturned'
  BY DEF IInv, PostedRefundsWereReturned
<1>. QED
  BY <1>1, <1>2, <1>3, <1>4 DEF IInv

(* A request that has no amount may get one, and one that has an amount    *)
(* may be completed, by hand or as a refund that is proven.                *)
LEMMA RequestMoves ==
    ASSUME IInv, NEW r \in Requests,
           UNCHANGED <<remote, claims, wk>>,
           req' \in [Requests -> ReqRow], exe' \in [Requests -> ExeRow],
           \A s \in Requests \ {r} : req'[s] = req[s] /\ exe'[s] = exe[s],
           req'[r].amount > 0,
           req[r].amount > 0 => req'[r].amount = req[r].amount,
           \/ (req'[r].completed => req[r].completed) /\ req'[r].reference = req[r].reference
           \/ req'[r].reference = "by hand"
           \/ req[r].amount > 0 /\ Proven(r, req'[r].reference),
           exe'[r].state = "succeeded" => req'[r].completed
    PROVE  IInv'
<1>1. Shape'
  BY DEF IInv, Shape
<1>2. \A s \in Requests : req[s].amount > 0 => req'[s].amount = req[s].amount
  OBVIOUS
<1>3. Aware'
  BY <1>2 DEF IInv, Aware, Proven, Executing
<1>4. Begun'
  BY DEF IInv, Begun
<1>5. SucceededIsPosted'
  BY DEF IInv, SucceededIsPosted
<1>6. PostedRefundsWereReturned'
  <2>1. ASSUME NEW s \in Requests, req'[s].completed, req'[s].reference # "by hand"
        PROVE  Proven(s, req[s].reference)'
    <3>1. CASE req[s].completed /\ req'[s].reference = req[s].reference
      BY <2>1, <3>1, <1>2 DEF IInv, Begun, Proven, PostedRefundsWereReturned
    <3>2. CASE s = r /\ req[r].amount > 0 /\ Proven(r, req'[r].reference)
      BY <2>1, <3>2, <1>2 DEF Proven
    <3>. QED
      BY <2>1, <3>1, <3>2
  <2>. QED
    BY <2>1 DEF Proven, PostedRefundsWereReturned
<1>. QED
  BY <1>1, <1>3, <1>4, <1>5, <1>6 DEF IInv

-----------------------------------------------------------------------------
(* Every step keeps the invariant.                                         *)
LEMMA StepInv ==
    ASSUME IInv, [Next]_vars
    PROVE  IInv'
<1>. USE DEF IInv
<1>1. CASE ReduceStay \/ CloseFolio \/ ReopenFolio
  BY <1>1, Rest DEF ReduceStay, CloseFolio, ReopenFolio
<1>2. ASSUME NEW r \in Requests, Request(r)
      PROVE  IInv'
  <2>1. PICK amount \in 1..Refundable : req' = [req EXCEPT ![r].amount = amount]
    BY <1>2 DEF Request
  <2>2. amount \in Nat /\ amount > 0
    OBVIOUS
  <2>3. /\ req' \in [Requests -> ReqRow]
        /\ req'[r].amount = amount /\ (req'[r].completed <=> req[r].completed)
        /\ req'[r].reference = req[r].reference
        /\ \A s \in Requests \ {r} : req'[s] = req[s]
    <3>1. [req[r] EXCEPT !.amount = amount] \in ReqRow
      BY <2>2 DEF Shape, ReqRow
    <3>. QED
      BY <2>1, <3>1 DEF Shape, ReqRow
  <2>4. req[r].amount = 0 /\ UNCHANGED <<exe, remote, claims, wk>>
    BY <1>2 DEF Request
  <2>5. exe' \in [Requests -> ExeRow] /\ (exe'[r].state = "succeeded" => req'[r].completed)
    BY <2>3, <2>4 DEF Shape, SucceededIsPosted
  <2>6. /\ req'[r].amount > 0 /\ (req[r].amount > 0 => req'[r].amount = req[r].amount)
        /\ (req'[r].completed => req[r].completed) /\ req'[r].reference = req[r].reference
    BY <2>2, <2>3, <2>4
  <2>7. \A s \in Requests \ {r} : req'[s] = req[s] /\ exe'[s] = exe[s]
    BY <2>3, <2>4
  <2>. QED
    BY <2>3, <2>4, <2>5, <2>6, <2>7, RequestMoves
<1>3. ASSUME NEW r \in Requests, CompleteByHand(r)
      PROVE  IInv'
  <2>1. /\ req' \in [Requests -> ReqRow] /\ req[r].amount > 0
        /\ req'[r].completed /\ req'[r].reference = "by hand"
        /\ req'[r].amount = req[r].amount
        /\ \A s \in Requests \ {r} : req'[s] = req[s]
        /\ UNCHANGED <<exe, remote, claims, wk>>
    BY <1>3, CompleteWrites DEF CompleteByHand, References
  <2>2. exe' \in [Requests -> ExeRow]
    BY <2>1 DEF Shape
  <2>. QED
    BY <2>1, <2>2, RequestMoves
<1>4. ASSUME NEW r \in Requests, ScheduleRecovery(r)
      PROVE  IInv'
  <2>1. /\ UNCHANGED <<req, exe, remote, claims>>
        /\ exe[r].id \in Typed /\ req[r].amount > 0
    BY <1>4 DEF ScheduleRecovery, Shape, ExeRow, Begun
  <2>2. Scheduler \in Finance \cup Queue /\ Goes(Scheduler, At("recover", r, exe[r].id))
    BY <1>4, NamesAssumption DEF ScheduleRecovery, NamesAssumption
  <2>3. At("recover", r, exe[r].id) \in Run
    BY <2>1, AtRun DEF Steps
  <2>. QED
    BY <2>1, <2>2, <2>3, WorkerMoves DEF At, Shape, Begun, SucceededIsPosted
<1>5. ASSUME NEW w \in Finance, NEW r \in Requests, Execute(w, r)
      PROVE  IInv'
  <2>1. /\ UNCHANGED <<req, remote, claims>> /\ req[r].amount > 0
        /\ exe' = [exe EXCEPT ![r].state = IF exe[r].state = "none" THEN "requested"
                                           ELSE exe[r].state]
    BY <1>5 DEF Execute
  <2>2. /\ exe' \in [Requests -> ExeRow]
        /\ \A s \in Requests : /\ exe'[s].state # "none" => req[s].amount > 0
                               /\ exe'[s].state = "succeeded" => req[s].completed
    <3>1. [exe[r] EXCEPT !.state = IF exe[r].state = "none" THEN "requested"
                                   ELSE exe[r].state] \in ExeRow
      BY DEF Shape, ExeRow, RefundStates
    <3>. QED
      BY <2>1, <3>1 DEF Shape, ExeRow, Begun, SucceededIsPosted
  <2>3. CASE exe[r].id = None
    <3>1. Goes(w, [At("asked", r, None) EXCEPT !.read = exe'[r].state])
      BY <1>5, <2>3 DEF Execute
    <3>2. [At("asked", r, None) EXCEPT !.read = exe'[r].state] \in Run
      BY <2>2, AtRun DEF Steps, ExeRow
    <3>. QED
      BY <2>1, <2>2, <3>1, <3>2, WorkerMoves DEF At
  <2>4. CASE exe[r].id # None
    <3>1. Goes(w, At("recover", r, exe[r].id)) /\ exe[r].id \in Typed
      BY <1>5, <2>4 DEF Execute, Shape, ExeRow
    <3>2. At("recover", r, exe[r].id) \in Run
      BY <3>1, AtRun DEF Steps
    <3>. QED
      BY <2>1, <2>2, <3>1, <3>2, WorkerMoves DEF At
  <2>. QED
    BY <2>3, <2>4
<1>6. ASSUME NEW w \in Finance, NEW r \in Requests, NEW i \in Typed, AskRecovery(w, r, i)
      PROVE  IInv'
  <2>1. /\ UNCHANGED <<req, exe, remote, claims>> /\ req[r].amount > 0
        /\ Goes(w, At("recover", r, i))
    BY <1>6 DEF AskRecovery, Begun
  <2>2. At("recover", r, i) \in Run
    BY AtRun DEF Steps
  <2>. QED
    BY <2>1, <2>2, WorkerMoves DEF At, Shape, Begun, SucceededIsPosted
<1>7. ASSUME NEW w \in Finance, MarkProcessing(w)
      PROVE  IInv'
  <2>0. PICK r \in Requests : r = wk[w].about /\ req[r].amount > 0
    BY <1>7, AboutRequest DEF MarkProcessing, Executing
  <2>1. /\ UNCHANGED <<req, remote, claims>> /\ Goes(w, At("calling", r, None))
        /\ \E state \in RefundStates :
               /\ state \in {exe[r].state, "processing"}
               /\ exe' = [exe EXCEPT ![r].state = state]
    BY <1>7, <2>0 DEF MarkProcessing, Shape, ExeRow, RefundStates
  <2>2. /\ exe' \in [Requests -> ExeRow]
        /\ \A s \in Requests : /\ exe'[s].state # "none" => req[s].amount > 0
                               /\ exe'[s].state = "succeeded" => req[s].completed
    <3>1. PICK state \in RefundStates :
              /\ state \in {exe[r].state, "processing"}
              /\ exe' = [exe EXCEPT ![r].state = state]
      BY <2>1
    <3>2. [exe[r] EXCEPT !.state = state] \in ExeRow
      BY DEF Shape, ExeRow
    <3>. QED
      BY <2>0, <3>1, <3>2 DEF Shape, ExeRow, Begun, SucceededIsPosted
  <2>3. At("calling", r, None) \in Run
    BY AtRun DEF Steps
  <2>. QED
    BY <2>0, <2>1, <2>2, <2>3, WorkerMoves DEF At
<1>8. ASSUME NEW w \in Finance, Call(w)
      PROVE  IInv'
  <2>0. PICK r \in Requests : r = wk[w].about /\ req[r].amount > 0
    BY <1>8, AboutRequest DEF Call, Executing
  <2>1. UNCHANGED <<req, exe, claims>>
    BY <1>8 DEF Call
  <2>2. /\ exe' \in [Requests -> ExeRow]
        /\ \A s \in Requests : /\ exe'[s].state # "none" => req[s].amount > 0
                               /\ exe'[s].state = "succeeded" => req[s].completed
    BY <2>1 DEF Shape, Begun, SucceededIsPosted
  <2>3. /\ remote' \in [Ids -> RemoteRow]
        /\ \A i \in Ids : remote[i].status = "approved" => remote'[i] = remote[i]
    <3>1. CASE remote' = remote
      BY <3>1 DEF Shape
    <3>2. ASSUME NEW i \in Unused, NEW status \in {"pending", "approved"},
                 New(i, r, req[r].amount, status)
          PROVE  /\ remote' \in [Ids -> RemoteRow]
                 /\ \A k \in Ids : remote[k].status = "approved" => remote'[k] = remote[k]
      <4>1. [key |-> r, amount |-> req[r].amount, status |-> status] \in RemoteRow
        BY DEF Shape, ReqRow, RemoteRow
      <4>2. i \in Ids /\ remote[i].status = "none"
        BY DEF Unused
      <4>. QED
        BY <3>2, <4>1, <4>2 DEF New, Shape
    <3>3. \/ remote' = remote
          \/ \E i \in Unused, status \in {"pending", "approved"} :
                 New(i, r, req[r].amount, status)
      BY <1>8, <2>0 DEF Call
    <3>. QED
      BY <3>1, <3>2, <3>3
  <2>4. CASE Goes(w, Idle)
    BY <2>1, <2>2, <2>3, <2>4, IdleRun, WorkerCalls DEF Idle, Executing
  <2>5. CASE \E i \in Ids : \E x \in {"ok", "wrong"} :
                 Goes(w, [At("answered", r, i) EXCEPT !.read = x])
    <3>1. PICK i \in Ids, x \in {"ok", "wrong"} :
              Goes(w, [At("answered", r, i) EXCEPT !.read = x])
      BY <2>5
    <3>2. [At("answered", r, i) EXCEPT !.read = x] \in Run
      BY AtRun DEF Steps, Typed
    <3>. QED
      BY <2>0, <2>1, <2>2, <2>3, <3>1, <3>2, WorkerCalls DEF At
  <2>6. \/ Goes(w, Idle)
        \/ \E i \in Ids : \E x \in {"ok", "wrong"} :
               Goes(w, [At("answered", r, i) EXCEPT !.read = x])
    BY <1>8, <2>0 DEF Call, Unused
  <2>. QED
    BY <2>4, <2>5, <2>6
<1>9. ASSUME NEW w \in Finance, TakeAnswer(w)
      PROVE  IInv'
  <2>0. PICK r \in Requests, i \in Ids : r = wk[w].about /\ req[r].amount > 0 /\ i = wk[w].id
    BY <1>9, AboutRequest DEF TakeAnswer, Executing, Aware
  <2>1. UNCHANGED <<req, remote, claims>>
    BY <1>9 DEF TakeAnswer
  <2>2. CASE exe' = exe /\ Goes(w, Idle)
    BY <2>1, <2>2, IdleRun, WorkerMoves DEF Idle, Executing, Shape, Begun, SucceededIsPosted
  <2>3. CASE exe' = [exe EXCEPT ![r].state = "mismatched"] /\ Goes(w, Idle)
    <3>1. [exe[r] EXCEPT !.state = "mismatched"] \in ExeRow
      BY DEF Shape, ExeRow, RefundStates
    <3>2. /\ exe' \in [Requests -> ExeRow]
          /\ \A s \in Requests : /\ exe'[s].state # "none" => req[s].amount > 0
                                 /\ exe'[s].state = "succeeded" => req[s].completed
      BY <2>0, <2>3, <3>1 DEF Shape, ExeRow, Begun, SucceededIsPosted
    <3>. QED
      BY <2>1, <2>3, <3>2, IdleRun, WorkerMoves DEF Idle, Executing
  <2>4. CASE exe' = [exe EXCEPT ![r].id = i] /\ Goes(w, At("recover", r, i))
    <3>1. [exe[r] EXCEPT !.id = i] \in ExeRow /\ i \in Typed
      BY DEF Shape, ExeRow, Typed
    <3>2. /\ exe' \in [Requests -> ExeRow]
          /\ \A s \in Requests : /\ exe'[s].state # "none" => req[s].amount > 0
                                 /\ exe'[s].state = "succeeded" => req[s].completed
      BY <2>0, <2>4, <3>1 DEF Shape, ExeRow, Begun, SucceededIsPosted
    <3>3. At("recover", r, i) \in Run
      BY <3>1, AtRun DEF Steps
    <3>. QED
      BY <2>0, <2>1, <2>4, <3>1, <3>2, <3>3, WorkerMoves DEF At
  <2>. QED
    BY <1>9, <2>0, <2>2, <2>3, <2>4 DEF TakeAnswer
<1>10. ASSUME NEW w \in Finance, Claim(w)
      PROVE  IInv'
  <2>0. PICK r \in Requests, i \in Typed : r = wk[w].about /\ req[r].amount > 0 /\ i = wk[w].id
    BY <1>10, AboutRequest DEF Claim, Executing, Aware
  <2>1. UNCHANGED <<req, remote, claims>>
    BY <1>10 DEF Claim
  <2>2. CASE exe' = exe /\ Goes(w, Idle)
    BY <2>1, <2>2, IdleRun, WorkerMoves DEF Idle, Executing, Shape, Begun, SucceededIsPosted
  <2>3. CASE exe' = [exe EXCEPT ![r] = [state |-> "processing", id |-> i]]
             /\ Goes(w, At("fetch", r, i))
    <3>1. [state |-> "processing", id |-> i] \in ExeRow
      BY DEF ExeRow, RefundStates
    <3>2. /\ exe' \in [Requests -> ExeRow]
          /\ \A s \in Requests : /\ exe'[s].state # "none" => req[s].amount > 0
                                 /\ exe'[s].state = "succeeded" => req[s].completed
      BY <2>0, <2>3, <3>1 DEF Shape, Begun, SucceededIsPosted
    <3>3. At("fetch", r, i) \in Run
      BY AtRun DEF Steps
    <3>. QED
      BY <2>0, <2>1, <2>3, <3>2, <3>3, WorkerMoves DEF At
  <2>. QED
    BY <1>10, <2>0, <2>2, <2>3 DEF Claim
<1>11. ASSUME NEW w \in Finance, FetchRefund(w)
      PROVE  IInv'
  <2>0. PICK r \in Requests, i \in Typed : r = wk[w].about /\ req[r].amount > 0 /\ i = wk[w].id
    BY <1>11, AboutRequest DEF FetchRefund, Executing, Aware
  <2>1. /\ UNCHANGED <<req, exe, remote, claims>>
        /\ exe' \in [Requests -> ExeRow]
        /\ \A s \in Requests : /\ exe'[s].state # "none" => req[s].amount > 0
                               /\ exe'[s].state = "succeeded" => req[s].completed
    BY <1>11 DEF FetchRefund, Shape, Begun, SucceededIsPosted
  <2>2. CASE Goes(w, Idle)
    BY <2>1, <2>2, IdleRun, WorkerMoves DEF Idle, Executing
  <2>3. CASE /\ i \notin {Typo} \cup Unused
             /\ Goes(w, [At("fetched", r, i) EXCEPT
                            !.read = IF Matches(r, i) THEN "ok" ELSE "wrong"])
    <3>1. [At("fetched", r, i) EXCEPT !.read = IF Matches(r, i) THEN "ok" ELSE "wrong"] \in Run
      BY AtRun DEF Steps
    <3>2. Matches(r, i) => Proven(r, i)
      BY <2>3 DEF Matches, Proven, Typed
    <3>. QED
      BY <2>0, <2>1, <2>3, <3>1, <3>2, WorkerMoves DEF At
  <2>. QED
    BY <1>11, <2>0, <2>2, <2>3 DEF FetchRefund
<1>12. ASSUME NEW w \in Finance, FinishRecovery(w)
      PROVE  IInv'
  <2>0. PICK r \in Requests, i \in Typed : r = wk[w].about /\ req[r].amount > 0 /\ i = wk[w].id
    BY <1>12, AboutRequest DEF FinishRecovery, Executing, Aware
  <2>1. UNCHANGED <<remote, claims>> /\ Goes(w, Idle)
    BY <1>12 DEF FinishRecovery
  <2>2. CASE wk[w].read = "ok" /\ exe[r].id = i /\ ~Settled(r)
             /\ ~req[r].completed /\ MayComplete(r)
    <3>1. Proven(r, i) /\ w \in Finance \cup Queue
      BY <1>12, <2>0, <2>2 DEF FinishRecovery, Aware
    <3>2. Complete(r, i) /\ exe' = [exe EXCEPT ![r].state = "succeeded"]
      BY <1>12, <2>0, <2>2 DEF FinishRecovery, FinishMatched
    <3>3. [exe[r] EXCEPT !.state = "succeeded"] \in ExeRow
      BY DEF Shape, ExeRow, RefundStates
    <3>4. /\ exe' \in [Requests -> ExeRow]
          /\ \A s \in Requests \ {r} : exe'[s] = exe[s]
      BY <3>2, <3>3 DEF Shape
    <3>5. /\ req' \in [Requests -> ReqRow]
          /\ req'[r].completed /\ req'[r].reference = i /\ req'[r].amount = req[r].amount
          /\ \A s \in Requests \ {r} : req'[s] = req[s]
      BY <3>2, CompleteWrites DEF References
    <3>6. /\ Shape' /\ Aware' /\ Begun'
      <4>1. Shape'
        BY <2>1, <3>4, <3>5, GoesShape, IdleRun DEF Shape
      <4>2. \A s \in Requests : req'[s].amount = req[s].amount
        BY <3>5
      <4>3. Aware'
        <5>1. /\ wk'[w].step = "idle"
              /\ \A v \in (Finance \cup Queue) \ {w} : wk'[v] = wk[v]
          BY <2>1, <3>1 DEF Goes, Idle, Shape
        <5>. QED
          BY <2>1, <4>2, <5>1 DEF Aware, Proven, Executing
      <4>4. Begun'
        BY <2>0, <3>4, <3>5 DEF Begun
      <4>. QED
        BY <4>1, <4>3, <4>4
    <3>7. PostedRefundsWereReturned'
      BY <2>1, <3>1, <3>5 DEF PostedRefundsWereReturned, Proven
    <3>8. SucceededIsPosted'
      BY <3>4, <3>5 DEF SucceededIsPosted
    <3>. QED
      BY <3>6, <3>7, <3>8
  <2>3. CASE \E state \in RefundStates :
                 /\ state = "succeeded" => req[r].completed
                 /\ exe' = [exe EXCEPT ![r].state = state]
                 /\ UNCHANGED req
    <3>1. PICK state \in RefundStates :
              /\ state = "succeeded" => req[r].completed
              /\ exe' = [exe EXCEPT ![r].state = state]
              /\ UNCHANGED req
      BY <2>3
    <3>2. [exe[r] EXCEPT !.state = state] \in ExeRow
      BY DEF Shape, ExeRow
    <3>3. /\ exe' \in [Requests -> ExeRow]
          /\ \A s \in Requests : /\ exe'[s].state # "none" => req[s].amount > 0
                                 /\ exe'[s].state = "succeeded" => req[s].completed
      BY <2>0, <3>1, <3>2 DEF Shape, ExeRow, Begun, SucceededIsPosted
    <3>. QED
      BY <2>1, <3>1, <3>3, IdleRun, WorkerMoves DEF Idle, Executing
  <2>4. CASE UNCHANGED <<req, exe>>
    BY <2>1, <2>4, IdleRun, WorkerMoves DEF Idle, Executing, Shape, Begun, SucceededIsPosted
  <2>5. CASE wk[w].read # "ok"
    <3>1. exe' = [exe EXCEPT ![r].state = IF exe[r].state = "succeeded" THEN exe[r].state
                                          ELSE "mismatched"]
          /\ UNCHANGED req
      BY <1>12, <2>0, <2>5 DEF FinishRecovery, ledger
    <3>. QED
      BY <2>3, <3>1 DEF RefundStates, SucceededIsPosted
  <2>6. CASE wk[w].read = "ok"
    <3>1. FinishMatched(r, i)
      BY <1>12, <2>0, <2>6 DEF FinishRecovery
    <3>2. CASE req[r].completed /\ exe' = [exe EXCEPT ![r].state = "succeeded"] /\ UNCHANGED req
      BY <2>3, <3>2 DEF RefundStates
    <3>. QED
      BY <2>2, <2>4, <2>6, <3>1, <3>2 DEF FinishMatched, ledger
  <2>. QED
    BY <2>5, <2>6
<1>13. ASSUME NEW q \in Queue, NEW d \in Disputes, FetchDispute(q, d)
      PROVE  IInv'
  <2>1. /\ UNCHANGED <<req, exe, remote, claims>>
        /\ Goes(q, [At("facts", d, None) EXCEPT !.read = claims[d]])
    BY <1>13 DEF FetchDispute
  <2>2. [At("facts", d, None) EXCEPT !.read = claims[d]] \in Run
    BY AtRun DEF Steps, Shape
  <2>. QED
    BY <2>1, <2>2, WorkerMoves DEF At, Executing, Shape, Begun, SucceededIsPosted
<1>14. ASSUME NEW q \in Queue, RecordDispute(q)
      PROVE  IInv'
  BY <1>14, IdleRun, WorkerMoves
  DEF RecordDispute, Idle, Executing, Shape, Begun, SucceededIsPosted
<1>15. ASSUME NEW i \in Ids, NEW amount \in 1..Paid, DashboardRefund(i, amount)
      PROVE  IInv'
  <2>1. [key |-> None, amount |-> amount, status |-> "approved"] \in RemoteRow
    BY DEF RemoteRow
  <2>2. /\ remote[i].status = "none" /\ UNCHANGED <<req, exe, claims, wk>>
        /\ remote' = [remote EXCEPT ![i] =
                         [key |-> None, amount |-> amount, status |-> "approved"]]
    BY <1>15 DEF DashboardRefund, Unused, New
  <2>. QED
    BY <2>1, <2>2, RemoteMoves DEF Shape
<1>16. ASSUME NEW i \in Ids, RefundDecided(i)
      PROVE  IInv'
  <2>1. PICK status \in {"approved", "rejected"} : remote' = [remote EXCEPT ![i].status = status]
    BY <1>16 DEF RefundDecided
  <2>2. [remote[i] EXCEPT !.status = status] \in RemoteRow
    BY DEF Shape, RemoteRow
  <2>3. remote[i].status = "pending" /\ UNCHANGED <<req, exe, claims, wk>>
    BY <1>16 DEF RefundDecided
  <2>. QED
    BY <2>1, <2>2, <2>3, RemoteMoves DEF Shape
<1>17. ASSUME NEW d \in Disputes, ClaimMoves(d)
      PROVE  IInv'
  <2>1. claims' \in [Disputes -> ClaimStates] /\ UNCHANGED <<req, exe, remote, wk>>
    BY <1>17 DEF ClaimMoves, Shape, ClaimStates
  <2>. QED
    BY <2>1 DEF Shape, Aware, Begun, Proven, PostedRefundsWereReturned, SucceededIsPosted
<1>18. ASSUME NEW d \in Disputes, ReverseChargeback(d)
      PROVE  IInv'
  BY <1>18, Rest DEF ReverseChargeback
<1>19. ASSUME NEW w \in Finance \cup Queue, Crash(w)
      PROVE  IInv'
  BY <1>19, IdleRun, WorkerMoves DEF Crash, Idle, Executing, Shape, Begun, SucceededIsPosted
<1>20. CASE UNCHANGED vars
  BY <1>20, Rest DEF vars
<1>. QED
  BY <1>1, <1>2, <1>3, <1>4, <1>5, <1>6, <1>7, <1>8, <1>9, <1>10, <1>11, <1>12, <1>13,
     <1>14, <1>15, <1>16, <1>17, <1>18, <1>19, <1>20 DEF Next, Works

(* At first nothing is requested, executed or known.                       *)
LEMMA InitInv == Init => IInv
<1>. SUFFICES ASSUME Init PROVE IInv
  OBVIOUS
<1>1. Shape
  BY IdleRun DEF Init, Shape, ReqRow, ExeRow, RemoteRow, RefundStates, ClaimStates
<1>2. Aware
  BY DEF Init, Aware, Idle, Executing
<1>3. Begun /\ PostedRefundsWereReturned /\ SucceededIsPosted
  BY DEF Init, Begun, PostedRefundsWereReturned, SucceededIsPosted
<1>. QED
  BY <1>1, <1>2, <1>3 DEF IInv

(* The invariant holds in every reachable state.                           *)
LEMMA Invariance == Spec => []IInv
<1>1. IInv /\ [Next]_vars => IInv'
  BY StepInv
<1>. QED
  BY <1>1, InitInv, PTL DEF Spec

-----------------------------------------------------------------------------
(* The money.  Its sums are over the requests and over the disputes.       *)

Amounts == [r \in Requests |-> req[r].amount]
Done == {r \in Requests : req[r].completed}
Lines == [d \in Disputes |-> disp[d].line]
Charged == {d \in Disputes : Standing(d)}

(* A notification a queue worker fetched is about a dispute.               *)
Notified == \A q \in Queue : wk[q].step = "facts" =>
                wk[q].about \in Disputes /\ wk[q].read \in ClaimStates

MoneyInv == IInv /\ TypeOK /\ Notified /\ RequestsFitPayment

(* What is completed and what is requested, as totals.                     *)
LEMMA RequestTotals ==
    /\ Completed = Total(Amounts, Done) /\ OpenRequests = Total(Amounts, Requests \ Done)
    /\ (Completed = Total(Amounts, Done) /\ OpenRequests = Total(Amounts, Requests \ Done))'
<1>1. Completed = Total(Amounts, Done)
  BY DEF Completed, Amounts, Done, Total, MapThenSumSet, MapThenFoldSet
<1>2. OpenRequests = Total(Amounts, Requests \ Done)
  BY DEF OpenRequests, Amounts, Done, Total, MapThenSumSet, MapThenFoldSet
<1>3. Completed' = Total(Amounts', Done')
  BY DEF Completed, Amounts, Done, Total, MapThenSumSet, MapThenFoldSet
<1>4. OpenRequests' = Total(Amounts', Requests \ Done')
  BY DEF OpenRequests, Amounts, Done, Total, MapThenSumSet, MapThenFoldSet
<1>. QED
  BY <1>1, <1>2, <1>3, <1>4

(* What is charged back, as a total.                                       *)
LEMMA ChargeTotals ==
    /\ ChargedBack = Total(Lines, Charged)
    /\ (ChargedBack = Total(Lines, Charged))'
<1>1. ChargedBack = Total(Lines, Charged)
  BY DEF ChargedBack, Lines, Charged, Standing, Total, MapThenSumSet, MapThenFoldSet
<1>2. ChargedBack' = Total(Lines', Charged')
  BY DEF ChargedBack, Lines, Charged, Standing, Total, MapThenSumSet, MapThenFoldSet
<1>. QED
  BY <1>1, <1>2

(* The money in the rows.                                                  *)
LEMMA RowMoney ==
    ASSUME TypeOK
    PROVE  /\ \A r \in Requests : req[r].amount \in Nat /\ req[r].amount <= Paid
           /\ \A d \in Disputes : disp[d].line \in Nat
           /\ Paid \in Nat /\ stay \in Nat
<1>1. Paid \in Nat
  BY MoneyAssumption DEF MoneyAssumption
<1>2. req \in [Requests -> [amount: 0..Paid, completed: BOOLEAN,
                             reference: Typed \cup {None, "by hand"}]]
  BY DEF TypeOK
<1>3. disp \in [Disputes -> [state: DisputeStates, line: 0..Paid, reversed: BOOLEAN,
                              impact: {"none", "pending_finance", "applied", "reversed"}]]
  BY DEF TypeOK
<1>4. stay \in Nat
  BY DEF TypeOK
<1>5. \A r \in Requests : req[r].amount \in 0..Paid
  BY <1>2
<1>6. \A d \in Disputes : disp[d].line \in 0..Paid
  BY <1>3
<1>. QED
  BY <1>1, <1>4, <1>5, <1>6

(* The totals are naturals.                                                *)
LEMMA TotalsNat ==
    ASSUME TypeOK
    PROVE  Completed \in Nat /\ OpenRequests \in Nat /\ ChargedBack \in Nat /\ Balance \in Int
<1>1. /\ \A r \in Requests : Amounts[r] \in Nat
      /\ \A d \in Disputes : Lines[d] \in Nat
  BY RowMoney DEF Amounts, Lines
<1>2. /\ Done \in SUBSET Requests /\ (Requests \ Done) \in SUBSET Requests
      /\ Charged \in SUBSET Disputes
  BY DEF Done, Charged
<1>3. IsFiniteSet(Done) /\ IsFiniteSet(Requests \ Done) /\ IsFiniteSet(Charged)
  BY <1>2, FS_Subset, NamesAssumption DEF NamesAssumption
<1>4. /\ Total(Amounts, Done) \in Nat /\ Total(Amounts, Requests \ Done) \in Nat
      /\ Total(Lines, Charged) \in Nat
  <2>. HIDE DEF Amounts, Lines
  <2>. QED
    BY <1>1, <1>2, <1>3, TotalNat
<1>. QED
  BY <1>4, RequestTotals, ChargeTotals, RowMoney DEF Balance

(* One row of the requests changes.                                        *)
LEMMA RequestChanges ==
    ASSUME Shape, Shape', NEW r \in Requests, \A s \in Requests \ {r} : req'[s] = req[s]
    PROVE  /\ Completed' = Completed - (IF req[r].completed THEN req[r].amount ELSE 0)
                                + (IF req'[r].completed THEN req'[r].amount ELSE 0)
           /\ OpenRequests' = OpenRequests - (IF req[r].completed THEN 0 ELSE req[r].amount)
                                + (IF req'[r].completed THEN 0 ELSE req'[r].amount)
<1>1. \A s \in Requests : Amounts[s] \in Nat /\ Amounts'[s] \in Nat
  BY DEF Shape, ReqRow, Amounts
<1>2. \A s \in Requests \ {r} : Amounts[s] = Amounts'[s]
  BY DEF Amounts
<1>3. /\ Done \in SUBSET Requests /\ Done' \in SUBSET Requests
      /\ (Requests \ Done) \in SUBSET Requests /\ (Requests \ Done') \in SUBSET Requests
      /\ Done \ {r} = Done' \ {r}
      /\ (Requests \ Done) \ {r} = (Requests \ Done') \ {r}
  BY DEF Done
<1>4. IsFiniteSet(Requests)
  BY NamesAssumption DEF NamesAssumption
<1>5. /\ Total(Amounts', Done') = Total(Amounts, Done) - (IF r \in Done THEN Amounts[r] ELSE 0)
                                  + (IF r \in Done' THEN Amounts'[r] ELSE 0)
      /\ Total(Amounts', Requests \ Done')
            = Total(Amounts, Requests \ Done) - (IF r \in Requests \ Done THEN Amounts[r] ELSE 0)
                                  + (IF r \in Requests \ Done' THEN Amounts'[r] ELSE 0)
  <2>. HIDE DEF Amounts, Done
  <2>1. \A f, g, A, B :
           /\ \A y \in Requests : f[y] \in Nat /\ g[y] \in Nat
           /\ \A y \in Requests \ {r} : f[y] = g[y]
           /\ A \in SUBSET Requests /\ B \in SUBSET Requests /\ A \ {r} = B \ {r}
           => Total(g, B) = Total(f, A) - (IF r \in A THEN f[r] ELSE 0)
                                       + (IF r \in B THEN g[r] ELSE 0)
    BY <1>4, TotalChanges
  <2>. QED
    BY <1>1, <1>2, <1>3, <2>1
<1>6. /\ r \in Done <=> req[r].completed
      /\ r \in Done' <=> req'[r].completed
      /\ Amounts[r] = req[r].amount /\ Amounts'[r] = req'[r].amount
  BY DEF Done, Amounts
<1>. QED
  BY <1>5, <1>6, RequestTotals

(* One row of the disputes changes.                                        *)
LEMMA DisputeChanges ==
    ASSUME TypeOK, TypeOK', NEW d \in Disputes, \A c \in Disputes \ {d} : disp'[c] = disp[c]
    PROVE  ChargedBack' = ChargedBack - (IF Standing(d) THEN disp[d].line ELSE 0)
                                      + (IF Standing(d)' THEN disp'[d].line ELSE 0)
<1>1. \A c \in Disputes : Lines[c] \in Nat /\ Lines'[c] \in Nat
  <2>1. \A c \in Disputes : disp[c].line \in Nat
    BY RowMoney
  <2>2. \A c \in Disputes : disp'[c].line \in Nat
    <3>1. disp' \in [Disputes -> [state: DisputeStates, line: 0..Paid, reversed: BOOLEAN,
                              impact: {"none", "pending_finance", "applied", "reversed"}]]
      BY DEF TypeOK
    <3>. QED
      BY <3>1, MoneyAssumption DEF MoneyAssumption
  <2>. QED
    BY <2>1, <2>2 DEF Lines
<1>2. \A c \in Disputes \ {d} : Lines[c] = Lines'[c]
  BY DEF Lines
<1>3. /\ Charged \in SUBSET Disputes /\ Charged' \in SUBSET Disputes
      /\ Charged \ {d} = Charged' \ {d}
  BY DEF Charged, Standing
<1>4. IsFiniteSet(Disputes)
  BY NamesAssumption DEF NamesAssumption
<1>5. Total(Lines', Charged') = Total(Lines, Charged) - (IF d \in Charged THEN Lines[d] ELSE 0)
                                  + (IF d \in Charged' THEN Lines'[d] ELSE 0)
  <2>. HIDE DEF Lines, Charged
  <2>1. \A f, g, A, B :
           /\ \A y \in Disputes : f[y] \in Nat /\ g[y] \in Nat
           /\ \A y \in Disputes \ {d} : f[y] = g[y]
           /\ A \in SUBSET Disputes /\ B \in SUBSET Disputes /\ A \ {d} = B \ {d}
           => Total(g, B) = Total(f, A) - (IF d \in A THEN f[d] ELSE 0)
                                       + (IF d \in B THEN g[d] ELSE 0)
    BY <1>4, TotalChanges
  <2>. QED
    BY <1>1, <1>2, <1>3, <2>1
<1>6. /\ d \in Charged <=> Standing(d)
      /\ d \in Charged' <=> Standing(d)'
      /\ Lines[d] = disp[d].line /\ Lines'[d] = disp'[d].line
  BY DEF Charged, Lines
<1>. QED
  BY <1>5, <1>6, ChargeTotals

(* Requesting sets an amount aside.                                        *)
LEMMA RequestMoney ==
    ASSUME IInv, IInv', TypeOK, RequestsFitPayment, NEW r \in Requests, Request(r)
    PROVE  RequestsFitPayment' /\ req'[r].amount <= Paid /\ refunded' = refunded
<1>1. PICK amount \in 1..Refundable : req' = [req EXCEPT ![r].amount = amount]
  BY DEF Request
<1>2. /\ Completed \in Nat /\ OpenRequests \in Nat /\ Balance \in Int /\ Paid \in Nat
  BY TotalsNat, MoneyAssumption DEF MoneyAssumption
<1>3. amount \in Nat /\ amount > 0 /\ amount <= Refundable
  BY <1>2 DEF Refundable, Least, Positive
<1>4. Completed + OpenRequests + amount <= Paid
  BY <1>2, <1>3 DEF Refundable, Least, Positive
<1>5. /\ req'[r].amount = amount /\ ~req'[r].completed /\ ~req[r].completed /\ req[r].amount = 0
      /\ \A s \in Requests \ {r} : req'[s] = req[s]
  <2>1. req[r].amount = 0 /\ ~ req[r].completed
    BY DEF Request, IInv, Begun
  <2>2. req \in [Requests -> ReqRow]
    BY DEF IInv, Shape
  <2>3. /\ req'[r].amount = amount /\ (req'[r].completed <=> req[r].completed)
        /\ \A s \in Requests \ {r} : req'[s] = req[s]
    BY <1>1, <2>2 DEF ReqRow
  <2>. QED
    BY <2>1, <2>3
<1>6. Completed' = Completed /\ OpenRequests' = OpenRequests + amount
  <2>1. Shape /\ Shape'
    BY DEF IInv
  <2>2. /\ Completed' = Completed - 0 + 0
        /\ OpenRequests' = OpenRequests - 0 + amount
    BY <1>5, <2>1, RequestChanges
  <2>. QED
    BY <1>2, <1>3, <2>2
<1>7. refunded' = refunded
  BY DEF Request
<1>. QED
  BY <1>2, <1>3, <1>4, <1>5, <1>6, <1>7 DEF RequestsFitPayment

(* Completing moves an amount from one total to the other.                 *)
LEMMA CompleteMoney ==
    ASSUME IInv, IInv', TypeOK, RequestsFitPayment, NEW r \in Requests,
           NEW i \in References, ~req[r].completed, Complete(r, i)
    PROVE  RequestsFitPayment' /\ req'[r].amount = req[r].amount /\ refunded' \in BOOLEAN
<1>1. /\ req'[r].completed /\ req'[r].amount = req[r].amount
      /\ \A s \in Requests \ {r} : req'[s] = req[s]
  BY CompleteWrites DEF IInv
<1>2. /\ Completed \in Nat /\ OpenRequests \in Nat /\ Paid \in Nat /\ req[r].amount \in Nat
  BY TotalsNat, RowMoney
<1>3. Completed' = Completed + req[r].amount /\ OpenRequests' = OpenRequests - req[r].amount
  <2>1. Shape /\ Shape'
    BY DEF IInv
  <2>2. /\ Completed' = Completed - 0 + req[r].amount
        /\ OpenRequests' = OpenRequests - req[r].amount + 0
    BY <1>1, <2>1, RequestChanges
  <2>. QED
    BY <1>2, <2>2
<1>4. refunded' \in BOOLEAN /\ (refunded' <=> Completed + req[r].amount = Paid)
  BY DEF Complete
<1>. QED
  <2>1. Completed + OpenRequests <= Paid
    BY DEF RequestsFitPayment
  <2>. QED
    BY <1>1, <1>2, <1>3, <1>4, <2>1 DEF RequestsFitPayment

(* The three ways in which a step may touch requests and the payment.      *)
LEMMA LedgerSteps ==
    ASSUME IInv, [Next]_vars
    PROVE  \/ UNCHANGED <<req, refunded>>
           \/ \E r \in Requests : Request(r)
           \/ \E r \in Requests, i \in References : ~req[r].completed /\ Complete(r, i)
<1>. Typed \subseteq References /\ "by hand" \in References
  BY DEF References
<1>1. CASE \E r \in Requests : CompleteByHand(r)
  BY <1>1 DEF CompleteByHand
<1>2. ASSUME NEW w \in Finance, FinishRecovery(w)
      PROVE  \/ UNCHANGED <<req, refunded>>
             \/ \E r \in Requests, i \in Typed : ~req[r].completed /\ Complete(r, i)
  <2>0. PICK r \in Requests, i \in Typed : r = wk[w].about /\ i = wk[w].id
    BY <1>2, AboutRequest DEF FinishRecovery, Executing, Aware, IInv
  <2>1. CASE wk[w].read = "ok"
    <3>1. FinishMatched(r, i)
      BY <1>2, <2>0, <2>1 DEF FinishRecovery
    <3>. QED
      BY <3>1 DEF FinishMatched, ledger
  <2>2. CASE wk[w].read # "ok"
    BY <1>2, <2>2 DEF FinishRecovery, ledger
  <2>. QED
    BY <2>1, <2>2
<1>. QED
  BY <1>1, <1>2
  DEF Next, Works, vars, ReduceStay, CloseFolio, ReopenFolio, ScheduleRecovery, Execute,
      AskRecovery, MarkProcessing, Call, TakeAnswer, Claim, FetchRefund, FetchDispute,
      RecordDispute, RefundDecided, DashboardRefund, ClaimMoves, ReverseChargeback, Crash

(* The chargebacks and their lines.                                        *)
DispRow == [state: DisputeStates, line: 0..Paid, reversed: BOOLEAN,
            impact: {"none", "pending_finance", "applied", "reversed"}]

(* A worker records a dispute, or Finance reverses one.                    *)
LEMMA DisputeSteps ==
    ASSUME MoneyInv, [Next]_vars
    PROVE  \/ UNCHANGED disp
           \/ \E q \in Queue : RecordDispute(q) /\ wk[q].about \in Disputes /\ wk[q].read \in ClaimStates
           \/ \E d \in Disputes : ReverseChargeback(d)
<1>1. ASSUME NEW q \in Queue, RecordDispute(q)
      PROVE  wk[q].about \in Disputes /\ wk[q].read \in ClaimStates
  BY <1>1 DEF RecordDispute, MoneyInv, Notified
<1>. QED
  BY <1>1
  DEF Next, Works, vars, ReduceStay, CloseFolio, ReopenFolio, Request, CompleteByHand,
      ScheduleRecovery, Execute, AskRecovery, MarkProcessing, Call, TakeAnswer, Claim,
      FetchRefund, FinishRecovery, FetchDispute, RefundDecided, DashboardRefund,
      ClaimMoves, Crash

(* What applyImpact() leaves: a line it adds is what was left to charge    *)
(* back, and otherwise the line is the one there was, perhaps reversed.    *)
LEMMA ImpactRow ==
    ASSUME TypeOK, NEW d \in Disputes, NEW state \in DisputeStates
    PROVE  /\ Impact(d, state) \in DispRow
           /\ \/ /\ disp[d].line = 0 /\ Chargeable(d) > 0
                 /\ Impact(d, state).line = Chargeable(d)
              \/ /\ Impact(d, state).line = disp[d].line
                 /\ disp[d].reversed => Impact(d, state).reversed
<1>. DEFINE row == [disp[d] EXCEPT !.state = state]
<1>1. disp[d] \in DispRow
  BY DEF TypeOK, DispRow
<1>2. /\ row \in DispRow /\ row.line = disp[d].line /\ row.reversed = disp[d].reversed
  BY <1>1 DEF DispRow
<1>3. Chargeable(d) \in 0..Paid
  <2>1. Completed \in Nat /\ ChargedBack \in Nat /\ Paid \in Nat /\ Disputed[d] \in 1..Paid
    BY TotalsNat, MoneyAssumption DEF MoneyAssumption
  <2>. QED
    BY <2>1 DEF Chargeable, Least, Positive
<1>4. \A x \in {"none", "pending_finance", "applied", "reversed"} :
         /\ [row EXCEPT !.impact = x] \in DispRow
         /\ [row EXCEPT !.impact = x].line = row.line
         /\ [row EXCEPT !.impact = x].reversed = row.reversed
         /\ \A n \in 0..Paid : /\ [row EXCEPT !.line = n, !.impact = x] \in DispRow
                               /\ [row EXCEPT !.line = n, !.impact = x].line = n
         /\ [row EXCEPT !.reversed = TRUE, !.impact = x] \in DispRow
         /\ [row EXCEPT !.reversed = TRUE, !.impact = x].line = row.line
         /\ [row EXCEPT !.reversed = TRUE, !.impact = x].reversed
  <2>. HIDE DEF row
  <2>. QED
    BY <1>2 DEF DispRow
<1>5. \/ Impact(d, state) = row
      \/ \E x \in {"none", "pending_finance", "applied", "reversed"} :
            \/ Impact(d, state) = [row EXCEPT !.impact = x]
            \/ Impact(d, state) = [row EXCEPT !.reversed = TRUE, !.impact = x]
            \/ /\ row.line = 0 /\ Chargeable(d) # 0
               /\ Impact(d, state) = [row EXCEPT !.line = Chargeable(d), !.impact = x]
  BY DEF Impact
<1>. HIDE DEF row
<1>6. CASE \E x \in {"none", "pending_finance", "applied", "reversed"} :
              /\ row.line = 0 /\ Chargeable(d) # 0
              /\ Impact(d, state) = [row EXCEPT !.line = Chargeable(d), !.impact = x]
  <2>1. Impact(d, state) \in DispRow /\ Impact(d, state).line = Chargeable(d)
    <3>1. PICK x \in {"none", "pending_finance", "applied", "reversed"} :
              Impact(d, state) = [row EXCEPT !.line = Chargeable(d), !.impact = x]
      BY <1>6
    <3>2. /\ [row EXCEPT !.line = Chargeable(d), !.impact = x] \in DispRow
          /\ [row EXCEPT !.line = Chargeable(d), !.impact = x].line = Chargeable(d)
      BY <1>3, <1>4
    <3>. QED
      BY <3>1, <3>2
  <2>2. Chargeable(d) > 0
    BY <1>3, <1>6
  <2>. QED
    BY <1>2, <1>6, <2>1, <2>2
<1>7. CASE Impact(d, state) = row
  BY <1>2, <1>7
<1>8. CASE \E x \in {"none", "pending_finance", "applied", "reversed"} :
              \/ Impact(d, state) = [row EXCEPT !.impact = x]
              \/ Impact(d, state) = [row EXCEPT !.reversed = TRUE, !.impact = x]
  BY <1>2, <1>4, <1>8
<1>. QED
  BY <1>5, <1>6, <1>7, <1>8

(* The disputes keep their type.                                           *)
LEMMA DisputeRows ==
    ASSUME MoneyInv, [Next]_vars
    PROVE  disp' \in [Disputes -> DispRow]
<1>1. disp \in [Disputes -> DispRow]
  BY DEF MoneyInv, TypeOK, DispRow
<1>2. ASSUME NEW q \in Queue, RecordDispute(q), wk[q].about \in Disputes, wk[q].read \in ClaimStates
      PROVE  disp' \in [Disputes -> DispRow]
  <2>1. StateOf(wk[q].read) \in DisputeStates
    BY DEF StateOf, DisputeStates
  <2>2. Impact(wk[q].about, StateOf(wk[q].read)) \in DispRow
    BY <1>2, <2>1, ImpactRow DEF MoneyInv
  <2>. QED
    BY <1>1, <1>2, <2>2 DEF RecordDispute
<1>3. ASSUME NEW d \in Disputes, ReverseChargeback(d)
      PROVE  disp' \in [Disputes -> DispRow]
  <2>1. [disp[d] EXCEPT !.reversed = TRUE] \in DispRow
    BY <1>1 DEF DispRow
  <2>. QED
    BY <1>1, <1>3, <2>1 DEF ReverseChargeback
<1>. QED
  BY <1>1, <1>2, <1>3, DisputeSteps

(* What the provider returns is at most what was paid.                     *)
LEMMA RemoteAmounts ==
    ASSUME MoneyInv, [Next]_vars
    PROVE  \A i \in Ids : remote'[i].amount <= Paid
<1>0. /\ \A i \in Ids : remote[i].amount <= Paid
      /\ \A r \in Requests : req[r].amount <= Paid
  <2>1. remote \in [Ids -> [key: Requests \cup {None}, amount: 0..Paid,
                           status: {"none", "pending", "approved", "rejected"}]]
    BY DEF MoneyInv, TypeOK
  <2>2. \A i \in Ids : remote[i].amount \in 0..Paid
    BY <2>1
  <2>. QED
    BY <2>2, RowMoney DEF MoneyInv
<1>1. remote \in [Ids -> RemoteRow]
  BY DEF MoneyInv, IInv, Shape
<1>2. ASSUME NEW w \in Finance, Call(w)
      PROVE  \A i \in Ids : remote'[i].amount <= Paid
  <2>0. PICK r \in Requests : r = wk[w].about
    BY <1>2, AboutRequest DEF Call, Executing, MoneyInv, IInv
  <2>1. remote' = remote \/ \E i \in Ids : \E status : New(i, r, req[r].amount, status)
    BY <1>2, <2>0 DEF Call, Unused
  <2>. QED
    BY <1>0, <1>1, <2>1 DEF New
<1>3. ASSUME NEW i \in Ids, NEW amount \in 1..Paid, DashboardRefund(i, amount)
      PROVE  \A k \in Ids : remote'[k].amount <= Paid
  BY <1>0, <1>1, <1>3 DEF DashboardRefund, New
<1>4. ASSUME NEW i \in Ids, RefundDecided(i)
      PROVE  \A k \in Ids : remote'[k].amount <= Paid
  BY <1>0, <1>1, <1>4 DEF RefundDecided, RemoteRow
<1>5. CASE UNCHANGED remote
  BY <1>0, <1>5
<1>. QED
  BY <1>2, <1>3, <1>4, <1>5
  DEF Next, Works, vars, ReduceStay, CloseFolio, ReopenFolio, Request, CompleteByHand,
      ScheduleRecovery, Execute, AskRecovery, MarkProcessing, TakeAnswer, Claim,
      FetchRefund, FinishRecovery, FetchDispute, RecordDispute, ClaimMoves,
      ReverseChargeback, Crash

(* The folio, and what the queue holds.                                    *)
LEMMA FolioRows ==
    ASSUME MoneyInv, [Next]_vars
    PROVE  stay' \in Nat /\ folio' \in {"open", "closed"} /\ news' \in [Disputes -> Nat]
<1>0. stay \in Nat /\ folio \in {"open", "closed"} /\ news \in [Disputes -> Nat]
  BY DEF MoneyInv, TypeOK
<1>1. CASE ReduceStay \/ CloseFolio \/ ReopenFolio
  BY <1>0, <1>1, MoneyAssumption DEF ReduceStay, CloseFolio, ReopenFolio, MoneyAssumption
<1>2. ASSUME NEW q \in Queue, NEW d \in Disputes, FetchDispute(q, d)
      PROVE  stay' = stay /\ folio' = folio /\ news' \in [Disputes -> Nat]
  BY <1>0, <1>2 DEF FetchDispute
<1>3. ASSUME NEW d \in Disputes, ClaimMoves(d)
      PROVE  stay' = stay /\ folio' = folio /\ news' \in [Disputes -> Nat]
  BY <1>0, <1>3 DEF ClaimMoves
<1>4. ASSUME NEW w \in Finance \cup Queue, Crash(w)
      PROVE  stay' = stay /\ folio' = folio /\ news' \in [Disputes -> Nat]
  <2>1. news' = news \/ news' = [news EXCEPT ![wk[w].about] = @ + 1]
    BY <1>4 DEF Crash
  <2>2. stay' = stay /\ folio' = folio
    BY <1>4 DEF Crash
  <2>. QED
    BY <1>0, <2>1, <2>2
<1>5. CASE UNCHANGED <<stay, folio, news>>
  BY <1>0, <1>5
<1>6. ASSUME NEW w \in Finance, FinishRecovery(w) PROVE UNCHANGED <<stay, folio, news>>
  BY <1>6 DEF FinishRecovery, FinishMatched, Complete, ledger
<1>7. ASSUME NEW r \in Requests, CompleteByHand(r) PROVE UNCHANGED <<stay, folio, news>>
  BY <1>7 DEF CompleteByHand, Complete
<1>. QED
  BY <1>0, <1>1, <1>2, <1>3, <1>4, <1>5, <1>6, <1>7
  DEF Next, Works, vars, Request,
      ScheduleRecovery, Execute, AskRecovery, MarkProcessing, Call, TakeAnswer, Claim,
      FetchRefund, RecordDispute, RefundDecided, DashboardRefund, ReverseChargeback

(* Only FetchDispute gives a queue worker something to record.             *)
LEMMA NotifiedStep ==
    ASSUME MoneyInv, [Next]_vars
    PROVE  Notified'
<1>0. /\ Finance \cap Queue = {} /\ Scheduler \in Finance
      /\ wk \in [Finance \cup Queue -> Run] /\ claims \in [Disputes -> ClaimStates]
  BY NamesAssumption DEF MoneyInv, IInv, Shape, NamesAssumption
<1>1. ASSUME NEW w \in Finance \cup Queue, NEW next, Goes(w, next),
             w \in Queue /\ next.step = "facts" => next.about \in Disputes /\ next.read \in ClaimStates
      PROVE  Notified'
  BY <1>0, <1>1 DEF MoneyInv, Notified, Goes
<1>2. ASSUME NEW w \in Finance, NEW next, Goes(w, next)
      PROVE  Notified'
  BY <1>0, <1>1, <1>2
<1>3. ASSUME NEW q \in Queue, NEW d \in Disputes, FetchDispute(q, d)
      PROVE  Notified'
  <2>. DEFINE next == [At("facts", d, None) EXCEPT !.read = claims[d]]
  <2>1. next.about \in Disputes /\ next.read \in ClaimStates
    BY <1>0 DEF At
  <2>2. Goes(q, next)
    BY <1>3 DEF FetchDispute
  <2>. HIDE DEF next
  <2>. QED
    BY <1>1, <2>1, <2>2
<1>4. ASSUME NEW w \in Finance \cup Queue, Goes(w, Idle)
      PROVE  Notified'
  BY <1>1, <1>4 DEF Idle
<1>5. CASE UNCHANGED wk
  BY <1>5 DEF MoneyInv, Notified
<1>. QED
  BY <1>0, <1>2, <1>3, <1>4, <1>5
  DEF Next, Works, vars, ReduceStay, CloseFolio, ReopenFolio, Request, CompleteByHand,
      ScheduleRecovery, Execute, AskRecovery, MarkProcessing, Call, TakeAnswer, Claim,
      FetchRefund, FinishRecovery, RecordDispute, RefundDecided, DashboardRefund,
      ClaimMoves, ReverseChargeback, Crash

(* Every step keeps the types and the totals.                              *)
LEMMA MoneyStep ==
    ASSUME MoneyInv, [Next]_vars
    PROVE  MoneyInv'
<1>1. IInv'
  BY StepInv DEF MoneyInv
<1>2. RequestsFitPayment' /\ refunded' \in BOOLEAN /\ \A r \in Requests : req'[r].amount <= Paid
  <2>0. \A r \in Requests : req[r].amount <= Paid
    BY RowMoney DEF MoneyInv
  <2>1. CASE UNCHANGED <<req, refunded>>
    <3>1. Amounts' = Amounts /\ Done' = Done
      BY <2>1 DEF Amounts, Done
    <3>2. Completed' = Completed /\ OpenRequests' = OpenRequests
      BY <3>1, RequestTotals, Zenon
    <3>3. refunded \in BOOLEAN /\ RequestsFitPayment
      BY DEF MoneyInv, TypeOK
    <3>. QED
      BY <2>0, <2>1, <3>2, <3>3 DEF RequestsFitPayment
  <2>2. ASSUME NEW r \in Requests, Request(r)
        PROVE  /\ RequestsFitPayment' /\ refunded' \in BOOLEAN
               /\ \A s \in Requests : req'[s].amount <= Paid
    <3>1. RequestsFitPayment' /\ req'[r].amount <= Paid /\ refunded' = refunded
      BY <1>1, <2>2, RequestMoney DEF MoneyInv
    <3>2. refunded \in BOOLEAN
      BY DEF MoneyInv, TypeOK
    <3>3. \A s \in Requests \ {r} : req'[s] = req[s]
      BY <2>2 DEF Request, MoneyInv, IInv, Shape
    <3>. QED
      BY <2>0, <3>1, <3>2, <3>3
  <2>3. ASSUME NEW r \in Requests, NEW i \in References, ~req[r].completed, Complete(r, i)
        PROVE  /\ RequestsFitPayment' /\ refunded' \in BOOLEAN
               /\ \A s \in Requests : req'[s].amount <= Paid
    <3>1. RequestsFitPayment' /\ req'[r].amount = req[r].amount /\ refunded' \in BOOLEAN
      BY <1>1, <2>3, CompleteMoney DEF MoneyInv
    <3>2. \A s \in Requests \ {r} : req'[s] = req[s]
      BY <2>3, CompleteWrites DEF MoneyInv, IInv
    <3>. QED
      BY <2>0, <3>1, <3>2
  <2>. QED
    BY <2>1, <2>2, <2>3, LedgerSteps DEF MoneyInv
<1>3. TypeOK'
  <2>1. /\ req' \in [Requests -> [amount: 0..Paid, completed: BOOLEAN,
                             reference: Typed \cup {None, "by hand"}]]
    <3>1. req' \in [Requests -> ReqRow]
      BY <1>1 DEF IInv, Shape
    <3>2. \A r \in Requests : req'[r].amount \in 0..Paid
      BY <1>2, <3>1, MoneyAssumption DEF ReqRow, MoneyAssumption
    <3>. QED
      BY <3>1, <3>2 DEF ReqRow, References
  <2>2. remote' \in [Ids -> [key: Requests \cup {None}, amount: 0..Paid,
                           status: {"none", "pending", "approved", "rejected"}]]
    <3>1. remote' \in [Ids -> RemoteRow]
      BY <1>1 DEF IInv, Shape
    <3>2. \A i \in Ids : remote'[i].amount \in 0..Paid
      BY <3>1, RemoteAmounts, MoneyAssumption DEF RemoteRow, MoneyAssumption
    <3>. QED
      BY <3>1, <3>2 DEF RemoteRow
  <2>3. disp' \in [Disputes -> DispRow]
    BY DisputeRows
  <2>4. stay' \in Nat /\ folio' \in {"open", "closed"} /\ news' \in [Disputes -> Nat]
    BY FolioRows
  <2>5. /\ exe' \in [Requests -> ExeRow] /\ claims' \in [Disputes -> ClaimStates]
        /\ wk' \in [Finance \cup Queue -> Run]
    BY <1>1 DEF IInv, Shape
  <2>. QED
    BY <1>2, <2>1, <2>2, <2>3, <2>4, <2>5 DEF TypeOK, DispRow, ExeRow, Run
<1>. QED
  BY <1>1, <1>2, <1>3, NotifiedStep DEF MoneyInv

(* At first nothing is requested and nothing charged back.                 *)
LEMMA MoneyInit == Init => MoneyInv
<1>. SUFFICES ASSUME Init PROVE MoneyInv
  OBVIOUS
<1>0. Paid \in Nat \ {0} /\ 0 \in 0..Paid /\ IsFiniteSet(Requests)
  BY MoneyAssumption, NamesAssumption DEF MoneyAssumption, NamesAssumption
<1>1. TypeOK
  <2>1. disp \in [Disputes -> DispRow]
    BY <1>0 DEF Init, DispRow, DisputeStates
  <2>2. req \in [Requests -> [amount: 0..Paid, completed: BOOLEAN,
                             reference: Typed \cup {None, "by hand"}]]
    BY <1>0 DEF Init
  <2>3. remote \in [Ids -> [key: Requests \cup {None}, amount: 0..Paid,
                           status: {"none", "pending", "approved", "rejected"}]]
    BY <1>0 DEF Init
  <2>4. /\ exe \in [Requests -> ExeRow] /\ claims \in [Disputes -> ClaimStates]
        /\ wk \in [Finance \cup Queue -> Run]
    BY InitInv DEF IInv, Shape
  <2>5. stay \in Nat /\ folio = "open" /\ refunded = FALSE /\ news \in [Disputes -> Nat]
    BY <1>0 DEF Init
  <2>. QED
    BY <2>1, <2>2, <2>3, <2>4, <2>5 DEF TypeOK, DispRow, ExeRow, Run
<1>2. Completed = 0 /\ OpenRequests = 0
  <2>1. Done = {} /\ \A r \in Requests : Amounts[r] = 0
    BY DEF Init, Done, Amounts
  <2>2. IsFiniteSet(Done) /\ IsFiniteSet(Requests \ Done)
    BY <1>0, FS_Subset DEF Done
  <2>. HIDE DEF Done, Amounts
  <2>3. Total(Amounts, Done) = 0 /\ Total(Amounts, Requests \ Done) = 0
    BY <2>1, <2>2, TotalZero
  <2>. QED
    BY <2>3, RequestTotals
<1>3. RequestsFitPayment
  BY <1>2, MoneyAssumption DEF Init, RequestsFitPayment, MoneyAssumption
<1>4. Notified
  BY DEF Init, Notified, Idle
<1>. QED
  BY <1>1, <1>3, <1>4, InitInv DEF MoneyInv

(* The types and the totals hold in every reachable state.                 *)
LEMMA MoneyInvariance == Spec => []MoneyInv
<1>1. MoneyInv /\ [Next]_vars => MoneyInv'
  BY MoneyStep
<1>. QED
  BY <1>1, MoneyInit, PTL DEF Spec

(* A step charges back no more than refunds and chargebacks left.          *)
LEMMA ChargebackStep ==
    ASSUME MoneyInv, MoneyInv', [Next]_vars, ChargedBack' > ChargedBack
    PROVE  (Completed + ChargedBack)' <= Paid
<1>1. /\ Completed \in Nat /\ ChargedBack \in Nat
      /\ \A d \in Disputes : disp[d].line \in Nat
  BY TotalsNat, RowMoney DEF MoneyInv
<1>2. disp \in [Disputes -> DispRow]
  BY DEF MoneyInv, TypeOK, DispRow
<1>3. CASE UNCHANGED disp
  <2>1. Lines' = Lines /\ Charged' = Charged
    BY <1>3 DEF Lines, Charged, Standing
  <2>2. ChargedBack' = ChargedBack
    BY <2>1, ChargeTotals, Zenon
  <2>. QED
    BY <1>1, <2>2
<1>4. ASSUME NEW d \in Disputes, ReverseChargeback(d)
      PROVE  FALSE
  <2>1. /\ Standing(d) /\ ~ Standing(d)'
        /\ \A c \in Disputes \ {d} : disp'[c] = disp[c]
    BY <1>2, <1>4 DEF ReverseChargeback, Standing, DispRow
  <2>2. ChargedBack' = ChargedBack - disp[d].line + 0
    BY <2>1, DisputeChanges DEF MoneyInv
  <2>3. disp[d].line \in Nat
    BY <1>1
  <2>. QED
    BY <1>1, <2>2, <2>3
<1>5. ASSUME NEW q \in Queue, RecordDispute(q), wk[q].about \in Disputes, wk[q].read \in ClaimStates
      PROVE  (Completed + ChargedBack)' <= Paid
  <2>1. PICK d \in Disputes, state \in DisputeStates :
            d = wk[q].about /\ state = StateOf(wk[q].read)
    BY <1>5 DEF StateOf, DisputeStates
  <2>2. /\ disp'[d] = Impact(d, state) /\ UNCHANGED req
        /\ \A c \in Disputes \ {d} : disp'[c] = disp[c]
    BY <1>2, <1>5, <2>1 DEF RecordDispute
  <2>3. Completed' = Completed
    <3>1. Amounts' = Amounts /\ Done' = Done
      BY <2>2 DEF Amounts, Done
    <3>. QED
      BY <3>1, RequestTotals, Zenon
  <2>4. ChargedBack' = ChargedBack - (IF Standing(d) THEN disp[d].line ELSE 0)
                                   + (IF Standing(d)' THEN disp'[d].line ELSE 0)
    BY <2>2, DisputeChanges DEF MoneyInv
  <2>5. \/ disp[d].line = 0 /\ Chargeable(d) > 0 /\ disp'[d].line = Chargeable(d)
        \/ disp'[d].line = disp[d].line /\ (disp[d].reversed => disp'[d].reversed)
    BY <2>2, ImpactRow DEF MoneyInv
  <2>6. disp[d].line \in Nat
    BY <1>1
  <2>7. CASE disp'[d].line = disp[d].line /\ (disp[d].reversed => disp'[d].reversed)
    <3>1. Standing(d)' => Standing(d)
      BY <1>2, <2>2, <2>7, ImpactRow DEF Standing, DispRow, MoneyInv
    <3>2. ChargedBack' = ChargedBack \/ ChargedBack' = ChargedBack - disp[d].line
      BY <1>1, <2>4, <2>6, <2>7, <3>1
    <3>. QED
      BY <1>1, <2>6, <3>2
  <2>8. CASE disp[d].line = 0 /\ Chargeable(d) > 0 /\ disp'[d].line = Chargeable(d)
    <3>1. Disputed[d] \in Nat /\ Paid \in Nat
      BY <2>6, MoneyAssumption DEF MoneyAssumption
    <3>2. ~ Standing(d) /\ Chargeable(d) \in Nat
      BY <1>1, <2>8, <3>1 DEF Standing, Chargeable, Least, Positive
    <3>3. Chargeable(d) <= Paid - Completed - ChargedBack
      BY <1>1, <2>8, <3>1 DEF Chargeable, Least, Positive
    <3>4. ChargedBack' = ChargedBack \/ ChargedBack' = ChargedBack + Chargeable(d)
      BY <1>1, <2>4, <2>8, <3>2
    <3>5. ChargedBack' = ChargedBack + Chargeable(d)
      BY <1>1, <3>4
    <3>. QED
      BY <1>1, <2>3, <3>1, <3>2, <3>3, <3>5
  <2>. QED
    BY <2>5, <2>7, <2>8
<1>. QED
  BY <1>3, <1>4, <1>5, DisputeSteps

(* Amounts, lines and what the provider returned never pass the payment,   *)
(* over every crossing of requests, executions, recoveries and disputes.   *)
THEOREM TypeCorrect == Spec => []TypeOK
<1>1. MoneyInv => TypeOK
  BY DEF MoneyInv
<1>. QED
  BY <1>1, MoneyInvariance, PTL

(* Requests made side by side, for any number of them and whatever their   *)
(* completions do, never promise more than was paid, and the payment is    *)
(* refunded exactly when all went back (RequestRefund:37-56,               *)
(* CompleteRefund:40-75).                                                  *)
THEOREM RequestsNeverExceedPayment == Spec => []RequestsFitPayment
<1>1. MoneyInv => RequestsFitPayment
  BY DEF MoneyInv
<1>. QED
  BY <1>1, MoneyInvariance, PTL

(* No step charges back more than refunds and earlier chargebacks left     *)
(* (RecordProviderDispute:148-161).                                        *)
THEOREM ChargebacksTakeWhatIsLeft == Spec => ChargebacksFit
<1>1. MoneyInv /\ MoneyInv' /\ [Next]_vars =>
          [ChargedBack' > ChargedBack => (Completed + ChargedBack)' <= Paid]_vars
  BY ChargebackStep
<1>2. MoneyInv /\ [Next]_vars => MoneyInv'
  BY MoneyStep
<1>. QED
  BY <1>1, <1>2, MoneyInit, PTL DEF Spec, ChargebacksFit

(* However many people execute and recover however many refunds at once,   *)
(* whatever stops, is lost or is mistyped, a completion that names a       *)
(* provider refund names one the provider approved, of that amount         *)
(* (RecoverProviderRefund:69-126).                                         *)
THEOREM NothingPostedUnreturned == Spec => []PostedRefundsWereReturned
<1>1. IInv => PostedRefundsWereReturned
  BY DEF IInv
<1>. QED
  BY <1>1, Invariance, PTL

(* No late answer or stale worker leaves a refund that says succeeded      *)
(* without the completion on the folio (RecoverProviderRefund:104-126).    *)
THEOREM SuccessHasItsLine == Spec => []SucceededIsPosted
<1>1. IInv => SucceededIsPosted
  BY DEF IInv
<1>. QED
  BY <1>1, Invariance, PTL
=============================================================================
