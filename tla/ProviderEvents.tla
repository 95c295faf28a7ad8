--------------------------- MODULE ProviderEvents ---------------------------
(***************************************************************************)
(* The store of provider notifications: a webhook call makes the row and   *)
(* then queues its job, queue workers claim the row under a lease, process *)
(* it and record the outcome, and operators replay or reconcile by hand.   *)
(* What processing does to payments is in DirectBooking, and to disputes   *)
(* in Refunds; here it has an outcome.                                     *)
(*                                                                         *)
(* Times are ages, each counted up to the limit it is compared with.  The  *)
(* job's back-off is left out: a released job may be taken at any time.    *)
(***************************************************************************)
EXTENDS Integers

CONSTANTS
    Events,         \* identities of deliveries, and of reconciliations
    Web,            \* requests to the webhook
    Workers,        \* queue workers
    Operators,      \* runs of payments:replay-event, and of a reconciliation
    Timeout,        \* seconds a queue worker runs one job
    Lease,          \* seconds before a claim is stale
    RetryAfter,     \* seconds before the queue gives a reserved job again
    Deadline,       \* retryUntil
    None

(* 30, 90 and 1800 seconds in the code; 240 in compose.yml.                *)
ASSUME TimesAssumption ==
    /\ {Timeout, Lease, RetryAfter, Deadline} \subseteq Nat \ {0}
    /\ Timeout < Lease /\ Lease + Timeout <= RetryAfter
ASSUME NamesAssumption ==
    /\ Web \cap (Workers \cup Operators) = {} /\ Workers \cap Operators = {}
    /\ None \notin Events

VARIABLES
    row,        \* provider_events: state and the age of updated_at
    job,        \* the event's job in the queue
    wk,         \* web requests, queue workers and operators
    stopped,    \* events whose last request or command stopped half-way
    replayed    \* events an operator has put back

vars == <<row, job, wk, stopped, replayed>>

Processes == Web \cup Workers \cup Operators
States == {"none", "received", "processing", "processed", "mismatched", "failed"}
Steps == {"idle", "dispatch", "replay", "claim", "work", "record", "release", "delete"}

(* Mutant: the state the provider reports ends up in processing_state.     *)
BugOutcomes == {"processed", "mismatched", "failed", "refunded"}

(* What processing ends with; "failed" is any other throw.                 *)
Outcomes == {"processed", "mismatched", "failed"}

TypeOK ==
    /\ row \in [Events -> [state: States, age: 0..Lease]]
    /\ job \in [Events -> [state: {"none", "ready", "reserved"},
                           age: 0..Deadline, held: 0..RetryAfter]]
    /\ wk \in [Processes -> [step: Steps, about: Events \cup {None}, age: 0..Timeout,
                             outcome: {"processed", "mismatched", "failed"}]]
    /\ stopped \in [Events -> BOOLEAN] /\ replayed \in [Events -> BOOLEAN]

NoJob == [state |-> "none", age |-> 0, held |-> 0]
Idle == [step |-> "idle", about |-> None, age |-> 0, outcome |-> "failed"]
Goes(w, step) == wk' = [wk EXCEPT ![w].step = step]
Starts(w, step, e) ==
    wk' = [wk EXCEPT ![w] = [step |-> step, about |-> e, age |-> 0, outcome |-> "failed"]]
Ends(w) == wk' = [wk EXCEPT ![w] = Idle]
Writes(e, state) == row' = [row EXCEPT ![e] = [state |-> state, age |-> 0]]

-----------------------------------------------------------------------------
(* The webhook.                                                            *)

(* A delivery that is not known makes the row; one that is known, by its   *)
(* identity or its body, only makes a row that says so and is not queued.  *)
Receive(w, e) ==
    /\ wk[w].step = "idle" /\ row[e].state = "none"
    /\ Writes(e, "received")
    /\ Starts(w, "dispatch", e)
    /\ UNCHANGED <<job, stopped, replayed>>

(* The job is queued after the commit.                                     *)
Dispatch(w) ==
    /\ wk[w].step = "dispatch"
    /\ job' = [job EXCEPT ![wk[w].about] = [NoJob EXCEPT !.state = "ready"]]
    /\ Ends(w)
    /\ UNCHANGED <<row, stopped, replayed>>

-----------------------------------------------------------------------------
(* The queue.                                                              *)

Available(e) ==
    \/ job[e].state = "ready"
    \/ job[e].state = "reserved" /\ job[e].held = RetryAfter

(* Mutant: the queue never gives up.                                       *)
BugExpired(e) == FALSE

(* retryUntil() passed; with it the queue does not count tries.            *)
Expired(e) == job[e].age = Deadline

Take(w, e) ==
    /\ wk[w].step = "idle" /\ Available(e) /\ ~Expired(e)
    /\ job' = [job EXCEPT ![e] = [state |-> "reserved", age |-> @.age, held |-> 0]]
    /\ Starts(w, "claim", e)
    /\ UNCHANGED <<row, stopped, replayed>>

(* failed() writes Failed whatever the row says.  The queue deletes the job *)
(* before it calls failed(); that a worker dies between the two is left    *)
(* out.                                                                    *)
GiveUp(w, e) ==
    /\ wk[w].step = "idle" /\ Available(e) /\ Expired(e)
    /\ job' = [job EXCEPT ![e] = NoJob]
    /\ Writes(e, "failed")
    /\ UNCHANGED <<wk, stopped, replayed>>

(* A throw gives the job back, or fails it when its time is over.          *)
Release(w) ==
    LET e == wk[w].about
    IN  /\ wk[w].step = "release"
        /\ IF Expired(e)
           THEN job' = [job EXCEPT ![e] = NoJob] /\ Writes(e, "failed")
           ELSE job' = [job EXCEPT ![e].state = "ready"] /\ UNCHANGED row
        /\ Ends(w)
        /\ UNCHANGED <<stopped, replayed>>

(* A handler that returns has done its job.                                *)
Delete(w) ==
    /\ wk[w].step = "delete"
    /\ job' = [job EXCEPT ![wk[w].about] = NoJob]
    /\ Ends(w)
    /\ UNCHANGED <<row, stopped, replayed>>

-----------------------------------------------------------------------------
(* ProcessProviderEvent::handle, for a queue worker or an operator.        *)

Leased(e) == row[e].state = "processing" /\ row[e].age < Lease

(* Mutant: a claim never becomes stale.                                    *)
BugClaimable(e) == row[e].state \in {"received", "failed"}

(* Mutant: a processed event is not told from a new one.                   *)
BugClaimableTwice(e) == ~Leased(e)

Claimable(e) ==
    row[e].state \notin {"processed", "mismatched"} /\ ~Leased(e)

Returns(w) == IF w \in Workers THEN Goes(w, "delete") ELSE Ends(w)

Claim(w) ==
    LET e == wk[w].about
    IN  /\ wk[w].step = "claim"
        /\ IF Claimable(e)
           THEN /\ Writes(e, "processing")
                /\ Goes(w, "work")
                /\ stopped' = [stopped EXCEPT ![e] = FALSE]
           ELSE Returns(w) /\ UNCHANGED <<row, stopped>>
        /\ UNCHANGED <<job, replayed>>

(* The remote lookup and what it changes.                                  *)
Process(w) ==
    /\ wk[w].step = "work"
    /\ \E outcome \in Outcomes :
           wk' = [wk EXCEPT ![w].step = "record", ![w].outcome = outcome]
    /\ UNCHANGED <<row, job, stopped, replayed>>

(* The outcome is written without a look at the row.                       *)
Record(w) ==
    /\ wk[w].step = "record"
    /\ Writes(wk[w].about, wk[w].outcome)
    /\ IF w \in Workers /\ wk[w].outcome = "failed" THEN Goes(w, "release") ELSE Returns(w)
    /\ UNCHANGED <<job, stopped, replayed>>

-----------------------------------------------------------------------------
(* Operators.                                                              *)

(* ReplayProviderEvent reads the row without a lock ...                    *)
Replay(w, e) ==
    /\ wk[w].step = "idle" /\ row[e].state \in {"failed", "mismatched"}
    /\ Starts(w, "replay", e)
    /\ UNCHANGED <<row, job, stopped, replayed>>

(* ... and makes it received.                                              *)
PutBack(w) ==
    /\ wk[w].step = "replay"
    /\ Writes(wk[w].about, "received")
    /\ Goes(w, "claim")
    /\ replayed' = [replayed EXCEPT ![wk[w].about] = TRUE]
    /\ UNCHANGED <<job, stopped>>

(* ReconcileProviderPayment makes an event of its own and processes it.    *)
Reconcile(w, e) ==
    /\ wk[w].step = "idle" /\ row[e].state = "none"
    /\ Writes(e, "received")
    /\ Starts(w, "claim", e)
    /\ UNCHANGED <<job, stopped, replayed>>

-----------------------------------------------------------------------------
(* Time and failures.                                                      *)

Older(age, limit) == IF age < limit THEN age + 1 ELSE age

(* A second passes; no queue worker outlives its timeout.                  *)
Tick ==
    /\ \A w \in Workers : wk[w].step # "idle" => wk[w].age < Timeout
    /\ row' = [e \in Events |->
                  IF row[e].state = "processing"
                  THEN [row[e] EXCEPT !.age = Older(@, Lease)] ELSE row[e]]
    /\ job' = [e \in Events |->
                  CASE job[e].state = "none" -> job[e]
                    [] job[e].state = "ready" -> [job[e] EXCEPT !.age = Older(@, Deadline)]
                    [] job[e].state = "reserved" ->
                           [state |-> "reserved", age |-> Older(job[e].age, Deadline),
                            held |-> Older(job[e].held, RetryAfter)]]
    /\ wk' = [w \in Processes |->
                  IF w \in Workers /\ wk[w].step # "idle"
                  THEN [wk[w] EXCEPT !.age = Older(@, Timeout)] ELSE wk[w]]
    /\ UNCHANGED <<stopped, replayed>>

(* A process stops, or the queue kills the one whose time is over.         *)
Stop(w) ==
    /\ wk[w].step # "idle"
    /\ stopped' = IF w \in Workers THEN stopped ELSE [stopped EXCEPT ![wk[w].about] = TRUE]
    /\ Ends(w)
    /\ UNCHANGED <<row, job, replayed>>

-----------------------------------------------------------------------------
Init ==
    /\ row = [e \in Events |-> [state |-> "none", age |-> 0]]
    /\ job = [e \in Events |-> NoJob]
    /\ wk = [w \in Processes |-> Idle]
    /\ stopped = [e \in Events |-> FALSE] /\ replayed = [e \in Events |-> FALSE]

Handles(w) == Claim(w) \/ Process(w) \/ Record(w)

Next ==
    \/ \E w \in Web : Dispatch(w) \/ \E e \in Events : Receive(w, e)
    \/ \E w \in Workers :
          \/ Handles(w) \/ Release(w) \/ Delete(w)
          \/ \E e \in Events : Take(w, e) \/ GiveUp(w, e)
    \/ \E w \in Operators :
          \/ Handles(w) \/ PutBack(w)
          \/ \E e \in Events : Replay(w, e) \/ Reconcile(w, e)
    \/ \E w \in Processes : Stop(w)
    \/ Tick

(* Time passes; the queue is first in, first out, so an available job is   *)
(* not passed over for ever; a call ends, if only by its timeout.          *)
Fairness ==
    /\ WF_vars(Tick)
    /\ \A e \in Events : SF_vars(\E w \in Workers : Take(w, e) \/ GiveUp(w, e))
    /\ \A w \in Workers : WF_vars(Handles(w) \/ Release(w) \/ Delete(w))
    /\ \A w \in Operators : WF_vars(Handles(w) \/ PutBack(w))

Spec == Init /\ [][Next]_vars
FairSpec == Spec /\ Fairness

-----------------------------------------------------------------------------
Unfinished(e) == row[e].state \in {"received", "processing"}
Attended(e) == job[e].state # "none" \/ \E w \in Processes : wk[w].about = e

(* docs/client-ready-implementation-plan.md:376, "provider events ... are  *)
(* supervised and replayable".  A replay refuses an event that is received *)
(* or processing, and nothing but its job looks for one.  However workers, *)
(* operators and leases cross, an event is left so with no one attending   *)
(* to it only if a request or a command stopped half-way; a queue worker   *)
(* that stops strands none, since the job comes back after the lease       *)
(* (ProcessProviderEvent:38-42), save at the moment GiveUp leaves out.     *)
NothingForgotten ==
    \A e \in Events : Unfinished(e) /\ ~Attended(e) => stopped[e]

(* Redelivered jobs, workers that stop after their outcome is written and  *)
(* stale claims do not undo what was processed: only an event an operator  *)
(* ever replayed, or whose job ran out of time, is taken back              *)
(* (ProcessProviderEvent:35, 171-176; ProcessProviderEventJob::failed).    *)
ProcessedStays ==
    [][\A e \in Events : row[e].state = "processed" /\ row'[e].state # "processed" =>
           Expired(e) \/ replayed[e] \/ replayed'[e]]_vars

(* A queued event is dealt with: its job ends with the event processed,    *)
(* or left to Finance as mismatched or failed (ProcessProviderEventJob).   *)
QueuedEventsSettle ==
    \A e \in Events :
        job[e].state # "none" ~>
            job[e].state = "none" /\ (~Unfinished(e) \/ stopped[e])
=============================================================================
