------------------------ MODULE ProviderEventsProofs ------------------------
(***************************************************************************)
(* What ProviderEvents keeps for any events, processes and times that meet *)
(* its assumptions.                                                        *)
(***************************************************************************)
EXTENDS ProviderEvents, TLAPS

(* Which steps each kind of process takes.                                 *)
Kinds ==
    /\ \A p \in Processes : wk[p].about = None <=> wk[p].step = "idle"
    /\ \A p \in Web : wk[p].step \in {"idle", "dispatch"}
    /\ \A p \in Operators : wk[p].step \in {"idle", "replay", "claim", "work", "record"}
    /\ \A p \in Workers :
           wk[p].step \in {"idle", "claim", "work", "record", "release", "delete"}

(* A queue worker holds the job it works on, alone, since it took it.      *)
Exclusive ==
    /\ \A w \in Workers, e \in Events : wk[w].about = e =>
           job[e].state = "reserved" /\ job[e].held = wk[w].age
    /\ \A w, v \in Workers : wk[w].about = wk[v].about /\ wk[w].about # None => w = v

(* Nothing knows an event before its row, and only its request before its  *)
(* job.                                                                    *)
Fresh ==
    \A e \in Events :
        /\ row[e].state = "none" =>
               job[e].state = "none" /\ \A p \in Processes : wk[p].about # e
        /\ \A w \in Web : wk[w].about = e =>
               /\ row[e].state = "received" /\ job[e].state = "none"
               /\ \A p \in Processes : wk[p].about = e => p = w

(* Who will still finish a received event ...                              *)
ReceivedCovered(e) ==
    \/ stopped[e]
    \/ \E w \in Web : wk[w].about = e
    \/ \E o \in Operators : wk[o].about = e /\ wk[o].step = "claim"
    \/ /\ job[e].state # "none"
       /\ \A w \in Workers : wk[w].about = e => wk[w].step = "claim"

(* ... and one in processing.  Its lease is over when the queue gives the  *)
(* job of a stopped worker to another.                                     *)
ProcessingCovered(e) ==
    \/ stopped[e]
    \/ \E o \in Operators : wk[o].about = e /\ wk[o].step \in {"work", "record"}
    \/ /\ job[e].state = "reserved"
       /\ row[e].age = Lease \/ job[e].held <= row[e].age + Timeout
       /\ \A w \in Workers : wk[w].about = e =>
              wk[w].step \in {"work", "record"} \/ (wk[w].step = "claim" /\ row[e].age = Lease)

CoveredAt(e) ==
    /\ row[e].state = "received" => ReceivedCovered(e)
    /\ row[e].state = "processing" => ProcessingCovered(e)
Covered == \A e \in Events : CoveredAt(e)

(* Until an operator puts an event back, one process at a time handles it. *)
Single ==
    \A e \in Events : ~replayed[e] =>
        /\ \A p \in Workers \cup Operators :
               wk[p].about = e /\ wk[p].step \in {"work", "record"} => row[e].state = "processing"
        /\ \A o \in Operators : wk[o].about = e /\ wk[o].step \in {"claim", "work", "record"} =>
               /\ job[e].state = "none"
               /\ \A p \in Processes : wk[p].about = e /\ wk[p].step # "replay" => p = o

IInv == TypeOK /\ Kinds /\ Exclusive /\ Fresh /\ Covered /\ Single

Rows == [state: States, age: 0..Lease]
Jobs == [state: {"none", "ready", "reserved"}, age: 0..Deadline, held: 0..RetryAfter]
Runs == [step: Steps, about: Events \cup {None}, age: 0..Timeout,
         outcome: {"processed", "mismatched", "failed"}]

-----------------------------------------------------------------------------
(* The operators the actions are built from keep the types.                *)

(* Limits are natural numbers, so 0 is an age.                             *)
LEMMA Limits ==
    /\ Timeout \in Nat /\ Lease \in Nat /\ RetryAfter \in Nat /\ Deadline \in Nat
    /\ Timeout < Lease /\ Lease + Timeout <= RetryAfter
  BY TimesAssumption DEF TimesAssumption

(* A process that is not idle is about an event.                           *)
LEMMA AboutEvent ==
    ASSUME TypeOK, Kinds, NEW p \in Processes, wk[p].step # "idle"
    PROVE  wk[p].about \in Events
  BY DEF TypeOK, Kinds

LEMMA WritesType ==
    ASSUME TypeOK, NEW e \in Events, NEW s \in States, Writes(e, s)
    PROVE  row' \in [Events -> Rows]
<1>1. [state |-> s, age |-> 0] \in Rows
  BY Limits DEF Rows
<1>2. row \in [Events -> Rows]
  BY DEF TypeOK, Rows
<1>. QED
  BY <1>1, <1>2 DEF Writes

LEMMA StartsType ==
    ASSUME TypeOK, NEW w \in Processes, NEW e \in Events, NEW s \in Steps, Starts(w, s, e)
    PROVE  wk' \in [Processes -> Runs]
<1>1. [step |-> s, about |-> e, age |-> 0, outcome |-> "failed"] \in Runs
  BY Limits DEF Runs
<1>2. wk \in [Processes -> Runs]
  BY DEF TypeOK, Runs
<1>. QED
  BY <1>1, <1>2 DEF Starts

LEMMA GoesType ==
    ASSUME TypeOK, NEW w \in Processes, NEW s \in Steps, Goes(w, s)
    PROVE  wk' \in [Processes -> Runs]
<1>1. wk \in [Processes -> Runs]
  BY DEF TypeOK, Runs
<1>2. [wk[w] EXCEPT !.step = s] \in Runs
  BY <1>1 DEF Runs
<1>. QED
  BY <1>1, <1>2 DEF Goes

LEMMA EndsType ==
    ASSUME TypeOK, NEW w \in Processes, Ends(w)
    PROVE  wk' \in [Processes -> Runs]
<1>1. Idle \in Runs
  BY Limits DEF Runs, Idle, Steps
<1>2. wk \in [Processes -> Runs]
  BY DEF TypeOK, Runs
<1>. QED
  BY <1>1, <1>2 DEF Ends

LEMMA JobType ==
    ASSUME TypeOK, NEW e \in Events, NEW j \in Jobs, job' = [job EXCEPT ![e] = j]
    PROVE  job' \in [Events -> Jobs]
  BY DEF TypeOK, Jobs

LEMMA NoJobType == NoJob \in Jobs /\ [NoJob EXCEPT !.state = "ready"] \in Jobs
  BY Limits DEF NoJob, Jobs

LEMMA SameType ==
    ASSUME TypeOK
    PROVE  /\ row' = row => row' \in [Events -> Rows]
           /\ job' = job => job' \in [Events -> Jobs]
           /\ wk' = wk => wk' \in [Processes -> Runs]
           /\ stopped' = stopped => stopped' \in [Events -> BOOLEAN]
           /\ replayed' = replayed => replayed' \in [Events -> BOOLEAN]
  BY DEF TypeOK, Rows, Jobs, Runs

LEMMA TypeParts ==
    TypeOK' <=> /\ row' \in [Events -> Rows] /\ job' \in [Events -> Jobs]
                /\ wk' \in [Processes -> Runs]
                /\ stopped' \in [Events -> BOOLEAN] /\ replayed' \in [Events -> BOOLEAN]
  BY DEF TypeOK, Rows, Jobs, Runs

(* Every step keeps the types.                                             *)
LEMMA TypeStep ==
    ASSUME TypeOK, Kinds, [Next]_vars
    PROVE  TypeOK'
<1>1. ASSUME NEW w \in Web, NEW e \in Events, Receive(w, e)
      PROVE  TypeOK'
  <2>1. row' \in [Events -> Rows]
    BY <1>1, WritesType DEF Receive, States
  <2>2. job' \in [Events -> Jobs]
    BY <1>1, SameType DEF Receive
  <2>3. wk' \in [Processes -> Runs]
    BY <1>1, StartsType DEF Receive, Steps, Processes
  <2>4. stopped' \in [Events -> BOOLEAN] /\ replayed' \in [Events -> BOOLEAN]
    BY <1>1, SameType DEF Receive
  <2>. QED
    BY <2>1, <2>2, <2>3, <2>4, TypeParts
<1>2. ASSUME NEW w \in Web, Dispatch(w)
      PROVE  TypeOK'
  <2>0. wk[w].about \in Events /\ w \in Processes
    BY <1>2, AboutEvent DEF Dispatch, Processes
  <2>1. row' \in [Events -> Rows]
    BY <1>2, SameType DEF Dispatch
  <2>2. job' \in [Events -> Jobs]
    BY <1>2, <2>0, JobType, NoJobType DEF Dispatch
  <2>3. wk' \in [Processes -> Runs]
    BY <1>2, <2>0, EndsType DEF Dispatch
  <2>4. stopped' \in [Events -> BOOLEAN] /\ replayed' \in [Events -> BOOLEAN]
    BY <1>2, SameType DEF Dispatch
  <2>. QED
    BY <2>1, <2>2, <2>3, <2>4, TypeParts
<1>3. ASSUME NEW w \in Workers, NEW e \in Events, Take(w, e)
      PROVE  TypeOK'
  <2>1. row' \in [Events -> Rows]
    BY <1>3, SameType DEF Take
  <2>2. job' \in [Events -> Jobs]
    <3>1. [state |-> "reserved", age |-> job[e].age, held |-> 0] \in Jobs
      BY Limits DEF TypeOK, Jobs
    <3>. QED
      BY <1>3, <3>1, JobType DEF Take
  <2>3. wk' \in [Processes -> Runs]
    BY <1>3, StartsType DEF Take, Steps, Processes
  <2>4. stopped' \in [Events -> BOOLEAN] /\ replayed' \in [Events -> BOOLEAN]
    BY <1>3, SameType DEF Take
  <2>. QED
    BY <2>1, <2>2, <2>3, <2>4, TypeParts
<1>4. ASSUME NEW w \in Workers, NEW e \in Events, GiveUp(w, e)
      PROVE  TypeOK'
  <2>1. row' \in [Events -> Rows]
    BY <1>4, WritesType DEF GiveUp, States
  <2>2. job' \in [Events -> Jobs]
    BY <1>4, JobType, NoJobType DEF GiveUp
  <2>3. wk' \in [Processes -> Runs]
    BY <1>4, SameType DEF GiveUp
  <2>4. stopped' \in [Events -> BOOLEAN] /\ replayed' \in [Events -> BOOLEAN]
    BY <1>4, SameType DEF GiveUp
  <2>. QED
    BY <2>1, <2>2, <2>3, <2>4, TypeParts
<1>5. ASSUME NEW w \in Workers, Release(w)
      PROVE  TypeOK'
  <2>0. wk[w].about \in Events /\ w \in Processes
    BY <1>5, AboutEvent DEF Release, Processes
  <2>1. row' \in [Events -> Rows]
    BY <1>5, <2>0, WritesType, SameType DEF Release, States
  <2>2. job' \in [Events -> Jobs]
    <3>1. [job[wk[w].about] EXCEPT !.state = "ready"] \in Jobs
      BY <2>0 DEF TypeOK, Jobs
    <3>. QED
      BY <1>5, <2>0, <3>1, JobType, NoJobType DEF Release
  <2>3. wk' \in [Processes -> Runs]
    BY <1>5, <2>0, EndsType DEF Release
  <2>4. stopped' \in [Events -> BOOLEAN] /\ replayed' \in [Events -> BOOLEAN]
    BY <1>5, SameType DEF Release
  <2>. QED
    BY <2>1, <2>2, <2>3, <2>4, TypeParts
<1>6. ASSUME NEW w \in Workers, Delete(w)
      PROVE  TypeOK'
  <2>0. wk[w].about \in Events /\ w \in Processes
    BY <1>6, AboutEvent DEF Delete, Processes
  <2>1. row' \in [Events -> Rows]
    BY <1>6, SameType DEF Delete
  <2>2. job' \in [Events -> Jobs]
    BY <1>6, <2>0, JobType, NoJobType DEF Delete
  <2>3. wk' \in [Processes -> Runs]
    BY <1>6, <2>0, EndsType DEF Delete
  <2>4. stopped' \in [Events -> BOOLEAN] /\ replayed' \in [Events -> BOOLEAN]
    BY <1>6, SameType DEF Delete
  <2>. QED
    BY <2>1, <2>2, <2>3, <2>4, TypeParts
<1>7. ASSUME NEW w \in Workers \cup Operators, Claim(w)
      PROVE  TypeOK'
  <2>0. wk[w].about \in Events /\ w \in Processes
    BY <1>7, AboutEvent DEF Claim, Processes
  <2>1. row' \in [Events -> Rows]
    BY <1>7, <2>0, WritesType, SameType DEF Claim, States
  <2>2. job' \in [Events -> Jobs]
    BY <1>7, SameType DEF Claim
  <2>3. wk' \in [Processes -> Runs]
    BY <1>7, <2>0, GoesType, EndsType DEF Claim, Returns, Steps
  <2>4. stopped' \in [Events -> BOOLEAN] /\ replayed' \in [Events -> BOOLEAN]
    BY <1>7, <2>0, SameType DEF Claim, TypeOK
  <2>. QED
    BY <2>1, <2>2, <2>3, <2>4, TypeParts
<1>8. ASSUME NEW w \in Workers \cup Operators, Process(w)
      PROVE  TypeOK'
  <2>0. wk[w].about \in Events /\ w \in Processes
    BY <1>8, AboutEvent DEF Process, Processes
  <2>1. row' \in [Events -> Rows]
    BY <1>8, SameType DEF Process
  <2>2. job' \in [Events -> Jobs]
    BY <1>8, SameType DEF Process
  <2>3. wk' \in [Processes -> Runs]
    <3>1. PICK o \in Outcomes : wk' = [wk EXCEPT ![w].step = "record", ![w].outcome = o]
      BY <1>8 DEF Process
    <3>2. wk \in [Processes -> Runs]
      BY DEF TypeOK, Runs
    <3>3. [wk[w] EXCEPT !.step = "record", !.outcome = o] \in Runs
      BY <2>0, <3>2 DEF Runs, Outcomes, Steps
    <3>. QED
      BY <2>0, <3>1, <3>2, <3>3
  <2>4. stopped' \in [Events -> BOOLEAN] /\ replayed' \in [Events -> BOOLEAN]
    BY <1>8, SameType DEF Process
  <2>. QED
    BY <2>1, <2>2, <2>3, <2>4, TypeParts
<1>9. ASSUME NEW w \in Workers \cup Operators, Record(w)
      PROVE  TypeOK'
  <2>0. wk[w].about \in Events /\ w \in Processes
    BY <1>9, AboutEvent DEF Record, Processes
  <2>01. wk[w].outcome \in States
    BY <2>0 DEF TypeOK, States
  <2>1. row' \in [Events -> Rows]
    BY <1>9, <2>0, <2>01, WritesType DEF Record
  <2>2. job' \in [Events -> Jobs]
    BY <1>9, SameType DEF Record
  <2>3. wk' \in [Processes -> Runs]
    BY <1>9, <2>0, GoesType, EndsType DEF Record, Returns, Steps
  <2>4. stopped' \in [Events -> BOOLEAN] /\ replayed' \in [Events -> BOOLEAN]
    BY <1>9, SameType DEF Record
  <2>. QED
    BY <2>1, <2>2, <2>3, <2>4, TypeParts
<1>10. ASSUME NEW w \in Operators, NEW e \in Events, Replay(w, e)
      PROVE  TypeOK'
  <2>1. row' \in [Events -> Rows]
    BY <1>10, SameType DEF Replay
  <2>2. job' \in [Events -> Jobs]
    BY <1>10, SameType DEF Replay
  <2>3. wk' \in [Processes -> Runs]
    BY <1>10, StartsType DEF Replay, Steps, Processes
  <2>4. stopped' \in [Events -> BOOLEAN] /\ replayed' \in [Events -> BOOLEAN]
    BY <1>10, SameType DEF Replay
  <2>. QED
    BY <2>1, <2>2, <2>3, <2>4, TypeParts
<1>11. ASSUME NEW w \in Operators, PutBack(w)
      PROVE  TypeOK'
  <2>0. wk[w].about \in Events /\ w \in Processes
    BY <1>11, AboutEvent DEF PutBack, Processes
  <2>1. row' \in [Events -> Rows]
    BY <1>11, <2>0, WritesType DEF PutBack, States
  <2>2. job' \in [Events -> Jobs]
    BY <1>11, SameType DEF PutBack
  <2>3. wk' \in [Processes -> Runs]
    BY <1>11, <2>0, GoesType DEF PutBack, Steps
  <2>4. stopped' \in [Events -> BOOLEAN] /\ replayed' \in [Events -> BOOLEAN]
    BY <1>11, <2>0, SameType DEF PutBack, TypeOK
  <2>. QED
    BY <2>1, <2>2, <2>3, <2>4, TypeParts
<1>12. ASSUME NEW w \in Operators, NEW e \in Events, Reconcile(w, e)
      PROVE  TypeOK'
  <2>1. row' \in [Events -> Rows]
    BY <1>12, WritesType DEF Reconcile, States
  <2>2. job' \in [Events -> Jobs]
    BY <1>12, SameType DEF Reconcile
  <2>3. wk' \in [Processes -> Runs]
    BY <1>12, StartsType DEF Reconcile, Steps, Processes
  <2>4. stopped' \in [Events -> BOOLEAN] /\ replayed' \in [Events -> BOOLEAN]
    BY <1>12, SameType DEF Reconcile
  <2>. QED
    BY <2>1, <2>2, <2>3, <2>4, TypeParts
<1>13. ASSUME NEW w \in Processes, Stop(w)
      PROVE  TypeOK'
  <2>1. row' \in [Events -> Rows]
    BY <1>13, SameType DEF Stop
  <2>2. job' \in [Events -> Jobs]
    BY <1>13, SameType DEF Stop
  <2>3. wk' \in [Processes -> Runs]
    BY <1>13, EndsType DEF Stop
  <2>4. stopped' \in [Events -> BOOLEAN] /\ replayed' \in [Events -> BOOLEAN]
    BY <1>13, SameType DEF Stop, TypeOK
  <2>. QED
    BY <2>1, <2>2, <2>3, <2>4, TypeParts
<1>14. CASE Tick
  <2>1. row' \in [Events -> Rows]
    <3>1. ASSUME NEW e \in Events PROVE row'[e] \in Rows
      <4>1. row[e] \in Rows /\ Older(row[e].age, Lease) \in 0..Lease
        BY Limits DEF TypeOK, Older, Rows
      <4>. QED
        BY <1>14, <4>1 DEF Tick, Rows
    <3>. QED
      BY <1>14, <3>1 DEF Tick
  <2>2. job' \in [Events -> Jobs]
    <3>1. ASSUME NEW e \in Events PROVE job'[e] \in Jobs
      <4>1. /\ job[e] \in Jobs
            /\ Older(job[e].age, Deadline) \in 0..Deadline
            /\ Older(job[e].held, RetryAfter) \in 0..RetryAfter
        BY Limits DEF TypeOK, Older, Jobs
      <4>2. CASE job[e].state = "none"
        BY <1>14, <4>1, <4>2 DEF Tick
      <4>3. CASE job[e].state = "ready"
        <5>1. job'[e] = [job[e] EXCEPT !.age = Older(job[e].age, Deadline)]
          BY <1>14, <4>3 DEF Tick
        <5>. QED
          BY <4>1, <5>1 DEF Jobs
      <4>4. CASE job[e].state = "reserved"
        <5>1. job'[e] = [state |-> "reserved", age |-> Older(job[e].age, Deadline),
                         held |-> Older(job[e].held, RetryAfter)]
          BY <1>14, <4>4 DEF Tick
        <5>. QED
          BY <4>1, <5>1 DEF Jobs
      <4>. QED
        BY <4>1, <4>2, <4>3, <4>4 DEF Jobs
    <3>. QED
      BY <1>14, <3>1 DEF Tick
  <2>3. wk' \in [Processes -> Runs]
    <3>1. ASSUME NEW p \in Processes PROVE wk'[p] \in Runs
      <4>1. wk[p] \in Runs /\ Older(wk[p].age, Timeout) \in 0..Timeout
        BY Limits DEF TypeOK, Older, Runs
      <4>. QED
        BY <1>14, <4>1 DEF Tick, Runs
    <3>. QED
      BY <1>14, <3>1 DEF Tick
  <2>4. stopped' \in [Events -> BOOLEAN] /\ replayed' \in [Events -> BOOLEAN]
    BY <1>14, SameType DEF Tick
  <2>. QED
    BY <2>1, <2>2, <2>3, <2>4, TypeParts
<1>15. CASE UNCHANGED vars
  BY <1>15 DEF vars, TypeOK
<1>. QED
  BY <1>1, <1>2, <1>3, <1>4, <1>5, <1>6, <1>7, <1>8, <1>9, <1>10, <1>11, <1>12, <1>13, <1>14, <1>15 DEF Next, Handles

-----------------------------------------------------------------------------
(* What handling an event changes: one process, and the row it is about.   *)

OnlyMoves(w, step) ==
    /\ wk[w].about \in Events /\ w \in Processes
    /\ \A p \in Processes \ {w} : wk'[p] = wk[p]
    /\ wk'[w].step = step /\ wk'[w].about = wk[w].about /\ wk'[w].age = wk[w].age
OnlyEnds(w) ==
    /\ wk[w].about \in Events /\ w \in Processes
    /\ \A p \in Processes \ {w} : wk'[p] = wk[p]
    /\ wk'[w].step = "idle" /\ wk'[w].about = None /\ wk'[w].age = 0
OnlyWrites(e, states) ==
    /\ \A f \in Events \ {e} : row'[f] = row[f]
    /\ row'[e].state \in states /\ row'[e].age = 0

LEMMA GoesMoves ==
    ASSUME TypeOK, Kinds, NEW w \in Workers \cup Operators, wk[w].step # "idle",
           NEW s, Goes(w, s)
    PROVE  OnlyMoves(w, s)
<1>1. wk[w].about \in Events /\ w \in Processes
  BY AboutEvent DEF Processes
<1>. QED
  BY <1>1 DEF Goes, OnlyMoves, TypeOK

LEMMA EndsEnds ==
    ASSUME TypeOK, Kinds, NEW w \in Workers \cup Operators, wk[w].step # "idle", Ends(w)
    PROVE  OnlyEnds(w)
<1>1. wk[w].about \in Events /\ w \in Processes
  BY AboutEvent DEF Processes
<1>. QED
  BY <1>1 DEF Ends, Idle, OnlyEnds, TypeOK

(* A claim takes the row for this process, or leaves it as it is.          *)
LEMMA ClaimFacts ==
    ASSUME TypeOK, Kinds, NEW w \in Workers \cup Operators, Claim(w)
    PROVE  /\ wk[w].step = "claim" /\ UNCHANGED <<job, replayed>>
           /\ \/ /\ Claimable(wk[w].about) /\ OnlyMoves(w, "work")
                 /\ OnlyWrites(wk[w].about, {"processing"})
                 /\ stopped'[wk[w].about] = FALSE
                 /\ \A f \in Events \ {wk[w].about} : stopped'[f] = stopped[f]
              \/ /\ ~Claimable(wk[w].about) /\ UNCHANGED <<row, stopped>>
                 /\ \/ w \in Workers /\ OnlyMoves(w, "delete")
                    \/ w \in Operators /\ OnlyEnds(w)
<1>1. wk[w].step = "claim" /\ UNCHANGED <<job, replayed>> /\ wk[w].about \in Events
  BY AboutEvent DEF Claim, Processes
<1>2. CASE Claimable(wk[w].about)
  <2>1. OnlyMoves(w, "work")
    BY <1>1, <1>2, GoesMoves DEF Claim
  <2>2. OnlyWrites(wk[w].about, {"processing"})
    BY <1>1, <1>2 DEF Claim, Writes, OnlyWrites, TypeOK
  <2>3. /\ stopped'[wk[w].about] = FALSE
        /\ \A f \in Events \ {wk[w].about} : stopped'[f] = stopped[f]
    BY <1>1, <1>2 DEF Claim, TypeOK
  <2>. QED
    BY <1>1, <1>2, <2>1, <2>2, <2>3
<1>3. CASE ~Claimable(wk[w].about)
  <2>1. Returns(w) /\ UNCHANGED <<row, stopped>>
    BY <1>3 DEF Claim
  <2>2. CASE w \in Workers
    <3>1. Goes(w, "delete")
      BY <2>1, <2>2 DEF Returns
    <3>. QED
      BY <1>1, <1>3, <2>1, <2>2, <3>1, GoesMoves
  <2>3. CASE w \notin Workers
    <3>1. Ends(w)
      BY <2>1, <2>3 DEF Returns
    <3>. QED
      BY <1>1, <1>3, <2>1, <2>3, <3>1, EndsEnds
  <2>. QED
    BY <2>2, <2>3
<1>. QED
  BY <1>2, <1>3

LEMMA ProcessFacts ==
    ASSUME TypeOK, Kinds, NEW w \in Workers \cup Operators, Process(w)
    PROVE  /\ wk[w].step = "work" /\ UNCHANGED <<row, job, stopped, replayed>>
           /\ OnlyMoves(w, "record")
<1>1. wk[w].step = "work" /\ UNCHANGED <<row, job, stopped, replayed>> /\ wk[w].about \in Events
  BY AboutEvent DEF Process, Processes
<1>2. PICK o \in Outcomes : wk' = [wk EXCEPT ![w].step = "record", ![w].outcome = o]
  BY DEF Process
<1>. QED
  BY <1>1, <1>2 DEF OnlyMoves, TypeOK, Processes

(* An outcome finishes the row.                                            *)
LEMMA RecordFacts ==
    ASSUME TypeOK, Kinds, NEW w \in Workers \cup Operators, Record(w)
    PROVE  /\ wk[w].step = "record" /\ UNCHANGED <<job, stopped, replayed>>
           /\ OnlyWrites(wk[w].about, {"processed", "mismatched", "failed"})
           /\ \/ w \in Workers /\ (OnlyMoves(w, "release") \/ OnlyMoves(w, "delete"))
              \/ w \in Operators /\ OnlyEnds(w)
<1>1. /\ wk[w].step = "record" /\ UNCHANGED <<job, stopped, replayed>>
      /\ wk[w].about \in Events /\ w \in Processes
  BY AboutEvent DEF Record, Processes
<1>2. OnlyWrites(wk[w].about, {"processed", "mismatched", "failed"})
  BY <1>1 DEF Record, Writes, OnlyWrites, TypeOK
<1>3. \/ w \in Workers /\ (OnlyMoves(w, "release") \/ OnlyMoves(w, "delete"))
      \/ w \in Operators /\ OnlyEnds(w)
  BY <1>1, GoesMoves, EndsEnds DEF Record, Returns
<1>. QED
  BY <1>1, <1>2, <1>3

-----------------------------------------------------------------------------
(* The parts of the invariant, one lemma each.                             *)

(* Each kind of process keeps to its steps.                                *)
LEMMA KindsStep ==
    ASSUME TypeOK, Kinds, [Next]_vars
    PROVE  Kinds'
<1>1. ASSUME NEW w \in Web, NEW e \in Events, Receive(w, e)
      PROVE  Kinds'
  BY <1>1, NamesAssumption, Limits, AboutEvent DEF Receive, Writes, Starts, Idle, TypeOK, Kinds, Processes
<1>2. ASSUME NEW w \in Web, Dispatch(w)
      PROVE  Kinds'
  BY <1>2, NamesAssumption, Limits, AboutEvent DEF Dispatch, Ends, Idle, NoJob, TypeOK, Kinds, Processes
<1>3. ASSUME NEW w \in Workers, NEW e \in Events, Take(w, e)
      PROVE  Kinds'
  BY <1>3, NamesAssumption, Limits, AboutEvent DEF Take, Available, Starts, Idle, TypeOK, Kinds, Processes
<1>4. ASSUME NEW w \in Workers, NEW e \in Events, GiveUp(w, e)
      PROVE  Kinds'
  BY <1>4, NamesAssumption, Limits, AboutEvent DEF GiveUp, Available, NoJob, Writes, TypeOK, Kinds, Processes
<1>5. ASSUME NEW w \in Workers, Release(w)
      PROVE  Kinds'
  BY <1>5, NamesAssumption, Limits, AboutEvent DEF Release, NoJob, Writes, Ends, Idle, TypeOK, Kinds, Processes
<1>6. ASSUME NEW w \in Workers, Delete(w)
      PROVE  Kinds'
  BY <1>6, NamesAssumption, Limits, AboutEvent DEF Delete, NoJob, Ends, Idle, TypeOK, Kinds, Processes
<1>7. ASSUME NEW w \in Workers \cup Operators, Claim(w)
      PROVE  Kinds'
  <2>1. UNCHANGED <<job, replayed>> /\ wk[w].step = "claim"
    BY <1>7, ClaimFacts
  <2>2. CASE /\ Claimable(wk[w].about) /\ OnlyMoves(w, "work")
             /\ OnlyWrites(wk[w].about, {"processing"})
             /\ stopped'[wk[w].about] = FALSE
             /\ \A f \in Events \ {wk[w].about} : stopped'[f] = stopped[f]
    BY <2>1, <2>2, NamesAssumption, Limits DEF OnlyMoves, OnlyEnds, OnlyWrites, Kinds, Processes
  <2>3. CASE /\ ~Claimable(wk[w].about) /\ UNCHANGED <<row, stopped>>
             /\ w \in Workers /\ OnlyMoves(w, "delete")
    BY <2>1, <2>3, NamesAssumption, Limits DEF OnlyMoves, OnlyEnds, OnlyWrites, Kinds, Processes
  <2>4. CASE /\ ~Claimable(wk[w].about) /\ UNCHANGED <<row, stopped>>
             /\ w \in Operators /\ OnlyEnds(w)
    BY <2>1, <2>4, NamesAssumption, Limits DEF OnlyMoves, OnlyEnds, OnlyWrites, Kinds, Processes
  <2>. QED
    BY <1>7, <2>2, <2>3, <2>4, ClaimFacts
<1>8. ASSUME NEW w \in Workers \cup Operators, Process(w)
      PROVE  Kinds'
  BY <1>8, ProcessFacts, NamesAssumption, Limits DEF OnlyMoves, OnlyEnds, OnlyWrites, Kinds, Processes
<1>9. ASSUME NEW w \in Workers \cup Operators, Record(w)
      PROVE  Kinds'
  BY <1>9, RecordFacts, NamesAssumption, Limits DEF OnlyMoves, OnlyEnds, OnlyWrites, Kinds, Processes
<1>10. ASSUME NEW w \in Operators, NEW e \in Events, Replay(w, e)
      PROVE  Kinds'
  BY <1>10, NamesAssumption, Limits, AboutEvent DEF Replay, Starts, Idle, TypeOK, Kinds, Processes
<1>11. ASSUME NEW w \in Operators, PutBack(w)
      PROVE  Kinds'
  BY <1>11, NamesAssumption, Limits, AboutEvent DEF PutBack, Writes, Goes, TypeOK, Kinds, Processes
<1>12. ASSUME NEW w \in Operators, NEW e \in Events, Reconcile(w, e)
      PROVE  Kinds'
  BY <1>12, NamesAssumption, Limits, AboutEvent DEF Reconcile, Writes, Starts, Idle, TypeOK, Kinds, Processes
<1>13. ASSUME NEW w \in Processes, Stop(w)
      PROVE  Kinds'
  BY <1>13, NamesAssumption, Limits, AboutEvent DEF Stop, Ends, Idle, TypeOK, Kinds, Processes
<1>14. CASE Tick
  BY <1>14, NamesAssumption, Limits, AboutEvent DEF Tick, Older, TypeOK, Kinds, Processes
<1>15. CASE UNCHANGED vars
  BY <1>15 DEF vars, TypeOK, Kinds
<1>. QED
  BY <1>1, <1>2, <1>3, <1>4, <1>5, <1>6, <1>7, <1>8, <1>9, <1>10, <1>11, <1>12, <1>13, <1>14, <1>15 DEF Next, Handles

(* A queue worker holds its job alone.                                     *)
LEMMA ExclusiveStep ==
    ASSUME TypeOK, Kinds, Exclusive, Fresh, [Next]_vars
    PROVE  Exclusive'
<1>1. ASSUME NEW w \in Web, NEW e \in Events, Receive(w, e)
      PROVE  Exclusive'
  BY <1>1, NamesAssumption, Limits, AboutEvent DEF Receive, Writes, Starts, Idle, TypeOK, Kinds, Exclusive, Fresh, Processes
<1>2. ASSUME NEW w \in Web, Dispatch(w)
      PROVE  Exclusive'
  BY <1>2, NamesAssumption, Limits, AboutEvent DEF Dispatch, Ends, Idle, NoJob, TypeOK, Kinds, Exclusive, Fresh, Processes
<1>3. ASSUME NEW w \in Workers, NEW e \in Events, Take(w, e)
      PROVE  Exclusive'
  BY <1>3, NamesAssumption, Limits, AboutEvent DEF Take, Available, Starts, Idle, TypeOK, Kinds, Exclusive, Fresh, Processes
<1>4. ASSUME NEW w \in Workers, NEW e \in Events, GiveUp(w, e)
      PROVE  Exclusive'
  BY <1>4, NamesAssumption, Limits, AboutEvent DEF GiveUp, Available, NoJob, Writes, TypeOK, Kinds, Exclusive, Fresh, Processes
<1>5. ASSUME NEW w \in Workers, Release(w)
      PROVE  Exclusive'
  BY <1>5, NamesAssumption, Limits, AboutEvent DEF Release, NoJob, Writes, Ends, Idle, TypeOK, Kinds, Exclusive, Fresh, Processes
<1>6. ASSUME NEW w \in Workers, Delete(w)
      PROVE  Exclusive'
  BY <1>6, NamesAssumption, Limits, AboutEvent DEF Delete, NoJob, Ends, Idle, TypeOK, Kinds, Exclusive, Fresh, Processes
<1>7. ASSUME NEW w \in Workers \cup Operators, Claim(w)
      PROVE  Exclusive'
  <2>1. UNCHANGED <<job, replayed>> /\ wk[w].step = "claim"
    BY <1>7, ClaimFacts
  <2>2. CASE /\ Claimable(wk[w].about) /\ OnlyMoves(w, "work")
             /\ OnlyWrites(wk[w].about, {"processing"})
             /\ stopped'[wk[w].about] = FALSE
             /\ \A f \in Events \ {wk[w].about} : stopped'[f] = stopped[f]
    BY <2>1, <2>2, NamesAssumption, Limits DEF OnlyMoves, OnlyEnds, OnlyWrites, Kinds, Exclusive, Fresh, Processes
  <2>3. CASE /\ ~Claimable(wk[w].about) /\ UNCHANGED <<row, stopped>>
             /\ w \in Workers /\ OnlyMoves(w, "delete")
    BY <2>1, <2>3, NamesAssumption, Limits DEF OnlyMoves, OnlyEnds, OnlyWrites, Kinds, Exclusive, Fresh, Processes
  <2>4. CASE /\ ~Claimable(wk[w].about) /\ UNCHANGED <<row, stopped>>
             /\ w \in Operators /\ OnlyEnds(w)
    BY <2>1, <2>4, NamesAssumption, Limits DEF OnlyMoves, OnlyEnds, OnlyWrites, Kinds, Exclusive, Fresh, Processes
  <2>. QED
    BY <1>7, <2>2, <2>3, <2>4, ClaimFacts
<1>8. ASSUME NEW w \in Workers \cup Operators, Process(w)
      PROVE  Exclusive'
  BY <1>8, ProcessFacts, NamesAssumption, Limits DEF OnlyMoves, OnlyEnds, OnlyWrites, Kinds, Exclusive, Fresh, Processes
<1>9. ASSUME NEW w \in Workers \cup Operators, Record(w)
      PROVE  Exclusive'
  BY <1>9, RecordFacts, NamesAssumption, Limits DEF OnlyMoves, OnlyEnds, OnlyWrites, Kinds, Exclusive, Fresh, Processes
<1>10. ASSUME NEW w \in Operators, NEW e \in Events, Replay(w, e)
      PROVE  Exclusive'
  BY <1>10, NamesAssumption, Limits, AboutEvent DEF Replay, Starts, Idle, TypeOK, Kinds, Exclusive, Fresh, Processes
<1>11. ASSUME NEW w \in Operators, PutBack(w)
      PROVE  Exclusive'
  BY <1>11, NamesAssumption, Limits, AboutEvent DEF PutBack, Writes, Goes, TypeOK, Kinds, Exclusive, Fresh, Processes
<1>12. ASSUME NEW w \in Operators, NEW e \in Events, Reconcile(w, e)
      PROVE  Exclusive'
  BY <1>12, NamesAssumption, Limits, AboutEvent DEF Reconcile, Writes, Starts, Idle, TypeOK, Kinds, Exclusive, Fresh, Processes
<1>13. ASSUME NEW w \in Processes, Stop(w)
      PROVE  Exclusive'
  BY <1>13, NamesAssumption, Limits, AboutEvent DEF Stop, Ends, Idle, TypeOK, Kinds, Exclusive, Fresh, Processes
<1>14. CASE Tick
  BY <1>14, NamesAssumption, Limits, AboutEvent DEF Tick, Older, TypeOK, Kinds, Exclusive, Fresh, Processes
<1>15. CASE UNCHANGED vars
  BY <1>15 DEF vars, TypeOK, Kinds, Exclusive, Fresh
<1>. QED
  BY <1>1, <1>2, <1>3, <1>4, <1>5, <1>6, <1>7, <1>8, <1>9, <1>10, <1>11, <1>12, <1>13, <1>14, <1>15 DEF Next, Handles

(* Nothing runs ahead of the row and its request.                          *)
LEMMA FreshStep ==
    ASSUME TypeOK, Kinds, Exclusive, Fresh, [Next]_vars
    PROVE  Fresh'
<1>1. ASSUME NEW w \in Web, NEW e \in Events, Receive(w, e)
      PROVE  Fresh'
  BY <1>1, NamesAssumption, Limits, AboutEvent DEF Receive, Writes, Starts, Idle, TypeOK, Kinds, Exclusive, Fresh, States, Processes
<1>2. ASSUME NEW w \in Web, Dispatch(w)
      PROVE  Fresh'
  BY <1>2, NamesAssumption, Limits, AboutEvent DEF Dispatch, Ends, Idle, NoJob, TypeOK, Kinds, Exclusive, Fresh, States, Processes
<1>3. ASSUME NEW w \in Workers, NEW e \in Events, Take(w, e)
      PROVE  Fresh'
  BY <1>3, NamesAssumption, Limits, AboutEvent DEF Take, Available, Starts, Idle, TypeOK, Kinds, Exclusive, Fresh, States, Processes
<1>4. ASSUME NEW w \in Workers, NEW e \in Events, GiveUp(w, e)
      PROVE  Fresh'
  BY <1>4, NamesAssumption, Limits, AboutEvent DEF GiveUp, Available, NoJob, Writes, TypeOK, Kinds, Exclusive, Fresh, States, Processes
<1>5. ASSUME NEW w \in Workers, Release(w)
      PROVE  Fresh'
  BY <1>5, NamesAssumption, Limits, AboutEvent DEF Release, NoJob, Writes, Ends, Idle, TypeOK, Kinds, Exclusive, Fresh, States, Processes
<1>6. ASSUME NEW w \in Workers, Delete(w)
      PROVE  Fresh'
  BY <1>6, NamesAssumption, Limits, AboutEvent DEF Delete, NoJob, Ends, Idle, TypeOK, Kinds, Exclusive, Fresh, States, Processes
<1>7. ASSUME NEW w \in Workers \cup Operators, Claim(w)
      PROVE  Fresh'
  <2>1. UNCHANGED <<job, replayed>> /\ wk[w].step = "claim"
    BY <1>7, ClaimFacts
  <2>2. CASE /\ Claimable(wk[w].about) /\ OnlyMoves(w, "work")
             /\ OnlyWrites(wk[w].about, {"processing"})
             /\ stopped'[wk[w].about] = FALSE
             /\ \A f \in Events \ {wk[w].about} : stopped'[f] = stopped[f]
    BY <2>1, <2>2, NamesAssumption, Limits DEF OnlyMoves, OnlyEnds, OnlyWrites, Kinds, Exclusive, Fresh, States, Processes
  <2>3. CASE /\ ~Claimable(wk[w].about) /\ UNCHANGED <<row, stopped>>
             /\ w \in Workers /\ OnlyMoves(w, "delete")
    BY <2>1, <2>3, NamesAssumption, Limits DEF OnlyMoves, OnlyEnds, OnlyWrites, Kinds, Exclusive, Fresh, States, Processes
  <2>4. CASE /\ ~Claimable(wk[w].about) /\ UNCHANGED <<row, stopped>>
             /\ w \in Operators /\ OnlyEnds(w)
    BY <2>1, <2>4, NamesAssumption, Limits DEF OnlyMoves, OnlyEnds, OnlyWrites, Kinds, Exclusive, Fresh, States, Processes
  <2>. QED
    BY <1>7, <2>2, <2>3, <2>4, ClaimFacts
<1>8. ASSUME NEW w \in Workers \cup Operators, Process(w)
      PROVE  Fresh'
  BY <1>8, ProcessFacts, NamesAssumption, Limits DEF OnlyMoves, OnlyEnds, OnlyWrites, Kinds, Exclusive, Fresh, States, Processes
<1>9. ASSUME NEW w \in Workers \cup Operators, Record(w)
      PROVE  Fresh'
  BY <1>9, RecordFacts, NamesAssumption, Limits DEF OnlyMoves, OnlyEnds, OnlyWrites, Kinds, Exclusive, Fresh, States, Processes
<1>10. ASSUME NEW w \in Operators, NEW e \in Events, Replay(w, e)
      PROVE  Fresh'
  BY <1>10, NamesAssumption, Limits, AboutEvent DEF Replay, Starts, Idle, TypeOK, Kinds, Exclusive, Fresh, States, Processes
<1>11. ASSUME NEW w \in Operators, PutBack(w)
      PROVE  Fresh'
  BY <1>11, NamesAssumption, Limits, AboutEvent DEF PutBack, Writes, Goes, TypeOK, Kinds, Exclusive, Fresh, States, Processes
<1>12. ASSUME NEW w \in Operators, NEW e \in Events, Reconcile(w, e)
      PROVE  Fresh'
  BY <1>12, NamesAssumption, Limits, AboutEvent DEF Reconcile, Writes, Starts, Idle, TypeOK, Kinds, Exclusive, Fresh, States, Processes
<1>13. ASSUME NEW w \in Processes, Stop(w)
      PROVE  Fresh'
  BY <1>13, NamesAssumption, Limits, AboutEvent DEF Stop, Ends, Idle, TypeOK, Kinds, Exclusive, Fresh, States, Processes
<1>14. CASE Tick
  BY <1>14, NamesAssumption, Limits, AboutEvent DEF Tick, Older, TypeOK, Kinds, Exclusive, Fresh, States, Processes
<1>15. CASE UNCHANGED vars
  BY <1>15 DEF vars, TypeOK, Kinds, Exclusive, Fresh, States
<1>. QED
  BY <1>1, <1>2, <1>3, <1>4, <1>5, <1>6, <1>7, <1>8, <1>9, <1>10, <1>11, <1>12, <1>13, <1>14, <1>15 DEF Next, Handles

(* An unfinished event has someone who will still finish it.               *)
LEMMA CoveredStep ==
    ASSUME TypeOK, Kinds, Exclusive, Fresh, Covered, [Next]_vars
    PROVE  Covered'
<1>1. ASSUME NEW w \in Web, NEW e \in Events, Receive(w, e)
      PROVE  Covered'
  BY <1>1, NamesAssumption, Limits, AboutEvent DEF Receive, Writes, Starts, Idle, TypeOK, Kinds, Exclusive, Fresh, Covered, CoveredAt, ReceivedCovered, ProcessingCovered, Processes
<1>2. ASSUME NEW w \in Web, Dispatch(w)
      PROVE  Covered'
  BY <1>2, NamesAssumption, Limits, AboutEvent DEF Dispatch, Ends, Idle, NoJob, TypeOK, Kinds, Exclusive, Fresh, Covered, CoveredAt, ReceivedCovered, ProcessingCovered, Processes
<1>3. ASSUME NEW w \in Workers, NEW e \in Events, Take(w, e)
      PROVE  Covered'
  <2>1. /\ \A p \in Processes \ {w} : wk'[p] = wk[p]
        /\ wk'[w].step = "claim" /\ wk'[w].about = e /\ wk[w].about = None
        /\ \A f \in Events \ {e} : job'[f] = job[f]
        /\ job'[e].state = "reserved" /\ job'[e].held = 0
        /\ UNCHANGED <<row, stopped>>
    BY <1>3 DEF Take, Starts, TypeOK, Kinds, Processes
  <2>2. \A v \in Workers : wk[v].about # e
    BY <1>3, Limits DEF Take, Available, Exclusive, TypeOK, Processes
  <2>3. CoveredAt(e)'
    <3>1. CASE row[e].state = "received"
      BY <2>1, <2>2, <3>1, NamesAssumption DEF Covered, CoveredAt, ReceivedCovered, NamesAssumption, Processes
    <3>2. CASE row[e].state = "processing"
      <4>1. row[e].age \in 0..Lease /\ job[e].held \in 0..RetryAfter
        BY DEF TypeOK
      <4>2. \/ stopped[e]
            \/ \E o \in Operators : wk[o].about = e /\ wk[o].step \in {"work", "record"}
            \/ row[e].age = Lease
        <5>1. job[e].state = "reserved" => job[e].held = RetryAfter
          BY <1>3 DEF Take, Available
        <5>. QED
          BY <3>2, <4>1, <5>1, Limits DEF Covered, CoveredAt, ProcessingCovered
      <4>. QED
        BY <2>1, <2>2, <3>2, <4>1, <4>2, Limits, NamesAssumption
        DEF CoveredAt, ProcessingCovered, NamesAssumption, Processes
    <3>. QED
      BY <2>1, <3>1, <3>2 DEF CoveredAt
  <2>4. ASSUME NEW f \in Events, f # e
        PROVE  CoveredAt(f)'
    BY <2>1, <2>4, NamesAssumption DEF Covered, CoveredAt, ReceivedCovered, ProcessingCovered, NamesAssumption, Processes
  <2>. QED
    BY <2>3, <2>4 DEF Covered
<1>4. ASSUME NEW w \in Workers, NEW e \in Events, GiveUp(w, e)
      PROVE  Covered'
  BY <1>4, NamesAssumption, Limits, AboutEvent DEF GiveUp, Available, NoJob, Writes, TypeOK, Kinds, Exclusive, Fresh, Covered, CoveredAt, ReceivedCovered, ProcessingCovered, Processes
<1>5. ASSUME NEW w \in Workers, Release(w)
      PROVE  Covered'
  <2>0. PICK e \in Events : e = wk[w].about
    BY <1>5, AboutEvent DEF Release, Processes
  <2>1. /\ e \in Events /\ wk[w].step = "release" /\ job[e].state = "reserved"
        /\ \A p \in Processes \ {w} : wk'[p] = wk[p]
        /\ wk'[w].about = None /\ stopped' = stopped
    BY <1>5, <2>0 DEF Release, Ends, Idle, TypeOK, Processes, Exclusive
  <2>2. \A f \in Events \ {e} : job'[f] = job[f] /\ row'[f] = row[f]
    BY <1>5, <2>0, <2>1 DEF Release, Writes, TypeOK
  <2>3. row' = row \/ row'[e].state = "failed"
    BY <1>5, <2>0, <2>1 DEF Release, Writes, TypeOK
  <2>4. CoveredAt(e)'
    <3>1. CASE row' = row
      <4>1. w \notin Web \cup Operators
        BY NamesAssumption DEF NamesAssumption
      <4>2. wk[w].about = e
        BY <2>0
      <4>3. row[e].state = "received" => ReceivedCovered(e)'
        BY <2>1, <4>1, <4>2 DEF Covered, CoveredAt, ReceivedCovered, Processes
      <4>4. row[e].state = "processing" => ProcessingCovered(e)'
        BY <2>1, <4>1, <4>2 DEF Covered, CoveredAt, ProcessingCovered, Processes
      <4>. QED
        BY <3>1, <4>3, <4>4 DEF CoveredAt
    <3>2. CASE row'[e].state = "failed"
      BY <3>2 DEF CoveredAt
    <3>. QED
      BY <2>3, <3>1, <3>2
  <2>5. ASSUME NEW f \in Events, f # e
        PROVE  CoveredAt(f)'
    BY <2>1, <2>2, <2>5, NamesAssumption DEF Covered, CoveredAt, ReceivedCovered, ProcessingCovered, NamesAssumption, Processes
  <2>. QED
    BY <2>4, <2>5 DEF Covered
<1>6. ASSUME NEW w \in Workers, Delete(w)
      PROVE  Covered'
  BY <1>6, NamesAssumption, Limits, AboutEvent DEF Delete, NoJob, Ends, Idle, TypeOK, Kinds, Exclusive, Fresh, Covered, CoveredAt, ReceivedCovered, ProcessingCovered, Processes
<1>7. ASSUME NEW w \in Workers \cup Operators, Claim(w)
      PROVE  Covered'
  <2>0. PICK e \in Events : e = wk[w].about
    BY <1>7, AboutEvent DEF Claim, Processes
  <2>1. UNCHANGED <<job, replayed>> /\ wk[w].step = "claim"
    BY <1>7, ClaimFacts
  <2>2. CASE /\ Claimable(e) /\ OnlyMoves(w, "work")
             /\ OnlyWrites(e, {"processing"})
             /\ stopped'[e] = FALSE
             /\ \A f \in Events \ {e} : stopped'[f] = stopped[f]
    <3>1. CoveredAt(e)'
      <4>1. row'[e].state = "processing" /\ row'[e].age = 0
        BY <2>0, <2>2 DEF OnlyWrites
      <4>2. CASE w \in Operators
        BY <2>0, <2>2, <4>1, <4>2 DEF OnlyMoves, CoveredAt, ProcessingCovered
      <4>3. CASE w \in Workers
        <5>1. /\ job'[e].state = "reserved" /\ job'[e].held <= 0 + Timeout
          BY <2>0, <2>1, <2>2, <4>3, Limits DEF OnlyMoves, Exclusive, TypeOK
        <5>2. e # None
          BY NamesAssumption DEF NamesAssumption
        <5>3. \A v \in Workers : wk'[v].about = e => v = w
          BY <2>0, <2>2, <4>3, <5>2 DEF OnlyMoves, Exclusive, Processes
        <5>. QED
          BY <2>0, <2>2, <4>1, <5>1, <5>3 DEF OnlyMoves, CoveredAt, ProcessingCovered
      <4>. QED
        BY <4>2, <4>3
    <3>2. ASSUME NEW f \in Events, f # e
          PROVE  CoveredAt(f)'
      BY <2>0, <2>1, <2>2, <3>2 DEF OnlyMoves, OnlyWrites, Covered, CoveredAt, ReceivedCovered, ProcessingCovered, Processes
    <3>. QED
      BY <3>1, <3>2 DEF Covered
  <2>3. CASE /\ ~Claimable(e) /\ UNCHANGED <<row, stopped>>
             /\ \/ w \in Workers /\ OnlyMoves(w, "delete")
                \/ w \in Operators /\ OnlyEnds(w)
    <3>0. /\ e \in Events /\ w \in Processes
          /\ \A p \in Processes \ {w} : wk'[p] = wk[p]
          /\ \A f \in Events \ {e} : wk'[w].about # f
          /\ w \in Operators => wk'[w].about # e
      BY <2>0, <2>3, NamesAssumption DEF OnlyMoves, OnlyEnds, NamesAssumption
    <3>1. CoveredAt(e)'
      <4>1. row[e].state # "received" /\ (row[e].state = "processing" => row[e].age # Lease)
        BY <2>0, <2>3, <3>0, Limits DEF Claimable, Leased, TypeOK
      <4>2. ProcessingCovered(e) /\ row[e].state = "processing" /\ ~stopped[e] =>
              \/ \E o \in Operators \ {w} : wk[o].about = e /\ wk[o].step \in {"work", "record"}
              \/ w \in Operators
        BY <2>0, <2>1, <4>1 DEF ProcessingCovered
      <4>3. ASSUME row[e].state = "processing", w \in Operators
            PROVE  ProcessingCovered(e)'
        <5>1. ProcessingCovered(e)
          BY <2>0, <3>0, <4>3 DEF Covered, CoveredAt
        <5>2. w \notin Workers
          BY <4>3, NamesAssumption DEF NamesAssumption
        <5>. QED
          BY <2>0, <2>1, <2>3, <3>0, <4>1, <5>1, <5>2 DEF ProcessingCovered, Processes
      <4>. QED
        BY <2>0, <2>1, <2>3, <3>0, <4>1, <4>2, <4>3 DEF Covered, CoveredAt, ProcessingCovered, Processes
    <3>2. ASSUME NEW f \in Events, f # e
          PROVE  CoveredAt(f)'
      BY <2>0, <2>1, <2>3, <3>0, <3>2 DEF Covered, CoveredAt, ReceivedCovered, ProcessingCovered, Processes
    <3>. QED
      BY <3>1, <3>2 DEF Covered
  <2>. QED
    BY <1>7, <2>0, <2>2, <2>3, ClaimFacts
<1>8. ASSUME NEW w \in Workers \cup Operators, Process(w)
      PROVE  Covered'
  BY <1>8, ProcessFacts, NamesAssumption, Limits DEF OnlyMoves, OnlyEnds, OnlyWrites, Kinds, Exclusive, Fresh, Covered, CoveredAt, ReceivedCovered, ProcessingCovered, Processes
<1>9. ASSUME NEW w \in Workers \cup Operators, Record(w)
      PROVE  Covered'
  BY <1>9, RecordFacts, NamesAssumption, Limits DEF OnlyMoves, OnlyEnds, OnlyWrites, Kinds, Exclusive, Fresh, Covered, CoveredAt, ReceivedCovered, ProcessingCovered, Processes
<1>10. ASSUME NEW w \in Operators, NEW e \in Events, Replay(w, e)
      PROVE  Covered'
  BY <1>10, NamesAssumption, Limits, AboutEvent DEF Replay, Starts, Idle, TypeOK, Kinds, Exclusive, Fresh, Covered, CoveredAt, ReceivedCovered, ProcessingCovered, Processes
<1>11. ASSUME NEW w \in Operators, PutBack(w)
      PROVE  Covered'
  <2>0. PICK e \in Events : e = wk[w].about
    BY <1>11, AboutEvent DEF PutBack, Processes
  <2>1. /\ e \in Events /\ w \in Processes /\ wk[w].step = "replay"
        /\ \A p \in Processes \ {w} : wk'[p] = wk[p]
        /\ wk'[w].about = e /\ wk'[w].step = "claim"
        /\ UNCHANGED <<job, stopped>>
    BY <1>11, <2>0 DEF PutBack, Goes, TypeOK, Processes
  <2>2. /\ row'[e].state = "received"
        /\ \A f \in Events \ {e} : row'[f] = row[f]
    BY <1>11, <2>0, <2>1 DEF PutBack, Writes, TypeOK
  <2>3. CoveredAt(e)'
    BY <2>1, <2>2 DEF CoveredAt, ReceivedCovered
  <2>4. ASSUME NEW f \in Events, f # e
        PROVE  CoveredAt(f)'
    BY <2>1, <2>2, <2>4, NamesAssumption DEF Covered, CoveredAt, ReceivedCovered, ProcessingCovered, NamesAssumption, Processes
  <2>. QED
    BY <2>3, <2>4 DEF Covered
<1>12. ASSUME NEW w \in Operators, NEW e \in Events, Reconcile(w, e)
      PROVE  Covered'
  BY <1>12, NamesAssumption, Limits, AboutEvent DEF Reconcile, Writes, Starts, Idle, TypeOK, Kinds, Exclusive, Fresh, Covered, CoveredAt, ReceivedCovered, ProcessingCovered, Processes
<1>13. ASSUME NEW w \in Processes, Stop(w)
      PROVE  Covered'
  BY <1>13, NamesAssumption, Limits, AboutEvent DEF Stop, Ends, Idle, TypeOK, Kinds, Exclusive, Fresh, Covered, CoveredAt, ReceivedCovered, ProcessingCovered, Processes
<1>14. CASE Tick
  <2>1. ASSUME NEW p \in Processes
        PROVE  wk'[p].about = wk[p].about /\ wk'[p].step = wk[p].step
    BY <1>14 DEF Tick, TypeOK
  <2>2. ASSUME NEW f \in Events
        PROVE  CoveredAt(f)'
    <3>1. /\ row'[f].state = row[f].state /\ stopped' = stopped /\ job'[f].state = job[f].state
      BY <1>14 DEF Tick, TypeOK
    <3>2. /\ row[f].age \in 0..Lease /\ job[f].held \in 0..RetryAfter
          /\ row[f].state = "processing" => row'[f].age = Older(row[f].age, Lease)
          /\ job[f].state = "reserved" => job'[f].held = Older(job[f].held, RetryAfter)
      BY <1>14 DEF Tick, TypeOK
    <3>3. row[f].state = "processing" /\ row[f].age = Lease => row'[f].age = Lease
      BY <3>2, Limits DEF Older
    <3>4. row[f].state = "processing" /\ job[f].state = "reserved"
            /\ (row[f].age = Lease \/ job[f].held <= row[f].age + Timeout)
          => row'[f].age = Lease \/ job'[f].held <= row'[f].age + Timeout
      BY <3>2, Limits DEF Older
    <3>5. row[f].state = "received" => ReceivedCovered(f)'
      BY <2>1, <3>1 DEF Covered, CoveredAt, ReceivedCovered, Processes
    <3>6. row[f].state = "processing" => ProcessingCovered(f)'
      BY <2>1, <3>1, <3>3, <3>4 DEF Covered, CoveredAt, ProcessingCovered, Processes
    <3>. QED
      BY <3>1, <3>5, <3>6 DEF CoveredAt
  <2>. QED
    BY <2>2 DEF Covered
<1>15. CASE UNCHANGED vars
  BY <1>15 DEF vars, TypeOK, Kinds, Exclusive, Fresh, Covered, CoveredAt, ReceivedCovered, ProcessingCovered
<1>. QED
  BY <1>1, <1>2, <1>3, <1>4, <1>5, <1>6, <1>7, <1>8, <1>9, <1>10, <1>11, <1>12, <1>13, <1>14, <1>15 DEF Next, Handles

(* Without replays one process at a time handles an event.                 *)
LEMMA SingleStep ==
    ASSUME TypeOK, Kinds, Exclusive, Fresh, Single, [Next]_vars
    PROVE  Single'
<1>1. ASSUME NEW w \in Web, NEW e \in Events, Receive(w, e)
      PROVE  Single'
  BY <1>1, NamesAssumption, Limits, AboutEvent DEF Receive, Writes, Starts, Idle, TypeOK, Kinds, Exclusive, Fresh, Single, Processes
<1>2. ASSUME NEW w \in Web, Dispatch(w)
      PROVE  Single'
  BY <1>2, NamesAssumption, Limits, AboutEvent DEF Dispatch, Ends, Idle, NoJob, TypeOK, Kinds, Exclusive, Fresh, Single, Processes
<1>3. ASSUME NEW w \in Workers, NEW e \in Events, Take(w, e)
      PROVE  Single'
  BY <1>3, NamesAssumption, Limits, AboutEvent DEF Take, Available, Starts, Idle, TypeOK, Kinds, Exclusive, Fresh, Single, Processes
<1>4. ASSUME NEW w \in Workers, NEW e \in Events, GiveUp(w, e)
      PROVE  Single'
  BY <1>4, NamesAssumption, Limits, AboutEvent DEF GiveUp, Available, NoJob, Writes, TypeOK, Kinds, Exclusive, Fresh, Single, Processes
<1>5. ASSUME NEW w \in Workers, Release(w)
      PROVE  Single'
  BY <1>5, NamesAssumption, Limits, AboutEvent DEF Release, NoJob, Writes, Ends, Idle, TypeOK, Kinds, Exclusive, Fresh, Single, Processes
<1>6. ASSUME NEW w \in Workers, Delete(w)
      PROVE  Single'
  BY <1>6, NamesAssumption, Limits, AboutEvent DEF Delete, NoJob, Ends, Idle, TypeOK, Kinds, Exclusive, Fresh, Single, Processes
<1>7. ASSUME NEW w \in Workers \cup Operators, Claim(w)
      PROVE  Single'
  <2>1. UNCHANGED <<job, replayed>> /\ wk[w].step = "claim"
    BY <1>7, ClaimFacts
  <2>2. CASE /\ Claimable(wk[w].about) /\ OnlyMoves(w, "work")
             /\ OnlyWrites(wk[w].about, {"processing"})
             /\ stopped'[wk[w].about] = FALSE
             /\ \A f \in Events \ {wk[w].about} : stopped'[f] = stopped[f]
    BY <2>1, <2>2, NamesAssumption, Limits DEF OnlyMoves, OnlyEnds, OnlyWrites, Kinds, Exclusive, Fresh, Single, Processes
  <2>3. CASE /\ ~Claimable(wk[w].about) /\ UNCHANGED <<row, stopped>>
             /\ w \in Workers /\ OnlyMoves(w, "delete")
    BY <2>1, <2>3, NamesAssumption, Limits DEF OnlyMoves, OnlyEnds, OnlyWrites, Kinds, Exclusive, Fresh, Single, Processes
  <2>4. CASE /\ ~Claimable(wk[w].about) /\ UNCHANGED <<row, stopped>>
             /\ w \in Operators /\ OnlyEnds(w)
    BY <2>1, <2>4, NamesAssumption, Limits DEF OnlyMoves, OnlyEnds, OnlyWrites, Kinds, Exclusive, Fresh, Single, Processes
  <2>. QED
    BY <1>7, <2>2, <2>3, <2>4, ClaimFacts
<1>8. ASSUME NEW w \in Workers \cup Operators, Process(w)
      PROVE  Single'
  BY <1>8, ProcessFacts, NamesAssumption, Limits DEF OnlyMoves, OnlyEnds, OnlyWrites, Kinds, Exclusive, Fresh, Single, Processes
<1>9. ASSUME NEW w \in Workers \cup Operators, Record(w)
      PROVE  Single'
  BY <1>9, RecordFacts, NamesAssumption, Limits DEF OnlyMoves, OnlyEnds, OnlyWrites, Kinds, Exclusive, Fresh, Single, Processes
<1>10. ASSUME NEW w \in Operators, NEW e \in Events, Replay(w, e)
      PROVE  Single'
  BY <1>10, NamesAssumption, Limits, AboutEvent DEF Replay, Starts, Idle, TypeOK, Kinds, Exclusive, Fresh, Single, Processes
<1>11. ASSUME NEW w \in Operators, PutBack(w)
      PROVE  Single'
  BY <1>11, NamesAssumption, Limits, AboutEvent DEF PutBack, Writes, Goes, TypeOK, Kinds, Exclusive, Fresh, Single, Processes
<1>12. ASSUME NEW w \in Operators, NEW e \in Events, Reconcile(w, e)
      PROVE  Single'
  BY <1>12, NamesAssumption, Limits, AboutEvent DEF Reconcile, Writes, Starts, Idle, TypeOK, Kinds, Exclusive, Fresh, Single, Processes
<1>13. ASSUME NEW w \in Processes, Stop(w)
      PROVE  Single'
  BY <1>13, NamesAssumption, Limits, AboutEvent DEF Stop, Ends, Idle, TypeOK, Kinds, Exclusive, Fresh, Single, Processes
<1>14. CASE Tick
  BY <1>14, NamesAssumption, Limits, AboutEvent DEF Tick, Older, TypeOK, Kinds, Exclusive, Fresh, Single, Processes
<1>15. CASE UNCHANGED vars
  BY <1>15 DEF vars, TypeOK, Kinds, Exclusive, Fresh, Single
<1>. QED
  BY <1>1, <1>2, <1>3, <1>4, <1>5, <1>6, <1>7, <1>8, <1>9, <1>10, <1>11, <1>12, <1>13, <1>14, <1>15 DEF Next, Handles

-----------------------------------------------------------------------------
(* The invariant and what it implies.                                      *)

(* At first no event is known and no process is at work.                   *)
LEMMA InitInv == Init => IInv
<1>. SUFFICES ASSUME Init PROVE IInv
  OBVIOUS
<1>1. TypeOK
  BY Limits DEF Init, TypeOK, NoJob, Idle, States, Steps
<1>2. Kinds
  BY DEF Init, Kinds, Idle, Processes
<1>3. Exclusive
  BY NamesAssumption DEF Init, Exclusive, Idle, Processes, NamesAssumption
<1>4. Fresh
  BY NamesAssumption DEF Init, Fresh, Idle, NoJob, Processes, NamesAssumption
<1>5. Covered
  BY DEF Init, Covered, CoveredAt
<1>6. Single
  BY NamesAssumption DEF Init, Single, Idle, NoJob, Processes, NamesAssumption
<1>. QED
  BY <1>1, <1>2, <1>3, <1>4, <1>5, <1>6 DEF IInv

(* The invariant holds in every reachable state.                           *)
LEMMA Invariance == Spec => []IInv
<1>1. IInv /\ [Next]_vars => IInv'
  BY TypeStep, KindsStep, ExclusiveStep, FreshStep, CoveredStep, SingleStep DEF IInv
<1>. QED
  BY <1>1, InitInv, PTL DEF Spec

(* The rows, jobs and processes keep their types.                          *)
THEOREM TypeCorrect == Spec => []TypeOK
<1>1. IInv => TypeOK
  BY DEF IInv
<1>. QED
  BY <1>1, Invariance, PTL

(* However many workers, operators and web requests there are, and with    *)
(* any times that meet TimesAssumption, an event that is received or       *)
(* processing has someone to finish it, unless a request or a command      *)
(* stopped half-way: the claim a stopped worker leaves is stale when the   *)
(* queue gives its job again (ProcessProviderEvent:33-42).                 *)
THEOREM NoEventForgotten == Spec => []NothingForgotten
<1>1. IInv => NothingForgotten
  BY DEF IInv, Covered, CoveredAt, ReceivedCovered, ProcessingCovered, NothingForgotten,
         Unfinished, Attended, Processes
<1>. QED
  BY <1>1, Invariance, PTL

(* One step of the property below.                                         *)
Keeps(e) ==
    row[e].state = "processed" /\ row'[e].state # "processed" =>
        Expired(e) \/ replayed[e] \/ replayed'[e]

(* No step takes a processed event back, but those named.                  *)
LEMMA KeepsStep ==
    ASSUME IInv, [Next]_vars, NEW e \in Events
    PROVE  Keeps(e)
<1>. USE DEF IInv
<1>1. ASSUME NEW w \in Web, NEW f \in Events, Receive(w, f)
      PROVE  Keeps(e)
  BY <1>1 DEF Receive, Writes, Keeps, TypeOK
<1>2. ASSUME NEW w \in Workers, NEW f \in Events, GiveUp(w, f)
      PROVE  Keeps(e)
  BY <1>2 DEF GiveUp, Writes, Keeps, TypeOK
<1>3. ASSUME NEW w \in Workers, Release(w)
      PROVE  Keeps(e)
  <2>1. wk[w].about \in Events
    BY <1>3, AboutEvent DEF Release, Processes
  <2>. QED
    BY <1>3, <2>1 DEF Release, Writes, Keeps, TypeOK
<1>4. ASSUME NEW w \in Workers \cup Operators, Claim(w)
      PROVE  Keeps(e)
  BY <1>4, ClaimFacts DEF Claimable, OnlyWrites, Keeps
<1>5. ASSUME NEW w \in Workers \cup Operators, Record(w)
      PROVE  Keeps(e)
  <2>1. wk[w].step = "record" /\ OnlyWrites(wk[w].about, {"processed", "mismatched", "failed"})
    BY <1>5, RecordFacts
  <2>2. wk[w].about = e /\ ~replayed[e] => row[e].state = "processing"
    BY <2>1 DEF Single
  <2>. QED
    BY <2>1, <2>2 DEF OnlyWrites, Keeps
<1>6. ASSUME NEW w \in Operators, PutBack(w)
      PROVE  Keeps(e)
  <2>1. wk[w].about \in Events
    BY <1>6, AboutEvent DEF PutBack, Processes
  <2>. QED
    BY <1>6, <2>1 DEF PutBack, Writes, Keeps, TypeOK
<1>7. ASSUME NEW w \in Operators, NEW f \in Events, Reconcile(w, f)
      PROVE  Keeps(e)
  BY <1>7 DEF Reconcile, Writes, Keeps, TypeOK
<1>8. CASE Tick
  BY <1>8 DEF Tick, Keeps, TypeOK
<1>9. CASE row' = row
  BY <1>9 DEF Keeps
<1>10. \/ \E w \in Web, f \in Events : Receive(w, f)
       \/ \E w \in Workers, f \in Events : GiveUp(w, f)
       \/ \E w \in Workers : Release(w)
       \/ \E w \in Workers \cup Operators : Claim(w) \/ Record(w)
       \/ \E w \in Operators : PutBack(w)
       \/ \E w \in Operators, f \in Events : Reconcile(w, f)
       \/ Tick
       \/ row' = row
  BY DEF Next, Handles, Dispatch, Take, Delete, Process, Replay, Stop, vars
<1>. QED
  BY <1>1, <1>2, <1>3, <1>4, <1>5, <1>6, <1>7, <1>8, <1>9, <1>10

(* A processed event is taken back only by a replay or after its job's     *)
(* time is over: no worker that runs late, stops or is given the job again *)
(* undoes it (ProcessProviderEvent:35, 171-176).                           *)
THEOREM ProcessedEventsStay == Spec => ProcessedStays
<1>1. IInv /\ [Next]_vars =>
          [\A e \in Events : row[e].state = "processed" /\ row'[e].state # "processed" =>
               Expired(e) \/ replayed[e] \/ replayed'[e]]_vars
  BY KeepsStep DEF Keeps
<1>. QED
  BY <1>1, Invariance, PTL DEF Spec, ProcessedStays

=============================================================================
