--------------------------- MODULE InventoryProofs ---------------------------
(***************************************************************************)
(* What Inventory keeps for any property, reservations, rows and stays     *)
(* that meet its assumptions: the rows of a reservation follow its life,   *)
(* the calendar of places is one in which the guests who are still to come *)
(* never share a place, and no step sells what a day does not have.        *)
(***************************************************************************)
EXTENDS Inventory, SumProofs

(* A row is in use when a reservation has it, and its reservation exists.  *)
Owned ==
    \A a \in Rows :
        /\ alloc[a].reservation = None <=> alloc[a].status = "none"
        /\ alloc[a].reservation # None => res[alloc[a].reservation].status # "none"

IInv == TypeOK /\ Owned /\ StatusesAgree /\ ArrivalsFit

(* Rows on the calendar of reservations rs, and two rows that cannot both  *)
(* stand on it.                                                            *)
Shown(row, rs) ==
    /\ row.resource \in Places
    /\ \/ row.status = "confirmed"
       \/ row.status = "tentative" /\ LiveHold(rs, row.reservation)

Conflict(x, y) ==
    /\ Overlaps(x, y)
    /\ \/ x.resource = y.resource
       \/ x.resource \in Buyouts
       \/ y.resource \in Buyouts

(* Row a has a place of its own in al.                                     *)
Alone(a, al, rs) ==
    \A b \in Rows \ {a} : Shown(al[b], rs) => ~Conflict(al[a], al[b])

(* A row that was shown and takes nothing more, nor leaves the house.      *)
Stands(a) ==
    /\ Shown(alloc[a], res)
    /\ alloc'[a].resource = alloc[a].resource
    /\ alloc'[a].from = alloc[a].from /\ alloc'[a].to = alloc[a].to
    /\ res'[alloc'[a].reservation].status \in {"checked_in", "checked_out"}
           <=> InHouse(alloc[a].reservation)

(* What a step does to the calendar, row by row.                           *)
Lands ==
    \A a \in Rows :
        Shown(alloc'[a], res') =>
            \/ Stands(a)
            \/ res'[alloc'[a].reservation].status \in {"checked_in", "checked_out"}
            \/ Alone(a, alloc', res')

-----------------------------------------------------------------------------
(* A check that passes finds the place of its row alone among the rows     *)
(* that reserve (AvailabilityService:30-75).                               *)
LEMMA Checked ==
    ASSUME NEW al \in [Rows -> Allocation], NEW rs, NEW a \in Rows,
           al[a].resource # None, Available(a, al, rs)
    PROVE  /\ Alone(a, al, rs)
           /\ \A b \in Rows \ {a} :
                 /\ Reserves(al[b], al[a].reservation, rs)
                 /\ al[b].resource \in Places
                 => ~Conflict(al[a], al[b])
<1>. al[a].resource \in Resources
  BY DEF Allocation
<1>1. ASSUME NEW b \in Rows \ {a}, al[b].resource \in Places,
             Reserves(al[b], al[a].reservation, rs), Conflict(al[a], al[b])
      PROVE  FALSE
  <2>1. b \in Rivals(a, al, rs)
    BY <1>1 DEF Rivals, Conflict, Overlaps, Allocation
  <2>2. al[b].resource \notin ConflictingResources(al[a].resource)
    BY <2>1 DEF Available, ResourceFree
  <2>. QED
    BY <2>2, <1>1 DEF ConflictingResources, Conflict, Places
<1>. QED
  BY <1>1 DEF Alone, Shown, Reserves

(* Rows that land so keep the calendar's promise.                          *)
LEMMA LandsRebooks == Lands => Promise!Rebook
<1>. SUFFICES ASSUME Lands,
                     NEW a \in Rows, OnCalendar(a)',
                     Entry(a)' \notin {Entry(b) : b \in {c \in Rows : OnCalendar(c)}},
                     ~Entry(a)'.in_house,
                     NEW b \in Rows, OnCalendar(b)', Entry(b)' # Entry(a)',
                     Promise!Clash(Entry(a)', Entry(b)')
              PROVE  FALSE
  BY DEF Promise!Rebook, Promise!Fits
<1>1. ~Stands(a)
  BY DEF Stands, Shown, OnCalendar, Entry, InHouse
<1>2. Alone(a, alloc', res')
  BY <1>1 DEF Lands, Shown, OnCalendar, Entry, InHouse
<1>. QED
  BY <1>2 DEF Alone, Shown, OnCalendar, Entry, Conflict, Overlaps, Promise!Clash, Promise!Overlaps

(* The promise makes of a calendar on which arrivals fit another one.      *)
LEMMA RebookFits == Promise!ArrivalsFit /\ Promise!Rebook => Promise!ArrivalsFit'
<1>. DEFINE book == {Entry(b) : b \in {c \in Rows : OnCalendar(c)}}
<1>. SUFFICES ASSUME Promise!ArrivalsFit, Promise!Rebook,
                     NEW e \in book', NEW f \in book', e # f, Promise!Clash(e, f)
              PROVE  e.in_house \/ f.in_house
  BY DEF Promise!ArrivalsFit
<1>. QED
  BY DEF Promise!ArrivalsFit, Promise!Rebook, Promise!Fits, Promise!Clash, Promise!Overlaps

-----------------------------------------------------------------------------
(* Tables a step may leave, each of its type.                              *)

LEMMA MovedRes ==
    ASSUME TypeOK, NEW r \in Reservations, NEW status \in ReservationStatuses
    PROVE  /\ Moved(r, status) \in [Reservations -> Reservation]
           /\ Moved(r, status)[r].status = status /\ ~Moved(r, status)[r].lapsed
           /\ \A s \in Reservations \ {r} : Moved(r, status)[s] = res[s]
<1>1. [res[r] EXCEPT !.status = status, !.lapsed = FALSE] \in Reservation
  BY DEF TypeOK, Reservation
<1>2. Moved(r, status) = [res EXCEPT ![r] = [res[r] EXCEPT !.status = status, !.lapsed = FALSE]]
  BY DEF Moved, TypeOK
<1>. QED
  BY <1>1, <1>2 DEF TypeOK, Reservation

LEMMA ReleasedRow ==
    ASSUME NEW row \in Allocation
    PROVE  /\ Released(row) \in Allocation
           /\ Released(row).status = "released" /\ Released(row).resource = None
           /\ Released(row).reservation = row.reservation
  BY DEF Released, NoRow, Allocation, AllocationStatuses

LEMMA ReleasedRows ==
    ASSUME TypeOK, NEW as \in SUBSET Rows
    PROVE  /\ ReleaseRows(as) \in [Rows -> Allocation]
           /\ \A a \in as :
                 LET now == ReleaseRows(as)[a]
                 IN  /\ now.status = "released" /\ now.resource = None
                     /\ now.reservation = alloc[a].reservation
           /\ \A a \in Rows \ as : ReleaseRows(as)[a] = alloc[a]
<1>1. \A a \in Rows : alloc[a] \in Allocation
  BY DEF TypeOK
<1>2. \A a \in Rows : ReleaseRows(as)[a] = IF a \in as THEN Released(alloc[a]) ELSE alloc[a]
  BY DEF ReleaseRows
<1>3. ReleaseRows(as) \in [Rows -> Allocation]
  BY <1>1, ReleasedRow DEF ReleaseRows
<1>4. ASSUME NEW a \in as
      PROVE  LET now == ReleaseRows(as)[a]
             IN  /\ now.status = "released" /\ now.resource = None
                 /\ now.reservation = alloc[a].reservation
  <2>1. alloc[a] \in Allocation /\ ReleaseRows(as)[a] = Released(alloc[a])
    BY <1>1, <1>2
  <2>. QED
    BY <2>1, ReleasedRow
<1>. QED
  BY <1>2, <1>3, <1>4

LEMMA StatusRows ==
    ASSUME TypeOK, NEW as \in SUBSET Rows, NEW status \in AllocationStatuses
    PROVE  /\ WithStatus(as, status) \in [Rows -> Allocation]
           /\ \A a \in Rows :
                 LET now == WithStatus(as, status)[a]
                 IN  /\ now.status = IF a \in as THEN status ELSE alloc[a].status
                     /\ now.reservation = alloc[a].reservation
                     /\ now.resource = alloc[a].resource
                     /\ now.from = alloc[a].from /\ now.to = alloc[a].to
                     /\ a \notin as => now = alloc[a]
<1>1. ASSUME NEW a \in Rows
      PROVE  [alloc[a] EXCEPT !.status = status] \in Allocation
  BY DEF TypeOK, Allocation
<1>. QED
  BY <1>1 DEF TypeOK, WithStatus, Allocation

(* Saving a row gives it at most another category.                         *)
LEMMA SavedRow ==
    ASSUME NEW row \in Allocation
    PROVE  /\ Saved(row) \in Allocation
           /\ Saved(row).status = row.status /\ Saved(row).reservation = row.reservation
           /\ Saved(row).resource = row.resource
           /\ Saved(row).from = row.from /\ Saved(row).to = row.to
  BY CatalogAssumption DEF Saved, Allocation

LEMMA NewRow ==
    ASSUME NEW r \in Reservations, NEW t \in Targets, NEW i \in Intervals, NEW q \in Nat,
           NEW status \in {"tentative", "confirmed"}
    PROVE  LET row == RowFor(r, t.category, t.resource, i, q, status)
           IN  /\ row \in Allocation
               /\ row.status = status /\ row.reservation = r
  BY OfferAssumption DEF RowFor, Targets, Allocation, AllocationStatuses

(* The row of another resource has the columns of the row it replaces.     *)
LEMMA ReplacedRow ==
    ASSUME NEW r \in Reservations, NEW row \in Allocation, NEW x \in Resources
    PROVE  LET new == Replacement(r, row, x)
           IN  /\ new \in Allocation /\ new.resource = x
               /\ new.reservation = row.reservation
               /\ new.from = row.from /\ new.to = row.to
               /\ new.status = IF res[r].status = "hold" THEN "tentative" ELSE "confirmed"
  BY CatalogAssumption DEF Replacement, Allocation, AllocationStatuses

(* A row in use is a row of a reservation that exists.                     *)
LEMMA Owner ==
    ASSUME TypeOK, Owned, NEW a \in Rows, alloc[a].status # "none"
    PROVE  /\ alloc[a].reservation \in Reservations
           /\ res[alloc[a].reservation].status # "none"
  BY DEF TypeOK, Owned, Allocation

-----------------------------------------------------------------------------
(* Each step keeps the types, the owners and the statuses, and lands its   *)
(* rows where they fit.                                                    *)

Keeps == TypeOK' /\ Owned' /\ StatusesAgree' /\ Lands

(* A reservation moves and its rows stay as they are; it is not confirmed, *)
(* and its rows are shown only if they were, or its guest is in the house. *)
LEMMA MoveKeeps ==
    ASSUME TypeOK, Owned, StatusesAgree, NEW r \in Reservations,
           res' \in [Reservations -> Reservation], alloc' = alloc, blocks' = blocks,
           \A s \in Reservations \ {r} : res'[s] = res[s],
           res'[r].status \notin {"none", "confirmed"},
           \A a \in RowsOf(r) :
               \/ alloc[a].status = "tentative" /\ ~LiveHold(res', r)
               \/ res'[r].status \in {"checked_in", "checked_out"}
    PROVE  Keeps
<1>1. TypeOK'
  BY DEF TypeOK
<1>2. Owned'
  BY Owner DEF TypeOK, Owned
<1>3. StatusesAgree'
  BY Owner DEF StatusesAgree, RowsOf, Unreleased
<1>4. Lands
  <2>. SUFFICES ASSUME NEW a \in Rows, Shown(alloc'[a], res'),
                       res'[alloc'[a].reservation].status \notin {"checked_in", "checked_out"}
                PROVE  Stands(a)
    BY DEF Lands
  <2>1. alloc[a].reservation \in Reservations
    BY Owner DEF Shown
  <2>2. alloc[a].reservation # r
    BY <2>1 DEF Shown, RowsOf, Unreleased
  <2>. QED
    BY <2>1, <2>2 DEF Shown, Stands, LiveHold, InHouse
<1>. QED
  BY <1>1, <1>2, <1>3, <1>4 DEF Keeps

LEMMA LapseKeeps ==
    ASSUME TypeOK, Owned, StatusesAgree, NEW r \in Reservations, Lapse(r)
    PROVE  Keeps
<1>1. [res[r] EXCEPT !.lapsed = TRUE] \in Reservation
  BY DEF TypeOK, Reservation
<1>2. res' = [res EXCEPT ![r] = [res[r] EXCEPT !.lapsed = TRUE]]
  BY DEF Lapse, TypeOK
<1>3. \A a \in RowsOf(r) : alloc[a].status = "tentative"
  BY DEF Lapse, LiveHold, StatusesAgree, RowsOf, Unreleased
<1>. QED
  BY <1>1, <1>2, <1>3, MoveKeeps DEF Lapse, TypeOK, LiveHold, Reservation

LEMMA BackToDraftKeeps ==
    ASSUME TypeOK, Owned, StatusesAgree, NEW r \in Reservations, BackToDraft(r)
    PROVE  Keeps
<1>1. \A a \in RowsOf(r) : alloc[a].status = "tentative"
  BY DEF BackToDraft, StatusesAgree, RowsOf, Unreleased
<1>. QED
  BY <1>1, MovedRes, MoveKeeps DEF BackToDraft, LiveHold, ReservationStatuses

LEMMA GuestMovesKeep ==
    ASSUME TypeOK, Owned, StatusesAgree, NEW r \in Reservations, CheckIn(r) \/ CheckOut(r)
    PROVE  Keeps
<1>1. PICK status \in {"checked_in", "checked_out"} : res' = Moved(r, status)
  BY DEF CheckIn, CheckOut
<1>2. /\ res' \in [Reservations -> Reservation] /\ res'[r].status = status
      /\ \A s \in Reservations \ {r} : res'[s] = res[s]
  BY <1>1, MovedRes DEF ReservationStatuses
<1>3. alloc' = alloc /\ blocks' = blocks
  BY DEF CheckIn, CheckOut
<1>. QED
  BY <1>2, <1>3, MoveKeeps

(* Every row of the reservation is checked, then all go to one status.     *)
LEMMA CheckedMoveKeeps ==
    ASSUME TypeOK, Owned, StatusesAgree, NEW r \in Reservations,
           PlaceHold(r) \/ Confirm(r)
    PROVE  Keeps
<1>1. PICK status \in {"hold", "confirmed"}, to \in {"tentative", "confirmed"} :
          /\ res' = Moved(r, status) /\ alloc' = WithStatus(RowsOf(r), to)
          /\ status = "confirmed" <=> to = "confirmed"
  BY DEF PlaceHold, Confirm
<1>2. /\ RowsOf(r) \in SUBSET Rows /\ blocks' = blocks
      /\ \A a \in RowsOf(r) : Available(a, alloc, res)
  BY DEF PlaceHold, Confirm, RowsOf
<1>3. /\ res' \in [Reservations -> Reservation] /\ res'[r].status = status
      /\ \A s \in Reservations \ {r} : res'[s] = res[s]
  BY <1>1, MovedRes DEF ReservationStatuses
<1>4. /\ alloc' \in [Rows -> Allocation]
      /\ \A a \in Rows :
            /\ alloc'[a].status = IF a \in RowsOf(r) THEN to ELSE alloc[a].status
            /\ alloc'[a].reservation = alloc[a].reservation
            /\ alloc'[a].resource = alloc[a].resource
            /\ alloc'[a].from = alloc[a].from /\ alloc'[a].to = alloc[a].to
            /\ a \notin RowsOf(r) => alloc'[a] = alloc[a]
  BY <1>1, <1>2, StatusRows DEF AllocationStatuses
<1>5. TypeOK'
  BY <1>2, <1>3, <1>4 DEF TypeOK
<1>6. Owned'
  BY <1>3, <1>4, Owner DEF Owned, TypeOK, RowsOf, Unreleased
<1>7. StatusesAgree'
  <2>. SUFFICES ASSUME NEW a \in Rows, Unreleased(alloc'[a])
                PROVE  LET now == res'[alloc'[a].reservation].status
                       IN  /\ alloc'[a].status = "confirmed" =>
                                  now \in {"confirmed", "checked_in", "checked_out"}
                           /\ now = "confirmed" => alloc'[a].status = "confirmed"
    BY DEF StatusesAgree, Unreleased
  <2>1. CASE a \in RowsOf(r)
    BY <1>1, <1>3, <1>4, <2>1 DEF RowsOf
  <2>2. CASE a \notin RowsOf(r)
    <3>1. alloc'[a] = alloc[a] /\ alloc[a].reservation \in Reservations \ {r}
      BY <1>4, <2>2, Owner DEF RowsOf, Unreleased
    <3>. QED
      BY <1>3, <3>1 DEF StatusesAgree
  <2>. QED
    BY <2>1, <2>2
<1>8. ASSUME NEW a \in Rows, Shown(alloc'[a], res'), a \notin RowsOf(r)
      PROVE  /\ alloc'[a] = alloc[a] /\ alloc[a].reservation \in Reservations \ {r}
             /\ Shown(alloc[a], res)
  <2>1. alloc'[a] = alloc[a] /\ alloc[a].reservation \in Reservations \ {r}
    BY <1>4, <1>8, Owner DEF RowsOf, Unreleased, Shown
  <2>. QED
    BY <1>3, <1>8, <2>1 DEF Shown, LiveHold
<1>9. ASSUME NEW a \in RowsOf(r), Shown(alloc'[a], res')
      PROVE  Alone(a, alloc', res')
  <2>. SUFFICES ASSUME NEW b \in Rows \ {a}, Shown(alloc'[b], res')
                PROVE  ~Conflict(alloc'[a], alloc'[b])
    BY DEF Alone
  <2>1. /\ Reserves(alloc[b], alloc[a].reservation, res)
        /\ alloc[b].resource \in Places
    <3>1. CASE b \in RowsOf(r)
      BY <1>4, <3>1 DEF RowsOf, Unreleased, Reserves, Shown
    <3>2. CASE b \notin RowsOf(r)
      BY <1>8, <3>2 DEF Reserves, Shown
    <3>. QED
      BY <3>1, <3>2
  <2>2. alloc[a].resource # None
    BY <1>4, <1>9, <1>2, CatalogAssumption DEF Shown, Places
  <2>3. ~Conflict(alloc[a], alloc[b])
    BY <1>2, <2>1, <2>2, Checked DEF TypeOK
  <2>. QED
    BY <1>2, <1>4, <2>3 DEF Conflict, Overlaps
<1>10. Lands
  <2>. SUFFICES ASSUME NEW a \in Rows, Shown(alloc'[a], res'), a \notin RowsOf(r)
                PROVE  Stands(a)
    BY <1>9 DEF Lands
  <2>. QED
    BY <1>3, <1>8 DEF Stands, InHouse
<1>. QED
  BY <1>5, <1>6, <1>7, <1>10 DEF Keeps

(* Rows are given back; their reservation stays or moves to where it has   *)
(* no row left in use, or only rows its status allows.                     *)
LEMMA ReleaseKeeps ==
    ASSUME TypeOK, Owned, StatusesAgree, NEW r \in Reservations,
           NEW as \in SUBSET RowsOf(r), alloc' = ReleaseRows(as), blocks' = blocks,
           res' \in [Reservations -> Reservation],
           \A s \in Reservations \ {r} : res'[s] = res[s],
           \/ res' = res
           \/ as = RowsOf(r) /\ res'[r].status # "none"
    PROVE  Keeps
<1>1. /\ alloc' \in [Rows -> Allocation] /\ as \subseteq Rows
      /\ \A a \in as : alloc'[a].status = "released" /\ alloc'[a].reservation = r
      /\ \A a \in Rows \ as : alloc'[a] = alloc[a]
  <2>1. as \in SUBSET Rows /\ \A a \in as : alloc[a].reservation = r
    BY DEF RowsOf
  <2>. QED
    BY <2>1, ReleasedRows
<1>2. TypeOK'
  BY <1>1 DEF TypeOK
<1>3. ASSUME NEW a \in Rows, Unreleased(alloc'[a])
      PROVE  /\ alloc'[a] = alloc[a] /\ alloc[a].reservation \in Reservations
             /\ res'[alloc[a].reservation] = res[alloc[a].reservation]
  <2>1. a \notin as /\ alloc'[a] = alloc[a] /\ alloc[a].reservation \in Reservations
    BY <1>1, <1>3, Owner DEF Unreleased
  <2>. QED
    BY <1>3, <2>1 DEF RowsOf
<1>4. Owned'
  <2>. SUFFICES ASSUME NEW a \in Rows
                PROVE  /\ alloc'[a].reservation = None <=> alloc'[a].status = "none"
                       /\ alloc'[a].reservation # None =>
                              res'[alloc'[a].reservation].status # "none"
    BY DEF Owned
  <2>1. CASE a \in as
    <3>1. alloc[a].reservation = r /\ res[r].status # "none" /\ r # None
      BY <2>1, Owner, CatalogAssumption DEF RowsOf, Unreleased
    <3>. QED
      BY <1>1, <2>1, <3>1
  <2>2. CASE a \notin as
    <3>1. alloc[a].reservation \in Reservations \cup {None}
      BY DEF TypeOK, Allocation
    <3>2. \A s \in Reservations : res[s].status # "none" => res'[s].status # "none"
      OBVIOUS
    <3>3. alloc'[a] = alloc[a]
      BY <1>1, <2>2
    <3>. QED
      BY <3>1, <3>2, <3>3 DEF Owned
  <2>. QED
    BY <2>1, <2>2
<1>5. StatusesAgree'
  <2>. SUFFICES ASSUME NEW a \in Rows, Unreleased(alloc'[a])
                PROVE  LET now == res'[alloc'[a].reservation].status
                       IN  /\ alloc'[a].status = "confirmed" =>
                                  now \in {"confirmed", "checked_in", "checked_out"}
                           /\ now = "confirmed" => alloc'[a].status = "confirmed"
    BY DEF StatusesAgree, Unreleased
  <2>. QED
    BY <1>3 DEF StatusesAgree
<1>6. Lands
  BY <1>3 DEF Lands, Shown, Unreleased, Stands, LiveHold, InHouse
<1>. QED
  BY <1>2, <1>4, <1>5, <1>6 DEF Keeps

LEMMA CloseKeeps ==
    ASSUME TypeOK, Owned, StatusesAgree, NEW r \in Reservations,
           NEW target \in {"cancelled", "no_show"}, Close(r, target)
    PROVE  Keeps
<1>1. /\ res' \in [Reservations -> Reservation] /\ res'[r].status = target
      /\ \A s \in Reservations \ {r} : res'[s] = res[s]
  BY MovedRes DEF Close, ReservationStatuses
<1>2. alloc' = ReleaseRows(RowsOf(r)) /\ blocks' = blocks
  BY DEF Close
<1>. QED
  BY <1>1, <1>2, ReleaseKeeps

LEMMA ExpireHoldKeeps ==
    ASSUME TypeOK, Owned, StatusesAgree, NEW r \in Reservations, ExpireHold(r)
    PROVE  Keeps
<1>1. {a \in RowsOf(r) : alloc[a].status = "tentative"} = RowsOf(r)
  BY DEF ExpireHold, StatusesAgree, RowsOf, Unreleased
<1>. QED
  BY <1>1, MovedRes, ReleaseKeeps DEF ExpireHold, ReservationStatuses

LEMMA RowReleaseKeeps ==
    ASSUME TypeOK, Owned, StatusesAgree, NEW r \in Reservations, NEW a \in Rows, Release(r, a)
    PROVE  Keeps
  BY ReleaseKeeps DEF Release, TypeOK

-----------------------------------------------------------------------------
(* One row is written for a reservation that keeps its status: a new row,  *)
(* new columns for it, or a row released and replaced at once.             *)
LEMMA WriteKeeps ==
    ASSUME TypeOK, Owned, StatusesAgree, NEW r \in Reservations, NEW a \in Rows,
           NEW row \in Allocation, row.reservation = r, row.status \in {"tentative", "confirmed"},
           alloc' = [alloc EXCEPT ![a] = row], blocks' = blocks,
           res' \in [Reservations -> Reservation],
           \A s \in Reservations :
               res'[s].status = res[s].status /\ res'[s].lapsed = res[s].lapsed,
           res[r].status # "none",
           row.status = "confirmed" => res[r].status \in {"confirmed", "checked_in", "checked_out"},
           res[r].status = "confirmed" => row.status = "confirmed",
           Shown(row, res) /\ ~InHouse(r) =>
               \A b \in Rows \ {a} : Shown(alloc[b], res) => ~Conflict(row, alloc[b])
    PROVE  Keeps
<1>1. /\ alloc' \in [Rows -> Allocation] /\ alloc'[a] = row
      /\ \A b \in Rows \ {a} : alloc'[b] = alloc[b]
  BY DEF TypeOK
<1>2. TypeOK'
  BY <1>1 DEF TypeOK
<1>3. ASSUME NEW b \in Rows \ {a}
      PROVE  /\ alloc'[b].reservation = None <=> alloc'[b].status = "none"
             /\ alloc'[b].reservation # None =>
                    res'[alloc'[b].reservation].status # "none"
  <2>1. alloc[b].reservation \in Reservations \cup {None}
    BY DEF TypeOK, Allocation
  <2>. QED
    BY <1>1, <2>1 DEF Owned
<1>4. Owned'
  BY <1>1, <1>3, CatalogAssumption DEF Owned
<1>5. StatusesAgree'
  <2>. SUFFICES ASSUME NEW b \in Rows, Unreleased(alloc'[b])
                PROVE  LET now == res'[alloc'[b].reservation].status
                       IN  /\ alloc'[b].status = "confirmed" =>
                                  now \in {"confirmed", "checked_in", "checked_out"}
                           /\ now = "confirmed" => alloc'[b].status = "confirmed"
    BY DEF StatusesAgree, Unreleased
  <2>1. CASE b = a
    BY <1>1, <2>1
  <2>2. CASE b # a
    <3>1. alloc'[b] = alloc[b] /\ alloc[b].reservation \in Reservations
      BY <1>1, <2>2, Owner DEF Unreleased
    <3>. QED
      BY <3>1 DEF StatusesAgree
  <2>. QED
    BY <2>1, <2>2
<1>6. ASSUME NEW b \in Rows \ {a}
      PROVE  /\ Shown(alloc'[b], res') => Shown(alloc[b], res) /\ Stands(b)
  <2>. SUFFICES ASSUME Shown(alloc'[b], res')
                PROVE  Shown(alloc[b], res) /\ Stands(b)
    OBVIOUS
  <2>1. alloc'[b] = alloc[b] /\ alloc[b].reservation \in Reservations
    BY <1>1, Owner DEF Shown
  <2>. QED
    BY <2>1 DEF Shown, Stands, LiveHold, InHouse
<1>7. Shown(row, res') => Shown(row, res)
  BY DEF Shown, LiveHold
<1>8. Lands
  BY <1>1, <1>6, <1>7 DEF Lands, Alone, InHouse
<1>. QED
  BY <1>2, <1>4, <1>5, <1>8 DEF Keeps

(* A row that passes the check in the tables it is written to is alone,    *)
(* whatever its category and whatever the stay of its reservation.         *)
LEMMA CheckedRow ==
    ASSUME TypeOK, NEW a \in Rows, NEW row \in Allocation, NEW asked \in Allocation,
           asked.resource = row.resource, asked.from = row.from, asked.to = row.to,
           Available(a, [alloc EXCEPT ![a] = asked], res)
    PROVE  Shown(row, res) =>
               \A b \in Rows \ {a} : Shown(alloc[b], res) => ~Conflict(row, alloc[b])
<1>. DEFINE al == [alloc EXCEPT ![a] = asked]
<1>1. al \in [Rows -> Allocation] /\ al[a] = asked /\ \A b \in Rows \ {a} : al[b] = alloc[b]
  BY DEF TypeOK
<1>. HIDE DEF al
<1>. SUFFICES ASSUME Shown(row, res), NEW b \in Rows \ {a}, Shown(alloc[b], res)
              PROVE  ~Conflict(row, alloc[b])
  OBVIOUS
<1>2. al[a].resource # None
  BY <1>1, CatalogAssumption DEF Shown, Places
<1>3. Alone(a, al, res)
  BY <1>1, <1>2, Checked DEF al
<1>. QED
  BY <1>1, <1>3 DEF Alone, Conflict, Overlaps

LEMMA CreateKeeps ==
    ASSUME TypeOK, Owned, StatusesAgree, NEW r \in Reservations, NEW a \in Rows,
           NEW t \in Targets, NEW i \in Intervals, NEW q \in Quantities, Create(r, a, t, i, q)
    PROVE  Keeps
<1>. DEFINE status == IF res[r].status \in {"confirmed", "checked_in"}
                      THEN "confirmed" ELSE "tentative"
            row == Saved(RowFor(r, t.category, t.resource, i, q, status))
<1>1. q \in Nat
  BY OfferAssumption
<1>2. row \in Allocation /\ row.reservation = r /\ row.status = status
  BY <1>1, NewRow, SavedRow
<1>3. /\ alloc' = [alloc EXCEPT ![a] = row] /\ res' = res /\ blocks' = blocks
      /\ res[r].status # "none"
      /\ ReservesCapacity(r) => Available(a, [alloc EXCEPT ![a] = row], res)
  BY DEF Create
<1>. HIDE DEF row
<1>4. Shown(row, res) /\ ~InHouse(r) => ReservesCapacity(r)
  BY <1>2 DEF Shown, InHouse, ReservesCapacity
<1>5. Shown(row, res) /\ ~InHouse(r) =>
          \A b \in Rows \ {a} : Shown(alloc[b], res) => ~Conflict(row, alloc[b])
  BY <1>2, <1>3, <1>4, CheckedRow
<1>. QED
  BY <1>2, <1>3, <1>5, WriteKeeps DEF TypeOK

LEMMA UpdateKeeps ==
    ASSUME TypeOK, Owned, StatusesAgree, NEW r \in Reservations, NEW a \in Rows,
           NEW t \in Targets, NEW i \in Intervals, NEW q \in Quantities, Update(r, a, t, i, q)
    PROVE  Keeps
<1>. DEFINE status == IF res[r].status = "confirmed" THEN "confirmed" ELSE "tentative"
            asked == RowFor(r, t.category, t.resource, i, q, status)
            row == Saved(asked)
<1>1. q \in Nat
  BY OfferAssumption
<1>2. asked \in Allocation /\ asked.reservation = r /\ asked.status = status
  BY <1>1, NewRow
<1>3. /\ row \in Allocation /\ row.reservation = r /\ row.status = status
      /\ row.resource = asked.resource /\ row.from = asked.from /\ row.to = asked.to
  BY <1>2, SavedRow
<1>4. /\ alloc' = [alloc EXCEPT ![a] = row] /\ res' = res /\ blocks' = blocks
      /\ alloc[a].reservation = r
      /\ ReservesCapacity(r) => Available(a, [alloc EXCEPT ![a] = asked], res)
  BY DEF Update
<1>. HIDE DEF row, asked
<1>5. res[r].status # "none"
  BY <1>4, CatalogAssumption DEF Owned
<1>6. Shown(row, res) => ReservesCapacity(r)
  BY <1>3 DEF Shown, ReservesCapacity
<1>7. Shown(row, res) =>
          \A b \in Rows \ {a} : Shown(alloc[b], res) => ~Conflict(row, alloc[b])
  BY <1>2, <1>3, <1>4, <1>6, CheckedRow
<1>. QED
  BY <1>3, <1>4, <1>5, <1>7, WriteKeeps DEF TypeOK

LEMMA ReallocateKeeps ==
    ASSUME TypeOK, Owned, StatusesAgree, NEW r \in Reservations, NEW a \in Rows,
           NEW x \in Resources, Reallocate(r, a, x)
    PROVE  Keeps
<1>. DEFINE row == Replacement(r, alloc[a], x)
<1>1. alloc[a] \in Allocation /\ alloc[a].reservation = r
  BY DEF Reallocate, RowsOf, TypeOK
<1>2. /\ row \in Allocation /\ row.reservation = r
      /\ row.status = IF res[r].status = "hold" THEN "tentative" ELSE "confirmed"
  BY <1>1, ReplacedRow
<1>3. /\ alloc' = [alloc EXCEPT ![a] = row] /\ res' = res /\ blocks' = blocks
      /\ OperationallyActive(r) /\ Available(a, [alloc EXCEPT ![a] = row], res)
  BY DEF Reallocate
<1>. HIDE DEF row
<1>4. Shown(row, res) =>
          \A b \in Rows \ {a} : Shown(alloc[b], res) => ~Conflict(row, alloc[b])
  BY <1>2, <1>3, CheckedRow
<1>. QED
  BY <1>2, <1>3, <1>4, WriteKeeps DEF TypeOK, OperationallyActive, LiveHold

LEMMA AmendKeeps ==
    ASSUME TypeOK, Owned, StatusesAgree, NEW r \in Reservations, NEW a \in Rows,
           NEW t \in Targets, NEW i \in Intervals, Amend(r, a, t, i)
    PROVE  Keeps
<1>. DEFINE status == IF res[r].status = "confirmed" THEN "confirmed" ELSE "tentative"
            row == Saved(RowFor(r, t.category, t.resource, i, 1, status))
<1>1. row \in Allocation /\ row.reservation = r /\ row.status = status
  BY NewRow, SavedRow
<1>2. /\ alloc' = [alloc EXCEPT ![a] = row] /\ blocks' = blocks
      /\ res' = [res EXCEPT ![r].stay = i]
      /\ res[r].status \in {"hold", "confirmed"}
      /\ Available(a, [alloc EXCEPT ![a] = row], res)
  BY DEF Amend
<1>. HIDE DEF row
<1>3. /\ res' \in [Reservations -> Reservation]
      /\ \A s \in Reservations :
             res'[s].status = res[s].status /\ res'[s].lapsed = res[s].lapsed
  <2>1. [res[r] EXCEPT !.stay = i] \in Reservation
    BY DEF TypeOK, Reservation
  <2>2. res' = [res EXCEPT ![r] = [res[r] EXCEPT !.stay = i]]
    BY <1>2 DEF TypeOK
  <2>. QED
    BY <2>1, <2>2 DEF TypeOK, Reservation
<1>4. Shown(row, res) =>
          \A b \in Rows \ {a} : Shown(alloc[b], res) => ~Conflict(row, alloc[b])
  BY <1>1, <1>2, CheckedRow
<1>. QED
  BY <1>1, <1>2, <1>3, <1>4, WriteKeeps

(* A quote is committed for a reservation that had no row before.          *)
LEMMA CommitQuoteKeeps ==
    ASSUME TypeOK, Owned, StatusesAgree, NEW r \in Reservations, NEW a \in Rows,
           NEW t \in Targets, NEW i \in Intervals, CommitQuote(r, a, t, i)
    PROVE  Keeps
<1>. DEFINE row == Saved(RowFor(r, t.category, t.resource, i, 1, "tentative"))
<1>1. row \in Allocation /\ row.reservation = r /\ row.status = "tentative"
  BY NewRow, SavedRow
<1>2. /\ alloc' = [alloc EXCEPT ![a] = row] /\ blocks' = blocks
      /\ res' = [res EXCEPT ![r] = [status |-> "hold", lapsed |-> FALSE, stay |-> i]]
      /\ res[r].status = "none" /\ Available(a, alloc', res')
  BY DEF CommitQuote
<1>. HIDE DEF row
<1>3. /\ res' \in [Reservations -> Reservation] /\ res'[r].status = "hold"
      /\ \A s \in Reservations \ {r} : res'[s] = res[s]
  BY <1>2 DEF TypeOK, Reservation, ReservationStatuses
<1>4. /\ alloc' \in [Rows -> Allocation] /\ alloc'[a] = row
      /\ \A b \in Rows \ {a} : alloc'[b] = alloc[b]
  BY <1>1, <1>2 DEF TypeOK
<1>5. ASSUME NEW b \in Rows, alloc[b].status # "none"
      PROVE  alloc[b].reservation \in Reservations \ {r}
  BY <1>2, <1>5, Owner
<1>6. TypeOK'
  BY <1>2, <1>3, <1>4 DEF TypeOK
<1>7. Owned'
  <2>. SUFFICES ASSUME NEW b \in Rows \ {a}
                PROVE  /\ alloc[b].reservation = None <=> alloc[b].status = "none"
                       /\ alloc[b].reservation # None =>
                              res'[alloc[b].reservation].status # "none"
    BY <1>1, <1>3, <1>4, CatalogAssumption DEF Owned
  <2>. QED
    BY <1>3, <1>5 DEF Owned
<1>8. StatusesAgree'
  <2>. SUFFICES ASSUME NEW b \in Rows, Unreleased(alloc'[b])
                PROVE  LET now == res'[alloc'[b].reservation].status
                       IN  /\ alloc'[b].status = "confirmed" =>
                                  now \in {"confirmed", "checked_in", "checked_out"}
                           /\ now = "confirmed" => alloc'[b].status = "confirmed"
    BY DEF StatusesAgree, Unreleased
  <2>1. CASE b = a
    BY <1>1, <1>3, <1>4, <2>1
  <2>2. CASE b # a
    <3>1. alloc'[b] = alloc[b] /\ alloc[b].reservation \in Reservations \ {r}
      BY <1>4, <1>5, <2>2 DEF Unreleased
    <3>. QED
      BY <1>3, <3>1 DEF StatusesAgree
  <2>. QED
    BY <2>1, <2>2
<1>9. Lands
  <2>1. Shown(alloc'[a], res') => Alone(a, alloc', res')
    <3>1. Shown(alloc'[a], res') => alloc'[a].resource # None
      BY CatalogAssumption DEF Shown, Places
    <3>. QED
      BY <1>2, <1>4, <3>1, Checked
  <2>2. ASSUME NEW b \in Rows \ {a}, Shown(alloc'[b], res')
        PROVE  Stands(b)
    <3>1. alloc'[b] = alloc[b] /\ alloc[b].reservation \in Reservations \ {r}
      BY <1>4, <1>5, <2>2 DEF Shown
    <3>. QED
      BY <1>3, <2>2, <3>1 DEF Stands, Shown, LiveHold, InHouse
  <2>. QED
    BY <2>1, <2>2 DEF Lands
<1>. QED
  BY <1>6, <1>7, <1>8, <1>9 DEF Keeps

(* A swap checks the first row with the second given back, and the second  *)
(* with the first in place: together each row is alone.                    *)
LEMMA SwapKeeps ==
    ASSUME TypeOK, Owned, StatusesAgree, NEW r \in Reservations, NEW a \in Rows,
           NEW s \in Reservations, NEW b \in Rows, Swap(r, a, s, b)
    PROVE  Keeps
<1>. DEFINE x == alloc[b].resource
            y == alloc[a].resource
            rowA == Replacement(r, alloc[a], x)
            rowB == Replacement(s, alloc[b], y)
            one == [ReleaseRows({b}) EXCEPT ![a] = rowA]
<1>1. /\ alloc[a] \in Allocation /\ alloc[a].reservation = r
      /\ alloc[b] \in Allocation /\ alloc[b].reservation = s
      /\ x \in Resources /\ y \in Resources /\ a # b
      /\ OperationallyActive(r) /\ OperationallyActive(s)
  BY DEF Swap, RowsOf, TypeOK, Allocation
<1>. HIDE DEF x, y
<1>2. /\ rowA \in Allocation /\ rowA.reservation = r /\ rowA.resource = x
      /\ rowA.status = IF res[r].status = "hold" THEN "tentative" ELSE "confirmed"
  <2>1. alloc[a] \in Allocation /\ x \in Resources
    BY <1>1
  <2>2. LET new == Replacement(r, alloc[a], x)
        IN  /\ new \in Allocation /\ new.resource = x
            /\ new.reservation = alloc[a].reservation
            /\ new.status = IF res[r].status = "hold" THEN "tentative" ELSE "confirmed"
    BY <2>1, ReplacedRow
  <2>. QED
    BY <1>1, <2>2
<1>3. /\ rowB \in Allocation /\ rowB.reservation = s /\ rowB.resource = y
      /\ rowB.status = IF res[s].status = "hold" THEN "tentative" ELSE "confirmed"
  <2>1. alloc[b] \in Allocation /\ y \in Resources
    BY <1>1
  <2>2. LET new == Replacement(s, alloc[b], y)
        IN  /\ new \in Allocation /\ new.resource = y
            /\ new.reservation = alloc[b].reservation
            /\ new.status = IF res[s].status = "hold" THEN "tentative" ELSE "confirmed"
    BY <2>1, ReplacedRow
  <2>. QED
    BY <1>1, <2>2
<1>4. /\ alloc' = [one EXCEPT ![b] = rowB] /\ res' = res /\ blocks' = blocks
      /\ Available(a, one, res) /\ Available(b, alloc', res)
  BY DEF Swap, x, y
<1>. HIDE DEF rowA, rowB
<1>5. /\ one \in [Rows -> Allocation] /\ one[a] = rowA
      /\ \A c \in Rows \ {a, b} : one[c] = alloc[c]
  <2>1. {b} \in SUBSET Rows
    OBVIOUS
  <2>2. /\ ReleaseRows({b}) \in [Rows -> Allocation]
        /\ \A c \in Rows \ {b} : ReleaseRows({b})[c] = alloc[c]
    BY <2>1, ReleasedRows
  <2>. QED
    BY <1>2, <2>2
<1>. HIDE DEF one
<1>6. /\ alloc' \in [Rows -> Allocation] /\ alloc'[a] = rowA /\ alloc'[b] = rowB
      /\ \A c \in Rows \ {a, b} : alloc'[c] = alloc[c] /\ alloc'[c] = one[c]
  BY <1>1, <1>3, <1>4, <1>5
<1>7. TypeOK'
  BY <1>4, <1>6 DEF TypeOK
<1>8. res[r].status \in {"hold", "confirmed", "checked_in"} /\ res[s].status \in {"hold", "confirmed", "checked_in"}
  BY <1>1 DEF OperationallyActive, LiveHold
<1>9. Owned'
  <2>. SUFFICES ASSUME NEW c \in Rows
                PROVE  /\ alloc'[c].reservation = None <=> alloc'[c].status = "none"
                       /\ alloc'[c].reservation # None =>
                              res[alloc'[c].reservation].status # "none"
    BY <1>4 DEF Owned
  <2>1. CASE c \in {a, b}
    BY <1>2, <1>3, <1>6, <1>8, <2>1, CatalogAssumption
  <2>2. CASE c \notin {a, b}
    BY <1>6, <2>2 DEF Owned
  <2>. QED
    BY <2>1, <2>2
<1>10. StatusesAgree'
  <2>. SUFFICES ASSUME NEW c \in Rows
                PROVE  LET now == res[alloc'[c].reservation].status
                       IN  /\ alloc'[c].status = "confirmed" =>
                                  now \in {"confirmed", "checked_in", "checked_out"}
                           /\ Unreleased(alloc'[c]) /\ now = "confirmed" =>
                                  alloc'[c].status = "confirmed"
    BY <1>4 DEF StatusesAgree
  <2>1. CASE c \in {a, b}
    BY <1>2, <1>3, <1>6, <1>8, <2>1
  <2>2. CASE c \notin {a, b}
    BY <1>6, <2>2 DEF StatusesAgree
  <2>. QED
    BY <2>1, <2>2
<1>11. Alone(b, alloc', res)
  BY <1>1, <1>3, <1>4, <1>6, CatalogAssumption, Checked
<1>12. ASSUME Shown(alloc'[a], res)
       PROVE  Alone(a, alloc', res)
  <2>1. Alone(a, one, res)
    BY <1>1, <1>2, <1>4, <1>5, CatalogAssumption, Checked
  <2>2. ~Conflict(alloc'[a], alloc'[b])
    BY <1>1, <1>11, <1>12 DEF Alone, Conflict, Overlaps
  <2>3. ASSUME NEW c \in Rows \ {a, b}, Shown(alloc'[c], res)
        PROVE  ~Conflict(alloc'[a], alloc'[c])
    BY <1>5, <1>6, <2>1, <2>3 DEF Alone
  <2>. QED
    BY <2>2, <2>3 DEF Alone
<1>13. ASSUME NEW c \in Rows \ {a, b}, Shown(alloc'[c], res)
       PROVE  Stands(c)
  BY <1>4, <1>6, <1>13 DEF Stands, InHouse
<1>14. Lands
  BY <1>4, <1>11, <1>12, <1>13 DEF Lands
<1>. QED
  BY <1>7, <1>9, <1>10, <1>14 DEF Keeps

(* Staff close and open resources without a look at the calendar, and      *)
(* without a change to it.                                                 *)
LEMMA BlocksKeep ==
    ASSUME TypeOK, Owned, StatusesAgree,
           \/ \E x \in Resources, i \in Intervals : AddBlock(x, i)
           \/ \E k \in blocks, x \in Resources, i \in Intervals : EditBlock(k, x, i)
           \/ \E k \in blocks : RemoveBlock(k)
           \/ UNCHANGED vars
    PROVE  Keeps
<1>1. alloc' = alloc /\ res' = res
  BY DEF AddBlock, EditBlock, RemoveBlock, vars
<1>2. blocks' \subseteq Block
  BY OfferAssumption DEF AddBlock, EditBlock, RemoveBlock, vars, TypeOK, Block
<1>3. Lands
  BY <1>1 DEF Lands, Stands, InHouse
<1>. QED
  BY <1>1, <1>2, <1>3 DEF Keeps, TypeOK, Owned, StatusesAgree

LEMMA StepKeeps == TypeOK /\ Owned /\ StatusesAgree /\ [Next]_vars => Keeps
<1>. SUFFICES ASSUME TypeOK, Owned, StatusesAgree, [Next]_vars
              PROVE  Keeps
  OBVIOUS
<1>1. ASSUME NEW r \in Reservations, OfReservation(r)
      PROVE  Keeps
  BY <1>1, LapseKeeps, BackToDraftKeeps, GuestMovesKeep, CheckedMoveKeeps, CloseKeeps,
     ExpireHoldKeeps DEF OfReservation
<1>2. ASSUME NEW r \in Reservations, NEW a \in Rows, OfAllocation(r, a)
      PROVE  Keeps
  BY <1>2, CommitQuoteKeeps, AmendKeeps, CreateKeeps, UpdateKeeps, RowReleaseKeeps,
     ReallocateKeeps, SwapKeeps DEF OfAllocation
<1>. QED
  BY <1>1, <1>2, BlocksKeep DEF Next

-----------------------------------------------------------------------------
LEMMA InitInv == Init => IInv
<1>. SUFFICES ASSUME Init PROVE IInv
  OBVIOUS
<1>1. NoRow \in Allocation
  BY DEF NoRow, Allocation, AllocationStatuses
<1>2. TypeOK
  BY <1>1 DEF Init, TypeOK, Reservation, ReservationStatuses
<1>3. Owned /\ StatusesAgree
  BY DEF Init, Owned, StatusesAgree, Unreleased, NoRow
<1>4. ArrivalsFit
  BY DEF Init, ArrivalsFit, Promise!ArrivalsFit, OnCalendar, NoRow
<1>. QED
  BY <1>2, <1>3, <1>4 DEF IInv

LEMMA StepInv == IInv /\ [Next]_vars => IInv'
<1>1. ASSUME IInv, [Next]_vars
      PROVE  ArrivalsFit'
  BY <1>1, StepKeeps, LandsRebooks, RebookFits DEF IInv, Keeps, ArrivalsFit
<1>. QED
  BY <1>1, StepKeeps DEF IInv, Keeps

(* The invariant holds in every reachable state.                           *)
LEMMA Invariance == Spec => []IInv
  BY InitInv, StepInv, PTL DEF Spec

(* Every table keeps its type, over every operation of the services, the   *)
(* workbench and the front desk.                                           *)
THEOREM TypeCorrect == Spec => []TypeOK
<1>1. IInv => TypeOK
  BY DEF IInv
<1>. QED
  BY <1>1, Invariance, PTL

(* Whatever staff create, move, swap, amend or release, and whenever holds *)
(* run out, a confirmed row is of a guest who is coming or came, and a     *)
(* confirmed reservation has no row the checks of others would overlook.   *)
THEOREM StatusesFollow == Spec => []StatusesAgree
<1>1. IInv => StatusesAgree
  BY DEF IInv
<1>. QED
  BY <1>1, Invariance, PTL

(* No two guests who are still to come have the same place, or a buyout    *)
(* and a place in it, at one time (docs/architecture.md:51-52).            *)
THEOREM ArrivalsNeverCollide == Spec => []ArrivalsFit
<1>1. IInv => ArrivalsFit
  BY DEF IInv
<1>. QED
  BY <1>1, Invariance, PTL

(* The operations implement the calendar: each step of Inventory is a step *)
(* of it or leaves it as it is.                                            *)
THEOREM Implementation == Spec => KeepsCalendar
<1>1. Init => Promise!Init
  BY DEF Init, Promise!Init, OnCalendar, NoRow
<1>2. IInv /\ [Next]_vars => [Promise!Rebook]_({Entry(a) : a \in {b \in Rows : OnCalendar(b)}})
  BY StepKeeps, LandsRebooks DEF IInv, Keeps
<1>. QED
  BY <1>1, <1>2, Invariance, PTL DEF Spec, KeepsCalendar, Promise!Spec
-----------------------------------------------------------------------------
(* What is sold of a day: a row with a resource is of its category.        *)
Categorized ==
    \A a \in Rows :
        alloc[a].resource # None => alloc[a].category = CategoryOf[alloc[a].resource]

(* Two rows that take the same units of the same nights.                   *)
Same(x, y) ==
    /\ x.category = y.category /\ x.resource = y.resource
    /\ x.from = y.from /\ x.to = y.to /\ x.quantity = y.quantity

Quantity(al) == [a \in Rows |-> al[a].quantity]

(* What a step sells fits, unless the code does not look.                  *)
SaleFits ==
    \A k \in Categories, d \in Days :
        Sale(k, d) => Fits(k, d)' \/ UncheckedSale

LEMMA QuantityTotal ==
    ASSUME NEW al, NEW S \in SUBSET Rows
    PROVE  MapThenSumSet(LAMBDA b : al[b].quantity, S) = Total(Quantity(al), S)
  BY DEF Quantity, Total, MapThenSumSet, MapThenFoldSet

(* The same of the rows a step leaves, and the units the blocks it leaves  *)
(* keep open.                                                              *)
Open(k, w) == {x \in InCategory(k) : ~BlockedDuring({x}, w)}

LEMMA SoldTotal ==
    ASSUME NEW k, NEW d
    PROVE  Sold(k, d)' = Total(Quantity(alloc'), SoldOf(k, d)')
  BY DEF Sold, Quantity, SoldOf, SoldOn, Total, MapThenSumSet, MapThenFoldSet

LEMMA UnitsTotal ==
    ASSUME NEW k, NEW w
    PROVE  /\ UnitsFree(k, w) = IF k \in StayCategories THEN Cardinality(Open(k, w))
                                ELSE Total(Capacity, Open(k, w))
           /\ UnitsFree(k, w)' = IF k \in StayCategories THEN Cardinality(Open(k, w)')
                                 ELSE Total(Capacity, Open(k, w)')
<1>1. UnitsFree(k, w) = IF k \in StayCategories THEN Cardinality(Open(k, w))
                        ELSE Total(Capacity, Open(k, w))
  BY DEF UnitsFree, Open, Total
<1>2. UnitsFree(k, w)' = IF k \in StayCategories THEN Cardinality(Open(k, w)')
                         ELSE Total(Capacity, Open(k, w)')
  BY DEF UnitsFree, Open, Total, MapThenSumSet, MapThenFoldSet
<1>. QED
  BY <1>1, <1>2

LEMMA DaysNat == Days \subseteq Nat
  BY OfferAssumption DEF Days

(* A night of a stay has at least the units the whole stay has.            *)
LEMMA NightUnits ==
    ASSUME TypeOK, NEW k \in Categories, NEW row \in Allocation, NEW d \in Nat,
           Overlaps(row, Night(d))
    PROVE  /\ UnitsFree(k, row) \in Nat /\ UnitsFree(k, Night(d)) \in Nat
           /\ UnitsFree(k, row) <= UnitsFree(k, Night(d))
<1>. DEFINE open(w) == Open(k, w)
<1>1. open(row) \subseteq open(Night(d))
  <2>. SUFFICES ASSUME NEW x, BlockedDuring({x}, Night(d))
                PROVE  BlockedDuring({x}, row)
    BY DEF Open
  <2>1. PICK b \in blocks : b.resource \in {x} /\ Overlaps(b, Night(d))
    BY DEF BlockedDuring
  <2>2. b.from \in Nat /\ b.to \in Nat /\ row.from \in Nat /\ row.to \in Nat
    BY DEF TypeOK, Block, Allocation
  <2>3. Overlaps(b, row)
    BY <2>1, <2>2 DEF Overlaps, Night
  <2>. QED
    BY <2>1, <2>3 DEF BlockedDuring
<1>2. \A w : open(w) \subseteq Resources /\ IsFiniteSet(open(w))
  <2>1. \A w : open(w) \subseteq Resources
    BY DEF Open, InCategory
  <2>. QED
    BY <2>1, FiniteAssumption, FS_Subset
<1>3. /\ Cardinality(open(row)) \in Nat /\ Cardinality(open(Night(d))) \in Nat
      /\ Cardinality(open(row)) <= Cardinality(open(Night(d)))
  BY <1>1, <1>2, FS_Subset, FS_CardinalityType
<1>4. /\ Total(Capacity, open(row)) \in Nat /\ Total(Capacity, open(Night(d))) \in Nat
      /\ Total(Capacity, open(row)) <= Total(Capacity, open(Night(d)))
  <2>1. \A w : \A x \in open(w) : Capacity[x] \in Nat
    BY <1>2, CatalogAssumption
  <2>. HIDE DEF open
  <2>3. /\ Total(Capacity, open(row)) \in Nat
        /\ Total(Capacity, open(Night(d))) \in Nat
    BY <1>2, <2>1, TotalNat
  <2>4. Total(Capacity, open(row)) <= Total(Capacity, open(Night(d)))
    BY <1>1, <1>2, <2>1, TotalSubset
  <2>. QED
    BY <2>3, <2>4
<1>5. \A w : UnitsFree(k, w) = IF k \in StayCategories THEN Cardinality(open(w))
                               ELSE Total(Capacity, open(w))
  BY UnitsTotal
<1>. HIDE DEF open
<1>. QED
  BY <1>3, <1>4, <1>5

(* A check that counted every other row of a day finds that it fits: if    *)
(* row a was free in tables al, and the others sold on d are rows the      *)
(* check counted, then what is sold of a's category on d fits.             *)
LEMMA CheckFits ==
    ASSUME TypeOK, TypeOK', Categorized', blocks' = blocks,
           NEW k \in Categories, NEW d \in Days,
           NEW a \in SoldOn(d)', alloc'[a].category = k,
           NEW al \in [Rows -> Allocation], NEW rs,
           Available(a, al, rs), Same(al[a], alloc'[a]),
           \A b \in SoldOn(d)' \ {a} :
               Reserves(al[b], al[a].reservation, rs) /\ Same(al[b], alloc'[b])
    PROVE  Fits(k, d)'
<1>. DEFINE S == SoldOn(d)'
            K == SoldOf(k, d)'
            R == Rivals(a, al, rs)
            I == {b \in R : al[b].category = k}
<1>1. /\ S \subseteq Rows /\ a \in Rows /\ d \in Nat
      /\ K = {b \in S : alloc'[b].category = k}
      /\ \A b \in S : Overlaps(alloc'[b], Night(d))
  BY DaysNat DEF SoldOn, SoldOf
<1>2. al[a].category = k /\ k # None /\ Overlaps(al[a], Night(d))
  BY <1>1, CatalogAssumption DEF Same, Overlaps
<1>3. CategoryFree(a, al, rs)
  BY <1>2 DEF Available
<1>4. S \ {a} \subseteq R
  <2>. SUFFICES ASSUME NEW b \in S \ {a}
                PROVE  b \in Rows \ {a} /\ Overlaps(al[b], al[a])
    BY DEF Rivals
  <2>1. /\ al[b].from = alloc'[b].from /\ al[b].to = alloc'[b].to
        /\ al[b].from \in Nat /\ al[b].to \in Nat
        /\ al[a].from \in Nat /\ al[a].to \in Nat
    BY <1>1 DEF Same, Allocation
  <2>. QED
    BY <1>1, <1>2, <2>1 DEF Overlaps, Night
<1>5. CASE k \in BuyoutCategories
  <2>1. S = {a}
    BY <1>2, <1>3, <1>4, <1>5 DEF CategoryFree
  <2>. HIDE DEF S
  <2>2. Cardinality(S) = 1
    BY <2>1, FS_Singleton
  <2>3. (Cardinality(SoldOn(d)) = 1)'
    BY <2>2 DEF S
  <2>. QED
    BY <1>5, <2>3 DEF Fits, BuyoutCategories
<1>6. CASE k \notin BuyoutCategories
  <2>1. \A b \in S : alloc'[b].category \notin BuyoutCategories
    <3>. SUFFICES ASSUME NEW b \in S \ {a}
                  PROVE  alloc'[b].category \notin BuyoutCategories
      BY <1>6
    <3>1. /\ alloc'[b].resource \notin Buyouts
          /\ alloc'[b].resource = None => alloc'[b].category \notin BuyoutCategories
      BY <1>2, <1>3, <1>4, <1>6 DEF CategoryFree, Same
    <3>2. alloc'[b].resource \in Resources \cup {None} /\ b \in Rows
      BY <1>1 DEF TypeOK, Allocation
    <3>3. alloc'[b].resource # None => alloc'[b].category = CategoryOf[alloc'[b].resource]
      BY <3>2 DEF Categorized
    <3>. QED
      BY <3>1, <3>2, <3>3, SeparateAssumption, CatalogAssumption DEF BuyoutCategories
  <2>2. /\ I \subseteq Rows \ {a} /\ K \subseteq I \cup {a} /\ I \cup {a} \subseteq Rows
        /\ \A b \in K : al[b].quantity = alloc'[b].quantity
    BY <1>1, <1>2, <1>4 DEF Rivals, Same
  <2>3. MapThenSumSet(LAMBDA b : al[b].quantity, I) + al[a].quantity <= UnitsFree(k, al[a])
    BY <1>2, <1>3, <1>6 DEF CategoryFree
  <2>4. \A b \in Rows : al[b].quantity \in Nat /\ Quantity(al)[b] = al[b].quantity
                        /\ Quantity(alloc')[b] = alloc'[b].quantity
    BY DEF Allocation, Quantity
  <2>. HIDE DEF I, K, S, R
  <2>5. IsFiniteSet(K) /\ IsFiniteSet(I) /\ IsFiniteSet(I \cup {a})
    BY <2>2, FiniteAssumption, FS_Subset
  <2>6. MapThenSumSet(LAMBDA b : al[b].quantity, I) = Total(Quantity(al), I)
    BY <2>2, QuantityTotal
  <2>8. Total(Quantity(alloc'), K) = Total(Quantity(al), K)
    BY <2>2, <2>4, <2>5, TotalSame
  <2>9. Total(Quantity(al), K) <= Total(Quantity(al), I \cup {a})
    BY <1>1, <2>2, <2>4, <2>5, TotalSubset
  <2>10. Total(Quantity(al), I \cup {a}) = al[a].quantity + Total(Quantity(al), I)
    <3>1. (I \cup {a}) \ {a} = I
      BY <2>2
    <3>2. Total(Quantity(al), I \cup {a})
              = Quantity(al)[a] + Total(Quantity(al), (I \cup {a}) \ {a})
      BY <2>2, <2>4, <2>5, TotalTakes
    <3>. QED
      BY <1>1, <2>4, <3>1, <3>2
  <2>11. /\ Total(Quantity(al), K) \in Nat /\ Total(Quantity(al), I) \in Nat
         /\ Total(Quantity(al), I \cup {a}) \in Nat /\ al[a].quantity \in Nat
    BY <1>1, <2>2, <2>4, <2>5, TotalNat
  <2>12. /\ UnitsFree(k, al[a]) \in Nat /\ UnitsFree(k, Night(d)) \in Nat
         /\ UnitsFree(k, al[a]) <= UnitsFree(k, Night(d))
    BY <1>1, <1>2, NightUnits
  <2>13. Total(Quantity(alloc'), K) <= UnitsFree(k, Night(d))
    BY <2>3, <2>6, <2>8, <2>9, <2>10, <2>11, <2>12
  <2>14. UnitsFree(k, Night(d))' = UnitsFree(k, Night(d))
    <3>1. Open(k, Night(d))' = Open(k, Night(d))
      BY DEF Open, BlockedDuring, InCategory, Night
    <3>. QED
      BY <3>1, UnitsTotal
  <2>15. (Sold(k, d) <= UnitsFree(k, Night(d)))'
    BY <2>13, <2>14, SoldTotal DEF K
  <2>16. (\A b \in SoldOn(d) : alloc[b].category \notin BuyoutCategories)'
    BY <2>1 DEF S
  <2>17. (k \notin BuyoutCategories)'
    BY <1>6 DEF BuyoutCategories
  <2>. QED
    BY <2>15, <2>16, <2>17 DEF Fits
<1>. QED
  BY <1>5, <1>6

-----------------------------------------------------------------------------
(* Nothing is sold when every row that sells did so before, and the same.  *)
LEMMA NoSale ==
    ASSUME TypeOK, TypeOK',
           \A a \in Rows :
               Sells(alloc'[a], res') => Sells(alloc[a], res) /\ Same(alloc[a], alloc'[a])
    PROVE  SaleFits
<1>. SUFFICES ASSUME NEW k \in Categories, NEW d \in Days, Sale(k, d)
              PROVE  FALSE
  BY DEF SaleFits
<1>1. PICK a \in SoldOf(k, d)' :
          a \in SoldOf(k, d) => alloc'[a].quantity > alloc[a].quantity
  BY DEF Sale
<1>2. /\ a \in Rows /\ Sells(alloc'[a], res') /\ Overlaps(alloc'[a], Night(d))
      /\ alloc'[a].category = k
  BY DEF SoldOf, SoldOn, Night
<1>3. Sells(alloc[a], res) /\ Same(alloc[a], alloc'[a])
  BY <1>2
<1>4. a \in SoldOf(k, d)
  BY <1>2, <1>3 DEF SoldOf, SoldOn, Same, Overlaps
<1>5. alloc[a].quantity \in Nat /\ alloc'[a].quantity = alloc[a].quantity
  BY <1>2, <1>3 DEF Same, TypeOK, Allocation
<1>. QED
  BY <1>1, <1>4, <1>5

(* A row that sells has an owner, whose state another reservation's step   *)
(* leaves as it is.                                                        *)
LEMMA SellsAlike ==
    ASSUME TypeOK, Owned, NEW r \in Reservations, res' \in [Reservations -> Reservation],
           \A s \in Reservations \ {r} : res'[s] = res[s],
           NEW a \in Rows, alloc[a].reservation # r, Sells(alloc[a], res')
    PROVE  Sells(alloc[a], res)
<1>1. alloc[a].reservation \in Reservations
  BY Owner DEF Sells
<1>. QED
  BY <1>1 DEF Sells, LiveHold

(* One row is written, and if it sells, a row like it passed the check     *)
(* against all that sell beside it.                                        *)
LEMMA WriteSale ==
    ASSUME TypeOK, TypeOK', Categorized', blocks' = blocks,
           NEW a \in Rows, NEW asked \in Allocation, NEW rs,
           \A b \in Rows \ {a} : alloc'[b] = alloc[b],
           Sells(alloc'[a], res') =>
               Same(asked, alloc'[a]) /\ Available(a, [alloc EXCEPT ![a] = asked], rs),
           \A b \in Rows \ {a} :
               Sells(alloc[b], res') => Sells(alloc[b], res) /\ Sells(alloc[b], rs)
    PROVE  SaleFits
<1>. DEFINE al == [alloc EXCEPT ![a] = asked]
<1>1. /\ al \in [Rows -> Allocation] /\ al[a] = asked
      /\ \A b \in Rows \ {a} : al[b] = alloc[b]
  BY DEF TypeOK
<1>2. CASE ~Sells(alloc'[a], res')
  <2>1. \A b \in Rows : Sells(alloc'[b], res') => Sells(alloc[b], res) /\ Same(alloc[b], alloc'[b])
    BY <1>2 DEF Same
  <2>. QED
    BY <2>1, NoSale
<1>3. CASE Sells(alloc'[a], res')
  <2>1. Available(a, al, rs) /\ Same(al[a], alloc'[a])
    BY <1>1, <1>3
  <2>. HIDE DEF al
  <2>. SUFFICES ASSUME NEW k \in Categories, NEW d \in Days, Sale(k, d)
                PROVE  Fits(k, d)'
    BY DEF SaleFits
  <2>2. \A b \in SoldOn(d)' : b \in Rows /\ Sells(alloc'[b], res')
    BY DEF SoldOn
  <2>3. \A b \in SoldOn(d)' \ {a} :
            Reserves(al[b], al[a].reservation, rs) /\ Same(al[b], alloc'[b])
    BY <1>1, <2>2 DEF Same, Sells, Reserves
  <2>4. a \in SoldOn(d)' /\ alloc'[a].category = k
    <3>1. PICK b \in SoldOf(k, d)' :
              b \in SoldOf(k, d) => alloc'[b].quantity > alloc[b].quantity
      BY DEF Sale
    <3>2. b \in SoldOn(d)' /\ alloc'[b].category = k /\ Overlaps(alloc'[b], Night(d)) /\ b \in Rows
      BY DEF SoldOf, SoldOn, Night
    <3>3. CASE b # a
      <4>1. b \in SoldOf(k, d) /\ alloc'[b] = alloc[b] /\ alloc[b].quantity \in Nat
        BY <2>2, <3>2, <3>3 DEF SoldOf, SoldOn, TypeOK, Allocation
      <4>. QED
        BY <3>1, <4>1
    <3>. QED
      BY <3>2, <3>3
  <2>. QED
    BY <1>1, <2>1, <2>3, <2>4, CheckFits
<1>. QED
  BY <1>2, <1>3

-----------------------------------------------------------------------------
(* A row with a resource stays of the resource's category.                 *)

LEMMA OneRowCategorized ==
    ASSUME TypeOK, Categorized, NEW a \in Rows, NEW row,
           alloc' = [alloc EXCEPT ![a] = row],
           row.resource # None => row.category = CategoryOf[row.resource]
    PROVE  Categorized'
  BY DEF TypeOK, Categorized

LEMMA SavedCategorized ==
    ASSUME NEW row \in Allocation
    PROVE  Saved(row).resource # None =>
               Saved(row).category = CategoryOf[Saved(row).resource]
  BY DEF Saved, Allocation

LEMMA RowsCategorized ==
    ASSUME TypeOK, Categorized, NEW as \in SUBSET Rows,
           \/ alloc' = alloc \/ alloc' = ReleaseRows(as)
           \/ \E status \in AllocationStatuses : alloc' = WithStatus(as, status)
    PROVE  Categorized'
<1>1. CASE alloc' = alloc
  BY <1>1 DEF Categorized
<1>2. CASE alloc' = ReleaseRows(as)
  <2>. SUFFICES ASSUME NEW a \in Rows, alloc'[a].resource # None
                PROVE  alloc'[a] = alloc[a]
    BY DEF Categorized
  <2>. QED
    BY <1>2, ReleasedRows
<1>3. ASSUME NEW status \in AllocationStatuses, alloc' = WithStatus(as, status)
      PROVE  Categorized'
  <2>. SUFFICES ASSUME NEW a \in Rows
                PROVE  /\ alloc'[a].resource = alloc[a].resource
                       /\ alloc'[a].category = alloc[a].category
    BY DEF Categorized
  <2>. QED
    BY <1>3 DEF WithStatus, TypeOK, Allocation
<1>. QED
  BY <1>1, <1>2, <1>3

LEMMA WrittenCategorized ==
    ASSUME TypeOK, Categorized, NEW r \in Reservations, NEW a \in Rows, NEW t \in Targets,
           NEW i \in Intervals, NEW q \in Nat, NEW status \in {"tentative", "confirmed"},
           alloc' = [alloc EXCEPT ![a] = Saved(RowFor(r, t.category, t.resource, i, q, status))]
    PROVE  Categorized'
<1>1. RowFor(r, t.category, t.resource, i, q, status) \in Allocation
  BY NewRow
<1>. QED
  BY <1>1, SavedCategorized, OneRowCategorized

LEMMA ReplacementCategory ==
    ASSUME NEW r \in Reservations, NEW row \in Allocation, NEW x \in Resources
    PROVE  LET new == Replacement(r, row, x)
           IN  new.resource = x /\ new.category = CategoryOf[x] /\ new.quantity = row.quantity
  BY DEF Replacement, Allocation

LEMMA OfReservationCategorized ==
    ASSUME TypeOK, Categorized, NEW r \in Reservations, OfReservation(r)
    PROVE  Categorized'
<1>1. RowsOf(r) \in SUBSET Rows /\ {a \in RowsOf(r) : alloc[a].status = "tentative"} \in SUBSET Rows
  BY DEF RowsOf
<1>2. \/ alloc' = alloc \/ \E as \in SUBSET Rows : alloc' = ReleaseRows(as)
      \/ \E as \in SUBSET Rows, status \in AllocationStatuses : alloc' = WithStatus(as, status)
  BY <1>1 DEF OfReservation, Lapse, PlaceHold, BackToDraft, Confirm, CheckIn, CheckOut,
              ExpireHold, Close, AllocationStatuses
<1>. QED
  BY <1>2, RowsCategorized

LEMMA OfAllocationCategorized ==
    ASSUME TypeOK, Categorized, NEW r \in Reservations, NEW a \in Rows, OfAllocation(r, a)
    PROVE  Categorized'
<1>1. ASSUME NEW t \in Targets, NEW i \in Intervals, CommitQuote(r, a, t, i) \/ Amend(r, a, t, i)
      PROVE  Categorized'
  BY <1>1, WrittenCategorized DEF CommitQuote, Amend
<1>2. ASSUME NEW t \in Targets, NEW i \in Intervals, NEW q \in Quantities,
             Create(r, a, t, i, q) \/ Update(r, a, t, i, q)
      PROVE  Categorized'
  BY <1>2, WrittenCategorized, OfferAssumption DEF Create, Update
<1>3. CASE Release(r, a)
  BY <1>3, RowsCategorized DEF Release
<1>4. ASSUME NEW x \in Resources, Reallocate(r, a, x)
      PROVE  Categorized'
  <2>. DEFINE row == Replacement(r, alloc[a], x)
  <2>1. alloc[a] \in Allocation
    BY DEF TypeOK
  <2>2. alloc' = [alloc EXCEPT ![a] = row]
    BY <1>4 DEF Reallocate
  <2>3. row.resource = x /\ row.category = CategoryOf[x]
    BY <2>1, ReplacementCategory
  <2>. HIDE DEF row
  <2>. QED
    BY <2>2, <2>3, OneRowCategorized
<1>5. ASSUME NEW s \in Reservations, NEW b \in Rows, Swap(r, a, s, b)
      PROVE  Categorized'
  <2>. DEFINE x == alloc[b].resource
              y == alloc[a].resource
              rowA == Replacement(r, alloc[a], x)
              rowB == Replacement(s, alloc[b], y)
  <2>1. alloc[a] \in Allocation /\ alloc[b] \in Allocation /\ x \in Resources /\ y \in Resources
    BY <1>5 DEF Swap, TypeOK, Allocation
  <2>2. alloc' = [ReleaseRows({b}) EXCEPT ![a] = rowA, ![b] = rowB]
    BY <1>5 DEF Swap
  <2>. HIDE DEF x, y
  <2>3. /\ rowA.resource = x /\ rowA.category = CategoryOf[x]
        /\ rowB.resource = y /\ rowB.category = CategoryOf[y]
    BY <2>1, ReplacementCategory
  <2>. HIDE DEF rowA, rowB
  <2>4. /\ ReleaseRows({b}) \in [Rows -> Allocation]
        /\ \A c \in Rows \ {b} : ReleaseRows({b})[c] = alloc[c]
    <3>1. {b} \in SUBSET Rows
      OBVIOUS
    <3>. QED
      BY <3>1, ReleasedRows
  <2>. QED
    BY <2>2, <2>3, <2>4 DEF Categorized
<1>. QED
  BY <1>1, <1>2, <1>3, <1>4, <1>5 DEF OfAllocation

LEMMA StepCategorized == TypeOK /\ Categorized /\ [Next]_vars => Categorized'
<1>. SUFFICES ASSUME TypeOK, Categorized, [Next]_vars PROVE Categorized'
  OBVIOUS
<1>1. CASE alloc' = alloc
  BY <1>1, RowsCategorized
<1>. QED
  BY <1>1, OfReservationCategorized, OfAllocationCategorized
  DEF Next, AddBlock, EditBlock, RemoveBlock, vars

-----------------------------------------------------------------------------
(* Each step sells only what fits.                                         *)

(* A reservation moves to where its tentative rows do not sell, or rows    *)
(* are given back.                                                         *)
LEMMA MoveSale ==
    ASSUME TypeOK, TypeOK', Owned, NEW r \in Reservations, NEW as \in SUBSET Rows,
           alloc' = alloc \/ alloc' = ReleaseRows(as),
           \A s \in Reservations \ {r} : res'[s] = res[s],
           ~LiveHold(res', r) \/ res' = res
    PROVE  SaleFits
<1>. SUFFICES ASSUME NEW a \in Rows, Sells(alloc'[a], res')
              PROVE  Sells(alloc[a], res) /\ alloc'[a] = alloc[a]
  BY NoSale DEF Same
<1>1. alloc'[a] = alloc[a]
  BY ReleasedRows DEF Sells
<1>2. CASE alloc[a].reservation = r
  BY <1>1, <1>2 DEF Sells
<1>3. CASE alloc[a].reservation # r
  BY <1>1, <1>3, SellsAlike DEF TypeOK
<1>. QED
  BY <1>1, <1>2, <1>3

(* Every row of the reservation passed the check before any of them sells. *)
LEMMA CheckedMoveSale ==
    ASSUME TypeOK, TypeOK', Owned, Categorized', NEW r \in Reservations,
           PlaceHold(r) \/ Confirm(r)
    PROVE  SaleFits
<1>1. PICK status \in {"hold", "confirmed"}, to \in {"tentative", "confirmed"} :
          res' = Moved(r, status) /\ alloc' = WithStatus(RowsOf(r), to)
  BY DEF PlaceHold, Confirm
<1>2. /\ RowsOf(r) \in SUBSET Rows /\ blocks' = blocks
      /\ \A a \in RowsOf(r) : Available(a, alloc, res)
  BY DEF PlaceHold, Confirm, RowsOf
<1>3. /\ res' \in [Reservations -> Reservation]
      /\ \A s \in Reservations \ {r} : res'[s] = res[s]
  BY <1>1, MovedRes DEF ReservationStatuses
<1>4. \A a \in Rows : Same(alloc[a], alloc'[a])
  BY <1>1 DEF WithStatus, Same, TypeOK, Allocation
<1>5. \A a \in Rows \ RowsOf(r) : alloc'[a] = alloc[a]
  BY <1>1, <1>2, StatusRows DEF AllocationStatuses
<1>6. \A a \in RowsOf(r) : alloc[a].reservation = r /\ Unreleased(alloc[a])
  BY DEF RowsOf
<1>7. ASSUME NEW a \in Rows \ RowsOf(r), Sells(alloc'[a], res')
      PROVE  Sells(alloc[a], res) /\ alloc[a].reservation # r
  <2>1. Unreleased(alloc[a]) /\ alloc'[a] = alloc[a]
    BY <1>5, <1>7 DEF Sells, Unreleased
  <2>2. alloc[a].reservation # r
    BY <2>1 DEF RowsOf
  <2>. QED
    BY <1>3, <1>7, <2>1, <2>2, SellsAlike
<1>. SUFFICES ASSUME NEW k \in Categories, NEW d \in Days, Sale(k, d)
              PROVE  Fits(k, d)'
  BY DEF SaleFits
<1>8. PICK a \in SoldOf(k, d)' :
          a \in SoldOf(k, d) => alloc'[a].quantity > alloc[a].quantity
  BY DEF Sale
<1>9. /\ a \in SoldOn(d)' /\ a \in Rows /\ Sells(alloc'[a], res')
      /\ alloc'[a].category = k /\ Overlaps(alloc'[a], Night(d))
  BY DEF SoldOf, SoldOn, Night
<1>10. a \in RowsOf(r)
  <2>1. alloc[a].quantity \in Nat /\ alloc'[a].quantity = alloc[a].quantity
    BY <1>4, <1>9 DEF Same, TypeOK, Allocation
  <2>2. ~Sells(alloc[a], res)
    BY <1>4, <1>8, <1>9, <2>1 DEF SoldOf, SoldOn, Same, Overlaps
  <2>. QED
    BY <1>7, <1>9, <2>2
<1>11. ASSUME NEW b \in SoldOn(d)' \ {a}
       PROVE  Reserves(alloc[b], alloc[a].reservation, res) /\ Same(alloc[b], alloc'[b])
  <2>1. b \in Rows /\ Sells(alloc'[b], res')
    BY DEF SoldOn
  <2>2. CASE b \in RowsOf(r)
    BY <1>4, <1>6, <1>10, <2>1, <2>2 DEF Reserves, Unreleased
  <2>3. CASE b \notin RowsOf(r)
    BY <1>4, <1>7, <2>1, <2>3 DEF Reserves, Sells
  <2>. QED
    BY <2>2, <2>3
<1>12. alloc \in [Rows -> Allocation]
  BY DEF TypeOK
<1>13. Available(a, alloc, res) /\ Same(alloc[a], alloc'[a])
  BY <1>2, <1>4, <1>9, <1>10
<1>. QED
  BY <1>2, <1>9, <1>11, <1>12, <1>13, CheckFits

LEMMA OfReservationSale ==
    ASSUME TypeOK, TypeOK', Owned, Categorized', NEW r \in Reservations, OfReservation(r)
    PROVE  SaleFits
<1>1. CASE PlaceHold(r) \/ Confirm(r)
  BY <1>1, CheckedMoveSale
<1>2. CASE Lapse(r)
  BY <1>2, MoveSale DEF Lapse, LiveHold, TypeOK, Reservation
<1>3. ASSUME NEW status \in ReservationStatuses \ {"hold"}, NEW as \in SUBSET Rows,
             res' = Moved(r, status), alloc' = alloc \/ alloc' = ReleaseRows(as)
      PROVE  SaleFits
  <2>1. /\ \A s \in Reservations \ {r} : res'[s] = res[s]
        /\ ~LiveHold(res', r)
    BY <1>3, MovedRes DEF LiveHold
  <2>. QED
    BY <1>3, <2>1, MoveSale
<1>4. RowsOf(r) \in SUBSET Rows /\ {a \in RowsOf(r) : alloc[a].status = "tentative"} \in SUBSET Rows
  BY DEF RowsOf
<1>5. CASE BackToDraft(r) \/ CheckIn(r) \/ CheckOut(r)
  BY <1>3, <1>4, <1>5 DEF BackToDraft, CheckIn, CheckOut, ReservationStatuses
<1>6. CASE ExpireHold(r)
  BY <1>3, <1>4, <1>6 DEF ExpireHold, ReservationStatuses
<1>7. ASSUME NEW target \in {"cancelled", "no_show"}, Close(r, target)
      PROVE  SaleFits
  BY <1>3, <1>4, <1>7 DEF Close, ReservationStatuses
<1>. QED
  BY <1>1, <1>2, <1>5, <1>6, <1>7 DEF OfReservation

LEMMA Unseen == UncheckedSale => SaleFits
  BY DEF SaleFits

LEMMA CreateSale ==
    ASSUME TypeOK, TypeOK', Categorized', NEW r \in Reservations, NEW a \in Rows,
           NEW t \in Targets, NEW i \in Intervals, NEW q \in Quantities, Create(r, a, t, i, q)
    PROVE  SaleFits
<1>. DEFINE status == IF res[r].status \in {"confirmed", "checked_in"}
                      THEN "confirmed" ELSE "tentative"
            row == Saved(RowFor(r, t.category, t.resource, i, q, status))
<1>1. q \in Nat
  BY OfferAssumption
<1>2. row \in Allocation /\ row.reservation = r /\ row.status = status
  BY <1>1, NewRow, SavedRow
<1>3. /\ alloc' = [alloc EXCEPT ![a] = row] /\ res' = res /\ blocks' = blocks
      /\ ReservesCapacity(r) => Available(a, [alloc EXCEPT ![a] = row], res)
  BY DEF Create
<1>. HIDE DEF row
<1>4. alloc'[a] = row /\ \A b \in Rows \ {a} : alloc'[b] = alloc[b]
  BY <1>3 DEF TypeOK
<1>5. CASE InHouse(r)
  BY <1>5, Unseen DEF UncheckedSale
<1>6. CASE ~InHouse(r)
  <2>1. Sells(row, res) => ReservesCapacity(r)
    BY <1>2, <1>6 DEF Sells, InHouse, ReservesCapacity
  <2>. QED
    BY <1>2, <1>3, <1>4, <2>1, WriteSale DEF Same
<1>. QED
  BY <1>5, <1>6

LEMMA UpdateSale ==
    ASSUME TypeOK, TypeOK', Categorized', NEW r \in Reservations, NEW a \in Rows,
           NEW t \in Targets, NEW i \in Intervals, NEW q \in Quantities, Update(r, a, t, i, q)
    PROVE  SaleFits
<1>. DEFINE status == IF res[r].status = "confirmed" THEN "confirmed" ELSE "tentative"
            asked == RowFor(r, t.category, t.resource, i, q, status)
            row == Saved(asked)
<1>1. q \in Nat
  BY OfferAssumption
<1>2. asked \in Allocation
  BY <1>1, NewRow
<1>3. row \in Allocation /\ row.reservation = r /\ row.status = status
  BY <1>1, NewRow, SavedRow
<1>4. /\ alloc' = [alloc EXCEPT ![a] = row] /\ res' = res /\ blocks' = blocks
      /\ ReservesCapacity(r) => Available(a, [alloc EXCEPT ![a] = asked], res)
  BY DEF Update
<1>5. CASE t.category = None
  BY <1>5, Unseen DEF UncheckedSale
<1>6. CASE t.category # None
  <2>1. asked.category = t.category /\ asked.resource = t.resource
    BY DEF RowFor
  <2>2. t.resource # None => CategoryOf[t.resource] = t.category
    BY <1>6 DEF Targets
  <2>3. Same(asked, row)
    BY <1>2, <2>1, <2>2 DEF Same, Saved, Allocation
  <2>. HIDE DEF row, asked
  <2>4. alloc'[a] = row /\ \A b \in Rows \ {a} : alloc'[b] = alloc[b]
    BY <1>4 DEF TypeOK
  <2>5. Sells(row, res) => ReservesCapacity(r)
    BY <1>3 DEF Sells, ReservesCapacity
  <2>. QED
    BY <1>2, <1>4, <2>3, <2>4, <2>5, WriteSale
<1>. QED
  BY <1>5, <1>6

LEMMA ReallocateSale ==
    ASSUME TypeOK, TypeOK', Categorized', NEW r \in Reservations, NEW a \in Rows,
           NEW x \in Resources, Reallocate(r, a, x)
    PROVE  SaleFits
<1>. DEFINE row == Replacement(r, alloc[a], x)
<1>1. row \in Allocation
  BY ReplacedRow DEF TypeOK
<1>2. /\ alloc' = [alloc EXCEPT ![a] = row] /\ res' = res /\ blocks' = blocks
      /\ Available(a, [alloc EXCEPT ![a] = row], res)
  BY DEF Reallocate
<1>. HIDE DEF row
<1>3. alloc'[a] = row /\ \A b \in Rows \ {a} : alloc'[b] = alloc[b]
  BY <1>2 DEF TypeOK
<1>. QED
  BY <1>1, <1>2, <1>3, WriteSale DEF Same

LEMMA AmendSale ==
    ASSUME TypeOK, TypeOK', Owned, Categorized', NEW r \in Reservations, NEW a \in Rows,
           NEW t \in Targets, NEW i \in Intervals, Amend(r, a, t, i)
    PROVE  SaleFits
<1>. DEFINE status == IF res[r].status = "confirmed" THEN "confirmed" ELSE "tentative"
            row == Saved(RowFor(r, t.category, t.resource, i, 1, status))
<1>1. row \in Allocation
  BY NewRow, SavedRow
<1>2. /\ alloc' = [alloc EXCEPT ![a] = row] /\ blocks' = blocks
      /\ res' = [res EXCEPT ![r].stay = i]
      /\ Available(a, [alloc EXCEPT ![a] = row], res)
  BY DEF Amend
<1>. HIDE DEF row
<1>3. alloc'[a] = row /\ \A b \in Rows \ {a} : alloc'[b] = alloc[b]
  BY <1>2 DEF TypeOK
<1>4. ASSUME NEW b \in Rows, Sells(alloc[b], res')
      PROVE  Sells(alloc[b], res)
  <2>1. alloc[b].reservation \in Reservations
    BY <1>4, Owner DEF Sells
  <2>2. \A s \in Reservations :
            res'[s].status = res[s].status /\ res'[s].lapsed = res[s].lapsed
    BY <1>2 DEF TypeOK, Reservation
  <2>. QED
    BY <1>4, <2>1, <2>2 DEF Sells, LiveHold
<1>. QED
  BY <1>1, <1>2, <1>3, <1>4, WriteSale DEF Same

LEMMA CommitQuoteSale ==
    ASSUME TypeOK, TypeOK', Owned, Categorized', NEW r \in Reservations, NEW a \in Rows,
           NEW t \in Targets, NEW i \in Intervals, CommitQuote(r, a, t, i)
    PROVE  SaleFits
<1>. DEFINE row == Saved(RowFor(r, t.category, t.resource, i, 1, "tentative"))
<1>1. row \in Allocation
  BY NewRow, SavedRow
<1>2. /\ alloc' = [alloc EXCEPT ![a] = row] /\ blocks' = blocks
      /\ res' = [res EXCEPT ![r] = [status |-> "hold", lapsed |-> FALSE, stay |-> i]]
      /\ res[r].status = "none" /\ Available(a, [alloc EXCEPT ![a] = row], res')
  BY DEF CommitQuote
<1>. HIDE DEF row
<1>3. alloc'[a] = row /\ \A b \in Rows \ {a} : alloc'[b] = alloc[b]
  BY <1>2 DEF TypeOK
<1>4. ASSUME NEW b \in Rows, Sells(alloc[b], res')
      PROVE  Sells(alloc[b], res)
  <2>1. alloc[b].reservation # r
    BY <1>2, <1>4, Owner DEF Sells
  <2>2. \A s \in Reservations \ {r} : res'[s] = res[s]
    BY <1>2 DEF TypeOK
  <2>. QED
    BY <1>4, <2>1, <2>2, SellsAlike DEF TypeOK
<1>5. PICK rs : rs = res'
  OBVIOUS
<1>6. \A b \in Rows \ {a} : Sells(alloc[b], res') => Sells(alloc[b], res) /\ Sells(alloc[b], rs)
  BY <1>4, <1>5
<1>7. Available(a, [alloc EXCEPT ![a] = row], rs) /\ Same(row, alloc'[a])
  BY <1>2, <1>3, <1>5 DEF Same
<1>. QED
  BY <1>1, <1>2, <1>3, <1>6, <1>7, WriteSale

(* A swap leaves the two rows on the nights they had, so the check of the  *)
(* second, with the first in place, speaks for both.                       *)
LEMMA SwapSale ==
    ASSUME TypeOK, TypeOK', Categorized, Categorized', NEW r \in Reservations, NEW a \in Rows,
           NEW s \in Reservations, NEW b \in Rows, Swap(r, a, s, b)
    PROVE  SaleFits
<1>. DEFINE x == alloc[b].resource
            y == alloc[a].resource
            rowA == Replacement(r, alloc[a], x)
            rowB == Replacement(s, alloc[b], y)
<1>1. /\ alloc[a] \in Allocation /\ alloc[b] \in Allocation /\ alloc[b].reservation = s
      /\ x \in Resources /\ y \in Resources /\ a # b
      /\ OperationallyActive(s) /\ CategoryOf[x] = alloc[a].category
      /\ alloc[a].from = alloc[b].from /\ alloc[a].to = alloc[b].to
  BY DEF Swap, RowsOf, TypeOK, Allocation
<1>2. y # None /\ CategoryOf[y] = CategoryOf[x]
  BY <1>1, CatalogAssumption DEF Categorized
<1>3. /\ alloc' = [ReleaseRows({b}) EXCEPT ![a] = rowA, ![b] = rowB]
      /\ Available(b, alloc', res) /\ res' = res /\ blocks' = blocks
  BY DEF Swap
<1>. HIDE DEF x, y
<1>4. /\ rowA.category = CategoryOf[x] /\ rowB.category = CategoryOf[x]
      /\ rowA.from = rowB.from /\ rowA.to = rowB.to
      /\ rowB.reservation = s
      /\ rowB.status = IF res[s].status = "hold" THEN "tentative" ELSE "confirmed"
  BY <1>1, <1>2 DEF Replacement, Allocation
<1>. HIDE DEF rowA, rowB
<1>5. /\ ReleaseRows({b}) \in [Rows -> Allocation]
      /\ \A c \in Rows \ {b} : ReleaseRows({b})[c] = alloc[c]
  <2>1. {b} \in SUBSET Rows
    OBVIOUS
  <2>. QED
    BY <2>1, ReleasedRows
<1>6. /\ alloc'[a] = rowA /\ alloc'[b] = rowB
      /\ \A c \in Rows \ {a, b} : alloc'[c] = alloc[c]
  BY <1>1, <1>3, <1>5
<1>7. Sells(alloc'[b], res')
  BY <1>1, <1>3, <1>4, <1>6 DEF Sells, OperationallyActive, LiveHold
<1>. SUFFICES ASSUME NEW k \in Categories, NEW d \in Days, Sale(k, d)
              PROVE  Fits(k, d)'
  BY DEF SaleFits
<1>8. PICK c \in SoldOf(k, d)' :
          c \in SoldOf(k, d) => alloc'[c].quantity > alloc[c].quantity
  BY DEF Sale
<1>9. /\ c \in Rows /\ Sells(alloc'[c], res') /\ alloc'[c].category = k
      /\ Overlaps(alloc'[c], Night(d))
  BY DEF SoldOf, SoldOn, Night
<1>10. c \in {a, b}
  <2>. SUFFICES ASSUME c \notin {a, b} PROVE FALSE
    OBVIOUS
  <2>1. alloc'[c] = alloc[c] /\ alloc[c].quantity \in Nat
    BY <1>6, <1>9 DEF TypeOK, Allocation
  <2>2. c \in SoldOf(k, d)
    BY <1>3, <1>9, <2>1 DEF SoldOf, SoldOn
  <2>. QED
    BY <1>8, <2>1, <2>2
<1>11. alloc'[b].category = k /\ Overlaps(alloc'[b], Night(d))
  BY <1>4, <1>6, <1>9, <1>10 DEF Overlaps
<1>12. b \in SoldOn(d)'
  BY <1>7, <1>11 DEF SoldOn, Night
<1>13. PICK al : al = alloc'
  OBVIOUS
<1>14. al \in [Rows -> Allocation] /\ Available(b, al, res) /\ Same(al[b], alloc'[b])
  BY <1>3, <1>13 DEF TypeOK, Same
<1>15. ASSUME NEW e \in SoldOn(d)' \ {b}
       PROVE  Reserves(al[e], al[b].reservation, res) /\ Same(al[e], alloc'[e])
  BY <1>3, <1>13 DEF SoldOn, Sells, Reserves, Same
<1>. QED
  BY <1>3, <1>11, <1>12, <1>14, <1>15, CheckFits

LEMMA OfAllocationSale ==
    ASSUME TypeOK, TypeOK', Owned, Categorized, Categorized', NEW r \in Reservations,
           NEW a \in Rows, OfAllocation(r, a)
    PROVE  SaleFits
<1>1. CASE Release(r, a)
  <2>1. {a} \in SUBSET Rows /\ alloc' = ReleaseRows({a}) /\ res' = res
    BY <1>1 DEF Release
  <2>. QED
    BY <2>1, MoveSale
<1>. QED
  BY <1>1, CommitQuoteSale, AmendSale, CreateSale, UpdateSale, ReallocateSale, SwapSale
  DEF OfAllocation

LEMMA StepSale ==
    TypeOK /\ TypeOK' /\ Owned /\ Categorized /\ Categorized' /\ [Next]_vars => SaleFits
<1>. SUFFICES ASSUME TypeOK, TypeOK', Owned, Categorized, Categorized', [Next]_vars
              PROVE  SaleFits
  OBVIOUS
<1>1. CASE alloc' = alloc /\ res' = res
  BY <1>1, NoSale DEF Same
<1>2. CASE \E r \in Reservations : OfReservation(r)
  BY <1>2, OfReservationSale
<1>3. CASE \E r \in Reservations, a \in Rows : OfAllocation(r, a)
  BY <1>3, OfAllocationSale
<1>. QED
  BY <1>1, <1>2, <1>3 DEF Next, AddBlock, EditBlock, RemoveBlock, vars

(* No step sells more of a category on a day than the day has, nor beside  *)
(* a buyout, for any stays and any quantities; only the two unchecked      *)
(* sales do (docs/architecture.md:52, AvailabilityService:131-268).        *)
THEOREM SalesAlwaysFit == Spec => SalesFit
<1>1. Init => Categorized
  BY DEF Init, Categorized, NoRow
<1>2. IInv /\ Categorized /\ [Next]_vars => Categorized'
  BY StepCategorized DEF IInv
<1>3. Spec => []Categorized
  BY <1>1, <1>2, Invariance, PTL DEF Spec
<1>4. IInv /\ IInv' /\ Categorized /\ Categorized' /\ [Next]_vars => SaleFits
  BY StepSale DEF IInv
<1>5. IInv /\ IInv' /\ Categorized /\ Categorized' /\ [Next]_vars
          => [\A k \in Categories, d \in Days :
                 Sale(k, d) => Fits(k, d)' \/ UncheckedSale]_vars
  BY <1>4 DEF SaleFits
<1>. QED
  BY <1>3, <1>5, Invariance, PTL DEF Spec, SalesFit
=============================================================================
