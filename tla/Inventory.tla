----------------------------- MODULE Inventory -----------------------------
(***************************************************************************)
(* The rooms, buyouts and pools of one property and the reservations that  *)
(* take them: AvailabilityService and every operation that creates, moves, *)
(* confirms or releases an allocation.                                     *)
(*                                                                         *)
(* An action is one transaction.  assertAvailable locks the property row   *)
(* until its transaction commits, so checks of one property are serial;    *)
(* the transactions that do not check commit in one step.  A hold's time   *)
(* is a choice of staff and settings: `lapsed' says hold_expires_at is in  *)
(* the past, and Lapse may come at any moment.  Service occurrences, price *)
(* and programs are left out: a reservation needs one stay place.          *)
(***************************************************************************)
EXTENDS Integers, FiniteSets, FiniteSetsExt

CONSTANTS
    Reservations,   \* reservation ids
    Rows,           \* allocation ids
    Resources,      \* active resources of the property
    Categories,     \* their categories
    CategoryOf,     \* resource -> category
    Buyouts,        \* resources with isBuyout()
    StayCategories, \* categories with counts_as_stay
    Capacity,       \* resource -> capacity
    Intervals,      \* stays on offer, [from |-> day, to |-> day]
    Quantities,     \* quantities staff ask for
    MaxBlocks,      \* bound: maintenance blocks at a time
    None            \* a NULL column

ASSUME CatalogAssumption ==
    /\ CategoryOf \in [Resources -> Categories]
    /\ Capacity \in [Resources -> Nat]
    /\ Buyouts \subseteq Resources /\ StayCategories \subseteq Categories
    /\ None \notin Resources /\ None \notin Categories /\ None \notin Reservations
(* Resource::saving: buyouts and ordinary places need separate categories. *)
ASSUME SeparateAssumption ==
    \A x, y \in Resources :
        CategoryOf[x] = CategoryOf[y] => (x \in Buyouts <=> y \in Buyouts)
ASSUME OfferAssumption ==
    /\ Intervals \subseteq [from: Nat, to: Nat]
    /\ \A i \in Intervals : i.from < i.to
    /\ Quantities \subseteq Nat \ {0} /\ MaxBlocks \in Nat
(* A table has finitely many rows.                                         *)
ASSUME FiniteAssumption == IsFiniteSet(Rows) /\ IsFiniteSet(Resources)

VARIABLES
    res,      \* reservations: status, whether a hold's time is over, and stay
    alloc,    \* allocations
    blocks    \* resource blocks

vars == <<res, alloc, blocks>>

ReservationStatuses == {"none", "draft", "hold", "confirmed", "checked_in",
                        "checked_out", "cancelled", "no_show"}
AllocationStatuses == {"none", "tentative", "confirmed", "released"}

Reservation == [status: ReservationStatuses, lapsed: BOOLEAN, stay: Intervals \cup {None}]
Allocation == [status: AllocationStatuses, reservation: Reservations \cup {None},
               category: Categories \cup {None}, resource: Resources \cup {None},
               from: Nat, to: Nat, quantity: Nat]
Block == [resource: Resources, from: Nat, to: Nat]

TypeOK ==
    /\ res \in [Reservations -> Reservation]
    /\ alloc \in [Rows -> Allocation]
    /\ blocks \subseteq Block

-----------------------------------------------------------------------------
(* Availability.  A row is looked at as the tables stood when the check    *)
(* ran, so the tables are parameters: al the allocations, rs reservations. *)

Overlaps(x, y) == x.from < y.to /\ x.to > y.from
BuyoutCategories == {CategoryOf[x] : x \in Buyouts}
Unreleased(row) == row.status \in {"tentative", "confirmed"}
LiveHold(rs, r) == rs[r].status = "hold" /\ ~rs[r].lapsed

(* Mutant: only confirmed rows count, a hold reserves nothing.             *)
BugReserves(row, asking, rs) ==
    \/ row.status = "confirmed"
    \/ row.status = "tentative" /\ row.reservation = asking

(* activeAllocationScope(): confirmed rows, rows of live holds, and the    *)
(* other tentative rows of the reservation that asks.                      *)
Reserves(row, asking, rs) ==
    \/ row.status = "confirmed"
    \/ /\ row.status = "tentative"
       /\ row.reservation = asking \/ LiveHold(rs, row.reservation)

(* The other rows that count against allocation a.                         *)
Rivals(a, al, rs) ==
    {b \in Rows \ {a} : Reserves(al[b], al[a].reservation, rs) /\ Overlaps(al[b], al[a])}

BlockedDuring(xs, row) == \E k \in blocks : k.resource \in xs /\ Overlaps(k, row)

(* The buyouts of the property, and for a buyout everything in it.  The    *)
(* code pushes the resource onto its list of buyouts, so a second row on   *)
(* an ordinary resource is refused as a buyout conflict, pools included.   *)
ConflictingResources(x) == IF x \in Buyouts THEN Resources ELSE Buyouts \cup {x}

(* Mutant: a resource branch that only looks for other guests in the room. *)
BugResourceFree(a, al, rs) ==
    LET x == al[a].resource
    IN  /\ ~BlockedDuring({x}, al[a])
        /\ \A b \in Rivals(a, al, rs) : al[b].resource # x

(* The resource branch of assertAvailable().                               *)
ResourceFree(a, al, rs) ==
    LET x == al[a].resource
        rivals == Rivals(a, al, rs)
    IN  /\ ~BlockedDuring(ConflictingResources(x), al[a])
        /\ \A b \in rivals : al[b].resource \notin ConflictingResources(x)
        /\ x \in Buyouts => \A b \in rivals : al[b].resource # None
        /\ CategoryOf[x] \notin StayCategories => al[a].quantity <= Capacity[x]

InCategory(k) == {x \in Resources : CategoryOf[x] = k}

UnitsFree(k, row) ==
    LET open == {x \in InCategory(k) : ~BlockedDuring({x}, row)}
    IN  IF k \in StayCategories THEN Cardinality(open)
        ELSE MapThenSumSet(LAMBDA x : Capacity[x], open)

(* Mutant: the asking row itself is not added to what is reserved.         *)
BugCategoryFree(a, al, rs) ==
    LET k == al[a].category
        rivals == Rivals(a, al, rs)
        inside == {b \in rivals : al[b].category = k}
    IN  /\ InCategory(k) # {}
        /\ k \in BuyoutCategories => rivals = {} /\ ~BlockedDuring(Resources, al[a])
        /\ MapThenSumSet(LAMBDA b : al[b].quantity, inside) <= UnitsFree(k, al[a])

(* assertCategoryCapacity() and, for a buyout, assertExclusiveCategory...  *)
CategoryFree(a, al, rs) ==
    LET k == al[a].category
        rivals == Rivals(a, al, rs)
        inside == {b \in rivals : al[b].category = k}
    IN  /\ InCategory(k) # {}
        /\ IF k \in BuyoutCategories
           THEN /\ al[a].quantity = 1
                /\ ~BlockedDuring(Resources, al[a])
                /\ rivals = {}
           ELSE /\ ~BlockedDuring(Buyouts, al[a])
                /\ \A b \in rivals : /\ al[b].resource \notin Buyouts
                                     /\ al[b].resource = None =>
                                            al[b].category \notin BuyoutCategories
                /\ MapThenSumSet(LAMBDA b : al[b].quantity, inside) + al[a].quantity
                       <= UnitsFree(k, al[a])

(* assertAvailable() on row a of al.                                       *)
Available(a, al, rs) ==
    /\ al[a].from < al[a].to
    /\ al[a].resource # None => ResourceFree(a, al, rs)
    /\ al[a].category # None => CategoryFree(a, al, rs)

-----------------------------------------------------------------------------
(* Rows and reservations.                                                  *)

NoRow == [status |-> "none", reservation |-> None, category |-> None,
          resource |-> None, from |-> 0, to |-> 0, quantity |-> 0]

(* A released row is read again by update() only, which is given all the   *)
(* columns anew; of its old values only the reservation matters.           *)
Released(row) == [NoRow EXCEPT !.status = "released", !.reservation = row.reservation]

RowFor(r, k, x, i, q, status) ==
    [status |-> status, reservation |-> r, category |-> k, resource |-> x,
     from |-> i.from, to |-> i.to, quantity |-> q]

(* Mutant: the category column is given the resource's id.                 *)
BugSaved(row) ==
    IF row.resource = None THEN row ELSE [row EXCEPT !.category = row.resource]

(* Allocation::saving: a row with a resource is of the resource's category. *)
Saved(row) ==
    IF row.resource = None THEN row
    ELSE [row EXCEPT !.category = CategoryOf[row.resource]]

RowsOf(r) == {a \in Rows : alloc[a].reservation = r /\ Unreleased(alloc[a])}

(* Ids a new row may take: unused ones, or those of released rows, which   *)
(* the model forgets to stay finite.                                       *)
FreeRows == {a \in Rows : ~Unreleased(alloc[a])}

ReleaseRows(as) == [a \in Rows |-> IF a \in as THEN Released(alloc[a]) ELSE alloc[a]]
WithStatus(as, s) == [a \in Rows |-> IF a \in as THEN [alloc[a] EXCEPT !.status = s]
                                     ELSE alloc[a]]

(* A target is a category, a resource, or a resource and its own category. *)
Targets ==
    {t \in [category: Categories \cup {None}, resource: Resources \cup {None}] :
        /\ t.category # None \/ t.resource # None
        /\ t.category # None /\ t.resource # None =>
               CategoryOf[t.resource] = t.category}

(* assertSatisfied() without a program: one stay place for the whole stay. *)
StaySatisfied(r) ==
    \E a \in RowsOf(r) :
        /\ alloc[a].category \in StayCategories
        /\ alloc[a].from <= res[r].stay.from /\ alloc[a].to >= res[r].stay.to

OperationallyActive(r) ==
    res[r].status \in {"confirmed", "checked_in"} \/ LiveHold(res, r)

(* Whether a change to a row of r is checked at all.                       *)
ReservesCapacity(r) == res[r].status = "confirmed" \/ LiveHold(res, r)

Moved(r, status) == [res EXCEPT ![r].status = status, ![r].lapsed = FALSE]

-----------------------------------------------------------------------------
(* Reservations.                                                           *)

(* CommitBookingQuote: a new reservation on hold with one stay place, or   *)
(* any room of a category.  Staff, proposals and direct booking share it.  *)
CommitQuote(r, a, t, i) ==
    LET row == Saved(RowFor(r, t.category, t.resource, i, 1, "tentative"))
        al == [alloc EXCEPT ![a] = row]
        rs == [res EXCEPT ![r] = [status |-> "hold", lapsed |-> FALSE, stay |-> i]]
    IN  /\ res[r].status = "none" /\ a \in FreeRows
        /\ row.category \in StayCategories
        /\ Available(a, al, rs)
        /\ res' = rs /\ alloc' = al
        /\ UNCHANGED blocks

(* Time passes hold_expires_at.                                            *)
Lapse(r) ==
    /\ LiveHold(res, r)
    /\ res' = [res EXCEPT ![r].lapsed = TRUE]
    /\ UNCHANGED <<alloc, blocks>>

(* transition(Hold): every row is checked as tentative, then saved.        *)
PlaceHold(r) ==
    /\ res[r].status = "draft"
    /\ StaySatisfied(r)
    /\ \A a \in RowsOf(r) : Available(a, alloc, res)
    /\ res' = Moved(r, "hold")
    /\ alloc' = WithStatus(RowsOf(r), "tentative")
    /\ UNCHANGED blocks

(* transition(Draft): a hold is taken back, its rows stay as they are.     *)
BackToDraft(r) ==
    /\ res[r].status = "hold"
    /\ res' = Moved(r, "draft")
    /\ UNCHANGED <<alloc, blocks>>

(* Mutant: the rows of a confirmed reservation stay tentative.             *)
BugConfirm(r) ==
    /\ res[r].status = "draft" \/ LiveHold(res, r)
    /\ StaySatisfied(r)
    /\ \A a \in RowsOf(r) : Available(a, alloc, res)
    /\ res' = Moved(r, "confirmed")
    /\ alloc' = alloc
    /\ UNCHANGED blocks

(* confirm(): from a draft or a running hold, every row checked again.     *)
Confirm(r) ==
    /\ res[r].status = "draft" \/ LiveHold(res, r)
    /\ StaySatisfied(r)
    /\ \A a \in RowsOf(r) : Available(a, alloc, res)
    /\ res' = Moved(r, "confirmed")
    /\ alloc' = WithStatus(RowsOf(r), "confirmed")
    /\ UNCHANGED blocks

CheckIn(r) ==
    /\ res[r].status = "confirmed"
    /\ res' = Moved(r, "checked_in")
    /\ UNCHANGED <<alloc, blocks>>

CheckOut(r) ==
    /\ res[r].status = "checked_in"
    /\ res' = Moved(r, "checked_out")
    /\ UNCHANGED <<alloc, blocks>>

(* CloseReservationWithPolicy, as far as inventory goes.                   *)
Close(r, target) ==
    /\ \/ target = "cancelled" /\ res[r].status \in {"draft", "hold", "confirmed"}
       \/ target = "no_show" /\ res[r].status = "confirmed"
    /\ res' = Moved(r, target)
    /\ alloc' = ReleaseRows(RowsOf(r))
    /\ UNCHANGED blocks

(* expireDueHolds(), the transaction of one reservation.                   *)
ExpireHold(r) ==
    /\ res[r].status = "hold" /\ res[r].lapsed
    /\ res' = Moved(r, "draft")
    /\ alloc' = ReleaseRows({a \in RowsOf(r) : alloc[a].status = "tentative"})
    /\ UNCHANGED blocks

-----------------------------------------------------------------------------
(* Allocations.                                                            *)

(* AllocationWorkflowService::create: saved, then checked if it reserves.  *)
Create(r, a, t, i, q) ==
    LET status == IF res[r].status \in {"confirmed", "checked_in"}
                  THEN "confirmed" ELSE "tentative"
        al == [alloc EXCEPT ![a] = Saved(RowFor(r, t.category, t.resource, i, q, status))]
    IN  /\ res[r].status # "none" /\ a \in FreeRows
        /\ ReservesCapacity(r) => Available(a, al, res)
        /\ alloc' = al
        /\ UNCHANGED <<res, blocks>>

(* AllocationWorkflowService::update: any columns of any row, a released   *)
(* one included, checked before it is saved; so the check sees the         *)
(* category of the request, NULL if staff cleared it, and the saved row    *)
(* the resource's.                                                         *)
Update(r, a, t, i, q) ==
    LET status == IF res[r].status = "confirmed" THEN "confirmed" ELSE "tentative"
        asked == RowFor(r, t.category, t.resource, i, q, status)
    IN  /\ alloc[a].reservation = r
        /\ ReservesCapacity(r) => Available(a, [alloc EXCEPT ![a] = asked], res)
        /\ alloc' = [alloc EXCEPT ![a] = Saved(asked)]
        /\ UNCHANGED <<res, blocks>>

(* release(), and update() with status released.                           *)
Release(r, a) ==
    /\ a \in RowsOf(r)
    /\ alloc' = ReleaseRows({a})
    /\ UNCHANGED <<res, blocks>>

(* The row that replaces one of r's on resource x.                         *)
Replacement(r, row, x) ==
    [row EXCEPT !.resource = x, !.category = CategoryOf[x],
        !.status = IF res[r].status = "hold" THEN "tentative" ELSE "confirmed"]

(* ReallocateResource without a swap: released, replaced, checked.         *)
Reallocate(r, a, x) ==
    LET al == [alloc EXCEPT ![a] = Replacement(r, alloc[a], x)]
    IN  /\ OperationallyActive(r) /\ a \in RowsOf(r)
        /\ CategoryOf[x] = alloc[a].category /\ alloc[a].resource # x
        /\ Available(a, al, res)
        /\ alloc' = al
        /\ UNCHANGED <<res, blocks>>

(* ReallocateResource with a swap: both rows are released first, then each *)
(* replacement is checked, the second with the first in place.             *)
Swap(r, a, s, b) ==
    LET x == alloc[b].resource
        one == [ReleaseRows({b}) EXCEPT ![a] = Replacement(r, alloc[a], x)]
        two == [one EXCEPT ![b] = Replacement(s, alloc[b], alloc[a].resource)]
    IN  /\ OperationallyActive(r) /\ OperationallyActive(s)
        /\ a \in RowsOf(r) /\ b \in RowsOf(s) /\ a # b
        /\ alloc[a].resource # None /\ x # None
        /\ CategoryOf[x] = alloc[a].category
        /\ alloc[a].from = alloc[b].from /\ alloc[a].to = alloc[b].to
        /\ Available(a, one, res) /\ Available(b, two, res)
        /\ alloc' = two
        /\ UNCHANGED <<res, blocks>>

(* AmendReservation: the one stay place is released and another checked;   *)
(* a hold need not be running.                                             *)
Amend(r, a, t, i) ==
    LET status == IF res[r].status = "confirmed" THEN "confirmed" ELSE "tentative"
        al == [alloc EXCEPT ![a] = Saved(RowFor(r, t.category, t.resource, i, 1, status))]
    IN  /\ res[r].status \in {"hold", "confirmed"}
        /\ {b \in RowsOf(r) : alloc[b].category \in StayCategories} = {a}
        /\ \A b \in RowsOf(r) \ {a} : i.from <= alloc[b].from /\ alloc[b].to <= i.to
        /\ al[a].category \in StayCategories
        /\ Available(a, al, res)
        /\ alloc' = al
        /\ res' = [res EXCEPT ![r].stay = i]
        /\ UNCHANGED blocks

-----------------------------------------------------------------------------
(* Blocks: staff close a resource without looking at its allocations.      *)

AddBlock(x, i) ==
    /\ Cardinality(blocks) < MaxBlocks
    /\ blocks' = blocks \cup {[resource |-> x, from |-> i.from, to |-> i.to]}
    /\ UNCHANGED <<res, alloc>>

EditBlock(k, x, i) ==
    /\ k \in blocks
    /\ blocks' = (blocks \ {k}) \cup {[resource |-> x, from |-> i.from, to |-> i.to]}
    /\ UNCHANGED <<res, alloc>>

RemoveBlock(k) ==
    /\ k \in blocks
    /\ blocks' = blocks \ {k}
    /\ UNCHANGED <<res, alloc>>

-----------------------------------------------------------------------------
Init ==
    /\ res = [r \in Reservations |-> [status |-> "none", lapsed |-> FALSE, stay |-> None]]
    /\ alloc = [a \in Rows |-> NoRow]
    /\ blocks = {}

OfReservation(r) ==
    \/ Lapse(r) \/ PlaceHold(r) \/ BackToDraft(r) \/ Confirm(r)
    \/ CheckIn(r) \/ CheckOut(r) \/ ExpireHold(r)
    \/ \E target \in {"cancelled", "no_show"} : Close(r, target)

OfAllocation(r, a) ==
    \/ \E t \in Targets, i \in Intervals :
           CommitQuote(r, a, t, i) \/ Amend(r, a, t, i)
    \/ \E t \in Targets, i \in Intervals, q \in Quantities :
           Create(r, a, t, i, q) \/ Update(r, a, t, i, q)
    \/ Release(r, a)
    \/ \E x \in Resources : Reallocate(r, a, x)
    \/ \E s \in Reservations, b \in Rows : Swap(r, a, s, b)

Next ==
    \/ \E r \in Reservations : OfReservation(r)
    \/ \E r \in Reservations, a \in Rows : OfAllocation(r, a)
    \/ \E x \in Resources, i \in Intervals : AddBlock(x, i)
    \/ \E k \in blocks, x \in Resources, i \in Intervals : EditBlock(k, x, i)
    \/ \E k \in blocks : RemoveBlock(k)

Spec == Init /\ [][Next]_vars

-----------------------------------------------------------------------------
(* Allocations follow the life of their reservation over every path that   *)
(* leads there (confirm, amend, reallocate, swap, the workbench): a        *)
(* confirmed row is of a guest who is coming or came, and a confirmed      *)
(* reservation has no row that the checks of others would overlook.        *)
StatusesAgree ==
    \A a \in Rows :
        LET status == res[alloc[a].reservation].status
        IN  /\ alloc[a].status = "confirmed" =>
                   status \in {"confirmed", "checked_in", "checked_out"}
            /\ Unreleased(alloc[a]) /\ status = "confirmed" =>
                   alloc[a].status = "confirmed"

(* The calendar this module keeps: the rows with a resource that counts as *)
(* a stay or is a buyout, as long as others must respect them.             *)
Places == {x \in Resources : x \in Buyouts \/ CategoryOf[x] \in StayCategories}
InHouse(r) == res[r].status \in {"checked_in", "checked_out"}
OnCalendar(a) ==
    /\ alloc[a].resource \in Places
    /\ \/ alloc[a].status = "confirmed"
       \/ alloc[a].status = "tentative" /\ LiveHold(res, alloc[a].reservation)
Entry(a) == [row |-> a, place |-> alloc[a].resource, from |-> alloc[a].from,
             to |-> alloc[a].to, in_house |-> InHouse(alloc[a].reservation)]

Promise == INSTANCE Calendar WITH
    book <- {Entry(a) : a \in {b \in Rows : OnCalendar(b)}}

(* Inventory keeps the calendar's promise: no operation, the check of a    *)
(* swap or of a draft's own rows included, puts a guest who is still to    *)
(* come where another guest is booked (AvailabilityService:17-102).        *)
KeepsCalendar == Promise!Spec

(* Of two rows that want the same place or a buyout, one is of a guest in  *)
(* the house (docs/architecture.md:51-52).                                 *)
ArrivalsFit == Promise!ArrivalsFit

(* What is sold on a day, and the day as the checks of one night see it.   *)
Days == UNION {i.from .. i.to - 1 : i \in Intervals}
Night(d) == [from |-> d, to |-> d + 1]
Sells(row, rs) ==
    \/ row.status = "confirmed"
    \/ row.status = "tentative" /\ LiveHold(rs, row.reservation)
SoldOn(d) == {a \in Rows : Sells(alloc[a], res) /\ Overlaps(alloc[a], Night(d))}
SoldOf(k, d) == {a \in SoldOn(d) : alloc[a].category = k}
Sold(k, d) == MapThenSumSet(LAMBDA a : alloc[a].quantity, SoldOf(k, d))

(* Day d has what is sold of category k: a buyout has the property to      *)
(* itself, and of other categories there are units enough and no buyout.   *)
Fits(k, d) ==
    IF k \in BuyoutCategories
    THEN Cardinality(SoldOn(d)) = 1
    ELSE /\ Sold(k, d) <= UnitsFree(k, Night(d))
         /\ \A a \in SoldOn(d) : alloc[a].category \notin BuyoutCategories

(* A row takes units of category k on day d that it did not take before.   *)
Sale(k, d) ==
    \E a \in SoldOf(k, d)' :
        a \in SoldOf(k, d) => alloc'[a].quantity > alloc[a].quantity

(* The two sales that staff make unseen by a check: a row added for a      *)
(* guest in the house, and an update whose request clears the category,    *)
(* which skips the category's capacity.                                    *)
UncheckedSale ==
    \E r \in Reservations, a \in Rows, t \in Targets, i \in Intervals, q \in Quantities :
        \/ InHouse(r) /\ Create(r, a, t, i, q)
        \/ t.category = None /\ Update(r, a, t, i, q)

(* docs/architecture.md:52 "Pool allocations cannot exceed capacity;       *)
(* buyouts reserve the whole property": no other step sells what the day   *)
(* does not have, be it a quote, a draft of several rows that is held or   *)
(* confirmed, an amendment or a swap, and however the stays that are       *)
(* counted together overlap (AvailabilityService:131-268).                 *)
SalesFit ==
    [][\A k \in Categories, d \in Days :
          Sale(k, d) => Fits(k, d)' \/ UncheckedSale]_vars

(* docs/architecture.md:51 "Exclusive resources cannot overlap active      *)
(* holds, allocations, or blocks.": nobody else is given the place of a    *)
(* guest who holds it, has it confirmed or sleeps in it.                   *)
ExclusivePlacesDoNotOverlap ==
    \A a, b \in Rows :
        /\ alloc[a].reservation # alloc[b].reservation
        /\ \A c \in {a, b} :
               /\ Unreleased(alloc[c]) /\ alloc[c].resource \in Places
               /\ \/ res[alloc[c].reservation].status \in {"confirmed", "checked_in"}
                  \/ LiveHold(res, alloc[c].reservation)
        => ~Promise!Clash(Entry(a), Entry(b))
=============================================================================
