------------------------------ MODULE Calendar ------------------------------
(***************************************************************************)
(* What a property's inventory promises: a calendar of places in which the *)
(* guests who are still to arrive never share one.  An entry is one taken  *)
(* place for one half-open interval.  Entries come and go in any number at *)
(* a time (a swap gives two back and takes two), and a new entry must fit  *)
(* beside everything that stays, unless its guest is already in the house: *)
(* the front desk moves those as it sees fit.                              *)
(*                                                                         *)
(* Inventory implements this module; it says what AvailabilityService is   *)
(* for (docs/architecture.md:51-52) without saying how it is checked.      *)
(***************************************************************************)
EXTENDS Naturals

CONSTANT Buyouts    \* the places that take all the others with them

VARIABLE book   \* the entries of the calendar

Overlaps(x, y) == x.from < y.to /\ x.to > y.from

(* Two entries that cannot both stand: the same place, or a buyout of the  *)
(* property and anything in it, for overlapping times.                     *)
Clash(e, f) ==
    /\ Overlaps(e, f)
    /\ \/ e.place = f.place
       \/ e.place \in Buyouts
       \/ f.place \in Buyouts

Fits(e, others) == \A f \in others \ {e} : ~Clash(e, f)

Init == book = {}

(* Any entries are given back; whatever is new fits, or is in the house.   *)
Rebook == \A e \in book' \ book : e.in_house \/ Fits(e, book')

Spec == Init /\ [][Rebook]_book

-----------------------------------------------------------------------------
(* Of two entries that clash one belongs to a guest in the house: nobody   *)
(* arrives to a place given to two guests who are both still to come.      *)
ArrivalsFit ==
    \A e, f \in book : e # f /\ Clash(e, f) => e.in_house \/ f.in_house
=============================================================================
