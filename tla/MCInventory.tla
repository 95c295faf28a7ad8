---------------------------- MODULE MCInventory ----------------------------
(***************************************************************************)
(* Inventory on one small property: two rooms that staff fill and a lodge  *)
(* that takes both, and a pool of two pieces of gear.                      *)
(***************************************************************************)
EXTENDS Inventory, TLC

CONSTANTS r1, r2, a1, a2, a3, room, cabin, lodge, gear

TheReservations == {r1, r2}
TheRows == {a1, a2, a3}
TheResources == {room, cabin, lodge, gear}
TheCategories == {"rooms", "lodges", "gears"}
TheCategoryOf == (room :> "rooms") @@ (cabin :> "rooms") @@ (lodge :> "lodges")
                     @@ (gear :> "gears")
TheCapacity == (room :> 2) @@ (cabin :> 2) @@ (lodge :> 6) @@ (gear :> 2)
TwoNights == {[from |-> 1, to |-> 2], [from |-> 1, to |-> 3]}
OneNight == {[from |-> 1, to |-> 2]}

Symmetry == Permutations(TheReservations) \cup Permutations(TheRows)
                \cup Permutations({room, cabin})
=============================================================================
