SPECIFICATION Spec
CONSTANTS
    r1 = r1
    r2 = r2
    a1 = a1
    a2 = a2
    a3 = a3
    room = room
    cabin = cabin
    lodge = lodge
    gear = gear
    None = None
    Reservations <- TheReservations
    Rows <- TheRows
    Resources <- TheResources
    Categories <- TheCategories
    CategoryOf <- TheCategoryOf
    Buyouts = {lodge}
    StayCategories = {"rooms", "lodges"}
    Capacity <- TheCapacity
    Intervals <- TwoNights
    Quantities = {1}
    MaxBlocks = 0
SYMMETRY Symmetry
INVARIANTS
    ExclusivePlacesDoNotOverlap
