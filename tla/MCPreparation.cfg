\* Three items over two units with one place each and a main inventory with two: a unit
\* or the main inventory is full, an item goes from one unit to the other, a recipe has
\* items in both, and a late request or notification of one job meets the next.
SPECIFICATION PrepSpec
CONSTANTS
    Items = {i1, i2, i3}
    Caskets = {c1, c2}
    CasketCapacity = 1
    MainCapacity = 2
    MaxItems = 2
    MaxInFlight = 2
SYMMETRY Symmetry
CONSTRAINTS
    FirstUndisturbed
    OneDisturbed
INVARIANTS
    SnapshotExact
PROPERTIES
    ReportedMoved
    CapacityKept
    MainCapacityKept
    ReadyInMain
CHECK_DEADLOCK FALSE
