\* The ready list serves its tasks in turn and the delayed list stays sorted.
SPECIFICATION TaskListsSpec
CONSTANTS
    a = a
    b = b
    c = c
    Item <- ThreeItems
    xListEnd = xListEnd
    portMAX_DELAY = 2
    WakeTimes = {0, 1, 2}
INVARIANTS
    ListsOK
    SortedAndFair
PROPERTIES
    ImplementsRoundRobin
SYMMETRY Symmetry
