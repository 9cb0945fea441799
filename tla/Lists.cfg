SPECIFICATION Spec
CONSTANTS
    Elems <- Four
    Rank <- Ranks
    Names = {"a", "b"}
    NULL = NULL
INVARIANTS ListsInv LinkedBothWays
PROPERTIES ImplementsElementLists
