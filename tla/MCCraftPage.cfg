\* Two accounts; three recipes, so that one is executed, one waits and one is added or
\* selected; three changes of the view, so that an account is left, refreshed and returned to.
SPECIFICATION Spec
CONSTANTS
    Accounts = {a1, a2}
    NoAccount = NoAccount
    MaxRecipes = 3
    MaxChanges = 3
SYMMETRY Symmetry
INVARIANTS
    TypeOK
    QueuesOwn
    RecipesKept
    DoneTrue
CHECK_DEADLOCK FALSE
