\* The real window, a 5000 W limit, and a house that draws 3000 W.
CONSTANTS
    Window = 900
    Limits <- MCLimits
    Powers <- MCHouse
    Months <- MCNow
SPECIFICATION Spec
INVARIANTS
    BudgetIsNotDeficit
