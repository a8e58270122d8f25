\* Two recipes side by side under a kill or an error.
SPECIFICATION Spec
CONSTANTS
  p1 = p1
  p2 = p2
  r1 = r1
  r2 = r2
  Procs <- MCProcs
  Recipes <- MCRecipes
  MaxAttempts = 2
  MaxTrouble = 1
SYMMETRY MCSymmetry
INVARIANTS
  AttemptsAreSound
PROPERTIES
  CallsEndWell
  ImplementsLifecycle
