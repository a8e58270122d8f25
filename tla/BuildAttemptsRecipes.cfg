\* Do recipes leave each other alone when nothing fails?
SPECIFICATION Spec
CONSTANTS
  p1 = p1
  p2 = p2
  r1 = r1
  r2 = r2
  Procs <- MCProcs
  Recipes <- MCRecipes
  MaxAttempts = 2
  MaxTrouble = 0
INVARIANTS
  RecipesAreApart
