SPECIFICATION Spec
CONSTANTS
  Ops = {o1, o2, o3}
  Default = Default
  NoRow = NoRow
  Shapes <- MCShapes
  Faulty = TRUE
SYMMETRY Symmetry
INVARIANTS TypeOK PatchAtomic AnswersTrue ReadYourWrites DeletionsTold
PROPERTY CreateKeeps
CHECK_DEADLOCK FALSE
