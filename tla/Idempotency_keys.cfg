SPECIFICATION Spec
CONSTANTS
  Requests   = {r1, r2}
  Keys       = {"submit1", "cancel1", "register1", "register2"}
  Kind       <- MCKind
  Bodies     = {b1, b2}
  NoBody     = NoBody
  MaxObjects = 2
SYMMETRY Symmetry
INVARIANTS
  AnswersAgree
  RegisteredOnce
PROPERTIES
  ImplementsKeyedEffects
