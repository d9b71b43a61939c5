\* A PATCH that races a DELETE writes the deleted row and answers 200.
CONSTANTS
  None = None
  Cnpjs = {c1}
  Nomes = {1}
  Horas = {0, 1, 2}
  Patches <- MCPatches
  Rows0 <- MCRows0
  Requests = {r1, r2, r3, r4}
SPECIFICATION Spec
SYMMETRY MCSymmetry
CHECK_DEADLOCK FALSE
INVARIANT UpdateSeesDelete
