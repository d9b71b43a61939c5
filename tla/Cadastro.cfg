\* Three requests about users, profiles and permissions.
CONSTANTS
  None = None
  ana = ana
  ANA = ANA
  bia = bia
  Enderecos = {ana, ANA, bia}
  Canonico <- MCCanonico
  Ids = {i1, i2}
  Nomes = {n1, n2}
  Requests = {r1, r2, r3}
SPECIFICATION Spec
SYMMETRY MCSymmetry
INVARIANTS
  TypeOK
  OneAccountPerAddress
  
  NoExtinctGrant
PROPERTIES
  CollisionsAre409
  ImplementsTables
CHECK_DEADLOCK FALSE
