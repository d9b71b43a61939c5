\* Two requests about three restaurants, and a client that walks the listing.
CONSTANTS
  None = None
  Cnpjs = {c1, c2, c3}
  Nomes = {1, 2, 3}
  Horas = {0, 1, 2}
  Patches <- MCPatches
  Rows0 <- MCRows0
  Requests = {r1, r2}
  DEFAULT_PAGE_SIZE = 1
  MAX_PAGE_SIZE = 1
  PageSize = 2
SPECIFICATION CatalogoSpec
SYMMETRY MCSymmetry
INVARIANTS
  TypeOK
  
  
  OneRegistration
  MissedOnlyByDepartures
  RepeatedOnlyByArrivals
  CountAccounts
PROPERTY NoResurrection
CHECK_DEADLOCK FALSE
