SPECIFICATION Spec
CONSTANTS
  e2 = e2
  usd = usd
  eur = eur
  Unknown = Unknown
  Currencies = {usd, eur}
  MachineFamilies = {e2}
  FetchSize = 2
  ChSize = 1
  Lists <- MCLists
INVARIANTS
  TypeOK
  SuccessIsWhole
  StoredInOrder
  NoErrorAfterSuccess
PROPERTIES
  IngestionEnds
