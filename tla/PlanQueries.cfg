SPECIFICATION Spec
CONSTANTS
  aws = aws
  null = null
  east = east
  west = west
  old = old
  new = new
  NoIndex = NoIndex
  Null = Null
  KnownNames = {aws}
  Plans <- MCPlans
INVARIANTS
  TypeOK
  QueriesMatchState
  ValuesOfTheState
  ReferencesResolve
