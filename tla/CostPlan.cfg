SPECIFICATION Spec
CONSTANTS
  web = web
  disk = disk
  cpu = cpu
  ram = ram
  f = f
  g = g
  Addresses = {web, disk}
  Labels = {cpu, ram}
  Filters = {f, g}
  Products = {p1, p2}
  NoProduct = NoProduct
  Currencies = {"USD", "EUR"}
  Amounts = {0, 2}
  MaxIngestions = 1
  Requests <- MCRequests
INVARIANTS
  TypeOK
  OrderIsIrrelevant
  DifferencesAddUp
  PricedOrReported
  UnchangedCostsTheSame
