SPECIFICATION Spec
CONSTANT Stacks <- MCStacks
INVARIANTS
  TypeOK
  OnePlanPerModule
  ModulesAreSettled
  TmpdirIsRemoved
PROPERTY CancelEndsWait
