SPECIFICATION Spec
CONSTANT Stacks <- MCStacks
INVARIANT CancelIsAnError
