SPECIFICATION MCSpec
CONSTANTS
  Policies = {"p", "q"}
  Namespaces = {"acme", "beta"}
  Labels = {"bare", "night", "office"}
  Names = {"auto-sleep", "other"}
  Contents = {"strict", "relaxed"}
  Specs <- SpecChoices
  Bounds <- BoundChoices
INVARIANT IInv
PROPERTIES KeepsToItsOwn Converges
CHECK_DEADLOCK FALSE
