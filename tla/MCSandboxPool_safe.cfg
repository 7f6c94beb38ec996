\* Everybody who starts, pauses, moves or deletes a sandbox, a few at a time.
CONSTANTS
  Convs = {"c", "e"}
  Calls = {"a1", "a2", "b1"}
  Terminals = {"t"}
  Pauses = {"x"}
  Switches = {"w"}
  Ticks = {"k"}
  Deletes = {"d"}
  ConvOf <- About
  Days <- AllDays
  Limit = 2
  Refs = {1, 2, 3, 4, 5}
  NoOne = "no-one"
SPECIFICATION Spec
INVARIANTS TypeOK ChargedWithinLimit OneContainer DeleteTakesAll
PROPERTIES WorkIsKeptOtherwise
