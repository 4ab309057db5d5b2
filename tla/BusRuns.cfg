SPECIFICATION Spec

CONSTANTS
  a1 = a1
  a2 = a2
  h1 = h1
  h2 = h2
  Agents = {a1, a2}
  Handlers = {h1, h2}
  Scopes = {"local"}
  NoScope = "none"
  MaxTickets = 4
  MaxMessages = 2

SYMMETRY Symmetry

INVARIANTS
  EveryoneServed
  FailureSignalled

\* The bounds used up, nothing is left to do.
CHECK_DEADLOCK FALSE
