SPECIFICATION Spec
CONSTANTS
  m1 = m1
  m2 = m2
  m3 = m3
  m4 = m4
  a = a
  b = b
  Memories = {m1, m2, m3, m4}
  Scopes = {a, b}
  Types = {"episodic", "procedural"}
  ScopeOf <- MCScopeOf
  TypeOf <- MCTypeOf
  CreatedAt <- MCTimes
  PageSize = 2
  DefaultLimit = 2
  MaxQueryLimit = 2
  RawLimits <- MCRawLimits
INVARIANTS Recallable NoPhantomVectors AnswersInScope NotDiluted
SYMMETRY Tied
