SPECIFICATION Spec
CONSTANTS
  c1 = c1
  c2 = c2
  c3 = c3
  Sampler = Sampler
  Nobody = Nobody
  Clients = {c1, c2, c3}
  MaxConnections = 2
INVARIANTS
  SlotsAreCounted
  NoLockWhileWaiting
  AnswerOfOneStore
PROPERTIES
  SamplerGoesOn
  RequestsAreAnswered
  SilenceFreesSlots
CHECK_DEADLOCK TRUE
