\* Every input of the small sets named in MCAlgorithms, one state each.
CONSTANTS
  NotFinite = NotFinite
  Malformed = Malformed
  u1 = u1
  u2 = u2
  u3 = u3
SPECIFICATION Spec
CHECK_DEADLOCK FALSE
INVARIANTS
  ArithmeticIsExact
  SpeechIsFound
  TextSurvivesDecoding
  EachWordOnce
  NothingUndeclaredIsOpened
  PolicyIsBoundWhole
  OptionsAreUnambiguous
  EffectsFollowChecks
  OutputIsWhole
