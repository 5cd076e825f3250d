\* A few frames of two 16-bit channels, cut inside a sample and between frames.
CONSTANTS
  NotFinite = NotFinite
  w1 = w1
  w2 = w2
  w3 = w3
  w4 = w4
  Wild = {29}
  MaxFactor = 1000
  TurnGap = 3
  Backchannel <- MCBackchannel
  Fuzz = 1
  Never <- MCNever
  Count = 2
  Taps = 2
  AnalysisWindow = 2
  Setups <- MCSetups
  Speech <- MCSpeech
  Sizes = {5, 14}
  Frames = 6
  Slack = 1
SPECIFICATION Spec
CHECK_DEADLOCK FALSE
INVARIANTS
  FedWhatWasSent
  SelectionIsTold
  ClientHoldsAll
PROPERTIES
  FinalTurnKeepsItsWords
