\* Windows of six steps that overlap by half (or touch: MCStreamSession); a time
\* unit is 40 ms.
CONSTANTS
  a = a
  b = b
  noise = noise
  Texts <- MCTexts
  Normal <- MCNormal
  Speeches <- MCSpeeches
  Jitter = {0, 1}
  Edge = {a, noise}
  Window = 24
  Overlap = 12
  Step = 4
  Horizon = 8
  SeamAfter = 6
  KeepSilence = 4
  AfterSpeech = 12
  NoSpeech = 16
  Policies = {"Advisory", "CommitStable"}
  CutSlack = 1
  RepeatTolerance = 3
  SameTolerance = 2
  SeamTolerance = 6
  Recent = 12
  Chunks = {2}
  Silence = 16
  NoWindow = nowindow
SPECIFICATION MCSpec
CHECK_DEADLOCK FALSE
INVARIANTS
  FinalIsCommitted
  LineIsTold
PROPERTIES
  FinalIsImmutable
  FrontiersHold
