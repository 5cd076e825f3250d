\* One thread between a load and a swap, and one that may execute any number
\* of operations meanwhile: no third thread can do more.
CONSTANTS
  Threads = {t1, t2}
  TheControl = c
SPECIFICATION LoopSpec
INVARIANTS
  OneOutcome
PROPERTIES
  ImplementsAtomicControl
