\* One caller or two, whose limit may bring the reserve in or only cap the
\* choice, before, during or after tuning.
CONSTANTS
  Decoders = {d1, d2}
  Machines <- Both
  Half = 2
  WARMUP = 1
  RUN = 1
  ROUNDS = 1
  MaxSteps = 7
SPECIFICATION FairSpec
INVARIANTS
  AloneSamplesRanOnTheirSize
  ChoiceInForce
PROPERTIES
  Settles
