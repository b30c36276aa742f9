\* Two callers: the second one's steps run on Rayon's pool.
CONSTANTS
  Decoders = {d1, d2}
  Machines <- Both
  Half = 2
  WARMUP = 1
  RUN = 1
  ROUNDS = 1
  MaxSteps = 7
SPECIFICATION Spec
INVARIANTS
  SamplesRanOnTheirSize
