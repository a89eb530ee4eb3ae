SPECIFICATION Spec
CONSTANTS
  foundation = foundation
  memory = memory
  evolution = evolution
  first = first
  second = second
  a = a
  b = b
  c = c
  d = d
  g = g
  req = req
  proof = proof
  Phase = {foundation, memory, evolution, first, second}
  Package = {a, b, c, d}
  Gap = {g}
  Requirement = {req}
  File = {proof}
  External = External
  None = None
  Evolution = evolution
  Seeds <- AllSeeds
  PhaseInput <- AllPhaseInput
  PackageInput <- AllPackageInput
  GapInput <- AllGapInput
PROPERTY LifecycleRespected
