SPECIFICATION PRSpec
CONSTANTS
  foundation = foundation
  a = a
  b = b
  g = g
  req = req
  alice = alice
  bob = bob
  Author = {alice, bob}
  UpToDate = TRUE
  Phase = {foundation}
  Package = {a, b}
  Gap = {g}
  Requirement = {req}
  File = {}
  External = External
  None = None
  Evolution = Evolution
  Seeds <- SmallSeeds
  PhaseInput <- SmallPhaseInput
  PackageInput <- SmallPackageInput
  GapInput <- SmallGapInput
PROPERTY ImplementsControlPlane
SYMMETRY Symmetry
