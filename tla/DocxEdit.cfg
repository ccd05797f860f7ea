SPECIFICATION Spec
CONSTANTS
  Redundancy = 2
  Refused = Refused
  Password = Password
  DecoyPassword = DecoyPassword
  Recipients = {r1}
  DecoyObject = DecoyObject
  K = 2
  N = 2
  NoKey = NoKey
  NoSignature = NoSignature
  Slots = {s1, s2}
  Objects = {small}
  LargeObjects = {}
  Projects = {small}
  SealsUsed = {"decoy"}
  ChannelsUsed = {"package_part"}
  Authors = {alice}
  Stranger = Stranger
  MaxModules = 2
  MaxBuilds = 2
  MaxCosigners = 1
  MaxEdits = 1
INVARIANTS Authentic CosignersVouched SlotBinding AttestationBound
CHECK_DEADLOCK FALSE
SYMMETRY SlotSymmetry
