SPECIFICATION Spec
CONSTANTS
  Redundancy = 2
  Refused = Refused
  Password = Password
  DecoyPassword = DecoyPassword
  Recipients = {r1}
  DecoyObject = DecoyObject
  K = 2
  N = 2
  NoKey = NoKey
  NoSignature = NoSignature
  Slots = {s1, s2}
  Objects = {small, large}
  LargeObjects = {large}
  Projects = {}
  SealsUsed = {"password", "threshold"}
  ChannelsUsed = {"package_part", "custom_xml", "metadata", "mce", "stego_media"}
  Authors = {alice}
  Stranger = Stranger
  MaxModules = 2
  MaxBuilds = 2
  MaxCosigners = 0
  MaxEdits = 0
INVARIANTS TypeOK RoundTrip SharesOpenTheirBuild DrawingsResolve
PROPERTY ModulesUndisturbed
CHECK_DEADLOCK FALSE
SYMMETRY SlotSymmetry
