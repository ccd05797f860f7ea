SPECIFICATION Spec
CONSTANTS
  Redundancy = 2
  Refused = Refused
  Password = Password
  DecoyPassword = DecoyPassword
  Recipients = {r1}
  DecoyObject = DecoyObject
  K = 2
  N = 2
  NoKey = NoKey
  NoSignature = NoSignature
  Slots = {s1, s2}
  Objects = {obj}
  SealsUsed = {"threshold", "decoy"}
  ChannelsUsed = {"odt_package_part", "stego_media"}
  Authors = {alice}
  Stranger = Stranger
  MaxModules = 2
  MaxBuilds = 2
  MaxCosigners = 1
  MaxEdits = 1
INVARIANTS TypeOK Authentic RoundTrip SignedBuildVerifies
PROPERTY PlacedUndisturbed
CHECK_DEADLOCK FALSE
VIEW BuilderView
SYMMETRY SlotSymmetry
