SPECIFICATION Spec
CONSTANTS
  Redundancy = 2
  Refused = Refused
  Password = Password
  DecoyPassword = DecoyPassword
  Recipients = {r1}
  DecoyObject = DecoyObject
  K = 2
  N = 2
  NoKey = NoKey
  NoSignature = NoSignature
  Slots = {s1, s2}
  Objects = {small}
  LargeObjects = {}
  Projects = {}
  SealsUsed = {"password"}
  ChannelsUsed = {"mce"}
  Authors = {alice}
  Stranger = Stranger
  MaxModules = 2
  MaxBuilds = 2
  MaxCosigners = 0
  MaxEdits = 0
INVARIANT RoundTripAnyBase
CHECK_DEADLOCK FALSE
