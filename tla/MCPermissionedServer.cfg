SPECIFICATION Spec
CONSTANTS
  p1 = p1
  p2 = p2
  p3 = p3
  o1 = o1
  o2 = o2
  o3 = o3
  None = None
  Error = Error
  Name = {"a", "b", "c"}
  ObjectID = {p1, p2, p3, o1, o2, o3}
  Client <- MCClient
  EnvVar = {"v", "w"}
  EnvSet = {"v"}
  MaxDerivation = 2
  MaxClients = 2
  FirstPkg <- MCFirstPkg
  MAX_COMMANDS = 2
  MaxInputs = 2
  MaxArgs = 2
  MaxIndex = 3
  KeyId = {k1}
  Package = {p1, p2, p3}
INVARIANTS KeysNeverHandedOn PopsOfServedKeys EveryIdApproved SimulatesWhatWasSigned
CHECK_DEADLOCK FALSE
