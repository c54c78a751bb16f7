SPECIFICATION Spec
CONSTANTS
  k1 = k1  k2 = k2  n1 = n1  n2 = n2  t1 = t1  t2 = t2  a = a  b = b
  Key = {n1, n2}
  MaxRequests = 1
  Window = 2
  Horizon = 3
  NoCounter = NoCounter
  KeyId = {k1, k2}
  Tenant = {t1, t2}
  Action = {a, b}
  Admission = Admission
  PolicyOf <- MCPolicyOf
  OwnKeys <- MCOwnKeys
  Allowed <- MCAllowed
  NoKey = NoKey
  NoPacket = NoPacket
INVARIANTS NetworkBoundaryServes
