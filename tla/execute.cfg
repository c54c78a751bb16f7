SPECIFICATION FairSpec
CONSTANTS
  p1 = p1  p2 = p2  p3 = p3  p4 = p4
  ta = ta  tb = tb  a = a  b = b  k = k
  Request = {r1, r2, r3}
  Packet = {p1, p2, p3, p4}
  Tenant = {ta, tb}
  ActionName = {a, b}
  Key = {k}
  TenantOf <- MCTenantOf
  ActionOf <- MCActionOf
  KeyOf <- MCKeyOf
  NoKey = NoKey
  FailureThreshold = 2
  FailureCap = 2
  Recovery = 2
  NotOpened = NotOpened
  MaxInFlight = 2
  TimeoutOf <- MCTimeoutOf
  DefaultTimeout = 1
  ResponseMargin = 1
  ReplayWindow = 1
  Ttl = 2
  MaxEntries = 1
  Idle = Idle
  Nothing = Nothing
INVARIANTS TypeOK InFlightExact NoConcurrentDuplicate CachedAnswerIsOwn BreakerConsistent
PROPERTIES AnswerIsReused BreakerRecovers
