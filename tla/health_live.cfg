SPECIFICATION FairSpec
CONSTANTS
  score = score
  admission = admission
  u1 = u1
  u2 = u2
  Node = {1, 2}
  Task = {t1, t2}
  CeilingsOf <- OneAndOne
  Url = {u1, u2}
  Action <- MCAction
  ADMISSION_ACTION = admission
  Owner = {}
  NoOwner = NoOwner
  Tag = {}
  NoTag = NoTag
  MaxCeiling = 2
  RequiredOwner <- MCRequiredOwner
  TagOwner <- MCTagOwner
  NameOwner <- MCNameOwner
  Absent = Absent
  YamlFile <- MCYamlFile
  Offer <- MCOffer
  NoTarget = NoTarget
  NoProbe = NoProbe
  ByAddress = ByAddress
PROPERTIES
  HealthFollowsWorker
  CallsEnd
