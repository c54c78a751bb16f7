SPECIFICATION AdminSpec
CONSTANTS
  match = match
  converge = converge
  score = score
  admission = admission
  ceg = ceg
  eie = eie
  custom = custom
  tagCeg = tagCeg
  tagGraphEngine = tagGraphEngine
  tagEie = tagEie
  tagCustom = tagCustom
  Node <- MCNode
  Action <- MCAction
  ADMISSION_ACTION = admission
  Owner <- MCOwner
  NoOwner = NoOwner
  Tag <- MCTag
  NoTag = NoTag
  Url = {u1}
  MaxCeiling = 2
  RequiredOwner <- MCRequiredOwner
  TagOwner <- MCTagOwner
  NameOwner <- MCNameOwner
  Absent = Absent
  YamlFile <- MCYamlFile
  Token = {t1, t2}
  NoToken = NoToken
  AdminToken = t1
  Malformed = Malformed
  Batch <- MCBatch
  SeamActions = {converge}
  Withheld = Withheld
INVARIANTS
  CanonicalActionsOwned
  NoMixedReplicas
  ReadinessIsRouting
  RepeatIsHarmless
  PublicViewIsBounded
