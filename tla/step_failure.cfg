SPECIFICATION Spec
CONSTANTS
  f = f
  data = data
  Definition <- PairDefinition
  PayloadKey = {f, data}
  DataKey = data
  CallerKeys = {f}
  Verdict = {TRUE, FALSE}
  HeaderTimeout = {Unset, 1}
  NodeCap = 2
  Budget = 3
  Unset = Unset
  Raise = Raise
  Expr <- MCExpr
  Value = {0, 1, 2}
CHECK_DEADLOCK FALSE
INVARIANTS FailureTerminates
