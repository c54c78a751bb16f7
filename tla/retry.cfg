SPECIFICATION FairSpec
CONSTANTS
  ActionName = {converge, lookup}
  GATE_REPLAY_SAFE_ACTIONS = {lookup}
  REPLAY_SAFE_MAX_ATTEMPTS = 3
  TemplateAttempts = 3
  Delay = 1
  Backoff = 2
  Budget = 6
  Late = 1
  NoError = NoError
CHECK_DEADLOCK FALSE
INVARIANTS TypeOK OnceUnlessDeclaredSafe StatusTellsTheCause
PROPERTIES EveryRequestAnswered AttemptsStartInTime
