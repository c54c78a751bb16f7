SPECIFICATION Spec
CONSTANTS
  Request = {q1}
  MaxNodes = 1
  MaxClients = 1
INVARIANT BadWorkflowsAbortStartup
