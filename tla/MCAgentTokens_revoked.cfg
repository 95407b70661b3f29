\* The header comment of agentTokenRotation.ts against byoaAuth.
CONSTANTS
  Agents = {a1}
  Secrets = {s1}
  Requests = {q1}
  NoSecret = NoSecret
  Grace = 1
  MaxTime = 0
SPECIFICATION Spec
INVARIANT AcceptedRowsAreActive
