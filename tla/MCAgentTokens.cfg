\* Two agents and two handlers in flight: every overlap of rotations, revocations
\* and lookups, and secrets of one agent against those of the other.
CONSTANTS
  Agents = {a1, a2}
  Secrets = {s1, s2, s3}
  Requests = {q1, q2}
  NoSecret = NoSecret
  Grace = 1
  MaxTime = 1
SPECIFICATION Spec
SYMMETRY Symmetry
INVARIANTS
  SecretsDisjoint
PROPERTIES
  RotationKeepsOld
  SupersededStaysDead
  LookupNeverMisses
  ImplementsAccess
