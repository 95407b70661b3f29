\* The owner, an agent, and a newcomer or the gateway, which is an agent too, with
\* two requests about the team; one task of an owner and a member with two requests,
\* a restart; the last use of a code, three newcomers, two registrations at a time.
\* Nothing is left to do once the project or the code is gone.
CONSTANTS
  Users = {own, gw, bot, new}
  Owner = own
  Gateway = gw
  Agents = {bot, gw}
  Newcomers = {new}
  Requests = {q1, q2}
  People = {own, ann}
  Tasks = {t1}
  Core = {"todo"}
  Optional = {"in_review"}
  Announced = {"in_review"}
  Same = Same
  TaskRequests = {r1, r2}
  MaxUses = 1
  Strangers = {n1, n2, n3}
  Nobody = Nobody
  Registrations = {g1, g2}
SPECIFICATION ProjectsSpec
INVARIANTS
  NobodyIsLockedOut
  
  CodesAreLimited
  ColumnsAreEnabled
  AssigneesWereMembers
PROPERTIES
  MoversHeldTheTask
  ArrivalsAreAnnounced
CHECK_DEADLOCK FALSE
