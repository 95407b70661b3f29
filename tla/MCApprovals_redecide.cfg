\* Two deciders of one request: the lifecycle document against the decide route.
CONSTANTS
  Agents = {a1}
  Actions = {post}
  t1 = t1
  p1 = p1
  Tasks = {t1}
  NoTask = NoTask
  ProjectOf <- MCProjectOf
  NoProject = NoProject
  Humans = {root, ann}
  Admins = {root}
  Nobody = Nobody
  Requests = {r1}
  Calls = {c1}
  Deciders = {d1, d2}
  Window = 1
  MaxTime = 0
SPECIFICATION Spec
SYMMETRY Symmetry
PROPERTY DecisionsAreFinal
