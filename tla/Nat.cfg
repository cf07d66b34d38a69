\* Two internal hosts and a server behind a rule, one remote endpoint, two ports
\* in the pool and one that has no rule.
SPECIFICATION LiveSpec
CONSTANTS
  Hosts = {a, b}
  Servers = {s}
  Remotes = {r}
  Pool = {1, 2}
  Rules <- MCRules
  None = None
  a = a
  b = b
  s = s
  r = r
CHECK_DEADLOCK FALSE
INVARIANTS
  OneMappingPerFlow
PROPERTIES
  Served
  SilentIsSwept
