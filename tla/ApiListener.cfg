CONSTANTS
  Cmds = {p1, p2}
  Agent = Agent
  Hosts = {h1, h2}
  Nothing = Nothing
  NoHolder = NoHolder
  MaxCmds = 2
  Faults = 1
SPECIFICATION ListenerFairSpec
INVARIANTS ServedKeyFits NamesItsHostUnlessBroken StatusIsTrue
PROPERTIES FollowsConfiguration
CHECK_DEADLOCK FALSE
