SPECIFICATION ListenerSpec
CONSTANTS
  Cmds = {p1, p2}
  Agent = Agent
  Hosts = {h1, h2}
  Nothing = Nothing
  NoHolder = NoHolder
  MaxCmds = 2
  Faults = 1
INVARIANT NamesItsHost
CHECK_DEADLOCK FALSE
