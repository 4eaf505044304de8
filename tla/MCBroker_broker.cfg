CONSTANTS
  s1 = s1
  s2 = s2
  x1 = x1
  None = None
  Subs = {s1, s2}
  Externals = {x1}
  Cap <- Cap_tight
  Relays = {s2}
  Mortal = {s2}
  ForcedInto <- Forced_relay
  MaxForced = 1
  Stop = Stop
  Restart = Restart
  Other = Other
  UserReqs <- Reqs
  MaxReqs = 4
SPECIFICATION Spec
INVARIANTS DeliversWhatItOwes
PROPERTIES ReachesAll SubscriberStops ImplementsPubSub
CHECK_DEADLOCK FALSE
