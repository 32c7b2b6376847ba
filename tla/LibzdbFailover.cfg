\* Three servers, two connections, three tasks that compete for them.
CONSTANTS
  NumServers = 3
  MaxConnections = 2
  Users = {u1, u2, u3}
SPECIFICATION Spec
INVARIANT OnlyFailedAreAvoided
PROPERTY FailedServerIsLeft
