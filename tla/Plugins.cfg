SPECIFICATION Spec
CONSTANTS
  Hosts = {"h1", "h2"}
  Conns = {1, 2, 3}
  Clients = {1, 2}
  Configs <- MCConfigs
  Rcpts <- MCRcpts
  MaxFaults = 1
  Logins = {"u"}
  Backends = 2
  MaxLines = 2
  MaxChecks = 1
  Visits = {1, 2, 3}
  MaxVisits = 1
  Origin <- MCOrigin
  MaxExpires = 1
  Tuples = {"t1"}
  Mails = {1, 2}
  Black = 1
  Grey = 3
  White = 4
  MaxClock = 6
  MaxLookups = 3
  HeloHost = "h"
  MailHost = "s"
  LIMIT = 2
  Callers = {1, 2}
  PtrNames <- MCPtrNames
  RejectConfs <- MCRejectConfs
  ListConfs <- MCListConfs
  BadTld = {"bad"}
  Generic = {"gen"}
  Uris = {u1, u2}
  Zones = {z1, z2}
  max_uris_per_list = 0
  DnsZones = {z1, z2}
  Remotes = {1, 2}
  MaxRounds = 1
INVARIANTS OwnReplies CountsExact VerdictsTrue SpfTrue
PROPERTIES DeadHostsRest HooksAnswered
CHECK_DEADLOCK FALSE
