\* Start-up in every order of services; two clients; two game servers;
\* serverId 5 is 1 (modulo 4), 0 and 3 are no server's.
SPECIFICATION FairSpec
CONSTANTS
  Clients = {c1, c2}
  Sessions = {u1}
  ServerCount = 2
  Modulus = 4
  ServerIds = {0, 3, 5}
  Malformed = Malformed
INVARIANTS TypeOK LookupsSucceed ClientsHavePlayers NothingIgnored
PROPERTIES OnlyZeroCrashes EventsReported ClientsAreMet GoneAreForgotten
\* serverId 0 ends the program.
CHECK_DEADLOCK FALSE
