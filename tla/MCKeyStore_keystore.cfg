\* Two hosts with two keys, the service's loop, one worker, one command.  A
\* crash between creating and filling the key file ends everything: no
\* deadlock check.
SPECIFICATION Spec
CONSTANTS
  Hosts = {h1, h2}
  Keys = {k1, k2}
  Loop = loop
  Workers = {worker}
  Commands = {command}
  None = None
  Empty = Empty
  Torn = Torn
CONSTRAINT TwoAtOnce
SYMMETRY HostsAndKeys
CHECK_DEADLOCK FALSE
INVARIANTS
  TypeOK IdentityIsKept PinsStayReadable
PROPERTIES
  TrustOnFirstUse
