SPECIFICATION FairSpec
CONSTANTS
  query = query
  passage = passage
  k1 = k1
  k2 = k2
  k3 = k3
  here = here
  there = there
  verified = verified
  other = other
  None = None
  Backends = {query, passage}
  Rechecked = {passage}
  Callers = {k1, k2, k3}
  Uses <- AllQuery
  Size = 2
  Tickets = 4
  Libraries = {here, there}
  Sent <- Paths
  Usable = {here, there}
  Contents = {verified, other}
  Verified = verified
  Probes <- Vectors
  MaxChanges <- OneChange
INVARIANTS OneRuntime ServesOneModel NobodySleepsOnATurn
PROPERTIES FirstComeFirstServed Served
