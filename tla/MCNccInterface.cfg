SPECIFICATION Spec
CONSTANTS
  p1 = p1
  p2 = p2
  s1 = s1
  sno = sno
  premium = premium
  None = None
  Clients = {p1, p2, s1}
  Kind <- MCKind
  Lines <- MCLines
  Fds = {1, 2, 3}
  MaxLines <- MCMaxLines
  Categories = {sno, premium}
  Sno = sno
  Carriers <- MCCarriers
  Bandwidth = 10
  SymNum <- MCSymNum
  SymDen <- MCSymDen
  PepDelay = 1000
INVARIANTS TypeOK EventsAreOpen PendingIsTimed CommandsWaitBehindFailure
PROPERTIES PepRequestsAreApplied LinesAreRead BandIsConserved GrantedRateIsThere
CHECK_DEADLOCK FALSE
