SPECIFICATION Spec
CONSTANTS
  a = a
  b = b
  c = c
  p = p
  q = q
  rawName = rawName
  NoName = NoName
  Convs = {a, b, c}
  Projects = {p, q}
  Project <- ProjectOf
  JobName <- Spawned
  Titled = {a, b}
  Senders = {a}
  Open = {}
  Benevolent = {}
  MaxQueue = 2
  MaxMessages = 3
  MaxDecisions = 1
  MaxEvents = 1
INVARIANTS
  TypeOK
  Conserved
  NothingWaitsBehindLive
  HeardInOrder
PROPERTIES
  DenyHolds
  PendingNeedsConsent
  MailboxSpec
CHECK_DEADLOCK FALSE
