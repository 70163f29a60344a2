CONSTANTS
  early = early
  late = late
  Subscribers = {early, late}
  RingSize = 3
  BufSize = 2
  Leaving = {early}
  MaxEvents = 7
SPECIFICATION Spec
PROPERTIES
  ImplementsCatchUpLog
\* every event may have been published and every client have come and gone
CHECK_DEADLOCK FALSE
