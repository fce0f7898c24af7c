SPECIFICATION Spec
CONSTANTS
  w1 = w1  w2 = w2  h1 = h1  h2 = h2  p1 = p1  p2 = p2
  Workers = {w1}
  Invites = {1, 2}
  Hangouts = {h1, h2}
  Phones = {p1}
  HangoutOf <- TwoHangouts
  PhoneOf <- OnePhone
  Delays <- OneDelay
  MaxFollowups = 1
  MinDelay = 1
  FailureLimit = 2
  NoClock = NoClock
  Nobody = Nobody
  MaxClock = 4
  MaxFaults = 0
  MaxRequests = 2
CHECK_DEADLOCK FALSE
PROPERTIES AnswerStands
