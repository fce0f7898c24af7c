SPECIFICATION FairSpec
CONSTANTS
  w1 = w1  w2 = w2  h1 = h1  h2 = h2  p1 = p1  p2 = p2
  Workers = {w1, w2}
  Invites = {1}
  Hangouts = {h1}
  Phones = {p1}
  HangoutOf <- OneHangout
  PhoneOf <- OnePhone
  Delays <- OneDelay
  MaxFollowups = 1
  MinDelay = 1
  FailureLimit = 2
  NoClock = NoClock
  Nobody = Nobody
  MaxClock = 2
  MaxFaults = 1
  MaxRequests = 3

CHECK_DEADLOCK FALSE

PROPERTIES DueIsServed AdvisoryReturns
