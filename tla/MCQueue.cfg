CONSTANTS
  often = often
  seldom = seldom
  t1 = t1
  t2 = t2
  bad = bad
  w1 = w1
  w2 = w2
  Jobs = {often, seldom}
  Interval <- MCInterval
  Poll = 1
  MaxRun = 2
  MaxLate = 6
  Messages = {t1, t2, bad}
  Workers = {w1, w2}
  Serves <- MCServes
  Undecodable = {bad}
  Capacity = 1
  MaxFaults = 2
SPECIFICATION Spec
INVARIANTS DeliveredOrKept BrokerInv
PROPERTIES JobsKeepRunning
