SPECIFICATION FairSpec
CONSTANTS
  None = None  Off = Off
  n1 = n1  p1 = p1  p2 = p2  root1 = root1  w1 = w1  l1 = l1  l2 = l2  q1 = q1  t1 = t1  t2 = t2  k1 = k1  k2 = k2  d1 = d1
PROPERTIES ShutdownHonoured RequestResolves QueueDrains CampaignEnds SignalEnds
