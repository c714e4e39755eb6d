SPECIFICATION FairSpec
CONSTANTS
  Servers = {"s1", "s2"}
  Requests = {"r1", "r2"}
  NoOne = "nobody"
PROPERTY WritesAnswered
