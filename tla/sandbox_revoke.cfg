SPECIFICATION Spec
CONSTANTS
  Managers = {m1}
  t1 = t1
  t2 = t2
  Tools = {t1, t2}
  MaxRequests <- Requests
PROPERTY RevokedIsTaken
