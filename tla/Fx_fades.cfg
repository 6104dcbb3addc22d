SPECIFICATION Spec
CONSTANTS
  e1 = e1  e2 = e2
  Elements = {e1, e2}
  MaxRequests = 5
  Nothing = Nothing
CHECK_DEADLOCK FALSE
INVARIANTS TypeOK NeverStuck OwnOpacityKept LastFadeWins
PROPERTIES PromiseIsKept QueuesRunDry
