SPECIFICATION Spec
CONSTANTS
  t1 = t1
  t2 = t2
  Tabs <- MCTabs
  MaxLogins = 2
  MaxRequests = 2
  MaxSent = 3
INVARIANTS
  TypeOK
PROPERTIES
  ActsAsItself
  ValidTokenKept
