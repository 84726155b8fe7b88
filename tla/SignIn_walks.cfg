SPECIFICATION FairSpec
CONSTANTS
  None = None
  o1 = o1
  o2 = o2
  here = here
  there = there
  tab1 = tab1
  tab2 = tab2
  con1 = con1
  read1 = read1
  rev1 = rev1
  rev2 = rev2
  Operators = {o1, o2}
  Places = {here, there}
  Server = Server
  Tabs = {tab1, tab2}
  Consoles = {con1}
  Readers = {read1}
  Revokers = {rev1, rev2}
  Pools <- MCPools
  SessionTtl = 0
  CsrfTtl = 0
  StateTtl = 1
  TokenTtl = 1
INVARIANTS
  TabsAreSafe
  ReadersAskAnew
PROPERTIES
  NavigationEnds
CHECK_DEADLOCK FALSE
