SPECIFICATION FairSpec
CONSTANTS
  Cores = {c1, c2, c3}
  NoCore = NoCore
  Gone = Gone
  MaxFaults = 2
  Sizes = {1, 2}
  MaxBytes = 2
  MaxEntries = 1
  MaxRecords = 3
  Tickets = {t1, t2}
  Browsers = {b1, b2}
  MaxBrowserTickets = 1
  MaxBrowserSessions = 1
  BrowserTicketTTL = 2
  BrowserSessionTTL = 1
  MaxTime = 3
INVARIANTS
  ServingCoreIsDiscoverable
  AcknowledgedRecordsSurvive
  LogsStayWithinTheirLimit
PROPERTIES
  TicketsBuyOneSession
  OpenDesktopsGetACore
CHECK_DEADLOCK FALSE
