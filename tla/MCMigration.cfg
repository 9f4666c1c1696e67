\* Five releases, one with a malformed list, start against one database.
CONSTANTS
  Processes = {"old", "new", "fork", "gap", "broken"}
  Entries <- MCEntries
  Baseline <- MCBaseline
  BaselineThrough = 2
  Histories = {"none", "complete", "partial"}
  MaxFailures = 3
SPECIFICATION MigrationFairSpec
INVARIANTS LedgerInv DecidesRightly
PROPERTIES EveryStartDecides
CHECK_DEADLOCK FALSE
