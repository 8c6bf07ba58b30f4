SPECIFICATION FairSpec
CONSTANTS
  f1 = f1
  f2 = f2
  root = root
  File <- MCFile
  Manifest = Manifest
  Version = {v1}
  Absent = Absent
  NoJournal = NoJournal
  DirOf <- MCDirOf
  KnownDirs <- MCAllDirs
  MaxTransactions = 1
  Faulty <- MCUntilCleanup
  MaxFaults = 2
  Fragile <- MCPrepared
  MaxCrashes = 2
  MaxOutages = 2
PROPERTIES
  PublicationSettles
