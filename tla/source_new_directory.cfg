SPECIFICATION FairSpec
CONSTANTS
  f1 = f1
  f2 = f2
  root = root
  File <- MCFile
  Manifest = Manifest
  Version = {v1}
  Absent = Absent
  NoJournal = NoJournal
  DirOf <- MCDirOf
  KnownDirs <- MCRootOnly
  MaxTransactions = 1
  Faulty = {"applying"}
  MaxFaults = 1
  Fragile <- MCNowhere
  MaxCrashes = 0
  MaxOutages = 0
PROPERTIES
  PublicationSettles
