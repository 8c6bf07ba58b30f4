SPECIFICATION Spec
CONSTANTS
  f1 = f1
  f2 = f2
  root = root
  File <- MCFile
  Manifest = Manifest
  Version = {v1}
  Absent = Absent
  NoJournal = NoJournal
  DirOf <- MCDirOf
  KnownDirs <- MCRootOnly
  MaxTransactions = 2
  Faulty <- MCAnyOperation
  MaxFaults = 1
  Fragile <- MCAnyStep
  MaxCrashes = 1
  MaxOutages = 1
SYMMETRY MCSymmetry
INVARIANTS
  CatalogNeverAhead
  EvidenceHolds
  PublishedIsKept
PROPERTIES
  AtomicSpec
