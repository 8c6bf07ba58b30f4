------------------------ MODULE MCSourceTransaction ------------------------
(* Small instances of SourceTransaction for TLC: the originals of two       *)
(* filings, each in a directory of its own that goes by the filing's name.  *)
EXTENDS SourceTransaction
CONSTANTS f1, f2, root

MCFile == {f1, f2}
MCSymmetry == Permutations(MCFile)
MCDirOf == [t \in {f1, f2, Manifest} |-> IF t = Manifest THEN root ELSE t]
MCRootOnly == {root}
MCAllDirs == {root, f1, f2}
MCNowhere == {}
MCAnyOperation == Operations
MCAnyStep == Steps
MCUntilCleanup == PrepareSteps \cup CommitSteps \cup {"checking", "restoring", "resyncing"}
MCPrepared == CommitSteps \cup {"checking", "restoring", "resyncing"}
=============================================================================
