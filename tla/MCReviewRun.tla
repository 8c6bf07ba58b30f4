----------------------------- MODULE MCReviewRun -----------------------------
(* Three chunks of two filings.  c3 repeats c2 with more white space, so that one of the *)
(* two is enough; c1 and c3 fit the limit by their index texts, not as entries.          *)
EXTENDS ReviewRun, TLC

CONSTANTS c1, c2, c3

MCDocOf == c1 :> "f1" @@ c2 :> "f1" @@ c3 :> "f2"
MCIndexText == c1 :> "t1" @@ c2 :> "t2" @@ c3 :> "t2 "
MCTextOf == c1 :> "t1" @@ c2 :> "t2" @@ c3 :> "t2"
MCIndexSize == c1 :> 1 @@ c2 :> 3 @@ c3 :> 5
MCEntrySize == c1 :> 2 @@ c2 :> 4 @@ c3 :> 6
=============================================================================
