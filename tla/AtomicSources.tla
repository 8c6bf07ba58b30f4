--------------------------- MODULE AtomicSources ---------------------------
(***************************************************************************)
(* What source publications promise to whoever reads the corpus after a    *)
(* recovery: the originals and their catalog move together, from what they *)
(* were to what one transaction wanted, and only while it is unresolved.   *)
(* The promise ends when a power loss takes an original that the file      *)
(* system had not made durable.                                            *)
(***************************************************************************)
CONSTANT Nothing  \* no transaction is unresolved

VARIABLES
  content,  \* originals and catalog as a recovery would leave them
  pending,  \* the two contents an unresolved transaction may end with
  torn      \* an original was taken from the catalog that registers it

vars == <<content, pending, torn>>

Init == pending = Nothing /\ ~torn

Begin ==
  /\ pending = Nothing
  /\ pending' # Nothing /\ content \in pending'
  /\ UNCHANGED <<content, torn>>

\* Until it is resolved a transaction may take effect, and be undone again.
Decide ==
  /\ pending # Nothing
  /\ content' \in pending
  /\ UNCHANGED <<pending, torn>>

Resolve ==
  /\ pending # Nothing
  /\ content' \in pending
  /\ pending' = Nothing
  /\ UNCHANGED torn

\* From here on nothing is promised.
Tear == torn' = TRUE

Next == Tear \/ Begin \/ Decide \/ Resolve

Spec == Init /\ [][Next]_vars

=============================================================================
