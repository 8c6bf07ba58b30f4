---------------------------- MODULE MCJobQueues ----------------------------
(* A small instance of JobQueues for TLC.  Identities of the two domains    *)
(* are interleaved so that a tie of timestamps may favour either domain.    *)
EXTENDS JobQueues

MCOneCorpusJob == {1}
MCEvalJob == {2, 3}
MCTwoCorpusKinds == {"backfill_embeddings", "delete_sources"}
=============================================================================
