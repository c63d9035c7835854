-------------------------- MODULE MCEmbeddingWorker --------------------------
(* The instance of EmbeddingWorker for TLC: its cfg gives all constants     *)
(* values.                                                                  *)
EXTENDS EmbeddingWorker, TLC

=============================================================================
