-------------------------- MODULE MCEmbedLifecycle --------------------------
(***************************************************************************)
(* EmbedLifecycle for TLC.                                                 *)
(***************************************************************************)
EXTENDS EmbedLifecycle, TLC
=============================================================================
