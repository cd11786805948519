--------------------------- MODULE MCIPCTransport ---------------------------
(***************************************************************************)
(* IPCTransport for TLC; the clients are interchangeable.                  *)
(***************************************************************************)
EXTENDS IPCTransport, TLC

Clients == Permutations(Client)
=============================================================================
