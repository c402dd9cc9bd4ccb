--------------------------- MODULE MCUsartPolling ---------------------------
(* A clock of four values, so that it turns over within a call. *)
EXTENDS UsartPolling
=============================================================================
