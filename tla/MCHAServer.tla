----------------------------- MODULE MCHAServer -----------------------------
(* Model-checking instance of HAServer: job ids are model values. *)
EXTENDS HAServer
=============================================================================
