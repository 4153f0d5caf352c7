---------------------------- MODULE MCFedServer ----------------------------
(* Model-checking instance of FedServer: sites and jobs are model values. *)
EXTENDS FedServer
=============================================================================
