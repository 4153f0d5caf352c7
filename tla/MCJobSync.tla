------------------------------ MODULE MCJobSync ------------------------------
(* Two clients: a job has one or both of them as participants, and one    *)
(* client logs out or heartbeats while the other runs the job.  One job    *)
(* for the full check (its start and end still race every handler); two   *)
(* jobs for the violation runs, where the second job's start or end lands  *)
(* inside a logout's iteration.                                            *)
EXTENDS JobSync

CONSTANTS c1, c2, j1, j2

MCClient == {c1, c2}
MCJob1 == {j1}
MCJob == {j1, j2}
=============================================================================
