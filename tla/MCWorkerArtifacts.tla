--------------------------- MODULE MCWorkerArtifacts --------------------------
(* A netlist with an operating point and a transient.                      *)
EXTENDS WorkerArtifacts, TLC
===============================================================================
