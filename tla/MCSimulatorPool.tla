---------------------------- MODULE MCSimulatorPool ----------------------------
(***************************************************************************)
(* Instances of SimulatorPool for TLC.                                     *)
(***************************************************************************)
EXTENDS SimulatorPool
===============================================================================
