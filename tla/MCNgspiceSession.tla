--------------------------- MODULE MCNgspiceSession ---------------------------
(***************************************************************************)
(* Instances of NgspiceSession for TLC.                                    *)
(***************************************************************************)
EXTENDS NgspiceSession, TLC

\* A job that keeps to the defaults, one that overrides both ends of the sweep, one whose
\* sweep ends where it begins, one with a number that is not finite, and one that asks
\* for less than half a point per decade.
MCStates ==
    { [n \in {} |-> NotFinite],
      ("ac_start_hz" :> Finite(2)) @@ ("ac_stop_hz" :> Finite(4)),
      ("ac_stop_hz" :> Finite(1)),
      ("resistance_ohm" :> NotFinite),
      ("points_per_decade" :> Finite(4)) }
===============================================================================
