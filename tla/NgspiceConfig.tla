----------------------------- MODULE NgspiceConfig -----------------------------
(***************************************************************************)
(* From a parameter state to the netlist of a built-in Ngspice task: the   *)
(* defaults of parameters the state leaves out, and the configurations for *)
(* which a netlist is rendered at all (src/session/ngspice_session.cpp).   *)
(*                                                                         *)
(* A parameter is a number with a flag that says whether it is finite.     *)
(* Only its sign and its order relative to the other bound of the same     *)
(* sweep matter here, so the defaults keep the code's signs and order and  *)
(* not its magnitudes.                                                     *)
(***************************************************************************)
EXTENDS Integers

Number == [finite : BOOLEAN, val : Int]
Finite(n) == [finite |-> TRUE, val |-> n]
NotFinite == [finite |-> FALSE, val |-> 0]

Tasks == {"rc_ac", "rc_tran", "divider_dc"}

\* points_per_decade is a double that is rounded to the nearest int, halves away from
\* zero; it is written here in tenths.
Rounded(x) == IF x.val >= 0 THEN (x.val + 5) \div 10 ELSE -((5 - x.val) \div 10)

Defaults(task) ==
    CASE task = "rc_ac" ->
           [resistance_ohm |-> Finite(2), capacitance_f |-> Finite(1),
            ac_start_hz |-> Finite(1), ac_stop_hz |-> Finite(3),
            points_per_decade |-> Finite(200)]
      [] task = "rc_tran" ->
           [resistance_ohm |-> Finite(2), capacitance_f |-> Finite(1),
            input_voltage_v |-> Finite(1), tran_step_s |-> Finite(1),
            tran_stop_s |-> Finite(3)]
      [] task = "divider_dc" ->
           [top_resistance_ohm |-> Finite(2), bottom_resistance_ohm |-> Finite(2),
            dc_start_v |-> Finite(0), dc_stop_v |-> Finite(3), dc_step_v |-> Finite(1)]

\* ngspice_*_config_from_state: a parameter the task does not know is ignored.
ConfigFromState(task, state) ==
    [name \in DOMAIN Defaults(task) |->
        IF name \in DOMAIN state THEN state[name] ELSE Defaults(task)[name]]

Positive(x) == x.finite /\ x.val > 0
Above(x, y) == x.finite /\ x.val > y.val

\* render_ngspice_*_netlist throws std::invalid_argument for any other configuration.
Renders(task, c) ==
    CASE task = "rc_ac" ->
           /\ Positive(c.resistance_ohm) /\ Positive(c.capacitance_f)
           /\ Positive(c.ac_start_hz) /\ Above(c.ac_stop_hz, c.ac_start_hz)
           /\ Rounded(c.points_per_decade) > 0
      [] task = "rc_tran" ->
           /\ Positive(c.resistance_ohm) /\ Positive(c.capacitance_f)
           /\ c.input_voltage_v.finite
           /\ Positive(c.tran_step_s) /\ Above(c.tran_stop_s, c.tran_step_s)
      [] task = "divider_dc" ->
           /\ Positive(c.top_resistance_ohm) /\ Positive(c.bottom_resistance_ohm)
           /\ c.dc_start_v.finite /\ Positive(c.dc_step_v)
           /\ Above(c.dc_stop_v, c.dc_start_v)
===============================================================================
