------------------------------ MODULE MCWorkflow ------------------------------
(* Options, parameters and batches for TLC, and machines for the probe.    *)
EXTENDS Workflow, TLC

CONSTANTS h1, h2, s1, s2

Good == [simulator |-> "ngspice", netlist |-> "net", base |-> "runs", name |-> "",
         workers |-> 1, timeout |-> 1, restarts |-> 0]
\* A Simulation with Spectre, and one with Ngspice whose caller may pass nonsense.
MCOptions ==
    s1 :> {[Good EXCEPT !.simulator = "spectre"]} @@ s2 :> {Good, [Good EXCEPT !.workers = 0]}

MCBatches ==
    { <<>>, << "p" :> 1, <<>> >>, << "p" :> 1, "p" :> NotFinite >>, << "q" :> 1 >> }

-------------------------------------------------------------------------------
\* The last is in the directory the process runs in.
Paths == ({"/a", "/b"} \X {"spectre", "ngspice_con", "ngspice"}) \cup {<<"", "ngspice_con">>}

MCMachines ==
    { [explicit |-> [kind \in Kinds |-> explicit], path |-> path,
       files |-> [at \in offered \cup {<<"/opt", "sim">>} |->
                    IF at \in offered THEN "executable" ELSE opt]] :
        explicit \in {Unset, <<"/opt", "sim">>}, opt \in {"executable", "plain", "directory"},
        path \in {<<>>, <<"/a">>, <<"", "/b", "/a">>, <<"/a", "/b", "/a">>},
        offered \in SUBSET Paths }
===============================================================================
