--------------------------- MODULE MCSpectreSession ---------------------------
(***************************************************************************)
(* Instances of SpectreSession for TLC.                                    *)
(***************************************************************************)
EXTENDS SpectreSession, TLC

\* A run that failed with one error says so and goes on to its statistics and nil.
OneError ==
    [lines |-> <<Completes(1), Marker("stats"), Marker("nil")>>, ok |-> FALSE]

\* A run may also print chatter, or no verdict at all, and then has to time out.
Chatty == [lines |-> <<Marker("noise"), Marker("stats"), Marker("t")>>, ok |-> TRUE]
Silent == [lines |-> <<Marker("t")>>, ok |-> TRUE]

\* The closing line decides it, and what the interpreter then prints for the run itself
\* stays in the pipe, where the next job finds it, printed already or still to come.
Closing == [lines |-> <<Marker("stats"), Completes(0), Marker("t")>>, ok |-> TRUE]

\* The forms of completion the protocol knows.  What follows the line that decides a run
\* decides nothing on its own.
MCScripts ==
    {Interactive(TRUE), Interactive(FALSE), Classic(0), OneError, Chatty, Silent, Closing}

\* A failed run whose number of errors ends in 0.
MCTenErrors == {Interactive(TRUE), Classic(10)}

\* The condition under which VerdictIsTheRuns is proved tells the two apart.
ASSUME MCScriptsDecideOnce == DecideOnce(MCScripts) /\ ~DecideOnce(MCTenErrors)
===============================================================================
