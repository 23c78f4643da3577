---------------------------- MODULE SimulatorProbe ----------------------------
(***************************************************************************)
(* find_simulator (src/toolchain/simulator_probe.cpp): the executable that *)
(* a session starts.  An environment variable may name it; otherwise the   *)
(* directories of PATH are searched.  A path is a directory and a name;    *)
(* "" is an empty piece of PATH, which is passed over.                     *)
(***************************************************************************)
EXTENDS Integers, Sequences, SequencesExt

CONSTANTS
    Machines, \* explicit: what the variable of each kind names, or Unset;
              \* path: the pieces of PATH; files: what is at each path
    Unset     \* no such variable, or an empty one

ASSUME MachinesAssumption == \A m \in Machines : m.path \in Seq(STRING)

Kinds == {"spectre", "ngspice"}

\* A regular file with an execute bit, whoever's it is.
IsExecutable(m, at) == at \in DOMAIN m.files /\ m.files[at] = "executable"

Names(kind) ==
    IF kind = "spectre" THEN <<"spectre">> ELSE <<"ngspice_con", "ngspice">>

\* Mutant: each name is looked for in the whole of PATH.
Candidates_ByName(kind, m) ==
    LET names == Names(kind)
        n == Len(m.path)
    IN  [k \in 1..(n * Len(names)) |->
            <<m.path[((k - 1) % n) + 1], names[((k - 1) \div n) + 1]>>]

\* Directory by directory, and in each the console build of ngspice first.
Candidates(kind, m) ==
    LET names == Names(kind)
        n == Len(names)
    IN  [k \in 1..(Len(m.path) * n) |->
            <<m.path[((k - 1) \div n) + 1], names[((k - 1) % n) + 1]>>]

IsCandidate(m, at) == at[1] # "" /\ IsExecutable(m, at)

FirstCandidate(kind, m) ==
    SelectInSeq(Candidates(kind, m), LAMBDA at : IsCandidate(m, at))

NotFound == [found |-> FALSE]
FoundAt(at, source) == [found |-> TRUE, at |-> at, source |-> source]

\* A variable that names no executable is passed over without a word.
FindSimulator(kind, m) ==
    LET k == FirstCandidate(kind, m)
    IN  CASE IsExecutable(m, m.explicit[kind]) -> FoundAt(m.explicit[kind], "env")
          [] ~IsExecutable(m, m.explicit[kind]) /\ k = 0 -> NotFound
          [] OTHER -> FoundAt(Candidates(kind, m)[k], "path")

-------------------------------------------------------------------------------
\* The executables of a kind that PATH offers, each by the position of its directory.
Offers(kind, m) ==
    {o \in (DOMAIN m.path) \X {"spectre", "ngspice_con", "ngspice"} :
        /\ o[2] = "spectre" <=> kind = "spectre"
        /\ m.path[o[1]] # "" /\ IsExecutable(m, <<m.path[o[1]], o[2]>>)}

\* A simulator is found exactly if the variable or PATH offers one, and it is the one the
\* variable names if that can be executed, else one of the first directory of PATH that
\* offers any, there the console build if there is one.
FindsFirstOffer ==
    \A m \in Machines, kind \in Kinds :
        LET handle == FindSimulator(kind, m)
            offers == Offers(kind, m)
        IN  IF IsExecutable(m, m.explicit[kind])
            THEN handle = FoundAt(m.explicit[kind], "env")
            ELSE /\ handle.found <=> offers # {}
                 /\ handle.found =>
                      \E o \in offers :
                         /\ handle = FoundAt(<<m.path[o[1]], o[2]>>, "path")
                         /\ \A other \in offers :
                              \/ o[1] < other[1]
                              \/ o[1] = other[1] /\ (o = other \/ o[2] = "ngspice_con")
===============================================================================
