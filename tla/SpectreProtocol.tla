--------------------------- MODULE SpectreProtocol ---------------------------
(***************************************************************************)
(* The completion protocol of `spectre +interactive`: what a line of the   *)
(* simulator's stdout means to a session that waits for a run to complete  *)
(* (src/session/spectre_protocol.cpp).  A line is abstracted to the marker *)
(* it contains; the "spectre completes" line keeps its error count, since  *)
(* the code recognises a clean run by a substring of that number.          *)
(***************************************************************************)
EXTENDS Naturals

LineKinds == {"handshake", "noise", "stats", "completes", "t", "nil"}

Line == [kind : LineKinds, errors : Nat]

\* A line with a marker and no error count.
Marker(k) == [kind |-> k, errors |-> 0]

\* "spectre completes with n errors, ..."
Completes(n) == [kind |-> "completes", errors |-> n]

(***************************************************************************)
(* line.find("0 errors") != npos.  The decimal form of n followed by       *)
(* " errors" contains "0 errors" exactly when its last digit is 0.         *)
(***************************************************************************)
ContainsZeroErrors(n) == n % 10 = 0

\* *seen_resource_stats after the line.
SeesResourceStats(line, seen) == seen \/ line.kind = "stats"

Verdicts == {"continue", "succeeded", "failed"}

\* The completion a line stands for, given the flag as it was before it.
Classify(line, seen) ==
    CASE line.kind = "completes" /\ ContainsZeroErrors(line.errors) -> "succeeded"
      [] line.kind = "t" /\ SeesResourceStats(line, seen) -> "succeeded"
      [] line.kind = "nil" /\ SeesResourceStats(line, seen) -> "failed"
      [] OTHER -> "continue"

(***************************************************************************)
(* What a run may print.  A script is the sequence of marked lines of one  *)
(* run and whether the simulation was in fact free of errors.              *)
(***************************************************************************)
Interactive(ok) ==
    [lines |-> <<Marker("stats"), Marker(IF ok THEN "t" ELSE "nil")>>, ok |-> ok]

Classic(n) == [lines |-> <<Completes(n)>>, ok |-> n = 0]
==============================================================================
