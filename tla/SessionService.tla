---------------------------- MODULE SessionService ----------------------------
(***************************************************************************)
(* What a SimulatorSession (src/include/su/session.hpp) promises the       *)
(* worker that owns it, with no mention of processes, pipes or files: one  *)
(* call at a time, and what each may return.  A run gives its job to a     *)
(* simulator, again only after what had it is gone; the verdict it returns *)
(* is what that simulation came to; and once it has returned nothing of    *)
(* the job is left that another call could meet.                           *)
(***************************************************************************)
CONSTANT RunFailures \* what run() may return without a simulation's verdict

VARIABLES
    call,   \* the call in progress: "start", "run" or "stop", else "none"
    fresh,  \* where the verdict is read, no earlier job has left one to mistake for it
    job,    \* the simulation of the job: not there, submitted, or what it came to
    answer  \* what the last call returned

cvars == <<call, fresh, job, answer>>

Verdicts == {"success", "sim_failed"}

\* How a call may end without a verdict.
Endings(c) ==
    CASE c = "start" -> {"started", "exception"}
      [] c = "stop" -> {"stopped"}
      [] c = "run" -> RunFailures

CInit == call = "none" /\ fresh \in BOOLEAN /\ job = "none" /\ answer = "stopped"

CCall ==
    /\ call = "none"
    /\ call' \in {"start", "run", "stop"} /\ fresh' \in BOOLEAN /\ answer' = "none"
    /\ UNCHANGED job

\* A call nothing can come into; a run can be one if the session cannot be started.
CAtOnce ==
    /\ call = "none"
    /\ fresh' \in BOOLEAN /\ answer' \in {"started", "stopped", "exception"}
    /\ UNCHANGED <<call, job>>

CSubmit ==
    /\ call = "run" /\ job = "none"
    /\ job' = "submitted"
    /\ UNCHANGED <<call, fresh, answer>>

CFinish ==
    /\ job = "submitted"
    /\ job' \in Verdicts
    /\ UNCHANGED <<call, fresh, answer>>

\* The simulator is gone, or what it said of the job is.
CLose ==
    /\ job # "none"
    /\ job' = "none"
    /\ UNCHANGED <<call, fresh, answer>>

CReturn(a) ==
    /\ call' = "none" /\ job' = "none" /\ answer' = a
    /\ UNCHANGED fresh

CAnswer == call = "run" /\ job \in Verdicts /\ CReturn(job)

\* A verdict an earlier job has left may be taken for this one's.
CAnswerStale == call = "run" /\ ~fresh /\ CReturn("success")

CFail ==
    /\ call # "none"
    /\ \E a \in Endings(call) :
          /\ job = "success" => a # "sim_failed"
          /\ CReturn(a)

CNext ==
    \/ CCall \/ CAtOnce \/ CSubmit \/ CFinish \/ CLose
    \/ CAnswer \/ CAnswerStale \/ CFail

CSpec == CInit /\ [][CNext]_cvars
===============================================================================
