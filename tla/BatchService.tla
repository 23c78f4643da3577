----------------------------- MODULE BatchService -----------------------------
(***************************************************************************)
(* What evaluate_batch promises its caller, with no mention of workers: a  *)
(* batch of n parameter states has n slots; each slot is answered once,    *)
(* by a run of its own job or by a refusal; a slot is taken up only while  *)
(* the service is open; the batch returns when every slot is answered.     *)
(***************************************************************************)
EXTENDS Naturals

CONSTANT MaxJobs  \* bound on the size of a batch

VARIABLES
    open,  \* the service accepts batches and takes up slots
    size,  \* slots of the batch in progress; 0 when there is none
    slot   \* what became of each slot

svars == <<open, size, slot>>

Indices == 0..(MaxJobs - 1)
SlotStates == {"none", "waiting", "taken", "ran", "refused"}

SInit == open = FALSE /\ size = 0 /\ slot = [i \in Indices |-> "none"]

SOpen == ~open /\ size = 0 /\ open' = TRUE /\ UNCHANGED <<size, slot>>

SClose == open /\ open' = FALSE /\ UNCHANGED <<size, slot>>

SSubmit ==
    /\ open /\ size = 0
    /\ \E n \in 1..MaxJobs :
          /\ size' = n
          /\ slot' = [i \in Indices |-> IF i < n THEN "waiting" ELSE "none"]
    /\ UNCHANGED open

STake(i) ==
    /\ open /\ slot[i] = "waiting"
    /\ slot' = [slot EXCEPT ![i] = "taken"]
    /\ UNCHANGED <<open, size>>

SAnswer(i) ==
    /\ slot[i] = "taken"
    /\ slot' = [slot EXCEPT ![i] = "ran"]
    /\ UNCHANGED <<open, size>>

SRefuse(i) ==
    /\ slot[i] = "waiting"
    /\ slot' = [slot EXCEPT ![i] = "refused"]
    /\ UNCHANGED <<open, size>>

SReturn ==
    /\ size > 0
    /\ \A i \in 0..(size - 1) : slot[i] \in {"ran", "refused"}
    /\ size' = 0 /\ slot' = [i \in Indices |-> "none"]
    /\ UNCHANGED open

SNext ==
    \/ SOpen \/ SClose \/ SSubmit \/ SReturn
    \/ \E i \in Indices : STake(i) \/ SAnswer(i) \/ SRefuse(i)

SSpec == SInit /\ [][SNext]_svars
===============================================================================
