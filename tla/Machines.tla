------------------------------ MODULE Machines ------------------------------
(***************************************************************************)
(* What the node manager promises about the life of a machine, without     *)
(* tasks, locks or networks.  NodeManager implements it.                   *)
(*                                                                         *)
(* A machine is started once, listed, taken out of the list once and       *)
(* stopped.  While one request starts or stops machines nothing else is    *)
(* started or taken.  A start that fails, a stop that is cancelled and the *)
(* end of the manager leave a machine to itself: its process may run on    *)
(* ("abandoned") until it ends, and it is never listed again.              *)
(***************************************************************************)
CONSTANT Machine

VARIABLES phase,  \* of each machine
          open    \* the manager takes requests
vars == <<phase, open>>

Busy == \E m \in Machine : phase[m] \in {"starting", "stopping"}
Listed == {m \in Machine : phase[m] = "listed"}

\* Where a machine is when nobody looks after it.
LeftAlone == {"absent", "abandoned", "gone"}

-----------------------------------------------------------------------------
Init == phase = [m \in Machine |-> "absent"] /\ open = TRUE

Start(m) ==
    /\ open /\ ~Busy /\ phase[m] = "absent"
    /\ phase' = [phase EXCEPT ![m] = "starting"]
    /\ UNCHANGED open

StartSucceeds(m) ==
    /\ phase[m] = "starting"
    /\ phase' = [phase EXCEPT ![m] = "listed"]
    /\ UNCHANGED open

StartFails(m) ==
    /\ phase[m] = "starting"
    /\ \E p \in LeftAlone : phase' = [phase EXCEPT ![m] = p]
    /\ UNCHANGED open

\* One machine is taken out of the list, or all of them.
Take(S) ==
    /\ open /\ ~Busy /\ S # {}
    /\ S = Listed \/ \E m \in Listed : S = {m}
    /\ phase' = [m \in Machine |-> IF m \in S THEN "stopping" ELSE phase[m]]
    /\ UNCHANGED open

Stop(m) ==
    /\ phase[m] = "stopping"
    /\ phase' = [phase EXCEPT ![m] = "gone"]
    /\ UNCHANGED open

StopCancelled(m) ==
    /\ phase[m] = "stopping"
    /\ phase' = [phase EXCEPT ![m] = "abandoned"]
    /\ UNCHANGED open

Dies(m) ==
    /\ phase[m] = "abandoned"
    /\ phase' = [phase EXCEPT ![m] = "gone"]
    /\ UNCHANGED open

\* What was being started or stopped, or was still listed, is left alone.
Close ==
    /\ open
    /\ open' = FALSE
    /\ phase' \in [Machine -> LeftAlone]
    /\ \A m \in Machine : phase[m] \in LeftAlone => phase'[m] = phase[m]

Next ==
    \/ \E m \in Machine :
          Start(m) \/ StartSucceeds(m) \/ StartFails(m) \/ Stop(m) \/ StopCancelled(m) \/ Dies(m)
    \/ \E S \in SUBSET Listed : Take(S)
    \/ Close

Spec == Init /\ [][Next]_vars
=============================================================================
