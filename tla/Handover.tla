------------------------------ MODULE Handover ------------------------------
(***************************************************************************)
(* What the transmission promises, whatever its protocol: a file that the  *)
(* drone has finished stays on it until the client has it, and a file that *)
(* has been given up is not made again.                                    *)
(***************************************************************************)
CONSTANT Item          \* the files there can be

VARIABLES
  produced,   \* files finished so far
  drone,      \* finished files that are on the drone
  client      \* files that have been whole on the client

Init ==
  /\ produced = {}
  /\ drone = {}
  /\ client = {}

Produce(i) ==
  /\ i \notin produced
  /\ produced' = produced \cup {i}
  /\ drone' = drone \cup {i}
  /\ UNCHANGED client

Deliver(i) ==
  /\ i \in drone \ client
  /\ client' = client \cup {i}
  /\ UNCHANGED <<produced, drone>>

\* One file, or a whole session, leaves the drone.
Discard ==
  /\ drone' \subseteq drone
  /\ drone \ drone' \subseteq client
  /\ UNCHANGED <<produced, client>>

Next ==
  \/ \E i \in Item : Produce(i) \/ Deliver(i)
  \/ Discard

Spec == Init /\ [][Next]_<<produced, drone, client>>
=============================================================================
