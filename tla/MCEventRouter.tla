--------------------------- MODULE MCEventRouter ---------------------------
(***************************************************************************)
(* The event router on its own: two topics, two endpoints, one holder of  *)
(* the fan-in sender, three published events.                              *)
(***************************************************************************)
EXTENDS EventRouter

\* A topic is declared with capacity 1 (as Control and State are) or 2
\* (standing for the larger buffers of the high-volume topics).
MCCapacities == {1, 2}

=============================================================================
