-------------------------- MODULE MC_BoardSession --------------------------
(* Bounded instance of BoardSession. *)
EXTENDS BoardSession

\* From the time the handlers are installed.
TrappedSteps == SettledSteps \cup {"logo", "loginflush", "commitflush"}
=============================================================================
