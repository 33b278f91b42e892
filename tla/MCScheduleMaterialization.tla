---------------------- MODULE MCScheduleMaterialization ----------------------
(* Instances of ScheduleMaterialization for TLC. *)
EXTENDS ScheduleExecution
=============================================================================
