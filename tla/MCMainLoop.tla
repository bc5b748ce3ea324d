----------------------------- MODULE MCMainLoop -----------------------------
(* Instances of the main loop. *)
EXTENDS MainLoop

Once == [interval |-> 2, single |-> TRUE]
Repeated == [interval |-> 1, single |-> FALSE]
OnceAndRepeated == {Once, Repeated}
AllPrograms == {{"files", "messages"}, {"files", "timers"}, {"timers", "calls"}}
=============================================================================
