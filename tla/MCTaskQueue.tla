---------------------------- MODULE MCTaskQueue ----------------------------
(* TaskQueue for TLC: producers and work tasks are model values. *)
EXTENDS TaskQueue
CONSTANTS p1, p2, w1, w2
MCProducers == {p1, p2}
MCWorkTasks == {w1, w2}
=============================================================================
