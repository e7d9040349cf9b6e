---------------------------- MODULE MCHostThread ----------------------------
(* HostThread for TLC: two servers on the same core, of which one may run. *)
EXTENDS HostThread, TLC
CONSTANTS s1, s2, core

OneCore == s1 :> {core} @@ s2 :> {core}
OneOrNone == {s1 :> 2 @@ s2 :> Absent, s1 :> Absent @@ s2 :> Absent}
S1Incremental == s1 :> TRUE @@ s2 :> FALSE
AskedActs ==
  ({s1} \X {"start", "startRebuild", "terminate", "createImage"})
    \cup ({s2} \X {"rebuild", "shutoff", "createImageRef"})
=============================================================================
