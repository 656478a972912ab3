------------------------------ MODULE MCSinSvc ------------------------------
(***************************************************************************)
(* SinSvc for TLC.  Frames and peers are interchangeable in the safety     *)
(* runs: nothing in the code orders them.                                  *)
(***************************************************************************)
EXTENDS SinSvc, TLC

CONSTANTS f1, f2, p1, p2

MCFrames1 == {f1}
MCFrames2 == {f1, f2}
MCPeers == {p1, p2}
MCLens == {0, 1, 2}
MCLongLens == {2, 3}
MCGoodLens == {1, 2}

Sym2 == Permutations(MCFrames2) \cup Permutations(MCPeers)
=============================================================================
