---------------------------- MODULE MCSignaling ----------------------------
(* Signaling on small sets of rooms, endpoints and connections.            *)
EXTENDS Signaling, TLC

CONSTANTS r1, r2, e1, e2, c1, c2, c3

OneRoom == {r1}
TwoRooms == {r1, r2}
OneEp == {e1}
TwoEps == {e1, e2}
TwoCalls == {c1, c2}
ThreeCalls == {c1, c2, c3}

MCSymmetry == Permutations(TwoEps) \cup Permutations(TwoCalls)
=============================================================================
