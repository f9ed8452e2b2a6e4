----------------------------- MODULE MCP2PHost -----------------------------
(* P2PHost on small sets: one room, one player, two sessions of the host.  *)
EXTENDS P2PHost

CONSTANTS r1, p1, c1

OneRoom == {r1}
OnePlayer == {p1}
OneCall == {c1}
=============================================================================
