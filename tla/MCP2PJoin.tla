----------------------------- MODULE MCP2PJoin -----------------------------
(* P2PJoin on small sets: two hosts (a game joined and a game left), one   *)
(* or two local connections, one local socket.                             *)
EXTENDS P2PJoin, TLC

CONSTANTS h1, h2, l1, c1, c2

MCHosts == {h1, h2}
MCLocals == {l1}
OneHandler == {c1}
TwoHandlers == {c1, c2}
=============================================================================
