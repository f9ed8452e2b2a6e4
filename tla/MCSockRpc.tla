----------------------------- MODULE MCSockRpc -----------------------------
(* SockRpc with two loader entries, two hook callbacks, two functions of   *)
(* the interface and strings; the width of the length is two bits, so that *)
(* length 3 is the longest that fits.                                      *)
EXTENDS SockRpc, TLC
=============================================================================
