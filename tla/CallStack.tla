----------------------------- MODULE CallStack -----------------------------
(***************************************************************************)
(* What a socket mod is promised (sock_ffi.cpp, SockFFIClient/main.cpp):   *)
(* the game and the mod, two processes, call each other as if the mod were *)
(* a library.  There is one stack of calls: the game calls functions of    *)
(* the mod, those call functions of the interface, and these, through      *)
(* hooks, call functions of the mod again.                                 *)
(***************************************************************************)
EXTENDS Naturals, Sequences

CONSTANTS
  Entries,      \* functions of the mod that the loader calls
  Callbacks,    \* functions of the mod that hooks call
  Api,          \* functions of the interface
  MaxDepth      \* bound: calls on the stack

VARIABLE calls

Init == calls = <<>>

\* Who runs: the game (TRUE), at the bottom and in a function of the interface,
\* or the mod.
GameRuns(s) == Len(s) % 2 = 0

Callees(s) ==
  IF ~GameRuns(s) THEN Api
  ELSE Callbacks \cup IF s = <<>> THEN Entries ELSE {}

Call ==
  /\ Len(calls) < MaxDepth
  /\ \E f \in Callees(calls) : calls' = Append(calls, f)

Return == calls # <<>> /\ calls' = SubSeq(calls, 1, Len(calls) - 1)

Next == Call \/ Return

Spec == Init /\ [][Next]_calls
=============================================================================
