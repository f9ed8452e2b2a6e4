------------------------------ MODULE SockRpc ------------------------------
(***************************************************************************)
(* Mods behind a socket (sock_ffi.cpp, sock_ffi.hpp, and the client's      *)
(* SockFFIClient/main.cpp, socket.hpp).                                    *)
(*                                                                         *)
(* The game runs a function of the mod by name; the mod calls functions of *)
(* the interface by index until its function returns, which index 0 says.  *)
(* A function of the interface may, through a hook, run another function   *)
(* of the mod first, so that each side waits for the other in the middle   *)
(* of a call of its own.                                                   *)
(*                                                                         *)
(* Both directions are byte streams: a reader takes what comes next for    *)
(* what it expects.  Here they are sequences of values, and a reader that  *)
(* finds another one than it expects stops.  Exceptions that leave a       *)
(* function of the interface, and a socket that closes, are not modelled.  *)
(***************************************************************************)
EXTENDS Naturals, Sequences

CONSTANTS
  Entries, Callbacks, Api,    \* see CallStack
  Library,      \* functions the mod's library has
  Void,         \* functions of the interface that return nothing
  Lengths,      \* lengths of the strings passed and returned
  Modulus,      \* 2^16: lengths are sent in a uint16_t
  MaxDepth      \* bound: calls on a stack

ASSUME DisjointAssumption == (Entries \cup Callbacks) \cap Api = {}
ASSUME VoidAssumption == Void \subseteq Api
ASSUME LengthAssumption ==
  Lengths \subseteq Nat /\ Modulus \in Nat \ {0} /\ MaxDepth \in Nat

\* What a mod has to see to: its library has the callbacks it hooks, and no
\* string is too long for its length.
ASSUME ModAssumption ==
  Callbacks \subseteq Library /\ \A len \in Lengths : len < Modulus

VARIABLES
  server,       \* calls on the stack of the game, innermost last
  serverPc,     \* "running": the game's code.  In simpleCall: "ack", "loop".
                \* In doRpcCall: "args"
  client,       \* calls on the stack of the client
  clientPc,     \* "running": the mod's code.  In waitForCommand: "command",
                \* "name".  In doRpcCall_: "result"
  toClient, toServer

vars == <<server, serverPc, client, clientPc, toClient, toServer>>

Bool(b) == [type |-> "bool", value |-> b]
Name(f) == [type |-> "name", value |-> f]
Index(f) == [type |-> "index", value |-> f]     \* of function f
Exit == [type |-> "exit"]                        \* index 0
Text(len) == [type |-> "string", len |-> len]
Rest(len) == [type |-> "rest", len |-> len]      \* of a string, unread

Init ==
  /\ server = <<>> /\ serverPc = "running"
  /\ client = <<>> /\ clientPc = "command"
  /\ toClient = <<>> /\ toServer = <<>>

Top(s) == s[Len(s)]
Pop(s) == SubSeq(s, 1, Len(s) - 1)

\* Faulty: the length is cut to half its width.
AfterShortString(chan) ==
  LET len == Head(chan).len
  IN  IF len < Modulus \div 2 THEN Tail(chan) ELSE <<Rest(len)>> \o Tail(chan)

\* receiveString: the sender's length went through a uint16_t.
AfterString(chan) ==
  LET len == Head(chan).len
  IN  IF len < Modulus THEN Tail(chan)
      ELSE <<Rest(len - (len % Modulus))>> \o Tail(chan)

-----------------------------------------------------------------------------
(* The game.                                                               *)

\* simpleCall, by the loader, when the mod is not running, or by ffiHook.
SimpleCall(f) ==
  /\ serverPc = "running" /\ Len(server) < MaxDepth
  /\ f \in Callbacks \/ server = <<>>
  /\ toClient' = toClient \o <<Bool(FALSE), Name(f)>>
  /\ server' = Append(server, f) /\ serverPc' = "ack"
  /\ UNCHANGED <<client, clientPc, toServer>>

\* Whether the client has the function.
ReceiveAck ==
  /\ serverPc = "ack" /\ toServer # <<>> /\ Head(toServer).type = "bool"
  /\ toServer' = Tail(toServer)
  /\ IF Head(toServer).value
     THEN serverPc' = "loop" /\ UNCHANGED server
     ELSE serverPc' = "running" /\ server' = Pop(server)
  /\ UNCHANGED <<client, clientPc, toClient>>

\* Faulty: simpleCall does not wait for index 0.
ReturnAtOnce ==
  /\ serverPc = "loop"
  /\ server' = Pop(server) /\ serverPc' = "running"
  /\ UNCHANGED <<client, clientPc, toClient, toServer>>

\* The client's function has returned.
ReceiveExit ==
  /\ serverPc = "loop" /\ toServer # <<>> /\ Head(toServer).type = "exit"
  /\ toServer' = Tail(toServer)
  /\ server' = Pop(server) /\ serverPc' = "running"
  /\ UNCHANGED <<client, clientPc, toClient>>

\* Faulty: the index is not the one the client means.
ReceiveOtherIndex ==
  /\ serverPc = "loop" /\ toServer # <<>> /\ Head(toServer).type = "index"
  /\ toServer' = Tail(toServer)
  /\ \E f \in Api \ {Head(toServer).value} : server' = Append(server, f)
  /\ serverPc' = "args"
  /\ UNCHANGED <<client, clientPc, toClient>>

ReceiveIndex ==
  /\ serverPc = "loop" /\ toServer # <<>> /\ Head(toServer).type = "index"
  /\ toServer' = Tail(toServer)
  /\ server' = Append(server, Head(toServer).value) /\ serverPc' = "args"
  /\ UNCHANGED <<client, clientPc, toClient>>

\* doRpcCall reads the arguments and calls the handler.
ReceiveArgs ==
  /\ serverPc = "args" /\ toServer # <<>> /\ Head(toServer).type = "string"
  /\ toServer' = AfterString(toServer) /\ serverPc' = "running"
  /\ UNCHANGED <<server, client, clientPc, toClient>>

\* Faulty: the result is sent without the word that the handler has finished.
SendResultOnly(len) ==
  /\ serverPc = "running" /\ server # <<>>
  /\ toClient' = toClient \o <<Text(len)>>
  /\ server' = Pop(server) /\ serverPc' = "loop"
  /\ UNCHANGED <<client, clientPc, toServer>>

\* What the game sends when function f has returned.
Answer(f, len) == IF f \in Void THEN <<Bool(TRUE)>> ELSE <<Bool(TRUE), Text(len)>>

\* The handler has returned.
HandlerReturns(len) ==
  /\ serverPc = "running" /\ server # <<>>
  /\ toClient' = toClient \o Answer(Top(server), len)
  /\ server' = Pop(server) /\ serverPc' = "loop"
  /\ UNCHANGED <<client, clientPc, toServer>>

-----------------------------------------------------------------------------
(* The client.                                                             *)

\* waitForCommand returns, to the main loop or to a call that reads its result,
\* if it has one.
WaitReturns ==
  \/ client = <<>> /\ clientPc' = "command" /\ UNCHANGED client
  \/ /\ client # <<>> /\ Top(client) \in Void
     /\ clientPc' = "running" /\ client' = Pop(client)
  \/ /\ client # <<>> /\ Top(client) \notin Void
     /\ clientPc' = "result" /\ UNCHANGED client

\* waitForCommand: FALSE says that a function of the mod should run, TRUE that
\* one of the interface has finished.
ReceiveCommand ==
  /\ clientPc = "command" /\ toClient # <<>> /\ Head(toClient).type = "bool"
  /\ toClient' = Tail(toClient)
  /\ IF Head(toClient).value THEN WaitReturns
     ELSE clientPc' = "name" /\ UNCHANGED client
  /\ UNCHANGED <<server, serverPc, toServer>>

\* waitForCommand runs the function.  Without one it returns, also to a caller
\* that waits for one of the interface.
ReceiveName ==
  /\ clientPc = "name" /\ toClient # <<>> /\ Head(toClient).type = "name"
  /\ toClient' = Tail(toClient)
  /\ LET f == Head(toClient).value
     IN  /\ toServer' = Append(toServer, Bool(f \in Library))
         /\ IF f \in Library
            THEN client' = Append(client, f) /\ clientPc' = "running"
            ELSE WaitReturns
  /\ UNCHANGED <<server, serverPc>>

\* Faulty: the client does not wait for the handler.
RpcCallNoWait(f, len) ==
  /\ clientPc = "running" /\ Len(client) < MaxDepth
  /\ toServer' = toServer \o <<Index(f), Text(len)>>
  /\ client' = Append(client, f) /\ clientPc' = "result"
  /\ UNCHANGED <<server, serverPc, toClient>>

\* The mod calls a function of the interface.
RpcCall(f, len) ==
  /\ clientPc = "running" /\ Len(client) < MaxDepth
  /\ toServer' = toServer \o <<Index(f), Text(len)>>
  /\ client' = Append(client, f) /\ clientPc' = "command"
  /\ UNCHANGED <<server, serverPc, toClient>>

ReceiveResult ==
  /\ clientPc = "result" /\ toClient # <<>> /\ Head(toClient).type = "string"
  /\ toClient' = AfterString(toClient)
  /\ client' = Pop(client) /\ clientPc' = "running"
  /\ UNCHANGED <<server, serverPc, toServer>>

\* The mod's function has returned; waitForCommand waits for the next command.
FunctionReturns ==
  /\ clientPc = "running"
  /\ toServer' = Append(toServer, Exit)
  /\ client' = Pop(client) /\ clientPc' = "command"
  /\ UNCHANGED <<server, serverPc, toClient>>

-----------------------------------------------------------------------------
Next ==
  \/ \E f \in Entries \cup Callbacks : SimpleCall(f)
  \/ ReceiveAck \/ ReceiveExit \/ ReceiveIndex \/ ReceiveArgs
  \/ \E len \in Lengths : HandlerReturns(len)
  \/ ReceiveCommand \/ ReceiveName \/ ReceiveResult \/ FunctionReturns
  \/ \E f \in Api, len \in Lengths : RpcCall(f, len)

Spec == Init /\ [][Next]_vars

-----------------------------------------------------------------------------
(* Properties.                                                             *)

Functions == Entries \cup Callbacks
Items ==
       [type : {"bool"}, value : BOOLEAN] \cup [type : {"name"}, value : Functions]
  \cup [type : {"index"}, value : Api] \cup [type : {"exit"}]
  \cup [type : {"string"}, len : Nat]

\* Types; nothing of a string is left unread in a stream.
TypeOK ==
  /\ server \in Seq(Functions \cup Api) /\ client \in Seq(Functions \cup Api)
  /\ serverPc \in {"running", "ack", "loop", "args"}
  /\ clientPc \in {"running", "command", "name", "result"}
  /\ toClient \in Seq(Items) /\ toServer \in Seq(Items)

Expected(pc) ==
  CASE pc = "ack" -> {"bool"}    [] pc = "loop" -> {"index", "exit"}
    [] pc = "args" -> {"string"} [] pc = "command" -> {"bool"}
    [] pc = "name" -> {"name"}   [] pc = "result" -> {"string"}
    [] OTHER -> {}

Reads(pc, chan) ==
  pc = "running" \/ chan = <<>> \/ Head(chan).type \in Expected(pc)

\* However the calls nest, each side reads what the other wrote, as what it is.
InSync == Reads(serverPc, toServer) /\ Reads(clientPc, toClient)

\* The mod runs only while the game waits for it, and the game runs a handler
\* only while the mod waits: they never run at the same time, so that a mod in a
\* process of its own may use the game's objects like one that is a library.
OneAtATime == serverPc = "running" => clientPc # "running"

\* "Function has finished executing" (sock_ffi.cpp:146): the client reads a
\* result only after the handler has returned.
FinishedFirst == clientPc = "result" => Len(server) < Len(client)

\* The two stacks are one: the longer of them behaves as the stack of calls of
\* a mod that is a library.
Longer == IF Len(server) >= Len(client) THEN server ELSE client

Calls == INSTANCE CallStack WITH calls <- Longer
ImplementsCallStack == Calls!Spec
=============================================================================
