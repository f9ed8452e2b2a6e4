----------------------------- MODULE Signaling -----------------------------
(***************************************************************************)
(* The signaling server (signaling.py), called by SignalingClient          *)
(* (UltimatePhobia/signaling_client.cpp).                                  *)
(*                                                                         *)
(* ThreadingHTTPServer runs every request in a thread of its own; rooms is *)
(* guarded by rooms_lock, but a handler takes the lock more than once and  *)
(* reads the clock outside of it.  One action is one critical section, or  *)
(* one read of the clock.  A caller may give up while its request is still *)
(* being handled, and ask again over another connection.                   *)
(***************************************************************************)
EXTENDS Integers, Sequences, SequencesExt

CONSTANTS
  Rooms,      \* room ids: hashes of the games' names
  Eps,        \* public endpoints of hosts and joining proxies
  Calls,      \* connections, each with its server thread
  TTL,        \* ROOM_TTL_SECONDS
  MaxClock,   \* bound: the clock stops there
  None        \* no room

Room == [host : Eps, clients : Seq(Eps), expiresAt : Nat]

ASSUME BoundsAssumption == TTL \in Nat /\ MaxClock \in Nat
\* A room as RoomDirectory sees it.
Entry == [host : Eps, clients : SUBSET Eps, born : Int]
ASSUME NoneAssumption == None \notin Room /\ None \notin Entry

VARIABLES
  rooms,      \* the dict; None where there is no entry
  clock,      \* time.time()
  pc, req,    \* per thread: where it is, the request it handles
  at,         \* per thread: history, when the request arrived
  now,        \* per thread: the time it read last
  reply       \* per thread: the response it computed under the lock

vars == <<rooms, clock, pc, req, at, now, reply>>

Ops == [op : {"register", "join", "poll"}, room : Rooms, ep : Eps]

Reply(kind, host, clients) ==
  [kind |-> kind, host |-> host, clients |-> clients]
NoReply == Reply("none", None, <<>>)
NoOp == [op |-> "none", room |-> None, ep |-> None]

Init ==
  /\ rooms = [r \in Rooms |-> None]
  /\ clock = 0
  /\ pc = [c \in Calls |-> "idle"]
  /\ req = [c \in Calls |-> NoOp]
  /\ at = [c \in Calls |-> 0]
  /\ now = [c \in Calls |-> 0]
  /\ reply = [c \in Calls |-> NoReply]

Tick ==
  /\ clock < MaxClock /\ clock' = clock + 1
  /\ UNCHANGED <<rooms, pc, req, at, now, reply>>

-----------------------------------------------------------------------------
(* SignalingClient.                                                        *)

\* SignalingClient::Impl::request, one request of one of its callers.  When the
\* response is lost, or does not come in time, the handler still runs, and the
\* caller may ask again over another connection.
Call(c, o) ==
  /\ pc[c] = "idle"
  /\ pc' = [pc EXCEPT ![c] = "arrived"]
  /\ req' = [req EXCEPT ![c] = o]
  /\ at' = [at EXCEPT ![c] = clock]
  /\ UNCHANGED <<rooms, clock, now, reply>>

-----------------------------------------------------------------------------
(* The handlers.                                                           *)

Step(c, from, to) == pc[c] = from /\ pc' = [pc EXCEPT ![c] = to]

\* Faulty: the room is never stored.
RegisterNothing(c) ==
  /\ req[c].op = "register" /\ Step(c, "arrived", "send")
  /\ now' = [now EXCEPT ![c] = clock]
  /\ UNCHANGED <<rooms, clock, req, at, reply>>

\* handle_register and put_room up to the lock: _expiresAt is computed here.
StampRegister(c) ==
  /\ req[c].op = "register" /\ Step(c, "arrived", "put")
  /\ now' = [now EXCEPT ![c] = clock]
  /\ UNCHANGED <<rooms, clock, req, at, reply>>

\* put_room under the lock: a fresh room, whatever was there before.
PutRoom(c) ==
  /\ Step(c, "put", "send")
  /\ rooms' = [rooms EXCEPT ![req[c].room] =
                 [host |-> req[c].ep, clients |-> <<>>,
                  expiresAt |-> now[c] + TTL]]
  /\ reply' = [reply EXCEPT ![c] = Reply("registered", None, <<>>)]
  /\ UNCHANGED <<clock, req, at, now>>

\* cleanup_expired_rooms, called by handle_join and get_room: the time is read
\* before the lock is taken.
StampCleanup(c) ==
  /\ req[c].op \in {"join", "poll"} /\ Step(c, "arrived", "cleanup")
  /\ now' = [now EXCEPT ![c] = clock]
  /\ UNCHANGED <<rooms, clock, req, at, reply>>

Expired(r, t) == rooms[r] # None /\ rooms[r].expiresAt <= t

Cleanup(c) ==
  /\ Step(c, "cleanup", req[c].op)
  /\ rooms' = [r \in Rooms |-> IF Expired(r, now[c]) THEN None ELSE rooms[r]]
  /\ UNCHANGED <<clock, req, at, now, reply>>

\* Faulty: no look at whether the client is there, no longer life.
AppendAlways(room, ep) == [room EXCEPT !.clients = Append(@, ep),
                                       !.expiresAt = clock + TTL]
KeepExpiry(room, ep) ==
  [room EXCEPT !.clients = IF ep \in ToSet(@) THEN @ ELSE Append(@, ep)]

\* The room with the client listed and its life renewed.
WithClient(room, ep) ==
  [host |-> room.host,
   clients |-> IF ep \in ToSet(room.clients) THEN room.clients
               ELSE Append(room.clients, ep),
   expiresAt |-> clock + TTL]

\* handle_join under the lock.
JoinRoom(c) ==
  LET room == rooms[req[c].room]
  IN  /\ Step(c, "join", "send")
      /\ IF room = None
         THEN /\ reply' = [reply EXCEPT ![c] = Reply("not found", None, <<>>)]
              /\ UNCHANGED rooms
         ELSE /\ rooms' = [rooms EXCEPT ![req[c].room] =
                             WithClient(room, req[c].ep)]
              /\ reply' = [reply EXCEPT ![c] = Reply("host", room.host, <<>>)]
      /\ UNCHANGED <<clock, req, at, now>>

\* get_room under the lock: a copy of the room.
GetRoom(c) ==
  LET room == rooms[req[c].room]
  IN  /\ Step(c, "poll", "send")
      /\ reply' = [reply EXCEPT ![c] =
                     IF room = None THEN Reply("room", None, <<>>)
                     ELSE Reply("room", room.host, room.clients)]
      /\ UNCHANGED <<rooms, clock, req, at, now>>

\* The response, to a caller that may have given up; the thread ends.
Send(c) ==
  /\ Step(c, "send", "idle")
  /\ req' = [req EXCEPT ![c] = NoOp]
  /\ at' = [at EXCEPT ![c] = 0] /\ now' = [now EXCEPT ![c] = 0]
  /\ reply' = [reply EXCEPT ![c] = NoReply]
  /\ UNCHANGED <<rooms, clock>>

Thread(c) ==
  \/ StampRegister(c) \/ PutRoom(c) \/ StampCleanup(c) \/ Cleanup(c)
  \/ JoinRoom(c) \/ GetRoom(c) \/ Send(c)

Next ==
  \/ Tick
  \/ \E c \in Calls : Thread(c) \/ \E o \in Ops : Call(c, o)

Spec == Init /\ [][Next]_vars

-----------------------------------------------------------------------------
(* Properties.                                                             *)

\* The types; a reply is never missing when it is sent.
TypeOK ==
  /\ rooms \in [Rooms -> Room \cup {None}]
  /\ clock \in Nat
  /\ pc \in [Calls -> {"idle", "arrived", "put", "cleanup", "join", "poll",
                       "send"}]
  /\ req \in [Calls -> Ops \cup {NoOp}]
  /\ at \in [Calls -> Nat] /\ now \in [Calls -> Nat]
  /\ \A c \in Calls : pc[c] = "send" => reply[c].kind # "none"

\* A client that joins again, after a lost reply or in two threads at once, is
\* listed once: the host sends one hello per poll to every joining player.
NoDuplicateClients ==
  \A r \in Rooms : rooms[r] # None =>
    \A i, j \in DOMAIN rooms[r].clients :
      rooms[r].clients[i] = rooms[r].clients[j] => i = j

\* The directory that this server implements.
dir == [r \in Rooms |->
         IF rooms[r] = None THEN None
         ELSE [host |-> rooms[r].host, clients |-> ToSet(rooms[r].clients),
               born |-> rooms[r].expiresAt - TTL]]
phase == [c \in Calls |-> CASE pc[c] = "idle" -> "idle"
                            [] pc[c] = "send" -> "done"
                            [] OTHER -> "asked"]
value == [c \in Calls |->
           [kind |-> reply[c].kind, host |-> reply[c].host,
            clients |-> ToSet(reply[c].clients)]]

Directory == INSTANCE RoomDirectory

\* Every request is atomic for its caller and rooms live as long as promised.
ImplementsDirectory == Directory!Spec
=============================================================================
