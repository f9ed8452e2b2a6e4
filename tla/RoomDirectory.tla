--------------------------- MODULE RoomDirectory ---------------------------
(***************************************************************************)
(* What signaling.py promises the two sides of a game: a directory from    *)
(* rooms to a host and a set of joined clients.  Every call takes effect   *)
(* at one instant between its arrival and its reply, the reply tells that  *)
(* effect, and a room vanishes no earlier than TTL after the arrival of    *)
(* the call that last registered or joined it.                             *)
(***************************************************************************)
EXTENDS Naturals

CONSTANTS Rooms, Eps, Calls, TTL, MaxClock, None

VARIABLES
  dir,     \* per room: None, or its host, its clients and its age stamp
  clock,
  phase,   \* per call: "idle", "asked" or "done"
  req,     \* per call: what was asked
  at,      \* per call: when
  value    \* per call: the reply

vars == <<dir, clock, phase, req, at, value>>

Ops == [op : {"register", "join", "poll"}, room : Rooms, ep : Eps]

NoOp == [op |-> "none", room |-> None, ep |-> None]

Reply(kind, host, clients) ==
  [kind |-> kind, host |-> host, clients |-> clients]
NoReply == Reply("none", None, {})

Init ==
  /\ dir = [r \in Rooms |-> None]
  /\ clock = 0
  /\ phase = [c \in Calls |-> "idle"]
  /\ req = [c \in Calls |-> NoOp]
  /\ at = [c \in Calls |-> 0]
  /\ value = [c \in Calls |-> NoReply]

Tick ==
  /\ clock < MaxClock /\ clock' = clock + 1
  /\ UNCHANGED <<dir, phase, req, at, value>>

Ask(c, o) ==
  /\ phase[c] = "idle" /\ phase' = [phase EXCEPT ![c] = "asked"]
  /\ req' = [req EXCEPT ![c] = o]
  /\ at' = [at EXCEPT ![c] = clock]
  /\ UNCHANGED <<dir, clock, value>>

\* Call c takes effect: room becomes `entry' and the caller will be told v.
Effect(c, entry, v) ==
  /\ phase[c] = "asked" /\ phase' = [phase EXCEPT ![c] = "done"]
  /\ dir' = [dir EXCEPT ![req[c].room] = entry]
  /\ value' = [value EXCEPT ![c] = v]
  /\ UNCHANGED <<clock, req, at>>

Register(c) ==
  /\ req[c].op = "register"
  /\ \E born \in at[c]..clock :
       Effect(c, [host |-> req[c].ep, clients |-> {}, born |-> born],
              Reply("registered", None, {}))

Join(c) ==
  LET room == dir[req[c].room]
  IN  /\ req[c].op = "join"
      /\ IF room = None
         THEN Effect(c, None, Reply("not found", None, {}))
         ELSE Effect(c, [host |-> room.host,
                         clients |-> room.clients \cup {req[c].ep},
                         born |-> clock],
                     Reply("host", room.host, {}))

\* A room that is not there looks like one without a host and clients.
Poll(c) ==
  LET room == dir[req[c].room]
  IN  /\ req[c].op = "poll"
      /\ Effect(c, room, IF room = None THEN Reply("room", None, {})
                         ELSE Reply("room", room.host, room.clients))

Vanish ==
  /\ \E R \in SUBSET Rooms :
       /\ \A r \in R : dir[r] # None => dir[r].born + TTL <= clock
       /\ dir' = [r \in Rooms |-> IF r \in R THEN None ELSE dir[r]]
  /\ UNCHANGED <<clock, phase, req, at, value>>

Return(c) ==
  /\ phase[c] = "done" /\ phase' = [phase EXCEPT ![c] = "idle"]
  /\ req' = [req EXCEPT ![c] = NoOp]
  /\ at' = [at EXCEPT ![c] = 0]
  /\ value' = [value EXCEPT ![c] = NoReply]
  /\ UNCHANGED <<dir, clock>>

Next ==
  \/ Tick \/ Vanish
  \/ \E c \in Calls : Register(c) \/ Join(c) \/ Poll(c) \/ Return(c)
  \/ \E c \in Calls, o \in Ops : Ask(c, o)

Spec == Init /\ [][Next]_vars
=============================================================================
