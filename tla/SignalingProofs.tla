-------------------------- MODULE SignalingProofs --------------------------
(***************************************************************************)
(* TLAPS proofs about Signaling: its types, that a client is listed once,  *)
(* and that the threaded server implements the atomic RoomDirectory, for   *)
(* any number of rooms, endpoints and connections and any TTL.  Then what  *)
(* a host sees of it, without dates: the directory that P2PHost assumes.   *)
(***************************************************************************)
EXTENDS Signaling, TLAPS

AnyStep ==
  \/ Tick
  \/ \E c \in Calls :
       \/ StampRegister(c) \/ PutRoom(c) \/ StampCleanup(c) \/ Cleanup(c)
       \/ JoinRoom(c) \/ GetRoom(c) \/ Send(c)
       \/ \E o \in Ops : Call(c, o)

LEMMA StepCases == Next => AnyStep
BY DEF Next, AnyStep, Thread

-----------------------------------------------------------------------------
(* The threads: program counters fit the operations, and the time a thread *)
(* has read lies between the arrival of its request and the present.       *)

Threads ==
  /\ clock \in Nat /\ at \in [Calls -> Nat] /\ now \in [Calls -> Nat]
  /\ pc \in [Calls -> {"idle", "arrived", "put", "cleanup", "join", "poll",
                       "send"}]
  /\ req \in [Calls -> Ops \cup {NoOp}]

ThreadOK(c) ==
  /\ pc[c] # "idle" => req[c] \in Ops
  /\ pc[c] = "put" => req[c].op = "register"
  /\ pc[c] = "cleanup" => req[c].op \in {"join", "poll"}
  /\ pc[c] \in {"join", "poll"} => req[c].op = pc[c]
  /\ at[c] <= clock
  /\ pc[c] \in {"put", "cleanup"} => at[c] <= now[c] /\ now[c] <= clock

ThreadInv == Threads /\ \A c \in Calls : ThreadOK(c)

LEMMA ThreadInvInit == Init => ThreadInv
BY DEF Init, ThreadInv, Threads, ThreadOK, NoOp

LEMMA ThreadInvStep == ThreadInv /\ [Next]_vars => ThreadInv'
<1> SUFFICES ASSUME ThreadInv, [Next]_vars PROVE ThreadInv'
  OBVIOUS
<1> USE DEF ThreadInv, Threads, ThreadOK, NoOp, vars, Step
<1>1. CASE Tick
  BY <1>1 DEF Tick
<1>2. ASSUME NEW c \in Calls, StampRegister(c) PROVE ThreadInv'
  BY <1>2 DEF StampRegister
<1>3. ASSUME NEW c \in Calls, PutRoom(c) PROVE ThreadInv'
  BY <1>3 DEF PutRoom
<1>4. ASSUME NEW c \in Calls, StampCleanup(c) PROVE ThreadInv'
  BY <1>4 DEF StampCleanup
<1>5. ASSUME NEW c \in Calls, Cleanup(c) PROVE ThreadInv'
  BY <1>5 DEF Cleanup
<1>6. ASSUME NEW c \in Calls, JoinRoom(c) PROVE ThreadInv'
  BY <1>6 DEF JoinRoom
<1>7. ASSUME NEW c \in Calls, GetRoom(c) PROVE ThreadInv'
  BY <1>7 DEF GetRoom
<1>8. ASSUME NEW c \in Calls, Send(c) PROVE ThreadInv'
  BY <1>8 DEF Send
<1>9. ASSUME NEW c \in Calls, NEW o \in Ops, Call(c, o) PROVE ThreadInv'
  BY <1>9 DEF Call
<1>10. CASE UNCHANGED vars
  BY <1>10
<1> HIDE DEF ThreadInv, vars
<1> QED
  BY <1>1, <1>2, <1>3, <1>4, <1>5, <1>6, <1>7, <1>8, <1>9, <1>10,
     StepCases DEF AnyStep

-----------------------------------------------------------------------------
(* The replies: computed under the lock, forgotten when sent.              *)

ReplyInv ==
  /\ reply = [c \in Calls |-> reply[c]]
  /\ \A c \in Calls : pc[c] # "send" => reply[c] = NoReply
  /\ \A c \in Calls : pc[c] = "send" => reply[c].kind # "none"

(* The rooms: typed, and no client listed twice.                           *)

NoDuplicates(s) == \A i, j \in DOMAIN s : s[i] = s[j] => i = j

RoomInv ==
  /\ rooms \in [Rooms -> Room \cup {None}]
  /\ \A r \in Rooms : rooms[r] # None => NoDuplicates(rooms[r].clients)

LEMMA WithClientType ==
  ASSUME NEW room \in Room, NEW ep \in Eps, clock \in Nat,
         NoDuplicates(room.clients)
  PROVE  LET w == WithClient(room, ep)
         IN  /\ w \in Room
             /\ NoDuplicates(w.clients)
             /\ w.host = room.host
             /\ w.expiresAt = clock + TTL
             /\ ToSet(w.clients) = ToSet(room.clients) \cup {ep}
<1> DEFINE added == Append(room.clients, ep)
           w == WithClient(room, ep)
<1>1. room.clients \in Seq(Eps) /\ added \in Seq(Eps) /\ room.host \in Eps
  BY DEF Room
<1>2. w.host = room.host /\ w.expiresAt = clock + TTL
      /\ w.clients \in Seq(Eps) /\ w \in Room
  BY <1>1, BoundsAssumption DEF WithClient, Room
<1>3. CASE ep \in ToSet(room.clients)
  BY <1>2, <1>3 DEF WithClient
<1>4. CASE ep \notin ToSet(room.clients)
  <2>1. w.clients = added
    BY <1>4 DEF WithClient
  <2>2. /\ DOMAIN added = DOMAIN room.clients \cup {Len(room.clients) + 1}
        /\ \A i \in DOMAIN room.clients : added[i] = room.clients[i]
        /\ added[Len(room.clients) + 1] = ep
        /\ Len(room.clients) + 1 \notin DOMAIN room.clients
    BY <1>1
  <2>3. ToSet(added) = ToSet(room.clients) \cup {ep}
    BY <2>2 DEF ToSet
  <2>4. NoDuplicates(added)
    BY <2>2, <1>4 DEF NoDuplicates, ToSet
  <2> QED
    BY <1>2, <2>1, <2>3, <2>4
<1> QED
  BY <1>3, <1>4

LEMMA ReplyInvInit == Init => ReplyInv
BY DEF Init, ReplyInv, NoReply, Reply

LEMMA RoomInvInit == Init => RoomInv
BY NoneAssumption DEF Init, RoomInv

LEMMA RoomInvStep == ThreadInv /\ RoomInv /\ [Next]_vars => RoomInv'
<1> SUFFICES ASSUME ThreadInv, RoomInv, [Next]_vars PROVE RoomInv'
  OBVIOUS
<1> USE DEF ThreadInv, Threads, ThreadOK, RoomInv, vars, Step
<1>1. CASE Tick
  BY <1>1 DEF Tick
<1>2. ASSUME NEW c \in Calls, StampRegister(c) PROVE RoomInv'
  BY <1>2 DEF StampRegister
<1>3. ASSUME NEW c \in Calls, PutRoom(c) PROVE RoomInv'
  <2> DEFINE entry == [host |-> req[c].ep, clients |-> <<>>,
                       expiresAt |-> now[c] + TTL]
  <2>1. entry \in Room /\ NoDuplicates(entry.clients)
    BY <1>3, BoundsAssumption DEF PutRoom, Room, Ops, NoDuplicates
  <2>2. rooms' = [rooms EXCEPT ![req[c].room] = entry]
    BY <1>3 DEF PutRoom
  <2> QED
    BY <2>1, <2>2
<1>4. ASSUME NEW c \in Calls, StampCleanup(c) PROVE RoomInv'
  BY <1>4 DEF StampCleanup
<1>5. ASSUME NEW c \in Calls, Cleanup(c) PROVE RoomInv'
  BY <1>5 DEF Cleanup, Expired
<1>6. ASSUME NEW c \in Calls, JoinRoom(c) PROVE RoomInv'
  <2> DEFINE r == req[c].room
             w == WithClient(rooms[r], req[c].ep)
  <2>1. r \in Rooms /\ req[c].ep \in Eps /\ clock \in Nat
    BY <1>6 DEF JoinRoom, Ops
  <2>2. CASE rooms[r] = None
    BY <1>6, <2>2 DEF JoinRoom
  <2>3. CASE rooms[r] # None
    <3>1. w \in Room /\ NoDuplicates(w.clients)
      BY <2>1, <2>3, WithClientType
    <3>2. rooms' = [rooms EXCEPT ![r] = w]
      BY <1>6, <2>3 DEF JoinRoom
    <3> QED
      BY <2>1, <3>1, <3>2
  <2> QED
    BY <2>2, <2>3
<1>7. ASSUME NEW c \in Calls, GetRoom(c) PROVE RoomInv'
  BY <1>7 DEF GetRoom
<1>8. ASSUME NEW c \in Calls, Send(c) PROVE RoomInv'
  BY <1>8 DEF Send
<1>9. ASSUME NEW c \in Calls, NEW o \in Ops, Call(c, o) PROVE RoomInv'
  BY <1>9 DEF Call
<1>10. CASE UNCHANGED vars
  BY <1>10
<1> HIDE DEF RoomInv, vars
<1> QED
  BY <1>1, <1>2, <1>3, <1>4, <1>5, <1>6, <1>7, <1>8, <1>9, <1>10,
     StepCases DEF AnyStep

LEMMA ReplyInvStep ==
  ThreadInv /\ RoomInv /\ ReplyInv /\ [Next]_vars => ReplyInv'
<1> SUFFICES ASSUME ThreadInv, RoomInv, ReplyInv, [Next]_vars PROVE ReplyInv'
  OBVIOUS
<1> USE NoneAssumption
    DEF ThreadInv, Threads, ThreadOK, RoomInv, ReplyInv, vars, Step, NoReply,
        Reply
<1>1. CASE Tick
  BY <1>1 DEF Tick
<1>2. ASSUME NEW c \in Calls, StampRegister(c) PROVE ReplyInv'
  BY <1>2 DEF StampRegister
<1>3. ASSUME NEW c \in Calls, PutRoom(c) PROVE ReplyInv'
  BY <1>3 DEF PutRoom
<1>4. ASSUME NEW c \in Calls, StampCleanup(c) PROVE ReplyInv'
  BY <1>4 DEF StampCleanup
<1>5. ASSUME NEW c \in Calls, Cleanup(c) PROVE ReplyInv'
  BY <1>5 DEF Cleanup
<1>6. ASSUME NEW c \in Calls, JoinRoom(c) PROVE ReplyInv'
  <2>1. pc' = [pc EXCEPT ![c] = "send"]
    BY <1>6 DEF JoinRoom
  <2>2. PICK v : reply' = [reply EXCEPT ![c] = v] /\ v.kind # "none"
    <3>1. CASE rooms[req[c].room] = None
      <4> DEFINE v == [kind |-> "not found", host |-> None, clients |-> <<>>]
      <4>1. reply' = [reply EXCEPT ![c] = v]
        BY <1>6, <3>1 DEF JoinRoom
      <4>2. v.kind # "none"
        OBVIOUS
      <4> HIDE DEF v
      <4> QED
        BY <4>1, <4>2
    <3>2. CASE rooms[req[c].room] # None
      BY <1>6, <3>2 DEF JoinRoom
    <3> QED
      BY <3>1, <3>2
  <2> QED
    BY <2>1, <2>2
<1>7. ASSUME NEW c \in Calls, GetRoom(c) PROVE ReplyInv'
  BY <1>7 DEF GetRoom
<1>8. ASSUME NEW c \in Calls, Send(c) PROVE ReplyInv'
  BY <1>8 DEF Send
<1>9. ASSUME NEW c \in Calls, NEW o \in Ops, Call(c, o) PROVE ReplyInv'
  BY <1>9 DEF Call
<1>10. CASE UNCHANGED vars
  BY <1>10
<1> HIDE DEF ReplyInv, vars
<1> QED
  BY <1>1, <1>2, <1>3, <1>4, <1>5, <1>6, <1>7, <1>8, <1>9, <1>10,
     StepCases DEF AnyStep

-----------------------------------------------------------------------------
(* The invariants.                                                         *)

IInv == ThreadInv /\ RoomInv /\ ReplyInv

LEMMA IInvHolds == Spec => []IInv
<1>1. Init => IInv
  BY ThreadInvInit, RoomInvInit, ReplyInvInit DEF IInv
<1>2. IInv /\ [Next]_vars => IInv'
  BY ThreadInvStep, RoomInvStep, ReplyInvStep DEF IInv
<1> QED
  BY <1>1, <1>2, PTL DEF Spec

\* Types: every thread's state and every room is what signaling.py keeps, and
\* no handler sends a response it has not computed.
THEOREM TypeCorrect == Spec => []TypeOK
<1>1. IInv => TypeOK
  BY DEF IInv, ThreadInv, Threads, RoomInv, ReplyInv, TypeOK
<1> QED
  BY <1>1, IInvHolds, PTL

\* handle_join: however many threads add the same client, it is listed once.
THEOREM ClientsListedOnce == Spec => []NoDuplicateClients
<1>1. IInv => NoDuplicateClients
  BY DEF IInv, RoomInv, NoDuplicates, NoDuplicateClients
<1> QED
  BY <1>1, IInvHolds, PTL

-----------------------------------------------------------------------------
(* The refinement: every step of the server is a step of the directory.    *)

LEMMA DirectoryInit == Init => Directory!Init
<1> SUFFICES ASSUME Init PROVE Directory!Init
  OBVIOUS
<1>1. ToSet(<<>>) = {}
  BY DEF ToSet
<1>2. dir = [r \in Rooms |-> None]
  BY DEF Init, dir
<1>3. phase = [c \in Calls |-> "idle"]
  BY DEF Init, phase
<1>4. value = [c \in Calls |-> Directory!NoReply]
  BY <1>1 DEF Init, value, NoReply, Reply, Directory!NoReply, Directory!Reply
<1> QED
  BY <1>2, <1>3, <1>4 DEF Init, Directory!Init, NoOp, Directory!NoOp

\* The parts of the mapped state, call by call and room by room.
DirEntry(r) ==
  IF rooms[r] = None THEN None
  ELSE [host |-> rooms[r].host, clients |-> ToSet(rooms[r].clients),
        born |-> rooms[r].expiresAt - TTL]

LEMMA DirectoryStutter ==
  ASSUME ThreadInv, NEW c \in Calls,
         StampRegister(c) \/ StampCleanup(c)
  PROVE  UNCHANGED Directory!vars
<1>1. UNCHANGED <<rooms, clock, req, at, reply>>
  BY DEF StampRegister, StampCleanup
<1>2. phase' = phase
  BY DEF ThreadInv, Threads, phase, StampRegister, StampCleanup, Step
<1>3. dir' = dir
  BY <1>1 DEF dir
<1>4. value' = value
  BY <1>1 DEF value
<1> QED
  BY <1>1, <1>2, <1>3, <1>4 DEF Directory!vars

LEMMA DirectoryTick ==
  ASSUME ThreadInv, Tick
  PROVE  Directory!Tick
<1>1. dir' = dir /\ phase' = phase /\ value' = value
  BY DEF Tick, dir, phase, value
<1> QED
  BY <1>1 DEF Tick, Directory!Tick

LEMMA DirectoryAsk ==
  ASSUME ThreadInv, NEW c \in Calls, NEW o \in Ops, Call(c, o)
  PROVE  Directory!Ask(c, o)
<1>1. dir' = dir /\ value' = value
  BY DEF Call, dir, value
<1>2. phase[c] = "idle" /\ phase' = [phase EXCEPT ![c] = "asked"]
  BY DEF Call, phase, ThreadInv, Threads
<1> QED
  BY <1>1, <1>2 DEF Call, Directory!Ask

LEMMA DirectoryReturn ==
  ASSUME ThreadInv, ReplyInv, NEW c \in Calls, Send(c)
  PROVE  Directory!Return(c)
<1>1. dir' = dir
  BY DEF Send, dir
<1>2. phase[c] = "done" /\ phase' = [phase EXCEPT ![c] = "idle"]
  BY DEF Send, Step, phase, ThreadInv, Threads
<1>3. ToSet(<<>>) = {}
  BY DEF ToSet
<1>4. value' = [value EXCEPT ![c] = Directory!NoReply]
  BY <1>3 DEF Send, value, ReplyInv, NoReply, Reply, Directory!NoReply,
              Directory!Reply
<1> QED
  BY <1>1, <1>2, <1>4
  DEF Send, Directory!Return, NoOp, Directory!NoOp

LEMMA EntryOfRoom ==
  ASSUME NEW room \in Room
  PROVE  /\ room.expiresAt - TTL \in Int
         /\ (room.expiresAt - TTL) + TTL = room.expiresAt
         /\ [host |-> room.host, clients |-> ToSet(room.clients),
             born |-> room.expiresAt - TTL] # None
<1>1. /\ room.expiresAt \in Nat /\ TTL \in Nat
      /\ room.host \in Eps /\ room.clients \in Seq(Eps)
  BY BoundsAssumption DEF Room
<1>2. ToSet(room.clients) \in SUBSET Eps
  BY <1>1 DEF ToSet
<1>3. room.expiresAt - TTL \in Int
      /\ (room.expiresAt - TTL) + TTL = room.expiresAt
  BY <1>1
<1> DEFINE born == room.expiresAt - TTL
           set == ToSet(room.clients)
<1>4. born \in Int /\ set \in SUBSET Eps
  BY <1>2, <1>3
<1> HIDE DEF born, set
<1>5. [host |-> room.host, clients |-> set, born |-> born] \in Entry
  BY <1>1, <1>4 DEF Entry
<1>6. [host |-> room.host, clients |-> set, born |-> born] # None
  BY <1>5, NoneAssumption
<1> QED
  BY <1>3, <1>6 DEF born, set

LEMMA DirectoryVanish ==
  ASSUME ThreadInv, RoomInv, NEW c \in Calls, Cleanup(c)
  PROVE  Directory!Vanish
<1> DEFINE R == {r \in Rooms : Expired(r, now[c])}
<1>1. phase' = phase /\ value' = value
  BY DEF Cleanup, Step, phase, value, ThreadInv, Threads, ThreadOK
<1>2. now[c] \in Nat /\ clock \in Nat /\ now[c] <= clock
  BY DEF Cleanup, Step, ThreadInv, Threads, ThreadOK
<1>3. ASSUME NEW r \in R PROVE dir[r].born + TTL <= clock
  <2>1. rooms[r] \in Room /\ rooms[r] # None /\ rooms[r].expiresAt <= now[c]
    BY DEF RoomInv, Expired
  <2>2. dir[r].born = rooms[r].expiresAt - TTL
    BY <2>1 DEF dir
  <2>3. rooms[r].expiresAt \in Nat
    BY <2>1 DEF Room
  <2> QED
    BY <1>2, <2>1, <2>2, <2>3, EntryOfRoom
<1>4. dir' = [r \in Rooms |-> IF r \in R THEN None ELSE dir[r]]
  <2>1. \A r \in Rooms : rooms'[r] = IF r \in R THEN None ELSE rooms[r]
    BY DEF Cleanup
  <2> QED
    BY <2>1 DEF dir
<1>5. R \in SUBSET Rooms
  OBVIOUS
<1> HIDE DEF R
<1> QED
  BY <1>1, <1>3, <1>4, <1>5 DEF Directory!Vanish, Cleanup

LEMMA DirectoryRegister ==
  ASSUME ThreadInv, RoomInv, ReplyInv, NEW c \in Calls, PutRoom(c)
  PROVE  Directory!Register(c)
<1>1. /\ now[c] \in Nat /\ at[c] \in Nat /\ clock \in Nat
      /\ at[c] <= now[c] /\ now[c] <= clock
      /\ req[c].op = "register" /\ req[c].room \in Rooms
  BY DEF PutRoom, Step, ThreadInv, Threads, ThreadOK, Ops
<1>2. phase[c] = "asked" /\ phase' = [phase EXCEPT ![c] = "done"]
  BY DEF PutRoom, Step, phase, ThreadInv, Threads
<1>3. ToSet(<<>>) = {}
  BY DEF ToSet
<1>4. value' = [value EXCEPT ![c] = Directory!Reply("registered", None, {})]
  BY <1>3 DEF PutRoom, value, ReplyInv, Reply, Directory!Reply
<1>5. (now[c] + TTL) - TTL = now[c]
  BY <1>1, BoundsAssumption
<1> DEFINE new == [host |-> req[c].ep, clients |-> <<>>,
                   expiresAt |-> now[c] + TTL]
           entry == [host |-> req[c].ep, clients |-> {}, born |-> now[c]]
<1>6. dir' = [dir EXCEPT ![req[c].room] = entry]
  <2>1. new \in Room
    BY <1>1, BoundsAssumption DEF Room, PutRoom, Step, ThreadInv, Threads,
                                 ThreadOK, Ops
  <2>2. rooms' = [rooms EXCEPT ![req[c].room] = new]
    BY DEF PutRoom
  <2>3. new # None /\ new.host = entry.host /\ new.clients = <<>>
        /\ new.expiresAt - TTL = now[c]
    BY <2>1, <1>5, NoneAssumption
  <2> HIDE DEF new
  <2> QED
    BY <1>1, <1>3, <2>2, <2>3 DEF dir, RoomInv
<1>7. now[c] \in at[c]..clock
  BY <1>1
<1> QED
  BY <1>1, <1>2, <1>4, <1>6, <1>7
  DEF PutRoom, Directory!Register, Directory!Effect

LEMMA DirectoryPoll ==
  ASSUME ThreadInv, RoomInv, ReplyInv, NEW c \in Calls, GetRoom(c)
  PROVE  Directory!Poll(c)
<1> DEFINE r == req[c].room
<1>1. req[c].op = "poll" /\ r \in Rooms /\ dir' = dir
  BY DEF GetRoom, Step, ThreadInv, Threads, ThreadOK, Ops, dir
<1>2. phase[c] = "asked" /\ phase' = [phase EXCEPT ![c] = "done"]
  BY DEF GetRoom, Step, phase, ThreadInv, Threads
<1>3. dir' = [dir EXCEPT ![r] = dir[r]]
  BY <1>1 DEF dir
<1>4. value' = [value EXCEPT ![c] =
                  IF dir[r] = None THEN Directory!Reply("room", None, {})
                  ELSE Directory!Reply("room", dir[r].host, dir[r].clients)]
  <2>1. CASE rooms[r] = None
    <3>1. ToSet(<<>>) = {}
      BY DEF ToSet
    <3>2. reply' = [reply EXCEPT ![c] = Reply("room", None, <<>>)]
      BY <2>1 DEF GetRoom
    <3>3. value' = [value EXCEPT ![c] = Directory!Reply("room", None, {})]
      BY <3>1, <3>2 DEF value, ReplyInv, Reply, Directory!Reply
    <3>4. dir[r] = None
      BY <1>1, <2>1 DEF dir
    <3> QED
      BY <3>3, <3>4
  <2>2. CASE rooms[r] # None
    <3>1. reply' = [reply EXCEPT ![c] =
                      Reply("room", rooms[r].host, rooms[r].clients)]
      BY <2>2 DEF GetRoom
    <3>2. value' = [value EXCEPT ![c] =
             Directory!Reply("room", rooms[r].host, ToSet(rooms[r].clients))]
      BY <3>1 DEF value, ReplyInv, Reply, Directory!Reply
    <3>3. rooms[r] \in Room
      BY <1>1, <2>2 DEF RoomInv
    <3>4. dir[r] # None /\ dir[r].host = rooms[r].host
          /\ dir[r].clients = ToSet(rooms[r].clients)
      BY <1>1, <2>2, <3>3, EntryOfRoom DEF dir
    <3> QED
      BY <3>2, <3>4
  <2> QED
    BY <2>1, <2>2
<1> QED
  BY <1>1, <1>2, <1>3, <1>4
  DEF GetRoom, Directory!Poll, Directory!Effect

LEMMA DirectoryJoin ==
  ASSUME ThreadInv, RoomInv, ReplyInv, NEW c \in Calls, JoinRoom(c)
  PROVE  Directory!Join(c)
<1> DEFINE r == req[c].room
           room == rooms[r]
           w == WithClient(room, req[c].ep)
<1>1. /\ req[c].op = "join" /\ r \in Rooms /\ req[c].ep \in Eps
      /\ clock \in Nat /\ UNCHANGED <<clock, req, at>>
  BY DEF JoinRoom, Step, ThreadInv, Threads, ThreadOK, Ops
<1>2. phase[c] = "asked" /\ phase' = [phase EXCEPT ![c] = "done"]
  BY DEF JoinRoom, Step, phase, ThreadInv, Threads
<1>3. ToSet(<<>>) = {}
  BY DEF ToSet
<1>4. CASE room = None
  <2>1. reply' = [reply EXCEPT ![c] = Reply("not found", None, <<>>)]
        /\ rooms' = rooms
    BY <1>4 DEF JoinRoom
  <2>2. value' = [value EXCEPT ![c] = Directory!Reply("not found", None, {})]
    BY <1>3, <2>1 DEF value, ReplyInv, Reply, Directory!Reply
  <2>3. dir[r] = None /\ dir' = [dir EXCEPT ![r] = None]
    BY <1>1, <1>4, <2>1 DEF dir
  <2> QED
    BY <1>1, <1>2, <2>2, <2>3 DEF Directory!Join, Directory!Effect
<1>5. CASE room # None
  <2> DEFINE entry == [host |-> room.host,
                       clients |-> ToSet(room.clients) \cup {req[c].ep},
                       born |-> clock]
  <2>1. reply' = [reply EXCEPT ![c] = Reply("host", room.host, <<>>)]
        /\ rooms' = [rooms EXCEPT ![r] = w]
    BY <1>5 DEF JoinRoom
  <2>2. value' = [value EXCEPT ![c] =
                    Directory!Reply("host", room.host, {})]
    BY <1>3, <2>1 DEF value, ReplyInv, Reply, Directory!Reply
  <2>3. room \in Room /\ NoDuplicates(room.clients)
    BY <1>1, <1>5 DEF RoomInv
  <2>4. /\ w \in Room /\ w.host = room.host /\ w.expiresAt = clock + TTL
        /\ ToSet(w.clients) = ToSet(room.clients) \cup {req[c].ep}
    BY <1>1, <2>3, WithClientType
  <2>5. (clock + TTL) - TTL = clock
    BY <1>1, BoundsAssumption
  <2>6. dir' = [dir EXCEPT ![r] = entry]
    <3> HIDE DEF w, room
    <3>1. w # None
      BY <2>4, NoneAssumption
    <3> QED
      BY <1>1, <2>1, <2>4, <2>5, <3>1 DEF dir, RoomInv
  <2>7. dir[r] # None /\ dir[r].host = room.host
        /\ dir[r].clients = ToSet(room.clients)
    BY <1>1, <1>5, <2>3, EntryOfRoom DEF dir
  <2> QED
    BY <1>1, <1>2, <2>2, <2>6, <2>7 DEF Directory!Join, Directory!Effect
<1> QED
  BY <1>4, <1>5

LEMMA DirectoryStep ==
  IInv /\ [Next]_vars => [Directory!Next]_(Directory!vars)
<1> SUFFICES ASSUME ThreadInv, RoomInv, ReplyInv, [Next]_vars
             PROVE  Directory!Next \/ UNCHANGED Directory!vars
  BY DEF IInv
<1> DEFINE Goal == Directory!Next \/ UNCHANGED Directory!vars
<1>1. CASE Tick
  BY <1>1, DirectoryTick DEF Directory!Next
<1>2. ASSUME NEW c \in Calls, StampRegister(c) PROVE Goal
  BY <1>2, DirectoryStutter
<1>3. ASSUME NEW c \in Calls, PutRoom(c) PROVE Goal
  BY <1>3, DirectoryRegister DEF Directory!Next
<1>4. ASSUME NEW c \in Calls, StampCleanup(c) PROVE Goal
  BY <1>4, DirectoryStutter
<1>5. ASSUME NEW c \in Calls, Cleanup(c) PROVE Goal
  BY <1>5, DirectoryVanish DEF Directory!Next
<1>6. ASSUME NEW c \in Calls, JoinRoom(c) PROVE Goal
  BY <1>6, DirectoryJoin DEF Directory!Next
<1>7. ASSUME NEW c \in Calls, GetRoom(c) PROVE Goal
  BY <1>7, DirectoryPoll DEF Directory!Next
<1>8. ASSUME NEW c \in Calls, Send(c) PROVE Goal
  BY <1>8, DirectoryReturn DEF Directory!Next
<1>9. ASSUME NEW c \in Calls, NEW o \in Ops, Call(c, o) PROVE Goal
  <2>1. o \in Directory!Ops
    BY DEF Ops, Directory!Ops
  <2> QED
    BY <1>9, <2>1, DirectoryAsk DEF Directory!Next
<1>10. CASE UNCHANGED vars
  BY <1>10 DEF vars, dir, phase, value, Directory!vars
<1> HIDE DEF Goal
<1>11. Goal
  BY <1>1, <1>2, <1>3, <1>4, <1>5, <1>6, <1>7, <1>8, <1>9, <1>10,
     StepCases DEF AnyStep, Goal
<1> QED
  BY <1>11 DEF Goal

\* signaling.py: to its callers the threaded server is the atomic directory.
THEOREM ServerImplementsDirectory == Spec => ImplementsDirectory
BY DirectoryInit, DirectoryStep, IInvHolds, PTL
DEF Spec, Directory!Spec, ImplementsDirectory

-----------------------------------------------------------------------------
(* A host that does not count on the age of its room.  P2PHost composes    *)
(* its host with a RoomDirectory without ages; the server is one of those  *)
(* too, when the clock and the stamps are left out.                        *)

Undated(x) == IF x = None THEN None
              ELSE [host |-> x.host, clients |-> x.clients, born |-> 0]
undatedDir == [r \in Rooms |-> Undated(dir[r])]
undatedAt == [c \in Calls |-> 0]

HostView == INSTANCE RoomDirectory
              WITH dir <- undatedDir, clock <- 0, at <- undatedAt,
                   TTL <- 0, MaxClock <- 0

\* What is needed of the directory's state, whoever keeps it.
DirectoryInv ==
  /\ dir \in [Rooms -> Entry \cup {None}]
  /\ \A c \in Calls : phase[c] = "asked" => req[c] \in Ops

LEMMA DirectoryInvHolds == IInv => DirectoryInv
<1> SUFFICES ASSUME ThreadInv, RoomInv PROVE DirectoryInv
  BY DEF IInv
<1>1. ASSUME NEW r \in Rooms PROVE dir[r] \in Entry \cup {None}
  <2>1. rooms[r] \in Room \cup {None}
    BY DEF RoomInv
  <2>2. CASE rooms[r] = None
    BY <2>2 DEF dir
  <2>3. CASE rooms[r] # None
    <3>1. rooms[r] \in Room
      BY <2>1, <2>3
    <3>2. /\ rooms[r].host \in Eps /\ rooms[r].clients \in Seq(Eps)
          /\ rooms[r].expiresAt - TTL \in Int
      BY <3>1, EntryOfRoom DEF Room
    <3>3. ToSet(rooms[r].clients) \in SUBSET Eps
      BY <3>2 DEF ToSet
    <3> QED
      BY <2>3, <3>2, <3>3 DEF dir, Entry
  <2> QED
    BY <2>2, <2>3
<1>2. dir \in [Rooms -> Entry \cup {None}]
  <2>1. dir = [r \in Rooms |-> dir[r]]
    BY DEF dir
  <2> QED
    BY <1>1, <2>1
<1>3. ASSUME NEW c \in Calls, phase[c] = "asked" PROVE req[c] \in Ops
  BY <1>3 DEF phase, ThreadInv, ThreadOK
<1> QED
  BY <1>2, <1>3 DEF DirectoryInv

LEMMA UndatedProps ==
  ASSUME NEW x \in Entry
  PROVE  /\ x # None /\ Undated(x) # None
         /\ Undated(x).host = x.host /\ Undated(x).clients = x.clients
         /\ Undated(x).born = 0
         /\ Undated(x) = [host |-> x.host, clients |-> x.clients, born |-> 0]
<1>1. x # None
  BY NoneAssumption
<1>2. [host |-> x.host, clients |-> x.clients, born |-> 0] \in Entry
  BY DEF Entry
<1> QED
  BY <1>1, <1>2, NoneAssumption DEF Undated

LEMMA UndatedEffect ==
  ASSUME DirectoryInv, NEW c \in Calls, NEW entry, NEW v,
         Directory!Effect(c, entry, v)
  PROVE  HostView!Effect(c, Undated(entry), v) /\ req[c] \in Ops
<1>1. req[c] \in Ops /\ req[c].room \in Rooms
  BY DEF DirectoryInv, Directory!Effect, Ops
<1>2. dir' = [dir EXCEPT ![req[c].room] = entry]
  BY DEF Directory!Effect
<1>3. undatedDir' = [undatedDir EXCEPT ![req[c].room] = Undated(entry)]
  BY <1>1, <1>2 DEF DirectoryInv, undatedDir
<1> QED
  BY <1>1, <1>3 DEF Directory!Effect, HostView!Effect, undatedAt

LEMMA UndatedRegister ==
  ASSUME DirectoryInv, NEW c \in Calls, Directory!Register(c),
         clock \in Nat, at[c] \in Nat
  PROVE  HostView!Register(c)
<1>1. PICK born \in at[c]..clock :
        Directory!Effect(c, [host |-> req[c].ep, clients |-> {}, born |-> born],
                         Directory!Reply("registered", None, {}))
  BY DEF Directory!Register
<1> DEFINE entry == [host |-> req[c].ep, clients |-> {}, born |-> born]
           v == Directory!Reply("registered", None, {})
<1>2. HostView!Effect(c, Undated(entry), v) /\ req[c] \in Ops
  BY <1>1, UndatedEffect
<1>3. entry \in Entry
  BY <1>2 DEF Entry, Ops
<1>4. Undated(entry) = [host |-> req[c].ep, clients |-> {}, born |-> 0]
  BY <1>3, UndatedProps
<1>5. v = HostView!Reply("registered", None, {})
  BY DEF Directory!Reply, HostView!Reply
<1>6. 0 \in undatedAt[c]..0
  BY DEF undatedAt
<1> QED
  BY <1>2, <1>4, <1>5, <1>6 DEF HostView!Register, Directory!Register

\* What a caller sees of an entry does not depend on its age.
LEMMA UndatedEntry ==
  ASSUME DirectoryInv, NEW r \in Rooms
  PROVE  /\ dir[r] = None <=> undatedDir[r] = None
         /\ dir[r] # None => dir[r] \in Entry
         /\ dir[r] # None => undatedDir[r].host = dir[r].host
         /\ dir[r] # None => undatedDir[r].clients = dir[r].clients
         /\ undatedDir[r] = Undated(dir[r])
<1>1. undatedDir[r] = Undated(dir[r]) /\ dir[r] \in Entry \cup {None}
  BY DEF undatedDir, DirectoryInv
<1>2. CASE dir[r] = None
  BY <1>1, <1>2 DEF Undated
<1>3. CASE dir[r] # None
  BY <1>1, <1>3, UndatedProps
<1> QED
  BY <1>1, <1>2, <1>3

LEMMA UndatedJoin ==
  ASSUME DirectoryInv, NEW c \in Calls, Directory!Join(c), clock \in Nat
  PROVE  HostView!Join(c)
<1> DEFINE r == req[c].room
           missing == Directory!Reply("not found", None, {})
           found == Directory!Reply("host", dir[r].host, {})
           entry == [host |-> dir[r].host,
                     clients |-> dir[r].clients \cup {req[c].ep},
                     born |-> clock]
<1>1. /\ req[c].op = "join"
      /\ IF dir[r] = None THEN Directory!Effect(c, None, missing)
         ELSE Directory!Effect(c, entry, found)
  BY DEF Directory!Join
<1>2. req[c] \in Ops
  BY <1>1, UndatedEffect
<1>3. r \in Rooms /\ req[c].ep \in Eps
  BY <1>2 DEF Ops
<1>4. CASE dir[r] = None
  <2>1. HostView!Effect(c, Undated(None), missing)
    BY <1>1, <1>4, UndatedEffect
  <2>2. undatedDir[r] = None /\ Undated(None) = None
    BY <1>3, <1>4, UndatedEntry DEF Undated
  <2>3. missing = HostView!Reply("not found", None, {})
    BY DEF Directory!Reply, HostView!Reply
  <2> QED
    BY <1>1, <2>1, <2>2, <2>3 DEF HostView!Join
<1>5. CASE dir[r] # None
  <2>1. HostView!Effect(c, Undated(entry), found)
    BY <1>1, <1>5, UndatedEffect
  <2>2. /\ dir[r] \in Entry /\ undatedDir[r] # None
        /\ undatedDir[r].host = dir[r].host
        /\ undatedDir[r].clients = dir[r].clients
    BY <1>3, <1>5, UndatedEntry
  <2>3. entry \in Entry
    BY <1>3, <2>2 DEF Entry
  <2>4. Undated(entry) = [host |-> undatedDir[r].host,
                          clients |-> undatedDir[r].clients \cup {req[c].ep},
                          born |-> 0]
    BY <2>2, <2>3, UndatedProps
  <2>5. found = HostView!Reply("host", undatedDir[r].host, {})
    BY <2>2 DEF Directory!Reply, HostView!Reply
  <2> HIDE DEF entry, found
  <2> QED
    BY <1>1, <2>1, <2>2, <2>4, <2>5 DEF HostView!Join
<1> QED
  BY <1>4, <1>5

LEMMA UndatedPoll ==
  ASSUME DirectoryInv, NEW c \in Calls, Directory!Poll(c)
  PROVE  HostView!Poll(c)
<1> DEFINE r == req[c].room
           v == IF dir[r] = None THEN Directory!Reply("room", None, {})
                ELSE Directory!Reply("room", dir[r].host, dir[r].clients)
<1>1. req[c].op = "poll" /\ Directory!Effect(c, dir[r], v)
  BY DEF Directory!Poll
<1>2. HostView!Effect(c, Undated(dir[r]), v) /\ req[c] \in Ops
  BY <1>1, UndatedEffect
<1>3. r \in Rooms
  BY <1>2 DEF Ops
<1>4. Undated(dir[r]) = undatedDir[r]
  BY <1>3, UndatedEntry
<1>5. v = IF undatedDir[r] = None THEN HostView!Reply("room", None, {})
          ELSE HostView!Reply("room", undatedDir[r].host,
                              undatedDir[r].clients)
  BY <1>3, UndatedEntry DEF Directory!Reply, HostView!Reply
<1> HIDE DEF v
<1> QED
  BY <1>1, <1>2, <1>4, <1>5 DEF HostView!Poll

LEMMA UndatedVanish ==
  ASSUME DirectoryInv, Directory!Vanish
  PROVE  HostView!Vanish
<1>1. PICK R \in SUBSET Rooms :
        dir' = [r \in Rooms |-> IF r \in R THEN None ELSE dir[r]]
  BY DEF Directory!Vanish
<1>2. ASSUME NEW r \in R PROVE undatedDir[r] # None => undatedDir[r].born + 0 <= 0
  <2>1. r \in Rooms
    OBVIOUS
  <2>2. undatedDir[r] # None => undatedDir[r].born = 0
    BY <2>1, UndatedEntry, UndatedProps
  <2> QED
    BY <2>2
<1>3. undatedDir' = [r \in Rooms |-> IF r \in R THEN None ELSE undatedDir[r]]
  BY <1>1 DEF undatedDir, Undated
<1> QED
  BY <1>2, <1>3 DEF Directory!Vanish, HostView!Vanish, undatedAt

LEMMA UndatedStep ==
  ASSUME DirectoryInv, clock \in Nat, at \in [Calls -> Nat],
         [Directory!Next]_(Directory!vars)
  PROVE  [HostView!Next]_(HostView!vars)
<1> DEFINE Goal == HostView!Next \/ UNCHANGED HostView!vars
<1>1. CASE Directory!Tick
  BY <1>1 DEF Directory!Tick, HostView!vars, undatedDir, undatedAt
<1>2. CASE Directory!Vanish
  BY <1>2, UndatedVanish DEF HostView!Next
<1>3. ASSUME NEW c \in Calls, Directory!Register(c) PROVE Goal
  BY <1>3, UndatedRegister DEF HostView!Next
<1>4. ASSUME NEW c \in Calls, Directory!Join(c) PROVE Goal
  BY <1>4, UndatedJoin DEF HostView!Next
<1>5. ASSUME NEW c \in Calls, Directory!Poll(c) PROVE Goal
  BY <1>5, UndatedPoll DEF HostView!Next
<1>6. ASSUME NEW c \in Calls, Directory!Return(c) PROVE Goal
  <2>1. HostView!Return(c)
    BY <1>6 DEF Directory!Return, HostView!Return, undatedDir, undatedAt,
                Directory!NoOp, HostView!NoOp, Directory!NoReply,
                HostView!NoReply, Directory!Reply, HostView!Reply
  <2> QED
    BY <2>1 DEF HostView!Next
<1>7. ASSUME NEW c \in Calls, NEW o \in Directory!Ops, Directory!Ask(c, o)
      PROVE  Goal
  <2>1. HostView!Ask(c, o)
    BY <1>7 DEF Directory!Ask, HostView!Ask, undatedDir, undatedAt
  <2>2. o \in HostView!Ops
    BY DEF Directory!Ops, HostView!Ops
  <2> QED
    BY <2>1, <2>2 DEF HostView!Next
<1>8. CASE UNCHANGED Directory!vars
  BY <1>8 DEF Directory!vars, HostView!vars, undatedDir, undatedAt
<1> HIDE DEF Goal
<1>9. Goal
  BY <1>1, <1>2, <1>3, <1>4, <1>5, <1>6, <1>7, <1>8 DEF Directory!Next, Goal
<1> QED
  BY <1>9 DEF Goal

\* signaling.py as P2PHost sees it: a directory whose rooms may vanish at any
\* time.
THEOREM ServerServesHost == Spec => HostView!Spec
<1>1. Init => HostView!Init
  <2> SUFFICES ASSUME Init PROVE HostView!Init
    OBVIOUS
  <2>1. Directory!Init
    BY DirectoryInit
  <2>2. undatedDir = [r \in Rooms |-> None]
    BY <2>1 DEF Directory!Init, undatedDir, Undated
  <2> QED
    BY <2>1, <2>2
    DEF Directory!Init, HostView!Init, undatedAt, Directory!NoOp,
        HostView!NoOp, Directory!NoReply, HostView!NoReply, Directory!Reply,
        HostView!Reply
<1>2. IInv /\ [Next]_vars => [HostView!Next]_(HostView!vars)
  <2> SUFFICES ASSUME IInv, [Next]_vars PROVE [HostView!Next]_(HostView!vars)
    OBVIOUS
  <2>1. clock \in Nat /\ at \in [Calls -> Nat]
    BY DEF IInv, ThreadInv, Threads
  <2> QED
    BY <2>1, DirectoryInvHolds, DirectoryStep, UndatedStep
<1> QED
  BY <1>1, <1>2, IInvHolds, PTL DEF Spec, HostView!Spec
=============================================================================
