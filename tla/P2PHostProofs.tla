--------------------------- MODULE P2PHostProofs ---------------------------
(***************************************************************************)
(* TLAPS proofs about P2PHost, for any rooms, players, connections and     *)
(* bounds: its types, that a player who counts a host as heard has both    *)
(* NATs open, that the host greets only players who were invited, that     *)
(* there is one chain of polling tasks for each STUN binding, and that the *)
(* directory is used as RoomDirectory says.                                *)
(***************************************************************************)
EXTENDS P2PHost, TLAPS

(* The directory: entries, requests and replies, against the rooms that    *)
(* players asked for.                                                      *)

Entries == [host : Bindings, clients : SUBSET Proxies, born : Nat]

Requests == Directory!Ops \cup {Directory!NoOp}

EntriesOK(d, inv) ==
  /\ d \in [Rooms -> Entries \cup {None}]
  /\ \A r \in Rooms :
       d[r] # None => \A p \in d[r].clients : <<p, r>> \in inv

RequestsOK(rq, inv) ==
  /\ rq \in [Callers -> Requests]
  /\ \A c \in Callers :
       /\ rq[c].op = "register" => rq[c].ep \in Bindings
       /\ rq[c].op = "join" =>
            rq[c].ep \in Proxies /\ <<rq[c].ep, rq[c].room>> \in inv

ReplyOK(v, rq, inv) ==
  /\ v \in Replies
  /\ v.kind = "host" => v.host \in Bindings
  /\ \A p \in v.clients : <<p, rq.room>> \in inv

RepliesOK(ph, rq, v, inv) ==
  /\ ph \in [Callers -> {"idle", "asked", "done"}]
  /\ v \in [Callers -> Replies]
  /\ \A c \in Callers :
       /\ ReplyOK(v[c], rq[c], inv)
       /\ ph[c] = "idle" => v[c].clients = {}

DirPart(d, cl, ph, rq, a, v, inv) ==
  /\ cl \in Nat /\ a \in [Callers -> Nat]
  /\ EntriesOK(d, inv) /\ RequestsOK(rq, inv) /\ RepliesOK(ph, rq, v, inv)

DirInv == DirPart(dir, clock, phase, req, at, value, invited)
DirNext == DirPart(dir', clock', phase', req', at', value', invited')

(* The host's own state, and what it waits for.                            *)

HostInv ==
  /\ service \in {"stopped", "running", "stopping"} /\ session \in Bindings
  /\ service # "stopped" => session \in Sessions
  /\ server_stun_binding_ep \in Bindings
  /\ current_game_id \in Rooms \cup {None} /\ game \in Rooms \cup {None}
  /\ tasks \in Nat /\ binds \in Nat /\ creates \in Nat
  /\ mg \in {"off", "loop", "poll", "create", "ended"}
  /\ service = "stopped" <=> mg = "off"
  /\ call \in HostCalls \cup {None}
  /\ call # None <=> mg \in {"poll", "create"}
  /\ game # None <=> mg = "create"
  /\ hosted \subseteq Sessions \X Rooms
  /\ current_game_id # None => <<session, current_game_id>> \in hosted

CallInv ==
  /\ mg = "create" => req[call].op = "register"
  /\ mg = "poll" =>
       req[call].op = "poll" /\ <<session, req[call].room>> \in hosted

\* The chains of polling tasks, also while the service is being stopped.
ChainInv ==
  service # "stopped" /\ mg # "ended" =>
    tasks + (IF mg = "poll" THEN 1 ELSE 0) = binds

(* The players and the network.                                            *)

\* A kick is only owed to a host.
ProxyInv ==
  /\ server \in [Proxies -> Bindings] /\ kick \in [Proxies -> BOOLEAN]
  /\ heard \in [Proxies -> SUBSET Sessions]
  /\ notify \in [Proxies -> Bindings] /\ crossing \in [Proxies -> Bindings]
  /\ \A p \in Proxies : kick[p] => server[p] # 0

PlayerInv ==
  /\ waiting \subseteq Proxies /\ joins \in [Proxies -> Nat]
  /\ invited \subseteq Proxies \X Rooms
  /\ ProxyInv

\* A hello in hand came through two open NATs, and from the host the player
\* waited for when it was compared: reset and request_join take note of it.
HandInv ==
  \A p \in Proxies : notify[p] # 0 =>
    /\ <<p, notify[p]>> \in punched /\ <<notify[p], p>> \in opened
    /\ notify[p] \in {server[p], crossing[p]}

NetInv ==
  /\ punched \subseteq Proxies \X Sessions
  /\ opened \subseteq Sessions \X Proxies /\ hellos \subseteq opened
  /\ BothNatsOpen /\ HandInv /\ OnlyInvited

Inv == DirInv /\ HostInv /\ CallInv /\ ChainInv /\ PlayerInv /\ NetInv

LEMMA BoundFacts ==
  /\ Sessions \subseteq Bindings /\ 0 \in Bindings /\ 0 \notin Sessions
  /\ Bindings \subseteq Nat /\ Bindings \ {0} = Sessions
  /\ \A s \in Bindings : s < MaxSessions => s + 1 \in Sessions
BY BoundsAssumption DEF Sessions, Bindings

LEMMA NameFacts ==
  /\ None \notin Rooms /\ None \notin HostCalls /\ None \notin Proxies
  /\ \A p \in Proxies : p \notin HostCalls /\ p \notin Bindings
  /\ HostCalls \subseteq Callers /\ Proxies \subseteq Callers
BY NamesAssumption DEF Callers, Bindings

-----------------------------------------------------------------------------
(* The directory's operations.                                             *)

LEMMA RequestFields ==
  ASSUME NEW o \in Requests
  PROVE  /\ o.op \in {"register", "join", "poll"} <=> o \in Directory!Ops
         /\ o.op = "none" <=> o = Directory!NoOp
         /\ o \in Directory!Ops => o.room \in Rooms
BY DEF Requests, Directory!Ops, Directory!NoOp

LEMMA NoReplyOK ==
  ASSUME NEW rq, NEW inv
  PROVE  /\ ReplyOK(Directory!NoReply, rq, inv)
         /\ Directory!NoReply.clients = {}
BY DEF ReplyOK, Replies, Directory!NoReply, Directory!Reply

LEMMA AskPart ==
  ASSUME DirInv, NEW c \in Callers, NEW o \in Directory!Ops,
         invited \subseteq invited', Directory!Ask(c, o),
         o.op = "register" => o.ep \in Bindings,
         o.op = "join" => o.ep \in Proxies /\ <<o.ep, o.room>> \in invited'
  PROVE  /\ DirNext /\ req'[c] = o
         /\ \A b \in Callers \ {c} : req'[b] = req[b]
<1>1. /\ phase[c] = "idle" /\ phase' = [phase EXCEPT ![c] = "asked"]
      /\ req' = [req EXCEPT ![c] = o] /\ at' = [at EXCEPT ![c] = clock]
      /\ UNCHANGED <<dir, clock, value>>
  BY DEF Directory!Ask
<1>2. EntriesOK(dir', invited')
  BY <1>1 DEF DirInv, DirPart, EntriesOK
<1>3. req' \in [Callers -> Requests] /\ req'[c] = o
      /\ \A b \in Callers \ {c} : req'[b] = req[b]
  BY <1>1 DEF DirInv, DirPart, RequestsOK, Requests
<1>4. RequestsOK(req', invited')
  BY <1>3 DEF DirInv, DirPart, RequestsOK
<1>5. value[c].clients = {}
  BY <1>1 DEF DirInv, DirPart, RepliesOK
<1>6. RepliesOK(phase', req', value', invited')
  <2>1. phase' \in [Callers -> {"idle", "asked", "done"}] /\ phase'[c] = "asked"
        /\ \A b \in Callers \ {c} : phase'[b] = phase[b]
    BY <1>1 DEF DirInv, DirPart, RepliesOK
  <2>2. \A b \in Callers : ReplyOK(value'[b], req'[b], invited')
    BY <1>1, <1>3, <1>5 DEF DirInv, DirPart, RepliesOK, ReplyOK
  <2> QED
    BY <1>1, <2>1, <2>2 DEF DirInv, DirPart, RepliesOK
<1>7. clock' \in Nat /\ at' \in [Callers -> Nat]
  BY <1>1 DEF DirInv, DirPart
<1> QED
  BY <1>2, <1>3, <1>4, <1>6, <1>7 DEF DirNext, DirPart

LEMMA EffectPart ==
  ASSUME DirInv, NEW c \in Callers, UNCHANGED invited,
         req[c] \in Directory!Ops,
         NEW e \in Entries \cup {None}, NEW v \in Replies,
         e # None => \A p \in e.clients : <<p, req[c].room>> \in invited,
         ReplyOK(v, req[c], invited), Directory!Effect(c, e, v)
  PROVE  DirNext /\ UNCHANGED req
<1>1. /\ phase' = [phase EXCEPT ![c] = "done"]
      /\ dir' = [dir EXCEPT ![req[c].room] = e]
      /\ value' = [value EXCEPT ![c] = v]
      /\ UNCHANGED <<clock, req, at>>
  BY DEF Directory!Effect
<1>2. req[c].room \in Rooms
  BY DEF Directory!Ops
<1>3. EntriesOK(dir', invited')
  BY <1>1, <1>2 DEF DirInv, DirPart, EntriesOK
<1>4. RepliesOK(phase', req', value', invited')
  BY <1>1 DEF DirInv, DirPart, RepliesOK
<1> QED
  BY <1>1, <1>3, <1>4 DEF DirInv, DirNext, DirPart

LEMMA HandlePart ==
  ASSUME DirInv, NEW c \in Callers, UNCHANGED invited,
         Directory!Register(c) \/ Directory!Join(c) \/ Directory!Poll(c)
  PROVE  DirNext /\ UNCHANGED req
<1>0. /\ req[c] \in Requests /\ clock \in Nat /\ at[c] \in Nat
      /\ req[c].op = "register" => req[c].ep \in Bindings
      /\ req[c].op = "join" =>
           req[c].ep \in Proxies /\ <<req[c].ep, req[c].room>> \in invited
  BY DEF DirInv, DirPart, RequestsOK
<1>1. req[c] \in Directory!Ops /\ req[c].room \in Rooms
  BY <1>0, RequestFields DEF Directory!Register, Directory!Join, Directory!Poll
<1> DEFINE room == dir[req[c].room]
<1>2. /\ room \in Entries \cup {None}
      /\ room # None => \A p \in room.clients : <<p, req[c].room>> \in invited
  BY <1>1 DEF DirInv, DirPart, EntriesOK
<1> HIDE DEF room
<1>3. room # None => room.host \in Bindings /\ room.clients \subseteq Proxies
  BY <1>2 DEF Entries
<1>4. CASE Directory!Register(c)
  <2>1. PICK born \in at[c]..clock :
          Directory!Effect(c, [host |-> req[c].ep, clients |-> {}, born |-> born],
                           Directory!Reply("registered", None, {}))
    BY <1>4 DEF Directory!Register
  <2> DEFINE e == [host |-> req[c].ep, clients |-> {}, born |-> born]
             v == Directory!Reply("registered", None, {})
  <2>2. e \in Entries /\ e.clients = {}
    BY <1>0, <1>4 DEF Entries, Directory!Register
  <2>3. v \in Replies /\ v.kind = "registered" /\ v.clients = {}
    BY DEF Replies, Directory!Reply
  <2> HIDE DEF e, v
  <2>4. Directory!Effect(c, e, v)
    BY <2>1 DEF e, v
  <2>5. ReplyOK(v, req[c], invited)
    BY <2>3 DEF ReplyOK
  <2> QED
    BY <1>1, <2>2, <2>3, <2>4, <2>5, EffectPart
<1>5. CASE Directory!Join(c)
  <2>1. /\ req[c].op = "join"
        /\ IF room = None
           THEN Directory!Effect(c, None, Directory!Reply("not found", None, {}))
           ELSE Directory!Effect(c, [host |-> room.host,
                                     clients |-> room.clients \cup {req[c].ep},
                                     born |-> clock],
                                 Directory!Reply("host", room.host, {}))
    BY <1>5 DEF Directory!Join, room
  <2>2. CASE room = None
    <3> DEFINE v == Directory!Reply("not found", None, {})
    <3>1. v \in Replies /\ v.kind = "not found" /\ v.clients = {}
      BY DEF Replies, Directory!Reply
    <3>2. Directory!Effect(c, None, v)
      BY <2>1, <2>2
    <3> HIDE DEF v
    <3>3. ReplyOK(v, req[c], invited)
      BY <3>1 DEF ReplyOK
    <3> QED
      BY <1>1, <3>1, <3>2, <3>3, EffectPart
  <2>3. CASE room # None
    <3> DEFINE e == [host |-> room.host, clients |-> room.clients \cup {req[c].ep},
                     born |-> clock]
               v == Directory!Reply("host", room.host, {})
    <3>1. v \in Replies /\ v.kind = "host" /\ v.clients = {} /\ v.host = room.host
      BY <1>3, <2>3 DEF Replies, Directory!Reply
    <3>2. e \in Entries /\ e.clients = room.clients \cup {req[c].ep}
      BY <1>0, <1>3, <2>1, <2>3 DEF Entries
    <3>3. Directory!Effect(c, e, v)
      BY <2>1, <2>3
    <3> HIDE DEF v, e
    <3>4. ReplyOK(v, req[c], invited)
      BY <1>3, <2>3, <3>1 DEF ReplyOK
    <3>5. \A p \in e.clients : <<p, req[c].room>> \in invited
      BY <1>0, <1>2, <2>1, <2>3, <3>2
    <3> QED
      BY <1>1, <3>1, <3>2, <3>3, <3>4, <3>5, EffectPart
  <2> QED
    BY <2>2, <2>3
<1>6. CASE Directory!Poll(c)
  <2> DEFINE v == IF room = None THEN Directory!Reply("room", None, {})
                  ELSE Directory!Reply("room", room.host, room.clients)
  <2>1. Directory!Effect(c, room, v)
    BY <1>6 DEF Directory!Poll, room
  <2>2. /\ v \in Replies /\ v.kind = "room"
        /\ v.clients = IF room = None THEN {} ELSE room.clients
    BY <1>3 DEF Replies, Directory!Reply
  <2> HIDE DEF v
  <2>3. ReplyOK(v, req[c], invited)
    BY <1>2, <2>2 DEF ReplyOK
  <2> QED
    BY <1>1, <1>2, <2>1, <2>2, <2>3, EffectPart
<1> QED
  BY <1>4, <1>5, <1>6

LEMMA ReturnPart ==
  ASSUME DirInv, NEW c \in Callers, UNCHANGED invited, Directory!Return(c)
  PROVE  DirNext /\ \A b \in Callers \ {c} : req'[b] = req[b]
<1>1. /\ phase' = [phase EXCEPT ![c] = "idle"]
      /\ req' = [req EXCEPT ![c] = Directory!NoOp]
      /\ at' = [at EXCEPT ![c] = 0]
      /\ value' = [value EXCEPT ![c] = Directory!NoReply]
      /\ UNCHANGED <<dir, clock>>
  BY DEF Directory!Return
<1>2. /\ req' \in [Callers -> Requests] /\ req'[c] = Directory!NoOp
      /\ \A b \in Callers \ {c} : req'[b] = req[b]
  BY <1>1 DEF DirInv, DirPart, RequestsOK, Requests
<1>3. Directory!NoOp.op = "none"
  BY DEF Directory!NoOp
<1>4. RequestsOK(req', invited')
  BY <1>2, <1>3 DEF DirInv, DirPart, RequestsOK
<1>5. /\ Directory!NoReply \in Replies
      /\ ReplyOK(Directory!NoReply, Directory!NoOp, invited)
      /\ Directory!NoReply.clients = {}
  BY NoReplyOK DEF ReplyOK
<1>6. RepliesOK(phase', req', value', invited')
  BY <1>1, <1>2, <1>5 DEF DirInv, DirPart, RepliesOK
<1>7. /\ clock' \in Nat /\ at' \in [Callers -> Nat] /\ EntriesOK(dir', invited')
  BY <1>1 DEF DirInv, DirPart, EntriesOK
<1> QED
  BY <1>2, <1>4, <1>6, <1>7 DEF DirNext, DirPart

LEMMA VanishPart ==
  ASSUME DirInv, UNCHANGED invited, Directory!Vanish
  PROVE  DirNext /\ UNCHANGED req
<1>1. /\ UNCHANGED <<clock, phase, req, at, value>>
      /\ \E R \in SUBSET Rooms :
           dir' = [r \in Rooms |-> IF r \in R THEN None ELSE dir[r]]
  BY DEF Directory!Vanish
<1>2. EntriesOK(dir', invited')
  BY <1>1 DEF DirInv, DirPart, EntriesOK
<1> QED
  BY <1>1, <1>2 DEF DirInv, DirNext, DirPart

LEMMA StillPart ==
  ASSUME DirInv, UNCHANGED directory, UNCHANGED invited
  PROVE  DirNext /\ UNCHANGED req
BY DEF DirInv, DirNext, DirPart, directory

-----------------------------------------------------------------------------
(* Steps of the host.                                                      *)

\* What Inv says of the state after a step.
InvNext ==
  DirNext /\ HostInv' /\ CallInv' /\ ChainInv' /\ PlayerInv' /\ NetInv'

\* The parts of the invariant that do not speak of what changed.
LEMMA Frames ==
  ASSUME Inv
  PROVE  /\ UNCHANGED <<players, invited>> => PlayerInv'
         /\ UNCHANGED <<proxies, network>> /\ invited \subseteq invited'
              /\ hosted \subseteq hosted' => NetInv'
         /\ UNCHANGED <<service, tasks, mg, binds>> => ChainInv'
         /\ UNCHANGED <<photon, manager, hosted>> => HostInv' /\ ChainInv'
         /\ UNCHANGED <<mg, session, call, hosted, req>> => CallInv'
<1>1. UNCHANGED <<players, invited>> => PlayerInv'
  BY DEF Inv, PlayerInv, ProxyInv, players, proxies
<1>2. UNCHANGED <<proxies, network>> /\ invited \subseteq invited'
        /\ hosted \subseteq hosted' => NetInv'
  <2> SUFFICES ASSUME UNCHANGED <<proxies, network>>,
                      invited \subseteq invited', hosted \subseteq hosted'
               PROVE  NetInv'
    OBVIOUS
  <2>1. OnlyInvited'
    BY DEF Inv, NetInv, OnlyInvited, network
  <2> QED
    BY <2>1 DEF Inv, NetInv, BothNatsOpen, HandInv, network, proxies
<1>3. UNCHANGED <<service, tasks, mg, binds>> => ChainInv'
  BY DEF Inv, ChainInv
<1>4. UNCHANGED <<photon, manager, hosted>> => HostInv' /\ ChainInv'
  BY DEF Inv, HostInv, ChainInv, photon, manager
<1>5. UNCHANGED <<mg, session, call, hosted, req>> => CallInv'
  BY DEF Inv, CallInv
<1> QED
  BY <1>1, <1>2, <1>3, <1>4, <1>5

LEMMA StartInv == ASSUME Inv, StartP2P PROVE InvNext
<1>1. UNCHANGED <<directory, players, network, history>>
  BY DEF StartP2P
<1>2. DirNext /\ PlayerInv' /\ NetInv'
  BY <1>1, StillPart, Frames DEF Inv, history, players
<1>3. HostInv' /\ CallInv' /\ ChainInv'
  BY <1>1, BoundFacts DEF Inv, StartP2P, ForgetGame, HostInv, CallInv, ChainInv,
     history
<1> QED
  BY <1>2, <1>3 DEF InvNext

LEMMA StopInv == ASSUME Inv, RequestStop \/ FinishStop PROVE InvNext
<1>1. UNCHANGED <<directory, players, network, history>>
  BY DEF RequestStop, FinishStop
<1>2. DirNext /\ PlayerInv' /\ NetInv' /\ UNCHANGED req
  BY <1>1, StillPart, Frames DEF Inv, history, players
<1>3. HostInv' /\ CallInv' /\ ChainInv'
  BY <1>1, <1>2 DEF Inv, RequestStop, FinishStop, ForgetGame, HostInv, CallInv,
     ChainInv, history, manager
<1> QED
  BY <1>2, <1>3 DEF InvNext

LEMMA EndsInv == ASSUME Inv, ThreadEnds PROVE InvNext
<1>1. UNCHANGED <<directory, players, network, history>>
  BY DEF ThreadEnds
<1>2. DirNext /\ PlayerInv' /\ NetInv' /\ UNCHANGED req
  BY <1>1, StillPart, Frames DEF Inv, history, players
<1>3. HostInv' /\ CallInv' /\ ChainInv'
  BY <1>1, <1>2 DEF Inv, ThreadEnds, HostInv, CallInv, ChainInv, history, photon
<1> QED
  BY <1>2, <1>3 DEF InvNext

\* A request of the thread, over a connection that was idle.
LEMMA AskInv ==
  ASSUME Inv, NEW w, NEW op \in {"register", "poll"}, NEW r \in Rooms,
         NEW ep \in Bindings, UNCHANGED invited, AskDirectory(w, op, r, ep)
  PROVE  /\ DirNext /\ call' \in HostCalls /\ call' # None /\ mg' = w
         /\ req'[call'].op = op /\ req'[call'].room = r
<1>1. call' \in HostCalls
  <2>1. call' \in IdleCalls
    BY DEF AskDirectory
  <2> QED
    BY <2>1 DEF IdleCalls
<1> DEFINE o == [op |-> op, room |-> r, ep |-> ep]
<1>2. o \in Directory!Ops /\ o.op = op /\ o.room = r /\ o.ep = ep
  BY DEF Directory!Ops
<1>3. Directory!Ask(call', o) /\ mg' = w
  BY DEF AskDirectory
<1> HIDE DEF o
<1>4. DirNext /\ req'[call'] = o
  BY <1>1, <1>2, <1>3, AskPart, NameFacts DEF Inv
<1> QED
  BY <1>1, <1>2, <1>3, <1>4, NameFacts

\* A polling that starts while n tasks are left, and will make one chain more.
LEMMA PollingInv ==
  ASSUME Inv, Running, NEW n \in Nat, StartPolling(n), UNCHANGED history,
         UNCHANGED <<service, session, game, creates>>,
         server_stun_binding_ep' \in Bindings, binds' \in Nat, binds' = n + 1
  PROVE  DirNext /\ HostInv' /\ CallInv' /\ ChainInv'
<1>0. HostInv /\ DirInv /\ UNCHANGED hosted /\ UNCHANGED invited
  BY DEF Inv, history
<1>1. CASE /\ current_game_id # None
           /\ AskDirectory("poll", "poll", current_game_id, 0)
           /\ tasks' = n /\ UNCHANGED current_game_id
  <2>1. current_game_id \in Rooms /\ <<session, current_game_id>> \in hosted
    BY <1>0, <1>1 DEF HostInv
  <2>2. /\ DirNext /\ call' \in HostCalls /\ call' # None /\ mg' = "poll"
        /\ req'[call'].op = "poll" /\ req'[call'].room = current_game_id
    BY <1>0, <1>1, <2>1, BoundFacts, AskInv
  <2>3. CallInv'
    BY <1>0, <2>1, <2>2 DEF CallInv
  <2>4. HostInv' /\ ChainInv'
    BY <1>0, <1>1, <2>2 DEF HostInv, ChainInv, Running
  <2> QED
    BY <2>2, <2>3, <2>4
<1>2. CASE /\ current_game_id' = None /\ tasks' = n + 1
           /\ UNCHANGED <<directory, mg, call>>
  <2>1. DirNext
    BY <1>0, <1>2, StillPart
  <2>2. HostInv' /\ ChainInv' /\ CallInv'
    BY <1>0, <1>2 DEF HostInv, ChainInv, CallInv, Running
  <2> QED
    BY <2>1, <2>2
<1> QED
  BY <1>1, <1>2 DEF StartPolling

LEMMA StunBindInv == ASSUME Inv, StunBind PROVE InvNext
<1>0. /\ Running /\ StartPolling(tasks) /\ binds' = binds + 1
      /\ server_stun_binding_ep' = session
      /\ UNCHANGED <<service, session, game, creates>>
      /\ UNCHANGED <<players, network, history>>
  BY DEF StunBind
<1>1. tasks \in Nat /\ binds \in Nat /\ session \in Bindings /\ binds = tasks
  BY <1>0 DEF Inv, HostInv, ChainInv, Running
<1>2. DirNext /\ HostInv' /\ CallInv' /\ ChainInv'
  BY <1>0, <1>1, PollingInv
<1>3. PlayerInv' /\ NetInv'
  BY <1>0, Frames DEF history, players
<1> QED
  BY <1>2, <1>3 DEF InvNext

LEMMA RunTaskInv == ASSUME Inv, RunTask PROVE InvNext
<1>0. /\ Running /\ StartPolling(tasks - 1) /\ tasks > 0
      /\ UNCHANGED <<service, session, server_stun_binding_ep, game, binds, creates>>
      /\ UNCHANGED <<players, network, history>>
  BY DEF RunTask
<1>1. /\ tasks - 1 \in Nat /\ binds \in Nat /\ server_stun_binding_ep \in Bindings
      /\ binds = (tasks - 1) + 1
  BY <1>0 DEF Inv, HostInv, ChainInv, Running
<1>2. DirNext /\ HostInv' /\ CallInv' /\ ChainInv'
  BY <1>0, <1>1, PollingInv
<1>3. PlayerInv' /\ NetInv'
  BY <1>0, Frames DEF history, players
<1> QED
  BY <1>2, <1>3 DEF InvNext

LEMMA PollFailsInv == ASSUME Inv, PollFails PROVE InvNext
<1>1. /\ mg = "poll" /\ mg' = "loop" /\ call' = None /\ tasks' = tasks + 1
      /\ UNCHANGED <<directory, photon, game, binds, creates>>
      /\ UNCHANGED <<players, network, history>>
  BY DEF PollFails
<1>2. DirNext /\ PlayerInv' /\ NetInv'
  BY <1>1, StillPart, Frames DEF Inv, history, players
<1>3. HostInv' /\ CallInv' /\ ChainInv'
  BY <1>1, NameFacts DEF Inv, HostInv, CallInv, ChainInv, history, photon
<1> QED
  BY <1>2, <1>3 DEF InvNext

\* The hellos go to players who were invited, and open the NAT before they are
\* under way.
LEMMA PollReturnsInv == ASSUME Inv, PollReturns PROVE InvNext
<1> DEFINE sent == {session} \X value[call].clients
<1>1. /\ mg = "poll" /\ mg' = "loop" /\ call' = None /\ tasks' = tasks + 1
      /\ Directory!Return(call)
      /\ opened' = opened \cup sent /\ hellos' = hellos \cup sent
      /\ UNCHANGED <<photon, game, binds, creates>>
      /\ UNCHANGED <<players, punched, history>>
  BY DEF PollReturns
<1>2. call \in HostCalls /\ call \in Callers /\ session \in Sessions
  BY <1>1, NameFacts DEF Inv, HostInv
<1>3. /\ <<session, req[call].room>> \in hosted
      /\ hosted \subseteq Sessions \X Rooms
  BY <1>1 DEF Inv, CallInv, HostInv
<1>4. /\ value[call].clients \subseteq Proxies
      /\ \A p \in value[call].clients : <<p, req[call].room>> \in invited
  <2>1. ReplyOK(value[call], req[call], invited)
    BY <1>2 DEF Inv, DirInv, DirPart, RepliesOK
  <2> QED
    BY <2>1 DEF ReplyOK, Replies
<1>5. req[call].room \in Rooms
  BY <1>3
<1>6. DirNext
  BY <1>1, <1>2, ReturnPart DEF Inv, history
<1>7. HostInv' /\ CallInv' /\ ChainInv'
  BY <1>1, NameFacts DEF Inv, HostInv, CallInv, ChainInv, history, photon
<1>8. \A o \in sent : /\ o \in Sessions \X Proxies
                      /\ <<o[1], req[call].room>> \in hosted
                      /\ <<o[2], req[call].room>> \in invited
  BY <1>2, <1>3, <1>4
<1> HIDE DEF sent
<1>9. NetInv'
  <2>1. OnlyInvited'
    BY <1>1, <1>5, <1>8 DEF Inv, NetInv, OnlyInvited, history
  <2>2. BothNatsOpen' /\ HandInv'
    BY <1>1 DEF Inv, NetInv, BothNatsOpen, HandInv, players, proxies
  <2>3. opened' \subseteq Sessions \X Proxies /\ hellos' \subseteq opened'
    BY <1>1, <1>8 DEF Inv, NetInv
  <2> QED
    BY <1>1, <2>1, <2>2, <2>3 DEF Inv, NetInv
<1>10. PlayerInv'
  BY <1>1, Frames DEF history, players
<1> QED
  BY <1>6, <1>7, <1>9, <1>10 DEF InvNext

LEMMA CreateGameInv ==
  ASSUME Inv, NEW r \in Rooms, CreateGame(r) PROVE InvNext
<1>1. /\ Running /\ creates' = creates + 1 /\ game' = r
      /\ AskDirectory("create", "register", r, server_stun_binding_ep)
      /\ UNCHANGED <<photon, tasks, binds>>
      /\ UNCHANGED <<players, network, history>>
  BY DEF CreateGame
<1>2. server_stun_binding_ep \in Bindings /\ UNCHANGED invited /\ UNCHANGED hosted
  BY <1>1 DEF Inv, HostInv, history
<1>3. /\ DirNext /\ call' \in HostCalls /\ call' # None /\ mg' = "create"
      /\ req'[call'].op = "register"
  BY <1>1, <1>2, AskInv
<1>4. HostInv' /\ CallInv' /\ ChainInv'
  BY <1>1, <1>2, <1>3, NameFacts DEF Inv, HostInv, CallInv, ChainInv, photon, Running
<1>5. PlayerInv' /\ NetInv'
  BY <1>1, Frames DEF history, players
<1> QED
  BY <1>3, <1>4, <1>5 DEF InvNext

LEMMA CreateFailsInv == ASSUME Inv, CreateFails PROVE InvNext
<1>1. /\ mg = "create" /\ mg' = "loop" /\ call' = None /\ game' = None
      /\ UNCHANGED <<directory, photon, tasks, binds, creates>>
      /\ UNCHANGED <<players, network, history>>
  BY DEF CreateFails
<1>2. DirNext /\ PlayerInv' /\ NetInv'
  BY <1>1, StillPart, Frames DEF Inv, history, players
<1>3. HostInv' /\ CallInv' /\ ChainInv'
  BY <1>1, NameFacts DEF Inv, HostInv, CallInv, ChainInv, history, photon
<1> QED
  BY <1>2, <1>3 DEF InvNext

LEMMA CreateReturnsInv == ASSUME Inv, CreateReturns PROVE InvNext
<1>1. /\ mg = "create" /\ mg' = "loop" /\ call' = None /\ game' = None
      /\ Directory!Return(call) /\ current_game_id' = game
      /\ hosted' = hosted \cup {<<session, game>>}
      /\ UNCHANGED <<service, session, server_stun_binding_ep, tasks, binds, creates>>
      /\ UNCHANGED <<players, network, invited>>
  BY DEF CreateReturns
<1>2. call \in HostCalls /\ call \in Callers /\ session \in Sessions /\ game \in Rooms
  BY <1>1, NameFacts DEF Inv, HostInv
<1>3. DirNext
  BY <1>1, <1>2, ReturnPart DEF Inv
<1>4. HostInv' /\ CallInv' /\ ChainInv'
  BY <1>1, <1>2 DEF Inv, HostInv, CallInv, ChainInv
<1>5. PlayerInv' /\ NetInv'
  BY <1>1, Frames DEF players
<1> QED
  BY <1>3, <1>4, <1>5 DEF InvNext

-----------------------------------------------------------------------------
(* Steps of the players.                                                   *)

\* The thread's own request is not touched.
LEMMA CallKept ==
  ASSUME Inv, UNCHANGED <<mg, session, call, hosted>>,
         NEW c, c # call, \A b \in Callers \ {c} : req'[b] = req[b]
  PROVE  CallInv'
<1>1. mg \in {"poll", "create"} => call \in Callers
  BY NameFacts DEF Inv, HostInv
<1> QED
  BY <1>1 DEF Inv, CallInv

\* reset and request_join forget who was heard, and note what is in hand.
LEMMA ResetPart ==
  ASSUME Inv, NEW p \in Proxies, NEW s \in Bindings, ResetProxy(p, s),
         UNCHANGED network
  PROVE  ProxyInv' /\ BothNatsOpen' /\ HandInv'
<1>1. /\ server' = [server EXCEPT ![p] = s] /\ kick' = [kick EXCEPT ![p] = s # 0]
      /\ heard' = [heard EXCEPT ![p] = {}]
      /\ crossing' = [crossing EXCEPT ![p] = notify[p]] /\ notify' = notify
      /\ UNCHANGED <<punched, opened>>
  BY DEF ResetProxy, network
<1>2. ProxyInv
  BY DEF Inv, PlayerInv
<1>3. ProxyInv'
  BY <1>1, <1>2 DEF ProxyInv
<1>4. \A q \in Proxies \ {p} :
        heard'[q] = heard[q] /\ server'[q] = server[q] /\ crossing'[q] = crossing[q]
  BY <1>1, <1>2 DEF ProxyInv
<1>5. heard'[p] = {} /\ crossing'[p] = notify[p]
  BY <1>1, <1>2 DEF ProxyInv
<1>6. BothNatsOpen'
  BY <1>1, <1>4, <1>5 DEF Inv, NetInv, BothNatsOpen
<1>7. HandInv'
  BY <1>1, <1>4, <1>5 DEF Inv, NetInv, HandInv
<1> QED
  BY <1>3, <1>6, <1>7

LEMMA JoinGameInv ==
  ASSUME Inv, NEW p \in Proxies, NEW r \in Rooms, JoinGame(p, r) PROVE InvNext
<1> DEFINE o == [op |-> "join", room |-> r, ep |-> p]
<1>1. /\ joins' = [joins EXCEPT ![p] = @ + 1]
      /\ waiting' = waiting \cup {p} /\ ResetProxy(p, 0)
      /\ Directory!Ask(p, o) /\ invited' = invited \cup {<<p, r>>}
      /\ UNCHANGED <<photon, manager>> /\ UNCHANGED <<network, hosted>>
  BY DEF JoinGame
<1>2. /\ o \in Directory!Ops /\ o.op = "join" /\ o.ep = p /\ o.room = r
  BY DEF Directory!Ops
<1>3. p \in Callers /\ p # call
  BY NameFacts DEF Inv, HostInv
<1> HIDE DEF o
<1>4. invited \subseteq invited' /\ <<p, r>> \in invited'
  BY <1>1
<1>5. DirNext /\ \A b \in Callers \ {p} : req'[b] = req[b]
  BY <1>1, <1>2, <1>3, <1>4, AskPart DEF Inv
<1>6. HostInv' /\ ChainInv' /\ CallInv'
  BY <1>1, <1>3, <1>5, Frames, CallKept DEF photon, manager
<1>7. ProxyInv' /\ BothNatsOpen' /\ HandInv'
  BY <1>1, BoundFacts, ResetPart
<1>8. PlayerInv'
  BY <1>1, <1>7 DEF Inv, PlayerInv
<1>9. OnlyInvited'
  BY <1>1, <1>4 DEF Inv, NetInv, OnlyInvited, network
<1>10. NetInv'
  BY <1>1, <1>7, <1>9 DEF Inv, NetInv, network
<1> QED
  BY <1>5, <1>6, <1>8, <1>10 DEF InvNext

LEMMA JoinReturnsInv ==
  ASSUME Inv, NEW p \in Proxies, JoinReturns(p) PROVE InvNext
<1>1. /\ p \in waiting /\ waiting' = waiting \ {p} /\ Directory!Return(p)
      /\ \/ UNCHANGED proxies
         \/ value[p].kind = "host" /\ ResetProxy(p, value[p].host)
      /\ UNCHANGED <<photon, manager>>
      /\ UNCHANGED joins /\ UNCHANGED <<network, history>>
  BY DEF JoinReturns
<1>2. p \in Callers /\ p # call
  BY NameFacts DEF Inv, HostInv
<1>3. value[p].kind = "host" => value[p].host \in Bindings
  <2>1. ReplyOK(value[p], req[p], invited)
    BY <1>2 DEF Inv, DirInv, DirPart, RepliesOK
  <2> QED
    BY <2>1 DEF ReplyOK
<1>4. DirNext /\ \A b \in Callers \ {p} : req'[b] = req[b]
  BY <1>1, <1>2, ReturnPart DEF Inv, history
<1>5. HostInv' /\ ChainInv' /\ CallInv'
  BY <1>1, <1>2, <1>4, Frames, CallKept DEF photon, manager, history
<1>6. ProxyInv' /\ BothNatsOpen' /\ HandInv'
  <2>1. CASE UNCHANGED proxies
    <3>1. ProxyInv'
      BY <2>1 DEF Inv, PlayerInv, ProxyInv, proxies
    <3>2. BothNatsOpen' /\ HandInv'
      BY <1>1, <2>1 DEF Inv, NetInv, BothNatsOpen, HandInv, proxies, network
    <3> QED
      BY <3>1, <3>2
  <2>2. CASE value[p].kind = "host" /\ ResetProxy(p, value[p].host)
    BY <1>1, <1>3, <2>2, ResetPart
  <2> QED
    BY <1>1, <2>1, <2>2
<1>7. PlayerInv'
  BY <1>1, <1>6 DEF Inv, PlayerInv, history
<1>8. NetInv'
  <2>1. OnlyInvited'
    BY <1>1 DEF Inv, NetInv, OnlyInvited, network, history
  <2> QED
    BY <1>1, <1>6, <2>1 DEF Inv, NetInv, network
<1> QED
  BY <1>4, <1>5, <1>7, <1>8 DEF InvNext

LEMMA JoinFailsInv ==
  ASSUME Inv, NEW p \in Proxies, JoinFails(p) PROVE InvNext
<1>1. /\ waiting' = waiting \ {p}
      /\ UNCHANGED <<directory, photon, manager>>
      /\ UNCHANGED joins /\ UNCHANGED proxies /\ UNCHANGED <<network, history>>
  BY DEF JoinFails
<1>2. DirNext /\ UNCHANGED req
  BY <1>1, StillPart DEF Inv, history
<1>3. HostInv' /\ ChainInv' /\ CallInv' /\ NetInv'
  BY <1>1, <1>2, Frames DEF photon, manager, history
<1>4. PlayerInv'
  BY <1>1 DEF Inv, PlayerInv, ProxyInv, proxies, history
<1> QED
  BY <1>2, <1>3, <1>4 DEF InvNext

\* The proxy thread's own steps leave everything but its fields and the NATs.
LEMMA ThreadPart ==
  ASSUME Inv, UNCHANGED <<directory, photon, manager>>,
         UNCHANGED <<waiting, joins>>, UNCHANGED <<opened, history>>
  PROVE  /\ DirNext /\ HostInv' /\ ChainInv' /\ CallInv' /\ OnlyInvited'
         /\ ProxyInv' => PlayerInv'
<1>1. DirNext /\ UNCHANGED req
  BY StillPart DEF Inv, history
<1>2. HostInv' /\ ChainInv' /\ CallInv'
  BY <1>1, Frames DEF photon, manager, history
<1>3. OnlyInvited'
  BY DEF Inv, NetInv, OnlyInvited, history
<1>4. ProxyInv' => PlayerInv'
  BY DEF Inv, PlayerInv, history
<1> QED
  BY <1>1, <1>2, <1>3, <1>4

LEMMA KickInv ==
  ASSUME Inv, NEW p \in Proxies, Kick(p) PROVE InvNext
<1>1. /\ kick[p] /\ kick' = [kick EXCEPT ![p] = FALSE]
      /\ punched' \in {punched, punched \cup {<<p, server[p]>>}}
      /\ UNCHANGED <<directory, photon, manager>> /\ UNCHANGED <<waiting, joins>>
      /\ UNCHANGED <<server, heard, notify, crossing>>
      /\ UNCHANGED <<opened, hellos, history>>
  BY DEF Kick
<1>2. server[p] \in Sessions
  BY <1>1, BoundFacts DEF Inv, PlayerInv, ProxyInv
<1>3. ProxyInv'
  BY <1>1 DEF Inv, PlayerInv, ProxyInv
<1>4. punched \subseteq punched' /\ punched' \subseteq Proxies \X Sessions
  BY <1>1, <1>2 DEF Inv, NetInv
<1>5. BothNatsOpen' /\ HandInv'
  BY <1>1, <1>4 DEF Inv, NetInv, BothNatsOpen, HandInv
<1>6. NetInv' <=> OnlyInvited'
  BY <1>1, <1>4, <1>5 DEF Inv, NetInv
<1> QED
  BY <1>1, <1>3, <1>6, ThreadPart DEF InvNext

LEMMA HelloInv ==
  ASSUME Inv, NEW p \in Proxies, NEW s \in Sessions, HelloArrives(p, s)
  PROVE  InvNext
<1>1. /\ <<s, p>> \in hellos /\ hellos' = hellos \ {<<s, p>>}
      /\ notify' = [notify EXCEPT ![p] = IF Accepted(p, s) THEN s ELSE 0]
      /\ UNCHANGED <<directory, photon, manager>> /\ UNCHANGED <<waiting, joins>>
      /\ UNCHANGED <<server, kick, heard, crossing>>
      /\ UNCHANGED <<punched, opened, history>>
  BY DEF HelloArrives
<1>2. s \in Bindings /\ 0 \in Bindings
  BY BoundFacts
<1>3. ProxyInv'
  BY <1>1, <1>2 DEF Inv, PlayerInv, ProxyInv
<1>4. BothNatsOpen'
  BY <1>1 DEF Inv, NetInv, BothNatsOpen
<1>5. HandInv'
  <2> SUFFICES ASSUME NEW q \in Proxies, notify'[q] # 0
               PROVE  /\ <<q, notify'[q]>> \in punched
                      /\ <<notify'[q], q>> \in opened
                      /\ notify'[q] \in {server[q], crossing[q]}
    BY <1>1 DEF HandInv
  <2>1. CASE q = p
    <3>1. notify'[p] = s /\ Accepted(p, s)
      BY <1>1, <2>1 DEF Inv, PlayerInv, ProxyInv
    <3> QED
      BY <1>1, <2>1, <3>1 DEF Accepted, Inv, NetInv
  <2>2. CASE q # p
    BY <1>1, <2>2 DEF Inv, PlayerInv, ProxyInv, NetInv, HandInv
  <2> QED
    BY <2>1, <2>2
<1>6. NetInv' <=> OnlyInvited'
  BY <1>1, <1>4, <1>5 DEF Inv, NetInv
<1> QED
  BY <1>1, <1>3, <1>6, ThreadPart DEF InvNext

LEMMA HelloLostInv ==
  ASSUME Inv, NEW p \in Proxies, NEW s \in Sessions, HelloLost(p, s)
  PROVE  InvNext
<1>1. /\ hellos' = hellos \ {<<s, p>>}
      /\ UNCHANGED <<directory, photon, manager>> /\ UNCHANGED <<waiting, joins>>
      /\ UNCHANGED proxies /\ UNCHANGED <<punched, opened, history>>
  BY DEF HelloLost, players
<1>2. ProxyInv'
  BY <1>1 DEF Inv, PlayerInv, ProxyInv, proxies
<1>3. BothNatsOpen' /\ HandInv'
  BY <1>1 DEF Inv, NetInv, BothNatsOpen, HandInv, proxies
<1>4. NetInv' <=> OnlyInvited'
  BY <1>1, <1>3 DEF Inv, NetInv
<1> QED
  BY <1>1, <1>2, <1>4, ThreadPart DEF InvNext

\* What is in hand becomes what was heard.
LEMMA NotifyInv ==
  ASSUME Inv, NEW p \in Proxies, NotifyJoin(p) PROVE InvNext
<1>1. /\ notify[p] # 0 /\ notify' = [notify EXCEPT ![p] = 0]
      /\ heard' = [heard EXCEPT ![p] = @ \cup {notify[p]}]
      /\ UNCHANGED <<directory, photon, manager>> /\ UNCHANGED <<waiting, joins>>
      /\ UNCHANGED <<server, kick, crossing>>
      /\ UNCHANGED <<punched, opened, hellos, history>>
  BY DEF NotifyJoin, network
<1>2. notify[p] \in Sessions /\ 0 \in Bindings
  BY <1>1, BoundFacts DEF Inv, PlayerInv, ProxyInv
<1>3. ProxyInv'
  BY <1>1, <1>2 DEF Inv, PlayerInv, ProxyInv
<1>4. \A q \in Proxies : \A s \in heard'[q] :
        s \in heard[q] \/ (q = p /\ s = notify[p])
  BY <1>1 DEF Inv, PlayerInv, ProxyInv
<1>5. BothNatsOpen'
  BY <1>1, <1>4 DEF Inv, NetInv, BothNatsOpen, HandInv
<1>6. HandInv'
  <2>1. \A q \in Proxies : notify'[q] # 0 => notify'[q] = notify[q]
    BY <1>1 DEF Inv, PlayerInv, ProxyInv
  <2> QED
    BY <1>1, <2>1 DEF Inv, NetInv, HandInv
<1>7. NetInv' <=> OnlyInvited'
  BY <1>1, <1>5, <1>6 DEF Inv, NetInv
<1> QED
  BY <1>1, <1>3, <1>7, ThreadPart DEF InvNext

-----------------------------------------------------------------------------
(* Steps of the signaling server, and all steps.                           *)

LEMMA DirectoryInv == ASSUME Inv, DirectoryStep PROVE InvNext
<1>1. UNCHANGED <<photon, manager, players, network, history>>
  BY DEF DirectoryStep, Handle, Discard, Vanish
<1>2. HostInv' /\ ChainInv' /\ PlayerInv' /\ NetInv'
  BY <1>1, Frames DEF history, players, photon, manager
<1>3. UNCHANGED <<mg, session, call, hosted, invited>>
  BY <1>1 DEF history, photon, manager
<1>4. CASE Vanish
  <2>1. DirNext /\ UNCHANGED req
    BY <1>3, <1>4, VanishPart DEF Inv, Vanish
  <2> QED
    BY <1>2, <1>3, <2>1, Frames DEF InvNext
<1>5. ASSUME NEW c \in Callers, Handle(c) PROVE InvNext
  <2>1. DirNext /\ UNCHANGED req
    BY <1>3, <1>5, HandlePart DEF Inv, Handle
  <2> QED
    BY <1>2, <1>3, <2>1, Frames DEF InvNext
<1>6. ASSUME NEW c \in Callers, Discard(c) PROVE InvNext
  <2>1. DirNext /\ \A b \in Callers \ {c} : req'[b] = req[b]
    BY <1>3, <1>6, ReturnPart DEF Inv, Discard
  <2>2. c # call
    BY <1>6 DEF Discard, Awaited
  <2> QED
    BY <1>2, <1>3, <2>1, <2>2, CallKept DEF InvNext
<1> QED
  BY <1>4, <1>5, <1>6 DEF DirectoryStep

LEMMA StepInv == Inv /\ [Next]_vars => InvNext
<1> SUFFICES ASSUME Inv, [Next]_vars PROVE InvNext
  OBVIOUS
<1>1. CASE UNCHANGED vars
  <2>1. UNCHANGED <<directory, photon, manager, players, network, history>>
    BY <1>1 DEF vars
  <2>2. DirNext /\ UNCHANGED req
    BY <2>1, StillPart DEF Inv, history
  <2> QED
    BY <2>1, <2>2, Frames DEF InvNext, history, players, photon, manager
<1>2. CASE HostStep
  BY <1>2, StunBindInv, RunTaskInv, PollFailsInv, PollReturnsInv, CreateGameInv,
     CreateFailsInv, CreateReturnsInv DEF HostStep
<1>3. ASSUME NEW p \in Proxies, PlayerStep(p) PROVE InvNext
  BY <1>3, JoinGameInv, JoinReturnsInv, JoinFailsInv, KickInv, NotifyInv,
     HelloInv, HelloLostInv DEF PlayerStep
<1> QED
  BY <1>1, <1>2, <1>3, StartInv, StopInv, EndsInv, DirectoryInv DEF Next

LEMMA InitInv == Init => Inv
<1> SUFFICES ASSUME Init PROVE Inv
  OBVIOUS
<1>1. Directory!NoOp \in Requests /\ Directory!NoOp.op = "none"
  BY DEF Requests, Directory!NoOp
<1>2. Directory!NoReply \in Replies /\ Directory!NoReply.clients = {}
      /\ \A rq, inv : ReplyOK(Directory!NoReply, rq, inv)
  BY NoReplyOK DEF ReplyOK
<1>3. /\ dir = [r \in Rooms |-> None] /\ clock = 0
      /\ phase = [c \in Callers |-> "idle"]
      /\ req = [c \in Callers |-> Directory!NoOp]
      /\ at = [c \in Callers |-> 0]
      /\ value = [c \in Callers |-> Directory!NoReply]
  BY DEF Init, Directory!Init
<1>4. EntriesOK(dir, invited)
  BY <1>3 DEF EntriesOK
<1>5. RequestsOK(req, invited)
  BY <1>1, <1>3 DEF RequestsOK
<1>6. RepliesOK(phase, req, value, invited)
  BY <1>2, <1>3 DEF RepliesOK
<1>7. DirInv
  BY <1>3, <1>4, <1>5, <1>6 DEF DirInv, DirPart
<1>8. HostInv /\ CallInv /\ ChainInv
  BY BoundFacts DEF Init, HostInv, CallInv, ChainInv
<1>9. PlayerInv
  BY BoundFacts DEF Init, PlayerInv, ProxyInv
<1>10. NetInv
  BY DEF Init, NetInv, BothNatsOpen, HandInv, OnlyInvited
<1> QED
  BY <1>7, <1>8, <1>9, <1>10 DEF Inv

LEMMA InvHolds == Spec => []Inv
<1>1. Inv /\ [Next]_vars => Inv'
  BY StepInv DEF Inv, InvNext, DirInv, DirNext, DirPart, EntriesOK, RequestsOK,
     RepliesOK, ReplyOK
<1> QED
  BY <1>1, InitInv, PTL DEF Spec

-----------------------------------------------------------------------------
(* Theorems.                                                               *)

\* Every variable keeps its type, and the thread waits over a connection of
\* its own for what it asked.
THEOREM TypeCorrect == Spec => []TypeOK
<1>1. Inv => TypeOK
  <2> SUFFICES ASSUME Inv PROVE TypeOK
    OBVIOUS
  <2>1. /\ dir \in [Rooms -> [host : Bindings, clients : SUBSET Proxies,
                              born : Nat] \cup {None}]
        /\ clock \in Nat /\ phase \in [Callers -> {"idle", "asked", "done"}]
        /\ req \in [Callers -> Directory!Ops \cup {Directory!NoOp}]
        /\ at \in [Callers -> Nat] /\ value \in [Callers -> Replies]
    BY DEF Inv, DirInv, DirPart, EntriesOK, RequestsOK, RepliesOK, Entries,
       Requests
  <2>2. /\ (call # None) = (mg \in {"poll", "create"})
        /\ (game # None) = (mg = "create")
    BY DEF Inv, HostInv
  <2> QED
    BY <2>1, <2>2 DEF Inv, HostInv, CallInv, PlayerInv, ProxyInv, NetInv, TypeOK
<1> QED
  BY <1>1, InvHolds, PTL

\* A host counted as heard, upon which the local game is told to connect, has an
\* open NAT on both sides, and is the one the player waits for, or the one
\* whose hello was in hand when reset or request_join came between.
THEOREM NatsAreOpen == Spec => []BothNatsOpen
<1>1. Inv => BothNatsOpen
  BY DEF Inv, NetInv
<1> QED
  BY <1>1, InvHolds, PTL

\* The host opens its NAT only towards players who asked for a room that this
\* session registered.
THEOREM GreetsOnlyInvited == Spec => []OnlyInvited
<1>1. Inv => OnlyInvited
  BY DEF Inv, NetInv
<1> QED
  BY <1>1, InvHolds, PTL

\* Each STUN binding keeps exactly one chain of polling tasks, whatever fails.
THEOREM ChainsStayOne == Spec => []PollingGoesOn
<1>1. Inv => PollingGoesOn
  BY DEF Inv, ChainInv, PollingGoesOn
<1> QED
  BY <1>1, InvHolds, PTL

-----------------------------------------------------------------------------
(* The directory, as the host and the players use it.                      *)

DirectoryKept == [Directory!Next]_(Directory!vars)

LEMMA Untouched == UNCHANGED directory => DirectoryKept
BY DEF directory, DirectoryKept, Directory!vars

\* Whoever asks, asks for something the directory knows.
LEMMA Asked ==
  ASSUME NEW c \in Callers, NEW o \in Directory!Ops, Directory!Ask(c, o)
  PROVE  DirectoryKept
BY DEF DirectoryKept, Directory!Next

LEMMA AskedByHost ==
  ASSUME NEW w, NEW op \in {"register", "poll"}, NEW r \in Rooms,
         NEW ep \in Bindings, AskDirectory(w, op, r, ep)
  PROVE  DirectoryKept
<1>1. call' \in Callers
  <2>1. call' \in IdleCalls
    BY DEF AskDirectory
  <2> QED
    BY <2>1, NameFacts DEF IdleCalls
<1> DEFINE o == [op |-> op, room |-> r, ep |-> ep]
<1>2. o \in Directory!Ops
  BY DEF Directory!Ops
<1>3. Directory!Ask(call', o)
  BY DEF AskDirectory
<1> HIDE DEF o
<1> QED
  BY <1>1, <1>2, <1>3, Asked

LEMMA PollingAsks ==
  ASSUME Inv, NEW n, StartPolling(n)
  PROVE  DirectoryKept
<1>1. CASE /\ current_game_id # None
           /\ AskDirectory("poll", "poll", current_game_id, 0)
  <2>1. current_game_id \in Rooms
    BY <1>1 DEF Inv, HostInv
  <2> QED
    BY <1>1, <2>1, BoundFacts, AskedByHost
<1>2. CASE UNCHANGED <<directory, mg, call>>
  BY <1>2, Untouched
<1> QED
  BY <1>1, <1>2 DEF StartPolling

LEMMA Answered ==
  ASSUME NEW c \in Callers, Directory!Return(c)
  PROVE  DirectoryKept
BY DEF DirectoryKept, Directory!Next

LEMMA HostStepDirectory ==
  ASSUME Inv, HostStep
  PROVE  DirectoryKept
<1>1. CASE StunBind \/ RunTask
  BY <1>1, PollingAsks DEF StunBind, RunTask
<1>2. CASE PollFails \/ CreateFails
  BY <1>2, Untouched DEF PollFails, CreateFails
<1>3. CASE PollReturns \/ CreateReturns
  <2>1. Directory!Return(call) /\ mg \in {"poll", "create"}
    BY <1>3 DEF PollReturns, CreateReturns
  <2>2. call \in Callers
    BY <2>1, NameFacts DEF Inv, HostInv
  <2> QED
    BY <2>1, <2>2, Answered
<1>4. ASSUME NEW r \in Rooms, CreateGame(r) PROVE DirectoryKept
  <2>1. /\ server_stun_binding_ep \in Bindings
        /\ AskDirectory("create", "register", r, server_stun_binding_ep)
    BY <1>4 DEF CreateGame, Inv, HostInv
  <2> QED
    BY <2>1, AskedByHost
<1> QED
  BY <1>1, <1>2, <1>3, <1>4 DEF HostStep

LEMMA PlayerStepDirectory ==
  ASSUME NEW p \in Proxies, PlayerStep(p)
  PROVE  DirectoryKept
<1>0. p \in Callers
  BY NameFacts
<1>1. CASE JoinReturns(p)
  BY <1>0, <1>1, Answered DEF JoinReturns
<1>2. CASE JoinFails(p) \/ Kick(p) \/ NotifyJoin(p)
  BY <1>2, Untouched DEF JoinFails, Kick, NotifyJoin
<1>3. ASSUME NEW r \in Rooms, JoinGame(p, r) PROVE DirectoryKept
  <2> DEFINE o == [op |-> "join", room |-> r, ep |-> p]
  <2>1. o \in Directory!Ops
    BY DEF Directory!Ops
  <2>2. Directory!Ask(p, o)
    BY <1>3 DEF JoinGame
  <2> HIDE DEF o
  <2> QED
    BY <1>0, <2>1, <2>2, Asked
<1>4. ASSUME NEW s \in Sessions, HelloArrives(p, s) \/ HelloLost(p, s)
      PROVE  DirectoryKept
  BY <1>4, Untouched DEF HelloArrives, HelloLost
<1> QED
  BY <1>1, <1>2, <1>3, <1>4 DEF PlayerStep

LEMMA DirectoryOwnStep ==
  ASSUME DirectoryStep
  PROVE  DirectoryKept
<1>1. CASE Vanish
  BY <1>1 DEF Vanish, DirectoryKept, Directory!Next
<1>2. ASSUME NEW c \in Callers, Handle(c) PROVE DirectoryKept
  BY <1>2 DEF Handle, DirectoryKept, Directory!Next
<1>3. ASSUME NEW c \in Callers, Discard(c) PROVE DirectoryKept
  BY <1>3, Answered DEF Discard
<1> QED
  BY <1>1, <1>2, <1>3 DEF DirectoryStep

\* The host and the players use the signaling server as a directory and touch
\* it in no other way: they ask for rooms and endpoints that it knows, over
\* connections that are idle, and take each reply once, even one they gave up.
THEOREM HostUsesDirectory == Spec => Directory!Spec
<1>1. Init => Directory!Init
  BY DEF Init
<1>2. Inv /\ [Next]_vars => [Directory!Next]_(Directory!vars)
  <2> SUFFICES ASSUME Inv, [Next]_vars PROVE DirectoryKept
    BY DEF DirectoryKept
  <2>1. CASE UNCHANGED vars
    BY <2>1, Untouched DEF vars
  <2>2. CASE StartP2P \/ RequestStop \/ FinishStop \/ ThreadEnds
    BY <2>2, Untouched DEF StartP2P, RequestStop, FinishStop, ThreadEnds
  <2> QED
    BY <2>1, <2>2, HostStepDirectory, DirectoryOwnStep, PlayerStepDirectory
    DEF Next
<1> QED
  BY <1>1, <1>2, InvHolds, PTL DEF Spec, Directory!Spec
=============================================================================
