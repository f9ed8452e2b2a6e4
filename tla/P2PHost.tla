------------------------------ MODULE P2PHost ------------------------------
(***************************************************************************)
(* The hosting side of the P2P service of the "Photon Settings" mod        *)
(* (UltimatePhobia/mods/photon_settings.cpp), together with what it needs  *)
(* to be of use: the room directory and the players who join.              *)
(*                                                                         *)
(* The host registers the endpoint that STUN reported for its game server. *)
(* A joining player asks for it, is listed, and opens the own NAT towards  *)
(* it.  The host polls the list every 12 seconds and sends each listed     *)
(* player a byte, the hello, which opens the host's NAT; the player who    *)
(* gets it tells the local game to connect.                                *)
(*                                                                         *)
(* All of the host runs on its server manager thread: a request of the     *)
(* local game, the end of a STUN request or a scheduled task, one at a     *)
(* time.  A call of the signaling server blocks it; meanwhile the others   *)
(* go on.  The directory is RoomDirectory, which Signaling implements; the *)
(* players are P2PJoin as a host sees them.                                *)
(***************************************************************************)
EXTENDS Naturals, FiniteSets

CONSTANTS
  Rooms,         \* hashes of the games' names
  Proxies,       \* endpoints of the joining players' proxies
  HostCalls,     \* the host's connections to the signaling server
  None,
  MaxSessions,   \* bound: startP2P
  MaxBinds,      \* bound: STUN bindings in a session
  MaxCreates,    \* bound: CreateGame, altogether
  MaxJoins       \* bound: JoinGame of each player

\* The game server's endpoint in the n-th session; 0 is none at all.
Sessions == 1..MaxSessions
Bindings == Sessions \cup {0}
Callers == HostCalls \cup Proxies

ASSUME BoundsAssumption ==
  {MaxSessions, MaxBinds, MaxCreates, MaxJoins} \subseteq Nat
ASSUME NamesAssumption ==
  /\ None \notin Rooms \cup Callers
  /\ HostCalls \cap Proxies = {}
  /\ Sessions \cup {0} \subseteq Nat /\ Proxies \cap Bindings = {}

VARIABLES
  dir, clock, phase, req, at, value,    \* the directory
  \* PhotonSettings
  service, session, server_stun_binding_ep, current_game_id,
  \* its ServerManager: startPollingServer tasks, connections, the thread
  tasks, mg, call, game,
  binds, creates,                       \* counters of the bounds
  \* the players' manager threads: who waits for join_room's answer
  waiting, joins,
  \* the players' proxies, under state_mutex: server_ep, kick_server_ep, the
  \* hosts heard since the last reset or request_join; and in the thread's
  \* hands: the host whose hello matched the copy of server_ep
  server, kick, heard, notify,
  \* the network: NATs opened towards each other, hellos under way
  punched, opened, hellos,
  \* history: registered and joined rooms; the host whose hello a proxy had in
  \* hand at the last reset or request_join
  hosted, invited, crossing

directory == <<dir, clock, phase, req, at, value>>
photon    == <<service, session, server_stun_binding_ep, current_game_id>>
manager   == <<tasks, mg, call, game, binds, creates>>
proxies   == <<server, kick, heard, notify, crossing>>
players   == <<waiting, joins, proxies>>
network   == <<punched, opened, hellos>>
history   == <<hosted, invited>>
vars == <<directory, photon, manager, players, network, history>>

\* The host does not count on the age of its room: it may vanish at any time.
Directory == INSTANCE RoomDirectory
               WITH Calls <- Callers, Eps <- Proxies \cup Bindings,
                    TTL <- 0, MaxClock <- 0

Init ==
  /\ Directory!Init
  /\ service = "stopped" /\ session = 0
  /\ server_stun_binding_ep = 0 /\ current_game_id = None
  /\ tasks = 0 /\ mg = "off" /\ call = None /\ game = None
  /\ binds = 0 /\ creates = 0
  /\ waiting = {} /\ joins = [p \in Proxies |-> 0]
  /\ server = [p \in Proxies |-> 0] /\ kick = [p \in Proxies |-> FALSE]
  /\ heard = [p \in Proxies |-> {}]
  /\ notify = [p \in Proxies |-> 0] /\ crossing = [p \in Proxies |-> 0]
  /\ punched = {} /\ opened = {} /\ hellos = {}
  /\ hosted = {} /\ invited = {}

-----------------------------------------------------------------------------
(* The UI thread.                                                          *)

\* Faulty: the id of the last game survives.
KeepGame == UNCHANGED current_game_id

ForgetGame == current_game_id' = None

\* A new ServerManager: no tasks, no connections, another port in the NAT.
\* server_stun_binding_ep is still that of the session before.
StartP2P ==
  /\ service = "stopped" /\ session < MaxSessions
  /\ service' = "running" /\ session' = session + 1
  /\ ForgetGame
  /\ tasks' = 0 /\ mg' = "loop" /\ binds' = 0
  /\ UNCHANGED <<directory, server_stun_binding_ep, call, game, creates,
                 players, network, history>>

RequestStop ==
  /\ service = "running" /\ service' = "stopping"
  /\ UNCHANGED <<directory, session, server_stun_binding_ep, current_game_id,
                 manager, players, network, history>>

\* Faulty: the thread is not joined first.
StopWithoutJoin ==
  /\ service = "stopping"
  /\ service' = "stopped" /\ mg' = "off"
  /\ ForgetGame
  /\ UNCHANGED <<directory, session, server_stun_binding_ep, tasks,
                 call, game, binds, creates, players, network, history>>

\* stopP2P after the join of the thread.
FinishStop ==
  /\ service = "stopping" /\ mg = "ended"
  /\ service' = "stopped" /\ mg' = "off"
  /\ ForgetGame
  /\ UNCHANGED <<directory, session, server_stun_binding_ep, tasks,
                 call, game, binds, creates, players, network, history>>

-----------------------------------------------------------------------------
(* The server manager thread.                                              *)

\* The thread sees the stop request, or run_once throws.
ThreadEnds ==
  /\ mg = "loop" /\ mg' = "ended"
  /\ UNCHANGED <<directory, photon, tasks, call, game, binds, creates,
                 players, network, history>>

Running == service = "running" /\ mg = "loop"

IdleCalls == {c \in HostCalls : phase[c] = "idle"}

\* The thread waits for the reply to a request over some idle connection.
AskDirectory(wait, op, room, ep) ==
  /\ IdleCalls # {} /\ call' = CHOOSE c \in IdleCalls : TRUE
  /\ Directory!Ask(call', [op |-> op, room |-> room, ep |-> ep])
  /\ mg' = wait

\* startPollingServer up to poll_room, when n tasks are left in the queue.
\* Without a connection to the local servers at that moment the game is over.
StartPolling(n) ==
  \/ /\ current_game_id # None
     /\ AskDirectory("poll", "poll", current_game_id, 0)
     /\ tasks' = n /\ UNCHANGED current_game_id
  \/ /\ current_game_id' = None /\ tasks' = n + 1
     /\ UNCHANGED <<directory, mg, call>>

\* on_stun_bind: the first polling, which schedules the next.
StunBind ==
  /\ Running /\ binds < MaxBinds /\ binds' = binds + 1
  /\ server_stun_binding_ep' = session
  /\ StartPolling(tasks)
  /\ UNCHANGED <<service, session, game, creates, players, network,
                 history>>

\* A scheduled task: 12 seconds are over.
RunTask ==
  /\ Running /\ tasks > 0
  /\ StartPolling(tasks - 1)
  /\ UNCHANGED <<service, session, server_stun_binding_ep, game, binds,
                 creates, players, network, history>>

\* Faulty: an error ends the chain of polling tasks.
PollFailsForGood ==
  /\ mg = "poll" /\ mg' = "loop" /\ call' = None
  /\ UNCHANGED <<directory, photon, tasks, game, binds, creates,
                 players, network, history>>

\* poll_room throws: no answer in time, or none at all.  The request may still
\* be handled later.
PollFails ==
  /\ mg = "poll" /\ mg' = "loop" /\ call' = None
  /\ tasks' = tasks + 1
  /\ UNCHANGED <<directory, photon, game, binds, creates, players,
                 network, history>>

\* poll_room returns: a hello to every client of the room.
PollReturns ==
  /\ mg = "poll" /\ mg' = "loop" /\ call' = None
  /\ Directory!Return(call)
  /\ LET sent == {session} \X value[call].clients
     IN  opened' = opened \cup sent /\ hellos' = hellos \cup sent
  /\ tasks' = tasks + 1
  /\ UNCHANGED <<photon, game, binds, creates, players, punched,
                 history>>

\* The CreateGame hookpoint for the default lobby: whatever endpoint is known
\* is registered.
CreateGame(r) ==
  /\ Running
  /\ creates < MaxCreates /\ creates' = creates + 1
  /\ game' = r
  /\ AskDirectory("create", "register", r, server_stun_binding_ep)
  /\ UNCHANGED <<photon, tasks, binds, players, network, history>>

\* register_host throws: an error for the local game, which creates nothing.
CreateFails ==
  /\ mg = "create" /\ mg' = "loop" /\ call' = None /\ game' = None
  /\ UNCHANGED <<directory, photon, tasks, binds, creates, players,
                 network, history>>

\* ... or returns: the local game may go on creating the game.
CreateReturns ==
  /\ mg = "create" /\ mg' = "loop" /\ call' = None /\ game' = None
  /\ Directory!Return(call)
  /\ current_game_id' = game
  /\ hosted' = hosted \cup {<<session, game>>}
  /\ UNCHANGED <<service, session, server_stun_binding_ep, tasks, binds,
                 creates, players, network, invited>>

-----------------------------------------------------------------------------
(* The joining players.  The manager thread's reset and request_join fall   *)
(* between any two critical sections of the proxy thread's run_once.       *)

\* reset and request_join of p's proxy, with host s or none at all.
ResetProxy(p, s) ==
  /\ server' = [server EXCEPT ![p] = s]
  /\ kick' = [kick EXCEPT ![p] = s # 0]
  /\ heard' = [heard EXCEPT ![p] = {}]
  /\ crossing' = [crossing EXCEPT ![p] = notify[p]]
  /\ UNCHANGED notify

\* JoinGame: reset, then join_room.
JoinGame(p, r) ==
  /\ joins[p] < MaxJoins /\ joins' = [joins EXCEPT ![p] = @ + 1]
  /\ p \notin waiting /\ waiting' = waiting \cup {p}
  /\ ResetProxy(p, 0)
  /\ Directory!Ask(p, [op |-> "join", room |-> r, ep |-> p])
  /\ invited' = invited \cup {<<p, r>>}
  /\ UNCHANGED <<photon, manager, network, hosted>>

\* The reply: the endpoint of the host, and request_join; or one that is no
\* valid address, or no room.
JoinReturns(p) ==
  /\ p \in waiting /\ waiting' = waiting \ {p}
  /\ IF value[p].kind = "host" /\ value[p].host # 0
     THEN ResetProxy(p, value[p].host)
     ELSE UNCHANGED proxies
  /\ Directory!Return(p)
  /\ UNCHANGED <<photon, manager, joins, network, history>>

\* join_room throws.
JoinFails(p) ==
  /\ p \in waiting /\ waiting' = waiting \ {p}
  /\ UNCHANGED <<directory, photon, manager, joins, proxies, network,
                 history>>

\* The proxy thread has no hello in hand and begins a run_once.
Free(p) == notify[p] = 0

\* The one byte that opens the player's NAT towards the host: the request is
\* taken under the lock, the byte sent after it, which only the thread itself
\* can tell apart.  A send that fails is only logged.
Kick(p) ==
  /\ Free(p) /\ kick[p]
  /\ kick' = [kick EXCEPT ![p] = FALSE]
  /\ punched' \in {punched, punched \cup {<<p, server[p]>>}}
  /\ UNCHANGED <<directory, photon, manager, waiting, joins, server, heard,
                 notify, crossing, opened, hellos, history>>

\* Faulty: the player's proxy does not compare the sender.
AnyHello(p, s) == <<p, s>> \in punched

\* A hello of session s counts for p when the NAT lets it in and it comes from
\* server_ep, of which run_once compares a copy.
Accepted(p, s) == <<p, s>> \in punched /\ server[p] = s

\* A hello is received and compared, or dropped on the way ...
HelloArrives(p, s) ==
  /\ Free(p)
  /\ <<s, p>> \in hellos /\ hellos' = hellos \ {<<s, p>>}
  /\ notify' = [notify EXCEPT ![p] = IF Accepted(p, s) THEN s ELSE 0]
  /\ UNCHANGED <<directory, photon, manager, waiting, joins, server, kick,
                 heard, crossing, punched, opened, history>>

\* ... and counted in the next critical section, whatever server_ep is now.
NotifyJoin(p) ==
  /\ notify[p] # 0 /\ notify' = [notify EXCEPT ![p] = 0]
  /\ heard' = [heard EXCEPT ![p] = @ \cup {notify[p]}]
  /\ UNCHANGED <<directory, photon, manager, waiting, joins, server, kick,
                 crossing, network, history>>

HelloLost(p, s) ==
  /\ <<s, p>> \in hellos /\ hellos' = hellos \ {<<s, p>>}
  /\ UNCHANGED <<directory, photon, manager, players, punched, opened,
                 history>>

-----------------------------------------------------------------------------
(* The signaling server.  A call that was given up ends there by itself.   *)

Awaited == waiting \cup {call}

Handle(c) ==
  /\ Directory!Register(c) \/ Directory!Join(c) \/ Directory!Poll(c)
  /\ UNCHANGED <<photon, manager, players, network, history>>

Discard(c) ==
  /\ c \notin Awaited /\ Directory!Return(c)
  /\ UNCHANGED <<photon, manager, players, network, history>>

Vanish ==
  /\ Directory!Vanish
  /\ UNCHANGED <<photon, manager, players, network, history>>

DirectoryStep == Vanish \/ \E c \in Callers : Handle(c) \/ Discard(c)

HostStep ==
  \/ StunBind \/ RunTask \/ PollFails \/ PollReturns
  \/ CreateFails \/ CreateReturns \/ \E r \in Rooms : CreateGame(r)

PlayerStep(p) ==
  \/ JoinReturns(p) \/ JoinFails(p)
  \/ Kick(p) \/ NotifyJoin(p)
  \/ \E r \in Rooms : JoinGame(p, r)
  \/ \E s \in Sessions : HelloArrives(p, s) \/ HelloLost(p, s)

Next ==
  \/ StartP2P \/ RequestStop \/ FinishStop \/ ThreadEnds
  \/ HostStep \/ DirectoryStep
  \/ \E p \in Proxies : PlayerStep(p)

Spec == Init /\ [][Next]_vars

\* The thread runs its tasks and the player's proxy its loop, which looks for a
\* kick in every round.  The server handles what it is asked, answers some of
\* the polls while the host waits, and some of the hellos get through; the
\* kick need not.
AnswerPoll == mg = "poll" /\ Handle(call)

Fairness ==
  /\ WF_vars(RunTask)
  /\ WF_vars(PollFails \/ PollReturns \/ CreateFails \/ CreateReturns)
  /\ SF_vars(AnswerPoll) /\ SF_vars(PollReturns)
  /\ \A c \in HostCalls : WF_vars(c # call /\ Handle(c)) /\ WF_vars(Discard(c))
  /\ \A p \in Proxies :
       /\ SF_vars(Kick(p)) /\ WF_vars(NotifyJoin(p))
       /\ \A s \in Sessions : SF_vars(HelloArrives(p, s))

FairSpec == Spec /\ Fairness

-----------------------------------------------------------------------------
(* Properties.                                                             *)

Replies ==
  [kind : {"none", "registered", "not found", "host", "room"},
   host : Proxies \cup Bindings \cup {None}, clients : SUBSET Proxies]

\* Types; the thread waits over a connection of its own, for what it asked.
TypeOK ==
  /\ dir \in [Rooms -> [host : Bindings, clients : SUBSET Proxies,
                        born : Nat] \cup {None}]
  /\ clock \in Nat /\ phase \in [Callers -> {"idle", "asked", "done"}]
  /\ req \in [Callers -> Directory!Ops \cup {Directory!NoOp}]
  /\ at \in [Callers -> Nat] /\ value \in [Callers -> Replies]
  /\ service \in {"stopped", "running", "stopping"}
  /\ session \in Bindings /\ server_stun_binding_ep \in Bindings
  /\ current_game_id \in Rooms \cup {None} /\ game \in Rooms \cup {None}
  /\ tasks \in Nat /\ binds \in Nat /\ creates \in Nat
  /\ mg \in {"off", "loop", "poll", "create", "ended"}
  /\ call \in HostCalls \cup {None}
  /\ (call # None) = (mg \in {"poll", "create"})
  /\ (game # None) = (mg = "create")
  /\ mg = "create" => req[call].op = "register"
  /\ mg = "poll" => req[call].op = "poll"
  /\ waiting \subseteq Proxies /\ joins \in [Proxies -> Nat]
  /\ server \in [Proxies -> Bindings] /\ kick \in [Proxies -> BOOLEAN]
  /\ heard \in [Proxies -> SUBSET Sessions]
  /\ notify \in [Proxies -> Bindings] /\ crossing \in [Proxies -> Bindings]
  /\ punched \subseteq Proxies \X Sessions
  /\ opened \subseteq Sessions \X Proxies /\ hellos \subseteq opened
  /\ hosted \subseteq Sessions \X Rooms /\ invited \subseteq Proxies \X Rooms

\* "Server NAT hole punched": a host counted as heard, upon which the local
\* game is told to connect, can be reached and can reach the player, also with
\* hellos of an earlier session or room under way; and it is the host the
\* player waits for, unless reset or request_join came between the comparison
\* of its hello and the notification.
BothNatsOpen ==
  \A p \in Proxies : \A s \in heard[p] :
    /\ <<p, s>> \in punched /\ <<s, p>> \in opened
    /\ s \in {server[p], crossing[p]}

\* The host opens its NAT only towards players who asked for a room that this
\* session of the service registered: not for the game of a session before,
\* whose room is still listed.
OnlyInvited ==
  \A o \in opened :
    \E r \in Rooms : <<o[1], r>> \in hosted /\ <<o[2], r>> \in invited

\* Every STUN binding keeps exactly one chain of polling tasks going, through
\* games, errors and empty servers: the chains neither die nor multiply.
PollingGoesOn ==
  service = "running" /\ mg # "ended" =>
    tasks + (IF mg = "poll" THEN 1 ELSE 0) = binds

\* A player who was told the endpoint of this session, listed in the room that
\* is being hosted.
MayMeet(p, r) ==
  /\ service = "running" /\ mg # "ended" /\ binds > 0
  /\ current_game_id = r /\ dir[r] # None /\ p \in dir[r].clients
  /\ server[p] = session

\* The one kick of p's last join was sent in vain.
KickLost(p) ==
  ~kick[p] /\ <<p, server[p]>> \notin punched

\* Whatever calls fail, hellos get lost and joins follow one another, such a
\* player hears the host, as long as the game, the room and the service last,
\* unless the kick was lost, which nobody sends again.
PlayersMeet ==
  \A p \in Proxies, r \in Rooms :
    MayMeet(p, r) ~> \/ server[p] \in heard[p]
                     \/ ~MayMeet(p, r) \/ KickLost(p)
=============================================================================
