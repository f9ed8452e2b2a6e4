------------------------------ MODULE P2PJoin ------------------------------
(***************************************************************************)
(* The joining side of the P2P service of the "Photon Settings" mod        *)
(* (UltimatePhobia/mods/photon_settings.cpp).                              *)
(*                                                                         *)
(* Three threads share one PhotonSettings object:                          *)
(*   - the UI thread starts and stops the service;                         *)
(*   - the server manager thread runs the local Photon servers, handles    *)
(*     the local game's JoinGame requests and answers them later;          *)
(*   - the client proxy thread runs GameServerProxy::run_once, which       *)
(*     punches the NAT towards the remote host and forwards datagrams      *)
(*     between that host and the local game client.                        *)
(* The last two share the proxy's fields.  Some fields are guarded by      *)
(* state_mutex, four are atomics; one action below is one critical section *)
(* or one atomic access together with the thread-local code around it.     *)
(***************************************************************************)
EXTENDS Integers, FiniteSets

CONSTANTS
  Hosts,      \* public endpoints of remote game servers, one room each
  Locals,     \* endpoints of the local game client's sockets
  Stun,       \* endpoint of the STUN server
  Public,     \* the proxy's own endpoint as the STUN server reports it
  Handlers,   \* MasterServerHandler objects: the local game's connections
  None,       \* an empty std::optional or a null pointer
  MaxJoins    \* bound: JoinGame requests per run of the service

Endpoints == Hosts \cup Locals \cup {Stun}

ASSUME EndpointsAssumption ==
  /\ Hosts \cap Locals = {}
  /\ Stun \notin Hosts \cup Locals
  /\ None \notin Endpoints \cup Handlers \cup {Public}

ASSUME BoundsAssumption == MaxJoins \in Nat

VARIABLES
  service,               \* what startP2P and stopP2P have built so far
  joins,                 \* counter of the bound
  \* GameServerProxy, under state_mutex
  proxy_ep, client_ep, server_ep, client_notified, kick_server_ep,
  \* GameServerProxy, atomics
  proxy_ready, server_active, client_notified_flag, join_ready,
  \* the client proxy thread and the locals of run_once
  px, kick_ep, from_ep, current_server_ep, dest,
  \* the server manager thread, the request in its hands
  mg, request, pending_join_handler,
  \* the world outside the process
  open,                  \* requests of each local peer without an answer yet
  published,             \* hosts in whose room our endpoint was published
  punched,               \* endpoints our NAT lets datagrams in from
  told,                  \* local sockets opened after an OK answer
  \* history: server_ep was heard since the last reset or request_join
  heard

locked  == <<proxy_ep, client_ep, server_ep, client_notified, kick_server_ep>>
atomics == <<proxy_ready, server_active, client_notified_flag, join_ready>>
proxyThread   == <<px, kick_ep, from_ep, current_server_ep, dest>>
managerThread == <<mg, request, pending_join_handler>>
world == <<open, published, punched, told>>
life  == <<service, joins>>
vars  == <<life, locked, atomics, proxyThread, managerThread, world, heard>>

NoRequest == [handler |-> None, host |-> None]

-----------------------------------------------------------------------------
(* The UI thread.                                                          *)

InitProxy ==
  /\ proxy_ep = None /\ client_ep = None /\ server_ep = None
  /\ client_notified = FALSE /\ kick_server_ep = FALSE
  /\ proxy_ready = FALSE /\ server_active = FALSE
  /\ client_notified_flag = FALSE /\ join_ready = FALSE

Init ==
  /\ service = "stopped" /\ joins = 0
  /\ InitProxy
  /\ px = "off" /\ kick_ep = None /\ from_ep = None
  /\ current_server_ep = None /\ dest = None
  /\ mg = "off" /\ request = NoRequest /\ pending_join_handler = None
  /\ open = [h \in Handlers |-> 0]
  /\ published = {} /\ punched = {} /\ told = {}
  /\ heard = FALSE

\* A fresh GameServerProxy and a fresh NAT mapping; pending_join_handler is
\* cleared and the peers of an earlier ServerManager are gone.
FreshSession ==
  /\ proxy_ep' = None /\ client_ep' = None /\ server_ep' = None
  /\ client_notified' = FALSE /\ kick_server_ep' = FALSE
  /\ proxy_ready' = FALSE /\ server_active' = FALSE
  /\ client_notified_flag' = FALSE /\ join_ready' = FALSE
  /\ kick_ep' = None /\ from_ep' = None
  /\ current_server_ep' = None /\ dest' = None
  /\ request' = NoRequest /\ pending_join_handler' = None
  /\ open' = [h \in Handlers |-> 0]
  /\ published' = {} /\ punched' = {} /\ told' = {}
  /\ heard' = FALSE /\ joins' = 0

\* The proxy is built first.  When the ServerManager cannot be built the
\* exception leaves client_proxy behind ("half"): the early return at the top
\* of startP2P then refuses every later attempt.  When a thread cannot be
\* created startP2P cleans up through stopP2P.
StartP2P ==
  /\ service = "stopped"
  /\ FreshSession
  /\ \/ service' = "running" /\ px' = "loop" /\ mg' = "loop"
     \/ service' = "half"    /\ UNCHANGED <<px, mg>>
     \/ UNCHANGED <<service, px, mg>>

\* startP2P with a serman or a client_proxy left: nothing happens.
StartRefused == service = "half" /\ UNCHANGED vars

\* stopP2P up to the two request_stop calls.
RequestStop ==
  /\ service = "running"
  /\ service' = "stopping"
  /\ UNCHANGED <<joins, locked, atomics, proxyThread, managerThread,
                 world, heard>>

\* stopP2P after both joins: the threads are gone, then the objects.
FinishStop ==
  /\ service = "stopping" /\ px = "ended" /\ mg = "ended"
  /\ service' = "stopped" /\ px' = "off" /\ mg' = "off"
  /\ FreshSession

-----------------------------------------------------------------------------
(* GameServerProxy::request_join and reset, run by the manager thread.     *)

\* Faulty: client_notified is not reset.
request_join_notified(s) ==
  /\ server_ep' = s /\ client_ep' = None
  /\ kick_server_ep' = TRUE /\ server_active' = TRUE
  /\ client_notified_flag' = FALSE /\ join_ready' = FALSE
  /\ heard' = FALSE
  /\ UNCHANGED <<proxy_ep, proxy_ready, client_notified>>

request_join(s) ==
  /\ server_ep' = s /\ client_ep' = None
  /\ client_notified' = FALSE /\ kick_server_ep' = TRUE
  /\ server_active' = TRUE
  /\ client_notified_flag' = FALSE /\ join_ready' = FALSE
  /\ heard' = FALSE
  /\ UNCHANGED <<proxy_ep, proxy_ready>>

\* Faulty: join_ready survives.
reset_keeps_ready ==
  /\ server_ep' = None /\ client_ep' = None
  /\ client_notified' = FALSE /\ kick_server_ep' = FALSE
  /\ server_active' = FALSE /\ client_notified_flag' = FALSE
  /\ heard' = FALSE
  /\ UNCHANGED <<proxy_ep, proxy_ready, join_ready>>

reset ==
  /\ server_ep' = None /\ client_ep' = None
  /\ client_notified' = FALSE /\ kick_server_ep' = FALSE
  /\ server_active' = FALSE
  /\ client_notified_flag' = FALSE /\ join_ready' = FALSE
  /\ heard' = FALSE
  /\ UNCHANGED <<proxy_ep, proxy_ready>>

-----------------------------------------------------------------------------
(* The client proxy thread: the while loop and run_once.                   *)

PxGoto(from, to) == px = from /\ px' = to

\* Faulty: the stop token is not looked at.
LoopForever(body) == body

\* while (!stop_token.stop_requested()), of both threads.
LoopNext(body) == IF service = "stopping" THEN "ended" ELSE body

\* The loop's condition, the two keepalives included (a byte the STUN server
\* ignores).  kick_ep, from_ep and the copies die with each run_once.
ProxyLoop ==
  /\ PxGoto("loop", LoopNext("kick"))
  /\ kick_ep' = None /\ from_ep' = None
  /\ current_server_ep' = None /\ dest' = None
  /\ UNCHANGED <<life, locked, atomics, managerThread, world, heard>>

\* run_once threw; the loop is left.
ProxyThrows ==
  /\ px \in {"send_kick", "recv", "forward"}
  /\ px' = "ended"
  /\ UNCHANGED <<life, locked, atomics, kick_ep, from_ep, current_server_ep,
                 dest, managerThread, world, heard>>

\* First critical section: take the one kick a join asked for.
TakeKick ==
  /\ IF kick_server_ep /\ server_ep # None
     THEN /\ PxGoto("kick", "send_kick")
          /\ kick_ep' = server_ep /\ kick_server_ep' = FALSE
     ELSE /\ PxGoto("kick", "recv")
          /\ UNCHANGED <<kick_ep, kick_server_ep>>
  /\ UNCHANGED <<life, proxy_ep, client_ep, server_ep, client_notified,
                 atomics, from_ep, current_server_ep, dest, managerThread,
                 world, heard>>

\* The byte that opens our NAT towards the host, or a send that fails and is
\* only logged.
SendKick ==
  /\ PxGoto("send_kick", "recv")
  /\ punched' \in {punched, punched \cup {kick_ep}}
  /\ UNCHANGED <<life, locked, atomics, kick_ep, from_ep, current_server_ep,
                 dest, managerThread, open, published, told, heard>>

\* Datagrams may be lost, late or repeated, so any endpoint that has had a
\* reason and a way to reach us may be the sender of the next one.
MayArrive(e) ==
  \/ e = Stun
  \/ e \in published \cap punched
  \/ e \in told

\* recv_from has a datagram of e.  Before proxy_ready one from the STUN server
\* is its binding response, or something that does not parse and is dropped.
Recv(e) ==
  /\ px = "recv" /\ MayArrive(e)
  /\ from_ep' = e
  /\ heard' = (heard \/ e = server_ep)
  /\ IF e = Stun /\ ~proxy_ready
     THEN px' \in {"bind", "loop"}
     ELSE px' = "read"
  /\ UNCHANGED <<life, locked, atomics, kick_ep, current_server_ep, dest,
                 managerThread, world>>

\* recv_from has nothing: the socket is non-blocking.
RecvNothing ==
  /\ PxGoto("recv", "loop")
  /\ UNCHANGED <<life, locked, atomics, kick_ep, from_ep, current_server_ep,
                 dest, managerThread, world, heard>>

\* Faulty: the sender's endpoint instead of the one in the response.
SenderEndpoint == from_ep

\* parse_stun_binding_response.
BoundEndpoint == Public

\* The STUN binding: the endpoint under the lock, then the atomic flag.
BindProxy ==
  /\ PxGoto("bind", "bound")
  /\ proxy_ep' = BoundEndpoint
  /\ UNCHANGED <<life, client_ep, server_ep, client_notified, kick_server_ep,
                 atomics, kick_ep, from_ep, current_server_ep, dest,
                 managerThread, world, heard>>

ProxyReady ==
  /\ PxGoto("bound", "loop")
  /\ proxy_ready' = TRUE
  /\ UNCHANGED <<life, locked, server_active, client_notified_flag,
                 join_ready, kick_ep, from_ep, current_server_ep, dest,
                 managerThread, world, heard>>

\* Second critical section: copy server_ep, then decide on the copy.
ReadServer ==
  /\ px = "read"
  /\ current_server_ep' = server_ep
  /\ px' = IF server_ep = None THEN "loop"
           ELSE IF from_ep = server_ep THEN "notify" ELSE "claim"
  /\ UNCHANGED <<life, locked, atomics, kick_ep, from_ep, dest,
                 managerThread, world, heard>>

\* Third critical section when the sender was the server: the first datagram
\* completes the join; every datagram goes to the local client if there is one.
NotifyJoin ==
  /\ PxGoto("notify", IF client_ep = None THEN "loop" ELSE "forward")
  /\ client_notified' = TRUE
  /\ IF client_notified
     THEN UNCHANGED <<client_notified_flag, join_ready>>
     ELSE client_notified_flag' = TRUE /\ join_ready' = TRUE
  /\ dest' = client_ep
  /\ UNCHANGED <<life, proxy_ep, client_ep, server_ep, kick_server_ep,
                 proxy_ready, server_active, kick_ep, from_ep,
                 current_server_ep, managerThread, world, heard>>

\* Third critical section otherwise: the first other sender becomes the local
\* client, and its datagrams go to the server.
ClaimClient ==
  /\ LET client == IF client_ep = None THEN from_ep ELSE client_ep
         forward == server_ep # None /\ from_ep = client
     IN  /\ client_ep' = client
         /\ PxGoto("claim", IF forward THEN "forward" ELSE "loop")
         /\ dest' = IF forward THEN server_ep ELSE None
  /\ current_server_ep' = server_ep
  /\ UNCHANGED <<life, proxy_ep, server_ep, client_notified, kick_server_ep,
                 atomics, kick_ep, from_ep, managerThread, world, heard>>

\* send_to, outside the lock.
Forward ==
  /\ PxGoto("forward", "loop")
  /\ UNCHANGED <<life, locked, atomics, kick_ep, from_ep, current_server_ep,
                 dest, managerThread, world, heard>>

ProxyStep ==
  \/ ProxyLoop \/ TakeKick \/ SendKick \/ RecvNothing
  \/ BindProxy \/ ProxyReady \/ ReadServer \/ NotifyJoin \/ ClaimClient
  \/ Forward

-----------------------------------------------------------------------------
(* The server manager thread: its while loop, the JoinGame hookpoint and   *)
(* flushPendingJoinResponse.                                               *)

MgGoto(from, to) == mg = from /\ mg' = to

\* An operation response to a JoinGame of h, an error or OK.
Answer(h) == open' = [open EXCEPT ![h] = @ - 1]

\* Faulty: the return after the error answer is missing.
JoinFailsOn ==
  /\ mg' = "request" /\ UNCHANGED <<request, pending_join_handler>>
  /\ Answer(request.handler)

\* The hookpoint answers with ServerCheckFailed and run_once returns.
JoinFails ==
  /\ mg' = "flush" /\ request' = NoRequest
  /\ Answer(request.handler)
  /\ UNCHANGED pending_join_handler

ManagerLoop ==
  /\ MgGoto("loop", LoopNext("run_once"))
  /\ UNCHANGED <<life, locked, atomics, proxyThread, request,
                 pending_join_handler, world, heard>>

\* run_once had no JoinGame request for the default lobby.
ManagerIdle ==
  /\ MgGoto("run_once", "flush")
  /\ UNCHANGED <<life, locked, atomics, proxyThread, request,
                 pending_join_handler, world, heard>>

ManagerThrows ==
  /\ MgGoto("run_once", "ended")
  /\ UNCHANGED <<life, locked, atomics, proxyThread, request,
                 pending_join_handler, world, heard>>

\* A local peer asks for the room of s, perhaps while an earlier request of its
\* own or of another is pending: the hookpoint begins with reset, whatever
\* becomes of the request.
JoinGame(h, s) ==
  /\ joins < MaxJoins /\ joins' = joins + 1
  /\ open' = [open EXCEPT ![h] = @ + 1]
  /\ MgGoto("run_once", "check")
  /\ request' = [handler |-> h, host |-> s]
  /\ reset
  /\ UNCHANGED <<service, proxyThread, pending_join_handler,
                 published, punched, told>>

CheckReady ==
  /\ mg = "check"
  /\ IF proxy_ready
     THEN mg' = "take" /\ UNCHANGED <<request, pending_join_handler, open>>
     ELSE JoinFails
  /\ UNCHANGED <<life, locked, atomics, proxyThread, published, punched,
                 told, heard>>

TakeEndpoint ==
  /\ mg = "take"
  /\ IF proxy_ep # None
     THEN mg' = "signal" /\ UNCHANGED <<request, pending_join_handler, open>>
     ELSE JoinFails
  /\ UNCHANGED <<life, locked, atomics, proxyThread, published, punched,
                 told, heard>>

\* join_room: the room is there and the host's endpoint comes back; or it is
\* not there or unusable, or the call fails before or after the server has
\* taken our endpoint.
JoinRoom ==
  /\ mg = "signal"
  /\ \/ /\ published' = published \cup {request.host}
        /\ mg' = "request"
        /\ UNCHANGED <<request, pending_join_handler, open>>
     \/ /\ published' \in {published, published \cup {request.host}}
        /\ JoinFails
  /\ UNCHANGED <<life, locked, atomics, proxyThread, punched, told, heard>>

\* request_join under the lock, then the handler is remembered.
RequestJoin ==
  /\ MgGoto("request", "flush")
  /\ request_join(request.host)
  /\ pending_join_handler' = request.handler
  /\ request' = NoRequest
  /\ UNCHANGED <<life, proxyThread, world>>

\* flushPendingJoinResponse.  consumeJoinReady is an exchange, evaluated only
\* when a handler is pending.  The game client then opens a socket.
FlushPendingJoin ==
  /\ MgGoto("flush", "loop")
  /\ IF pending_join_handler # None /\ join_ready
     THEN /\ join_ready' = FALSE
          /\ Answer(pending_join_handler)
          /\ pending_join_handler' = None
          /\ \E l \in Locals : told' = told \cup {l}
     ELSE UNCHANGED <<join_ready, open, pending_join_handler, told>>
  /\ UNCHANGED <<life, locked, proxy_ready, server_active,
                 client_notified_flag, proxyThread, request, published,
                 punched, heard>>

ManagerStep ==
  \/ ManagerLoop \/ ManagerIdle \/ CheckReady \/ TakeEndpoint \/ JoinRoom
  \/ RequestJoin \/ FlushPendingJoin

-----------------------------------------------------------------------------
Next ==
  \/ StartP2P \/ StartRefused \/ RequestStop \/ FinishStop
  \/ ProxyStep \/ ProxyThrows \/ \E e \in Endpoints : Recv(e)
  \/ ManagerStep \/ ManagerThrows
  \/ \E h \in Handlers, s \in Hosts : JoinGame(h, s)

Spec == Init /\ [][Next]_vars

\* Both threads keep running, and once the host knows our endpoint and our NAT
\* lets it in, its hello of every twelve seconds arrives again and again.  The
\* user, the game and the signaling server owe nothing.
Fairness ==
  /\ WF_vars(ProxyStep) /\ WF_vars(ManagerStep) /\ WF_vars(FinishStop)
  /\ \A s \in Hosts : SF_vars(Recv(s))

FairSpec == Spec /\ Fairness

-----------------------------------------------------------------------------
(* Properties.                                                             *)

FlagTypes ==
  /\ client_notified \in BOOLEAN /\ kick_server_ep \in BOOLEAN
  /\ proxy_ready \in BOOLEAN /\ server_active \in BOOLEAN
  /\ client_notified_flag \in BOOLEAN /\ join_ready \in BOOLEAN
  /\ heard \in BOOLEAN

DataTypes ==
  /\ service \in {"stopped", "half", "running", "stopping"}
  /\ joins \in 0..MaxJoins
  /\ proxy_ep \in {None, Public}
  /\ client_ep \in Endpoints \cup {None} /\ server_ep \in Hosts \cup {None}
  /\ px \in {"off", "loop", "kick", "send_kick", "recv", "bind", "bound",
             "read", "notify", "claim", "forward", "ended"}
  /\ kick_ep \in Hosts \cup {None} /\ from_ep \in Endpoints \cup {None}
  /\ current_server_ep \in Hosts \cup {None}
  /\ dest \in Endpoints \cup {None}
  /\ mg \in {"off", "loop", "run_once", "check", "take", "signal", "request",
             "flush", "ended"}
  /\ request \in [handler : Handlers, host : Hosts] \cup {NoRequest}
  /\ pending_join_handler \in Handlers \cup {None}
  /\ open \in [Handlers -> Int]
  /\ published \in SUBSET Hosts /\ punched \in SUBSET Hosts
  /\ told \in SUBSET Locals

\* The type of every variable.
TypeOK == FlagTypes /\ DataTypes

\* The four atomics that uiUpdate and flushPendingJoinResponse read without
\* the lock say what the locked fields say, and a join is never ready before
\* its notification is recorded, whatever the two threads interleave.
FlagsAgree ==
  /\ server_active <=> server_ep # None
  /\ client_notified_flag = client_notified
  /\ join_ready => client_notified

\* run_once stores the endpoint before it raises proxy_ready, so a JoinGame
\* that saw the flag never finds "Proxy endpoint unavailable": the hookpoint's
\* second early return is dead, although the two reads are not one.
ReadyMeansBound == (proxy_ready \/ mg = "take") => proxy_ep # None

\* The proxy only waits for, kicks and forwards to a host that was given our
\* endpoint before: the signaling call precedes request_join, and a failed
\* JoinGame leaves no server behind.
PublishedFirst ==
  \A s \in {server_ep, kick_ep, current_server_ep} \ {None} : s \in published

\* The answers the manager thread has in hand for a peer: the hookpoint's own
\* and the pending one.
Owed(h) == (IF request.handler = h THEN 1 ELSE 0)
         + (IF pending_join_handler = h THEN 1 ELSE 0)

\* No peer is answered more often than it asked, although
\* flushPendingJoinResponse runs after every run_once: not when an earlier
\* join of it is pending while its next request fails with an error, and not
\* when a datagram of the earlier host completes the join between the two.
PendingWaits == \A h \in Handlers : Owed(h) <= open[h]

\* While a join is pending the host's first datagram is not lost between the
\* threads: once received it is being handled, or join_ready is up for the
\* next flush.  A join_ready left by an earlier join cannot eat it.
NoLostPunch ==
  pending_join_handler # None /\ heard =>
    \/ join_ready
    \/ px = "read" /\ from_ep = server_ep
    \/ px = "notify"

\* stopP2P destroys the proxy, the servers and the signaling client only when
\* neither thread can touch them any more.
ThreadsInsideService ==
  (px \notin {"off", "ended"} \/ mg \notin {"off", "ended"})
    => service \in {"running", "stopping"}

\* A pending join whose host can reach us is answered, unless a thread died, a
\* new JoinGame replaced the server, or the service went down.
JoinAnswered ==
  (pending_join_handler # None /\ server_ep \in punched)
    ~> \/ pending_join_handler = None
       \/ server_ep \notin punched
       \/ "ended" \in {px, mg}

\* stopP2P returns: both threads see the stop request and can be joined.
StopCompletes == service = "stopping" ~> service = "stopped"

=============================================================================
