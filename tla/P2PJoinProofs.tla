--------------------------- MODULE P2PJoinProofs ---------------------------
(***************************************************************************)
(* TLAPS proofs about P2PJoin, for every set of hosts, local sockets and   *)
(* handlers and every bound: types, and the safety of the two threads'     *)
(* interplay.                                                              *)
(***************************************************************************)
EXTENDS P2PJoin, TLAPS

\* The steps of Next, one by one, so that each proof below has one case per
\* action of the model.
AnyStep ==
  \/ StartP2P \/ StartRefused \/ RequestStop \/ FinishStop
  \/ ProxyLoop \/ TakeKick \/ SendKick \/ RecvNothing \/ BindProxy
  \/ ProxyReady \/ ReadServer \/ NotifyJoin \/ ClaimClient \/ Forward
  \/ ProxyThrows \/ \E e \in Endpoints : Recv(e)
  \/ ManagerLoop \/ ManagerIdle \/ CheckReady \/ TakeEndpoint \/ JoinRoom
  \/ RequestJoin \/ FlushPendingJoin \/ ManagerThrows
  \/ \E h \in Handlers, s \in Hosts : JoinGame(h, s)

LEMMA StepCases == Next => AnyStep
BY DEF Next, AnyStep, ProxyStep, ManagerStep

-----------------------------------------------------------------------------
USE DEF Endpoints

\* The manager thread holds a request exactly while a hookpoint runs.
InHookpoint == mg \in {"check", "take", "signal", "request"}

\* What a program counter says about the state: send_kick has an endpoint to
\* send to, a bound proxy its own, a hookpoint its request; a stopped or
\* half-started service has no threads.
PcInv ==
  /\ px = "send_kick" => kick_ep # None
  /\ px = "bound" => proxy_ep # None
  /\ InHookpoint <=> request # NoRequest
  /\ mg = "take" => proxy_ready
  /\ service \in {"stopped", "half"} => px = "off" /\ mg = "off"

\* The Booleans.
LEMMA FlagTypesStep == FlagTypes /\ [Next]_vars => FlagTypes'
<1> SUFFICES ASSUME FlagTypes, [Next]_vars PROVE FlagTypes'
  OBVIOUS
<1> USE DEF FlagTypes, life, locked, atomics, proxyThread, managerThread, world, vars
<1>1. CASE StartP2P
  BY <1>1, Zenon DEF StartP2P, FreshSession
<1>2. CASE StartRefused
  BY <1>2, Zenon DEF StartRefused
<1>3. CASE RequestStop
  BY <1>3, Zenon DEF RequestStop
<1>4. CASE FinishStop
  BY <1>4, Zenon DEF FinishStop, FreshSession
<1>5. CASE ProxyLoop
  BY <1>5, Zenon DEF ProxyLoop, PxGoto, LoopNext
<1>6. CASE TakeKick
  BY <1>6, Zenon DEF TakeKick, PxGoto
<1>7. CASE SendKick
  BY <1>7, Zenon DEF SendKick, PxGoto
<1>8. CASE RecvNothing
  BY <1>8, Zenon DEF RecvNothing, PxGoto
<1>9. CASE BindProxy
  BY <1>9, Zenon DEF BindProxy, PxGoto, BoundEndpoint
<1>10. CASE ProxyReady
  BY <1>10, Zenon DEF ProxyReady, PxGoto
<1>11. CASE ReadServer
  BY <1>11, Zenon DEF ReadServer
<1>12. CASE NotifyJoin
  BY <1>12, Zenon DEF NotifyJoin, PxGoto
<1>13. CASE ClaimClient
  BY <1>13, Zenon DEF ClaimClient, PxGoto
<1>14. CASE Forward
  BY <1>14, Zenon DEF Forward, PxGoto
<1>15. CASE ProxyThrows
  BY <1>15, Zenon DEF ProxyThrows
<1>16. CASE ManagerLoop
  BY <1>16, Zenon DEF ManagerLoop, MgGoto, LoopNext
<1>17. CASE ManagerIdle
  BY <1>17, Zenon DEF ManagerIdle, MgGoto
<1>18. CASE CheckReady
  BY <1>18, Zenon DEF CheckReady, JoinFails, Answer
<1>19. CASE TakeEndpoint
  BY <1>19, Zenon DEF TakeEndpoint, JoinFails, Answer
<1>20. CASE JoinRoom
  BY <1>20, Zenon DEF JoinRoom, JoinFails, Answer
<1>21. CASE RequestJoin
  BY <1>21, Zenon DEF RequestJoin, MgGoto, request_join
<1>22. CASE FlushPendingJoin
  BY <1>22, Zenon DEF FlushPendingJoin, MgGoto, Answer
<1>23. CASE ManagerThrows
  BY <1>23, Zenon DEF ManagerThrows, MgGoto
<1>24. ASSUME NEW e \in Endpoints, Recv(e) PROVE FlagTypes'
  BY <1>24, Zenon DEF Recv, MayArrive
<1>25. ASSUME NEW h \in Handlers, NEW s \in Hosts, JoinGame(h, s)
      PROVE  FlagTypes'
  BY <1>25, Zenon DEF JoinGame, MgGoto, Answer, reset
<1>26. CASE UNCHANGED vars
  BY <1>26, Zenon
<1> HIDE DEF FlagTypes, vars
<1> QED
  BY <1>1, <1>2, <1>3, <1>4, <1>5, <1>6, <1>7, <1>8, <1>9,
     <1>10, <1>11, <1>12, <1>13, <1>14, <1>15, <1>16, <1>17, <1>18,
     <1>19, <1>20, <1>21, <1>22, <1>23, <1>24, <1>25, <1>26,
     StepCases DEF AnyStep

\* The other types, with what they rest on.
TypeInv == DataTypes /\ PcInv

LEMMA TypeInvInit == Init => TypeInv
BY BoundsAssumption
   DEF Init, InitProxy, TypeInv, DataTypes, PcInv, InHookpoint, NoRequest

LEMMA TypeInvStep == TypeInv /\ [Next]_vars => TypeInv'
<1> SUFFICES ASSUME TypeInv, [Next]_vars PROVE TypeInv'
  OBVIOUS
<1> USE EndpointsAssumption, BoundsAssumption
    DEF TypeInv, DataTypes, PcInv, InHookpoint, NoRequest,
        life, locked, atomics, proxyThread, managerThread, world, vars
<1>1. CASE StartP2P
  BY <1>1 DEF StartP2P, FreshSession
<1>2. CASE StartRefused
  BY <1>2 DEF StartRefused
<1>3. CASE RequestStop
  BY <1>3 DEF RequestStop
<1>4. CASE FinishStop
  BY <1>4 DEF FinishStop, FreshSession
<1>5. CASE ProxyLoop
  BY <1>5 DEF ProxyLoop, PxGoto, LoopNext
<1>6. CASE TakeKick
  BY <1>6 DEF TakeKick, PxGoto
<1>7. CASE SendKick
  BY <1>7 DEF SendKick, PxGoto
<1>8. CASE RecvNothing
  BY <1>8 DEF RecvNothing, PxGoto
<1>9. CASE BindProxy
  BY <1>9 DEF BindProxy, PxGoto, BoundEndpoint
<1>10. CASE ProxyReady
  BY <1>10 DEF ProxyReady, PxGoto
<1>11. CASE ReadServer
  BY <1>11 DEF ReadServer
<1>12. CASE NotifyJoin
  BY <1>12 DEF NotifyJoin, PxGoto
<1>13. CASE ClaimClient
  BY <1>13 DEF ClaimClient, PxGoto
<1>14. CASE Forward
  BY <1>14 DEF Forward, PxGoto
<1>15. CASE ProxyThrows
  BY <1>15 DEF ProxyThrows
<1>16. CASE ManagerLoop
  BY <1>16 DEF ManagerLoop, MgGoto, LoopNext
<1>17. CASE ManagerIdle
  BY <1>17 DEF ManagerIdle, MgGoto
<1>18. CASE CheckReady
  BY <1>18 DEF CheckReady, JoinFails, Answer
<1>19. CASE TakeEndpoint
  BY <1>19 DEF TakeEndpoint, JoinFails, Answer
<1>20. CASE JoinRoom
  BY <1>20 DEF JoinRoom, JoinFails, Answer
<1>21. CASE RequestJoin
  BY <1>21 DEF RequestJoin, MgGoto, request_join
<1>22. CASE FlushPendingJoin
  BY <1>22 DEF FlushPendingJoin, MgGoto, Answer
<1>23. CASE ManagerThrows
  BY <1>23 DEF ManagerThrows, MgGoto
<1>24. ASSUME NEW e \in Endpoints, Recv(e) PROVE TypeInv'
  BY <1>24 DEF Recv, MayArrive
<1>25. ASSUME NEW h \in Handlers, NEW s \in Hosts, JoinGame(h, s)
      PROVE  TypeInv'
  BY <1>25 DEF JoinGame, MgGoto, Answer, reset
<1>26. CASE UNCHANGED vars
  BY <1>26
<1> HIDE DEF TypeInv, vars
<1> QED
  BY <1>1, <1>2, <1>3, <1>4, <1>5, <1>6, <1>7, <1>8, <1>9,
     <1>10, <1>11, <1>12, <1>13, <1>14, <1>15, <1>16, <1>17, <1>18,
     <1>19, <1>20, <1>21, <1>22, <1>23, <1>24, <1>25, <1>26,
     StepCases DEF AnyStep

\* The type invariant holds in every reachable state.
THEOREM TypeCorrect == Spec => []TypeOK
<1>1. Init => FlagTypes
  BY Zenon DEF Init, InitProxy, FlagTypes
<1>2. TypeInv /\ FlagTypes => TypeOK
  BY DEF TypeInv, TypeOK
<1> QED
  BY <1>1, <1>2, FlagTypesStep, TypeInvInit, TypeInvStep, PTL DEF Spec

-----------------------------------------------------------------------------
(* The proxy's flags and the publication of its endpoints.                 *)

\* A host about to be joined is published already; whatever endpoint the proxy
\* thread holds a copy of was published before it was copied.
ProxyInv ==
  /\ FlagsAgree /\ ReadyMeansBound /\ PublishedFirst /\ ThreadsInsideService
  /\ mg = "request" => request.host \in published

LEMMA ProxyInvInit == Init => ProxyInv
BY Zenon DEF Init, InitProxy, ProxyInv, FlagsAgree, ReadyMeansBound,
   PublishedFirst, ThreadsInsideService

LEMMA ProxyInvStep == TypeInv /\ ProxyInv /\ [Next]_vars => ProxyInv'
<1> SUFFICES ASSUME TypeInv, ProxyInv, [Next]_vars PROVE ProxyInv'
  OBVIOUS
<1> USE EndpointsAssumption
    DEF TypeInv, DataTypes, PcInv, InHookpoint, NoRequest, ProxyInv,
        FlagsAgree, ReadyMeansBound, PublishedFirst, ThreadsInsideService,
        life, locked, atomics, proxyThread, managerThread, world, vars
<1>1. CASE StartP2P
  BY <1>1 DEF StartP2P, FreshSession
<1>2. CASE StartRefused
  BY <1>2 DEF StartRefused
<1>3. CASE RequestStop
  BY <1>3 DEF RequestStop
<1>4. CASE FinishStop
  BY <1>4 DEF FinishStop, FreshSession
<1>5. CASE ProxyLoop
  BY <1>5 DEF ProxyLoop, PxGoto, LoopNext
<1>6. CASE TakeKick
  BY <1>6 DEF TakeKick, PxGoto
<1>7. CASE SendKick
  BY <1>7 DEF SendKick, PxGoto
<1>8. CASE RecvNothing
  BY <1>8 DEF RecvNothing, PxGoto
<1>9. CASE BindProxy
  BY <1>9 DEF BindProxy, PxGoto, BoundEndpoint
<1>10. CASE ProxyReady
  BY <1>10 DEF ProxyReady, PxGoto
<1>11. CASE ReadServer
  BY <1>11 DEF ReadServer
<1>12. CASE NotifyJoin
  BY <1>12 DEF NotifyJoin, PxGoto
<1>13. CASE ClaimClient
  BY <1>13 DEF ClaimClient, PxGoto
<1>14. CASE Forward
  BY <1>14 DEF Forward, PxGoto
<1>15. CASE ProxyThrows
  BY <1>15 DEF ProxyThrows
<1>16. CASE ManagerLoop
  BY <1>16 DEF ManagerLoop, MgGoto, LoopNext
<1>17. CASE ManagerIdle
  BY <1>17 DEF ManagerIdle, MgGoto
<1>18. CASE CheckReady
  BY <1>18 DEF CheckReady, JoinFails, Answer
<1>19. CASE TakeEndpoint
  BY <1>19 DEF TakeEndpoint, JoinFails, Answer
<1>20. CASE JoinRoom
  BY <1>20 DEF JoinRoom, JoinFails, Answer
<1>21. CASE RequestJoin
  <2>1. request.host \in Hosts /\ request.host \in published
    BY <1>21 DEF RequestJoin, MgGoto
  <2>2. FlagsAgree'
    BY <1>21, <2>1 DEF RequestJoin, request_join
  <2>3. ReadyMeansBound' /\ ThreadsInsideService'
    BY <1>21 DEF RequestJoin, MgGoto, request_join
  <2>4. PublishedFirst' /\ mg' # "request"
    BY <1>21, <2>1 DEF RequestJoin, MgGoto, request_join
  <2> QED
    BY <2>2, <2>3, <2>4
<1>22. CASE FlushPendingJoin
  BY <1>22 DEF FlushPendingJoin, MgGoto, Answer
<1>23. CASE ManagerThrows
  BY <1>23 DEF ManagerThrows, MgGoto
<1>24. ASSUME NEW e \in Endpoints, Recv(e) PROVE ProxyInv'
  BY <1>24 DEF Recv, MayArrive
<1>25. ASSUME NEW h \in Handlers, NEW s \in Hosts, JoinGame(h, s)
      PROVE  ProxyInv'
  BY <1>25 DEF JoinGame, MgGoto, Answer, reset
<1>26. CASE UNCHANGED vars
  BY <1>26
<1> HIDE DEF ProxyInv, vars
<1> QED
  BY <1>1, <1>2, <1>3, <1>4, <1>5, <1>6, <1>7, <1>8, <1>9,
     <1>10, <1>11, <1>12, <1>13, <1>14, <1>15, <1>16, <1>17, <1>18,
     <1>19, <1>20, <1>21, <1>22, <1>23, <1>24, <1>25, <1>26,
     StepCases DEF AnyStep

\* The lock-free flags agree with the fields under the lock.
THEOREM FlagsAlwaysAgree == Spec => []FlagsAgree
<1>1. ProxyInv => FlagsAgree
  BY DEF ProxyInv
<1> QED
  BY <1>1, TypeInvInit, TypeInvStep, ProxyInvInit, ProxyInvStep, PTL DEF Spec

\* A JoinGame that saw proxy_ready finds the endpoint.
THEOREM ReadyIsBound == Spec => []ReadyMeansBound
<1>1. ProxyInv => ReadyMeansBound
  BY DEF ProxyInv
<1> QED
  BY <1>1, TypeInvInit, TypeInvStep, ProxyInvInit, ProxyInvStep, PTL DEF Spec

\* The proxy waits only for hosts that were given our endpoint.
THEOREM JoinedHostIsPublished == Spec => []PublishedFirst
<1>1. ProxyInv => PublishedFirst
  BY DEF ProxyInv
<1> QED
  BY <1>1, TypeInvInit, TypeInvStep, ProxyInvInit, ProxyInvStep, PTL DEF Spec

\* No thread runs outside startP2P .. stopP2P.
THEOREM ThreadsStayInside == Spec => []ThreadsInsideService
<1>1. ProxyInv => ThreadsInsideService
  BY DEF ProxyInv
<1> QED
  BY <1>1, TypeInvInit, TypeInvStep, ProxyInvInit, ProxyInvStep, PTL DEF Spec

-----------------------------------------------------------------------------
(* The pending join.                                                       *)

\* A datagram heard from the server is on its way to NotifyJoin or recorded;
\* and what is recorded while a join is pending is still to be consumed.
JoinInv ==
  /\ heard => server_ep # None
  /\ heard => \/ client_notified
              \/ px = "read" /\ from_ep = server_ep
              \/ px = "notify"
  /\ pending_join_handler # None /\ client_notified => join_ready

LEMMA JoinInvInit == Init => JoinInv
BY Zenon DEF Init, InitProxy, JoinInv

LEMMA JoinInvStep == TypeInv /\ JoinInv /\ [Next]_vars => JoinInv'
<1> SUFFICES ASSUME TypeInv, JoinInv, [Next]_vars PROVE JoinInv'
  OBVIOUS
<1> USE EndpointsAssumption
    DEF TypeInv, DataTypes, PcInv, InHookpoint, NoRequest, JoinInv,
        life, locked, atomics, proxyThread, managerThread, world, vars
<1>1. CASE StartP2P
  BY <1>1 DEF StartP2P, FreshSession
<1>2. CASE StartRefused
  BY <1>2 DEF StartRefused
<1>3. CASE RequestStop
  BY <1>3 DEF RequestStop
<1>4. CASE FinishStop
  BY <1>4 DEF FinishStop, FreshSession
<1>5. CASE ProxyLoop
  BY <1>5 DEF ProxyLoop, PxGoto, LoopNext
<1>6. CASE TakeKick
  BY <1>6 DEF TakeKick, PxGoto
<1>7. CASE SendKick
  BY <1>7 DEF SendKick, PxGoto
<1>8. CASE RecvNothing
  BY <1>8 DEF RecvNothing, PxGoto
<1>9. CASE BindProxy
  BY <1>9 DEF BindProxy, PxGoto, BoundEndpoint
<1>10. CASE ProxyReady
  BY <1>10 DEF ProxyReady, PxGoto
<1>11. CASE ReadServer
  BY <1>11 DEF ReadServer
<1>12. CASE NotifyJoin
  BY <1>12 DEF NotifyJoin, PxGoto
<1>13. CASE ClaimClient
  BY <1>13 DEF ClaimClient, PxGoto
<1>14. CASE Forward
  BY <1>14 DEF Forward, PxGoto
<1>15. CASE ProxyThrows
  BY <1>15 DEF ProxyThrows
<1>16. CASE ManagerLoop
  BY <1>16 DEF ManagerLoop, MgGoto, LoopNext
<1>17. CASE ManagerIdle
  BY <1>17 DEF ManagerIdle, MgGoto
<1>18. CASE CheckReady
  BY <1>18 DEF CheckReady, JoinFails, Answer
<1>19. CASE TakeEndpoint
  BY <1>19 DEF TakeEndpoint, JoinFails, Answer
<1>20. CASE JoinRoom
  BY <1>20 DEF JoinRoom, JoinFails, Answer
<1>21. CASE RequestJoin
  BY <1>21 DEF RequestJoin, MgGoto, request_join
<1>22. CASE FlushPendingJoin
  BY <1>22 DEF FlushPendingJoin, MgGoto, Answer
<1>23. CASE ManagerThrows
  BY <1>23 DEF ManagerThrows, MgGoto
<1>24. ASSUME NEW e \in Endpoints, Recv(e) PROVE JoinInv'
  BY <1>24 DEF Recv, MayArrive
<1>25. ASSUME NEW h \in Handlers, NEW s \in Hosts, JoinGame(h, s)
      PROVE  JoinInv'
  BY <1>25 DEF JoinGame, MgGoto, Answer, reset
<1>26. CASE UNCHANGED vars
  BY <1>26
<1> HIDE DEF JoinInv, vars
<1> QED
  BY <1>1, <1>2, <1>3, <1>4, <1>5, <1>6, <1>7, <1>8, <1>9,
     <1>10, <1>11, <1>12, <1>13, <1>14, <1>15, <1>16, <1>17, <1>18,
     <1>19, <1>20, <1>21, <1>22, <1>23, <1>24, <1>25, <1>26,
     StepCases DEF AnyStep

\* What the manager thread owes and what is open, when neither changes.
LEMMA OwedUnchanged ==
  ASSUME PendingWaits, UNCHANGED <<open, managerThread>>
  PROVE  PendingWaits'
BY DEF PendingWaits, Owed, managerThread

\* Likewise when the request is answered with an error.
LEMMA OwedJoinFails ==
  ASSUME DataTypes, request # NoRequest, PendingWaits, JoinFails
  PROVE  PendingWaits'
<1>1. \A h \in Handlers :
        open'[h] = IF h = request.handler THEN open[h] - 1 ELSE open[h]
  BY DEF JoinFails, Answer, DataTypes
<1>2. \A h \in Handlers : request'.handler # h
  BY EndpointsAssumption DEF JoinFails, NoRequest
<1>3. request.handler \in Handlers /\ open \in [Handlers -> Int]
  BY DEF DataTypes
<1>4. ASSUME NEW h \in Handlers PROVE Owed(h)' <= open'[h]
  BY <1>1, <1>2, <1>3, <1>4 DEF PendingWaits, Owed, JoinFails
<1> QED
  BY <1>4 DEF PendingWaits

LEMMA PendingWaitsInit == Init => PendingWaits
<1> SUFFICES ASSUME Init, NEW h \in Handlers PROVE Owed(h) <= open[h]
  BY DEF PendingWaits
<1> QED
  BY EndpointsAssumption DEF Init, Owed, NoRequest

LEMMA PendingWaitsStep ==
  TypeInv /\ PendingWaits /\ [Next]_vars => PendingWaits'
<1> SUFFICES ASSUME TypeInv, PendingWaits, [Next]_vars PROVE PendingWaits'
  OBVIOUS
<1>1. CASE StartP2P \/ FinishStop
  <2> SUFFICES ASSUME NEW h \in Handlers PROVE Owed(h)' <= open'[h]
    BY DEF PendingWaits
  <2> QED
    BY <1>1, EndpointsAssumption
       DEF StartP2P, FinishStop, FreshSession, Owed, NoRequest
<1>2. CASE \/ StartRefused \/ RequestStop \/ ProxyLoop \/ TakeKick \/ SendKick
           \/ RecvNothing \/ BindProxy \/ ProxyReady \/ ReadServer \/ NotifyJoin
           \/ ClaimClient \/ Forward \/ ProxyThrows
           \/ \E e \in Endpoints : Recv(e)
           \/ UNCHANGED vars
  <2>1. UNCHANGED <<open, managerThread>>
    BY <1>2 DEF StartRefused, RequestStop, ProxyLoop, TakeKick, SendKick,
         RecvNothing, BindProxy, ProxyReady, ReadServer, NotifyJoin,
         ClaimClient, Forward, ProxyThrows, Recv, vars, world
  <2> QED
    BY <2>1, OwedUnchanged
<1>3. CASE ManagerLoop \/ ManagerIdle \/ ManagerThrows
  BY <1>3 DEF ManagerLoop, ManagerIdle, ManagerThrows, PendingWaits, Owed, world
<1>4. CASE CheckReady \/ TakeEndpoint \/ JoinRoom
  <2>1. DataTypes /\ request # NoRequest
    BY <1>4 DEF CheckReady, TakeEndpoint, JoinRoom, TypeInv, PcInv, InHookpoint
  <2>2. CASE JoinFails
    BY <2>1, <2>2, OwedJoinFails
  <2>3. CASE UNCHANGED <<request, pending_join_handler, open>>
    BY <2>3 DEF PendingWaits, Owed
  <2> QED
    BY <1>4, <2>2, <2>3 DEF CheckReady, TakeEndpoint, JoinRoom
<1>5. CASE RequestJoin
  <2>1. request.handler \in Handlers
    BY <1>5 DEF RequestJoin, MgGoto, TypeInv, DataTypes, PcInv, InHookpoint
  <2>2. /\ \A h \in Handlers : request'.handler # h
        /\ pending_join_handler' = request.handler /\ open' = open
    BY <1>5, EndpointsAssumption DEF RequestJoin, NoRequest, world
  <2>3. ASSUME NEW h \in Handlers PROVE Owed(h)' <= open'[h]
    <3>1. open[h] \in Int
      BY DEF TypeInv, DataTypes
    <3> QED
      BY <2>1, <2>2, <3>1 DEF PendingWaits, Owed
  <2> QED
    BY <2>3 DEF PendingWaits
<1>6. CASE FlushPendingJoin
  <2>1. CASE UNCHANGED <<open, pending_join_handler>>
    BY <1>6, <2>1 DEF FlushPendingJoin, PendingWaits, Owed
  <2>2. CASE /\ Answer(pending_join_handler) /\ pending_join_handler' = None
             /\ pending_join_handler # None
    <3>1. pending_join_handler \in Handlers /\ open \in [Handlers -> Int]
      BY <2>2 DEF TypeInv, DataTypes
    <3>2. \A h \in Handlers :
            /\ pending_join_handler' # h
            /\ open'[h] = IF h = pending_join_handler THEN open[h] - 1
                                                      ELSE open[h]
      BY <2>2, <3>1, EndpointsAssumption DEF Answer
    <3>3. ASSUME NEW h \in Handlers PROVE Owed(h)' <= open'[h]
      BY <1>6, <3>1, <3>2 DEF FlushPendingJoin, PendingWaits, Owed
    <3> QED
      BY <3>3 DEF PendingWaits
  <2> QED
    BY <1>6, <2>1, <2>2 DEF FlushPendingJoin
<1>7. ASSUME NEW g \in Handlers, NEW s \in Hosts, JoinGame(g, s)
      PROVE  PendingWaits'
  <2>1. request = NoRequest
    BY <1>7 DEF JoinGame, MgGoto, TypeInv, PcInv, InHookpoint
  <2>2. /\ request'.handler = g /\ pending_join_handler' = pending_join_handler
        /\ \A h \in Handlers : open'[h] = IF h = g THEN open[h] + 1 ELSE open[h]
    BY <1>7 DEF JoinGame, TypeInv, DataTypes
  <2>3. ASSUME NEW h \in Handlers PROVE Owed(h)' <= open'[h]
    <3>1. request.handler # h /\ open[h] \in Int
      BY <2>1, EndpointsAssumption DEF NoRequest, TypeInv, DataTypes
    <3> QED
      BY <2>2, <3>1 DEF PendingWaits, Owed
  <2> QED
    BY <2>3 DEF PendingWaits
<1> QED
  BY <1>1, <1>2, <1>3, <1>4, <1>5, <1>6, <1>7, StepCases DEF AnyStep

\* No peer is answered more often than it asked.
THEOREM PendingAlwaysWaits == Spec => []PendingWaits
BY TypeInvInit, TypeInvStep, PendingWaitsInit, PendingWaitsStep, PTL DEF Spec

\* The host's first datagram is never lost between the two threads.
THEOREM PunchNeverLost == Spec => []NoLostPunch
<1>1. JoinInv => NoLostPunch
  BY DEF JoinInv, NoLostPunch
<1> QED
  BY <1>1, TypeInvInit, TypeInvStep, JoinInvInit, JoinInvStep, PTL DEF Spec
=============================================================================
