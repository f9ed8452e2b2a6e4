--------------------------- MODULE SockRpcProofs ---------------------------
(***************************************************************************)
(* TLAPS proofs about SockRpc, for any functions, lengths that fit and     *)
(* depth of calls: its types, that the two processes stay in step, and     *)
(* that they implement one stack of calls.                                 *)
(***************************************************************************)
EXTENDS SockRpc, SequenceTheorems, TLAPS

LEMMA Tuple1 ==
  ASSUME NEW a PROVE <<a>> # <<>> /\ Head(<<a>>) = a /\ Tail(<<a>>) = <<>>
OBVIOUS

LEMMA Tuple2 ==
  ASSUME NEW a, NEW b
  PROVE  <<a, b>> # <<>> /\ Head(<<a, b>>) = a /\ Tail(<<a, b>>) = <<b>>
OBVIOUS

LEMMA Tuple3 ==
  ASSUME NEW a, NEW b, NEW c
  PROVE  /\ <<a, b, c>> # <<>> /\ Head(<<a, b, c>>) = a
         /\ Tail(<<a, b, c>>) = <<b, c>>
OBVIOUS

LEMMA Joined ==
  ASSUME NEW T, NEW a \in T, NEW b \in T, NEW c \in T
  PROVE  /\ <<>> \o <<a>> = <<a>>
         /\ <<>> \o <<a, b>> = <<a, b>> /\ <<a>> \o <<b, c>> = <<a, b, c>>
         /\ Append(<<>>, a) = <<a>> /\ Append(<<a>>, b) = <<a, b>>
<1>1. <<a>> \in Seq(T) /\ <<a, b>> \in Seq(T) /\ <<b, c>> \in Seq(T)
      /\ <<a, b, c>> \in Seq(T) /\ <<>> \in Seq(T)
  OBVIOUS
<1>2. <<>> \o <<a>> = <<a>> /\ <<>> \o <<a, b>> = <<a, b>> /\ Append(<<>>, a) = <<a>>
  BY <1>1
<1>3. <<a>> \o <<b, c>> = <<a, b, c>>
  <2> DEFINE w == <<a>> \o <<b, c>>
  <2>1. w \in Seq(T) /\ Len(w) = 3
    BY <1>1
  <2>2. w[1] = a /\ w[2] = b /\ w[3] = c
    BY <1>1
  <2> HIDE DEF w
  <2>3. \A i \in 1..3 : w[i] = <<a, b, c>>[i]
    BY <2>2
  <2> QED
    BY <1>1, <2>1, <2>3, SeqEqual DEF w
<1>4. Append(<<a>>, b) = <<a, b>>
  <2> DEFINE w == Append(<<a>>, b)
  <2>1. w \in Seq(T) /\ Len(w) = 2
    BY <1>1
  <2>2. w[1] = a /\ w[2] = b
    BY <1>1
  <2> HIDE DEF w
  <2>3. \A i \in 1..2 : w[i] = <<a, b>>[i]
    BY <2>2
  <2> QED
    BY <1>1, <2>1, <2>3, SeqEqual DEF w
<1> QED
  BY <1>2, <1>3, <1>4

LEMMA PopAppend ==
  ASSUME NEW T, NEW s \in Seq(T), NEW x \in T
  PROVE  /\ Pop(Append(s, x)) = s /\ Append(s, x) \in Seq(T)
         /\ Append(s, x) # <<>> /\ Len(Append(s, x)) = Len(s) + 1
BY DEF Pop

LEMMA TopAppend ==
  ASSUME NEW T, NEW s \in Seq(T), NEW x \in T
  PROVE  Top(Append(s, x)) = x
BY DEF Top

LEMMA LastSplit ==
  ASSUME NEW T, NEW s \in Seq(T), s # <<>>
  PROVE  \E w \in Seq(T), x \in T : s = Append(w, x) /\ Pop(s) = w
<1>1. PICK w \in Seq(T), x \in T : s = Append(w, x)
  BY SequenceEmptyOrAppend
<1>2. Pop(Append(w, x)) = w
  BY PopAppend
<1> QED
  BY <1>1, <1>2

LEMMA Parity ==
  ASSUME NEW n \in Nat
  PROVE  /\ n % 2 = 0 <=> (n + 1) % 2 # 0
         /\ n % 2 = 0 \/ n % 2 = 1
OBVIOUS

LEMMA ItemFacts ==
  /\ \A b \in BOOLEAN : Bool(b) \in Items /\ Bool(b).type = "bool"
                        /\ Bool(b).value = b
  /\ \A f \in Functions : Name(f) \in Items /\ Name(f).type = "name"
                          /\ Name(f).value = f
  /\ \A f \in Api : Index(f) \in Items /\ Index(f).type = "index"
                    /\ Index(f).value = f
  /\ Exit \in Items /\ Exit.type = "exit"
  /\ \A len \in Lengths : Text(len) \in Items /\ Text(len).type = "string"
                          /\ Text(len).len = len /\ len \in Nat
<1>1. \A b \in BOOLEAN : Bool(b) \in Items /\ Bool(b).type = "bool"
                         /\ Bool(b).value = b
  BY DEF Bool, Items
<1>2. \A f \in Functions : Name(f) \in Items /\ Name(f).type = "name"
                           /\ Name(f).value = f
  BY DEF Name, Items
<1>3. \A f \in Api : Index(f) \in Items /\ Index(f).type = "index"
                     /\ Index(f).value = f
  BY DEF Index, Items
<1>4. Exit \in Items /\ Exit.type = "exit"
  BY DEF Exit, Items
<1>5. \A len \in Lengths : Text(len) \in Items /\ Text(len).type = "string"
                           /\ Text(len).len = len /\ len \in Nat
  BY LengthAssumption DEF Text, Items
<1> QED
  BY <1>1, <1>2, <1>3, <1>4, <1>5

\* A string whose length fits is read to its end.
LEMMA WholeString ==
  ASSUME NEW len \in Lengths
  PROVE  AfterString(<<Text(len)>>) = <<>>
<1>1. Head(<<Text(len)>>) = Text(len) /\ Tail(<<Text(len)>>) = <<>>
  BY Tuple1, Tuple2, Tuple3
<1>2. Text(len).len = len /\ len < Modulus
  BY ItemFacts, ModAssumption
<1> QED
  BY <1>1, <1>2 DEF AfterString

-----------------------------------------------------------------------------
(* The invariant: whose turn it is, and what is under way.                 *)

CallSet == Functions \cup Api

Even(s) == Len(s) % 2 = 0

\* f is a function of the mod that the game calls with stack s.
Callable(f, s) == f \in Callbacks \/ s = <<>>

GameTurn ==
  /\ serverPc = "running" /\ clientPc = "command"
  /\ toClient = <<>> /\ toServer = <<>>
  /\ server = client /\ Even(client)

Called(f) ==
  /\ serverPc = "ack" /\ toServer = <<>>
  /\ server = Append(client, f) /\ Callable(f, client) /\ Even(client)
  /\ \/ clientPc = "command" /\ toClient = <<Bool(FALSE), Name(f)>>
     \/ clientPc = "name" /\ toClient = <<Name(f)>>

Refused(f) ==
  /\ serverPc = "ack" /\ toServer = <<Bool(FALSE)>>
  /\ clientPc = "command" /\ toClient = <<>>
  /\ server = Append(client, f) /\ Even(client)

\* The game has yet to read q, or the acknowledgement of the call and q.
Unread(ack, q) ==
  \/ serverPc = "ack" /\ toServer = ack
  \/ serverPc = "loop" /\ toServer = q

ModTurn ==
  /\ clientPc = "running" /\ toClient = <<>> /\ Unread(<<Bool(TRUE)>>, <<>>)
  /\ server = client /\ ~Even(client)

Asked(f, len) ==
  /\ clientPc = "command" /\ toClient = <<>>
  /\ Unread(<<Bool(TRUE), Index(f), Text(len)>>, <<Index(f), Text(len)>>)
  /\ client = Append(server, f) /\ ~Even(server)

Reading(len) ==
  /\ serverPc = "args" /\ toServer = <<Text(len)>>
  /\ clientPc = "command" /\ toClient = <<>>
  /\ server = client /\ Even(client)

\* A function that returns nothing has returned.
Finished(f) ==
  /\ serverPc = "loop" /\ toServer = <<>>
  /\ client = Append(server, f) /\ ~Even(server)
  /\ clientPc = "command" /\ toClient = <<Bool(TRUE)>>

Answered(f, len) ==
  /\ serverPc = "loop" /\ toServer = <<>>
  /\ client = Append(server, f) /\ ~Even(server)
  /\ \/ clientPc = "command" /\ toClient = <<Bool(TRUE), Text(len)>>
     \/ clientPc = "result" /\ toClient = <<Text(len)>>

Exited(f) ==
  /\ clientPc = "command" /\ toClient = <<>>
  /\ Unread(<<Bool(TRUE), Exit>>, <<Exit>>)
  /\ server = Append(client, f) /\ Even(client)

Turn ==
  \/ GameTurn \/ ModTurn
  \/ \E f \in Functions : Called(f)
  \/ \E f \in CallSet : Refused(f) \/ Exited(f)
  \/ \E f \in Void : Finished(f)
  \/ \E f \in CallSet \ Void, len \in Lengths : Answered(f, len)
  \/ \E f \in Api, len \in Lengths : Asked(f, len)
  \/ \E len \in Lengths : Reading(len)

SockInv == server \in Seq(CallSet) /\ client \in Seq(CallSet) /\ Turn

SockNext == SockInv' /\ [Calls!Next]_Longer

\* The longer of two stacks.
LongerOf(s, c) == IF Len(s) >= Len(c) THEN s ELSE c

LEMMA LongerFacts ==
  ASSUME NEW s \in Seq(CallSet), NEW x \in CallSet
  PROVE  /\ LongerOf(s, s) = s /\ LongerOf(s, Append(s, x)) = Append(s, x)
         /\ LongerOf(Append(s, x), s) = Append(s, x)
         /\ Even(Append(s, x)) <=> ~Even(s)
<1>1. Len(s) \in Nat /\ Len(Append(s, x)) = Len(s) + 1
  BY PopAppend
<1>2. LongerOf(s, Append(s, x)) = Append(s, x)
  BY <1>1 DEF LongerOf
<1>3. LongerOf(Append(s, x), s) = Append(s, x)
  BY <1>1 DEF LongerOf
<1>4. Even(Append(s, x)) <=> ~Even(s)
  BY <1>1, Parity DEF Even
<1> QED
  BY <1>2, <1>3, <1>4 DEF LongerOf

LEMMA LongerNow ==
  Longer = LongerOf(server, client) /\ Longer' = LongerOf(server', client')
BY DEF Longer, LongerOf

-----------------------------------------------------------------------------
(* The game's steps.                                                       *)

\* When the game runs, the mod waits for a command and nothing is under way.
LEMMA GameRunning == ASSUME Turn, serverPc = "running" PROVE GameTurn
BY DEF Turn, ModTurn, Called, Refused, Exited, Answered, Finished, Asked, Reading, Unread

LEMMA SimpleCallStep ==
  ASSUME SockInv, NEW f \in Functions, SimpleCall(f) PROVE SockNext
<1>1. GameTurn /\ server \in Seq(CallSet) /\ f \in CallSet
  BY GameRunning DEF SockInv, SimpleCall, CallSet
<1>2. /\ Len(server) < MaxDepth
      /\ f \in Callbacks \/ server = <<>>
      /\ toClient' = toClient \o <<Bool(FALSE), Name(f)>>
      /\ server' = Append(server, f) /\ serverPc' = "ack"
      /\ UNCHANGED <<client, clientPc, toServer>>
  BY DEF SimpleCall
<1>3. toClient' = <<Bool(FALSE), Name(f)>>
  BY <1>1, <1>2, Joined, ItemFacts DEF GameTurn
<1>4. Called(f)' /\ server' \in Seq(CallSet)
  BY <1>1, <1>2, <1>3, PopAppend DEF Called, GameTurn, Callable
<1>5. SockInv'
  BY <1>1, <1>2, <1>4 DEF SockInv, Turn, GameTurn
<1>6. Longer = server /\ Longer' = Append(server, f)
  BY <1>1, <1>2, LongerNow, LongerFacts DEF GameTurn
<1>7. f \in Calls!Callees(server)
  BY <1>1, <1>2 DEF Calls!Callees, Calls!GameRuns, GameTurn, Even, Functions
<1>8. Calls!Call
  BY <1>2, <1>6, <1>7 DEF Calls!Call
<1> QED
  BY <1>5, <1>8 DEF SockNext, Calls!Next

LEMMA HandlerReturnsStep ==
  ASSUME SockInv, NEW len \in Lengths, HandlerReturns(len) PROVE SockNext
<1>1. GameTurn /\ server \in Seq(CallSet) /\ server # <<>>
  BY GameRunning DEF SockInv, HandlerReturns
<1>2. /\ toClient' = toClient \o Answer(Top(server), len)
      /\ server' = Pop(server) /\ serverPc' = "loop"
      /\ UNCHANGED <<client, clientPc, toServer>>
  BY DEF HandlerReturns
<1>3. PICK w \in Seq(CallSet), x \in CallSet :
        server = Append(w, x) /\ server' = w /\ Top(server) = x
  <2>1. PICK w \in Seq(CallSet), x \in CallSet :
          server = Append(w, x) /\ Pop(server) = w
    BY <1>1, LastSplit
  <2>2. Top(Append(w, x)) = x
    BY TopAppend
  <2> QED
    BY <1>2, <2>1, <2>2
<1>4. client' = Append(server', x) /\ ~Even(server')
  BY <1>1, <1>2, <1>3, LongerFacts DEF GameTurn
<1>5. Turn'
  <2>1. CASE x \in Void
    <3>1. toClient' = <<Bool(TRUE)>>
      BY <1>1, <1>2, <1>3, <2>1, Joined, ItemFacts DEF GameTurn, Answer
    <3> QED
      BY <1>1, <1>2, <1>4, <2>1, <3>1 DEF Turn, Finished, GameTurn
  <2>2. CASE x \notin Void
    <3>1. toClient' = <<>> \o <<Bool(TRUE), Text(len)>>
      BY <1>1, <1>2, <1>3, <2>2 DEF GameTurn, Answer
    <3>2. Bool(TRUE) \in Items /\ Text(len) \in Items
      BY ItemFacts
    <3>3. toClient' = <<Bool(TRUE), Text(len)>>
      BY <3>1, <3>2, Joined
    <3>4. Answered(x, len)'
      BY <1>1, <1>2, <1>4, <3>3 DEF Answered, GameTurn
    <3> QED
      BY <2>2, <3>4 DEF Turn
  <2> QED
    BY <2>1, <2>2
<1>6. SockInv'
  BY <1>1, <1>2, <1>3, <1>5 DEF SockInv, GameTurn
<1>7. Longer = server /\ Longer' = client'
  BY <1>1, <1>3, <1>4, LongerNow, LongerFacts DEF GameTurn
<1> QED
  BY <1>1, <1>2, <1>6, <1>7 DEF SockNext, GameTurn

\* The acknowledgement, which may not be all there is to read.
LEMMA ReceiveAckStep == ASSUME SockInv, ReceiveAck PROVE SockNext
<1>0. /\ serverPc = "ack" /\ toServer # <<>>
      /\ toServer' = Tail(toServer)
      /\ Head(toServer).value => serverPc' = "loop" /\ UNCHANGED server
      /\ ~Head(toServer).value => serverPc' = "running" /\ server' = Pop(server)
      /\ UNCHANGED <<client, clientPc, toClient>>
  BY DEF ReceiveAck
<1>1. server \in Seq(CallSet) /\ client \in Seq(CallSet)
  BY DEF SockInv
<1>2. \/ ModTurn \/ \E f \in CallSet : Refused(f) \/ Exited(f)
      \/ \E f \in Api, len \in Lengths : Asked(f, len)
  BY <1>0 DEF SockInv, Turn, GameTurn, Called, Reading, Answered, Finished
<1>3. Bool(TRUE).value /\ ~Bool(FALSE).value
  BY ItemFacts
<1>4. CASE ModTurn
  <2>1. toServer = <<Bool(TRUE)>>
    BY <1>0, <1>4 DEF ModTurn, Unread
  <2>2. toServer' = <<>> /\ serverPc' = "loop" /\ UNCHANGED server
    BY <1>0, <1>3, <2>1, Tuple1, Tuple2, Tuple3
  <2>3. ModTurn'
    BY <1>0, <1>4, <2>2 DEF ModTurn, Unread
  <2> QED
    BY <1>0, <1>1, <2>2, <2>3, LongerNow DEF SockNext, SockInv, Turn
<1>5. ASSUME NEW f \in CallSet, Exited(f) PROVE SockNext
  <2>1. toServer = <<Bool(TRUE), Exit>>
    BY <1>0, <1>5 DEF Exited, Unread
  <2>2. toServer' = <<Exit>> /\ serverPc' = "loop" /\ UNCHANGED server
    BY <1>0, <1>3, <2>1, Tuple1, Tuple2, Tuple3
  <2>3. Exited(f)'
    BY <1>0, <1>5, <2>2 DEF Exited, Unread
  <2> QED
    BY <1>0, <1>1, <2>2, <2>3, LongerNow DEF SockNext, SockInv, Turn
<1>6. ASSUME NEW f \in Api, NEW len \in Lengths, Asked(f, len) PROVE SockNext
  <2>1. toServer = <<Bool(TRUE), Index(f), Text(len)>>
    BY <1>0, <1>6 DEF Asked, Unread
  <2>2. /\ toServer' = <<Index(f), Text(len)>> /\ serverPc' = "loop"
        /\ UNCHANGED server
    <3>1. Head(toServer) = Bool(TRUE) /\ Tail(toServer) = <<Index(f), Text(len)>>
      BY <2>1, Tuple3
    <3> QED
      BY <1>0, <1>3, <3>1
  <2>3. Asked(f, len)'
    BY <1>0, <1>6, <2>2 DEF Asked, Unread
  <2> QED
    BY <1>0, <1>1, <2>2, <2>3, LongerNow DEF SockNext, SockInv, Turn
<1>7. ASSUME NEW f \in CallSet, Refused(f) PROVE SockNext
  <2>1. toServer' = <<>> /\ serverPc' = "running" /\ server' = Pop(server)
    BY <1>0, <1>3, <1>7, Tuple1, Tuple2, Tuple3 DEF Refused
  <2>2. server' = client /\ server = Append(client, f)
    BY <1>1, <1>7, <2>1, PopAppend DEF Refused
  <2>3. GameTurn'
    BY <1>0, <1>7, <2>1, <2>2 DEF GameTurn, Refused
  <2>4. Longer = server /\ Longer' = client /\ server # <<>>
    <3>1. Longer = LongerOf(Append(client, f), client)
      BY <2>2, LongerNow
    <3>2. Longer' = LongerOf(client, client)
      BY <1>0, <2>2, LongerNow
    <3> QED
      BY <1>1, <2>2, <3>1, <3>2, LongerFacts, PopAppend
  <2>5. Calls!Return
    BY <2>1, <2>2, <2>4 DEF Calls!Return, Pop
  <2>6. SockInv'
    BY <1>0, <1>1, <2>2, <2>3 DEF SockInv, Turn
  <2> QED
    BY <2>5, <2>6 DEF SockNext, Calls!Next
<1> QED
  BY <1>2, <1>4, <1>5, <1>6, <1>7

LEMMA ReceiveExitStep == ASSUME SockInv, ReceiveExit PROVE SockNext
<1>0. /\ serverPc = "loop" /\ toServer # <<>> /\ Head(toServer).type = "exit"
      /\ toServer' = Tail(toServer)
      /\ server' = Pop(server) /\ serverPc' = "running"
      /\ UNCHANGED <<client, clientPc, toClient>>
  BY DEF ReceiveExit
<1>1. server \in Seq(CallSet) /\ client \in Seq(CallSet)
  BY DEF SockInv
<1>2. \A f \in Api, len \in Lengths : ~Asked(f, len)
  <2> SUFFICES ASSUME NEW f \in Api, NEW len \in Lengths, Asked(f, len)
               PROVE  FALSE
    OBVIOUS
  <2>1. toServer = <<Index(f), Text(len)>>
    BY <1>0 DEF Asked, Unread
  <2>2. Head(toServer).type = "index"
    BY <2>1, Tuple1, Tuple2, Tuple3, ItemFacts
  <2> QED
    BY <1>0, <2>2
<1>3. PICK f \in CallSet : Exited(f)
  BY <1>0, <1>2 DEF SockInv, Turn, GameTurn, ModTurn, Called, Refused, Reading,
     Answered, Finished, Unread
<1>4. toServer = <<Exit>> /\ toServer' = <<>>
  BY <1>0, <1>3, Tuple1, Tuple2, Tuple3 DEF Exited, Unread
<1>5. server' = client /\ server = Append(client, f)
  BY <1>0, <1>1, <1>3, PopAppend DEF Exited
<1>6. GameTurn'
  BY <1>0, <1>3, <1>4, <1>5 DEF GameTurn, Exited
<1>7. Longer = server /\ Longer' = client /\ server # <<>>
  <2>1. Longer = LongerOf(Append(client, f), client)
    BY <1>5, LongerNow
  <2>2. Longer' = LongerOf(client, client)
    BY <1>0, <1>5, LongerNow
  <2> QED
    BY <1>1, <1>5, <2>1, <2>2, LongerFacts, PopAppend
<1>8. Calls!Return
  BY <1>0, <1>5, <1>7 DEF Calls!Return, Pop
<1>9. SockInv'
  BY <1>0, <1>1, <1>5, <1>6 DEF SockInv, Turn
<1> QED
  BY <1>8, <1>9 DEF SockNext, Calls!Next

LEMMA ReceiveIndexStep == ASSUME SockInv, ReceiveIndex PROVE SockNext
<1>0. /\ serverPc = "loop" /\ toServer # <<>> /\ Head(toServer).type = "index"
      /\ toServer' = Tail(toServer)
      /\ server' = Append(server, Head(toServer).value) /\ serverPc' = "args"
      /\ UNCHANGED <<client, clientPc, toClient>>
  BY DEF ReceiveIndex
<1>1. server \in Seq(CallSet) /\ client \in Seq(CallSet)
  BY DEF SockInv
<1>2. \A f \in CallSet : ~Exited(f)
  <2> SUFFICES ASSUME NEW f \in CallSet, Exited(f) PROVE FALSE
    OBVIOUS
  <2>1. toServer = <<Exit>>
    BY <1>0 DEF Exited, Unread
  <2>2. Head(toServer).type = "exit"
    BY <2>1, Tuple1, Tuple2, Tuple3, ItemFacts
  <2> QED
    BY <1>0, <2>2
<1>3. PICK f \in Api, len \in Lengths : Asked(f, len)
  BY <1>0, <1>2 DEF SockInv, Turn, GameTurn, ModTurn, Called, Refused, Reading,
     Answered, Finished, Unread
<1>4. toServer = <<Index(f), Text(len)>>
  BY <1>0, <1>3 DEF Asked, Unread
<1>5. Head(toServer).value = f /\ toServer' = <<Text(len)>>
  BY <1>0, <1>4, Tuple1, Tuple2, Tuple3, ItemFacts
<1>6. server' = Append(server, f) /\ client = Append(server, f) /\ f \in CallSet
  BY <1>0, <1>3, <1>5 DEF Asked, CallSet
<1>7. Even(client) /\ server' = client
  BY <1>1, <1>3, <1>6, LongerFacts DEF Asked
<1>8. Reading(len)'
  BY <1>0, <1>3, <1>5, <1>7 DEF Reading, Asked
<1>9. Longer' = Longer
  BY <1>0, <1>1, <1>6, <1>7, LongerNow, LongerFacts
<1> QED
  BY <1>0, <1>1, <1>7, <1>8, <1>9 DEF SockNext, SockInv, Turn

LEMMA ReceiveArgsStep == ASSUME SockInv, ReceiveArgs PROVE SockNext
<1>0. /\ serverPc = "args"
      /\ toServer' = AfterString(toServer) /\ serverPc' = "running"
      /\ UNCHANGED <<server, client, clientPc, toClient>>
  BY DEF ReceiveArgs
<1>1. PICK len \in Lengths : Reading(len)
  BY <1>0 DEF SockInv, Turn, GameTurn, ModTurn, Called, Refused, Exited, Asked,
     Answered, Finished, Unread
<1>2. toServer' = <<>>
  BY <1>0, <1>1, WholeString DEF Reading
<1>3. GameTurn'
  BY <1>0, <1>1, <1>2 DEF GameTurn, Reading
<1> QED
  BY <1>0, <1>3, LongerNow DEF SockNext, SockInv, Turn

-----------------------------------------------------------------------------
(* The mod's steps.                                                        *)

LEMMA ReceiveCommandStep == ASSUME SockInv, ReceiveCommand PROVE SockNext
<1>0. /\ clientPc = "command" /\ toClient # <<>>
      /\ toClient' = Tail(toClient)
      /\ Head(toClient).value => WaitReturns
      /\ ~Head(toClient).value => clientPc' = "name" /\ UNCHANGED client
      /\ UNCHANGED <<server, serverPc, toServer>>
  BY DEF ReceiveCommand
<1>1. server \in Seq(CallSet) /\ client \in Seq(CallSet)
  BY DEF SockInv
<1>2. \/ \E f \in Functions : Called(f)
      \/ \E f \in Void : Finished(f)
      \/ \E f \in CallSet \ Void, len \in Lengths : Answered(f, len)
  BY <1>0 DEF SockInv, Turn, GameTurn, ModTurn, Refused, Exited, Asked, Reading
<1>3. Bool(TRUE).value /\ ~Bool(FALSE).value
  BY ItemFacts
<1>4. ASSUME NEW f \in Functions, Called(f) PROVE SockNext
  <2>1. toClient = <<Bool(FALSE), Name(f)>>
    BY <1>0, <1>4 DEF Called
  <2>2. toClient' = <<Name(f)>> /\ Head(toClient) = Bool(FALSE)
    BY <1>0, <2>1, Tuple1, Tuple2, Tuple3
  <2>3. clientPc' = "name" /\ UNCHANGED client
    BY <1>0, <1>3, <2>2
  <2>4. Called(f)'
    BY <1>0, <1>4, <2>2, <2>3 DEF Called
  <2> QED
    BY <1>0, <1>1, <2>3, <2>4, LongerNow DEF SockNext, SockInv, Turn
<1>5. ASSUME NEW f \in CallSet \ Void, NEW len \in Lengths, Answered(f, len)
      PROVE  SockNext
  <2>1. /\ toClient = <<Bool(TRUE), Text(len)>>
        /\ client # <<>> /\ Top(client) = f
    BY <1>0, <1>1, <1>5, PopAppend, TopAppend DEF Answered
  <2>2. toClient' = <<Text(len)>> /\ Head(toClient) = Bool(TRUE)
    BY <1>0, <2>1, Tuple1, Tuple2, Tuple3
  <2>3. clientPc' = "result" /\ UNCHANGED client
    BY <1>0, <1>3, <2>1, <2>2 DEF WaitReturns
  <2>4. Answered(f, len)'
    BY <1>0, <1>5, <2>2, <2>3 DEF Answered
  <2> QED
    BY <1>0, <1>1, <2>3, <2>4, LongerNow DEF SockNext, SockInv, Turn
<1>6. ASSUME NEW f \in Void, Finished(f) PROVE SockNext
  <2>1. f \in CallSet
    BY VoidAssumption DEF CallSet
  <2>2. /\ toClient = <<Bool(TRUE)>>
        /\ client # <<>> /\ Top(client) = f /\ Pop(client) = server
    BY <1>1, <1>6, <2>1, PopAppend, TopAppend DEF Finished
  <2>3. toClient' = <<>> /\ Head(toClient) = Bool(TRUE)
    BY <1>0, <2>2, Tuple1
  <2>4. clientPc' = "running" /\ client' = server
    BY <1>0, <1>3, <2>2, <2>3 DEF WaitReturns
  <2>5. ModTurn'
    BY <1>0, <1>6, <2>3, <2>4 DEF ModTurn, Finished, Unread
  <2>6. Longer = client /\ Longer' = server
    BY <1>0, <1>1, <1>6, <2>1, <2>4, LongerNow, LongerFacts DEF Finished
  <2>7. Calls!Return
    BY <2>2, <2>6 DEF Calls!Return, Pop
  <2>8. SockInv'
    BY <1>0, <1>1, <2>4, <2>5 DEF SockInv, Turn
  <2> QED
    BY <2>7, <2>8 DEF SockNext, Calls!Next
<1> QED
  BY <1>2, <1>4, <1>5, <1>6

\* Only an entry, called with nothing on the stack, can be missing.
LEMMA ReceiveNameStep == ASSUME SockInv, ReceiveName PROVE SockNext
<1>0. clientPc = "name" /\ toClient' = Tail(toClient) /\ UNCHANGED <<server, serverPc>>
  BY DEF ReceiveName
<1>1. server \in Seq(CallSet) /\ client \in Seq(CallSet)
  BY DEF SockInv
<1>2. PICK f \in Functions : Called(f)
  BY <1>0 DEF SockInv, Turn, GameTurn, ModTurn, Refused, Exited, Asked, Reading,
     Answered, Finished
<1>3. toClient = <<Name(f)>> /\ toServer = <<>> /\ serverPc = "ack"
      /\ server = Append(client, f) /\ Callable(f, client) /\ Even(client)
  BY <1>0, <1>2 DEF Called
<1>4. Head(toClient).value = f /\ toClient' = <<>> /\ f \in CallSet
  BY <1>0, <1>3, Tuple1, Tuple2, Tuple3, ItemFacts DEF CallSet
<1>5. ~Even(server) /\ Longer = server
  BY <1>1, <1>3, <1>4, LongerNow, LongerFacts
<1>6. toServer' = <<Bool(f \in Library)>>
  BY <1>3, <1>4, Joined, ItemFacts DEF ReceiveName
<1>7. CASE f \in Library
  <2>1. client' = server /\ clientPc' = "running"
    BY <1>3, <1>4, <1>7 DEF ReceiveName
  <2>2. toServer' = <<Bool(TRUE)>>
    BY <1>6, <1>7
  <2>3. ModTurn'
    BY <1>0, <1>3, <1>4, <1>5, <2>1, <2>2 DEF ModTurn, Unread
  <2>4. Longer' = server
    BY <1>0, <1>1, <1>3, <1>4, <2>1, LongerNow, LongerFacts
  <2> QED
    BY <1>0, <1>1, <1>5, <2>1, <2>3, <2>4 DEF SockNext, SockInv, Turn
<1>8. CASE f \notin Library
  <2>1. client = <<>>
    BY <1>3, <1>8, ModAssumption DEF Callable
  <2>2. client' = client /\ clientPc' = "command"
    BY <1>4, <1>8, <2>1 DEF ReceiveName, WaitReturns
  <2>3. toServer' = <<Bool(FALSE)>>
    <3>1. (f \in Library) = FALSE
      BY <1>8
    <3>2. Bool(f \in Library) = Bool(FALSE)
      BY <3>1
    <3> QED
      BY <1>6, <3>2
  <2>4. Refused(f)'
    BY <1>0, <1>3, <1>4, <2>2, <2>3 DEF Refused
  <2>5. Longer' = Longer
    BY <1>0, <2>2, LongerNow
  <2> QED
    BY <1>0, <1>1, <1>4, <2>2, <2>4, <2>5 DEF SockNext, SockInv, Turn
<1> QED
  BY <1>7, <1>8

LEMMA ModRunning == ASSUME Turn, clientPc = "running" PROVE ModTurn
BY DEF Turn, GameTurn, Called, Refused, Exited, Answered, Finished, Asked, Reading

LEMMA RpcCallStep ==
  ASSUME SockInv, NEW f \in Api, NEW len \in Lengths, RpcCall(f, len)
  PROVE  SockNext
<1>0. /\ clientPc = "running" /\ Len(client) < MaxDepth
      /\ toServer' = toServer \o <<Index(f), Text(len)>>
      /\ client' = Append(client, f) /\ clientPc' = "command"
      /\ UNCHANGED <<server, serverPc, toClient>>
  BY DEF RpcCall
<1>1. server \in Seq(CallSet) /\ ModTurn /\ f \in CallSet
  BY <1>0, ModRunning DEF SockInv, CallSet
<1>2. Unread(<<Bool(TRUE), Index(f), Text(len)>>, <<Index(f), Text(len)>>)'
  <2>1. Bool(TRUE) \in Items /\ Index(f) \in Items /\ Text(len) \in Items
    BY ItemFacts
  <2>2. CASE serverPc = "ack" /\ toServer = <<Bool(TRUE)>>
    BY <1>0, <2>1, <2>2, Joined DEF Unread
  <2>3. CASE serverPc = "loop" /\ toServer = <<>>
    BY <1>0, <2>1, <2>3, Joined DEF Unread
  <2> QED
    BY <1>1, <2>2, <2>3 DEF ModTurn, Unread
<1>3. Asked(f, len)'
  BY <1>0, <1>1, <1>2 DEF Asked, ModTurn, Even
<1>4. Longer = server /\ Longer' = Append(server, f)
  BY <1>0, <1>1, LongerNow, LongerFacts DEF ModTurn
<1>5. f \in Calls!Callees(server)
  <2>1. server # <<>>
    BY <1>1 DEF ModTurn, Even
  <2> QED
    BY <1>1, <2>1 DEF Calls!Callees, Calls!GameRuns, ModTurn, Even
<1>6. Calls!Call
  BY <1>0, <1>1, <1>4, <1>5 DEF Calls!Call, ModTurn
<1>7. client' \in Seq(CallSet)
  BY <1>0, <1>1, PopAppend DEF ModTurn
<1> QED
  BY <1>0, <1>1, <1>3, <1>6, <1>7 DEF SockNext, SockInv, Turn, Calls!Next

LEMMA ReceiveResultStep == ASSUME SockInv, ReceiveResult PROVE SockNext
<1>0. /\ clientPc = "result"
      /\ toClient' = AfterString(toClient)
      /\ client' = Pop(client) /\ clientPc' = "running"
      /\ UNCHANGED <<server, serverPc, toServer>>
  BY DEF ReceiveResult
<1>1. server \in Seq(CallSet) /\ client \in Seq(CallSet)
  BY DEF SockInv
<1>2. PICK f \in CallSet \ Void, len \in Lengths : Answered(f, len)
  BY <1>0 DEF SockInv, Turn, GameTurn, ModTurn, Called, Refused, Exited, Asked,
     Reading, Finished
<1>3. toClient' = <<>>
  BY <1>0, <1>2, WholeString DEF Answered
<1>4. client' = server /\ client = Append(server, f)
  BY <1>0, <1>1, <1>2, PopAppend DEF Answered
<1>5. ModTurn'
  BY <1>0, <1>2, <1>3, <1>4 DEF ModTurn, Answered, Unread
<1>6. Longer = client /\ Longer' = server /\ client # <<>>
  BY <1>0, <1>1, <1>4, LongerNow, LongerFacts, PopAppend
<1>7. Calls!Return
  BY <1>0, <1>4, <1>6 DEF Calls!Return, Pop
<1>8. SockInv'
  BY <1>0, <1>1, <1>4, <1>5 DEF SockInv, Turn
<1> QED
  BY <1>7, <1>8 DEF SockNext, Calls!Next

LEMMA FunctionReturnsStep == ASSUME SockInv, FunctionReturns PROVE SockNext
<1>0. /\ clientPc = "running"
      /\ toServer' = Append(toServer, Exit)
      /\ client' = Pop(client) /\ clientPc' = "command"
      /\ UNCHANGED <<server, serverPc, toClient>>
  BY DEF FunctionReturns
<1>1. server \in Seq(CallSet) /\ ModTurn
  BY <1>0, ModRunning DEF SockInv
<1>2. Unread(<<Bool(TRUE), Exit>>, <<Exit>>)'
  <2>1. Bool(TRUE) \in Items /\ Exit \in Items
    BY ItemFacts
  <2>2. CASE serverPc = "ack" /\ toServer = <<Bool(TRUE)>>
    BY <1>0, <2>1, <2>2, Joined DEF Unread
  <2>3. CASE serverPc = "loop" /\ toServer = <<>>
    BY <1>0, <2>1, <2>3, Joined DEF Unread
  <2> QED
    BY <1>1, <2>2, <2>3 DEF ModTurn, Unread
<1>3. server # <<>>
  BY <1>1 DEF ModTurn, Even
<1>4. PICK w \in Seq(CallSet), x \in CallSet : server = Append(w, x) /\ client' = w
  BY <1>0, <1>1, <1>3, LastSplit DEF ModTurn
<1>5. server' = Append(client', x) /\ Even(client')
  BY <1>0, <1>1, <1>4, LongerFacts DEF ModTurn
<1>6. Exited(x)'
  BY <1>0, <1>1, <1>2, <1>5 DEF Exited, ModTurn
<1>7. Longer = server /\ Longer' = server
  <2>1. Longer = LongerOf(server, server)
    BY <1>1, LongerNow DEF ModTurn
  <2>2. Longer' = LongerOf(Append(w, x), w) /\ server = Append(w, x)
    BY <1>0, <1>4, <1>5, LongerNow
  <2> QED
    BY <1>1, <1>4, <2>1, <2>2, LongerFacts
<1> QED
  BY <1>0, <1>1, <1>4, <1>6, <1>7 DEF SockNext, SockInv, Turn

-----------------------------------------------------------------------------
(* Theorems.                                                               *)

LEMMA StepSock == SockInv /\ [Next]_vars => SockNext
<1> SUFFICES ASSUME SockInv, [Next]_vars PROVE SockNext
  OBVIOUS
<1>1. CASE Next
  <2>1. \A f \in Entries \cup Callbacks : f \in Functions
    BY DEF Functions
  <2> QED
    BY <1>1, <2>1, SimpleCallStep, HandlerReturnsStep, ReceiveAckStep,
       ReceiveExitStep, ReceiveIndexStep, ReceiveArgsStep, ReceiveCommandStep,
       ReceiveNameStep, RpcCallStep, ReceiveResultStep, FunctionReturnsStep
       DEF Next
<1>2. CASE UNCHANGED vars
  <2>1. SockInv'
    BY <1>2 DEF vars, SockInv, Turn, GameTurn, ModTurn, Called, Refused, Exited,
       Answered, Finished, Asked, Reading, Unread, Callable, Even
  <2> QED
    BY <1>2, <2>1, LongerNow DEF SockNext, vars
<1> QED
  BY <1>1, <1>2

LEMMA InitSock == Init => SockInv /\ Calls!Init
<1>1. Init => GameTurn
  BY DEF Init, GameTurn, Even
<1>2. Init => server \in Seq(CallSet) /\ client \in Seq(CallSet) /\ Longer = <<>>
  BY DEF Init, Longer
<1> QED
  BY <1>1, <1>2 DEF SockInv, Turn, Calls!Init

LEMMA SockInvHolds == Spec => []SockInv
<1>1. SockInv /\ [Next]_vars => SockInv'
  BY StepSock DEF SockNext
<1> QED
  BY <1>1, InitSock, PTL DEF Spec

\* The two channels hold what the reader expects next, in every state.
InOrder ==
  /\ toClient \in Seq(Items) /\ toServer \in Seq(Items)
  /\ InSync /\ OneAtATime /\ FinishedFirst

LEMMA StreamsInOrder == ASSUME SockInv PROVE InOrder
<1>1. \A x, y, z \in Items : /\ <<>> \in Seq(Items) /\ <<x>> \in Seq(Items)
                             /\ <<x, y>> \in Seq(Items) /\ <<x, y, z>> \in Seq(Items)
  OBVIOUS
<1>2. /\ Bool(TRUE) \in Items /\ Bool(FALSE) \in Items /\ Exit \in Items
      /\ Bool(TRUE).type = "bool" /\ Bool(FALSE).type = "bool"
      /\ Exit.type = "exit"
  BY ItemFacts
<1>3. CASE GameTurn
  BY <1>1, <1>3, <1>2 DEF InOrder, GameTurn, InSync, Reads,
     OneAtATime, FinishedFirst
<1>4. CASE ModTurn
  BY <1>1, <1>2, <1>4, Tuple1, Tuple2, Tuple3 DEF InOrder, ModTurn, Unread, InSync, Reads,
     Expected, OneAtATime, FinishedFirst
<1>5. ASSUME NEW f \in Functions, Called(f) PROVE InOrder
  <2>1. Name(f) \in Items /\ Name(f).type = "name"
    BY ItemFacts
  <2>2. toClient \in Seq(Items)
    BY <1>1, <1>2, <1>5, <2>1 DEF Called
  <2>3. Head(<<Bool(FALSE), Name(f)>>).type = "bool"
    BY <1>2, Tuple2
  <2>4. Head(<<Name(f)>>).type = "name"
    BY <2>1, Tuple1
  <2> QED
    BY <1>1, <1>2, <1>5, <2>2, <2>3, <2>4 DEF InOrder, Called, InSync, Reads,
       Expected, OneAtATime, FinishedFirst
<1>6. ASSUME NEW f \in CallSet, Refused(f) PROVE InOrder
  BY <1>1, <1>2, <1>6, Tuple1, Tuple2, Tuple3 DEF InOrder, Refused, InSync, Reads, Expected,
     OneAtATime, FinishedFirst
<1>7. ASSUME NEW f \in CallSet, Exited(f) PROVE InOrder
  <2>1. toServer \in Seq(Items)
    BY <1>1, <1>2, <1>7 DEF Exited, Unread
  <2>2. Reads(serverPc, toServer)
    <3>1. Head(<<Bool(TRUE), Exit>>).type = "bool"
      BY <1>2, Tuple2
    <3>2. Head(<<Exit>>).type = "exit"
      BY <1>2, Tuple1
    <3> QED
      BY <1>7, <3>1, <3>2 DEF Exited, Unread, Reads, Expected
  <2> QED
    BY <1>1, <1>2, <1>7, <2>1, <2>2 DEF InOrder, Exited, InSync, Reads,
       OneAtATime, FinishedFirst
<1>8. ASSUME NEW f \in CallSet, NEW len \in Lengths, Answered(f, len) PROVE InOrder
  <2>1. Text(len) \in Items /\ Text(len).type = "string"
    BY ItemFacts
  <2>2. toClient \in Seq(Items)
    BY <1>1, <1>2, <1>8, <2>1 DEF Answered
  <2>3. Reads(clientPc, toClient)
    <3>1. Head(<<Bool(TRUE), Text(len)>>).type = "bool"
      BY <1>2, Tuple2
    <3>2. Head(<<Text(len)>>).type = "string"
      BY <2>1, Tuple1
    <3> QED
      BY <1>8, <3>1, <3>2 DEF Answered, Reads, Expected
  <2>4. Len(server) < Len(client)
    <3>1. Len(server) \in Nat /\ Len(client) = Len(server) + 1
      BY <1>8, PopAppend DEF SockInv, Answered
    <3> QED
      BY <3>1
  <2> QED
    BY <1>1, <1>2, <1>8, <2>2, <2>3, <2>4 DEF InOrder, Answered, InSync, Reads,
       OneAtATime, FinishedFirst
<1>9. ASSUME NEW f \in Void, Finished(f) PROVE InOrder
  BY <1>1, <1>2, <1>9, Tuple1 DEF InOrder, Finished, InSync, Reads, Expected,
     OneAtATime, FinishedFirst
<1>10. ASSUME NEW f \in Api, NEW len \in Lengths, Asked(f, len) PROVE InOrder
  <2>1. /\ Text(len) \in Items /\ Text(len).type = "string"
        /\ Index(f) \in Items /\ Index(f).type = "index"
    BY ItemFacts
  <2>2. toServer \in Seq(Items)
    BY <1>1, <1>2, <1>10, <2>1 DEF Asked, Unread
  <2>3. Reads(serverPc, toServer)
    <3>1. Head(<<Bool(TRUE), Index(f), Text(len)>>).type = "bool"
      BY <1>2, Tuple3
    <3>2. Head(<<Index(f), Text(len)>>).type = "index"
      BY <2>1, Tuple2
    <3> QED
      BY <1>10, <3>1, <3>2 DEF Asked, Unread, Reads, Expected
  <2> QED
    BY <1>1, <1>2, <1>10, <2>2, <2>3 DEF InOrder, Asked, Unread, InSync, Reads,
       OneAtATime, FinishedFirst
<1>11. ASSUME NEW len \in Lengths, Reading(len) PROVE InOrder
  <2>1. Text(len) \in Items /\ Text(len).type = "string"
    BY ItemFacts
  <2>2. toServer \in Seq(Items)
    BY <1>1, <1>11, <2>1 DEF Reading
  <2>3. Reads(serverPc, toServer)
    BY <1>11, <2>1, Tuple1, Tuple2, Tuple3 DEF Reading, Reads, Expected
  <2> QED
    BY <1>1, <1>2, <1>11, <2>2, <2>3 DEF InOrder, Reading, InSync, Reads,
       OneAtATime, FinishedFirst
<1> QED
  BY <1>3, <1>4, <1>5, <1>6, <1>7, <1>8, <1>9, <1>10, <1>11 DEF SockInv, Turn

\* Every variable keeps its type, and no string is left half read.
THEOREM TypeCorrect == Spec => []TypeOK
<1>1. SockInv => TypeOK
  <2> SUFFICES ASSUME SockInv PROVE TypeOK
    OBVIOUS
  <2>1. /\ serverPc \in {"running", "ack", "loop", "args"}
        /\ clientPc \in {"running", "command", "name", "result"}
    BY DEF SockInv, Turn, GameTurn, ModTurn, Called, Refused, Exited, Answered, Finished,
       Asked, Reading, Unread
  <2> QED
    BY <2>1, StreamsInOrder DEF SockInv, InOrder, CallSet, TypeOK
<1> QED
  BY <1>1, SockInvHolds, PTL

\* However the calls nest, each side reads what the other wrote, as what it is.
THEOREM StaysInSync == Spec => []InSync
<1>1. SockInv => InSync
  BY StreamsInOrder DEF InOrder
<1> QED
  BY <1>1, SockInvHolds, PTL

\* The mod and the game's handlers never run at the same time.
THEOREM NeverBothRun == Spec => []OneAtATime
<1>1. SockInv => OneAtATime
  BY StreamsInOrder DEF InOrder
<1> QED
  BY <1>1, SockInvHolds, PTL

\* A mod whose library has its callbacks reads a result only when the function
\* of the interface has returned.
THEOREM ResultAfterReturn == Spec => []FinishedFirst
<1>1. SockInv => FinishedFirst
  BY StreamsInOrder DEF InOrder
<1> QED
  BY <1>1, SockInvHolds, PTL

\* The two processes implement one stack of calls, however deep: every step
\* of theirs is a call, a return or nothing at all.
THEOREM OneStack == Spec => ImplementsCallStack
<1>1. SockInv /\ [Next]_vars => [Calls!Next]_Longer
  BY StepSock DEF SockNext
<1>2. Spec => [][Calls!Next]_Longer
  BY <1>1, SockInvHolds, PTL DEF Spec
<1>3. Spec => Calls!Init
  BY InitSock, PTL DEF Spec
<1> QED
  BY <1>2, <1>3, PTL DEF ImplementsCallStack, Calls!Spec
=============================================================================
