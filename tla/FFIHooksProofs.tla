--------------------------- MODULE FFIHooksProofs ---------------------------
(***************************************************************************)
(* TLAPS proofs about FFIHooks, for any methods, mods and depth: its       *)
(* types, that currentMod is the mod whose code runs, that no callback is  *)
(* entered twice and that no hook is lost or left behind.                  *)
(***************************************************************************)
EXTENDS FFIHooks, TLAPS

(* The stack.                                                              *)

Last(s) == s[Len(s)]

LEMMA PushFrame ==
  ASSUME NEW s \in Seq(Frames), NEW f \in Frames
  PROVE  LET t == Append(s, f)
         IN  /\ t \in Seq(Frames) /\ Len(t) = Len(s) + 1 /\ t # <<>>
             /\ t[Len(s) + 1] = f
             /\ \A i \in 1..Len(s) : t[i] = s[i]
  OBVIOUS

LEMMA PopFrame ==
  ASSUME NEW s \in Seq(Frames), s # <<>>
  PROVE  LET b == SubSeq(s, 1, Len(s) - 1)
         IN  /\ b \in Seq(Frames) /\ Len(b) = Len(s) - 1 /\ Len(s) > 0
             /\ Len(s) \in Nat /\ (b # <<>> <=> Len(s) > 1)
             /\ s[Len(s)] \in Frames
             /\ \A i \in 1..(Len(s) - 1) : b[i] = s[i]
<1> DEFINE b == SubSeq(s, 1, Len(s) - 1)
           n == Len(s)
<1>1. n \in Nat /\ n > 0 /\ s[n] \in Frames
  OBVIOUS
<1>2. b \in Seq(Frames) /\ Len(b) = n - 1
  <2>1. b = [i \in 1..(n - 1) |-> s[i]]
    BY <1>1
  <2>2. \A i \in 1..(n - 1) : s[i] \in Frames
    BY <1>1
  <2> HIDE DEF n
  <2>3. n - 1 \in Nat
    BY <1>1
  <2> QED
    BY <2>1, <2>2, <2>3
<1>3. \A i \in 1..(n - 1) : b[i] = s[i]
  BY <1>1
<1>4. b # <<>> <=> Len(b) > 0
  <2> HIDE DEF b
  <2> QED
    BY <1>2
<1> HIDE DEF b, n
<1>5. b # <<>> <=> n > 1
  BY <1>1, <1>2, <1>4
<1> QED
  BY <1>1, <1>2, <1>3, <1>5 DEF b, n

LEMMA FrameKinds ==
  ASSUME NEW f \in Frames
  PROVE  /\ f.kind = "mod" =>
              f.mod \in Mod /\ f.entry \in {"onLoad", "onUnload", "onUiUpdate"}
         /\ f.kind = "callback" =>
              /\ f.mod \in Mod /\ f.method \in Method /\ f.id \in Ids
              /\ f.active \in BOOLEAN
         /\ f.kind = "caught" => f.method \in Method /\ f.id \in Ids
         /\ f.kind = "body" => f.method \in Method
         /\ f.kind = "call" => f.backup \in Mod
         /\ IsMod(f) => f.mod \in Mod
         /\ HasHook(f) => f.method \in Method /\ f.id \in Ids
  BY DEF Frames, IsMod, HasHook

LEMMA NewFrames ==
  /\ \A mod \in Mod, entry \in {"onLoad", "onUnload", "onUiUpdate"} :
       Loader(mod, entry) \in Frames
  /\ \A m \in Method, h \in Hooks, active \in BOOLEAN :
       Callback(m, h, active) \in Frames
  /\ \A m \in Method, id \in Ids : Caught(m, id) \in Frames
  /\ \A m \in Method : Body(m) \in Frames
  /\ \A mod \in Mod : CallFrame(mod) \in Frames
  BY DEF Frames, Hooks, Loader, Callback, Caught, Body, CallFrame

(* A mod waits exactly where a call is above it, and the call knows it.    *)
WellCalled(s) ==
  /\ \A i \in 1..Len(s) :
       s[i].kind = "call" =>
         i > 1 /\ IsMod(s[i - 1]) /\ s[i].backup = s[i - 1].mod
  /\ \A i \in 1..(Len(s) - 1) : IsMod(s[i]) => s[i + 1].kind = "call"

Idle(s) == s # <<>> => ~IsMod(Last(s))

LEMMA CalledPush ==
  ASSUME NEW s \in Seq(Frames), WellCalled(s), NEW f \in Frames,
         \/ f.kind # "call" /\ Idle(s)
         \/ f.kind = "call" /\ s # <<>> /\ IsMod(Last(s))
              /\ f.backup = Last(s).mod
  PROVE  WellCalled(Append(s, f))
<1> DEFINE t == Append(s, f)
           n == Len(s)
<1>1. /\ t \in Seq(Frames) /\ Len(t) = n + 1 /\ t[n + 1] = f
      /\ \A i \in 1..n : t[i] = s[i]
  BY PushFrame
<1>2. n \in Nat /\ (s # <<>> <=> n > 0)
  OBVIOUS
<1>3. ASSUME NEW i \in 1..Len(t), t[i].kind = "call"
      PROVE  i > 1 /\ IsMod(t[i - 1]) /\ t[i].backup = t[i - 1].mod
  <2>1. CASE i = n + 1
    <3>1. f.kind = "call"
      BY <1>1, <1>3, <2>1
    <3>2. n > 0 /\ n \in 1..n /\ t[n] = s[n] /\ IsMod(s[n]) /\ f.backup = s[n].mod
      BY <1>1, <1>2, <3>1 DEF Last
    <3> HIDE DEF t, n
    <3>3. i - 1 = n /\ i > 1
      BY <1>2, <2>1, <3>2
    <3> QED
      BY <1>1, <2>1, <3>2, <3>3
  <2>2. CASE i \in 1..n
    <3>1. i > 1 /\ IsMod(s[i - 1]) /\ s[i].backup = s[i - 1].mod
      BY <1>1, <1>3, <2>2 DEF WellCalled
    <3> HIDE DEF t, n
    <3>2. i - 1 \in 1..n
      BY <1>2, <2>2, <3>1
    <3> QED
      BY <1>1, <2>2, <3>1, <3>2
  <2> QED
    BY <1>1, <1>2, <2>1, <2>2
<1>4. ASSUME NEW i \in 1..(Len(t) - 1), IsMod(t[i])
      PROVE  t[i + 1].kind = "call"
  <2>1. i \in 1..n /\ IsMod(s[i])
    BY <1>1, <1>2, <1>4
  <2>2. CASE i = n
    BY <1>1, <1>2, <2>1, <2>2 DEF Idle, Last
  <2>3. CASE i \in 1..(n - 1)
    <3>1. s[i + 1].kind = "call"
      BY <2>1, <2>3 DEF WellCalled
    <3> HIDE DEF t, n
    <3>2. i + 1 \in 1..n
      BY <1>2, <2>3
    <3> QED
      BY <1>1, <3>1, <3>2
  <2> HIDE DEF t, n
  <2> QED
    BY <1>2, <2>1, <2>2, <2>3
<1> QED
  BY <1>3, <1>4 DEF WellCalled

LEMMA CalledPop ==
  ASSUME NEW s \in Seq(Frames), s # <<>>, WellCalled(s)
  PROVE  LET b == SubSeq(s, 1, Len(s) - 1)
         IN  /\ WellCalled(b)
             /\ Last(s).kind = "call" =>
                  b # <<>> /\ IsMod(Last(b)) /\ Last(b).mod = Last(s).backup
             /\ Last(s).kind # "call" => Idle(b)
<1> DEFINE b == SubSeq(s, 1, Len(s) - 1)
           n == Len(s)
<1>1. /\ b \in Seq(Frames) /\ Len(b) = n - 1 /\ n > 0 /\ n \in Nat
      /\ \A i \in 1..(n - 1) : b[i] = s[i]
      /\ b # <<>> <=> n > 1
  BY PopFrame
<1>2. ASSUME NEW i \in 1..(n - 1), s[i].kind = "call"
      PROVE  i > 1 /\ IsMod(b[i - 1]) /\ b[i].backup = b[i - 1].mod
  <2>1. i > 1 /\ IsMod(s[i - 1]) /\ s[i].backup = s[i - 1].mod
    BY <1>1, <1>2 DEF WellCalled
  <2> HIDE DEF b, n
  <2>2. i - 1 \in 1..(n - 1)
    BY <1>1, <2>1
  <2> QED
    BY <1>1, <2>1, <2>2
<1>3. ASSUME NEW i \in 1..(n - 2), IsMod(s[i])
      PROVE  b[i + 1].kind = "call"
  <2>1. s[i + 1].kind = "call"
    BY <1>1, <1>3 DEF WellCalled
  <2> HIDE DEF b, n
  <2>2. i + 1 \in 1..(n - 1)
    BY <1>1
  <2> QED
    BY <1>1, <2>1, <2>2
<1>4. WellCalled(b)
  <2> SUFFICES /\ \A i \in 1..(n - 1) : b[i].kind = "call" =>
                    i > 1 /\ IsMod(b[i - 1]) /\ b[i].backup = b[i - 1].mod
               /\ \A i \in 1..(n - 2) : IsMod(b[i]) => b[i + 1].kind = "call"
    <3>1. Len(b) = n - 1 /\ Len(b) - 1 = n - 2
      BY <1>1
    <3> HIDE DEF b, n
    <3> QED
      BY <3>1 DEF WellCalled
  <2> HIDE DEF b, n
  <2>1. \A i \in 1..(n - 2) : i \in 1..(n - 1)
    BY <1>1
  <2> QED
    BY <1>1, <1>2, <1>3, <2>1
<1>5. Last(s).kind = "call" =>
        b # <<>> /\ IsMod(Last(b)) /\ Last(b).mod = Last(s).backup
  <2>1. Last(s) = s[n] /\ Last(b) = b[Len(b)] /\ n \in 1..n
    BY <1>1 DEF Last
  <2>2. s[n].kind = "call" => n > 1 /\ IsMod(s[n - 1]) /\ s[n].backup = s[n - 1].mod
    BY <1>1, <2>1 DEF WellCalled
  <2> HIDE DEF b, n
  <2>3. n > 1 => Len(b) = n - 1 /\ n - 1 \in 1..(n - 1)
    BY <1>1
  <2> QED
    BY <1>1, <2>1, <2>2, <2>3
<1>6. Last(s).kind # "call" => Idle(b)
  <2>1. Last(s) = s[n] /\ Last(b) = b[Len(b)]
    BY DEF Last
  <2>2. \A i \in 1..(n - 1) : IsMod(s[i]) => s[i + 1].kind = "call"
    BY DEF WellCalled
  <2> HIDE DEF b, n
  <2>3. n > 1 => Len(b) = n - 1 /\ n - 1 \in 1..(n - 1) /\ (n - 1) + 1 = n
    BY <1>1
  <2> QED
    BY <1>1, <2>1, <2>2, <2>3 DEF Idle
<1> QED
  BY <1>4, <1>5, <1>6

-----------------------------------------------------------------------------
(* Types, and the mod that runs.                                           *)

NowRuns == stack # <<>> /\ IsMod(Last(stack)) => currentMod = Last(stack).mod

RunInv == TypeOK /\ WellCalled(stack) /\ NowRuns

LEMMA DropTyped ==
  ASSUME NEW m \in Method, NEW id, NEW hs, NEW s,
         NEW rel \in SUBSET Ids, NEW arm \in SUBSET Method,
         DropHook(m, id, hs, s, rel, arm)
  PROVE  released' \subseteq Ids /\ armed' \subseteq Method
  BY DEF DropHook

\* What calling a method on top of s leaves, if s is a stack that may be
\* called from.
LEMMA RunKeeps ==
  ASSUME TypeOK, NEW m \in Method, NEW s \in Seq(Frames), WellCalled(s),
         Idle(s), Run(m, s)
  PROVE  RunInv'
<1>2. CASE RunBody(m, s)
  <2>1. stack' = Append(s, Body(m)) /\ Body(m) \in Frames
        /\ Body(m).kind = "body"
    BY <1>2, NewFrames DEF RunBody, Body
  <2>2. WellCalled(stack') /\ ~IsMod(Last(stack')) /\ stack' \in Seq(Frames)
    BY <2>1, CalledPush, PushFrame DEF Last, IsMod
  <2> QED
    BY <1>2, <2>2 DEF RunBody, RunInv, TypeOK, NowRuns, Last
<1>3. CASE RunCallback(m, s)
  <2> DEFINE h == hooks[m]
             active == h.id \notin released
             f == Callback(m, h, active)
  <2>1. h \in Hooks /\ f \in Frames /\ f.kind = "callback"
        /\ f.mod = h.mod /\ h.mod \in Mod /\ h.id \in Ids
    <3>1. h \in Hooks
      BY <1>3 DEF RunCallback, TypeOK
    <3> QED
      BY <3>1, NewFrames DEF Callback, Hooks
  <2>2. stack' = Append(s, f) /\ currentMod' = h.mod
        /\ currentHookMethod' = m
    BY <1>3 DEF RunCallback
  <2>3. released' \subseteq Ids /\ armed' \subseteq Method
    BY <1>3, <2>1 DEF RunCallback, TypeOK
  <2> HIDE DEF h, f
  <2>4. WellCalled(stack') /\ stack' \in Seq(Frames) /\ Last(stack') = f
    BY <2>1, <2>2, CalledPush, PushFrame DEF Last
  <2> QED
    BY <1>3, <2>1, <2>2, <2>3, <2>4
       DEF RunCallback, RunInv, TypeOK, NowRuns, Last
<1>4. CASE RunUnknownHook(m, s)
  BY <1>4 DEF RunUnknownHook, RunInv, TypeOK, NowRuns, Last, Idle
<1>5. CASE RunStaleHook(m, s)
  <2>2. released' \subseteq Ids /\ armed' \subseteq Method
    BY <1>5, DropTyped DEF RunStaleHook, TypeOK
  <2>3. hooks' \in [Method -> Hooks \cup {NoHook}]
    BY <1>5 DEF RunStaleHook, TypeOK
  <2> QED
    BY <1>5, <2>2, <2>3
       DEF RunStaleHook, RunInv, TypeOK, NowRuns, Last, Idle
<1> QED
  BY <1>2, <1>3, <1>4, <1>5 DEF Run

\* The frame on top, and what is under it.
LEMMA TopFrame ==
  ASSUME RunInv, stack # <<>>
  PROVE  /\ Top \in Frames /\ Top = Last(stack)
         /\ Below \in Seq(Frames) /\ WellCalled(Below)
         /\ Top.kind # "call" => Idle(Below)
         /\ IsMod(Top) => currentMod = Top.mod /\ currentMod \in Mod
<1>1. stack \in Seq(Frames) /\ WellCalled(stack)
  BY DEF RunInv, TypeOK
<1>2. Top = Last(stack)
  BY DEF Top, Last
<1>3. Below \in Seq(Frames) /\ Last(stack) \in Frames
  BY <1>1, PopFrame DEF Below, Last
<1>4. WellCalled(Below) /\ (Last(stack).kind # "call" => Idle(Below))
  BY <1>1, CalledPop DEF Below
<1>5. IsMod(Top) => currentMod = Top.mod /\ currentMod \in Mod
  BY <1>2, <1>3, FrameKinds DEF RunInv, NowRuns
<1> QED
  BY <1>2, <1>3, <1>4, <1>5

\* Popping any frame but a call.
LEMMA PopKeeps ==
  ASSUME RunInv, stack # <<>>, Top.kind # "call", stack' = Below,
         instance' \in [Mod -> Instances], currentMod' \in Mod \cup {None},
         currentHookMethod' \in Method \cup {None},
         hooks' \in [Method -> Hooks \cup {NoHook}],
         armed' \subseteq Method, released' \subseteq Ids
  PROVE  RunInv'
  BY TopFrame DEF RunInv, TypeOK, NowRuns, Idle, Last

\* The loader enters a mod.
LEMMA EnterKeeps ==
  ASSUME TypeOK, NEW mod \in Mod, NEW s \in Seq(Frames), WellCalled(s),
         Idle(s),
         NEW entry \in {"onLoad", "onUnload", "onUiUpdate"},
         Enter(mod, entry, s), instance' \in [Mod -> Instances],
         UNCHANGED <<currentHookMethod, hooks>>,
         armed' \subseteq Method, released' \subseteq Ids
  PROVE  RunInv'
<1> DEFINE f == Loader(mod, entry)
<1>1. f \in Frames /\ f.kind = "mod" /\ f.mod = mod
  BY NewFrames DEF Loader
<1>2. stack' = Append(s, f) /\ currentMod' = mod
  BY DEF Enter
<1> HIDE DEF f
<1>3. WellCalled(stack') /\ stack' \in Seq(Frames) /\ Last(stack') = f
  BY <1>1, <1>2, CalledPush, PushFrame DEF Last
<1> QED
  BY <1>1, <1>2, <1>3 DEF RunInv, TypeOK, NowRuns, Last

LEMMA EmptyStack == WellCalled(<<>>) /\ Idle(<<>>) /\ <<>> \in Seq(Frames)
  BY DEF WellCalled, Idle

THEOREM RunInvHolds == Spec => []RunInv
<1>1. Init => RunInv
  BY EmptyStack
     DEF Init, RunInv, TypeOK, NowRuns, Instances
<1>2. RunInv /\ [Next]_vars => RunInv'
  <2> SUFFICES ASSUME RunInv, [Next]_vars PROVE RunInv'
    OBVIOUS
  <2> USE DEF Instances
  <2>0. TypeOK
    BY DEF RunInv
  <2>1. ASSUME NEW m \in Method, GameCalls(m) PROVE RunInv'
    <3>1. stack \in Seq(Frames) /\ WellCalled(stack) /\ Run(m, stack)
      BY <2>1 DEF GameCalls, RunInv, TypeOK
    <3>2. Idle(stack)
      BY <2>1 DEF GameCalls, GameRuns, Idle, Top, Last, IsMod
    <3> QED
      BY <2>0, <3>1, <3>2, RunKeeps
  <2>2. ASSUME NEW m \in Method, Call2(m) PROVE RunInv'
    <3> DEFINE f == CallFrame(currentMod)
               s == Append(stack, f)
    <3>1. stack # <<>> /\ IsMod(Top) /\ Run(m, s)
      BY <2>2 DEF Call2, ModRuns
    <3>2. /\ Top = Last(stack) /\ currentMod = Top.mod /\ currentMod \in Mod
      BY <3>1, TopFrame
    <3>3. f \in Frames /\ f.kind = "call" /\ f.backup = currentMod
      BY <3>2, NewFrames DEF CallFrame
    <3>4. stack \in Seq(Frames) /\ WellCalled(stack)
      BY DEF RunInv, TypeOK
    <3> HIDE DEF f
    <3>5. WellCalled(s) /\ s \in Seq(Frames) /\ Last(s) = f
      BY <3>1, <3>2, <3>3, <3>4, CalledPush, PushFrame DEF Last
    <3>6. Idle(s)
      BY <3>3, <3>5 DEF Idle, IsMod
    <3> HIDE DEF s
    <3> QED
      BY <2>0, <3>1, <3>5, <3>6, RunKeeps
  <2>3. ASSUME NEW m \in Method, Hook(m) PROVE RunInv'
    <3>1. stack # <<>> /\ IsMod(Top)
      BY <2>3 DEF Hook, ModRuns
    <3>2. currentMod \in Mod
      BY <3>1, TopFrame
    <3>3. \A id \in Ids : [id |-> id, mod |-> currentMod] \in Hooks
      BY <3>2 DEF Hooks
    <3>4. hooks' \in [Method -> Hooks \cup {NoHook}]
      BY <2>0, <2>3, <3>3 DEF Hook, TypeOK
    <3> QED
      BY <2>3, <3>4 DEF Hook, RunInv, TypeOK, NowRuns, Last
  <2>4. ASSUME NEW m \in Method, Unhook(m) PROVE RunInv'
    <3>1. released' \subseteq Ids /\ armed' \subseteq Method
      BY <2>0, <2>4, DropTyped DEF Unhook, TypeOK
    <3>2. hooks' \in [Method -> Hooks \cup {NoHook}]
      BY <2>0, <2>4 DEF Unhook, TypeOK
    <3> QED
      BY <2>4, <3>1, <3>2 DEF Unhook, RunInv, TypeOK, NowRuns, Last
  <2>5. ASSUME NEW mod \in Mod, Load(mod) PROVE RunInv'
    BY <2>0, <2>5, EmptyStack, EnterKeeps DEF Load, TypeOK
  <2>6. ASSUME NEW mod \in Mod, Unload(mod) PROVE RunInv'
    BY <2>0, <2>6, EmptyStack, EnterKeeps DEF Unload, UnloadOn, TypeOK
  <2>7. ASSUME NEW mod \in Mod, UiUpdate(mod) PROVE RunInv'
    BY <2>0, <2>7, EmptyStack, EnterKeeps DEF UiUpdate, TypeOK
  <2>8. CASE BodyReturns
    BY <2>0, <2>8, PopKeeps DEF BodyReturns, TypeOK
  <2>9. CASE Call2Returns
    <3>1. stack # <<>> /\ Top = Last(stack) /\ Top.kind = "call"
          /\ Below \in Seq(Frames) /\ WellCalled(Below)
          /\ Top \in Frames
      BY <2>9, TopFrame DEF Call2Returns
    <3>2. Below # <<>> => Last(Below).mod = Top.backup
      BY <3>1, CalledPop DEF Below, RunInv, TypeOK
    <3>3. Top.backup \in Mod
      BY <3>1, FrameKinds
    <3> QED
      BY <2>0, <2>9, <3>1, <3>2, <3>3
         DEF Call2Returns, RunInv, TypeOK, NowRuns, Last
  <2>10. CASE FfiHookReturns
    <3>1. stack # <<>> /\ HasHook(Top) /\ Top \in Frames
      BY <2>10, TopFrame DEF FfiHookReturns
    <3>2. Top.method \in Method /\ Top.kind # "call"
      BY <3>1, FrameKinds DEF HasHook
    <3>3. Unreleased(Top) \subseteq Ids /\ Rearmed(Top) \subseteq Method
      BY <2>0, <3>2 DEF Unreleased, Rearmed, TypeOK
    <3>4. released' \subseteq Ids /\ armed' \subseteq Method
      BY <2>0, <2>10, <3>2, <3>3, DropTyped DEF FfiHookReturns, TypeOK
    <3> QED
      BY <2>0, <2>10, <3>1, <3>2, <3>4, PopKeeps DEF FfiHookReturns, TypeOK
  <2>11. CASE LoaderReturns
    <3>1. stack # <<>> /\ Top.kind = "mod" /\ Top \in Frames /\ Top.mod \in Mod
      BY <2>11, TopFrame, FrameKinds DEF LoaderReturns, ModRuns
    <3>2. instance' \in [Mod -> Instances]
      BY <2>0, <2>11, <3>1 DEF LoaderReturns, TypeOK
    <3> QED
      BY <2>0, <2>11, <3>1, <3>2, PopKeeps DEF LoaderReturns, TypeOK
  <2>12. CASE AbortInCallback
    <3> DEFINE f == Caught(Top.method, Top.id)
               s == Append(Below, f)
    <3>1. stack # <<>> /\ Top.kind = "callback" /\ IsMod(Top)
      BY <2>12 DEF AbortInCallback, ModRuns
    <3>2. /\ Top \in Frames /\ Top.method \in Method /\ Top.id \in Ids
          /\ Below \in Seq(Frames) /\ WellCalled(Below) /\ Idle(Below)
          /\ currentMod \in Mod
      BY <3>1, TopFrame, FrameKinds
    <3>3. f \in Frames /\ f.kind = "caught"
      BY <3>2, NewFrames DEF Caught
    <3>4. Unreleased(Top) \subseteq Ids /\ Rearmed(Top) \subseteq Method
      BY <2>0, <3>2 DEF Unreleased, Rearmed, TypeOK
    <3>5. UnloadOn(currentMod, s) /\ UNCHANGED <<currentHookMethod, hooks>>
          /\ released' \subseteq Ids /\ armed' \subseteq Method
      BY <2>12, <3>4 DEF AbortInCallback
    <3> HIDE DEF f
    <3>6. WellCalled(s) /\ s \in Seq(Frames) /\ Last(s) = f
      BY <3>2, <3>3, CalledPush, PushFrame DEF Last
    <3>7. Idle(s) /\ ~IsMod(f)
      BY <3>3, <3>6 DEF Idle, IsMod
    <3> HIDE DEF s
    <3>9. CASE instance[currentMod] = "loaded"
      <4>1. Enter(currentMod, "onUnload", s)
            /\ instance' \in [Mod -> Instances]
        BY <2>0, <3>2, <3>5, <3>9 DEF UnloadOn, TypeOK
      <4> QED
        BY <2>0, <3>2, <3>5, <3>6, <3>7, <4>1, EnterKeeps
    <3>10. CASE instance[currentMod] # "loaded"
      <4>1. stack' = s /\ UNCHANGED <<instance, currentMod>>
        BY <3>5, <3>10 DEF UnloadOn
      <4> QED
        BY <2>0, <3>5, <3>6, <3>7, <4>1
           DEF RunInv, TypeOK, NowRuns, Last
    <3> QED
      BY <3>9, <3>10
  <2>13. CASE AbortInUiUpdate
    <3>1. /\ stack # <<>> /\ Top.kind = "mod" /\ IsMod(Top)
          /\ UnloadOn(currentMod, Below)
          /\ UNCHANGED <<currentHookMethod, hooks, armed, released>>
      BY <2>13 DEF AbortInUiUpdate, ModRuns
    <3>2. /\ Below \in Seq(Frames) /\ WellCalled(Below) /\ Idle(Below)
          /\ currentMod \in Mod
      BY <3>1, TopFrame
    <3>3. CASE instance[currentMod] = "loaded"
      <4>1. Enter(currentMod, "onUnload", Below)
            /\ instance' \in [Mod -> Instances]
        BY <2>0, <3>1, <3>2, <3>3 DEF UnloadOn, TypeOK
      <4>2. armed' \subseteq Method /\ released' \subseteq Ids
        BY <2>0, <3>1 DEF TypeOK
      <4> QED
        BY <2>0, <3>1, <3>2, <4>1, <4>2, EnterKeeps
    <3>4. CASE instance[currentMod] # "loaded"
      <4>1. stack' = Below /\ UNCHANGED <<instance, currentMod>>
        BY <3>1, <3>4 DEF UnloadOn
      <4> QED
        BY <2>0, <3>1, <4>1, PopKeeps DEF TypeOK
    <3> QED
      BY <3>3, <3>4
  <2>14. CASE AbortInLoad
    <3>1. stack # <<>> /\ Top.kind = "mod" /\ Top \in Frames /\ Top.mod \in Mod
      BY <2>14, TopFrame, FrameKinds DEF AbortInLoad, ModRuns
    <3>2. instance' \in [Mod -> Instances]
      BY <2>0, <2>14, <3>1 DEF AbortInLoad, TypeOK
    <3> QED
      BY <2>0, <2>14, <3>1, <3>2, PopKeeps DEF AbortInLoad, TypeOK
  <2>15. CASE UNCHANGED vars
    BY <2>15 DEF RunInv, TypeOK, NowRuns, Last, vars
  <2> QED
    BY <2>1, <2>2, <2>3, <2>4, <2>5, <2>6, <2>7, <2>8, <2>9, <2>10, <2>11,
       <2>12, <2>13, <2>14, <2>15 DEF Next, Crashed
<1> QED
  BY <1>1, <1>2, PTL DEF Spec

(* The frames of ffiHook.                                                  *)

HookFrames(s) == {f \in Frames : HasHook(f) /\ \E i \in 1..Len(s) : s[i] = f}

Once(s) ==
  \A i, j \in 1..Len(s) :
    HasHook(s[i]) /\ HasHook(s[j]) /\ s[i].method = s[j].method => i = j

LEMMA HookFramesPush ==
  ASSUME NEW s \in Seq(Frames), NEW f \in Frames, Once(s)
  PROVE  /\ HookFrames(Append(s, f)) =
              HookFrames(s) \cup {g \in {f} : HasHook(g)}
         /\ (HasHook(f) => \A g \in HookFrames(s) : g.method # f.method)
              => Once(Append(s, f))
<1> DEFINE t == Append(s, f)
           n == Len(s)
<1>1. /\ Len(t) = n + 1 /\ t[n + 1] = f /\ n \in Nat
      /\ \A i \in 1..n : t[i] = s[i] /\ s[i] \in Frames
  BY PushFrame
<1> HIDE DEF t, n
<1>2. \A i \in 1..(n + 1) : i = n + 1 \/ i \in 1..n
  BY <1>1
<1>3. \A i \in 1..n : i \in 1..(n + 1)
  BY <1>1
<1>4. n + 1 \in 1..(n + 1)
  BY <1>1
<1>5. HookFrames(t) = HookFrames(s) \cup {g \in {f} : HasHook(g)}
  BY <1>1, <1>2, <1>3, <1>4 DEF HookFrames, n
<1>6. ASSUME HasHook(f) => \A g \in HookFrames(s) : g.method # f.method
      PROVE  Once(t)
  <2>1. \A i \in 1..n : HasHook(s[i]) => s[i] \in HookFrames(s)
    BY <1>1 DEF HookFrames, n
  <2>2. \A i, j \in 1..n :
          HasHook(s[i]) /\ HasHook(s[j]) /\ s[i].method = s[j].method => i = j
    BY DEF Once, n
  <2> QED
    BY <1>1, <1>2, <1>6, <2>1, <2>2 DEF Once
<1> QED
  BY <1>5, <1>6 DEF t

LEMMA HookFramesPop ==
  ASSUME NEW s \in Seq(Frames), s # <<>>, Once(s)
  PROVE  LET b == SubSeq(s, 1, Len(s) - 1)
         IN  /\ HookFrames(b) = HookFrames(s) \ {Last(s)}
             /\ Once(b)
<1> DEFINE b == SubSeq(s, 1, Len(s) - 1)
           n == Len(s)
<1>1. /\ Len(b) = n - 1 /\ n \in Nat /\ n > 0 /\ Last(s) = s[n]
      /\ \A i \in 1..(n - 1) : b[i] = s[i]
  BY PopFrame DEF Last
<1>2. \A i, j \in 1..n :
        HasHook(s[i]) /\ HasHook(s[j]) /\ s[i].method = s[j].method => i = j
  BY DEF Once
<1>3. HookFrames(s) = {f \in Frames : HasHook(f) /\ \E i \in 1..n : s[i] = f}
  BY DEF HookFrames
<1> HIDE DEF b, n
<1>4. HookFrames(b) =
        {f \in Frames : HasHook(f) /\ \E i \in 1..(n - 1) : b[i] = f}
  BY <1>1 DEF HookFrames
<1>5. \A i \in 1..(n - 1) : i \in 1..n /\ i # n
  BY <1>1
<1>6. \A i \in 1..n : i = n \/ i \in 1..(n - 1)
  BY <1>1
<1>7. n \in 1..n
  BY <1>1
<1>8. HookFrames(b) = HookFrames(s) \ {Last(s)}
  <2>1. ASSUME NEW f \in HookFrames(b) PROVE f \in HookFrames(s) \ {Last(s)}
    <3>1. PICK i \in 1..(n - 1) : b[i] = f
      BY <1>4, <2>1
    <3>2. HasHook(f) /\ f \in Frames /\ s[i] = f /\ i \in 1..n /\ i # n
      BY <1>1, <1>4, <1>5, <2>1, <3>1
    <3> QED
      BY <1>1, <1>2, <1>3, <1>7, <3>2
  <2>2. ASSUME NEW f \in HookFrames(s), f # Last(s) PROVE f \in HookFrames(b)
    <3>1. PICK i \in 1..n : s[i] = f
      BY <1>3, <2>2
    <3>2. i \in 1..(n - 1)
      BY <1>1, <1>6, <2>2, <3>1
    <3>3. HasHook(f) /\ f \in Frames /\ b[i] = f
      BY <1>1, <1>3, <2>2, <3>1, <3>2
    <3> QED
      BY <1>4, <3>2, <3>3
  <2> QED
    BY <2>1, <2>2
<1>9. Once(b)
  <2> SUFFICES ASSUME NEW i \in 1..(n - 1), NEW j \in 1..(n - 1),
                      HasHook(b[i]), HasHook(b[j]), b[i].method = b[j].method
               PROVE  i = j
    BY <1>1 DEF Once
  <2> QED
    BY <1>1, <1>2, <1>5
<1> QED
  BY <1>8, <1>9 DEF b

LEMMA HeldFrames ==
  ASSUME NEW s \in Seq(Frames)
  PROVE  Held(s) = {f.id : f \in HookFrames(s)}
<1>1. DOMAIN s = 1..Len(s) /\ \A i \in 1..Len(s) : s[i] \in Frames
  OBVIOUS
<1>2. ASSUME NEW x \in Held(s) PROVE x \in {f.id : f \in HookFrames(s)}
  <2>1. PICK i \in 1..Len(s) : HasHook(s[i]) /\ x = s[i].id
    BY <1>1, <1>2 DEF Held
  <2> QED
    BY <1>1, <2>1 DEF HookFrames
<1>3. ASSUME NEW f \in HookFrames(s) PROVE f.id \in Held(s)
  <2>1. PICK i \in 1..Len(s) : s[i] = f /\ HasHook(f)
    BY <1>3 DEF HookFrames
  <2> QED
    BY <1>1, <2>1 DEF Held
<1> QED
  BY <1>2, <1>3

-----------------------------------------------------------------------------
(* The hooks.  A method is armed exactly if it has a hook, but for the one  *)
(* frame of ffiHook it may have on the stack: a callback keeps the method   *)
(* released, a frame whose mod panicked has armed it again, and either may  *)
(* hold an object that the table no longer has.                            *)

OneObjectEach ==
  /\ \A f, g \in HookFrames(stack) : f.id = g.id => f = g
  /\ \A f \in HookFrames(stack), m \in Method :
       m # f.method => hooks[m].id # f.id
  /\ \A m, n \in Method : hooks[m] # NoHook /\ m # n => hooks[m].id # hooks[n].id

Running ==
  \A f \in HookFrames(stack) :
    /\ hooks[f.method] = NoHook \/ hooks[f.method].id = f.id
    /\ f.kind = "callback" =>
         /\ f.active /\ f.id \in released /\ f.method \notin armed
         /\ instance[f.mod] # "loading"
         /\ hooks[f.method] # NoHook => hooks[f.method].mod = f.mod
    /\ f.kind = "caught" =>
         /\ f.id \notin released /\ f.method \in armed
         /\ hooks[f.method] # NoHook =>
              instance[hooks[f.method].mod] \in {"unloading", "none"}

Resting ==
  /\ \A m \in Method :
       (\A f \in HookFrames(stack) : f.method # m) =>
         /\ m \in armed <=> hooks[m] # NoHook
         /\ hooks[m].id \notin released
  /\ \A id \in released : \E f \in HookFrames(stack) : f.id = id

\* A mod is being loaded only with nothing under it.
LoadAtBase(s) ==
  \A i \in 1..Len(s) :
    s[i].kind = "mod" /\ s[i].entry = "onLoad" => i = 1

HookInv ==
  Once(stack) /\ OneObjectEach /\ Running /\ Resting /\ LoadAtBase(stack)

LEMMA BasePush ==
  ASSUME NEW s \in Seq(Frames), LoadAtBase(s), NEW f \in Frames,
         f.kind = "mod" /\ f.entry = "onLoad" => s = <<>>
  PROVE  LoadAtBase(Append(s, f))
<1> DEFINE t == Append(s, f)
           n == Len(s)
<1>1. /\ Len(t) = n + 1 /\ t[n + 1] = f /\ n \in Nat
      /\ \A i \in 1..n : t[i] = s[i]
      /\ s = <<>> => n = 0
  BY PushFrame
<1>2. \A i \in 1..n : s[i].kind = "mod" /\ s[i].entry = "onLoad" => i = 1
  BY DEF LoadAtBase
<1> HIDE DEF t, n
<1>3. \A i \in 1..(n + 1) : i = n + 1 \/ i \in 1..n
  BY <1>1
<1> QED
  BY <1>1, <1>2, <1>3 DEF LoadAtBase, t

LEMMA BasePop ==
  ASSUME NEW s \in Seq(Frames), s # <<>>, LoadAtBase(s)
  PROVE  LET b == SubSeq(s, 1, Len(s) - 1)
         IN  /\ LoadAtBase(b)
             /\ Last(s).kind = "mod" /\ Last(s).entry = "onLoad" => b = <<>>
<1> DEFINE b == SubSeq(s, 1, Len(s) - 1)
           n == Len(s)
<1>1. /\ Len(b) = n - 1 /\ n \in Nat /\ n > 0 /\ Last(s) = s[n]
      /\ \A i \in 1..(n - 1) : b[i] = s[i]
      /\ b # <<>> <=> n > 1
  BY PopFrame DEF Last
<1>2. \A i \in 1..n : s[i].kind = "mod" /\ s[i].entry = "onLoad" => i = 1
  BY DEF LoadAtBase
<1> HIDE DEF b, n
<1>3. \A i \in 1..(n - 1) : i \in 1..n
  BY <1>1
<1>4. n \in 1..n
  BY <1>1
<1>5. LoadAtBase(b)
  BY <1>1, <1>2, <1>3 DEF LoadAtBase
<1>6. Last(s).kind = "mod" /\ Last(s).entry = "onLoad" => b = <<>>
  BY <1>1, <1>2, <1>4
<1> QED
  BY <1>5, <1>6 DEF b

LEMMA NoFrames == HookFrames(<<>>) = {} /\ Once(<<>>) /\ LoadAtBase(<<>>)
  BY DEF HookFrames, Once, LoadAtBase

LEMMA FrameFields ==
  ASSUME NEW s
  PROVE  \A f \in HookFrames(s) :
           /\ f \in Frames /\ HasHook(f) /\ f.method \in Method /\ f.id \in Ids
           /\ f.kind = "callback" \/ f.kind = "caught"
           /\ f.kind = "callback" => f.mod \in Mod
  BY FrameKinds DEF HookFrames, HasHook

\* The same frames of ffiHook, and no mod back to where it was before.
LEMMA SameFrames ==
  ASSUME TypeOK, HookInv, Once(stack'), LoadAtBase(stack'),
         HookFrames(stack') = HookFrames(stack),
         UNCHANGED <<hooks, armed, released>>,
         HookFrames(stack) # {} => \A mod \in Mod :
           /\ instance'[mod] = "loading" => instance[mod] = "loading"
           /\ instance[mod] \in {"unloading", "none"}
                => instance'[mod] \in {"unloading", "none"}
  PROVE  HookInv'
<1>1. OneObjectEach' /\ Resting'
  BY DEF HookInv, OneObjectEach, Resting
<1>2. Running'
  <2> SUFFICES ASSUME NEW f \in HookFrames(stack)
               PROVE  /\ hooks[f.method] = NoHook \/ hooks[f.method].id = f.id
                      /\ f.kind = "callback" =>
                           /\ f.active /\ f.id \in released
                           /\ f.method \notin armed
                           /\ instance'[f.mod] # "loading"
                           /\ hooks[f.method] # NoHook
                                => hooks[f.method].mod = f.mod
                      /\ f.kind = "caught" =>
                           /\ f.id \notin released /\ f.method \in armed
                           /\ hooks[f.method] # NoHook =>
                                instance'[hooks[f.method].mod]
                                  \in {"unloading", "none"}
    BY DEF Running
  <2>1. f.method \in Method /\ (f.kind = "callback" => f.mod \in Mod)
    BY FrameFields
  <2>2. hooks[f.method] # NoHook => hooks[f.method].mod \in Mod
    BY <2>1 DEF TypeOK, Hooks
  <2> QED
    BY <2>1, <2>2 DEF HookInv, Running
<1> QED
  BY <1>1, <1>2 DEF HookInv

\* Pushing a frame that is not of ffiHook.
LEMMA PlainPush ==
  ASSUME NEW s \in Seq(Frames), Once(s), LoadAtBase(s),
         NEW f \in Frames, ~HasHook(f),
         f.kind = "mod" /\ f.entry = "onLoad" => s = <<>>
  PROVE  /\ Once(Append(s, f)) /\ LoadAtBase(Append(s, f))
         /\ HookFrames(Append(s, f)) = HookFrames(s)
         /\ Append(s, f) \in Seq(Frames)
<1>1. {g \in {f} : HasHook(g)} = {}
  OBVIOUS
<1>2. HookFrames(Append(s, f)) = HookFrames(s) /\ Once(Append(s, f))
  BY <1>1, HookFramesPush
<1>3. LoadAtBase(Append(s, f))
  BY BasePush
<1>4. Append(s, f) \in Seq(Frames)
  BY PushFrame
<1> QED
  BY <1>2, <1>3, <1>4

\* unhook, or ffiHook for a mod that has no instance.
LEMMA Removes ==
  ASSUME TypeOK, HookInv, NEW m \in Method, hooks[m] # NoHook,
         hooks' = [hooks EXCEPT ![m] = NoHook], UNCHANGED instance,
         NEW s \in Seq(Frames), HookFrames(s) = HookFrames(stack),
         HookFrames(stack') = HookFrames(stack),
         Once(stack'), LoadAtBase(stack'),
         DropHook(m, hooks[m].id, hooks', s, released, armed)
  PROVE  HookInv'
<1> DEFINE F == HookFrames(stack)
           id == hooks[m].id
<1>0. /\ \A f \in F : f.method \in Method /\ f.id \in Ids
      /\ \A f \in F : f.kind = "callback" \/ f.kind = "caught"
  BY FrameFields
<1>1. Held(s) = {f.id : f \in F}
  BY HeldFrames
<1>2. /\ id \in Ids /\ 0 \notin Ids /\ released \subseteq Ids
      /\ hooks'[m] = NoHook /\ NoHook.id = 0
      /\ \A n \in Method : n # m => hooks'[n] = hooks[n]
  BY DEF TypeOK, Hooks, NoHook, Ids
<1>3. id \notin InTable(hooks')
  BY <1>2 DEF InTable, HookInv, OneObjectEach
<1>4. \A f \in F : f.id = id <=> f.method = m
  BY <1>0 DEF HookInv, OneObjectEach, Running
<1>5. OneObjectEach'
  <2>1. HookFrames(stack)' = F
    OBVIOUS
  <2>2. ASSUME NEW f \in F, NEW n \in Method, n # f.method
        PROVE  hooks'[n].id # f.id
    BY <1>0, <1>2, <2>2 DEF HookInv, OneObjectEach
  <2>3. ASSUME NEW k \in Method, NEW n \in Method, hooks'[k] # NoHook, k # n
        PROVE  hooks'[k].id # hooks'[n].id
    <3>1. k # m /\ hooks[k] # NoHook /\ hooks[k].id \in Ids
      BY <1>2, <2>3 DEF TypeOK, Hooks
    <3>2. CASE n = m
      BY <1>2, <3>1, <3>2
    <3>3. CASE n # m
      BY <1>2, <2>3, <3>1, <3>3 DEF HookInv, OneObjectEach
    <3> QED
      BY <3>2, <3>3
  <2> QED
    BY <2>1, <2>2, <2>3 DEF HookInv, OneObjectEach
<1>6. CASE id \in Held(s)
  <2>1. UNCHANGED <<armed, released>>
    BY <1>6 DEF DropHook
  <2>2. Running'
    BY <1>0, <1>2, <2>1 DEF HookInv, Running
  <2>3. \E f \in F : f.method = m
    BY <1>1, <1>4, <1>6
  <2>4. Resting'
    BY <1>2, <2>1, <2>3 DEF HookInv, Resting
  <2> QED
    BY <1>5, <2>2, <2>4 DEF HookInv
<1>7. CASE id \notin Held(s)
  <2>1. \A f \in F : f.method # m /\ f.id # id
    BY <1>1, <1>4, <1>7
  <2>2. id \notin released /\ m \in armed
    BY <2>1 DEF HookInv, Resting
  <2>3. released' = released /\ armed' = armed \ {m}
    BY <1>3, <1>7, <2>2 DEF DropHook
  <2>4. Running'
    BY <1>0, <1>2, <2>1, <2>3 DEF HookInv, Running
  <2>5. Resting'
    BY <1>2, <2>3 DEF HookInv, Resting
  <2> QED
    BY <1>5, <2>4, <2>5 DEF HookInv
<1> QED
  BY <1>6, <1>7

LEMMA RunHooks ==
  ASSUME TypeOK, HookInv, NEW m \in Method, NEW s \in Seq(Frames), Once(s),
         LoadAtBase(s), HookFrames(s) = HookFrames(stack), Run(m, s)
  PROVE  HookInv'
<1> DEFINE F == HookFrames(stack)
<1>0. /\ \A f \in F : f.method \in Method /\ f.id \in Ids
      /\ \A f \in F : f.kind = "callback" \/ f.kind = "caught"
  BY FrameFields
<1>1. CASE RunBody(m, s)
  <2>1. stack' = Append(s, Body(m)) /\ Body(m) \in Frames
        /\ ~HasHook(Body(m)) /\ Body(m).kind # "mod"
        /\ UNCHANGED <<instance, hooks, armed, released>>
    BY <1>1, NewFrames DEF RunBody, Body, HasHook
  <2>2. /\ Once(stack') /\ LoadAtBase(stack')
        /\ HookFrames(stack') = HookFrames(stack)
    BY <2>1, PlainPush
  <2> QED
    BY <2>1, <2>2, SameFrames
<1>2. CASE RunCallback(m, s)
  <2> DEFINE h == hooks[m]
             g == Callback(m, h, TRUE)
  <2>1. /\ m \in armed /\ h # NoHook /\ instance[h.mod] = "loaded"
        /\ UNCHANGED <<instance, hooks>>
    BY <1>2 DEF RunCallback
  <2>2. h \in Hooks
    BY <2>1 DEF TypeOK
  <2>3. \A f \in F : f.method # m
    BY <1>0, <2>1 DEF HookInv, Running
  <2>4. h.id \notin released
    BY <2>3 DEF HookInv, Resting
  <2>5. /\ stack' = Append(s, g) /\ armed' = armed \ {m}
        /\ released' = released \cup {h.id}
    BY <1>2, <2>4 DEF RunCallback
  <2>6. /\ g \in Frames /\ HasHook(g) /\ g.kind = "callback" /\ g.method = m
        /\ g.id = h.id /\ g.mod = h.mod /\ g.active = TRUE
    BY <2>2, NewFrames DEF Callback, HasHook
  <2> HIDE DEF g
  <2>7. /\ HookFrames(stack') = F \cup {g} /\ Once(stack')
        /\ LoadAtBase(stack')
    BY <2>3, <2>5, <2>6, HookFramesPush, BasePush
  <2>8. \A f \in F : f.id # h.id
    BY <2>3 DEF HookInv, OneObjectEach
  <2>9. OneObjectEach'
    <3>1. \A n \in Method : n # m => hooks[n].id # g.id
      BY <2>1, <2>6 DEF HookInv, OneObjectEach
    <3> QED
      BY <2>1, <2>6, <2>7, <2>8, <3>1 DEF HookInv, OneObjectEach
  <2>10. Running'
    <3>1. ASSUME NEW f \in F
          PROVE  /\ f.id \in released' <=> f.id \in released
                 /\ f.method \in armed' <=> f.method \in armed
      BY <2>3, <2>5, <2>8
    <3> QED
      BY <2>1, <2>5, <2>6, <2>7, <3>1 DEF HookInv, Running
  <2>11. Resting'
    <3>1. ASSUME NEW n \in Method, n # m, \A f \in F : f.method # n
          PROVE  (n \in armed' <=> hooks[n] # NoHook) /\ hooks[n].id \notin released'
      <4>1. (n \in armed <=> hooks[n] # NoHook) /\ hooks[n].id \notin released
        BY <3>1 DEF HookInv, Resting
      <4>2. hooks[n].id # h.id
        BY <2>1, <3>1 DEF HookInv, OneObjectEach
      <4> QED
        BY <2>5, <3>1, <4>1, <4>2
    <3> QED
      BY <2>1, <2>5, <2>6, <2>7, <3>1 DEF HookInv, Resting
  <2> QED
    BY <2>7, <2>9, <2>10, <2>11 DEF HookInv
<1>3. CASE RunUnknownHook(m, s)
  BY <1>3, SameFrames DEF RunUnknownHook
<1>4. CASE RunStaleHook(m, s)
  BY <1>4, Removes DEF RunStaleHook
<1> QED
  BY <1>1, <1>2, <1>3, <1>4 DEF Run

LEMMA OneFramePerMethod ==
  ASSUME NEW s, Once(s)
  PROVE  \A f, g \in HookFrames(s) : f.method = g.method => f = g
<1> SUFFICES ASSUME NEW f \in HookFrames(s), NEW g \in HookFrames(s),
                    f.method = g.method
             PROVE  f = g
  OBVIOUS
<1>1. PICK i \in 1..Len(s) : s[i] = f /\ HasHook(f)
  BY DEF HookFrames
<1>2. PICK j \in 1..Len(s) : s[j] = g /\ HasHook(g)
  BY DEF HookFrames
<1> QED
  BY <1>1, <1>2 DEF Once

\* What is known of the frame on top, and of what is under it.
LEMMA TopHook ==
  ASSUME RunInv, HookInv, stack # <<>>
  PROVE  /\ Once(Below) /\ LoadAtBase(Below) /\ Below \in Seq(Frames)
         /\ HookFrames(Below) = HookFrames(stack) \ {Top}
         /\ HasHook(Top) => Top \in HookFrames(stack)
         /\ ~HasHook(Top) => HookFrames(Below) = HookFrames(stack)
         /\ Top.kind = "mod" /\ Top.entry = "onLoad" => Below = <<>>
<1>1. stack \in Seq(Frames) /\ Once(stack) /\ LoadAtBase(stack)
  BY DEF RunInv, TypeOK, HookInv
<1>2. Top = Last(stack) /\ Top \in Frames /\ Below \in Seq(Frames)
  BY TopFrame
<1>3. HookFrames(Below) = HookFrames(stack) \ {Top} /\ Once(Below)
  BY <1>1, <1>2, HookFramesPop DEF Below
<1>4. LoadAtBase(Below)
      /\ (Top.kind = "mod" /\ Top.entry = "onLoad" => Below = <<>>)
  BY <1>1, <1>2, BasePop DEF Below
<1>5. HasHook(Top) => Top \in HookFrames(stack)
  <2>1. Len(stack) \in 1..Len(stack) /\ stack[Len(stack)] = Top
    BY <1>1, <1>2 DEF Last
  <2> QED
    BY <1>2, <2>1 DEF HookFrames
<1>6. ~HasHook(Top) => HookFrames(Below) = HookFrames(stack)
  BY <1>3 DEF HookFrames
<1> QED
  BY <1>2, <1>3, <1>4, <1>5, <1>6

LEMMA HookHooks ==
  ASSUME RunInv, HookInv, ~RehookWithin, NEW m \in Method, Hook(m)
  PROVE  HookInv'
<1> DEFINE F == HookFrames(stack)
<1>0. /\ \A f \in F : f.method \in Method /\ f.id \in Ids
      /\ \A f \in F : f.kind = "callback" \/ f.kind = "caught"
  BY FrameFields
<1>1. PICK id \in Ids :
        /\ id \notin Live
        /\ hooks' = [hooks EXCEPT ![m] = [id |-> id, mod |-> currentMod]]
  BY DEF Hook, Fresh
<1>2. /\ armed' = armed \cup {m} /\ hooks[m] = NoHook /\ ~CallbackOf(m)
      /\ UNCHANGED <<instance, released, stack>>
  BY DEF Hook
<1>3. stack \in Seq(Frames) /\ TypeOK
  BY DEF RunInv, TypeOK
<1>4. \A f \in F : f.method # m
  <2>1. \A f \in F : HasHook(f) /\ \E i \in DOMAIN stack : stack[i] = f
    BY <1>3 DEF HookFrames
  <2> QED
    BY <1>2, <2>1 DEF CallbackOf
<1>5. /\ \A f \in F : f.id # id
      /\ \A n \in Method : hooks[n].id # id
  BY <1>1, <1>3, HeldFrames DEF Live, InTable
<1>6. id \notin released
  BY <1>5 DEF HookInv, Resting
<1>7. /\ hooks'[m].id = id /\ hooks'[m] # NoHook
      /\ \A n \in Method : n # m => hooks'[n] = hooks[n]
  BY <1>1, <1>3 DEF TypeOK, NoHook, Ids
<1>8. OneObjectEach'
  <2>1. ASSUME NEW f \in F, NEW n \in Method, n # f.method
        PROVE  hooks'[n].id # f.id
    BY <1>5, <1>7, <2>1 DEF HookInv, OneObjectEach
  <2>2. ASSUME NEW k \in Method, NEW n \in Method, hooks'[k] # NoHook, k # n
        PROVE  hooks'[k].id # hooks'[n].id
    BY <1>5, <1>7, <2>2 DEF HookInv, OneObjectEach
  <2> QED
    BY <1>2, <2>1, <2>2 DEF HookInv, OneObjectEach
<1>9. Running'
  <2>1. \A f \in F : /\ hooks'[f.method] = hooks[f.method]
                     /\ f.method \in armed' <=> f.method \in armed
    BY <1>0, <1>2, <1>4, <1>7
  <2> QED
    BY <1>2, <2>1 DEF HookInv, Running
<1>10. Resting'
  BY <1>2, <1>6, <1>7 DEF HookInv, Resting
<1> QED
  BY <1>2, <1>8, <1>9, <1>10 DEF HookInv

\* ffiHook is left.
LEMMA ReturnHooks ==
  ASSUME RunInv, HookInv, FfiHookReturns
  PROVE  HookInv'
<1> DEFINE F == HookFrames(stack)
           f == Top
           rel == released \ {f.id}
           arm == armed \cup {f.method}
<1>0. /\ \A g \in F : g.method \in Method /\ g.id \in Ids
      /\ \A g \in F : g.kind = "callback" \/ g.kind = "caught"
  BY FrameFields
<1>1. stack # <<>> /\ HasHook(f) /\ stack' = Below /\ TypeOK
      /\ UNCHANGED <<instance, hooks>>
  BY DEF FfiHookReturns, RunInv
<1>2. /\ f \in F /\ HookFrames(stack') = F \ {f}
      /\ Once(stack') /\ LoadAtBase(stack') /\ Below \in Seq(Frames)
  BY <1>1, TopHook
<1>3. /\ f.kind = "callback" => f.active /\ f.id \in released
      /\ f.kind = "caught" => f.id \notin released /\ f.method \in armed
  BY <1>2 DEF HookInv, Running
<1>4. DropHook(f.method, f.id, hooks, Below, rel, arm)
  <2>1. CASE f.kind = "callback"
    BY <1>3, <2>1 DEF FfiHookReturns, Unreleased, Rearmed
  <2>2. CASE f.kind = "caught"
    <3>1. rel = released /\ arm = armed
      BY <1>3, <2>2
    <3> QED
      BY <2>2, <3>1 DEF FfiHookReturns
  <2> QED
    BY <1>0, <1>2, <2>1, <2>2
<1>5. \A g \in F : g # f => g.id # f.id /\ g.method # f.method
  BY <1>2, OneFramePerMethod DEF HookInv, OneObjectEach
<1>6. f.id \notin Held(Below)
  BY <1>1, <1>2, <1>5, HeldFrames
<1>7. f.id \in InTable(hooks) <=> hooks[f.method] # NoHook
  <2>1. f.method \in Method /\ f.id \in Ids /\ NoHook.id \notin Ids
    BY <1>0, <1>2 DEF NoHook, Ids
  <2>2. \A n \in Method : n # f.method => hooks[n].id # f.id
    BY <1>2 DEF HookInv, OneObjectEach
  <2>3. hooks[f.method] = NoHook \/ hooks[f.method].id = f.id
    BY <1>2 DEF HookInv, Running
  <2> QED
    BY <2>1, <2>2, <2>3 DEF InTable
<1>8. /\ released' = rel
      /\ armed' = IF hooks[f.method] # NoHook THEN arm ELSE arm \ {f.method}
  BY <1>4, <1>6, <1>7 DEF DropHook
<1> HIDE DEF f
<1>9. OneObjectEach'
  BY <1>1, <1>2 DEF HookInv, OneObjectEach
<1>10. Running'
  <2>1. \A g \in F : g # f => /\ g.id \in released' <=> g.id \in released
                              /\ g.method \in armed' <=> g.method \in armed
    BY <1>5, <1>8
  <2> QED
    BY <1>1, <1>2, <2>1 DEF HookInv, Running
<1>11. Resting'
  <2>1. ASSUME NEW m \in Method, \A g \in F \ {f} : g.method # m
        PROVE  (m \in armed' <=> hooks[m] # NoHook) /\ hooks[m].id \notin released'
    <3>1. CASE m = f.method
      <4>1. hooks[m] = NoHook \/ hooks[m].id = f.id
        BY <1>2, <3>1 DEF HookInv, Running
      <4>2. NoHook.id \notin released
        BY <1>1 DEF TypeOK, NoHook, Ids
      <4> QED
        BY <1>8, <3>1, <4>1, <4>2
    <3>2. CASE m # f.method
      <4>1. \A g \in F : g.method # m
        BY <2>1, <3>2
      <4> QED
        BY <1>8, <3>2, <4>1 DEF HookInv, Resting
    <3> QED
      BY <3>1, <3>2
  <2>2. ASSUME NEW id \in released' PROVE \E g \in F \ {f} : g.id = id
    BY <1>8, <2>2 DEF HookInv, Resting
  <2> QED
    BY <1>1, <1>2, <2>1, <2>2 DEF Resting
<1> QED
  BY <1>2, <1>9, <1>10, <1>11 DEF HookInv

\* unload, on top of the frames s.
LEMMA UnloadFrames ==
  ASSUME TypeOK, NEW mod \in Mod, NEW s \in Seq(Frames), Once(s),
         LoadAtBase(s), UnloadOn(mod, s)
  PROVE  /\ Once(stack') /\ LoadAtBase(stack')
         /\ HookFrames(stack') = HookFrames(s)
         /\ instance' = IF instance[mod] = "loaded"
                        THEN [instance EXCEPT ![mod] = "unloading"]
                        ELSE instance
<1>1. CASE instance[mod] = "loaded"
  <2> DEFINE f == Loader(mod, "onUnload")
  <2>1. /\ f \in Frames /\ ~HasHook(f) /\ f.entry # "onLoad"
        /\ stack' = Append(s, f)
    BY <1>1, NewFrames DEF UnloadOn, Enter, Loader, HasHook
  <2> HIDE DEF f
  <2>2. Once(stack') /\ LoadAtBase(stack') /\ HookFrames(stack') = HookFrames(s)
    BY <2>1, PlainPush
  <2> QED
    BY <1>1, <2>2 DEF UnloadOn
<1>2. CASE instance[mod] # "loaded"
  BY <1>2 DEF UnloadOn
<1> QED
  BY <1>1, <1>2

\* A callback calls abort: its method is armed again before the unloading.
LEMMA AbortHooks ==
  ASSUME RunInv, HookInv, AbortInCallback
  PROVE  HookInv'
<1> DEFINE F == HookFrames(stack)
           f == Top
           g == Caught(f.method, f.id)
           s == Append(Below, g)
<1>0. /\ \A e \in F : e.method \in Method /\ e.id \in Ids
      /\ \A e \in F : e.kind = "callback" \/ e.kind = "caught"
      /\ \A e \in F : e.kind = "callback" => e.mod \in Mod
  BY FrameFields
<1>1. /\ stack # <<>> /\ f.kind = "callback" /\ HasHook(f) /\ TypeOK
      /\ currentMod = f.mod /\ f.mod \in Mod
  BY TopFrame DEF AbortInCallback, ModRuns, HasHook, RunInv, IsMod
<1>2. /\ f \in F /\ HookFrames(Below) = F \ {f} /\ Once(Below)
      /\ LoadAtBase(Below) /\ Below \in Seq(Frames)
  BY <1>1, TopHook
<1>3. f.active /\ f.id \in released /\ f.method \notin armed
      /\ instance[f.mod] # "loading"
  BY <1>1, <1>2 DEF HookInv, Running
<1>4. /\ armed' = armed \cup {f.method} /\ released' = released \ {f.id}
      /\ UnloadOn(f.mod, s) /\ UNCHANGED hooks
  BY <1>1, <1>3 DEF AbortInCallback, Rearmed, Unreleased
<1>5. \A e \in F : e # f => e.id # f.id /\ e.method # f.method
  BY <1>2, OneFramePerMethod DEF HookInv, OneObjectEach
<1>6. /\ g \in Frames /\ HasHook(g) /\ g.kind = "caught"
      /\ g.method = f.method /\ g.id = f.id
  BY <1>0, <1>2, NewFrames DEF Caught, HasHook
<1> HIDE DEF f, g
<1>7. /\ HookFrames(s) = (F \ {f}) \cup {g} /\ Once(s) /\ LoadAtBase(s)
      /\ s \in Seq(Frames)
  <2>1. {e \in {g} : HasHook(e)} = {g}
    BY <1>6
  <2>2. HookFrames(s) = (F \ {f}) \cup {g} /\ Once(s)
    BY <1>2, <1>5, <1>6, <2>1, HookFramesPush
  <2>3. LoadAtBase(s)
    BY <1>2, <1>6, BasePush
  <2>4. s \in Seq(Frames)
    BY <1>2, <1>6, PushFrame
  <2> QED
    BY <2>2, <2>3, <2>4
<1> HIDE DEF s
<1>8. /\ HookFrames(stack') = (F \ {f}) \cup {g}
      /\ Once(stack') /\ LoadAtBase(stack')
      /\ instance' = IF instance[f.mod] = "loaded"
                     THEN [instance EXCEPT ![f.mod] = "unloading"]
                     ELSE instance
  BY <1>1, <1>4, <1>7, UnloadFrames
<1>9. /\ instance'[f.mod] \in {"unloading", "none"}
      /\ \A mod \in Mod :
           /\ instance'[mod] = "loading" => instance[mod] = "loading"
           /\ instance[mod] \in {"unloading", "none"}
                => instance'[mod] \in {"unloading", "none"}
  <2>1. instance \in [Mod -> {"none", "loading", "loaded", "unloading"}]
    BY <1>1 DEF TypeOK, Instances
  <2> QED
    BY <1>1, <1>3, <1>8, <2>1
<1>10. OneObjectEach'
  <2>1. ASSUME NEW e \in (F \ {f}) \cup {g}, NEW d \in (F \ {f}) \cup {g},
               e.id = d.id
        PROVE  e = d
    BY <1>5, <1>6, <2>1 DEF HookInv, OneObjectEach
  <2>2. ASSUME NEW e \in (F \ {f}) \cup {g}, NEW m \in Method, m # e.method
        PROVE  hooks[m].id # e.id
    BY <1>2, <1>6, <2>2 DEF HookInv, OneObjectEach
  <2> QED
    BY <1>4, <1>8, <2>1, <2>2 DEF HookInv, OneObjectEach
<1>11. Running'
  <2>1. ASSUME NEW e \in F \ {f}
        PROVE  /\ e.id \in released' <=> e.id \in released
               /\ e.method \in armed' <=> e.method \in armed
               /\ hooks[e.method] # NoHook => hooks[e.method].mod \in Mod
    BY <1>0, <1>1, <1>4, <1>5 DEF TypeOK, Hooks
  <2>2. ASSUME NEW e \in F \ {f}
        PROVE  /\ hooks[e.method] = NoHook \/ hooks[e.method].id = e.id
               /\ e.kind = "callback" =>
                    /\ e.active /\ e.id \in released' /\ e.method \notin armed'
                    /\ instance'[e.mod] # "loading"
                    /\ hooks[e.method] # NoHook => hooks[e.method].mod = e.mod
               /\ e.kind = "caught" =>
                    /\ e.id \notin released' /\ e.method \in armed'
                    /\ hooks[e.method] # NoHook =>
                         instance'[hooks[e.method].mod] \in {"unloading", "none"}
    BY <1>0, <1>9, <2>1 DEF HookInv, Running
  <2>3. /\ hooks[g.method] = NoHook \/ hooks[g.method].id = g.id
        /\ g.id \notin released' /\ g.method \in armed'
        /\ hooks[g.method] # NoHook =>
             instance'[hooks[g.method].mod] \in {"unloading", "none"}
    BY <1>1, <1>2, <1>4, <1>6, <1>9 DEF HookInv, Running
  <2> QED
    BY <1>4, <1>6, <1>8, <2>2, <2>3 DEF Running
<1>12. Resting'
  <2>1. ASSUME NEW m \in Method,
               \A e \in (F \ {f}) \cup {g} : e.method # m
        PROVE  (m \in armed' <=> hooks[m] # NoHook) /\ hooks[m].id \notin released'
    <3>1. m # f.method /\ \A e \in F : e.method # m
      BY <1>6, <2>1
    <3> QED
      BY <1>4, <3>1 DEF HookInv, Resting
  <2>2. ASSUME NEW id \in released'
        PROVE  \E e \in (F \ {f}) \cup {g} : e.id = id
    BY <1>4, <2>2 DEF HookInv, Resting
  <2> QED
    BY <1>4, <1>8, <2>1, <2>2 DEF Resting
<1> QED
  BY <1>8, <1>10, <1>11, <1>12 DEF HookInv

LEMMA HookInvStep ==
  ASSUME RunInv, HookInv, ~RehookWithin, [Next]_vars
  PROVE  HookInv'
<1>0. TypeOK /\ stack \in Seq(Frames) /\ Once(stack) /\ LoadAtBase(stack)
  BY DEF RunInv, TypeOK, HookInv
<1>1. ASSUME NEW m \in Method, GameCalls(m) PROVE HookInv'
  BY <1>0, <1>1, RunHooks DEF GameCalls
<1>2. ASSUME NEW m \in Method, Call2(m) PROVE HookInv'
  <2> DEFINE f == CallFrame(currentMod)
  <2>1. stack # <<>> /\ IsMod(Top) /\ Run(m, Append(stack, f))
    BY <1>2 DEF Call2, ModRuns
  <2>2. f \in Frames /\ f.kind = "call" /\ ~HasHook(f)
    BY <2>1, TopFrame, NewFrames DEF CallFrame, HasHook
  <2> HIDE DEF f
  <2>3. /\ Once(Append(stack, f)) /\ LoadAtBase(Append(stack, f))
        /\ HookFrames(Append(stack, f)) = HookFrames(stack)
        /\ Append(stack, f) \in Seq(Frames)
    BY <1>0, <2>2, PlainPush
  <2> QED
    BY <1>0, <2>1, <2>3, RunHooks
<1>3. ASSUME NEW m \in Method, Hook(m) PROVE HookInv'
  BY <1>3, HookHooks
<1>4. ASSUME NEW m \in Method, Unhook(m) PROVE HookInv'
  BY <1>0, <1>4, Removes DEF Unhook
<1>5. ASSUME NEW mod \in Mod, Load(mod) PROVE HookInv'
  <2> DEFINE f == Loader(mod, "onLoad")
  <2>1. /\ stack = <<>> /\ stack' = Append(<<>>, f)
        /\ UNCHANGED <<hooks, armed, released>>
    BY <1>5 DEF Load, Enter
  <2>2. f \in Frames /\ ~HasHook(f)
    BY NewFrames DEF Loader, HasHook
  <2> HIDE DEF f
  <2>3. HookFrames(stack') = {} /\ HookFrames(stack) = {}
        /\ Once(stack') /\ LoadAtBase(stack')
    BY <1>0, <2>1, <2>2, NoFrames, PlainPush
  <2> QED
    BY <1>0, <2>1, <2>3, SameFrames
<1>6. ASSUME NEW mod \in Mod, Unload(mod) PROVE HookInv'
  <2>1. /\ stack = <<>> /\ UnloadOn(mod, stack)
        /\ UNCHANGED <<hooks, armed, released>>
    BY <1>6 DEF Unload
  <2>2. HookFrames(stack') = {} /\ HookFrames(stack) = {}
        /\ Once(stack') /\ LoadAtBase(stack')
    BY <1>0, <2>1, NoFrames, UnloadFrames
  <2> QED
    BY <1>0, <2>1, <2>2, SameFrames
<1>7. ASSUME NEW mod \in Mod, UiUpdate(mod) PROVE HookInv'
  <2> DEFINE f == Loader(mod, "onUiUpdate")
  <2>1. /\ stack = <<>> /\ stack' = Append(<<>>, f)
        /\ UNCHANGED <<hooks, armed, released>>
    BY <1>7 DEF UiUpdate, Enter
  <2>2. f \in Frames /\ ~HasHook(f)
    BY NewFrames DEF Loader, HasHook
  <2> HIDE DEF f
  <2>3. HookFrames(stack') = {} /\ HookFrames(stack) = {}
        /\ Once(stack') /\ LoadAtBase(stack')
    BY <1>0, <2>1, <2>2, NoFrames, PlainPush
  <2> QED
    BY <1>0, <2>1, <2>3, SameFrames
<1>8. CASE BodyReturns
  <2>1. /\ Once(Below) /\ LoadAtBase(Below)
        /\ HookFrames(Below) = HookFrames(stack)
    BY <1>8, TopHook DEF BodyReturns, HasHook
  <2> QED
    BY <1>0, <1>8, <2>1, SameFrames DEF BodyReturns
<1>9. CASE Call2Returns
  <2>1. /\ Once(Below) /\ LoadAtBase(Below)
        /\ HookFrames(Below) = HookFrames(stack)
    BY <1>9, TopHook DEF Call2Returns, HasHook
  <2> QED
    BY <1>0, <1>9, <2>1, SameFrames DEF Call2Returns
<1>10. CASE FfiHookReturns
  BY <1>10, ReturnHooks
<1>11. CASE LoaderReturns
  <2>1. /\ stack # <<>> /\ Top.kind = "mod" /\ stack' = Below
        /\ UNCHANGED <<hooks, armed, released>>
    BY <1>11 DEF LoaderReturns, ModRuns
  <2>2. /\ Once(Below) /\ LoadAtBase(Below)
        /\ HookFrames(Below) = HookFrames(stack)
        /\ Top.entry = "onLoad" => HookFrames(Below) = {}
    BY <2>1, TopHook, NoFrames DEF HasHook
  <2>3. Top.entry # "onLoad" => \A mod \in Mod :
          /\ instance'[mod] = "loading" => instance[mod] = "loading"
          /\ instance[mod] \in {"unloading", "none"}
               => instance'[mod] \in {"unloading", "none"}
    BY <1>0, <1>11 DEF LoaderReturns, TypeOK
  <2> QED
    BY <1>0, <2>1, <2>2, <2>3, SameFrames
<1>12. CASE AbortInCallback
  BY <1>12, AbortHooks
<1>13. CASE AbortInUiUpdate
  <2>1. /\ stack # <<>> /\ Top.kind = "mod" /\ UnloadOn(currentMod, Below)
        /\ UNCHANGED <<hooks, armed, released>>
    BY <1>13 DEF AbortInUiUpdate, ModRuns
  <2>2. /\ Once(Below) /\ LoadAtBase(Below) /\ Below \in Seq(Frames)
        /\ HookFrames(Below) = HookFrames(stack)
    BY <2>1, TopHook DEF HasHook
  <2>3. currentMod \in Mod
    BY <2>1, TopFrame DEF IsMod
  <2>4. /\ Once(stack') /\ LoadAtBase(stack')
        /\ HookFrames(stack') = HookFrames(stack)
        /\ instance' = IF instance[currentMod] = "loaded"
                       THEN [instance EXCEPT ![currentMod] = "unloading"]
                       ELSE instance
    BY <1>0, <2>1, <2>2, <2>3, UnloadFrames
  <2>5. \A mod \in Mod :
          /\ instance'[mod] = "loading" => instance[mod] = "loading"
          /\ instance[mod] \in {"unloading", "none"}
               => instance'[mod] \in {"unloading", "none"}
    BY <1>0, <2>3, <2>4 DEF TypeOK
  <2> QED
    BY <1>0, <2>1, <2>4, <2>5, SameFrames
<1>14. CASE AbortInLoad
  <2>1. /\ stack # <<>> /\ Top.kind = "mod" /\ Top.entry = "onLoad"
        /\ stack' = Below /\ UNCHANGED <<hooks, armed, released>>
    BY <1>14 DEF AbortInLoad, ModRuns
  <2>2. /\ Once(Below) /\ LoadAtBase(Below)
        /\ HookFrames(Below) = HookFrames(stack) /\ HookFrames(Below) = {}
    BY <2>1, TopHook, NoFrames DEF HasHook
  <2> QED
    BY <1>0, <2>1, <2>2, SameFrames
<1>15. CASE UNCHANGED vars
  BY <1>0, <1>15, SameFrames DEF vars
<1> QED
  BY <1>1, <1>2, <1>3, <1>4, <1>5, <1>6, <1>7, <1>8, <1>9, <1>10, <1>11,
     <1>12, <1>13, <1>14, <1>15 DEF Next, Crashed

LEMMA HookInvInit == Init => HookInv
<1> SUFFICES ASSUME Init PROVE HookInv
  OBVIOUS
<1>1. /\ stack = <<>> /\ armed = {} /\ released = {}
      /\ \A m \in Method : hooks[m] = NoHook
  BY DEF Init
<1>2. HookFrames(stack) = {} /\ Once(stack) /\ LoadAtBase(stack)
  BY <1>1, NoFrames
<1> QED
  BY <1>1, <1>2 DEF HookInv, OneObjectEach, Running, Resting

-----------------------------------------------------------------------------
(* The theorems.                                                           *)

\* Every variable of the hooks and of the stack keeps its type.
THEOREM TypeCorrect == Spec => []TypeOK
<1>1. RunInv => TypeOK
  BY DEF RunInv
<1> QED
  BY <1>1, RunInvHolds, PTL

\* However callbacks, calls, aborts and unloads nest, currentMod is the mod
\* whose code runs (ffi_loader.cpp, the backups of call2).
THEOREM ModThatRuns == Spec => []CurrentModRuns
<1>1. RunInv => CurrentModRuns
  BY TopFrame DEF CurrentModRuns, ModRuns
<1> QED
  BY <1>1, RunInvHolds, PTL

\* The inductive invariant of the hooks, for mods that keep to the rule that
\* hook is not called in a hook of the same method.
THEOREM HookInvHolds == ASSUME ~RehookWithin PROVE Spec => []HookInv
<1>1. RunInv /\ RunInv' /\ HookInv /\ [Next]_vars => HookInv'
  BY HookInvStep
<1> QED
  BY <1>1, HookInvInit, RunInvHolds, PTL DEF Spec

\* No jump is lost or left behind in the code of the game (GameHookRelease,
\* ~GameHook, unhook): with no mod running, the methods that jump to ffiHook
\* are those in the table.
THEOREM NoHookLost == ASSUME ~RehookWithin PROVE Spec => []ArmedIffHooked
<1>1. RunInv /\ HookInv => ArmedIffHooked
  <2> SUFFICES ASSUME RunInv, HookInv, stack = <<>>
               PROVE  armed = Hooked /\ released = {}
    BY DEF ArmedIffHooked
  <2>1. HookFrames(stack) = {}
    BY NoFrames
  <2>2. released = {} /\ \A m \in Method : m \in armed <=> hooks[m] # NoHook
    BY <2>1 DEF HookInv, Resting
  <2>3. armed \subseteq Method
    BY DEF RunInv, TypeOK
  <2> QED
    BY <2>2, <2>3 DEF Hooked
<1> QED
  BY <1>1, HookInvHolds, RunInvHolds, PTL

\* The original that a callback calls never enters that callback again.
THEOREM NeverReentered == ASSUME ~RehookWithin PROVE Spec => []NoReentry
<1>1. RunInv /\ HookInv => NoReentry
  <2> SUFFICES ASSUME RunInv, HookInv,
                      NEW i \in DOMAIN stack, NEW j \in DOMAIN stack, i # j,
                      stack[i].kind = "callback", stack[j].kind = "callback"
               PROVE  stack[i].method # stack[j].method
    BY DEF NoReentry
  <2>1. DOMAIN stack = 1..Len(stack)
    BY DEF RunInv, TypeOK
  <2> QED
    BY <2>1 DEF HookInv, Once, HasHook
<1> QED
  BY <1>1, HookInvHolds, RunInvHolds, PTL

=============================================================================
