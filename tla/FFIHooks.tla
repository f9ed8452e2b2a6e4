------------------------------ MODULE FFIHooks ------------------------------
(***************************************************************************)
(* Hooks and calls of FFI mods (ffi_interface.cpp, ffi_loader.cpp,         *)
(* game_hook.cpp, mods/base.hpp).                                          *)
(*                                                                         *)
(* A hook replaces the first bytes of a game method by a jump to ffiHook,  *)
(* which puts the method's own bytes back while the mod's callback runs.   *)
(* The callback may call methods, hooked ones too, so mods run inside each *)
(* other.  What they share is global: the mod that runs (currentMod), the  *)
(* method whose hook runs (currentHookMethod), the table of hooks, and the *)
(* code of the methods.                                                    *)
(*                                                                         *)
(* Everything runs on the game's main thread.  The stack holds what is     *)
(* running, innermost last: mods called by the loader, callbacks, bodies   *)
(* of game methods, and calls a mod waits for.                             *)
(***************************************************************************)
EXTENDS Naturals, Sequences

CONSTANTS
  Method,         \* methods of the game
  Mod,            \* FFI mods
  None,           \* no mod, no method
  MaxDepth,       \* bound: frames on the stack
  MaxObjects,     \* bound: GameHook objects at a time
  RehookWithin    \* mods may unhook a method and hook it again while its
                  \* callback runs

ASSUME DepthAssumption == MaxDepth \in Nat /\ MaxObjects \in Nat
ASSUME RehookAssumption == RehookWithin \in BOOLEAN
ASSUME NoneAssumption == None \notin Mod /\ None \notin Method

VARIABLES
  instance,            \* of each mod: "none", "loading", "loaded", "unloading"
  currentMod, currentHookMethod,
  hooks,               \* for each method, its hook
  armed,               \* methods whose code is the jump to ffiHook
  released,            \* GameHook objects with released set
  stack

vars == <<instance, currentMod, currentHookMethod, hooks, armed, released,
          stack>>

Ids == 1..MaxObjects

\* Object 0 is no object: the method has no hook.
NoHook == [id |-> 0, mod |-> None]

\* The frames.  "mod": simpleCall(entry) by the loader.  "callback": ffiHook,
\* with its shared_ptr to the object and GameHookRelease::active.  "caught":
\* ffiHook after the callback called abort.  "body": the method's own code.
\* "call": call2, with currentModBackup.
Loader(mod, entry) == [kind |-> "mod", mod |-> mod, entry |-> entry]
Callback(m, h, active) ==
  [kind |-> "callback", mod |-> h.mod, method |-> m, id |-> h.id,
   active |-> active]
Caught(m, id) == [kind |-> "caught", method |-> m, id |-> id]
Body(m) == [kind |-> "body", method |-> m]
CallFrame(mod) == [kind |-> "call", backup |-> mod]

IsMod(f) == f.kind \in {"mod", "callback"}
HasHook(f) == f.kind \in {"callback", "caught"}

Init ==
  /\ instance = [mod \in Mod |-> "none"]
  /\ currentMod = None /\ currentHookMethod = None
  /\ hooks = [m \in Method |-> NoHook]
  /\ armed = {} /\ released = {} /\ stack = <<>>

Top == stack[Len(stack)]
Below == SubSeq(stack, 1, Len(stack) - 1)

\* A mod's code runs, and its instance was not destroyed under it.
ModRuns == stack # <<>> /\ IsMod(Top) /\ instance[Top.mod] # "none"
GameRuns == stack # <<>> => Top.kind = "body"

Held(s) == {s[i].id : i \in {j \in DOMAIN s : HasHook(s[j])}}
InTable(hs) == {hs[m].id : m \in Method}
Live == Held(stack) \cup InTable(hooks)
Fresh(id) == id \notin Live /\ \A i \in Ids : i < id => i \in Live

-----------------------------------------------------------------------------
(* ~GameHook, when the last shared_ptr to object id of method m goes: the   *)
(* table hs and the frames s are all that may hold another.  rel and arm    *)
(* are the flags and the code before.                                      *)

DropHook(m, id, hs, s, rel, arm) ==
  IF id \in InTable(hs) \cup Held(s)
  THEN released' = rel /\ armed' = arm
  ELSE released' = rel \ {id} /\ armed' = IF id \in rel THEN arm ELSE arm \ {m}

-----------------------------------------------------------------------------
(* Calling a method, on top of the frames s.                               *)

\* The method's own code.
RunBody(m, s) ==
  /\ m \notin armed
  /\ stack' = Append(s, Body(m))
  /\ UNCHANGED <<instance, currentMod, currentHookMethod, hooks, armed,
                 released>>

\* Faulty: the method's bytes are not put back.
NeverReleased(m, s) ==
  /\ m \in armed /\ hooks[m] # NoHook /\ instance[hooks[m].mod] = "loaded"
  /\ currentHookMethod' = m /\ currentMod' = hooks[m].mod
  /\ stack' = Append(s, Callback(m, hooks[m], FALSE))
  /\ UNCHANGED <<instance, hooks, armed, released>>

\* ffiHook: GameHookRelease, then the callback of the mod.
RunCallback(m, s) ==
  LET h == hooks[m]
      active == h.id \notin released
  IN  /\ m \in armed /\ h # NoHook /\ instance[h.mod] = "loaded"
      /\ currentHookMethod' = m /\ currentMod' = h.mod
      /\ armed' = IF active THEN armed \ {m} ELSE armed
      /\ released' = IF active THEN released \cup {h.id} ELSE released
      /\ stack' = Append(s, Callback(m, h, active))
      /\ UNCHANGED <<instance, hooks>>

\* ffiHook: no such hook.  The caller gets null and the method does not run.
RunUnknownHook(m, s) ==
  /\ m \in armed /\ hooks[m] = NoHook
  /\ currentHookMethod' = m /\ stack' = s
  /\ UNCHANGED <<instance, currentMod, hooks, armed, released>>

\* ffiHook: the mod has no instance, the hook goes.  The caller gets null.
RunStaleHook(m, s) ==
  LET h == hooks[m]
  IN  /\ m \in armed /\ h # NoHook /\ instance[h.mod] # "loaded"
      /\ currentHookMethod' = m /\ stack' = s
      /\ hooks' = [hooks EXCEPT ![m] = NoHook]
      /\ DropHook(m, h.id, hooks', s, released, armed)
      /\ UNCHANGED <<instance, currentMod>>

Run(m, s) ==
  /\ Len(s) < MaxDepth
  /\ \/ RunBody(m, s) \/ RunCallback(m, s)
     \/ RunUnknownHook(m, s) \/ RunStaleHook(m, s)

\* The game calls a method, from its main loop or from another method.
GameCalls(m) == GameRuns /\ Run(m, stack)

\* ... which returns or throws.
BodyReturns ==
  /\ stack # <<>> /\ Top.kind = "body"
  /\ stack' = Below
  /\ UNCHANGED <<instance, currentMod, currentHookMethod, hooks, armed,
                 released>>

-----------------------------------------------------------------------------
(* What a mod does.                                                        *)

\* call2 with the right number of arguments.
Call2(m) == ModRuns /\ Run(m, Append(stack, CallFrame(currentMod)))

\* Faulty: currentMod is not restored.
ForgetBackup ==
  /\ stack # <<>> /\ Top.kind = "call"
  /\ stack' = Below
  /\ UNCHANGED <<instance, currentMod, currentHookMethod, hooks, armed,
                 released>>

\* ... when the method has returned or thrown.
Call2Returns ==
  /\ stack # <<>> /\ Top.kind = "call"
  /\ stack' = Below /\ currentMod' = Top.backup
  /\ UNCHANGED <<instance, currentHookMethod, hooks, armed, released>>

CallbackOf(m) == \E i \in DOMAIN stack : HasHook(stack[i]) /\ stack[i].method = m

\* hook, for a method that is not armed.  One that has an entry already, because
\* its callback runs, keeps it, and the new object is destroyed at once.
Hook(m) ==
  /\ ModRuns /\ m \notin armed /\ hooks[m] = NoHook
  /\ ~RehookWithin => ~CallbackOf(m)
  /\ \E id \in Ids :
       /\ Fresh(id)
       /\ hooks' = [hooks EXCEPT ![m] = [id |-> id, mod |-> currentMod]]
  /\ armed' = armed \cup {m}
  /\ UNCHANGED <<instance, currentMod, currentHookMethod, released, stack>>

\* unhook, by any mod.
Unhook(m) ==
  /\ ModRuns /\ hooks[m] # NoHook
  /\ hooks' = [hooks EXCEPT ![m] = NoHook]
  /\ DropHook(m, hooks[m].id, hooks', stack, released, armed)
  /\ UNCHANGED <<instance, currentMod, currentHookMethod, stack>>

\* The end of a callback frame: ~GameHookRelease, ...
Rearmed(f) == IF f.active THEN armed \cup {f.method} ELSE armed
Unreleased(f) == IF f.active THEN released \ {f.id} ELSE released

\* Faulty: the method is armed again although the hook was taken away.
ArmsAgain ==
  /\ stack # <<>> /\ HasHook(Top)
  /\ stack' = Below
  /\ armed' = IF Top.kind = "callback" THEN Rearmed(Top) ELSE armed
  /\ released' = IF Top.kind = "callback" THEN Unreleased(Top) ELSE released
  /\ UNCHANGED <<instance, currentMod, currentHookMethod, hooks>>

\* ... then the local shared_ptr goes.  Of a callback that has returned or
\* thrown, or of one whose mod was unloaded after an abort.
FfiHookReturns ==
  /\ stack # <<>> /\ HasHook(Top)
  /\ stack' = Below
  /\ IF Top.kind = "callback"
     THEN DropHook(Top.method, Top.id, hooks, Below, Unreleased(Top), Rearmed(Top))
     ELSE DropHook(Top.method, Top.id, hooks, Below, released, armed)
  /\ UNCHANGED <<instance, currentMod, currentHookMethod, hooks>>

-----------------------------------------------------------------------------
(* Loading, unloading and the loader's calls.                              *)

\* Faulty: simpleCall does not set currentMod.
EnterUnnoticed(mod, entry, s) ==
  stack' = Append(s, Loader(mod, entry)) /\ UNCHANGED currentMod

Enter(mod, entry, s) ==
  /\ stack' = Append(s, Loader(mod, entry)) /\ currentMod' = mod

\* ModInfo::load: the instance is assigned when onLoad has returned.
Load(mod) ==
  /\ stack = <<>> /\ instance[mod] = "none"
  /\ instance' = [instance EXCEPT ![mod] = "loading"]
  /\ Enter(mod, "onLoad", stack)
  /\ UNCHANGED <<currentHookMethod, hooks, armed, released>>

\* ModInfo::unload: instance is null before ~FFIMod calls onUnload.
UnloadOn(mod, s) ==
  IF instance[mod] = "loaded"
  THEN /\ instance' = [instance EXCEPT ![mod] = "unloading"]
       /\ Enter(mod, "onUnload", s)
  ELSE stack' = s /\ UNCHANGED <<instance, currentMod>>

Unload(mod) ==
  /\ stack = <<>> /\ instance[mod] = "loaded"
  /\ UnloadOn(mod, stack)
  /\ UNCHANGED <<currentHookMethod, hooks, armed, released>>

UiUpdate(mod) ==
  /\ stack = <<>> /\ instance[mod] = "loaded"
  /\ Enter(mod, "onUiUpdate", stack)
  /\ UNCHANGED <<instance, currentHookMethod, hooks, armed, released>>

\* What becomes of the mod when its entry returns or, for onLoad, throws.
LoaderReturns ==
  /\ ModRuns /\ Top.kind = "mod"
  /\ stack' = Below
  /\ \E next \in CASE Top.entry = "onLoad" -> {"loaded", "none"}
                   [] Top.entry = "onUnload" -> {"none"}
                   [] OTHER -> {instance[Top.mod]} :
       instance' = [instance EXCEPT ![Top.mod] = next]
  /\ UNCHANGED <<currentMod, currentHookMethod, hooks, armed, released>>

\* abort throws ModPanic for currentMod.  The nearest handler is ffiHook's or
\* the main loop's; the exception's destructor unloads the mod there.  An abort
\* in onUnload ends the process: a destructor throws.
AbortInCallback ==
  /\ ModRuns /\ Top.kind = "callback"
  /\ armed' = Rearmed(Top) /\ released' = Unreleased(Top)
  /\ UnloadOn(currentMod, Append(Below, Caught(Top.method, Top.id)))
  /\ UNCHANGED <<currentHookMethod, hooks>>

AbortInUiUpdate ==
  /\ ModRuns /\ Top.kind = "mod" /\ Top.entry = "onUiUpdate"
  /\ UnloadOn(currentMod, Below)
  /\ UNCHANGED <<currentHookMethod, hooks, armed, released>>

\* Nothing was assigned yet: ModInfo::unload finds no instance.
AbortInLoad ==
  /\ ModRuns /\ Top.kind = "mod" /\ Top.entry = "onLoad"
  /\ instance' = [instance EXCEPT ![Top.mod] = "none"] /\ stack' = Below
  /\ UNCHANGED <<currentMod, currentHookMethod, hooks, armed, released>>

\* Control is back in a mod that was destroyed: the behaviour is undefined.
Crashed ==
  /\ stack # <<>> /\ IsMod(Top) /\ instance[Top.mod] = "none"
  /\ UNCHANGED vars

Next ==
  \/ \E m \in Method : GameCalls(m) \/ Call2(m) \/ Hook(m) \/ Unhook(m)
  \/ \E mod \in Mod : Load(mod) \/ Unload(mod) \/ UiUpdate(mod)
  \/ BodyReturns \/ Call2Returns \/ FfiHookReturns \/ LoaderReturns
  \/ AbortInCallback \/ AbortInUiUpdate \/ AbortInLoad
  \/ Crashed

Spec == Init /\ [][Next]_vars

-----------------------------------------------------------------------------
(* Properties.                                                             *)

Hooked == {m \in Method : hooks[m] # NoHook}

Instances == {"none", "loading", "loaded", "unloading"}
Hooks == [id : Ids, mod : Mod]
Frames ==
       [kind : {"mod"}, mod : Mod, entry : {"onLoad", "onUnload", "onUiUpdate"}]
  \cup [kind : {"callback"}, mod : Mod, method : Method, id : Ids,
        active : BOOLEAN]
  \cup [kind : {"caught"}, method : Method, id : Ids]
  \cup [kind : {"body"}, method : Method]
  \cup [kind : {"call"}, backup : Mod]

\* Types; a mod that waits for a call, or has set a hook, is known.
TypeOK ==
  /\ instance \in [Mod -> Instances]
  /\ currentMod \in Mod \cup {None}
  /\ currentHookMethod \in Method \cup {None}
  /\ hooks \in [Method -> Hooks \cup {NoHook}]
  /\ armed \subseteq Method /\ released \subseteq Ids
  /\ stack \in Seq(Frames)

\* However callbacks, calls, panics and unloads nest, currentMod is the mod
\* whose code runs: hooks, log lines and aborts are put down to the right mod.
CurrentModRuns == ModRuns => currentMod = Top.mod

\* When nothing of a mod runs, the jumps in the game's code are exactly those
\* of the table: no hook is lost or left behind by nested releases, by
\* unhooking from a callback or by unloading.
ArmedIffHooked == stack = <<>> => armed = Hooked /\ released = {}

\* The original that a callback calls does not call the callback again.
NoReentry ==
  \A i, j \in DOMAIN stack :
    i # j /\ stack[i].kind = "callback" /\ stack[j].kind = "callback"
      => stack[i].method # stack[j].method

\* "Gets original method.": inside a callback, getOriginal is the hooked method.
OriginalIsMine ==
  ModRuns /\ Top.kind = "callback" => currentHookMethod = Top.method
=============================================================================
