# UltimatePhobia in TLA+

UltimatePhobia is a mod loader for Phasmophobia: a DLL inside the game with
built-in mods (C++) and external ones (FFI mods: shared objects, WASM, or
processes behind a socket), a Steam Audio mod, and a small Python server that
lets players find each other without Photon's cloud. This directory holds its
TLA+ modules, the TLC configurations, proofs checked by TLAPS, and
`PROJECT.json`, which ties every definition to the source lines it stands for.

Contents: 1 the system · 2 the modules and how they correspond to the code ·
3 the runs · 4 fairness · 5 the proofs · 6 findings · 7 other observations ·
8 what is not modelled · 9 plan · 10 how to run it.


## 1. The system

Almost everything runs on the game's main thread: the loader's `uiUpdate` over
all mods, and every hook on a method of the game. Concurrency enters at a few
places, and those come first.

| Component | State | Operations | Interacts through | Hard about it |
| --- | --- | --- | --- | --- |
| P2P service, joining side (`mods/photon_settings.cpp`) | `GameServerProxy`'s endpoints and flags (some under `state_mutex`, four atomics), `pending_join_handler` | `startP2P`, `stopP2P`, the JoinGame hookpoint, `run_once`, `flushPendingJoinResponse` | three threads; datagrams with the remote host, the local game and a STUN server; HTTP to the signaling server | values copied under the lock and used after it, flags read without it, lost and late datagrams, a join that supersedes another |
| P2P service, hosting side (same file) | `current_game_id`, `server_stun_binding_ep`, the manager's scheduled tasks | CreateGame hookpoint, `on_stun_bind`, `startPollingServer`: a hello to each client every 12 seconds | the signaling server, datagrams; tasks of the server manager thread | a room registered before the binding or before a restart, chains of polling tasks that end or multiply, calls given up that still take effect, loss |
| Signaling server (`signaling.py`) | `rooms` under `rooms_lock` | register, join, poll, clean-up of expired rooms | one thread per HTTP request | a handler takes the lock more than once and reads the clock outside it; callers ask again |
| WhisperVoice, worker (`mods/whisper_voice.cpp`) | two bounded queues, `stopWorker`, the whisper context | submit, recognise, fire, unload | main and worker thread, condition variable | lost wake-ups, backlog, unloading while the recogniser runs |
| WhisperVoice, microphone (same file) | the AudioClip's ring, VAD buffers and counters | poll, frame, utterance begin and end, Microphone.Start and End hooks | Unity records concurrently | ring arithmetic, laps, two captures in a row |
| WhisperVoice, recognizers | recognizers, delegates, phrases | register, remove, match, fire | callbacks into the game | a callback that changes what is iterated over |
| FFI hooks and calls (`ffi_interface.cpp`, `ffi_loader.cpp`, `game_hook.cpp`, `mods/base.hpp`) | table of hooks, code bytes, `currentMod`, `currentHookMethod`, mod instances | hook, unhook, `ffiHook`, `call2`, abort, load, unload | mods run inside each other through hooks and calls | nesting: release of the original bytes, unhooking or unloading from within, panics |
| FFI handles (`ffi_interface.cpp`, `ffi_interface.hpp`) | one table per kind of object: `last_id`, a map from numbers to objects; wrappers in the mods | `add`, `get`, `drop`; `UniqueHandle`, `HandleContainer` | all mods share the tables | numbers are used again, so one drop too many hits another mod's object |
| FFI arguments | a global argument list | `getValue`, `moveArg`, `call3`... | as above | a hook in the middle of preparing a call |
| Socket mods (`sock_ffi.cpp`, `SockFFIClient`) | two byte streams, a call stack on each side | `simpleCall`, `doRpcCall`, `waitForCommand` | two processes | calls nested in both directions over one stream |
| Steam Audio mod (`SteamAudioImpl`) | `playbackQueue` under `playbackMutex`, the environment | AudioSource hooks, `uiUpdate`, `dataCallback`, load, unload | main and audio thread | check and addition in two critical sections, unsigned delays, removal one at a time |
| Application, DirectX hook, Slugger, ImGui window | list of drawing mods, draw queues | start-up, Present, register | main and render thread | `s_mods` is not synchronised |
| Game console, explorer, cheats, fixes, settings, save file, tracer, player manager, anti-mod | UI state | commands and toggles | main thread | mostly sequential; tab completion that ends late |
| Loaders (wasm, dll, elf), WASMAOT, il2cpp bridge, start-up, generated and vendored code | none after start-up | file and memory I/O | – | – |

What makes each correct, in a sentence:

* joining side: no handler is answered more often than it asked, the host's
  first datagram is never lost between the threads, flags read without the lock
  agree with the fields behind it, and a join whose host can reach us is
  answered;
* hosting side: it opens its NAT only towards players who asked for its room,
  keeps one chain of polling per STUN binding, and a host that a player counts
  as heard has both NATs open; a player listed in the hosted room is reached;
* signaling: every call is atomic for its caller, a room does not vanish early,
  a client is listed once;
* WhisperVoice: phrases reach the game in the order of speech, the newest words
  survive a backlog, no samples are lost, repeated or taken from another
  capture, unloading returns and frees nothing in use;
* FFI hooks: the mod that runs is known, the jumps in the game's code are those
  of the table, the original does not call the hook again;
* FFI handles: an object in the table has exactly one who answers for it, and its
  number is given to nobody else meanwhile;
* socket mods: both sides read what the other wrote, for what it is, and together
  they are one stack of calls;
* Steam Audio: a source sounds once, Stop silences it, loops go on, and what is
  played is heard to its end and only then removed.


## 2. The modules

| Module | Models | Extended by / composed with |
| --- | --- | --- |
| `P2PJoin` | joining side of the P2P service | `MCP2PJoin`, `P2PJoinProofs` |
| `P2PHost` | hosting side of the P2P service, with the players who join as a host sees them | instantiates `RoomDirectory`; `MCP2PHost`, `P2PHostProofs` |
| `RoomDirectory` | what the signaling server promises (abstract) | instantiated by `Signaling` (which implements it) and `P2PHost` (which uses it) |
| `Signaling` | `signaling.py` and the calls of `SignalingClient` | `MCSignaling`, `SignalingProofs` |
| `VoiceWorker` | WhisperVoice's two threads and queues | `MCVoiceWorker`, `WhisperVoiceProofs` |
| `VoiceCapture` | WhisperVoice's microphone and voice activity detection | `MCVoiceCapture`, `WhisperVoiceProofs` |
| `FFIHooks` | hooks, calls, panics and loading of FFI mods | `MCFFIHooks`, `FFIHooksProofs` |
| `FFIHandles` | one handle table and the wrappers in the mods | `MCFFIHandles`, `FFIHandlesProofs` |
| `CallStack` | what a mod is promised by call and return (abstract) | instantiated by `SockRpc` |
| `SockRpc` | both ends of a socket mod and the streams between | `MCSockRpc`, `SockRpcProofs` |
| `AudioPlayback` | the Steam Audio mod's playback queue | `MCAudioPlayback`, `AudioPlaybackProofs` |

Conventions. Names of variables and actions are the source's where TLA+ allows
it. One action is one critical section, one access to an atomic, or, where
threads or processes do not interleave, one whole handler. A definition whose
comment begins with *Faulty:* is not part of the specification: it is a
plausible bug, and `PROJECT.json` names the property that catches it when it
takes the place of the definition after it. History variables are marked so.
`MaxX` constants are bounds and name themselves as such.

### P2PJoin

Three threads. `px` and `mg` are the places of the proxy and of the manager
thread, `service` what `startP2P`/`stopP2P` have built ("half" after the
ServerManager failed to build). `run_once` is cut at its critical sections:
`TakeKick`, `SendKick`, `Recv`, `BindProxy`/`ProxyReady` (the endpoint under
the lock, then the atomic), `ReadServer`, `NotifyJoin`, `ClaimClient`,
`Forward`. The JoinGame hookpoint is `JoinGame`, `CheckReady`, `TakeEndpoint`,
`JoinRoom`, `RequestJoin`; `FlushPendingJoin` gives the late answer. Datagrams
are not kept: any endpoint with a reason and a way to reach us may be the next
sender, again and again, which covers loss, delay, reordering and duplication.
The endpoint of the host comes from the signaling server; `published` records
that ours was given to it, `punched` that our NAT lets its datagrams in.
`heard` is a history variable. `open` counts the requests of each local peer
that have no answer yet: a peer may ask again while its join is pending, and
one whose pending join is replaced is left without an answer to the first
request, so the counter only ever has to be large enough (`PendingWaits`).

### P2PHost

`mg` is the place of the server manager thread: "loop" between two tasks,
"poll" and "create" while it waits for the signaling server, "ended" when it
was told to stop or `run_once` threw. `StunBind` and `RunTask` run
`startPollingServer`, whose condition "there is a connection to the local
servers" is a free choice (`StartPolling`): without one, `current_game_id` is
cleared and the chain of tasks goes on. `PollReturns` and `PollFails`,
`CreateReturns` and `CreateFails` are what follows the call. A call given up
stays with the signaling server, which handles or drops it later (`Handle`,
`Discard`). The game server's endpoint is the number of the session, and 0 is
none: `server_stun_binding_ep` survives a restart of the service, as in the
code. The players take their part of `P2PJoin`, reduced to what a host can
notice: `JoinGame` resets the proxy, the reply asks it to join (`ResetProxy`),
and the proxy's `run_once` sends the byte that opens the NAT (`Kick`, which may
be lost like any datagram), receives a hello and compares it with its copy of
`server_ep` (`HelloArrives`), and counts it in a later critical section
(`NotifyJoin`). A reset or another join may fall between the last two: the
hello in hand then counts for the new join, and `crossing` remembers whose it
was. `punched` and `opened` are the NATs opened from either side, `hellos` the
datagrams under way, which may be lost. `hosted`, `invited` and `crossing` are
history variables.

The signaling server is `RoomDirectory`, with `TTL` and `MaxClock` 0: a room
may vanish at any time, since the host never asks for its age. Two theorems
join the modules: the host and its players use the directory as `RoomDirectory`
says (`HostUsesDirectory`), and the threaded server, seen without dates, is
such a directory (`ServerServesHost`). What `P2PHost` is checked against is
therefore what `Signaling` does.

### RoomDirectory and Signaling

`Signaling` gives each connection a server thread: a request arrives, the
thread reads the clock, waits for the lock, cleans up, works under the lock and
sends. The clock moves between any two of these. `RoomDirectory` has no threads
and no lock: a call takes effect at one instant between arrival and reply, and
a room vanishes at least `TTL` after the call that last registered or joined
it. The refinement mapping keeps hosts, turns the list of clients into a set,
and reads a room's birth off `expiresAt - TTL`. A 404 is sent with the lock
still held (`signaling.py:157-162`); the model releases it first, which only
allows more. The server leaves expired rooms in the table until some call
cleans up; the directory allows that (`Vanish` may happen, it need not).

### VoiceWorker

`main` and `worker` are the two threads' places. The condition variable is
modelled step by step, since that is where the hazard lies: the predicate is
evaluated under the lock (`CheckJobs`), the thread then sleeps (`Block`), and
notifications reach it only while it sleeps. The worker holds `jobMutex` in
"take" and "block". `stopWorker` is an atomic stored without the lock. An
utterance is its number in the order of speech; a phrase is the number of the
utterance it came from.

### VoiceCapture

A sample is a number that says when it was recorded, so that "unbroken" and "of
this capture" can be stated about the buffers. `reader` is the main thread's
place. `Record` is the microphone;
`PollPosition` and `GetData` are two steps of `ProcessAudioAndRecognize`,
between which recording goes on; the hooks run on the main thread too and so
only between two frames; `VadFrame` is one turn of `ProcessVadSamples`, whose
verdict on speech is a free choice. `taken` (how much of this capture was read),
`lapped` (something was overwritten before it was read) and `clean` (the
utterance submitted last is from a capture that was not lapped by then) are
history variables: the code cannot tell a lap, so what it promises is said of the
captures without one. The sizes are assumed to keep the order of the mod's own: a
frame is no longer than the pre-roll, the pre-roll shorter than the longest
utterance.

### FFIHooks

One thread, so the state is a stack: `stack` holds what runs (loader entries,
callbacks, bodies of methods, pending calls, and `ffiHook` after an abort). A
`GameHook` is a number; `released` and `armed` are its flag and the code bytes;
shared ownership is `Held` and `InTable`, and `DropHook` is the destructor when
the last owner goes. `abort` throws `ModPanic`: the nearest handler is `ffiHook`'s
or the main loop's, and the exception's destructor unloads the mod there. When
control comes back to a mod destroyed that way the behaviour is undefined
(`Crashed`) and nothing more is promised.

### FFIHandles

One of the eleven tables of `ffi_interface.cpp`; they are alike and share
nothing. `Ids` are the numbers `last_id` and the map can come to. `Add`
contains both guards of `HandleCollection::add`, the increment that happens
either way, the search for the first free number and the result "ran out".
`holders` are the variables of mods: a plain number, a wrapper that owns one or
one that borrows it (`dont_own`), and the object it was made for. `Move`,
`Assign`, `ReleaseHandle`, `Destroy`, `ResetContainer` follow `UniqueHandle`
and `HandleContainer`, including the number that `reset` leaves behind.
`careless` is a history variable: it becomes true at the two calls after which
the table no longer keeps its word, a reset of an owning container (section 6)
and a plain drop of Null or Invalid at the moment `last_id` stands there
(section 7).

### CallStack and SockRpc

`SockRpc` has a stack and a place for each side and two streams. A reader takes
the head of its stream for what it expects and stops when that is something
else, so reading out of step is visible as `InSync` failing. The longer of the
two stacks is the abstract stack of `CallStack`, where the game and the mod
alternate. A function of the interface takes a string and returns one, or
nothing at all (`Void`): the word that it has finished is then the whole
answer. A string carries its length, and a length goes through `% Modulus`.

### AudioPlayback

`queue` is `playbackQueue`; a playback is its source, its number of samples,
delay, position and loop. `CheckPlay` and `AddPlayback` are the two critical
sections of `onAudioSourcePlay`, between which the audio thread
(`DataCallback`) may render frames. `RebuildEnv` is the audio thread's other
step: a call for another number of samples finds an environment of the wrong
size and builds a new one without the lock, and whoever reads it meanwhile
(`ReadsEnv`) may go wrong. Loops "for the first that matches" are `EraseFirst`.
Two history variables hold what became of a playback: `cut` those that the game
stopped, replaced, destroyed or unloaded, `heard` the others of which the last
sample was played. The game's own state (clips, loops, destroyed objects) may
change while the mod is unloaded, when no hook sees it.


## 3. The runs

Nine runs pass; three more each show one statement of the code's own comments or
interface documentation violated (section 6). All state spaces are explored
completely. Deadlock is checked except in AudioPlayback, where the game stops
calling after `MaxCalls` and a mod that ran into undefined behaviour stops.

| Run | Bounds | Distinct states | Shows |
| --- | --- | --- | --- |
| `p2p_join` | 2 hosts, 1 local socket, 2 handlers, 2 joins | 119,746 | `FlagsAgree`, `PendingWaits`, `NoLostPunch`; under fairness `JoinAnswered`, `StopCompletes` |
| `p2p_host` | 1 room, 1 player, 1 host connection, 2 sessions, 1 binding per session, 2 CreateGame, 2 joins | 215,653 | `BothNatsOpen`, `OnlyInvited`, `PollingGoesOn`; under fairness `PlayersMeet` |
| `signaling` | 1 room, 2 endpoints, 2 connections, TTL 2, clock to 3 | 397,012 | `NoDuplicateClients`, `ImplementsDirectory` |
| `voice` | both queues of 2, 5 utterances per loading | 3,763 | `InOrder`, `KeepsNewest`; under fairness `SpokenIsDealtWith`, `UnloadReturnsIfAwake` |
| `voice_capture` | ring 5, frame 2, pre-roll and silences 4, utterance 8, 17 samples | 821,425 | `NothingLost`, `OnlyThisCapture`, `GoodUtterance` |
| `ffi_hooks` | 2 methods, 2 mods, 8 frames, 5 hook objects | 90,428 | `CurrentModRuns`, `ArmedIffHooked`, `NoReentry` |
| `ffi_handles` | 3 variables of mods, 2 objects, numbers up to 5 | 187,106 | `TableIsOwned`, `NeverReassigned` |
| `sock_rpc` | 2 entries, 2 callbacks, 2 interface functions, one of them void, lengths {0, 3} of modulus 4, 8 calls | 6,379 | `InSync`, `OneAtATime`, `FinishedFirst`, `ImplementsCallStack` |
| `audio_playback` | 2 sources, clips of 1 and 3 samples, delays {0, 1}, frames of 1 and 2, modulus 4, 3 calls | 215,471 | `NeverTwice`, `LoopsOn`, `StopSilences`; under fairness `HeardAndRemoved` |

Each run also checks the module's `TypeOK`. Every property has a mutant: with one
mapped definition replaced by its *Faulty* neighbour, TLC finds it violated under
the same configuration.

Why the bounds are enough.

* `p2p_join`: two joins of two handlers, or of one twice, to two hosts give one
  join that replaces another, in every stage of the first; nothing in the code
  counts further than "a previous one". The service may be stopped and started
  any number of times. The safety properties are proved without the bounds.
* `p2p_host`: two sessions give a room and an endpoint that are stale in the
  second, and hellos of the first that arrive in the second; two joins give a
  player who comes back, and whom a registration in between has wiped from the
  list. One binding is one chain of tasks, whose loss or doubling
  `PollingGoesOn` counts. Two games let the second session register the room
  again, and a player join the new host with a hello of the old one in hand:
  the state in which that hello completes the join, with no NAT open towards
  the new host, is among those of the run. One connection lets a call be given
  up; with two connections, so that the next is made before the old one has
  ended, the run's properties hold for one CreateGame (235,021 states), and its
  invariants for two (2,136,831 states). The safety properties are proved for
  any number of rooms, players, bindings and sessions.
* `signaling`: two threads give all overlaps of two handlers; a call in flight
  over an expiry needs TTL 2 and a clock of 3, so that a room can be renewed
  after it was born and expire after that. All three properties are proved for
  any number.
* `voice`: five utterances through two queues of two fill both, with one in work;
  drops from both ends happen. Safety is proved for every limit.
* `voice_capture`: the sizes keep the order of the real ones (frame < pre-roll <
  utterance) and let the ring wrap three times, laps occur, a forced cut occurs
  at 8, and two or three captures fit within 17 samples. A clip of 5 is no
  multiple of the frame of 2, so frames straddle the end of the ring. All four
  properties are proved for any sizes and any recording.
* `ffi_hooks`: eight frames hold callbacks of both methods nested with the
  calls between them, and bodies of methods below and above. Five objects are
  more than can be owned at once by two table entries and three frames.
  Symmetry in methods and mods is used; there is no liveness there. The
  theorems hold for every depth and every number of objects.
* `ffi_handles`: three variables let a handle be owned, lent and moved at once
  while a second object takes a freed number; with `MaxHandle` 5 the numbers
  run out at 4, which happens. `last_id` reaches -2. Symmetry in objects and
  variables is used; no liveness there. All three properties are proved for any
  table size.
* `sock_rpc`: calls nest four deep on each side; the protocol is the same at every
  level. `ModAssumption` keeps lengths below the modulus
  and callbacks within the library (section 7 says what happens otherwise). All
  five properties are proved for any depth.
* `audio_playback`: frames change between one and two samples; a clip is one
  frame long, or shorter than two; a delay of one sample is over after a short
  frame and wraps after a long one. Three calls are enough to play two sources
  or one twice and then stop or rewind one in front of the other. At first one
  source has the long clip and one the short (`MCInit`); without that bound the
  invariants and `StopSilences` hold as well (888,933 states). Audio and game
  frames are not bounded. `HeardAndRemoved` is not owed to the end of
  the calls: new playbacks queue up behind, and each of the finitely many in
  front is removed at the latest by the second `uiUpdate` that finds it over, or
  started again by the game. Safety is proved for any number.


## 4. Fairness

Liveness is checked only under what the code's scheduling gives.

* `P2PJoin`: weak fairness of the two threads' steps (they loop until told to
  stop) and of `FinishStop` (a join that can return returns). Strong fairness of
  receiving from each host: a host sends its hello every poll, so a host that
  knows our endpoint and whose datagrams our NAT lets in is heard again and
  again, though not each time. The user, the game and the signaling server owe
  nothing. `JoinAnswered` assumes that our own single kick got through
  (`server_ep \in punched`): it is sent once.
* `P2PHost`: weak fairness of the manager thread's scheduled tasks, and of its
  return from a call, by an answer or by an exception (calls have a timeout).
  The signaling server sooner or later handles a call that was given up, and
  its reply is dropped. Strong fairness of an answer while the host still
  waits, and of taking it: polls repeat every 12 seconds, and some of them are
  answered in time. Strong fairness of the player's `Kick` and weak fairness of
  `NotifyJoin` (its proxy loops, and looks for a kick in every round), but the
  byte need not get through: it is sent once, and `PlayersMeet` promises
  nothing when it was lost. Strong fairness of a hello arriving: one is sent
  after every poll, and some get through. The users and the games owe nothing;
  `PlayersMeet` promises nothing once the room is gone, the game is over or the
  service stops.
* `VoiceWorker`: weak fairness of both threads, strong fairness of `uiUpdate`'s
  swap (every frame; it competes with other things the main thread does). The
  user may never speak and never unload. Spurious wake-ups are allowed but
  never owed; that is why the lost wake-up of section 6 is real.
* `AudioPlayback`: weak fairness of the audio callback (the device calls while
  the mod is loaded) and of the second half of Play; strong fairness of
  `uiUpdate`, which the game calls in every frame, though never in the middle
  of a Play.

The other modules state safety only.


## 5. The proofs

`tlapm` checks every leaf of the eight proof modules. A theorem holds for all
values of the constants that satisfy the module's ASSUMEs: disjointness of
endpoints, bounds being natural numbers, `None` being no member of what it is
missing from, a frame of samples no longer than the pre-roll and that shorter
than the longest utterance, audio frames of at least one sample and shorter
than the delay's modulus, strings that fit their length field. TLC evaluates
each assumption in the run of the same component.

**P2PJoinProofs** – `TypeCorrect`, `FlagsAlwaysAgree`, `ReadyIsBound`,
`JoinedHostIsPublished`, `ThreadsStayInside`, `PendingAlwaysWaits`,
`PunchNeverLost`. (The second to fourth state facts no run needs to repeat: a
ready proxy is bound, a host we join knows our endpoint, and no thread outlives
`stopP2P`.) Three layers: `TypeInv` (types, and what each program counter
implies about the thread's locals: a kick being sent has a target, a request in
the hookpoint exists), `ProxyInv` on top of it (flags, publication; the
strengthening is that a request about to be stored has a published host), and
`JoinInv` for the notification of a pending join. `PendingWaits` is inductive
on top of `TypeInv`: a request in the hookpoint and a pending handler are each
backed by an open request, also when both are of the same peer. `NoLostPunch`
is not inductive as it stands: it needs that a heard host is either recorded in
`client_notified` or still in the proxy thread's hands, and that a recorded
notification under a pending join has left `join_ready` up.

**P2PHostProofs** – `TypeCorrect`, `NatsAreOpen`, `GreetsOnlyInvited`,
`ChainsStayOne`. The invariant `Inv` has six parts: the directory (`DirInv`),
the host (`HostInv`), its pending call (`CallInv`), the chains (`ChainInv`),
the players (`PlayerInv`) and the network (`NetInv`). None of the properties is
inductive alone. `OnlyInvited` needs that clients in entries *and in replies
under way* have asked for that room, and that `current_game_id` and the room of
a poll under way are hosted by the present session, which holds because
`startP2P` clears the id. `BothNatsOpen` needs that every hello under way left
an open NAT behind, and of the hello a proxy has in hand (`HandInv`) that it
came through two open NATs from the host waited for when it was compared. The
chain count has to be kept while the service is stopping too.
`HostUsesDirectory` (`Spec => Directory!Spec`) shows that nothing the host or
the players do reaches into the directory but by its operations: rooms and
endpoints asked for are ones it knows, connections are idle when they are used,
and a reply is taken once, also one that was given up.

**SignalingProofs** – `TypeCorrect`, `ClientsListedOnce`,
`ServerImplementsDirectory`. The last shows initial states map to initial states
and every step to a step or a stutter: `PutRoom`, `JoinRoom` and `GetRoom` are
the effects, `Cleanup` is `Vanish` of the rooms it removes, stamps stutter. The
invariant needed: what a thread read from the clock lies between the arrival of
its request and now, so a room registered with an old stamp is no older than the
request, and one removed is really over. `ServerServesHost` forgets the dates:
`RoomDirectory` with births and clock at 0 and rooms that vanish at any time is
implemented as well. The proof is a second refinement on top of the first, from
the dated directory to the undated one (`UndatedStep`), operation by operation.

**WhisperVoiceProofs** – both modules of WhisperVoice. Of `VoiceWorker`:
`TypeCorrect`, `PhrasesInOrder`, `NewestWordsKept`, `EngineOutlivesWorker`,
`NoJobSleptOver`, `StaysAwakeToEnd`. The order is that of one line through five
places (fired, taken by `uiUpdate`, queued phrases, in work, queued audio); the
strengthening is that all of them were spoken. Lemmas say what `PushDropOldest`
and `Tail` keep. The last two are the safety part of the liveness properties: the
worker sleeps over a job only while the notification is still to come, although
it is sent after the lock was released, and a worker that is awake when the
destructor comes to its join does not sleep again. The one wake-up that can be
missed is therefore the finding of section 6. `SleepInv` adds that the queue is
empty while a worker is about to sleep, since it still holds the lock.

Of `VoiceCapture`: `CaptureTypeCorrect`, `SamplesUnbroken`, `NothingStale`,
`UtterancesAreGood`. None of the four is inductive. `CaptureInv` has four parts.
`RingInv`: `lastMicPosition` is `taken` modulo the ring, and the position being
read up to is that of some sample recorded since. `BufferInv`: the pre-roll or
the utterance is empty, and silence and speech together count no more than the
utterance holds. `RunInv`: pre-roll, utterance and input are one run that ends
with the last sample taken. `SubmittedInv`: the submitted utterance is a run that
ends before all that is held *or still to be read*. The step that takes work is
`GetData`, where the ring's contents have to be computed: the lemmas
`LatestAtPlace`, `ReadSize` and `RingHolds` say which sample is the latest at a
place, how many there are between two positions and what the ring returns for
them, by the arithmetic of `%` for any ring size. That the reader never takes a
place that was not recorded holds even when the ring lapped it.

**FFIHooksProofs** – `TypeCorrect`, `ModThatRuns`, `HookInvHolds`,
`NoHookLost`, `NeverReentered`. `ModThatRuns` holds for all mods; its invariant
is that what lies below a frame is a proper caller (`WellCalled`). The last
three assume `RehookWithin = FALSE`: a mod does not hook a method again from
within that method's callback. `HookInv` says that a method has at most one
active callback frame, that a table entry and a frame of one method share one
object, and when exactly that object is released and its method armed;
`NoHookLost` is its special case on the empty stack.

**FFIHandlesProofs** – `TypeCorrect`, `TableAlwaysOwned`, `CarefulMeansUnique`,
`NumbersStay`. That `last_id` never falls below -2 follows from every number a
mod holds being at least -1. For `TableIsOwned` the strengthening (`Careful`,
while no mod was careless) is that `last_id` is not negative, that owners of
objects and taken numbers match one to one, and that a variable without an
object holds Null or Invalid, whose drop touches nothing. It follows that the
comment refuted in section 6 is true of every program that makes neither of the
two careless calls (`CarefulMeansUnique`): the finding has no other cause.
`NumbersStay`, an action property, holds without that premise: it needs only
that `add` searches upwards for a number that is free.

**SockRpcProofs** – `TypeCorrect`, `StaysInSync`, `NeverBothRun`,
`ResultAfterReturn`, `OneStack`. The invariant `Turn` lists the nine shapes
that the places of both sides, the two streams and the two stacks can take
together: the game or the mod runs, or exactly one exchange (call, refusal,
request, arguments, answer with or without a result, exit) is under way. The
stacks differ by at most the call of that exchange, which gives the refinement
`OneStack`: the longer stack takes the steps of `CallStack` or stutters. The
proofs use `ModAssumption`, so they hold for mods that have the callbacks they
hook and strings that fit.

**AudioPlaybackProofs** – `TypeCorrect`, `SourceSoundsOnce`, `LoopsNeverEnd`,
`StopIsEnough`. `SourceSoundsOnce` needs the invariant that a source whose
playback is about to be added stays silent: frames only move positions forward,
and nothing else the main thread does can come between. It is why releasing the
lock between check and addition is harmless. `StopIsEnough`, an action
property, follows from the same invariant: of two playbacks of a source, the
first has ended, or one of them was started again by SetClip. All four hold for
frames of any sizes that change at any time.

Only model-checked: all liveness (`JoinAnswered`, `StopCompletes`,
`PlayersMeet`, `SpokenIsDealtWith`, `UnloadReturnsIfAwake`, `HeardAndRemoved`),
which needs fairness and ENABLED. Every invariant and every action property of a
run is proved.


## 6. Findings

* **Unloading WhisperVoice can hang** (`voice_unload`;
  `whisper_voice.cpp:318`). `stopWorker` is stored and notified without
  `jobMutex`; the worker may have evaluated its predicate and not yet sleep.
  Storing it under the lock would repair it. `UnloadReturnsIfAwake` shows that
  nothing else keeps it from returning.
* **getOriginal after a nested hook** (`ffi_original`; `ffi_interface.cpp:989`).
  `currentHookMethod` is overwritten and not restored when a callback calls
  another hooked method.
* **A container that was reset drops its handle again** (`ffi_handles_reset`;
  `ffi_interface.hpp:1711`). `UniqueHandle::reset` drops the handle and keeps
  the number. The move assignment overwrites it and the destructor ends with
  it, but `HandleContainer::reset` (1806) leaves the wrapper alive: its
  destructor drops the same number a second time. In between the table may have
  given that number to another mod, whose owning wrapper then has no object.
  Setting the handle to `Null` in `reset` would repair it.


## 7. Other observations

Seen while modelling, not stated as properties:

* `photon_settings.cpp:590`: while no local client is known, any sender other
  than the server becomes the local client: a late datagram of an earlier host,
  or a repeated STUN response (`ClaimClient`).
* `photon_settings.cpp:523`: the datagram that opens the NAT is sent once per
  join. When it is lost the join stays pending until the next one;
  `PlayersMeet` makes exactly this exception (`KickLost`).
* `photon_settings.cpp:556-571`: `run_once` compares the sender with a copy of
  `server_ep` taken in one critical section and sets `join_ready` in another.
  If JoinGame resets and asks again in between, a datagram of the previous host
  answers the next join: the log says "Server NAT hole punched" though that
  host was never heard, and its NAT need not be open. Both modules contain the
  interleaving; `BothNatsOpen` says that it is the only way (`crossing`).
* `photon_settings.cpp:381`: a JoinGame that replaces a pending join takes over
  `pending_join_handler`. The request before it is never answered, and if both
  are of one peer a failed second request is answered while the first is still
  pending. `PendingWaits` says that no peer ever gets an answer too many.
* `photon_settings.cpp:382`: `pending_join_handler` is a raw pointer. What keeps a
  handler whose peer disconnects alive is up to the luxon library.
* `photon_settings.cpp:297`: `server_stun_binding_ep` is neither reset by
  `startP2P` nor checked by CreateGame: a room can be registered with no
  endpoint or with that of the session before (`CreateGame`, session 0 or an
  earlier one).
* `photon_settings.cpp:480`: a poll that finds no connection to the local
  servers clears `current_game_id` for good; if only the connection was
  renewed, the host no longer greets anybody. Every STUN completion starts
  another chain of polls (`StunBind`).
* A `register` that times out may still take effect later: a room without a
  host, for up to an hour. Registering a room again wipes its clients; those
  who joined in between are never greeted. A room lives 3600 seconds and only
  joins renew it.
* `photon_settings.cpp:216`: when the ServerManager cannot be built, the proxy
  stays, `startP2P` returns at once from then on, and the window offers no stop
  ("half", `StartRefused`): only a restart of the game helps.
* `signaling_client.hpp:51` promises an exception for a response that cannot be
  parsed; `poll_room` reads one that is not JSON as an empty room. `join_room`
  throws on 404 where an empty optional would be the natural answer.
* `whisper_voice.cpp:657`: an exception out of `FireGameDelegates` loses the
  phrases `uiUpdate` had already taken (`FireThrows`); order is kept.
* `ffi_interface.cpp:1001`: a hook that fires while its mod is still loading or
  already unloading is erased, and the call is swallowed (`RunStaleHook`).
* `mods/base.hpp:64`: a panic caught in a nested callback destroys a mod that has
  frames below (`Crashed`).
* `ffi_interface.hpp:1103`: a mod that unhooks and hooks a method inside its
  own callback leaves the code and the table in disagreement: with
  `RehookWithin = TRUE`, `ArmedIffHooked` fails. docs `interface.md:47` warn of
  it.
* `ffi_interface.cpp:34-57`: `dropObject` of Null while no object was ever
  added makes `last_id` -1, and the next object gets the number 0, which means
  "none" to everybody. Once numbers ran out, every further `add` still
  increments `last_id`, so the table does not recover and the counter overflows
  in the end.
* FFI arguments, read by hand: `ffiHook` leaves `call_args` and the return
  value of the last callback behind, so that a hook within a call that is being
  prepared replaces its arguments (1009); `moveArg` accepts an index equal to
  the size (802) and `getValue` reads at that index (86), both past the end;
  `call3` with an unknown number of arguments never finds a method (929) and
  catches no exceptions.
* `game_hook.cpp:124`: fourteen bytes of code are written one copy at a time;
  another thread may execute them meanwhile (the hook on GetModuleHandleA).
* `SockFFIClient/main.cpp:100`: when the library lacks the callback,
  `waitForCommand` returns to a caller that waits for a result and reads what
  comes next as the result. `sock_ffi.cpp:82`: a string longer than 65535 bytes
  is announced with its length modulo 65536 and sent whole. `ModAssumption`
  excludes both; without it `TypeOK` and `InSync` of `SockRpc` fail.
  `SockFFIClient/main.cpp:145-149`: `initImports` of the library runs when the
  client starts, before the game hands over to it, and is outside what
  `OneAtATime` speaks of.
* `ffi_interface.cpp:673-677`: `runtimeClassInit` and `runtimeObjectInit` may run
  constructors of the game, and hooks on what those call. Unlike `call2` they
  do not put `currentMod` back, so a mod that goes on after them could be taken
  for another. `FFIHooks` has calls through `call2` only.
* `playback.cpp:115`: a delay that is no multiple of the frame wraps below
  zero, as it is unsigned. The playback is never heard and its source counts as
  playing from then on; the model has such delays, and `HeardAndRemoved` speaks
  of playbacks whose delay is over.
* `SteamAudioImpl.cpp`: Stop removes only the first match, so an ended playback
  that `uiUpdate` has not yet removed hides the one that sounds (`StopSilences`
  says exactly that); `get_isPlaying` answers for the first match only; SetClip
  revives an ended playback, after which two may sound; SetLoop writes the
  volume, not the loop (198), 0 for `false`; SetClip of no clip without a
  playback frees a buffer that does not exist (256); Play (`playback.cpp:64`)
  and the statistics of `uiUpdate` (351) read the environment without the lock,
  before the first audio callback and while it is being rebuilt
  (`playback.cpp:95`).


## 8. Not modelled, and why

* Data that no property tells apart: names, payloads, volumes, positions,
  effects, mixing, resampling, log lines, UI layout.
* The luxon submodule (ENet servers, handlers): not in the repository; `P2PJoin`
  takes from `photon_settings.cpp` what it does with them. The lifetime of a
  handler whose peer disconnects is therefore open.
* FFI arguments, `hook2` and `call3`, code of the game run by the reflection
  calls, hooks on several threads, the DirectX hook, recognizers and delegates,
  the application's order of start-up: planned, below.
* A socket that closes (`receiveData` then loops for ever on both sides) and
  exceptions that leave an interface function: `SockRpc`.
* Loaders, WASMAOT, il2cpp bridge, generated and vendored code: I/O and memory
  layout without a protocol of their own.
* Cheats, fixes, settings, explorer, save file, tracer, consoles: sequential UI
  over single hooks or patches.

`PROJECT.json` lists all of them under "components" with the reason, and under
"hazards" what is not yet covered.


## 9. Plan

Order of work, the most important behaviour first. Done: P2PJoin; RoomDirectory
and Signaling; P2PHost, composed with the directory and the joining players;
VoiceWorker; VoiceCapture; FFIHooks; FFIHandles; CallStack and SockRpc;
AudioPlayback; the proofs of all their invariants and action properties; and the
composition of P2PHost with Signaling. Left:

1. `VoiceDelegates`: recognizers registered and removed from within the callbacks
   that `FireGameDelegates` makes over its snapshot, and the matching of phrases
   against a reference definition.
2. `FFIArguments`: the global argument list under nested hooks and `call3`,
   composed with `FFIHooks`' stack. `HookThreads`: the hook on GetModuleHandleA,
   fourteen bytes written while another thread may run them.
3. `DX11Hook`: `s_mods` against Present, unregistering, and the Slugger queues.
4. `ModLifecycle`: order of start-up and shut-down, `get()` loading on demand,
   a panic ending a pass of `uiUpdate`.
5. A closing socket for `SockRpc`; the tab completion of the game console.
6. Proofs: that `P2PJoin` behaves as the players of `P2PHost` do, and that the
   queues of `VoiceWorker` implement a channel that forgets its oldest entry.

Theorems worth proving of the new modules: that arguments of a call are those its
caller set, and that no delegate is called after it was removed.


## 10. Running it

In this directory, with the TLA+ tools and the community modules:

    tlc -workers 2 -config MCP2PJoin.cfg MCP2PJoin
    tlapm P2PJoinProofs.tla

and likewise for the other MC and proof modules; `PROJECT.json` lists each run
with its module, configuration and properties. No run takes more than about two
minutes and a half.
