--------------------------- MODULE AudioPlayback ---------------------------
(***************************************************************************)
(* The playback queue of the Steam Audio mod (SteamAudioImpl).  The game's *)
(* main thread plays, stops and changes audio sources through hooks; the   *)
(* audio thread renders one frame of every playback at a time; once per    *)
(* frame of the game uiUpdate removes what is over.  All three hold        *)
(* playbackMutex while they are at the queue.  Volumes, positions in the   *)
(* world and the mixing are left out: a playback is how far it has come.   *)
(***************************************************************************)
EXTENDS Integers, Sequences, SequencesExt

CONSTANTS
  Sources,   \* the game's AudioSource objects
  Clips,     \* the numbers of samples of its clips
  Delays,    \* delays the game asks for, in samples
  Frames,    \* the numbers of samples a call of dataCallback may ask for
  MaxFrame,  \* no call asks for more
  Modulus,   \* 2^64: delay is a uint64_t
  MaxCalls,  \* bound: calls of the game and (un)loads of the mod
  None       \* no clip

ASSUME FramesAssumption ==
  MaxFrame \in Nat \ {0} /\ Frames \subseteq 1 .. MaxFrame
ASSUME WidthAssumption == Modulus \in Nat /\ MaxFrame < Modulus
ASSUME DelaysAssumption == Delays \subseteq 0 .. (Modulus - 1)
ASSUME ClipsAssumption == Clips \subseteq Nat /\ None \notin Clips

VARIABLES
  mod,       \* "loaded", "unloaded", or "corrupt" after undefined behaviour
  env,       \* the frame the environment is built for, 0 while there is none
  queue,     \* playbackQueue
  adding,    \* onAudioSourcePlay between its two critical sections
  clip,      \* the game's: the clip of each source, None for none
  looping,   \* the game's: the sources that loop
  alive,     \* the game's: the sources not yet destroyed
  calls,     \* calls so far; also names the playbacks
  \* history: playbacks the game has cut short, others played to their end
  cut, heard

game == <<clip, looping, alive>>
history == <<cut, heard>>
vars == <<mod, env, queue, adding, game, calls, history>>

Playback == [id : Nat, source : Sources, samples : Clips,
             delay : 0 .. (Modulus - 1), isOneShot : BOOLEAN, loop : BOOLEAN,
             playPosition : Nat,
             revived : BOOLEAN]   \* history: SetClip rewound it after its end
NotAdding == [id |-> 0]
Adding == [id : Nat, source : Sources, samples : Clips,
           delay : 0 .. (Modulus - 1), isOneShot : BOOLEAN]

HasReachedEnd(p) == p.playPosition >= p.samples
Of(s) == {i \in DOMAIN queue : queue[i].source = s}
Sounding(s) == {i \in Of(s) : ~HasReachedEnd(queue[i])}
Ids(I) == {queue[i].id : i \in I}

\* Loops over the queue look for the first playback that fits.
IsFirst(i, I) == i \in I /\ \A j \in I : i <= j
EraseFirst(I) ==
  IF I = {} THEN queue' = queue
  ELSE \E i \in I : IsFirst(i, I) /\ queue' = RemoveAt(queue, i)

\* The game stops the playbacks of I, or makes something else of them.
Cut(I) ==
  /\ cut' = cut \cup Ids(I)
  /\ heard' = heard \ cut'
CutFirst(I) == Cut({i \in I : IsFirst(i, I)})

\* The environment is read while the audio thread may be building it.
ReadsEnv == mod' \in IF env # 0 THEN {mod} ELSE {mod, "corrupt"}

Init ==
  /\ mod = "loaded" /\ env = 0
  /\ queue = <<>> /\ adding = NotAdding
  /\ clip \in [Sources -> Clips \cup {None}]
  /\ looping \in SUBSET Sources
  /\ alive = Sources
  /\ calls = 0 /\ heard = {} /\ cut = {}

\* The main thread starts something that is no part of another call.
MainCall ==
  /\ adding = NotAdding /\ mod # "corrupt"
  /\ calls < MaxCalls /\ calls' = calls + 1

-----------------------------------------------------------------------------
(* The main thread.                                                        *)

\* Faulty: plays whatever the source is doing.
CheckNothing(s, isOneShot, samples, delay) ==
  /\ MainCall /\ mod = "loaded" /\ s \in alive
  /\ isOneShot => delay = 0
  /\ samples # None
  /\ adding' = [id |-> calls', source |-> s, samples |-> samples,
                delay |-> delay, isOneShot |-> isOneShot]
  /\ UNCHANGED <<mod, env, queue, game, history>>

\* onAudioSourcePlay up to the second critical section: returns when the
\* source is playing or there is no clip.
CheckPlay(s, isOneShot, samples, delay) ==
  /\ MainCall /\ mod = "loaded" /\ s \in alive
  /\ isOneShot => delay = 0
  /\ Sounding(s) = {}
  /\ samples # None
  /\ adding' = [id |-> calls', source |-> s, samples |-> samples,
                delay |-> delay, isOneShot |-> isOneShot]
  /\ UNCHANGED <<mod, env, queue, game, history>>

Play(s) ==
  \/ \E delay \in Delays : CheckPlay(s, FALSE, clip[s], delay)
  \/ \E samples \in Clips : CheckPlay(s, TRUE, samples, 0)

\* The second critical section.  updatePlayback asks for the loop only of a
\* clip that has samples.  The effects need an environment.
AddPlayback ==
  /\ adding # NotAdding
  /\ queue' = Append(queue,
       [id |-> adding.id, source |-> adding.source, samples |-> adding.samples,
        delay |-> adding.delay, isOneShot |-> adding.isOneShot,
        loop |-> adding.source \in looping /\ adding.samples > 0,
        playPosition |-> 0, revived |-> FALSE])
  /\ adding' = NotAdding
  /\ ReadsEnv
  /\ UNCHANGED <<env, game, calls, history>>

\* Faulty: a playback of PlayOneShot goes on.
StopOwn(s, stopOneShots) ==
  /\ MainCall /\ mod = "loaded" /\ s \in alive
  /\ EraseFirst({i \in Of(s) : ~queue[i].isOneShot})
  /\ CutFirst({i \in Of(s) : ~queue[i].isOneShot})
  /\ UNCHANGED <<mod, env, adding, game>>

\* onAudioSourceStop removes one playback, the first that matches.
Stop(s, stopOneShots) ==
  /\ MainCall /\ mod = "loaded" /\ s \in alive
  /\ EraseFirst({i \in Of(s) : ~queue[i].isOneShot \/ stopOneShots})
  /\ CutFirst({i \in Of(s) : ~queue[i].isOneShot \/ stopOneShots})
  /\ UNCHANGED <<mod, env, adding, game>>

\* Faulty: goes on where the old clip was.
KeepPosition(p, samples) == [p EXCEPT !.samples = samples]

\* Playback::operator=: another clip, from its start.
Rewound(p, samples) ==
  [p EXCEPT !.samples = samples, !.playPosition = 0,
            !.revived = @ \/ HasReachedEnd(p)]

\* onAudioSourceSetClip.  With no clip and no playback it frees a buffer that
\* does not exist.
SetClip(s, c) ==
  /\ MainCall /\ mod = "loaded" /\ s \in alive
  /\ clip' = [clip EXCEPT ![s] = c]
  /\ IF c = None THEN EraseFirst(Of(s))
     ELSE IF Of(s) = {} THEN UNCHANGED queue
     ELSE \E i \in Of(s) : /\ IsFirst(i, Of(s))
                          /\ queue' = [queue EXCEPT ![i] = Rewound(@, c)]
  /\ mod' \in IF c = None /\ Of(s) = {} THEN {mod, "corrupt"} ELSE {mod}
  /\ CutFirst(Of(s))
  /\ UNCHANGED <<env, adding, looping, alive>>

\* onAudioSourceSetLoop: the playback's volume changes, its loop does not.
SetLoop(s) ==
  /\ MainCall /\ mod = "loaded" /\ s \in alive
  /\ looping' = IF s \in looping THEN looping \ {s} ELSE looping \cup {s}
  /\ UNCHANGED <<mod, env, queue, adding, clip, alive, history>>

\* The game destroys the object; no hook sees it.
Destroy(s) ==
  /\ MainCall /\ s \in alive
  /\ alive' = alive \ {s}
  /\ Cut(Of(s))
  /\ UNCHANGED <<mod, env, queue, adding, clip, looping>>

IsOver(p) == p.source \notin alive \/ HasReachedEnd(p)

\* Faulty: removes whatever comes first, played to its end or not.
UpdateAny ==
  /\ mod = "loaded" /\ adding = NotAdding
  /\ EraseFirst(DOMAIN queue)
  /\ ReadsEnv
  /\ UNCHANGED <<env, adding, game, calls, history>>

\* onUiUpdate: it shows the environment's frame size and stops at the first
\* playback that it removes.
UiUpdate ==
  /\ mod = "loaded" /\ adding = NotAdding
  /\ EraseFirst({i \in DOMAIN queue : IsOver(queue[i])})
  /\ ReadsEnv
  /\ UNCHANGED <<env, adding, game, calls, history>>

\* onUnload: the device waits for its callback, and the module's queue goes
\* with the module.
Unload ==
  /\ MainCall /\ mod = "loaded" /\ mod' = "unloaded"
  /\ env' = 0 /\ queue' = <<>> /\ Cut(DOMAIN queue)
  /\ UNCHANGED <<adding, game>>

\* What the game did to its sources meanwhile, no hook saw.
Load ==
  /\ MainCall /\ mod = "unloaded" /\ mod' = "loaded"
  /\ clip' \in [Sources -> Clips \cup {None}] /\ looping' \in SUBSET Sources
  /\ UNCHANGED <<env, queue, adding, alive, history>>

-----------------------------------------------------------------------------
(* The audio thread.                                                       *)

\* dataCallback finds that the environment is for another number of samples
\* and builds a new one, without playbackMutex.
RebuildEnv ==
  /\ mod = "loaded" /\ env # 0 /\ env' = 0
  /\ UNCHANGED <<mod, queue, adding, game, calls, history>>

\* Faulty: a loop that ends stays at its end.
NoWrap(p, n) ==
  IF p.delay > 0 THEN [p EXCEPT !.delay = (@ - n) % Modulus]
  ELSE IF HasReachedEnd(p) THEN p
  ELSE [p EXCEPT !.playPosition = @ + n]

\* One turn of dataCallback's loop.
Advance(p, n) ==
  LET position == p.playPosition + n
  IN  IF p.delay > 0 THEN [p EXCEPT !.delay = (@ - n) % Modulus]
      ELSE IF HasReachedEnd(p) THEN p
      ELSE [p EXCEPT !.playPosition =
              IF p.loop /\ position >= p.samples THEN position % p.samples
              ELSE position]

\* The playbacks of which n more samples are the last.
Ended(n) == {i \in DOMAIN queue :
  ~HasReachedEnd(queue[i]) /\ HasReachedEnd(Advance(queue[i], n))}

\* dataCallback for n samples, in an environment for n samples.
DataCallback(n) ==
  /\ mod = "loaded"
  /\ env \in {0, n} /\ env' = n
  /\ queue' = [i \in DOMAIN queue |-> Advance(queue[i], n)]
  /\ heard' = heard \cup (Ids(Ended(n)) \ cut)
  /\ UNCHANGED <<mod, adding, game, calls, cut>>

-----------------------------------------------------------------------------
Next ==
  \/ \E s \in Sources : Play(s) \/ SetLoop(s) \/ Destroy(s)
  \/ \E s \in Sources, b \in BOOLEAN : Stop(s, b)
  \/ \E s \in Sources, c \in Clips \cup {None} : SetClip(s, c)
  \/ AddPlayback \/ UiUpdate \/ Unload \/ Load
  \/ RebuildEnv \/ \E n \in Frames : DataCallback(n)

Spec == Init /\ [][Next]_vars

\* The audio device calls back; the game draws frames, though it is never at
\* two things at once; and a Play that has begun goes on.
Fairness == /\ WF_vars(\E n \in Frames : DataCallback(n))
            /\ SF_vars(UiUpdate) /\ WF_vars(AddPlayback)

FairSpec == Spec /\ Fairness

-----------------------------------------------------------------------------
(* Properties.                                                             *)

\* The types.  A position is less than a frame past the end of its clip.
TypeOK ==
  /\ mod \in {"loaded", "unloaded", "corrupt"} /\ env \in Frames \cup {0}
  /\ queue \in Seq(Playback)
  /\ \A i \in DOMAIN queue : queue[i].playPosition < queue[i].samples + MaxFrame
  /\ adding \in Adding \cup {NotAdding}
  /\ clip \in [Sources -> Clips \cup {None}]
  /\ looping \in SUBSET Sources /\ alive \in SUBSET Sources
  /\ calls \in Nat /\ heard \subseteq Nat /\ cut \subseteq Nat

\* "Make sure source isn't already playing": although the queue is released
\* between the check and the addition, a source never sounds twice, but for
\* what SetClip starts again after its end.
NeverTwice ==
  \A s \in Sources : \A i, j \in Sounding(s) :
    i = j \/ queue[i].revived \/ queue[j].revived

\* A looping playback never comes to its end, whatever clip it is given: the
\* next uiUpdate would remove it.
LoopsOn ==
  \A i \in DOMAIN queue :
    queue[i].loop /\ queue[i].samples > 0 => ~HasReachedEnd(queue[i])

\* Playbacks of s of which Stop would reach the second only after the first:
\* the first has ended, or SetClip has started one of them again.
Hidden(s) == {j \in Sounding(s) : \E i \in Of(s) :
  i < j /\ (HasReachedEnd(queue[i]) \/ queue[i].revived \/ queue[j].revived)}

\* Stop silences its source.  What it misses was hidden: it stands behind a
\* playback that had ended, and that uiUpdate had not removed yet.
StopSilences ==
  [][\A s \in Sources :
       Stop(s, TRUE) => Ids(Sounding(s))' \subseteq Ids(Hidden(s))]_vars

InQueue(id) == \E i \in DOMAIN queue : queue[i].id = id

\* Something of the playback is still to be heard, now and once.
Due(id) == \E i \in DOMAIN queue :
  /\ queue[i].id = id /\ queue[i].delay = 0
  /\ ~queue[i].loop /\ ~HasReachedEnd(queue[i])

\* What the game leaves alone is heard to its end, not removed before, and then
\* removed: although the frames change their size, uiUpdate removes one playback
\* at a time, and others come, go and are rewound in front of it.
HeardAndRemoved ==
  \A id \in 1 .. MaxCalls :
    Due(id) ~> \/ id \in heard /\ ~InQueue(id)
               \/ id \in cut \/ mod = "corrupt"

=============================================================================
