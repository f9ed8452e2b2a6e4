------------------------ MODULE AudioPlaybackProofs ------------------------
(***************************************************************************)
(* What AudioPlayback keeps for any sources, clips, delays, frames and     *)
(* width: types, loops, one sounding playback of a source, and what Stop   *)
(* silences.                                                               *)
(***************************************************************************)
EXTENDS AudioPlayback, SequenceTheorems, TLAPS

-----------------------------------------------------------------------------
(* The invariant.  NeverTwice needs that a source stays silent between the *)
(* two critical sections of onAudioSourcePlay.                             *)

PlaybackOK(p) ==
  /\ p.playPosition < p.samples + MaxFrame
  /\ p.loop /\ p.samples > 0 => ~HasReachedEnd(p)

QueueOK(q, a) ==
  /\ q \in Seq(Playback)
  /\ \A i \in DOMAIN q : PlaybackOK(q[i])
  /\ \A i, j \in DOMAIN q :
       /\ i # j /\ q[i].source = q[j].source
       /\ ~HasReachedEnd(q[i]) /\ ~HasReachedEnd(q[j])
       => q[i].revived \/ q[j].revived
  /\ a # NotAdding =>
       \A i \in DOMAIN q : q[i].source = a.source => HasReachedEnd(q[i])

QueueInv == QueueOK(queue, adding)

GameInv ==
  /\ mod \in {"loaded", "unloaded", "corrupt"} /\ env \in Frames \cup {0}
  /\ adding \in Adding \cup {NotAdding}
  /\ clip \in [Sources -> Clips \cup {None}]
  /\ looping \in SUBSET Sources /\ alive \in SUBSET Sources
  /\ calls \in Nat /\ heard \subseteq Nat /\ cut \subseteq Nat

IInv == QueueInv /\ GameInv

-----------------------------------------------------------------------------
(* How a queue may change.                                                 *)

LEMMA Removed ==
  ASSUME NEW S, NEW q \in Seq(S), NEW i \in 1 .. Len(q)
  PROVE  /\ RemoveAt(q, i) \in Seq(S)
         /\ Len(RemoveAt(q, i)) = Len(q) - 1
         /\ \A k \in 1 .. (Len(q) - 1) :
              RemoveAt(q, i)[k] = IF k < i THEN q[k] ELSE q[k + 1]
<1> DEFINE a == SubSeq(q, 1, i - 1)
           b == SubSeq(q, i + 1, Len(q))
<1>1. a \in Seq(S) /\ Len(a) = i - 1 /\ \A k \in 1 .. (i - 1) : a[k] = q[k]
  OBVIOUS
<1>2. /\ b \in Seq(S) /\ Len(b) = Len(q) - i
      /\ \A k \in 1 .. (Len(q) - i) : b[k] = q[k + i]
  OBVIOUS
<1>3. RemoveAt(q, i) = a \o b
  BY DEF RemoveAt
<1> HIDE DEF a, b
<1>4. /\ a \o b \in Seq(S) /\ Len(a \o b) = Len(q) - 1
      /\ \A k \in 1 .. (Len(q) - 1) :
           (a \o b)[k] = IF k <= Len(a) THEN a[k] ELSE b[k - Len(a)]
  <2>1. /\ a \o b \in Seq(S) /\ Len(a \o b) = Len(a) + Len(b)
        /\ \A k \in 1 .. Len(a) + Len(b) :
             (a \o b)[k] = IF k <= Len(a) THEN a[k] ELSE b[k - Len(a)]
    <3>1. a \in Seq(S) /\ b \in Seq(S)
      BY <1>1, <1>2
    <3> QED
      BY <3>1, ConcatProperties
  <2>2. Len(a) + Len(b) = Len(q) - 1
    BY <1>1, <1>2
  <2> QED
    BY <2>1, <2>2
<1>5. ASSUME NEW k \in 1 .. (Len(q) - 1)
      PROVE  (a \o b)[k] = IF k < i THEN q[k] ELSE q[k + 1]
  <2>1. CASE k < i
    BY <1>1, <1>4, <2>1
  <2>2. CASE ~(k < i)
    <3>1. k - (i - 1) \in 1 .. (Len(q) - i) /\ (k - (i - 1)) + i = k + 1
      BY <2>2
    <3> QED
      BY <1>1, <1>2, <1>4, <2>2, <3>1
  <2> QED
    BY <2>1, <2>2
<1> QED
  BY <1>3, <1>4, <1>5

\* Every playback keeps its place.
LEMMA KeepsPlaces ==
  ASSUME NEW q \in Seq(Playback), NEW r \in Seq(Playback),
         NEW a, NEW b, QueueOK(q, a),
         DOMAIN r = DOMAIN q,
         \A i \in DOMAIN q :
           /\ PlaybackOK(r[i])
           /\ r[i].source = q[i].source
           /\ q[i].revived => r[i].revived
           /\ HasReachedEnd(q[i]) => HasReachedEnd(r[i]) \/ r[i].revived,
         \/ b = NotAdding
         \/ /\ b = a
            /\ \A i \in DOMAIN q : HasReachedEnd(q[i]) => HasReachedEnd(r[i])
  PROVE  QueueOK(r, b)
<1>1. \A i, j \in DOMAIN r :
        /\ i # j /\ r[i].source = r[j].source
        /\ ~HasReachedEnd(r[i]) /\ ~HasReachedEnd(r[j])
        => r[i].revived \/ r[j].revived
  BY DEF QueueOK
<1>2. b # NotAdding =>
        \A i \in DOMAIN r : r[i].source = b.source => HasReachedEnd(r[i])
  BY DEF QueueOK
<1> QED
  BY <1>1, <1>2 DEF QueueOK

\* The first playback of some is removed, if there is one.
LEMMA Erased ==
  ASSUME QueueInv, NEW I \in SUBSET DOMAIN queue, EraseFirst(I),
         UNCHANGED adding
  PROVE  QueueInv'
<1>1. CASE I = {}
  BY <1>1 DEF EraseFirst, QueueInv, QueueOK, PlaybackOK, HasReachedEnd
<1>2. CASE I # {}
  <2>1. PICK i \in I : queue' = RemoveAt(queue, i)
    BY <1>2 DEF EraseFirst
  <2>2. /\ queue' \in Seq(Playback) /\ Len(queue') = Len(queue) - 1
        /\ \A k \in 1 .. (Len(queue) - 1) :
             queue'[k] = IF k < i THEN queue[k] ELSE queue[k + 1]
    BY <2>1, Removed DEF QueueInv, QueueOK
  <2> DEFINE old(k) == IF k < i THEN k ELSE k + 1
  <2>3. \A k \in DOMAIN queue' :
          old(k) \in DOMAIN queue /\ queue'[k] = queue[old(k)]
    BY <2>2 DEF QueueInv, QueueOK
  <2>4. \A k, l \in DOMAIN queue' : k # l => old(k) # old(l)
    BY <2>2
  <2> HIDE DEF old
  <2> QED
    BY <2>2, <2>3, <2>4
    DEF QueueInv, QueueOK, PlaybackOK, HasReachedEnd
<1> QED
  BY <1>1, <1>2

\* What the game cuts short are playbacks of the queue.
LEMMA CutOK ==
  ASSUME IInv, NEW I \in SUBSET DOMAIN queue, Cut(I)
  PROVE  heard' \subseteq Nat /\ cut' \subseteq Nat
<1>1. \A i \in I : queue[i].id \in Nat
  <2>1. \A i \in I : queue[i] \in Playback
    BY DEF IInv, QueueInv, QueueOK
  <2> QED
    BY <2>1 DEF Playback
<1>2. cut' \subseteq Nat
  BY <1>1 DEF Cut, Ids, IInv, GameInv
<1> QED
  BY <1>2 DEF Cut, IInv, GameInv

-----------------------------------------------------------------------------
(* One frame of sound.                                                     *)

LEMMA ModRange ==
  ASSUME NEW a \in Int, NEW n \in Nat \ {0}
  PROVE  a % n \in 0 .. (n - 1)
OBVIOUS

LEMMA AdvanceOK ==
  ASSUME NEW n \in Frames, NEW p \in Playback, PlaybackOK(p)
  PROVE  /\ Advance(p, n) \in Playback /\ PlaybackOK(Advance(p, n))
         /\ Advance(p, n).source = p.source
         /\ Advance(p, n).revived = p.revived
         /\ HasReachedEnd(p) => HasReachedEnd(Advance(p, n))
<1>0. /\ n \in Nat \ {0} /\ MaxFrame \in Nat /\ n <= MaxFrame
      /\ Modulus \in Nat \ {0} /\ Clips \subseteq Nat
  BY FramesAssumption, WidthAssumption, ClipsAssumption
<1>1. CASE p.delay > 0
  <2>0. p.delay - n \in Int
    BY <1>0 DEF Playback
  <2>1. (p.delay - n) % Modulus \in 0 .. (Modulus - 1)
    BY <1>0, <2>0, ModRange
  <2> QED
    BY <1>1, <2>1 DEF Advance, Playback, PlaybackOK, HasReachedEnd
<1>2. CASE ~(p.delay > 0) /\ HasReachedEnd(p)
  BY <1>2 DEF Advance, Playback, PlaybackOK, HasReachedEnd
<1>3. CASE ~(p.delay > 0) /\ ~HasReachedEnd(p)
  <2>a. p.playPosition \in Nat /\ p.samples \in Nat
    BY <1>0 DEF Playback
  <2>b. p.playPosition < p.samples
    BY <1>3, <2>a DEF HasReachedEnd
  <2>1. /\ p.playPosition \in Nat /\ p.samples \in Nat \ {0}
        /\ p.playPosition < p.samples
    BY <2>a, <2>b
  <2> DEFINE position == p.playPosition + n
             new == IF p.loop /\ position >= p.samples
                    THEN position % p.samples ELSE position
  <2>c. position \in Nat
    BY <1>0, <2>a
  <2>2. position % p.samples \in 0 .. (p.samples - 1)
    <3>1. position \in Int /\ p.samples \in Nat \ {0}
      BY <2>1, <2>c
    <3> HIDE DEF position
    <3> QED
      BY <3>1, ModRange
  <2>3. /\ new \in Nat /\ new < p.samples + MaxFrame
        /\ p.loop => new < p.samples
    BY <1>0, <2>1, <2>2
  <2>4. Advance(p, n) = [p EXCEPT !.playPosition = new]
    BY <1>3 DEF Advance
  <2> HIDE DEF new
  <2> QED
    BY <1>3, <2>1, <2>3, <2>4 DEF Playback, PlaybackOK, HasReachedEnd
<1> QED
  BY <1>1, <1>2, <1>3

-----------------------------------------------------------------------------
(* The steps.                                                              *)

LEMMA InitInv == Init => IInv
<1> SUFFICES ASSUME Init PROVE IInv
  OBVIOUS
<1>1. QueueInv
  BY DEF Init, QueueInv, QueueOK
<1>2. GameInv
  BY DEF Init, GameInv
<1> QED
  BY <1>1, <1>2 DEF IInv

\* The check of onAudioSourcePlay finds the source silent.
LEMMA CheckPlayStep ==
  ASSUME IInv, NEW s \in Sources, Play(s)
  PROVE  IInv'
<1>1. PICK isOneShot \in BOOLEAN, samples \in Clips \cup {None},
           delay \in Delays \cup {0} : CheckPlay(s, isOneShot, samples, delay)
  BY DEF Play, IInv, GameInv
<1>a. delay \in 0 .. (Modulus - 1)
  BY DelaysAssumption, WidthAssumption, FramesAssumption
<1>b. samples \in Clips /\ UNCHANGED queue
  BY <1>1 DEF CheckPlay
<1>c. calls' \in Nat
  BY <1>1 DEF CheckPlay, MainCall, IInv, GameInv
<1>2. /\ samples \in Clips /\ delay \in 0 .. (Modulus - 1)
      /\ calls' \in Nat /\ UNCHANGED queue
      /\ adding' = [id |-> calls', source |-> s, samples |-> samples,
                    delay |-> delay, isOneShot |-> isOneShot]
  BY <1>1, <1>a, <1>b, <1>c DEF CheckPlay
<1>3. QueueInv'
  <2>1. \A i \in DOMAIN queue :
          queue[i].source = s => HasReachedEnd(queue[i])
    BY <1>1 DEF CheckPlay, Sounding, Of
  <2>2. adding'.source = s
    BY <1>2
  <2> QED
    BY <1>2, <2>1, <2>2
    DEF IInv, QueueInv, QueueOK, PlaybackOK, HasReachedEnd
<1>4. GameInv'
  BY <1>1, <1>2 DEF CheckPlay, IInv, GameInv, Adding, game, history
<1> QED
  BY <1>3, <1>4 DEF IInv

\* The new playback is the only one of its source that sounds.
LEMMA AddStep ==
  ASSUME IInv, AddPlayback
  PROVE  IInv'
<1> DEFINE new ==
      [id |-> adding.id, source |-> adding.source, samples |-> adding.samples,
       delay |-> adding.delay, isOneShot |-> adding.isOneShot,
       loop |-> adding.source \in looping /\ adding.samples > 0,
       playPosition |-> 0, revived |-> FALSE]
<1>1. adding \in Adding /\ adding # NotAdding /\ adding' = NotAdding
  BY DEF AddPlayback, IInv, GameInv
<1>2. queue' = Append(queue, new)
  BY DEF AddPlayback
<1>3. new \in Playback
  BY <1>1 DEF Adding, Playback
<1>4. PlaybackOK(new) /\ new.source = adding.source
  <2>1. adding.samples \in Nat
    BY <1>1, ClipsAssumption DEF Adding
  <2> QED
    BY <2>1, FramesAssumption DEF PlaybackOK, HasReachedEnd
<1> HIDE DEF new
<1>5. QueueInv'
  <2>1. /\ queue' \in Seq(Playback) /\ Len(queue') = Len(queue) + 1
        /\ \A i \in DOMAIN queue : queue'[i] = queue[i]
        /\ queue'[Len(queue) + 1] = new
        /\ DOMAIN queue' = DOMAIN queue \cup {Len(queue) + 1}
    BY <1>2, <1>3 DEF IInv, QueueInv, QueueOK
  <2>2. \A i \in DOMAIN queue :
          queue[i].source = new.source => HasReachedEnd(queue[i])
    BY <1>1, <1>4 DEF IInv, QueueInv, QueueOK
  <2> QED
    BY <1>1, <1>4, <2>1, <2>2
    DEF IInv, QueueInv, QueueOK, PlaybackOK, HasReachedEnd
<1>6. GameInv'
  BY <1>1 DEF AddPlayback, ReadsEnv, IInv, GameInv, game, history
<1> QED
  BY <1>5, <1>6 DEF IInv

LEMMA SetClipStep ==
  ASSUME IInv, NEW s \in Sources, NEW c \in Clips \cup {None}, SetClip(s, c)
  PROVE  IInv'
<1>1. GameInv'
  <2>1. {i \in Of(s) : IsFirst(i, Of(s))} \in SUBSET DOMAIN queue
    BY DEF Of
  <2>2. heard' \subseteq Nat /\ cut' \subseteq Nat
    BY <2>1, CutOK DEF SetClip, CutFirst
  <2> QED
    BY <2>2 DEF SetClip, MainCall, IInv, GameInv
<1>2. adding = NotAdding /\ adding' = NotAdding
  BY DEF SetClip, MainCall
<1>3. CASE c = None
  BY <1>1, <1>2, <1>3, Erased DEF SetClip, IInv, Of
<1>4. CASE c # None /\ Of(s) = {}
  BY <1>1, <1>2, <1>4
  DEF SetClip, IInv, QueueInv, QueueOK, PlaybackOK, HasReachedEnd
<1>5. CASE c # None /\ Of(s) # {}
  <2>1. PICK i \in DOMAIN queue : queue' = [queue EXCEPT ![i] = Rewound(@, c)]
    BY <1>5 DEF SetClip, Of
  <2>2. /\ Rewound(queue[i], c) \in Playback
        /\ PlaybackOK(Rewound(queue[i], c))
        /\ Rewound(queue[i], c).source = queue[i].source
        /\ Rewound(queue[i], c).revived =
             (queue[i].revived \/ HasReachedEnd(queue[i]))
    <3> DEFINE p == queue[i]
    <3>1. p \in Playback
      BY DEF IInv, QueueInv, QueueOK
    <3>2. c \in Nat /\ c \in Clips
      BY <1>5, ClipsAssumption
    <3> HIDE DEF p
    <3>3. HasReachedEnd(p) \in BOOLEAN
      BY DEF HasReachedEnd
    <3>4. (p.revived \/ HasReachedEnd(p)) \in BOOLEAN
      BY Zenon
    <3>5. Rewound(p, c) \in Playback
      BY <3>1, <3>2, <3>4 DEF Rewound, Playback
    <3>6. Rewound(p, c).playPosition = 0 /\ Rewound(p, c).samples = c
      BY <3>1 DEF Rewound, Playback
    <3>7. PlaybackOK(Rewound(p, c))
      BY <3>2, <3>6, FramesAssumption DEF PlaybackOK, HasReachedEnd
    <3>8. /\ Rewound(p, c).source = p.source
          /\ Rewound(p, c).revived = (p.revived \/ HasReachedEnd(p))
      BY <3>1 DEF Rewound, Playback
    <3> QED
      BY <3>5, <3>7, <3>8 DEF p
  <2>3. /\ queue' \in Seq(Playback) /\ DOMAIN queue' = DOMAIN queue
        /\ \A k \in DOMAIN queue :
             queue'[k] = IF k = i THEN Rewound(queue[i], c) ELSE queue[k]
    BY <2>1, <2>2 DEF IInv, QueueInv, QueueOK
  <2>4. \A k \in DOMAIN queue :
          /\ PlaybackOK(queue'[k])
          /\ queue'[k].source = queue[k].source
          /\ queue[k].revived => queue'[k].revived
          /\ HasReachedEnd(queue[k]) =>
               HasReachedEnd(queue'[k]) \/ queue'[k].revived
    BY <2>2, <2>3 DEF IInv, QueueInv, QueueOK, PlaybackOK, HasReachedEnd
  <2> QED
    <3>1. queue \in Seq(Playback) /\ QueueOK(queue, adding)
      BY DEF IInv, QueueInv, QueueOK
    <3>2. QueueOK(queue', adding')
      BY <1>2, <2>3, <2>4, <3>1, KeepsPlaces
    <3> QED
      BY <1>1, <3>2 DEF IInv, QueueInv
<1> QED
  BY <1>3, <1>4, <1>5

LEMMA DataCallbackStep ==
  ASSUME IInv, NEW n \in Frames, DataCallback(n)
  PROVE  IInv'
<1>1. queue' = [i \in DOMAIN queue |-> Advance(queue[i], n)] /\ adding' = adding
  BY DEF DataCallback
<1>2. \A i \in DOMAIN queue : queue[i] \in Playback /\ PlaybackOK(queue[i])
  BY DEF IInv, QueueInv, QueueOK
<1>3. \A i \in DOMAIN queue :
        /\ queue'[i] = Advance(queue[i], n)
        /\ Advance(queue[i], n) \in Playback /\ PlaybackOK(Advance(queue[i], n))
        /\ Advance(queue[i], n).source = queue[i].source
        /\ Advance(queue[i], n).revived = queue[i].revived
        /\ HasReachedEnd(queue[i]) => HasReachedEnd(Advance(queue[i], n))
  BY <1>1, <1>2, AdvanceOK
<1>4. queue' \in Seq(Playback) /\ DOMAIN queue' = DOMAIN queue
  BY <1>1, <1>3 DEF IInv, QueueInv, QueueOK
<1>5. \A i \in DOMAIN queue :
        /\ PlaybackOK(queue'[i])
        /\ HasReachedEnd(queue[i]) => HasReachedEnd(queue'[i])
  BY <1>3 DEF PlaybackOK, HasReachedEnd
<1>6. QueueInv'
  <2>1. queue \in Seq(Playback) /\ QueueOK(queue, adding)
    BY DEF IInv, QueueInv, QueueOK
  <2>2. QueueOK(queue', adding')
    BY <1>1, <1>3, <1>4, <1>5, <2>1, KeepsPlaces
  <2> QED
    BY <2>2 DEF QueueInv
<1>7. GameInv'
  <2>1. \A i \in DOMAIN queue : queue[i].id \in Nat
    BY <1>2 DEF Playback
  <2>2. heard' \subseteq Nat
    BY <2>1 DEF DataCallback, Ended, Ids, IInv, GameInv
  <2> QED
    BY <2>2 DEF DataCallback, IInv, GameInv, game
<1> QED
  BY <1>6, <1>7 DEF IInv

LEMMA StepInv == IInv /\ [Next]_vars => IInv'
<1> SUFFICES ASSUME IInv, [Next]_vars PROVE IInv'
  OBVIOUS
<1> USE DEF IInv
<1>1. ASSUME NEW s \in Sources, Play(s) PROVE IInv'
  BY <1>1, CheckPlayStep
<1>2. ASSUME NEW s \in Sources, SetLoop(s) PROVE IInv'
  BY <1>2 DEF SetLoop, MainCall, QueueInv, QueueOK, GameInv, PlaybackOK,
              HasReachedEnd, history
<1>3. ASSUME NEW s \in Sources, Destroy(s) PROVE IInv'
  <2>1. heard' \subseteq Nat /\ cut' \subseteq Nat
    BY <1>3, CutOK DEF Destroy, Of
  <2> QED
    BY <1>3, <2>1 DEF Destroy, MainCall, QueueInv, QueueOK, GameInv,
                       PlaybackOK, HasReachedEnd
<1>4. ASSUME NEW s \in Sources, NEW b \in BOOLEAN, Stop(s, b) PROVE IInv'
  <2> DEFINE I == {i \in Of(s) : ~queue[i].isOneShot \/ b}
  <2>1. I \in SUBSET DOMAIN queue
    BY DEF Of
  <2>2. {i \in I : IsFirst(i, I)} \in SUBSET DOMAIN queue
    BY <2>1
  <2>3. heard' \subseteq Nat /\ cut' \subseteq Nat
    BY <1>4, <2>2, CutOK DEF Stop, CutFirst
  <2>4. GameInv'
    BY <1>4, <2>3 DEF Stop, MainCall, GameInv, game
  <2> QED
    BY <1>4, <2>1, <2>4, Erased DEF Stop
<1>5. ASSUME NEW s \in Sources, NEW c \in Clips \cup {None}, SetClip(s, c)
      PROVE IInv'
  BY <1>5, SetClipStep
<1>6. CASE AddPlayback
  BY <1>6, AddStep
<1>7. CASE UiUpdate
  <2>1. GameInv'
    BY <1>7 DEF UiUpdate, ReadsEnv, GameInv, game, history
  <2>2. {i \in DOMAIN queue : IsOver(queue[i])} \in SUBSET DOMAIN queue
    OBVIOUS
  <2> QED
    BY <1>7, <2>1, <2>2, Erased DEF UiUpdate
<1>8. CASE Unload
  <2>1. queue' = <<>> /\ adding = NotAdding /\ adding' = adding
    BY <1>8 DEF Unload, MainCall
  <2>2. QueueInv'
    BY <2>1 DEF QueueInv, QueueOK
  <2>3. GameInv'
    <3>1. calls' \in Nat /\ mod' = "unloaded" /\ env' = 0
      BY <1>8 DEF Unload, MainCall, GameInv
    <3>2. UNCHANGED <<adding, game>>
      BY <1>8 DEF Unload
    <3>3. heard' \subseteq Nat /\ cut' \subseteq Nat
      BY <1>8, CutOK DEF Unload
    <3> QED
      BY <3>1, <3>2, <3>3 DEF GameInv, game
  <2> QED
    BY <2>2, <2>3
<1>9. CASE Load
  <2>1. QueueInv'
    BY <1>9 DEF Load, QueueInv, QueueOK, PlaybackOK, HasReachedEnd
  <2>2. GameInv'
    BY <1>9 DEF Load, MainCall, GameInv, history
  <2> QED
    BY <2>1, <2>2
<1>10. ASSUME NEW n \in Frames, DataCallback(n) PROVE IInv'
  BY <1>10, DataCallbackStep
<1>11. CASE RebuildEnv
  BY <1>11 DEF RebuildEnv, QueueInv, QueueOK, GameInv, PlaybackOK,
               HasReachedEnd, game, history
<1>12. CASE UNCHANGED vars
  BY <1>12 DEF vars, game, history, QueueInv, QueueOK, GameInv, PlaybackOK,
              HasReachedEnd
<1> HIDE DEF IInv
<1> QED
  BY <1>1, <1>2, <1>3, <1>4, <1>5, <1>6, <1>7, <1>8, <1>9, <1>10, <1>11, <1>12
  DEF Next

LEMMA IInvHolds == Spec => []IInv
BY InitInv, StepInv, PTL DEF Spec

-----------------------------------------------------------------------------
(* The theorems.                                                           *)

\* The mod's and the game's state keep their types, and no position is a
\* frame or more past the end of its clip.
THEOREM TypeCorrect == Spec => []TypeOK
<1>1. IInv => TypeOK
  BY DEF IInv, QueueInv, QueueOK, GameInv, PlaybackOK, TypeOK
<1> QED
  BY <1>1, IInvHolds, PTL

LEMMA InvNeverTwice == IInv => NeverTwice
BY DEF IInv, QueueInv, QueueOK, NeverTwice, Sounding, Of

\* onAudioSourcePlay: a source that is playing is not played once more, though
\* the lock is released between the check and the addition.
THEOREM SourceSoundsOnce == Spec => []NeverTwice
BY InvNeverTwice, IInvHolds, PTL

\* dataCallback: a loop never comes to its end.
THEOREM LoopsNeverEnd == Spec => []LoopsOn
<1>1. IInv => LoopsOn
  BY DEF IInv, QueueInv, QueueOK, PlaybackOK, LoopsOn
<1> QED
  BY <1>1, IInvHolds, PTL

\* onAudioSourceStop: removing the first playback of a source is enough, but for
\* what stands behind one that ended.
THEOREM StopIsEnough == Spec => StopSilences
<1>1. ASSUME IInv, NEW s \in Sources, Stop(s, TRUE)
      PROVE  Ids(Sounding(s))' \subseteq Ids(Hidden(s))
  <2>1. EraseFirst(Of(s))
    <3>1. {i \in Of(s) : ~queue[i].isOneShot \/ TRUE} = Of(s)
      OBVIOUS
    <3> QED
      BY <1>1, <3>1 DEF Stop
  <2>2. CASE Of(s) = {}
    BY <2>1, <2>2 DEF EraseFirst, Ids, Sounding, Of
  <2>3. CASE Of(s) # {}
    <3>1. PICK i \in Of(s) : IsFirst(i, Of(s)) /\ queue' = RemoveAt(queue, i)
      BY <2>1, <2>3 DEF EraseFirst
    <3>2. i \in 1 .. Len(queue) /\ queue \in Seq(Playback)
      BY <1>1 DEF IInv, QueueInv, QueueOK, Of
    <3>3. /\ queue' \in Seq(Playback) /\ Len(queue') = Len(queue) - 1
          /\ \A k \in 1 .. (Len(queue) - 1) :
               queue'[k] = IF k < i THEN queue[k] ELSE queue[k + 1]
      BY <3>1, <3>2, Removed
    <3>4. \A k \in DOMAIN queue' : \E j \in DOMAIN queue :
            j # i /\ queue'[k] = queue[j]
      BY <3>2, <3>3
    <3>5. ASSUME NEW j \in Sounding(s), j # i
          PROVE  j \in Hidden(s)
      <4>1. j \in Of(s) /\ j \in DOMAIN queue /\ i \in DOMAIN queue /\ i < j
        BY <3>1, <3>2, <3>5 DEF IsFirst, Sounding, Of
      <4>2. HasReachedEnd(queue[i]) \/ queue[i].revived \/ queue[j].revived
        BY <1>1, <3>1, <3>5, <4>1 DEF IInv, QueueInv, QueueOK, Sounding, Of
      <4> QED
        BY <3>1, <4>1, <4>2 DEF Hidden
    <3>6. \A k \in DOMAIN queue' :
            queue'[k].source = s /\ ~HasReachedEnd(queue'[k]) =>
              \E j \in Sounding(s) : j # i /\ queue'[k] = queue[j]
      BY <3>4 DEF Sounding, Of
    <3>7. \A k \in (Sounding(s))' :
            k \in DOMAIN queue' /\ queue'[k].source = s
            /\ ~HasReachedEnd(queue'[k])
      BY DEF Sounding, Of, HasReachedEnd
    <3> QED
      BY <3>5, <3>6, <3>7 DEF Ids
  <2> QED
    BY <2>2, <2>3
<1>2. IInv /\ [Next]_vars => [\A s \in Sources :
       Stop(s, TRUE) => Ids(Sounding(s))' \subseteq Ids(Hidden(s))]_vars
  BY <1>1
<1> QED
  BY <1>2, IInvHolds, PTL DEF Spec, StopSilences
=============================================================================
