------------------------- MODULE WhisperVoiceProofs ------------------------
(***************************************************************************)
(* TLAPS proofs about the two modules of mods/whisper_voice.cpp.           *)
(*                                                                         *)
(* VoiceWorker, for queues of any length and any number of utterances: its *)
(* types, the order of phrases, that the newest words are kept, that the   *)
(* recogniser is not used after it was freed, and that no job is slept     *)
(* over.                                                                   *)
(*                                                                         *)
(* VoiceCapture, for rings, frames and utterances of any size: its types,  *)
(* that no sample is lost or repeated, that none is stale, and that every  *)
(* utterance submitted is a good one.                                      *)
(***************************************************************************)
EXTENDS VoiceWorker, VoiceCapture, Integers, SequenceTheorems, TLAPS

\* q is the run of numbers that ends with n.
Newest(q, n) == \A i \in DOMAIN q : q[i] = n - Len(q) + i

-----------------------------------------------------------------------------
(* What the two queue operations do to a queue of utterances.              *)

LEMMA PushProps ==
  ASSUME NEW q \in Seq(Utterances), NEW x \in Utterances,
         NEW max \in Nat, max > 0, Len(q) <= max
  PROVE  LET w == PushDropOldest(q, x, max)
         IN  /\ w \in Seq(Utterances) /\ Len(w) <= max
             /\ Ids(w) \subseteq Ids(q) \cup {x}
             /\ Increasing(q) /\ Before(Ids(q), {x}) => Increasing(w)
             /\ Newest(q, x - 1) => Newest(w, x)
<1> DEFINE w == PushDropOldest(q, x, max)
<1>0. /\ Len(q) \in Nat /\ DOMAIN q = 1..Len(q) /\ x \in Nat
      /\ \A i \in 1..Len(q) : q[i] \in Nat
  BY BoundsAssumption DEF Utterances
<1>1. CASE Len(q) < max
  <2>1. w = Append(q, x)
    BY <1>1 DEF PushDropOldest
  <2>2. /\ w \in Seq(Utterances) /\ Len(w) = Len(q) + 1
        /\ DOMAIN w = 1..(Len(q) + 1)
    BY <2>1
  <2>3. \A i \in 1..Len(q) : w[i] = q[i]
    BY <2>1
  <2>4. w[Len(q) + 1] = x
    BY <2>1
  <2> HIDE DEF w
  <2>5. \A i \in DOMAIN w : i = Len(q) + 1 \/ i \in 1..Len(q)
    BY <1>0, <2>2
  <2>6. \A i \in DOMAIN w : w[i] \in Ids(q) \cup {x}
    BY <1>0, <2>3, <2>4, <2>5 DEF Ids
  <2>7. Increasing(q) /\ Before(Ids(q), {x}) => Increasing(w)
    <3> SUFFICES ASSUME Increasing(q), Before(Ids(q), {x}),
                        NEW i \in DOMAIN w, NEW j \in DOMAIN w, i < j
                 PROVE  w[i] < w[j]
      BY DEF Increasing
    <3>1. i \in 1..Len(q)
      BY <1>0, <2>2
    <3>2. w[i] = q[i] /\ q[i] \in Ids(q)
      BY <1>0, <2>3, <3>1 DEF Ids
    <3> QED
      BY <1>0, <2>2, <2>3, <2>4, <2>5, <3>1, <3>2 DEF Increasing, Before
  <2>8. ASSUME Newest(q, x - 1), NEW i \in DOMAIN w
        PROVE  w[i] = x - Len(w) + i
    BY <1>0, <2>2, <2>3, <2>4, <2>5, <2>8 DEF Newest
  <2> QED
    BY <1>1, <1>0, <2>2, <2>6, <2>7, <2>8 DEF w, Ids, Newest
<1>2. CASE ~(Len(q) < max)
  <2>0. Len(q) = max /\ q # <<>> /\ Len(q) > 0
    <3> DEFINE n == Len(q)
    <3>1. n \in Nat /\ n <= max /\ ~(n < max)
      BY <1>0, <1>2
    <3> HIDE DEF n
    <3>2. n = max
      BY <3>1
    <3> QED
      BY <3>2 DEF n
  <2>1. w = Append(Tail(q), x)
    BY <1>2 DEF PushDropOldest
  <2>2. /\ w \in Seq(Utterances) /\ Len(w) = Len(q)
        /\ DOMAIN w = 1..Len(q)
    BY <2>0, <2>1
  <2>3. \A i \in 1..(Len(q) - 1) : w[i] = q[i + 1]
    BY <2>0, <2>1
  <2>4. w[Len(q)] = x
    BY <2>0, <2>1
  <2> HIDE DEF w
  <2>5. \A i \in DOMAIN w : i = Len(q) \/ i \in 1..(Len(q) - 1)
    BY <1>0, <2>2
  <2>6. \A i \in DOMAIN w : w[i] \in Ids(q) \cup {x}
    <3> SUFFICES ASSUME NEW i \in 1..(Len(q) - 1) PROVE q[i + 1] \in Ids(q)
      BY <2>3, <2>4, <2>5
    <3> i + 1 \in DOMAIN q
      BY <1>0
    <3> QED
      BY DEF Ids
  <2>7. Increasing(q) /\ Before(Ids(q), {x}) => Increasing(w)
    <3> SUFFICES ASSUME Increasing(q), Before(Ids(q), {x}),
                        NEW i \in DOMAIN w, NEW j \in DOMAIN w, i < j
                 PROVE  w[i] < w[j]
      BY DEF Increasing
    <3>1. i \in 1..(Len(q) - 1) /\ i + 1 \in DOMAIN q /\ i \in Nat
      BY <1>0, <2>2
    <3>2. w[i] = q[i + 1] /\ q[i + 1] \in Ids(q)
      BY <2>3, <3>1 DEF Ids
    <3>3. CASE j = Len(q)
      BY <2>4, <3>2, <3>3 DEF Before
    <3>4. CASE j \in 1..(Len(q) - 1)
      <4>1. w[j] = q[j + 1] /\ j + 1 \in DOMAIN q /\ i + 1 < j + 1
        BY <1>0, <2>3, <3>1, <3>4
      <4> QED
        BY <3>1, <3>2, <4>1 DEF Increasing
    <3> QED
      BY <2>5, <3>3, <3>4
  <2>8. ASSUME Newest(q, x - 1), NEW i \in DOMAIN w
        PROVE  w[i] = x - Len(w) + i
    <3>1. CASE i = Len(q)
      BY <1>0, <2>2, <2>4, <3>1
    <3>2. CASE i \in 1..(Len(q) - 1)
      <4>1. w[i] = q[i + 1] /\ i + 1 \in DOMAIN q
        BY <1>0, <2>3, <3>2
      <4>2. q[i + 1] = x - 1 - Len(q) + (i + 1)
        BY <2>8, <4>1 DEF Newest
      <4> QED
        BY <1>0, <2>2, <3>2, <4>1, <4>2
    <3> QED
      BY <2>5, <3>1, <3>2
  <2> QED
    BY <2>0, <1>0, <2>2, <2>6, <2>7, <2>8 DEF w, Ids, Newest
<1> QED
  BY <1>1, <1>2

LEMMA PopProps ==
  ASSUME NEW q \in Seq(Utterances), q # <<>>
  PROVE  /\ Head(q) \in Utterances /\ Head(q) \in Ids(q)
         /\ Tail(q) \in Seq(Utterances) /\ Len(Tail(q)) = Len(q) - 1
         /\ Ids(Tail(q)) \subseteq Ids(q)
         /\ Increasing(q) =>
              Increasing(Tail(q)) /\ Before({Head(q)}, Ids(Tail(q)))
         /\ \A n \in Nat : Newest(q, n) => Newest(Tail(q), n)
<1> DEFINE t == Tail(q)
<1>1. /\ t \in Seq(Utterances) /\ Len(t) = Len(q) - 1 /\ Len(q) \in Nat
      /\ \A i \in 1..(Len(q) - 1) : t[i] = q[i + 1]
      /\ Head(q) = q[1] /\ Len(q) > 0
      /\ DOMAIN t = 1..(Len(q) - 1) /\ DOMAIN q = 1..Len(q)
  OBVIOUS
<1>2. \A i \in 1..Len(q) : q[i] \in Utterances /\ q[i] \in Nat
  BY BoundsAssumption DEF Utterances
<1> HIDE DEF t
<1>3. Head(q) \in Utterances /\ Head(q) \in Ids(q)
  BY <1>1, <1>2 DEF Ids
<1>4. Ids(t) \subseteq Ids(q)
  BY <1>1 DEF Ids
<1>5. \A i \in DOMAIN t : i + 1 \in DOMAIN q /\ t[i] = q[i + 1] /\ i \in Nat
  BY <1>1
<1>6. Increasing(q) => Increasing(t) /\ Before({Head(q)}, Ids(t))
  <2> SUFFICES ASSUME Increasing(q)
               PROVE  Increasing(t) /\ \A i \in DOMAIN t : Head(q) < t[i]
    BY DEF Before, Ids
  <2>1. 1 \in DOMAIN q /\ \A i \in DOMAIN t : 1 < i + 1
    BY <1>1
  <2>2. \A i \in DOMAIN t : Head(q) < t[i]
    BY <1>1, <1>5, <2>1 DEF Increasing
  <2>3. \A i, j \in DOMAIN t : i < j => i + 1 < j + 1
    BY <1>5
  <2> QED
    BY <1>5, <2>2, <2>3 DEF Increasing
<1>7. ASSUME NEW n \in Nat, Newest(q, n), NEW i \in DOMAIN t
      PROVE  t[i] = n - Len(t) + i
  <2>1. t[i] = n - Len(q) + (i + 1)
    BY <1>5, <1>7 DEF Newest
  <2> QED
    BY <1>1, <1>5, <2>1
<1> QED
  BY <1>1, <1>3, <1>4, <1>6, <1>7 DEF t, Newest

LEMMA EmptyProps ==
  Ids(<<>>) = {} /\ Increasing(<<>>) /\ \A n \in Nat : Newest(<<>>, n)
BY DEF Ids, Increasing, Newest

-----------------------------------------------------------------------------
(* The inductive invariant.  Sequences are typed, the worker holds audio   *)
(* exactly while it recognises, has something to take while it is about    *)
(* to, and the mod is unloaded only after the worker has ended.            *)

AnyStep ==
  \/ Submit \/ SwapPhrases \/ StoreStop \/ Load
  \/ NotifyOne \/ FirePhrase \/ FireDone \/ FireThrows
  \/ NotifyAll \/ JoinAndFree
  \/ CheckJobs \/ Block \/ TakeJob \/ NothingRecognized \/ QueuePhrase
  \/ SpuriousWake

LEMMA StepCases == Next => AnyStep
BY DEF Next, AnyStep, Main, Worker

Places ==
  /\ main \in {"idle", "notify", "fire", "notify_all", "join", "unloaded"}
  /\ worker \in {"check", "take", "block", "blocked", "recognize", "ended"}
  /\ main = "unloaded" => worker = "ended"
  /\ main # "unloaded" => alive

LEMMA PlacesInit == Init => Places
BY DEF Init, Places

LEMMA PlacesStep == Places /\ [Next]_vars => Places'
<1> SUFFICES ASSUME Places, [Next]_vars PROVE Places'
  OBVIOUS
<1> USE DEF Places, MainGoto, Notified, vars, mainVars, workerVars
<1>1. CASE Submit
  BY <1>1 DEF Submit
<1>2. CASE SwapPhrases
  BY <1>2 DEF SwapPhrases
<1>3. CASE StoreStop
  BY <1>3 DEF StoreStop
<1>4. CASE Load
  BY <1>4 DEF Load
<1>5. CASE NotifyOne
  BY <1>5 DEF NotifyOne
<1>6. CASE FirePhrase
  BY <1>6 DEF FirePhrase
<1>7. CASE FireDone
  BY <1>7 DEF FireDone
<1>8. CASE FireThrows
  BY <1>8 DEF FireThrows
<1>9. CASE NotifyAll
  BY <1>9 DEF NotifyAll
<1>10. CASE JoinAndFree
  BY <1>10 DEF JoinAndFree
<1>11. CASE CheckJobs
  BY <1>11 DEF CheckJobs
<1>12. CASE Block
  BY <1>12 DEF Block
<1>13. CASE TakeJob
  BY <1>13 DEF TakeJob
<1>14. CASE NothingRecognized
  BY <1>14 DEF NothingRecognized
<1>15. CASE QueuePhrase
  BY <1>15 DEF QueuePhrase
<1>16. CASE SpuriousWake
  BY <1>16 DEF SpuriousWake
<1>17. CASE UNCHANGED vars
  BY <1>17
<1> HIDE DEF Places, vars
<1> QED
  BY <1>1, <1>2, <1>3, <1>4, <1>5, <1>6, <1>7, <1>8, <1>9, <1>10, <1>11,
     <1>12, <1>13, <1>14, <1>15, <1>16, <1>17, StepCases DEF AnyStep

\* ~WhisperVoice: whisper_free comes after the worker is gone.
THEOREM EngineOutlivesWorker == Spec => []NoUseAfterFree
<1>1. Places => NoUseAfterFree
  BY DEF Places, NoUseAfterFree
<1> QED
  BY <1>1, PlacesInit, PlacesStep, PTL DEF Spec

Data ==
  /\ spoken \in 0..MaxUtterances /\ fired \in 0..MaxUtterances
  /\ audioData \in 0..MaxUtterances
  /\ audioJobQueue \in Seq(Utterances)
  /\ Len(audioJobQueue) <= MaxQueuedAudioJobs
  /\ pendingPhrasesQueue \in Seq(Utterances)
  /\ Len(pendingPhrasesQueue) <= MaxQueuedPhrases
  /\ phrasesToFire \in Seq(Utterances)
  /\ worker = "recognize" <=> audioData # 0
  /\ worker = "take" => audioJobQueue # <<>>

LEMMA DataInit == Init => Data
BY BoundsAssumption DEF Init, Data, Utterances

LEMMA DataStep == Data /\ [Next]_vars => Data'
<1> SUFFICES ASSUME Data, [Next]_vars PROVE Data'
  OBVIOUS
<1> USE DEF Data, MainGoto, Notified, vars, mainVars, workerVars
<1>1. CASE Submit
  <2>1. audioJobQueue \in Seq(Utterances) /\ spoken + 1 \in Utterances
        /\ MaxQueuedAudioJobs \in Nat /\ MaxQueuedAudioJobs > 0
    BY <1>1, BoundsAssumption DEF Submit, Utterances
  <2>2. audioJobQueue' =
          PushDropOldest(audioJobQueue, spoken + 1, MaxQueuedAudioJobs)
    BY <1>1 DEF Submit
  <2>3. audioJobQueue' \in Seq(Utterances)
        /\ Len(audioJobQueue') <= MaxQueuedAudioJobs
    BY <2>1, <2>2, PushProps
  <2> QED
    BY <1>1, <2>1, <2>3, BoundsAssumption DEF Submit, Utterances, JobMutexFree
<1>2. CASE SwapPhrases
  BY <1>2, EmptyProps, BoundsAssumption DEF SwapPhrases
<1>3. CASE StoreStop
  BY <1>3 DEF StoreStop
<1>4. CASE Load
  BY <1>4, BoundsAssumption DEF Load, Utterances
<1>5. CASE NotifyOne
  BY <1>5 DEF NotifyOne
<1>6. CASE FirePhrase
  <2>1. /\ Head(phrasesToFire) \in Utterances
        /\ Tail(phrasesToFire) \in Seq(Utterances)
    BY <1>6, PopProps DEF FirePhrase
  <2> QED
    BY <1>6, <2>1 DEF FirePhrase, Utterances
<1>7. CASE FireDone
  BY <1>7 DEF FireDone
<1>8. CASE FireThrows
  BY <1>8 DEF FireThrows
<1>9. CASE NotifyAll
  BY <1>9 DEF NotifyAll
<1>10. CASE JoinAndFree
  BY <1>10 DEF JoinAndFree
<1>11. CASE CheckJobs
  BY <1>11 DEF CheckJobs
<1>12. CASE Block
  BY <1>12 DEF Block
<1>13. CASE TakeJob
  <2>1. CASE stopWorker
    BY <1>13, <2>1 DEF TakeJob
  <2>2. CASE ~stopWorker
    <3>1. audioJobQueue # <<>>
      BY <1>13 DEF TakeJob
    <3>2. /\ Head(audioJobQueue) \in Utterances
          /\ Tail(audioJobQueue) \in Seq(Utterances)
          /\ Len(Tail(audioJobQueue)) = Len(audioJobQueue) - 1
      BY <3>1, PopProps
    <3>3. Len(audioJobQueue) \in Nat /\ MaxQueuedAudioJobs \in Nat
      BY BoundsAssumption
    <3>4. /\ worker' = "recognize" /\ audioData' = Head(audioJobQueue)
          /\ audioJobQueue' = Tail(audioJobQueue)
          /\ UNCHANGED <<mainVars, stopWorker, pendingPhrasesQueue>>
      BY <1>13, <2>2 DEF TakeJob
    <3>5. Head(audioJobQueue) # 0 /\ Head(audioJobQueue) \in 0..MaxUtterances
      BY <3>2, BoundsAssumption DEF Utterances
    <3>6. Len(Tail(audioJobQueue)) <= MaxQueuedAudioJobs
      BY <3>2, <3>3
    <3> QED
      BY <3>2, <3>4, <3>5, <3>6
  <2> QED
    BY <2>1, <2>2
<1>14. CASE NothingRecognized
  BY <1>14, BoundsAssumption DEF NothingRecognized
<1>15. CASE QueuePhrase
  <2>1. pendingPhrasesQueue \in Seq(Utterances) /\ audioData \in Utterances
        /\ MaxQueuedPhrases \in Nat /\ MaxQueuedPhrases > 0
    BY <1>15, BoundsAssumption DEF QueuePhrase, Utterances
  <2>2. pendingPhrasesQueue' =
          PushDropOldest(pendingPhrasesQueue, audioData, MaxQueuedPhrases)
    BY <1>15 DEF QueuePhrase
  <2>3. pendingPhrasesQueue' \in Seq(Utterances)
        /\ Len(pendingPhrasesQueue') <= MaxQueuedPhrases
    BY <2>1, <2>2, PushProps
  <2> QED
    BY <1>15, <2>1, <2>3, BoundsAssumption DEF QueuePhrase
<1>16. CASE SpuriousWake
  BY <1>16 DEF SpuriousWake
<1>17. CASE UNCHANGED vars
  BY <1>17
<1> HIDE DEF Data, vars
<1> QED
  BY <1>1, <1>2, <1>3, <1>4, <1>5, <1>6, <1>7, <1>8, <1>9, <1>10, <1>11,
     <1>12, <1>13, <1>14, <1>15, <1>16, <1>17, StepCases DEF AnyStep

\* BOOLEAN-valued variables.
Booleans == stopWorker \in BOOLEAN /\ alive \in BOOLEAN

LEMMA BooleansHold == Spec => []Booleans
<1>1. Init => Booleans
  BY Zenon DEF Init, Booleans
<1>2. Booleans /\ [Next]_vars => Booleans'
  BY Zenon DEF Booleans, Next, Main, Worker, vars, mainVars, workerVars,
    Submit, SwapPhrases, StoreStop, Load, NotifyOne, FirePhrase, FireDone,
    FireThrows, NotifyAll, JoinAndFree, CheckJobs, Block, TakeJob,
    NothingRecognized, QueuePhrase, SpuriousWake
<1> QED
  BY <1>1, <1>2, PTL DEF Spec

\* Types, and the limits of both queues.
THEOREM TypeCorrect == Spec => []TypeOK
<1>1. Places /\ Data /\ Booleans => TypeOK
  BY Zenon DEF Places, Data, Booleans, TypeOK
<1> QED
  BY <1>1, PlacesInit, PlacesStep, DataInit, DataStep, BooleansHold, PTL
  DEF Spec

NewestInv == Newest(audioJobQueue, spoken)

LEMMA NewestInit == Init => NewestInv
BY EmptyProps DEF Init, NewestInv

LEMMA NewestStep == Data /\ NewestInv /\ [Next]_vars => NewestInv'
<1> SUFFICES ASSUME Data, NewestInv, [Next]_vars PROVE NewestInv'
  OBVIOUS
<1> USE DEF Data, NewestInv, MainGoto, Notified, vars, mainVars, workerVars
<1>1. CASE Submit
  <2>1. audioJobQueue \in Seq(Utterances) /\ spoken + 1 \in Utterances
        /\ MaxQueuedAudioJobs \in Nat /\ MaxQueuedAudioJobs > 0
        /\ (spoken + 1) - 1 = spoken
    BY <1>1, BoundsAssumption DEF Submit, Utterances
  <2>2. audioJobQueue' =
          PushDropOldest(audioJobQueue, spoken + 1, MaxQueuedAudioJobs)
        /\ spoken' = spoken + 1
    BY <1>1 DEF Submit
  <2>3. Newest(audioJobQueue, (spoken + 1) - 1)
    BY <2>1
  <2>4. Newest(PushDropOldest(audioJobQueue, spoken + 1, MaxQueuedAudioJobs),
               spoken + 1)
    BY <2>1, <2>3, PushProps
  <2> QED
    BY <2>2, <2>4
<1>2. CASE SwapPhrases
  BY <1>2 DEF SwapPhrases
<1>3. CASE StoreStop
  BY <1>3 DEF StoreStop
<1>4. CASE Load
  BY <1>4, EmptyProps DEF Load
<1>5. CASE NotifyOne
  BY <1>5 DEF NotifyOne
<1>6. CASE FirePhrase
  BY <1>6 DEF FirePhrase
<1>7. CASE FireDone
  BY <1>7 DEF FireDone
<1>8. CASE FireThrows
  BY <1>8 DEF FireThrows
<1>9. CASE NotifyAll
  BY <1>9 DEF NotifyAll
<1>10. CASE JoinAndFree
  BY <1>10 DEF JoinAndFree
<1>11. CASE CheckJobs
  BY <1>11 DEF CheckJobs
<1>12. CASE Block
  BY <1>12 DEF Block
<1>13. CASE TakeJob
  <2>1. CASE stopWorker
    BY <1>13, <2>1 DEF TakeJob
  <2>2. CASE ~stopWorker
    <3>1. audioJobQueue # <<>> /\ spoken \in Nat /\ spoken' = spoken
          /\ audioJobQueue' = Tail(audioJobQueue)
      BY <1>13, <2>2, BoundsAssumption DEF TakeJob
    <3> QED
      BY <3>1, PopProps
  <2> QED
    BY <2>1, <2>2
<1>14. CASE NothingRecognized
  BY <1>14 DEF NothingRecognized
<1>15. CASE QueuePhrase
  BY <1>15 DEF QueuePhrase
<1>16. CASE SpuriousWake
  BY <1>16 DEF SpuriousWake
<1>17. CASE UNCHANGED vars
  BY <1>17
<1> HIDE DEF NewestInv, vars
<1> QED
  BY <1>1, <1>2, <1>3, <1>4, <1>5, <1>6, <1>7, <1>8, <1>9, <1>10, <1>11,
     <1>12, <1>13, <1>14, <1>15, <1>16, <1>17, StepCases DEF AnyStep

\* SubmitCurrentUtterance: a full queue loses its oldest utterance, never the
\* newest, and the worker takes them from the old end.
THEOREM NewestWordsKept == Spec => []KeepsNewest
<1>1. NewestInv => KeepsNewest
  BY DEF NewestInv, Newest, KeepsNewest
<1> QED
  BY <1>1, DataInit, DataStep, NewestInit, NewestStep, PTL DEF Spec

-----------------------------------------------------------------------------
(* The condition variable: no wake-up is missed, on which                  *)
(* SpokenIsDealtWith and UnloadReturnsIfAwake rest.                        *)

Asleep == worker \in {"block", "blocked"}

SleepInv ==
  /\ stopWorker <=> main \in {"notify_all", "join", "unloaded"}
  /\ worker = "block" => audioJobQueue = <<>>
  /\ worker = "blocked" /\ audioJobQueue # <<>> => main = "notify"

LEMMA SleepInit == Init => SleepInv
BY DEF Init, SleepInv

LEMMA SleepStep == SleepInv /\ [Next]_vars => SleepInv'
<1> SUFFICES ASSUME SleepInv, [Next]_vars PROVE SleepInv'
  OBVIOUS
<1> USE DEF SleepInv, MainGoto, Notified, vars, mainVars, workerVars
<1>1. CASE Submit
  BY <1>1 DEF Submit, JobMutexFree
<1>2. CASE SwapPhrases
  BY <1>2 DEF SwapPhrases
<1>3. CASE StoreStop
  BY <1>3 DEF StoreStop
<1>4. CASE Load
  BY <1>4 DEF Load
<1>5. CASE NotifyOne
  BY <1>5 DEF NotifyOne
<1>6. CASE FirePhrase
  BY <1>6 DEF FirePhrase
<1>7. CASE FireDone
  BY <1>7 DEF FireDone
<1>8. CASE FireThrows
  BY <1>8 DEF FireThrows
<1>9. CASE NotifyAll
  BY <1>9 DEF NotifyAll
<1>10. CASE JoinAndFree
  BY <1>10 DEF JoinAndFree
<1>11. CASE CheckJobs
  BY <1>11 DEF CheckJobs
<1>12. CASE Block
  BY <1>12 DEF Block
<1>13. CASE TakeJob
  BY <1>13 DEF TakeJob
<1>14. CASE NothingRecognized
  BY <1>14 DEF NothingRecognized
<1>15. CASE QueuePhrase
  BY <1>15 DEF QueuePhrase
<1>16. CASE SpuriousWake
  BY <1>16 DEF SpuriousWake
<1>17. CASE UNCHANGED vars
  BY <1>17
<1> HIDE DEF SleepInv, vars
<1> QED
  BY <1>1, <1>2, <1>3, <1>4, <1>5, <1>6, <1>7, <1>8, <1>9, <1>10, <1>11,
     <1>12, <1>13, <1>14, <1>15, <1>16, <1>17, StepCases DEF AnyStep

LEMMA SleepInvHolds == Spec => []SleepInv
BY SleepInit, SleepStep, PTL DEF Spec

\* SubmitCurrentUtterance notifies after it released the lock: even so the
\* worker never sleeps over a job, unless the notification is still to come.
THEOREM NoJobSleptOver ==
  Spec => [](worker = "blocked" /\ audioJobQueue # <<>> => main = "notify")
<1>1. SleepInv => (worker = "blocked" /\ audioJobQueue # <<>> => main = "notify")
  BY DEF SleepInv
<1> QED
  BY <1>1, SleepInvHolds, PTL

\* A worker that is awake when ~WhisperVoice comes to its join does not go to
\* sleep again: the only wake-up that can be missed is the one of the finding.
THEOREM StaysAwakeToEnd ==
  Spec => [][main = "join" /\ ~Asleep => ~Asleep']_vars
<1>1. SleepInv /\ [Next]_vars => [main = "join" /\ ~Asleep => ~Asleep']_vars
  <2> SUFFICES ASSUME SleepInv, [Next]_vars, main = "join", ~Asleep
               PROVE  ~Asleep' \/ UNCHANGED vars
    OBVIOUS
  <2>1. stopWorker
    BY DEF SleepInv
  <2> USE DEF MainGoto, Notified, mainVars, workerVars, Asleep
  <2>2. ASSUME Submit \/ SwapPhrases \/ StoreStop \/ Load \/ NotifyOne
               \/ FirePhrase \/ FireDone \/ FireThrows \/ NotifyAll
        PROVE  FALSE
    BY <2>2 DEF Submit, SwapPhrases, StoreStop, Load, NotifyOne, FirePhrase,
                FireDone, FireThrows, NotifyAll
  <2>3. ASSUME JoinAndFree PROVE ~Asleep'
    BY <2>3 DEF JoinAndFree
  <2>4. ASSUME CheckJobs PROVE ~Asleep'
    BY <2>1, <2>4 DEF CheckJobs
  <2>5. ASSUME TakeJob PROVE ~Asleep'
    BY <2>5 DEF TakeJob
  <2>6. ASSUME NothingRecognized \/ QueuePhrase PROVE ~Asleep'
    BY <2>6 DEF NothingRecognized, QueuePhrase
  <2>7. ASSUME Block \/ SpuriousWake PROVE ~Asleep'
    BY <2>7 DEF Block, SpuriousWake
  <2> HIDE DEF Asleep
  <2> QED
    BY <2>2, <2>3, <2>4, <2>5, <2>6, <2>7, StepCases DEF AnyStep
<1> QED
  BY <1>1, SleepInvHolds, PTL DEF Spec

-----------------------------------------------------------------------------
(* The order of utterances on their way to the game.                       *)

Earlier == {fired} \cup Ids(phrasesToFire) \cup Ids(pendingPhrasesQueue)
             \cup InWork
Heard == Earlier \cup Ids(audioJobQueue)

OrderInv ==
  /\ InOrder
  /\ Increasing(audioJobQueue)
  /\ Before(Heard, {spoken + 1})

LEMMA HeardInNat == Data => \A a \in Heard : a \in Nat
<1> SUFFICES ASSUME Data PROVE \A a \in Heard : a \in Nat
  OBVIOUS
<1>1. ASSUME NEW q \in Seq(Utterances) PROVE \A a \in Ids(q) : a \in Nat
  <2>1. \A i \in DOMAIN q : q[i] \in Utterances
    OBVIOUS
  <2> QED
    BY <2>1 DEF Ids, Utterances
<1>2. fired \in Nat /\ audioData \in Nat
  BY DEF Data
<1> QED
  BY <1>1, <1>2 DEF Data, Heard, Earlier, InWork

LEMMA OrderInit == Init => OrderInv
BY EmptyProps
DEF Init, OrderInv, InOrder, Before, Heard, Earlier, InWork

LEMMA OrderStep == Data /\ OrderInv /\ [Next]_vars => OrderInv'
<1> SUFFICES ASSUME Data, OrderInv, [Next]_vars PROVE OrderInv'
  OBVIOUS
<1> USE DEF Data, OrderInv, InOrder, Earlier, MainGoto, Notified, vars,
            mainVars, workerVars
<1>1. CASE Submit
  <2> DEFINE x == spoken + 1
             w == PushDropOldest(audioJobQueue, x, MaxQueuedAudioJobs)
  <2>1. audioJobQueue \in Seq(Utterances) /\ x \in Utterances
        /\ MaxQueuedAudioJobs \in Nat /\ MaxQueuedAudioJobs > 0
        /\ spoken \in Nat
    BY <1>1, BoundsAssumption DEF Submit, Utterances
  <2>2. audioJobQueue' = w /\ spoken' = x
        /\ UNCHANGED <<phrasesToFire, pendingPhrasesQueue, audioData, fired>>
    BY <1>1 DEF Submit
  <2>3. Increasing(audioJobQueue) /\ Before(Ids(audioJobQueue), {x})
    BY DEF Before, Heard
  <2>4. Ids(w) \subseteq Ids(audioJobQueue) \cup {x} /\ Increasing(w)
    BY <2>1, <2>3, PushProps
  <2>5. \A a \in Heard : a \in Nat /\ a < x
    BY <2>1, HeardInNat DEF Heard, Before
  <2> HIDE DEF x, w
  <2>6. Before(Heard \cup {x}, {x + 1})
    BY <2>1, <2>5 DEF Before, Utterances
  <2>7. Before(Earlier, Ids(w))
    BY <2>4, <2>5 DEF Before, Heard, Earlier
  <2> QED
    BY <2>2, <2>4, <2>6, <2>7 DEF Before, Heard, Earlier, InWork
<1>2. CASE SwapPhrases
  <2>1. /\ phrasesToFire' = pendingPhrasesQueue
        /\ Ids(pendingPhrasesQueue') = {}
        /\ Increasing(pendingPhrasesQueue')
        /\ UNCHANGED <<spoken, fired, audioData, audioJobQueue>>
    BY <1>2, EmptyProps DEF SwapPhrases
  <2> QED
    BY <2>1 DEF Before, Heard, InWork
<1>3. CASE StoreStop
  BY <1>3 DEF StoreStop, Heard, InWork
<1>4. CASE Load
  <2>1. Ids(<<>>) = {} /\ Increasing(<<>>)
    BY EmptyProps
  <2> QED
    BY <1>4, <2>1 DEF Load, Before, Heard, InWork
<1>5. CASE NotifyOne
  BY <1>5 DEF NotifyOne, Heard, InWork
<1>6. CASE FirePhrase
  <2>1. /\ fired' = Head(phrasesToFire) /\ phrasesToFire' = Tail(phrasesToFire)
        /\ phrasesToFire # <<>>
        /\ UNCHANGED <<spoken, audioData, audioJobQueue, pendingPhrasesQueue>>
    BY <1>6 DEF FirePhrase
  <2>2. /\ fired' \in Ids(phrasesToFire)
        /\ Ids(phrasesToFire') \subseteq Ids(phrasesToFire)
        /\ Increasing(phrasesToFire')
        /\ Before({fired'}, Ids(phrasesToFire'))
    BY <2>1, PopProps
  <2>3. Heard' \subseteq Heard
    BY <2>1, <2>2 DEF Heard, InWork
  <2>4. Before(Heard', {spoken' + 1})
    BY <2>1, <2>3 DEF Before
  <2>5. InOrder'
    <3> HIDE DEF Data
    <3> QED
      BY <2>1, <2>2 DEF Before, InWork
  <2> QED
    BY <2>1, <2>4, <2>5
<1>7. CASE FireDone
  BY <1>7 DEF FireDone, Heard, InWork
<1>8. CASE FireThrows
  <2>1. /\ Ids(phrasesToFire') = {} /\ Increasing(phrasesToFire')
        /\ UNCHANGED <<spoken, fired, audioData, audioJobQueue,
                       pendingPhrasesQueue>>
    BY <1>8, EmptyProps DEF FireThrows
  <2> QED
    BY <2>1 DEF Before, Heard, InWork
<1>9. CASE NotifyAll
  BY <1>9 DEF NotifyAll, Heard, InWork
<1>10. CASE JoinAndFree
  BY <1>10 DEF JoinAndFree, Heard, InWork
<1>11. CASE CheckJobs
  BY <1>11 DEF CheckJobs, Heard, InWork
<1>12. CASE Block
  BY <1>12 DEF Block, Heard, InWork
<1>13. CASE TakeJob
  <2>1. CASE stopWorker
    BY <1>13, <2>1 DEF TakeJob, Before, Heard, InWork
  <2>2. CASE ~stopWorker
    <3>1. /\ audioJobQueue # <<>>
          /\ audioData' = Head(audioJobQueue)
          /\ audioJobQueue' = Tail(audioJobQueue)
          /\ UNCHANGED <<spoken, fired, phrasesToFire, pendingPhrasesQueue>>
      BY <1>13, <2>2 DEF TakeJob
    <3>2. /\ audioData' \in Ids(audioJobQueue)
          /\ Ids(audioJobQueue') \subseteq Ids(audioJobQueue)
          /\ Increasing(audioJobQueue')
          /\ Before({audioData'}, Ids(audioJobQueue'))
      BY <3>1, PopProps
    <3>3. Heard' \subseteq Heard
      BY <3>1, <3>2 DEF Heard, InWork
    <3>4. Before(Heard', {spoken' + 1})
      BY <3>1, <3>3 DEF Before
    <3>5. InOrder'
      <4> HIDE DEF Data
      <4> QED
        BY <3>1, <3>2 DEF Before, InWork
    <3> QED
      BY <3>1, <3>2, <3>4, <3>5
  <2> QED
    BY <2>1, <2>2
<1>14. CASE NothingRecognized
  BY <1>14 DEF NothingRecognized, Before, Heard, InWork
<1>15. CASE QueuePhrase
  <2> DEFINE w == PushDropOldest(pendingPhrasesQueue, audioData,
                                 MaxQueuedPhrases)
  <2>1. pendingPhrasesQueue \in Seq(Utterances) /\ audioData \in Utterances
        /\ MaxQueuedPhrases \in Nat /\ MaxQueuedPhrases > 0
        /\ audioData # 0
    BY <1>15, BoundsAssumption DEF QueuePhrase, Utterances
  <2>2. /\ pendingPhrasesQueue' = w /\ audioData' = 0
        /\ UNCHANGED <<spoken, fired, phrasesToFire, audioJobQueue>>
    BY <1>15 DEF QueuePhrase
  <2>3. Before(Ids(pendingPhrasesQueue), {audioData})
    BY <2>1 DEF Before, InWork
  <2>4. Ids(w) \subseteq Ids(pendingPhrasesQueue) \cup {audioData}
        /\ Increasing(w)
    BY <2>1, <2>3, PushProps
  <2> HIDE DEF w
  <2> QED
    BY <2>1, <2>2, <2>4 DEF Before, Heard, InWork
<1>16. CASE SpuriousWake
  BY <1>16 DEF SpuriousWake, Heard, InWork
<1>17. CASE UNCHANGED vars
  BY <1>17 DEF Heard, InWork
<1> HIDE DEF OrderInv, vars
<1> QED
  BY <1>1, <1>2, <1>3, <1>4, <1>5, <1>6, <1>7, <1>8, <1>9, <1>10, <1>11,
     <1>12, <1>13, <1>14, <1>15, <1>16, <1>17, StepCases DEF AnyStep

\* uiUpdate, the worker and both queues together: phrases reach the game in the
\* order of speech, none of them twice.
THEOREM PhrasesInOrder == Spec => []InOrder
<1>1. OrderInv => InOrder
  BY DEF OrderInv
<1> QED
  BY <1>1, DataInit, DataStep, OrderInit, OrderStep, PTL DEF Spec

-----------------------------------------------------------------------------
(* VoiceCapture.  Arithmetic of places in the ring: n-th sample, place     *)
(* (n - 1) % Clip.                                                         *)

\* Multiples of c are c apart.
LEMMA Multiples ==
  ASSUME NEW c \in Nat \ {0}, NEW a \in Int, NEW b \in Int
  PROVE  /\ c * a \in Int
         /\ a > b => c * a >= c * b + c
         /\ a >= b => c * a >= c * b
<1>1. c * a \in Int /\ c * b \in Int
  OBVIOUS
<1>2. a > b => c * a >= c * b + c
  <2> SUFFICES ASSUME a > b PROVE c * a >= c * b + c
    OBVIOUS
  <2> DEFINE d == a - b - 1
  <2>1. d \in Nat /\ a = d + b + 1
    OBVIOUS
  <2>2. c * d >= 0
    BY <2>1
  <2>3. c * a = c * d + c * b + c
    BY <2>1
  <2> HIDE DEF d
  <2>4. c * d \in Int
    BY <2>1
  <2> QED BY <2>2, <2>3, <2>4, <1>1
<1> QED BY <1>1, <1>2

\* The remainder, and what it is the remainder of.
LEMMA ModFacts ==
  ASSUME NEW x \in Int
  PROVE  /\ x % Clip \in 0..(Clip - 1)
         /\ \E a \in Int : Clip * a \in Int /\ x = Clip * a + (x % Clip)
<1>1. Clip \in Nat \ {0}
  BY SizesAssumption
<1>2. x % Clip \in 0..(Clip - 1)
  BY <1>1
<1>3. x \div Clip \in Int
  BY <1>1
<1>4. x = Clip * (x \div Clip) + (x % Clip)
  BY <1>1
<1>5. Clip * (x \div Clip) \in Int
  BY <1>1, <1>3
<1> QED BY <1>2, <1>3, <1>4, <1>5

\* A place is one number only.
LEMMA ModUnique ==
  ASSUME NEW a \in Int, NEW r \in 0..(Clip - 1)
  PROVE  (Clip * a + r) % Clip = r
<1> DEFINE x == Clip * a + r
<1>1. Clip \in Nat \ {0} /\ Clip * a \in Int /\ x \in Int
  BY SizesAssumption
<1>2. PICK b \in Int : x = Clip * b + (x % Clip)
  BY <1>1, ModFacts
<1>3. x % Clip \in 0..(Clip - 1)
  BY <1>1, ModFacts
<1> DEFINE m == x % Clip
           A == Clip * a
           B == Clip * b
<1>7. /\ a > b => A >= B + Clip
      /\ b > a => B >= A + Clip
      /\ A \in Int /\ B \in Int
  BY <1>1, Multiples
<1>8. x = A + r /\ x = B + m /\ m \in 0..(Clip - 1)
  BY <1>2, <1>3
<1> HIDE DEF x, A, B, m
<1>4. ~(a > b)
  BY <1>1, <1>7, <1>8
<1>5. ~(b > a)
  BY <1>1, <1>7, <1>8
<1>6. a = b
  BY <1>4, <1>5
<1>9. m = r
  BY <1>1, <1>6, <1>7, <1>8 DEF A, B
<1> QED BY <1>9 DEF m, x

\* The ring.  y is the last sample up to w at the place of sample x.
LEMMA LatestAtPlace ==
  ASSUME NEW w \in Nat, NEW x \in 0..w
  PROVE  LET y == w - ((w - (x % Clip)) % Clip)
         IN  y \in x..w /\ y % Clip = x % Clip /\ (w - x < Clip => y = x)
<1> DEFINE p == x % Clip
           m == (w - x) % Clip
<1>1. PICK a \in Int : Clip * a \in Int /\ x = Clip * a + p
  BY ModFacts
<1>2. PICK b \in Int : Clip * b \in Int /\ w - x = Clip * b + m
  BY ModFacts
<1>3. /\ p \in 0..(Clip - 1) /\ m \in 0..(Clip - 1) /\ Clip \in Nat \ {0}
      /\ Clip * a \in Int /\ Clip * b \in Int
  BY <1>1, <1>2, ModFacts, SizesAssumption
<1>4. (w - p) % Clip = m
  <2>1. w - p = Clip * (a + b) + m
    <3>1. Clip * (a + b) = Clip * a + Clip * b
      BY <1>3
    <3> HIDE DEF p, m
    <3> QED
      BY <1>1, <1>2, <1>3, <3>1
  <2>2. a + b \in Int
    OBVIOUS
  <2> HIDE DEF p, m
  <2> QED
    BY <1>3, <2>1, <2>2, ModUnique
<1>5. w - m = x + Clip * b
  <2> HIDE DEF p, m
  <2> QED
    BY <1>2, <1>3
<1>6. (w - m) % Clip = p
  <2>1. w - m = Clip * (a + b) + p
    <3>1. Clip * (a + b) = Clip * a + Clip * b
      BY <1>3
    <3> HIDE DEF p, m
    <3> QED
      BY <1>1, <1>3, <1>5, <3>1
  <2>2. a + b \in Int
    OBVIOUS
  <2> HIDE DEF p, m
  <2> QED
    BY <1>3, <2>1, <2>2, ModUnique
<1>7. b >= 0
  <2>1. 0 > b => Clip * 0 >= Clip * b + Clip
    BY <1>3, Multiples
  <2> HIDE DEF p, m
  <2> QED
    BY <1>2, <1>3, <2>1
<1>8. Clip * b >= 0 /\ (b > 0 => Clip * b >= Clip)
  BY <1>3, <1>7, Multiples
<1>9. w - x < Clip => m = w - x
  <2> HIDE DEF p, m
  <2> QED
    BY <1>2, <1>3, <1>7, <1>8
<1> HIDE DEF p, m
<1>10. w - m \in x..w /\ (w - x < Clip => w - m = x)
  BY <1>3, <1>5, <1>8, <1>9
<1> QED
  BY <1>4, <1>6, <1>10 DEF p

\* Going on from a place.
LEMMA ModPlus ==
  ASSUME NEW x \in Int, NEW k \in Int
  PROVE  ((x % Clip) + k) % Clip = (x + k) % Clip
<1> DEFINE p == x % Clip
           m == (p + k) % Clip
<1>1. PICK a \in Int : Clip * a \in Int /\ x = Clip * a + p
  BY ModFacts
<1>2. p \in 0..(Clip - 1) /\ Clip \in Nat \ {0} /\ Clip * a \in Int
  BY ModFacts, SizesAssumption
<1>3. p + k \in Int
  BY <1>2
<1>4. PICK b \in Int : Clip * b \in Int /\ p + k = Clip * b + m
  BY <1>3, ModFacts
<1>5. m \in 0..(Clip - 1) /\ Clip * b \in Int
  BY <1>3, <1>4, ModFacts
<1>6. x + k = Clip * (a + b) + m
  <2>1. Clip * (a + b) = Clip * a + Clip * b
    BY <1>2
  <2> HIDE DEF p, m
  <2> QED
    BY <1>1, <1>2, <1>4, <1>5, <2>1
<1>7. a + b \in Int
  OBVIOUS
<1> HIDE DEF m
<1>8. (x + k) % Clip = m
  BY <1>5, <1>6, <1>7, ModUnique
<1> QED
  BY <1>8 DEF m

\* How many samples lie between two places, taken and q samples into the
\* capture.
LEMMA ReadSize ==
  ASSUME NEW t \in Nat, NEW q \in Nat, t <= q, t % Clip # q % Clip
  PROVE  LET n == SampleFramesToRead(t % Clip, q % Clip)
         IN  n \in 1..(q - t) /\ (q - t <= Clip => n = q - t)
<1> DEFINE l == t % Clip
           c == q % Clip
           n == SampleFramesToRead(l, c)
<1>1. PICK a \in Int : Clip * a \in Int /\ t = Clip * a + l
  BY ModFacts
<1>2. PICK b \in Int : Clip * b \in Int /\ q = Clip * b + c
  BY ModFacts
<1> DEFINE A == Clip * a
           B == Clip * b
<1>3. /\ l \in 0..(Clip - 1) /\ c \in 0..(Clip - 1) /\ l # c
      /\ Clip \in Nat \ {0} /\ A \in Int /\ B \in Int
  BY <1>1, <1>2, ModFacts, SizesAssumption
<1>4. /\ a > b => A >= B + Clip
      /\ b > a => B >= A + Clip
      /\ b > a + 1 => B >= Clip * (a + 1) + Clip
      /\ Clip * (a + 1) = A + Clip
  BY <1>3, Multiples
<1>5. a = b => A = B
  OBVIOUS
<1>6. t = A + l /\ q = B + c
  BY <1>1, <1>2
<1>7. b = a + 1 => B = A + Clip
  BY <1>4
<1>8. n = IF c > l THEN c - l ELSE Clip - l + c
  BY DEF SampleFramesToRead
<1> HIDE DEF l, c, n, A, B
<1>9. a = b \/ b = a + 1 \/ b > a + 1
  BY <1>3, <1>4, <1>6
<1>10. n \in 1..(q - t) /\ (q - t <= Clip => n = q - t)
  BY <1>3, <1>4, <1>5, <1>6, <1>7, <1>8, <1>9
<1> QED
  BY <1>10 DEF n, l, c

\* What the ring holds at the place of sample x: that one, or a later one.
LEMMA RingHolds ==
  ASSUME written \in Nat, base \in Nat, NEW x \in 1..written
  PROVE  LET v == RingAt((x - 1) % Clip)
         IN  /\ v \in (base + x)..(base + written)
             /\ written - x < Clip => v = base + x
<1> DEFINE w == written - 1
           p == (x - 1) % Clip
           y == w - ((w - p) % Clip)
<1>1. w \in Nat /\ x - 1 \in 0..w
  OBVIOUS
<1>2. y \in (x - 1)..w /\ (w - (x - 1) < Clip => y = x - 1)
  BY <1>1, LatestAtPlace
<1>3. p \in 0..w
  <2>1. p <= x - 1
    BY SizesAssumption
  <2>2. p >= 0 /\ p \in Int
    BY ModFacts
  <2> HIDE DEF p
  <2> QED
    BY <2>1, <2>2
<1>4. RingAt(p) = base + written - ((written - 1 - p) % Clip)
  <2> HIDE DEF p
  <2> QED
    BY <1>3 DEF RingAt
<1> DEFINE d == (w - p) % Clip
<1>5. d \in Int /\ Clip \in Nat
  BY <1>3, ModFacts, SizesAssumption
<1>6. RingAt(p) = base + written - d /\ y = w - d
  BY <1>4
<1> HIDE DEF p, d, y
<1>7. RingAt(p) = base + y + 1
  BY <1>5, <1>6
<1>8. RingAt(p) \in (base + x)..(base + written)
      /\ (written - x < Clip => RingAt(p) = base + x)
  BY <1>2, <1>5, <1>7
<1> QED
  BY <1>8 DEF p

-----------------------------------------------------------------------------
(* Runs of samples.                                                        *)

\* All of s was recorded after b.
Above(s, b) == \A i \in DOMAIN s : s[i] > b

\* Joining, cutting and trimming runs gives runs.
LEMMA JoinProps ==
  ASSUME NEW s \in Seq(Samples), NEW t \in Seq(Samples)
  PROVE  /\ s \o t \in Seq(Samples) /\ Len(s \o t) = Len(s) + Len(t)
         /\ \A e \in Int : Newest(s, e - Len(t)) /\ Newest(t, e)
                             => Newest(s \o t, e)
         /\ \A b \in Int : Above(s, b) /\ Above(t, b) => Above(s \o t, b)
<1> DEFINE u == s \o t
<1>1. /\ Len(s) \in Nat /\ Len(t) \in Nat
      /\ DOMAIN s = 1..Len(s) /\ DOMAIN t = 1..Len(t)
  OBVIOUS
<1>2. /\ u \in Seq(Samples) /\ Len(u) = Len(s) + Len(t)
      /\ DOMAIN u = 1..(Len(s) + Len(t))
      /\ \A i \in 1..Len(s) : u[i] = s[i]
      /\ \A i \in DOMAIN u : i > Len(s) => u[i] = t[i - Len(s)]
  OBVIOUS
<1> HIDE DEF u
<1>3. \A i \in DOMAIN u : \/ i \in 1..Len(s)
                          \/ i > Len(s) /\ i - Len(s) \in 1..Len(t)
  BY <1>1, <1>2
<1>4. ASSUME NEW e \in Int, Newest(s, e - Len(t)), Newest(t, e),
             NEW i \in DOMAIN u
      PROVE  u[i] = e - Len(u) + i
  BY <1>1, <1>2, <1>3, <1>4 DEF Newest
<1>5. ASSUME NEW b \in Int, Above(s, b), Above(t, b), NEW i \in DOMAIN u
      PROVE  u[i] > b
  BY <1>1, <1>2, <1>3, <1>5 DEF Above
<1> QED
  BY <1>2, <1>4, <1>5 DEF u, Newest, Above

LEMMA CutProps ==
  ASSUME NEW s \in Seq(Samples), NEW n \in 0..Len(s)
  PROVE  LET f == SubSeq(s, 1, n)
             r == SubSeq(s, n + 1, Len(s))
         IN  /\ f \in Seq(Samples) /\ Len(f) = n
             /\ r \in Seq(Samples) /\ Len(r) = Len(s) - n
             /\ \A e \in Int : Newest(s, e) =>
                  Newest(f, e - Len(r)) /\ Newest(r, e)
             /\ \A b \in Int : Above(s, b) => Above(f, b) /\ Above(r, b)
             /\ \A i \in 1..n : f[i] = s[i]
<1> DEFINE f == SubSeq(s, 1, n)
           r == SubSeq(s, n + 1, Len(s))
<1>1. Len(s) \in Nat /\ DOMAIN s = 1..Len(s) /\ n \in Nat /\ n <= Len(s)
  OBVIOUS
<1>2. /\ f \in Seq(Samples) /\ Len(f) = n /\ DOMAIN f = 1..n
      /\ \A i \in 1..n : f[i] = s[i]
  BY <1>1, SubSeqProperties
<1>3. /\ r \in Seq(Samples) /\ Len(r) = Len(s) - n
      /\ DOMAIN r = 1..(Len(s) - n)
      /\ \A i \in 1..(Len(s) - n) : r[i] = s[n + i]
  <2>1. n + 1 \in 1..(Len(s) + 1) /\ Len(s) \in 0..Len(s)
    BY <1>1
  <2>2. /\ r \in Seq(Samples)
        /\ Len(r) = IF n + 1 <= Len(s) THEN Len(s) - (n + 1) + 1 ELSE 0
        /\ \A i \in 1..(Len(s) - (n + 1) + 1) : r[i] = s[(n + 1) + i - 1]
    BY <2>1, SubSeqProperties
  <2> HIDE DEF r
  <2>5. Len(r) = Len(s) - n
    <3>1. CASE n + 1 <= Len(s)
      BY <1>1, <2>2, <3>1
    <3>2. CASE ~(n + 1 <= Len(s))
      <4>1. n = Len(s)
        <5> DEFINE k == Len(s)
        <5>1. k \in Nat /\ n <= k /\ ~(n + 1 <= k) /\ n \in Nat
          BY <1>1, <3>2
        <5> HIDE DEF k
        <5>2. n = k
          BY <5>1
        <5> QED
          BY <5>2 DEF k
      <4>2. Len(r) = 0
        BY <2>2, <3>2
      <4> QED
        BY <1>1, <4>1, <4>2
    <3> QED
      BY <3>1, <3>2
  <2>6. DOMAIN r = 1..Len(r)
    BY <2>2
  <2>3. Len(r) = Len(s) - n /\ DOMAIN r = 1..Len(r)
    BY <2>5, <2>6
  <2>4. \A i \in 1..(Len(s) - n) : /\ i \in 1..(Len(s) - (n + 1) + 1)
                                  /\ n + 1 + i - 1 = n + i
    BY <1>1
  <2> QED
    BY <2>2, <2>3, <2>4
<1> HIDE DEF f, r
<1>4. \A i \in 1..(Len(s) - n) : n + i \in 1..Len(s)
  BY <1>1
<1>5. ASSUME NEW e \in Int, Newest(s, e)
      PROVE  Newest(f, e - Len(r)) /\ Newest(r, e)
  <2>1. \A i \in 1..Len(s) : s[i] = e - Len(s) + i
    BY <1>1, <1>5 DEF Newest
  <2>2. Newest(f, e - Len(r))
    BY <1>1, <1>2, <1>3, <2>1 DEF Newest
  <2>3. Newest(r, e)
    BY <1>1, <1>3, <1>4, <2>1 DEF Newest
  <2> QED
    BY <2>2, <2>3
<1>6. ASSUME NEW b \in Int, Above(s, b) PROVE Above(f, b) /\ Above(r, b)
  <2>1. \A i \in 1..Len(s) : s[i] > b
    BY <1>1, <1>6 DEF Above
  <2>2. Above(f, b)
    BY <1>1, <1>2, <2>1 DEF Above
  <2>3. Above(r, b)
    BY <1>1, <1>3, <1>4, <2>1 DEF Above
  <2> QED
    BY <2>2, <2>3
<1> QED
  BY <1>2, <1>3, <1>5, <1>6 DEF f, r

LEMMA LastProps ==
  ASSUME NEW s \in Seq(Samples), NEW n \in Nat
  PROVE  LET l == LastN(s, n)
         IN  /\ l \in Seq(Samples)
             /\ Len(l) <= n /\ Len(l) <= Len(s)
             /\ Len(l) = n \/ Len(l) = Len(s)
             /\ \A e \in Int : Newest(s, e) => Newest(l, e)
             /\ \A b \in Int : Above(s, b) => Above(l, b)
<1>1. Len(s) \in Nat
  OBVIOUS
<1>2. CASE Len(s) <= n
  BY <1>1, <1>2 DEF LastN
<1>3. CASE ~(Len(s) <= n)
  <2> DEFINE m == Len(s) - n
  <2>1. m \in 0..Len(s) /\ m + 1 = Len(s) - n + 1 /\ Len(s) - m = n
    BY <1>1, <1>3
  <2>2. LastN(s, n) = SubSeq(s, m + 1, Len(s))
    BY <1>3, <2>1 DEF LastN
  <2> DEFINE r == SubSeq(s, m + 1, Len(s))
  <2>3. /\ r \in Seq(Samples) /\ Len(r) = Len(s) - m
        /\ \A e \in Int : Newest(s, e) => Newest(r, e)
        /\ \A b \in Int : Above(s, b) => Above(r, b)
    BY <2>1, CutProps
  <2> HIDE DEF m, r
  <2> QED
    BY <1>1, <1>3, <2>1, <2>2, <2>3 DEF r
<1> QED
  BY <1>2, <1>3

\* The last of a run, and that it is one.
LEMMA RunProps ==
  ASSUME NEW s \in Seq(Samples), s # <<>>, NEW e \in Int, Newest(s, e)
  PROVE  /\ s[Len(s)] = e /\ Consecutive(s)
         /\ \A i \in DOMAIN s : s[i] <= e
<1>1. Len(s) \in Nat /\ Len(s) > 0 /\ DOMAIN s = 1..Len(s)
  OBVIOUS
<1>2. \A i \in 1..(Len(s) - 1) : i \in 1..Len(s) /\ i + 1 \in 1..Len(s)
  BY <1>1
<1>3. \A i \in 1..Len(s) : s[i] = e - Len(s) + i
  BY <1>1 DEF Newest
<1>4. Len(s) \in 1..Len(s)
  BY <1>1
<1>5. Consecutive(s)
  BY <1>1, <1>2, <1>3 DEF Consecutive
<1> QED
  BY <1>1, <1>3, <1>4, <1>5

LEMMA NoSamples ==
  /\ <<>> \in Seq(Samples) /\ Len(<<>>) = 0
  /\ \A e : Newest(<<>>, e)
  /\ \A b : Above(<<>>, b)
BY DEF Newest, Above

-----------------------------------------------------------------------------
(* The inductive invariant of the capture.                                 *)

\* The reader's place in the ring is that of the last sample it took, and the
\* position it is about to read up to is that of a recorded one.
RingInv ==
  /\ activeMicrophoneClip \in BOOLEAN /\ reader \in {"idle", "read", "vad"}
  /\ base \in Nat /\ written \in Nat /\ base + written <= MaxSamples
  /\ taken \in 0..written
  /\ currentPosition \in 0..(Clip - 1) /\ lastMicPosition \in 0..(Clip - 1)
  /\ activeMicrophoneClip => lastMicPosition = taken % Clip
  /\ ~lapped => written - taken <= Clip
  /\ reader = "read" =>
       /\ activeMicrophoneClip /\ currentPosition # lastMicPosition
       /\ \E q \in taken..written : currentPosition = q % Clip

\* Either the pre-roll or the utterance is empty; all that was counted as
\* silence or speech is in the utterance.
BufferInv ==
  /\ vadInputBuffer \in Seq(Samples)
  /\ preRollBuffer \in Seq(Samples) /\ Len(preRollBuffer) <= PreRollSamples
  /\ accumulationBuffer \in Seq(Samples)
  /\ Len(accumulationBuffer) < MaximumUtterance
  /\ isSpeaking \in BOOLEAN
  /\ utteranceSilenceSamples \in Nat /\ utteranceSpeechSamples \in Nat
  /\ utteranceSilenceSamples + utteranceSpeechSamples
       <= Len(accumulationBuffer)
  /\ isSpeaking => preRollBuffer = <<>>
  /\ ~isSpeaking => accumulationBuffer = <<>>

HeldAbove(b) ==
  /\ Above(preRollBuffer, b) /\ Above(accumulationBuffer, b)
  /\ Above(vadInputBuffer, b)

\* The buffers are one run that ends with the last sample taken.
RunInv ==
  /\ HeldAbove(base)
  /\ ~lapped =>
       LET e == base + taken - Len(vadInputBuffer)
       IN  /\ Newest(preRollBuffer, e) /\ Newest(accumulationBuffer, e)
           /\ Newest(vadInputBuffer, base + taken)

\* An utterance ended before everything that is held or still to be read.
SubmittedInv ==
  /\ submitted \in Seq(Samples)
  /\ Len(submitted) < MaximumUtterance + FrameSamples
  /\ clean /\ submitted # <<>> =>
       \E e \in Int : /\ e <= base + taken /\ HeldAbove(e)
                      /\ Newest(submitted, e)
                      /\ Len(submitted) >= MinimumSpeech

CaptureInv == RingInv /\ BufferInv /\ RunInv /\ SubmittedInv

LEMMA SampleFacts ==
  /\ Samples \subseteq Nat /\ 0 \in Samples
  /\ Clip \in Nat /\ Clip > 0 /\ FrameSamples \in Nat /\ FrameSamples > 0
  /\ PreRollSamples \in Nat /\ FrameSamples <= PreRollSamples
  /\ MaximumUtterance \in Nat /\ PreRollSamples < MaximumUtterance
  /\ MinimumSpeech \in Nat /\ MaxSamples \in Nat
BY SizesAssumption DEF Samples

\* What BufferInv asks of empty buffers.
LEMMA NoBuffers ==
  /\ <<>> \in Seq(Samples) /\ Len(<<>>) = 0
  /\ 0 <= PreRollSamples /\ 0 < MaximumUtterance /\ 0 \in Nat /\ 0 + 0 <= 0
BY SampleFacts, NoSamples

LEMMA CaptureStarts == CaptureInit => CaptureInv
<1> SUFFICES ASSUME CaptureInit PROVE CaptureInv
  OBVIOUS
<1>1. RingInv
  <2>1. /\ activeMicrophoneClip = FALSE /\ reader = "idle" /\ base = 0
        /\ written = 0 /\ taken = 0
        /\ currentPosition = 0 /\ lastMicPosition = 0
    BY DEF CaptureInit
  <2>2. /\ 0 \in 0..(Clip - 1) /\ 0 \in 0..0 /\ 0 - 0 <= Clip
        /\ 0 + 0 <= MaxSamples
    BY SampleFacts
  <2> QED
    BY <2>1, <2>2 DEF RingInv
<1>2. BufferInv
  <2>1. /\ vadInputBuffer = <<>> /\ preRollBuffer = <<>>
        /\ accumulationBuffer = <<>> /\ isSpeaking = FALSE
        /\ utteranceSilenceSamples = 0 /\ utteranceSpeechSamples = 0
    BY DEF CaptureInit
  <2> QED
    BY <2>1, NoBuffers DEF BufferInv
<1>3. RunInv
  BY NoSamples DEF RunInv, HeldAbove, CaptureInit
<1>4. SubmittedInv
  BY NoSamples, SampleFacts DEF SubmittedInv, CaptureInit
<1> QED
  BY <1>1, <1>2, <1>3, <1>4 DEF CaptureInv

\* Steps that leave what is held and what was taken alone.
LEMMA HeldStays ==
  ASSUME CaptureInv, UNCHANGED <<base, taken, buffers, utterance>>,
         lapped => lapped'
  PROVE  BufferInv' /\ RunInv' /\ SubmittedInv'
<1> USE DEF CaptureInv, buffers, utterance
<1>1. BufferInv'
  BY DEF BufferInv
<1>2. RunInv'
  BY DEF RunInv, HeldAbove
<1>3. SubmittedInv'
  BY DEF SubmittedInv, HeldAbove
<1> QED
  BY <1>1, <1>2, <1>3

LEMMA RecordInv == ASSUME CaptureInv, Record PROVE CaptureInv'
<1>1. UNCHANGED <<base, taken, buffers, utterance>> /\ (lapped => lapped')
  BY DEF Record
<1>2. RingInv'
  <2>1. /\ written' = written + 1 /\ base' = base /\ taken' = taken
        /\ base + written < MaxSamples
        /\ UNCHANGED <<activeMicrophoneClip, reader, currentPosition,
                       lastMicPosition>>
        /\ lapped' = (lapped \/ written + 1 - taken > Clip)
    BY DEF Record
  <2>2. taken..written \subseteq taken'..written'
    BY <2>1 DEF CaptureInv, RingInv
  <2>3. /\ base' \in Nat /\ written' \in Nat /\ base' + written' <= MaxSamples
        /\ taken' \in 0..written'
        /\ ~lapped' => written' - taken' <= Clip
    <3>1. /\ base \in Nat /\ written \in Nat /\ taken \in 0..written
          /\ Clip \in Nat /\ MaxSamples \in Nat
      BY SampleFacts DEF CaptureInv, RingInv
    <3>2. ~lapped' => ~(written + 1 - taken > Clip)
      BY <2>1, Zenon
    <3>4. ~(written + 1 - taken > Clip) => written + 1 - taken <= Clip
      BY <3>1
    <3>3. base + (written + 1) <= MaxSamples /\ taken \in 0..(written + 1)
      BY <2>1, <3>1
    <3>5. written + 1 \in Nat
      BY <3>1
    <3>6. written' = written + 1 /\ base' = base /\ taken' = taken
      BY <2>1
    <3> QED
      BY <3>1, <3>2, <3>3, <3>4, <3>5, <3>6
  <2>4. /\ activeMicrophoneClip' \in BOOLEAN
        /\ reader' \in {"idle", "read", "vad"}
        /\ currentPosition' \in 0..(Clip - 1)
        /\ lastMicPosition' \in 0..(Clip - 1)
        /\ activeMicrophoneClip' => lastMicPosition' = taken' % Clip
        /\ reader' = "read" =>
             /\ activeMicrophoneClip' /\ currentPosition' # lastMicPosition'
             /\ \E q \in taken'..written' : currentPosition' = q % Clip
    BY <2>1, <2>2 DEF CaptureInv, RingInv
  <2> QED
    BY <2>3, <2>4 DEF RingInv
<1> QED
  BY <1>1, <1>2, HeldStays DEF CaptureInv

LEMMA PollPositionInv == ASSUME CaptureInv, PollPosition PROVE CaptureInv'
<1>1. UNCHANGED <<base, taken, buffers, utterance, lapped>>
  BY DEF PollPosition, recorder
<1>2. RingInv'
  <2>1. UNCHANGED <<activeMicrophoneClip, base, written, taken,
                    lastMicPosition, lapped>>
    BY DEF PollPosition, recorder
  <2>2. CASE UNCHANGED <<reader, currentPosition>>
    BY <2>1, <2>2 DEF CaptureInv, RingInv
  <2>3. CASE /\ activeMicrophoneClip /\ written % Clip # lastMicPosition
             /\ reader' = "read" /\ currentPosition' = written % Clip
    <3>1. written \in taken..written /\ written \in Int
      BY DEF CaptureInv, RingInv
    <3>2. written % Clip \in 0..(Clip - 1)
      BY <3>1, ModFacts
    <3> QED
      BY <2>1, <2>3, <3>1, <3>2 DEF CaptureInv, RingInv
  <2> QED
    BY <2>2, <2>3 DEF PollPosition, GetPosition
<1> QED
  BY <1>1, <1>2, HeldStays DEF CaptureInv

LEMMA ReaderIdleInv ==
  ASSUME CaptureInv, GetDataFails \/ VadDone PROVE CaptureInv'
<1>1. /\ UNCHANGED <<base, taken, buffers, utterance, lapped>>
      /\ UNCHANGED <<activeMicrophoneClip, written, currentPosition,
                     lastMicPosition>>
      /\ reader' = "idle"
  BY DEF GetDataFails, VadDone, recorder
<1>2. RingInv'
  BY <1>1 DEF CaptureInv, RingInv
<1> QED
  BY <1>1, <1>2, HeldStays DEF CaptureInv

\* BeginMicrophoneCapture and EndMicrophoneCapture leave nothing behind.
LEMMA EndUtteranceInv ==
  ASSUME CaptureInv, EndUtterance, base' + taken' \in Nat, base' \in Nat,
         base + taken <= base' + taken'
  PROVE  BufferInv' /\ RunInv' /\ SubmittedInv'
<1>1. /\ preRollBuffer' = <<>> /\ accumulationBuffer' = <<>>
      /\ vadInputBuffer' = <<>>
      /\ isSpeaking' = FALSE
      /\ utteranceSilenceSamples' = 0 /\ utteranceSpeechSamples' = 0
  BY DEF EndUtterance, ResetAudioState
<1>2. BufferInv'
  BY <1>1, NoBuffers DEF BufferInv
<1>3. \A b \in Int : HeldAbove(b)'
  BY <1>1, NoSamples DEF HeldAbove
<1>4. RunInv'
  BY <1>1, NoSamples DEF RunInv, HeldAbove
<1>5. base + taken \in Int /\ Len(vadInputBuffer) \in Nat
      /\ base + taken - Len(vadInputBuffer) <= base + taken
      /\ base + taken - Len(vadInputBuffer) \in Int
  BY DEF CaptureInv, RingInv, BufferInv
<1>6. SubmittedInv'
  <2>1. CASE UNCHANGED <<submitted, clean>>
    BY <1>3, <1>5, <2>1 DEF CaptureInv, SubmittedInv
  <2>2. CASE /\ submitted' = accumulationBuffer /\ clean' = ~lapped
             /\ utteranceSpeechSamples >= MinimumSpeech
    <3>1. Len(accumulationBuffer) < MaximumUtterance + FrameSamples
          /\ Len(accumulationBuffer) >= MinimumSpeech
      BY <2>2, SampleFacts DEF CaptureInv, BufferInv
    <3>2. ~lapped => Newest(accumulationBuffer,
                            base + taken - Len(vadInputBuffer))
      BY DEF CaptureInv, RunInv
    <3>3. accumulationBuffer \in Seq(Samples)
      BY DEF CaptureInv, BufferInv
    <3>4. base + taken - Len(vadInputBuffer) \in Int
          /\ base + taken - Len(vadInputBuffer) <= base' + taken'
      <4> DEFINE h == base + taken - Len(vadInputBuffer)
                 f == base + taken
                 g == base' + taken'
      <4>1. f \in Int /\ h \in Int /\ g \in Int /\ f <= g /\ h <= f
        BY <1>5
      <4> HIDE DEF f, g, h
      <4>2. h \in Int /\ h <= g
        BY <4>1
      <4> QED
        BY <4>2 DEF g, h
    <3> QED
      BY <1>3, <2>2, <3>1, <3>2, <3>3, <3>4 DEF SubmittedInv
  <2> QED
    BY <2>1, <2>2 DEF EndUtterance, Complete
<1> QED
  BY <1>2, <1>4, <1>6

LEMMA BeginCaptureInv ==
  ASSUME CaptureInv, BeginMicrophoneCapture PROVE CaptureInv'
<1>1. /\ activeMicrophoneClip' \in BOOLEAN
      /\ reader = "idle" /\ reader' = reader
      /\ base' = base + written + 1 /\ written' = 0 /\ taken' = 0
      /\ base' <= MaxSamples /\ lastMicPosition' = 0
      /\ currentPosition' = currentPosition
      /\ EndUtterance
  BY DEF BeginMicrophoneCapture, EndUtterance, ResetAudioState
<1>2. RingInv'
  <2>1. 0 % Clip = 0
    BY SampleFacts
  <2> QED
    BY <1>1, <2>1, SampleFacts DEF CaptureInv, RingInv
<1>3. base' + taken' \in Nat /\ base' \in Nat /\ base + taken <= base' + taken'
  BY <1>1 DEF CaptureInv, RingInv
<1> QED
  BY <1>1, <1>2, <1>3, EndUtteranceInv DEF CaptureInv

LEMMA EndCaptureInv ==
  ASSUME CaptureInv, EndMicrophoneCapture PROVE CaptureInv'
<1>1. /\ activeMicrophoneClip' = FALSE /\ reader = "idle"
      /\ lastMicPosition' = 0
      /\ UNCHANGED <<base, written, taken, reader, currentPosition, lapped>>
      /\ EndUtterance
  BY DEF EndMicrophoneCapture, EndUtterance, ResetAudioState
<1>2. 0 \in 0..(Clip - 1)
  BY SampleFacts
<1>3. RingInv'
  BY <1>1, <1>2 DEF CaptureInv, RingInv
<1>4. base' + taken' \in Nat /\ base' \in Nat /\ base + taken <= base' + taken'
  BY <1>1 DEF CaptureInv, RingInv
<1> QED
  BY <1>1, <1>3, <1>4, EndUtteranceInv DEF CaptureInv

LEMMA AboveLess ==
  ASSUME NEW s \in Seq(Samples), NEW b \in Int, NEW d \in Int, d <= b,
         Above(s, b)
  PROVE  Above(s, d)
<1>1. \A i \in DOMAIN s : s[i] \in Int
  <2>1. \A i \in DOMAIN s : s[i] \in Samples
    OBVIOUS
  <2>2. \A i \in DOMAIN s : s[i] \in Nat
    BY <2>1, SampleFacts, Zenon
  <2> QED
    BY <2>2
<1> QED
  BY <1>1 DEF Above

\* What GetData hands over, and how far the reader gets with it.
LEMMA SamplesRead ==
  ASSUME RingInv, reader = "read"
  PROVE  LET n == SampleFramesToRead(lastMicPosition, currentPosition)
             s == [i \in 1..n |-> RingAt((lastMicPosition + i - 1) % Clip)]
             t == written - ((written - currentPosition) % Clip)
         IN  /\ s \in Seq(Samples) /\ Len(s) = n /\ n \in Nat
             /\ Above(s, base + taken)
             /\ t \in taken..written /\ t % Clip = currentPosition
             /\ ~lapped => t = taken + n /\ Newest(s, base + t)
<1> DEFINE n == SampleFramesToRead(lastMicPosition, currentPosition)
           s == [i \in 1..n |-> RingAt((lastMicPosition + i - 1) % Clip)]
           t == written - ((written - currentPosition) % Clip)
<1>1. /\ base \in Nat /\ written \in Nat /\ base + written <= MaxSamples
      /\ taken \in 0..written /\ taken \in Nat
      /\ lastMicPosition = taken % Clip /\ currentPosition # lastMicPosition
      /\ ~lapped => written - taken <= Clip
  BY DEF RingInv
<1>2. PICK q \in taken..written : currentPosition = q % Clip
  BY DEF RingInv
<1>3. /\ q \in Nat /\ taken <= q /\ q \in 0..written
      /\ q - taken <= written - taken
  BY <1>1, <1>2
<1>4. n \in 1..(q - taken) /\ (q - taken <= Clip => n = q - taken)
  <2>1. taken % Clip # q % Clip
    BY <1>1, <1>2
  <2>2. n = SampleFramesToRead(taken % Clip, q % Clip)
    BY <1>1, <1>2
  <2> HIDE DEF n
  <2> QED
    BY <1>1, <1>3, <2>1, <2>2, ReadSize
<1>5. /\ t \in q..written /\ t % Clip = currentPosition
      /\ written - q < Clip => t = q
  <2>1. t = written - ((written - (q % Clip)) % Clip)
    BY <1>2
  <2> HIDE DEF t
  <2> QED
    BY <1>1, <1>2, <1>3, <2>1, LatestAtPlace
<1> HIDE DEF n, t
<1>6. ASSUME NEW i \in 1..n
      PROVE  /\ s[i] \in (base + taken + i)..(base + written)
             /\ ~lapped => s[i] = base + taken + i
  <2> DEFINE x == taken + i
  <2>1. x \in 1..written /\ i - 1 \in Int /\ x - 1 = taken + (i - 1)
    BY <1>1, <1>3, <1>4
  <2>2. ((taken % Clip) + (i - 1)) % Clip = (taken + (i - 1)) % Clip
    BY <1>1, <2>1, ModPlus
  <2>3. lastMicPosition + i - 1 = (taken % Clip) + (i - 1)
    <3>1. taken % Clip \in Int
      BY <1>1, ModFacts
    <3> DEFINE l == taken % Clip
    <3>2. l \in Int /\ lastMicPosition = l /\ i \in Int
      BY <1>1, <1>4, <3>1
    <3> HIDE DEF l
    <3>3. lastMicPosition + i - 1 = l + (i - 1)
      BY <3>2
    <3> QED
      BY <3>3 DEF l
  <2>4. s[i] = RingAt((x - 1) % Clip)
    BY <2>1, <2>2, <2>3
  <2> HIDE DEF x, s
  <2>5. /\ s[i] \in (base + x)..(base + written)
        /\ written - x < Clip => s[i] = base + x
    BY <1>1, <2>1, <2>4, RingHolds
  <2>6. x = taken + i /\ x \in Int /\ i \in Nat /\ i >= 1
    BY <1>4, <2>1 DEF x
  <2>7. ~lapped => written - x < Clip
    BY <1>1, <2>6, SampleFacts
  <2>8. base + x = base + taken + i
    BY <1>1, <2>6
  <2> QED
    BY <2>5, <2>7, <2>8
<1>7. n \in Nat /\ DOMAIN s = 1..n
  BY <1>3, <1>4
<1>8. \A i \in 1..n : s[i] \in Samples
  <2> SUFFICES ASSUME NEW i \in 1..n PROVE s[i] \in Samples
    OBVIOUS
  <2> DEFINE v == s[i]
  <2>1. v \in (base + taken + i)..(base + written)
    BY <1>6, Zenon
  <2>3. i \in Nat
    BY <1>7
  <2> HIDE DEF v
  <2>2. v \in 0..MaxSamples
    BY <1>1, <2>1, <2>3, SampleFacts
  <2> QED
    BY <2>2 DEF v, Samples
<1>9. s \in Seq(Samples) /\ Len(s) = n
  <2>1. s \in [1..n -> Samples]
    BY <1>8
  <2> HIDE DEF s
  <2> QED
    BY <1>7, <2>1
<1> HIDE DEF s
<1>10. Above(s, base + taken)
  BY <1>1, <1>6, <1>7 DEF Above
<1>11. ~lapped => t = taken + n /\ Newest(s, base + t)
  <2> SUFFICES ASSUME ~lapped PROVE t = taken + n /\ Newest(s, base + t)
    OBVIOUS
  <2>1. q > taken /\ written - taken <= Clip
    BY <1>1, <1>3, <1>4
  <2>2. written - q < Clip /\ q - taken <= Clip
    BY <1>1, <1>3, <2>1, SampleFacts
  <2>3. t = q /\ n = q - taken
    BY <1>4, <1>5, <2>2
  <2>4. t = taken + n
    BY <1>1, <1>3, <2>3
  <2>5. \A i \in 1..n : s[i] = base + taken + i
                          /\ base + taken + i = (base + t) - n + i
    BY <1>1, <1>6, <1>7, <2>4
  <2> QED
    BY <1>7, <1>9, <2>4, <2>5 DEF Newest
<1> QED
  <2>1. t \in taken..written
    BY <1>1, <1>3, <1>5
  <2> QED
    BY <1>5, <1>7, <1>9, <1>10, <1>11, <2>1 DEF n, s, t

LEMMA GetDataInv == ASSUME CaptureInv, GetData PROVE CaptureInv'
<1> DEFINE n == SampleFramesToRead(lastMicPosition, currentPosition)
           s == [i \in 1..n |-> RingAt((lastMicPosition + i - 1) % Clip)]
           t == written - ((written - currentPosition) % Clip)
<1>1. /\ reader = "read" /\ reader' = "vad"
      /\ vadInputBuffer' = vadInputBuffer \o s /\ taken' = t
      /\ lastMicPosition' = currentPosition
      /\ UNCHANGED <<activeMicrophoneClip, base, written, currentPosition,
                     preRollBuffer, accumulationBuffer, isSpeaking,
                     utteranceSilenceSamples, utteranceSpeechSamples,
                     submitted, clean, lapped>>
  BY DEF GetData, recorder, utterance
<1>2. /\ s \in Seq(Samples) /\ Len(s) = n /\ n \in Nat
      /\ Above(s, base + taken)
      /\ t \in taken..written /\ t % Clip = currentPosition
      /\ ~lapped => t = taken + n /\ Newest(s, base + t)
  BY <1>1, SamplesRead DEF CaptureInv
<1> HIDE DEF n, s, t
<1>3. /\ base \in Nat /\ written \in Nat /\ taken \in 0..written
      /\ vadInputBuffer \in Seq(Samples) /\ Len(vadInputBuffer) \in Nat
  BY DEF CaptureInv, RingInv, BufferInv
<1>4. t \in 0..written /\ t \in Nat /\ taken \in Nat /\ taken <= t
  BY <1>2, <1>3
<1>5. RingInv'
  <2>1. /\ activeMicrophoneClip' \in BOOLEAN /\ base' + written' <= MaxSamples
        /\ currentPosition' \in 0..(Clip - 1)
        /\ ~lapped => written - taken <= Clip
    BY <1>1 DEF CaptureInv, RingInv
  <2>2. ~lapped' => written' - taken' <= Clip
    BY <1>1, <1>3, <1>4, <2>1, SampleFacts
  <2> QED
    BY <1>1, <1>2, <1>3, <1>4, <2>1, <2>2 DEF RingInv
<1>6. /\ vadInputBuffer' \in Seq(Samples)
      /\ Len(vadInputBuffer') = Len(vadInputBuffer) + n
  BY <1>1, <1>2, <1>3, JoinProps
<1>7. BufferInv'
  BY <1>1, <1>6 DEF CaptureInv, BufferInv
<1>8. ASSUME NEW b \in Int, b <= base + taken, HeldAbove(b)
      PROVE  HeldAbove(b)'
  <2>1. Above(s, b)
    BY <1>2, <1>3, <1>4, <1>8, AboveLess
  <2>2. Above(vadInputBuffer', b)
    BY <1>1, <1>2, <1>3, <1>8, <2>1, JoinProps DEF HeldAbove
  <2> QED
    BY <1>1, <1>8, <2>2 DEF HeldAbove
<1>9. RunInv'
  <2>1. HeldAbove(base)'
    BY <1>1, <1>3, <1>4, <1>8 DEF CaptureInv, RunInv
  <2>2. ASSUME ~lapped
        PROVE  /\ Newest(preRollBuffer',
                         base' + taken' - Len(vadInputBuffer'))
               /\ Newest(accumulationBuffer',
                         base' + taken' - Len(vadInputBuffer'))
               /\ Newest(vadInputBuffer', base' + taken')
    <3>1. taken' = taken + n /\ Newest(s, base + t) /\ base' = base
      BY <1>1, <1>2, <2>2
    <3>2. /\ Newest(preRollBuffer, base + taken - Len(vadInputBuffer))
          /\ Newest(accumulationBuffer, base + taken - Len(vadInputBuffer))
          /\ Newest(vadInputBuffer, base + taken)
      BY <2>2 DEF CaptureInv, RunInv
    <3> DEFINE k == Len(vadInputBuffer)
               l == Len(vadInputBuffer')
    <3>3. l = k + n /\ k \in Nat /\ n \in Nat /\ base \in Nat /\ taken \in Nat
      BY <1>2, <1>3, <1>4, <1>6
    <3> HIDE DEF k, l
    <3>4. base' + taken' - l = base + taken - k
      BY <3>1, <3>3
    <3>5. base + t - n = base + taken /\ base + t \in Int
      BY <1>1, <3>1, <3>3
    <3>6. Newest(vadInputBuffer', base + t)
      <4>1. Newest(vadInputBuffer, base + t - Len(s))
        BY <1>2, <3>2, <3>5
      <4>2. Newest(vadInputBuffer \o s, base + t)
        BY <1>2, <1>3, <3>1, <3>5, <4>1, JoinProps
      <4> QED
        BY <1>1, <4>2
    <3> QED
      BY <1>1, <3>2, <3>4, <3>6 DEF k, l
  <2> QED
    BY <1>1, <2>1, <2>2 DEF RunInv
<1>10. SubmittedInv'
  <2>1. ASSUME NEW e \in Int, e <= base + taken PROVE e <= base' + taken'
    BY <1>1, <1>3, <1>4, <2>1
  <2> QED
    BY <1>1, <1>8, <2>1 DEF CaptureInv, SubmittedInv
<1> QED
  BY <1>5, <1>7, <1>9, <1>10 DEF CaptureInv

\* Cutting a frame off the input and joining it to x, which came before.
LEMMA FrameProps ==
  ASSUME CaptureInv, Len(vadInputBuffer) >= FrameSamples,
         NEW x \in Seq(Samples),
         ~lapped => Newest(x, base + taken - Len(vadInputBuffer))
  PROVE  LET e == base + taken - Len(AfterFrame)
         IN  /\ e \in Int /\ e <= base + taken
             /\ AfterFrame \in Seq(Samples)
             /\ ~lapped => /\ Newest(AfterFrame, base + taken)
                           /\ Above(AfterFrame, e)
             /\ x \o Frame \in Seq(Samples)
             /\ Len(x \o Frame) = Len(x) + FrameSamples
             /\ ~lapped => Newest(x \o Frame, e)
             /\ \A b \in Int : HeldAbove(b) =>
                  Above(AfterFrame, b) /\ (Above(x, b) => Above(x \o Frame, b))
<1> DEFINE k == Len(vadInputBuffer)
           r == Len(AfterFrame)
           E == base + taken
<1>1. /\ vadInputBuffer \in Seq(Samples) /\ FrameSamples \in 0..k /\ k \in Nat
      /\ E \in Nat /\ base \in Nat /\ taken \in Nat
  BY SampleFacts DEF CaptureInv, BufferInv, RingInv
<1>2. /\ Frame \in Seq(Samples) /\ Len(Frame) = FrameSamples
      /\ AfterFrame \in Seq(Samples) /\ r = k - FrameSamples
      /\ \A e \in Int : Newest(vadInputBuffer, e) =>
           Newest(Frame, e - r) /\ Newest(AfterFrame, e)
      /\ \A b \in Int : Above(vadInputBuffer, b) =>
           Above(Frame, b) /\ Above(AfterFrame, b)
  BY <1>1, CutProps DEF Frame, AfterFrame
<1>3. /\ x \o Frame \in Seq(Samples)
      /\ Len(x \o Frame) = Len(x) + FrameSamples
      /\ \A e \in Int : Newest(x, e - FrameSamples) /\ Newest(Frame, e)
                          => Newest(x \o Frame, e)
      /\ \A b \in Int : Above(x, b) /\ Above(Frame, b) => Above(x \o Frame, b)
  BY <1>2, JoinProps
<1>4. ~lapped => Newest(vadInputBuffer, E)
  BY DEF CaptureInv, RunInv
<1>5. base + taken - r = E - r /\ base + taken - k = E - k
  <2> HIDE DEF k, r
  <2> QED
    BY <1>1, <1>2
<1> HIDE DEF k, E
<1>6. /\ E - r \in Int /\ E - r <= E
      /\ (E - r) - FrameSamples = E - k
  <2> HIDE DEF r
  <2> QED
    BY <1>1, <1>2, SampleFacts
<1>7. ASSUME ~lapped
      PROVE  /\ Newest(AfterFrame, E) /\ Above(AfterFrame, E - r)
             /\ Newest(x \o Frame, E - r)
  <2>1. Newest(Frame, E - r) /\ Newest(AfterFrame, E)
    BY <1>1, <1>2, <1>4, <1>7
  <2>2. Newest(x, (E - r) - FrameSamples)
    BY <1>5, <1>6, <1>7 DEF k
  <2>3. Newest(x \o Frame, E - r)
    BY <1>3, <1>6, <2>1, <2>2
  <2>4. DOMAIN AfterFrame = 1..r /\ r \in Nat
    BY <1>2
  <2>5. \A i \in 1..r : AfterFrame[i] = (E - r) + i
    BY <1>1, <2>1, <2>4 DEF Newest
  <2>6. Above(AfterFrame, E - r)
    <3>1. \A i \in 1..r : (E - r) + i > E - r
      BY <1>6, <2>4
    <3> QED
      BY <2>4, <2>5, <3>1 DEF Above
  <2> QED
    BY <2>1, <2>3, <2>6
<1>8. ASSUME NEW b \in Int, HeldAbove(b)
      PROVE  Above(AfterFrame, b) /\ (Above(x, b) => Above(x \o Frame, b))
  BY <1>2, <1>3, <1>8 DEF HeldAbove
<1> QED
  BY <1>2, <1>3, <1>5, <1>6, <1>7, <1>8 DEF E, r

\* What an action must show of the buffers when it submits nothing.
LEMMA NothingSubmitted ==
  ASSUME CaptureInv, UNCHANGED <<base, taken, submitted, clean>>,
         \A b \in Int : HeldAbove(b) => HeldAbove(b)'
  PROVE  SubmittedInv' /\ HeldAbove(base)'
<1>1. base \in Int /\ HeldAbove(base)
  BY DEF CaptureInv, RingInv, RunInv
<1>2. HeldAbove(base)'
  BY <1>1 DEF HeldAbove
<1>3. SubmittedInv'
  BY DEF CaptureInv, SubmittedInv
<1> QED
  BY <1>2, <1>3

LEMMA IdleFrameInv ==
  ASSUME CaptureInv, VadFrame, ~isSpeaking,
         NEW speech \in BOOLEAN, IdleFrame(speech)
  PROVE  BufferInv' /\ RunInv' /\ SubmittedInv'
<1> DEFINE j == preRollBuffer \o Frame
           p == LastN(j, PreRollSamples)
           e == base + taken - Len(AfterFrame)
<1>1. /\ Len(vadInputBuffer) >= FrameSamples /\ vadInputBuffer' = AfterFrame
      /\ UNCHANGED <<base, taken, lapped, submitted, clean>>
  BY DEF VadFrame, IdleFrame, recorder
<1>2. /\ preRollBuffer \in Seq(Samples) /\ accumulationBuffer = <<>>
      /\ utteranceSilenceSamples \in Nat /\ utteranceSpeechSamples \in Nat
      /\ utteranceSilenceSamples + utteranceSpeechSamples <= 0
      /\ ~lapped => Newest(preRollBuffer, base + taken - Len(vadInputBuffer))
      /\ isSpeaking = FALSE
  <2>1. Len(<<>>) = 0
    BY NoSamples
  <2> QED
    BY <2>1 DEF CaptureInv, BufferInv, RunInv
<1>3. /\ e \in Int /\ AfterFrame \in Seq(Samples)
      /\ ~lapped => Newest(AfterFrame, base + taken)
      /\ j \in Seq(Samples) /\ Len(j) = Len(preRollBuffer) + FrameSamples
      /\ ~lapped => Newest(j, e)
      /\ \A b \in Int : HeldAbove(b) =>
           Above(AfterFrame, b) /\ (Above(preRollBuffer, b) => Above(j, b))
  BY <1>1, <1>2, FrameProps
<1>4. /\ p \in Seq(Samples) /\ Len(p) <= PreRollSamples
      /\ Len(p) = PreRollSamples \/ Len(p) = Len(j)
      /\ ~lapped => Newest(p, e)
      /\ \A b \in Int : HeldAbove(b) => Above(p, b)
  <2> HIDE DEF j, e
  <2> QED
    BY <1>3, SampleFacts, LastProps DEF HeldAbove
<1>5. Len(p) >= FrameSamples
  <2>1. Len(preRollBuffer) \in Nat
    BY <1>2
  <2> HIDE DEF j, p
  <2> QED
    BY <1>3, <1>4, <2>1, SampleFacts
<1>6. \/ /\ isSpeaking' = TRUE /\ accumulationBuffer' = p
         /\ preRollBuffer' = <<>> /\ utteranceSilenceSamples' = 0
         /\ utteranceSpeechSamples' = FrameSamples
      \/ /\ preRollBuffer' = p
         /\ UNCHANGED <<isSpeaking, accumulationBuffer,
                        utteranceSilenceSamples, utteranceSpeechSamples>>
  BY DEF IdleFrame
<1> HIDE DEF p, j
<1>7. BufferInv'
  <2>1. /\ Len(p) < MaximumUtterance /\ FrameSamples \in Nat
        /\ 0 + FrameSamples <= Len(p)
    <3>1. Len(p) \in Nat
      BY <1>4
    <3> QED
      BY <1>4, <1>5, <3>1, SampleFacts
  <2>2. /\ vadInputBuffer' \in Seq(Samples) /\ p \in Seq(Samples)
        /\ Len(p) <= PreRollSamples
    BY <1>1, <1>3, <1>4
  <2>3. CASE /\ isSpeaking' = TRUE /\ accumulationBuffer' = p
             /\ preRollBuffer' = <<>> /\ utteranceSilenceSamples' = 0
             /\ utteranceSpeechSamples' = FrameSamples
    BY <2>1, <2>2, <2>3, NoBuffers DEF BufferInv
  <2>4. CASE /\ preRollBuffer' = p
             /\ UNCHANGED <<isSpeaking, accumulationBuffer,
                            utteranceSilenceSamples, utteranceSpeechSamples>>
    BY <1>2, <2>2, <2>4, NoBuffers DEF BufferInv
  <2> QED
    BY <1>6, <2>3, <2>4
<1>8. ASSUME NEW b \in Int, HeldAbove(b) PROVE HeldAbove(b)'
  BY <1>1, <1>2, <1>3, <1>4, <1>6, <1>8, NoSamples DEF HeldAbove
<1>9. SubmittedInv' /\ HeldAbove(base)'
  BY <1>1, <1>8, NothingSubmitted
<1>10. RunInv'
  BY <1>1, <1>2, <1>3, <1>4, <1>6, <1>9, NoSamples DEF RunInv
<1> QED
  BY <1>7, <1>9, <1>10

LEMMA SpeechFrameInv ==
  ASSUME CaptureInv, VadFrame, isSpeaking,
         NEW speech \in BOOLEAN, SpeechFrame(speech)
  PROVE  BufferInv' /\ RunInv' /\ SubmittedInv'
<1> DEFINE a == accumulationBuffer \o Frame
           silence == IF speech THEN 0
                      ELSE utteranceSilenceSamples + FrameSamples
           voiced == utteranceSpeechSamples
                       + IF speech THEN FrameSamples ELSE 0
           e == base + taken - Len(AfterFrame)
<1>1. /\ Len(vadInputBuffer) >= FrameSamples /\ vadInputBuffer' = AfterFrame
      /\ UNCHANGED <<base, taken, lapped, preRollBuffer>>
  BY DEF VadFrame, SpeechFrame, recorder
<1>2. /\ accumulationBuffer \in Seq(Samples)
      /\ preRollBuffer = <<>> /\ preRollBuffer' = <<>>
      /\ Len(accumulationBuffer) < MaximumUtterance
      /\ utteranceSilenceSamples \in Nat /\ utteranceSpeechSamples \in Nat
      /\ utteranceSilenceSamples + utteranceSpeechSamples
           <= Len(accumulationBuffer)
      /\ ~lapped => Newest(accumulationBuffer,
                           base + taken - Len(vadInputBuffer))
      /\ isSpeaking = TRUE
  BY <1>1 DEF CaptureInv, BufferInv, RunInv
<1>3. /\ e \in Int /\ e <= base + taken /\ AfterFrame \in Seq(Samples)
      /\ ~lapped => Newest(AfterFrame, base + taken) /\ Above(AfterFrame, e)
      /\ a \in Seq(Samples) /\ Len(a) = Len(accumulationBuffer) + FrameSamples
      /\ ~lapped => Newest(a, e)
      /\ \A b \in Int : HeldAbove(b) =>
           /\ Above(AfterFrame, b)
           /\ Above(accumulationBuffer, b) => Above(a, b)
  BY <1>1, <1>2, FrameProps
<1> HIDE DEF a
<1>4. /\ silence \in Nat /\ voiced \in Nat /\ silence + voiced <= Len(a)
      /\ voiced <= Len(a) /\ Len(a) < MaximumUtterance + FrameSamples
  <2>1. Len(accumulationBuffer) \in Nat
    BY <1>2
  <2> DEFINE k == Len(accumulationBuffer)
  <2>2. /\ k \in Nat /\ Len(a) = k + FrameSamples /\ k < MaximumUtterance
        /\ utteranceSilenceSamples + utteranceSpeechSamples <= k
    BY <1>2, <1>3, <2>1
  <2> HIDE DEF k
  <2> QED
    BY <1>2, <2>2, SampleFacts
<1> HIDE DEF silence, voiced
<1>5. CASE Ends(a, silence)
  <2>1. /\ isSpeaking' = FALSE /\ accumulationBuffer' = <<>>
        /\ utteranceSilenceSamples' = 0 /\ utteranceSpeechSamples' = 0
        /\ Complete(a, voiced)
    BY <1>5 DEF SpeechFrame, SubmitCurrentUtterance, a, silence, voiced
  <2>2. BufferInv'
    BY <1>1, <1>2, <1>3, <2>1, NoBuffers DEF BufferInv
  <2>3. ASSUME NEW b \in Int, Above(AfterFrame, b) PROVE HeldAbove(b)'
    BY <1>1, <1>2, <2>1, <2>3, NoSamples DEF HeldAbove
  <2>4. ASSUME NEW b \in Int, HeldAbove(b) PROVE HeldAbove(b)'
    BY <1>3, <2>3, <2>4
  <2>5. base \in Int /\ HeldAbove(base)
    BY DEF CaptureInv, RingInv, RunInv
  <2>6. RunInv'
    <3>1. HeldAbove(base)'
      BY <1>1, <2>4, <2>5 DEF HeldAbove
    <3> QED
      BY <1>1, <1>2, <1>3, <2>1, <3>1, NoSamples DEF RunInv
  <2>7. SubmittedInv'
    <3>1. CASE UNCHANGED <<submitted, clean>>
      BY <1>1, <2>4, <3>1, NothingSubmitted
    <3>2. CASE submitted' = a /\ clean' = ~lapped /\ voiced >= MinimumSpeech
      <4>1. Len(a) >= MinimumSpeech
        <5>1. Len(a) \in Nat
          BY <1>3
        <5> QED
          BY <1>4, <3>2, <5>1, SampleFacts
      <4>2. PICK d \in Int : d = e
        BY <1>3
      <4>3. /\ d <= base + taken
            /\ ~lapped => Above(AfterFrame, d) /\ Newest(a, d)
        BY <1>3, <4>2
      <4>4. ~lapped => HeldAbove(d)'
        BY <2>3, <4>3
      <4> QED
        BY <1>1, <1>3, <1>4, <3>2, <4>1, <4>3, <4>4 DEF SubmittedInv
    <3> QED
      BY <2>1, <3>1, <3>2 DEF Complete
  <2> QED
    BY <2>2, <2>6, <2>7
<1>6. CASE ~Ends(a, silence)
  <2>1. /\ accumulationBuffer' = a
        /\ utteranceSilenceSamples' = silence
        /\ utteranceSpeechSamples' = voiced
        /\ UNCHANGED <<isSpeaking, submitted, clean>>
    BY <1>6 DEF SpeechFrame, a, silence, voiced
  <2>2. Len(a) < MaximumUtterance
    <3>1. Len(a) \in Nat
      BY <1>3
    <3> QED
      BY <1>6, <3>1, SampleFacts DEF Ends
  <2>3. BufferInv'
    BY <1>1, <1>2, <1>3, <1>4, <2>1, <2>2, NoBuffers DEF BufferInv
  <2>4. ASSUME NEW b \in Int, HeldAbove(b) PROVE HeldAbove(b)'
    BY <1>1, <1>2, <1>3, <2>1, <2>4, NoSamples DEF HeldAbove
  <2>5. SubmittedInv' /\ HeldAbove(base)'
    BY <1>1, <2>1, <2>4, NothingSubmitted
  <2>6. RunInv'
    BY <1>1, <1>2, <1>3, <2>1, <2>5, NoSamples DEF RunInv
  <2> QED
    BY <2>3, <2>5, <2>6
<1> QED
  BY <1>5, <1>6

LEMMA VadFrameInv == ASSUME CaptureInv, VadFrame PROVE CaptureInv'
<1>1. UNCHANGED <<activeMicrophoneClip, base, written, reader, currentPosition,
                  lastMicPosition, taken, lapped>>
  BY DEF VadFrame, recorder
<1>2. RingInv'
  BY <1>1 DEF CaptureInv, RingInv
<1>3. PICK speech \in BOOLEAN :
        IF isSpeaking THEN SpeechFrame(speech) ELSE IdleFrame(speech)
  BY DEF VadFrame
<1>4. BufferInv' /\ RunInv' /\ SubmittedInv'
  BY <1>3, SpeechFrameInv, IdleFrameInv
<1> QED
  BY <1>2, <1>4 DEF CaptureInv

-----------------------------------------------------------------------------
(* The invariant holds, and what follows from it.                          *)

LEMMA CaptureStep == CaptureInv /\ [CaptureNext]_captureVars => CaptureInv'
<1> SUFFICES ASSUME CaptureInv, [CaptureNext]_captureVars PROVE CaptureInv'
  OBVIOUS
<1>1. CASE Record
  BY <1>1, RecordInv
<1>2. CASE BeginMicrophoneCapture
  BY <1>2, BeginCaptureInv
<1>3. CASE EndMicrophoneCapture
  BY <1>3, EndCaptureInv
<1>4. CASE PollPosition
  BY <1>4, PollPositionInv
<1>5. CASE GetData
  BY <1>5, GetDataInv
<1>6. CASE GetDataFails \/ VadDone
  BY <1>6, ReaderIdleInv
<1>7. CASE VadFrame
  BY <1>7, VadFrameInv
<1>8. CASE UNCHANGED captureVars
  <2>1. /\ UNCHANGED <<base, taken, buffers, utterance>> /\ (lapped => lapped')
        /\ UNCHANGED <<activeMicrophoneClip, written, reader, currentPosition,
                       lastMicPosition, lapped>>
    BY <1>8 DEF captureVars, recorder
  <2>2. RingInv'
    BY <2>1 DEF CaptureInv, RingInv
  <2> QED
    BY <2>1, <2>2, HeldStays DEF CaptureInv
<1> QED
  BY <1>1, <1>2, <1>3, <1>4, <1>5, <1>6, <1>7, <1>8 DEF CaptureNext

LEMMA CaptureInvHolds == CaptureSpec => []CaptureInv
BY CaptureStarts, CaptureStep, PTL DEF CaptureSpec

\* What the detector holds is one sequence, a run as its parts are.
LEMMA HeldProps ==
  ASSUME CaptureInv
  PROVE  /\ Held \in Seq(Samples)
         /\ ~lapped => Newest(Held, base + taken)
         /\ \A b \in Int : HeldAbove(b) => Above(Held, b)
<1> DEFINE k == Len(vadInputBuffer)
           j == preRollBuffer \o accumulationBuffer
           e == base + taken - k
<1>1. /\ preRollBuffer \in Seq(Samples) /\ accumulationBuffer \in Seq(Samples)
      /\ vadInputBuffer \in Seq(Samples) /\ k \in Nat
      /\ base \in Nat /\ taken \in Nat /\ base + taken \in Int
      /\ preRollBuffer = <<>> \/ accumulationBuffer = <<>>
  BY DEF CaptureInv, BufferInv, RingInv
<1>2. e = (base + taken) - k /\ e \in Int
  <2> HIDE DEF k
  <2> QED
    BY <1>1
<1>3. ~lapped => /\ Newest(preRollBuffer, e) /\ Newest(accumulationBuffer, e)
                 /\ Newest(vadInputBuffer, base + taken)
  BY DEF CaptureInv, RunInv
<1> HIDE DEF e
<1>4. j = preRollBuffer \/ j = accumulationBuffer
  <2>1. CASE preRollBuffer = <<>>
    BY <1>1, <2>1
  <2>2. CASE accumulationBuffer = <<>>
    BY <1>1, <2>2
  <2> QED
    BY <1>1, <2>1, <2>2
<1>5. j \in Seq(Samples)
  BY <1>1, <1>4
<1>6. ~lapped => Newest(j, e)
  BY <1>3, <1>4
<1> HIDE DEF j
<1>7. /\ j \o vadInputBuffer \in Seq(Samples)
      /\ ~lapped => Newest(j \o vadInputBuffer, base + taken)
      /\ \A b \in Int : Above(j, b) /\ Above(vadInputBuffer, b)
                          => Above(j \o vadInputBuffer, b)
  BY <1>1, <1>2, <1>3, <1>5, <1>6, JoinProps DEF k
<1>8. \A b \in Int : HeldAbove(b) => Above(j, b)
  BY <1>4 DEF HeldAbove
<1> QED
  BY <1>7, <1>8 DEF Held, HeldAbove, j

\* The buffers and the counters of ProcessVadSamples stay within their limits.
THEOREM CaptureTypeCorrect == CaptureSpec => []CaptureTypeOK
<1>1. CaptureInv => CaptureTypeOK
  <2> SUFFICES ASSUME CaptureInv PROVE CaptureTypeOK
    OBVIOUS
  <2>1. utteranceSilenceSamples + utteranceSpeechSamples
          < MaximumUtterance + FrameSamples
    <3> DEFINE k == Len(accumulationBuffer)
    <3>1. /\ utteranceSilenceSamples + utteranceSpeechSamples <= k
          /\ utteranceSilenceSamples \in Nat /\ utteranceSpeechSamples \in Nat
          /\ k < MaximumUtterance /\ k \in Nat
      BY DEF CaptureInv, BufferInv
    <3> HIDE DEF k
    <3> QED
      BY <3>1, SampleFacts
  <2> QED
    BY <2>1 DEF CaptureInv, RingInv, BufferInv, SubmittedInv, CaptureTypeOK
<1> QED
  BY <1>1, CaptureInvHolds, PTL

\* ProcessAudioAndRecognize and ProcessVadSamples lose and repeat no sample of
\* a capture whose ring did not lap the reader.
THEOREM SamplesUnbroken == CaptureSpec => []NothingLost
<1>1. CaptureInv => NothingLost
  <2> SUFFICES ASSUME CaptureInv, ~lapped
               PROVE  /\ Consecutive(Held)
                      /\ Held # <<>> => Held[Len(Held)] = base + taken
    BY DEF NothingLost
  <2>1. Held \in Seq(Samples) /\ Newest(Held, base + taken)
    BY HeldProps
  <2>2. base + taken \in Int
    BY DEF CaptureInv, RingInv
  <2>3. CASE Held = <<>>
    BY <2>3 DEF Consecutive
  <2>4. CASE Held # <<>>
    BY <2>1, <2>2, <2>4, RunProps
  <2> QED
    BY <2>3, <2>4
<1> QED
  BY <1>1, CaptureInvHolds, PTL

\* Whatever the ring did, nothing of an earlier capture and no place of the
\* ring that was never recorded is taken for speech.
THEOREM NothingStale == CaptureSpec => []OnlyThisCapture
<1>1. CaptureInv => OnlyThisCapture
  <2> SUFFICES ASSUME CaptureInv PROVE OnlyThisCapture
    OBVIOUS
  <2>1. base \in Int /\ HeldAbove(base)
    BY DEF CaptureInv, RingInv, RunInv
  <2>2. Above(Held, base)
    BY <2>1, HeldProps
  <2> QED
    BY <2>2 DEF OnlyThisCapture, Above
<1> QED
  BY <1>1, CaptureInvHolds, PTL

\* SubmitCurrentUtterance hands the recogniser an unbroken run that is long
\* enough and older than everything still held, in every later state.
THEOREM UtterancesAreGood == CaptureSpec => []GoodUtterance
<1>1. CaptureInv => GoodUtterance
  <2> SUFFICES ASSUME CaptureInv, clean, submitted # <<>>
               PROVE  /\ Consecutive(submitted)
                      /\ Len(submitted) >= MinimumSpeech
                      /\ \A i \in DOMAIN Held :
                           submitted[Len(submitted)] < Held[i]
    BY DEF GoodUtterance
  <2>1. PICK e \in Int : /\ HeldAbove(e) /\ Newest(submitted, e)
                         /\ Len(submitted) >= MinimumSpeech
    BY DEF CaptureInv, SubmittedInv
  <2>2. submitted \in Seq(Samples)
    BY DEF CaptureInv, SubmittedInv
  <2>3. submitted[Len(submitted)] = e /\ Consecutive(submitted)
    BY <2>1, <2>2, RunProps
  <2>4. Held \in Seq(Samples) /\ Above(Held, e)
    BY <2>1, HeldProps
  <2>5. \A i \in DOMAIN Held : e < Held[i]
    <3>1. \A i \in DOMAIN Held : Held[i] \in Nat /\ Held[i] > e
      <4>1. \A i \in DOMAIN Held : Held[i] \in Samples
        BY <2>4
      <4> QED
        BY <2>4, <4>1, SampleFacts DEF Above
    <3> QED
      BY <3>1
  <2> QED
    BY <2>1, <2>3, <2>5
<1> QED
  BY <1>1, CaptureInvHolds, PTL
=============================================================================
