---------------------------- MODULE VoiceWorker ----------------------------
(***************************************************************************)
(* The two threads of the WhisperVoice mod (mods/whisper_voice.cpp) and    *)
(* the queues between them.                                                *)
(*                                                                         *)
(* Unity's main thread ends utterances and queues their audio              *)
(* (SubmitCurrentUtterance), fires recognised phrases at the game          *)
(* (uiUpdate), registers keywords and unloads the mod (the destructor).    *)
(* The worker thread takes audio, runs the recogniser and queues phrases.  *)
(* An utterance is a number, in the order of speech; a phrase is the       *)
(* number of the utterance it was heard in.  Both queues drop their oldest *)
(* entries when full.  One action is one critical section, one access to   *)
(* the atomic stopWorker, or one step of the condition variable.           *)
(***************************************************************************)
EXTENDS Naturals, Sequences

CONSTANTS
  MaxQueuedAudioJobs,   \* kMaximumQueuedAudioJobs
  MaxQueuedPhrases,     \* kMaximumQueuedPhrases
  MaxUtterances         \* bound: utterances spoken while the mod is loaded

ASSUME BoundsAssumption ==
  /\ MaxQueuedAudioJobs \in Nat \ {0} /\ MaxQueuedPhrases \in Nat \ {0}
  /\ MaxUtterances \in Nat

VARIABLES
  main,                  \* the main thread's place
  spoken,                \* utterances submitted so far
  audioJobQueue,         \* guarded by jobMutex
  stopWorker,            \* atomic
  worker,                \* the worker thread's place
  audioData,             \* the utterance it works on; 0 for none
  pendingPhrasesQueue,   \* guarded by phraseMutex
  phrasesToFire,         \* local of uiUpdate
  fired,                 \* the last phrase fired at the game; 0 for none
  alive                  \* wctx is not freed

mainVars   == <<main, spoken, phrasesToFire, fired, alive>>
workerVars == <<worker, audioData>>
vars == <<mainVars, workerVars, audioJobQueue, stopWorker,
          pendingPhrasesQueue>>

Init ==
  /\ main = "idle" /\ spoken = 0 /\ phrasesToFire = <<>> /\ fired = 0
  /\ audioJobQueue = <<>> /\ stopWorker = FALSE
  /\ worker = "check" /\ audioData = 0
  /\ pendingPhrasesQueue = <<>>
  /\ alive = TRUE

\* Faulty: the newest entry makes room.
PushDropNewest(q, x, max) ==
  Append(IF Len(q) < max THEN q ELSE SubSeq(q, 1, max - 1), x)

\* Faulty: nothing makes room.
PushAlways(q, x, max) == Append(q, x)

\* while (q.size() >= max) q.pop(); q.emplace(x): on a queue of at most max.
PushDropOldest(q, x, max) ==
  Append(IF Len(q) < max THEN q ELSE Tail(q), x)

-----------------------------------------------------------------------------
(* The condition variable.  The worker holds jobMutex from the wait's       *)
(* predicate to the pop ("take") or to the sleep ("block").                *)

JobMutexFree == worker \notin {"take", "block"}

Notified == IF worker = "blocked" THEN "check" ELSE worker

-----------------------------------------------------------------------------
(* The main thread.                                                        *)

MainGoto(from, to) == main = from /\ main' = to

\* SubmitCurrentUtterance, the critical section.
Submit ==
  /\ MainGoto("idle", "notify") /\ JobMutexFree
  /\ spoken < MaxUtterances /\ spoken' = spoken + 1
  /\ audioJobQueue' =
       PushDropOldest(audioJobQueue, spoken + 1, MaxQueuedAudioJobs)
  /\ UNCHANGED <<phrasesToFire, fired, alive, workerVars, stopWorker,
                 pendingPhrasesQueue>>

\* Faulty: nobody is woken.
NotifyNobody ==
  /\ MainGoto("notify", "idle")
  /\ UNCHANGED <<spoken, phrasesToFire, fired, alive, workerVars,
                 audioJobQueue, stopWorker, pendingPhrasesQueue>>

\* notify_one, after the lock was released.
NotifyOne ==
  /\ MainGoto("notify", "idle")
  /\ worker' = Notified
  /\ UNCHANGED <<spoken, phrasesToFire, fired, alive, audioData,
                 audioJobQueue, stopWorker, pendingPhrasesQueue>>

\* uiUpdate swaps the queue out under phraseMutex.
SwapPhrases ==
  /\ MainGoto("idle", "fire")
  /\ phrasesToFire' = pendingPhrasesQueue /\ pendingPhrasesQueue' = <<>>
  /\ UNCHANGED <<spoken, fired, alive, workerVars, audioJobQueue, stopWorker>>

\* FireGameDelegates for the front phrase; with no mutex held.
FirePhrase ==
  /\ main = "fire" /\ phrasesToFire # <<>>
  /\ fired' = Head(phrasesToFire) /\ phrasesToFire' = Tail(phrasesToFire)
  /\ UNCHANGED <<main, spoken, alive, workerVars, audioJobQueue, stopWorker,
                 pendingPhrasesQueue>>

\* The rest of uiUpdate.
FireDone ==
  /\ MainGoto("fire", "idle") /\ phrasesToFire = <<>>
  /\ UNCHANGED <<spoken, phrasesToFire, fired, alive, workerVars,
                 audioJobQueue, stopWorker, pendingPhrasesQueue>>

\* An exception that FireGameDelegates does not catch unwinds uiUpdate: the
\* phrases it had taken are gone.
FireThrows ==
  /\ MainGoto("fire", "idle") /\ phrasesToFire # <<>>
  /\ phrasesToFire' = <<>>
  /\ UNCHANGED <<spoken, fired, alive, workerVars, audioJobQueue, stopWorker,
                 pendingPhrasesQueue>>

\* ~WhisperVoice: stopWorker.store without jobMutex, ...
StoreStop ==
  /\ MainGoto("idle", "notify_all")
  /\ stopWorker' = TRUE
  /\ UNCHANGED <<spoken, phrasesToFire, fired, alive, workerVars,
                 audioJobQueue, pendingPhrasesQueue>>

\* ... jobCv.notify_all, ...
NotifyAll ==
  /\ MainGoto("notify_all", "join")
  /\ worker' = Notified
  /\ UNCHANGED <<spoken, phrasesToFire, fired, alive, audioData,
                 audioJobQueue, stopWorker, pendingPhrasesQueue>>

\* ... workerThread.join, then the engine is freed.
JoinAndFree ==
  /\ MainGoto("join", "unloaded") /\ worker = "ended"
  /\ alive' = FALSE
  /\ UNCHANGED <<spoken, phrasesToFire, fired, workerVars, audioJobQueue,
                 stopWorker, pendingPhrasesQueue>>

\* The mod is loaded anew: a new object, a new thread.
Load ==
  /\ main = "unloaded"
  /\ main' = "idle" /\ spoken' = 0 /\ phrasesToFire' = <<>> /\ fired' = 0
  /\ audioJobQueue' = <<>> /\ stopWorker' = FALSE
  /\ worker' = "check" /\ audioData' = 0 /\ pendingPhrasesQueue' = <<>>
  /\ alive' = TRUE

Main ==
  \/ NotifyOne \/ FirePhrase \/ FireDone \/ FireThrows
  \/ NotifyAll \/ JoinAndFree

-----------------------------------------------------------------------------
(* The worker thread: WorkerThreadLoop.                                    *)

\* Faulty: the predicate does not look at stopWorker.
CheckQueueOnly ==
  /\ worker = "check"
  /\ worker' = IF audioJobQueue = <<>> THEN "block" ELSE "take"
  /\ UNCHANGED <<mainVars, audioData, audioJobQueue, stopWorker,
                 pendingPhrasesQueue>>

\* The lock, and the predicate of jobCv.wait.
CheckJobs ==
  /\ worker = "check"
  /\ worker' = CASE stopWorker -> "ended"
                 [] ~stopWorker /\ audioJobQueue = <<>> -> "block"
                 [] OTHER -> "take"
  /\ UNCHANGED <<mainVars, audioData, audioJobQueue, stopWorker,
                 pendingPhrasesQueue>>

\* The predicate was false: the lock is released and the thread sleeps.
Block ==
  /\ worker = "block" /\ worker' = "blocked"
  /\ UNCHANGED <<mainVars, audioData, audioJobQueue, stopWorker,
                 pendingPhrasesQueue>>

\* The standard lets a wait return for no reason.
SpuriousWake ==
  /\ worker = "blocked" /\ worker' = "check"
  /\ UNCHANGED <<mainVars, audioData, audioJobQueue, stopWorker,
                 pendingPhrasesQueue>>

\* Faulty: the newest job is taken.
TakeNewest ==
  /\ worker = "take" /\ audioJobQueue # <<>>
  /\ worker' = "recognize"
  /\ audioData' = audioJobQueue[Len(audioJobQueue)]
  /\ audioJobQueue' = SubSeq(audioJobQueue, 1, Len(audioJobQueue) - 1)
  /\ UNCHANGED <<mainVars, stopWorker, pendingPhrasesQueue>>

\* Still under the lock: stopWorker is read again, then the front is popped.
TakeJob ==
  /\ worker = "take"
  /\ IF stopWorker
     THEN worker' = "ended" /\ UNCHANGED <<audioData, audioJobQueue>>
     ELSE /\ worker' = "recognize"
          /\ audioData' = Head(audioJobQueue)
          /\ audioJobQueue' = Tail(audioJobQueue)
  /\ UNCHANGED <<mainVars, stopWorker, pendingPhrasesQueue>>

\* whisper_full fails, or nothing was said.
NothingRecognized ==
  /\ worker = "recognize" /\ worker' = "check" /\ audioData' = 0
  /\ UNCHANGED <<mainVars, audioJobQueue, stopWorker, pendingPhrasesQueue>>

\* A phrase, replaced by the best keyword if one matches well enough.
QueuePhrase ==
  /\ worker = "recognize" /\ worker' = "check" /\ audioData' = 0
  /\ pendingPhrasesQueue' =
       PushDropOldest(pendingPhrasesQueue, audioData, MaxQueuedPhrases)
  /\ UNCHANGED <<mainVars, audioJobQueue, stopWorker>>

Worker ==
  CheckJobs \/ Block \/ TakeJob \/ NothingRecognized \/ QueuePhrase

-----------------------------------------------------------------------------
Next ==
  \/ Submit \/ SwapPhrases \/ StoreStop \/ Load
  \/ Main \/ Worker \/ SpuriousWake

Spec == Init /\ [][Next]_vars

\* The threads run whenever they can, join included, and uiUpdate runs in every
\* frame; the user speaks and unloads the mod when he likes.
Fairness == WF_vars(Main) /\ WF_vars(Worker) /\ SF_vars(SwapPhrases)

FairSpec == Spec /\ Fairness

-----------------------------------------------------------------------------
(* Properties.                                                             *)

Utterances == 1..MaxUtterances

Ids(q) == {q[i] : i \in DOMAIN q}
Increasing(q) == \A i, j \in DOMAIN q : i < j => q[i] < q[j]
Before(A, B) == \A a \in A, b \in B : a < b
InWork == {audioData} \ {0}

\* Types; neither queue is ever longer than its limit.
TypeOK ==
  /\ main \in {"idle", "notify", "fire", "notify_all", "join", "unloaded"}
  /\ worker \in {"check", "take", "block", "blocked", "recognize", "ended"}
  /\ spoken \in 0..MaxUtterances /\ fired \in 0..MaxUtterances
  /\ audioData \in 0..MaxUtterances
  /\ audioJobQueue \in Seq(Utterances)
  /\ Len(audioJobQueue) <= MaxQueuedAudioJobs
  /\ pendingPhrasesQueue \in Seq(Utterances)
  /\ Len(pendingPhrasesQueue) <= MaxQueuedPhrases
  /\ phrasesToFire \in Seq(Utterances)
  /\ stopWorker \in BOOLEAN /\ alive \in BOOLEAN

\* Through two queues, two drops and a swap, phrases reach the game in the
\* order of speech and none twice.
InOrder ==
  /\ Increasing(phrasesToFire)
  /\ Increasing(pendingPhrasesQueue)
  /\ Before({fired}, Ids(phrasesToFire) \cup Ids(pendingPhrasesQueue))
  /\ Before({fired}, InWork \cup Ids(audioJobQueue))
  /\ Before(Ids(phrasesToFire), Ids(pendingPhrasesQueue))
  /\ Before(Ids(phrasesToFire) \cup Ids(pendingPhrasesQueue),
            InWork \cup Ids(audioJobQueue))
  /\ Before(InWork, Ids(audioJobQueue))

\* SubmitCurrentUtterance never loses the player's latest words to a backlog:
\* the queue holds the newest utterances without a gap, whatever was dropped.
KeepsNewest ==
  \A i \in DOMAIN audioJobQueue :
    audioJobQueue[i] = spoken - Len(audioJobQueue) + i

\* The destructor frees the recogniser only when the worker can use it no more.
NoUseAfterFree == worker # "ended" => alive

\* Utterances between the microphone and the game.
Underway ==
  Ids(audioJobQueue) \cup InWork \cup Ids(pendingPhrasesQueue)
    \cup Ids(phrasesToFire)

\* What is spoken reaches the game or is replaced by something newer: no wake-up
\* for a job is lost, although notify_one comes after the lock is released, and
\* nothing recognised between two frames is left lying.
SpokenIsDealtWith ==
  \A u \in Utterances : u \in Underway ~> (u \notin Underway \/ stopWorker)

\* Unloading returns if the worker was not between the predicate of its wait
\* and the end of the wait when the notification came.
UnloadReturnsIfAwake ==
  (main = "join" /\ worker \notin {"block", "blocked"})
    ~> main = "unloaded"

\* "jobCv.wait(lock, [this] { return stopWorker...": the worker does not go on
\* waiting once stopWorker is set, so that the destructor's join returns.
UnloadReturns == stopWorker ~> main = "unloaded"
=============================================================================
