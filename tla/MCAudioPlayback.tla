-------------------------- MODULE MCAudioPlayback --------------------------
(* AudioPlayback with two sources.  TLC checks liveness too: no symmetry.   *)
EXTENDS AudioPlayback

CONSTANTS s1, s2

TwoSources == {s1, s2}

\* Bound: at first one source has the long clip and one the short; SetClip
\* changes them.
MCInit == Init /\ clip = [s \in Sources |-> IF s = s1 THEN 3 ELSE 1]

MCSpec == MCInit /\ [][Next]_vars /\ Fairness
=============================================================================
