---------------------------- MODULE MCNoteVault -----------------------------
EXTENDS NoteVault, TLC

\* Note ids and job slots are interchangeable.
Symm == Permutations(Notes) \cup Permutations(Jobs)

\* Bounds of the passing run.  What the user does beside something else is explored for
\* typing during a save, saving during an opening and opening during anything; there, while
\* no folder exists, no key was lost and no sweep is at work.  Where the key has been lost
\* before, the buffer is empty and no sweep is at work.
OpensBeside == \E j \in Jobs : job[j].kind = "open" /\ \E k \in Jobs \ {j} : job[k].kind # "none"
Explored ==
    /\ crossed \in {{}, {"typed"}, {"reopened"}}
    /\ crossed # {} \/ OpensBeside => locks = 0 /\ index.folders = {} /\ picked = {}
    /\ locks > 0 => value = Empty /\ picked = {}
=============================================================================
