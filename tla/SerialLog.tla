----------------------------- MODULE SerialLog -----------------------------
(***************************************************************************)
(* What the server promises about one live note, with no transactions in   *)
(* sight: updates are accepted one after another, each under an id larger  *)
(* than every id any reader can know, and a compaction replaces a prefix   *)
(* of them.  LiveLog shows that the code's row lock keeps this promise;    *)
(* LiveSync puts browsers on top of it.                                    *)
(***************************************************************************)
EXTENDS UpdateTable

VARIABLES
    exists,       \* the LiveNote row is there
    snapshot,     \* LiveNote.snapshot
    snapshotSeq,  \* LiveNote.snapshot_seq
    rows          \* the note's LiveNoteUpdate rows, committed

serialVars == <<exists, snapshot, snapshotSeq, rows>>

\* A note seeded by create_live_note: no rows, nothing folded in.
SerialInit ==
    /\ exists = TRUE
    /\ snapshot = {}
    /\ snapshotSeq = 0
    /\ rows = {}

\* append_live_update accepts a payload. The ids are the table's, shared by
\* all notes, so this note's need not be consecutive.
AppendRow(seq, edits) ==
    /\ exists
    /\ ~TailFull(rows, edits)
    /\ seq > Newest(rows, snapshotSeq)
    /\ rows' = rows \cup {[seq |-> seq, edits |-> edits]}
    /\ UNCHANGED <<exists, snapshot, snapshotSeq>>

\* The two conditions under which save_live_snapshot takes a compaction.
CoversNewer(coversSeq) == coversSeq > snapshotSeq
CoversKnown(coversSeq) == rows # {} /\ coversSeq <= Newest(rows, 0)

\* Mutant: the row the snapshot ends at is not pruned (id__lt instead of id__lte).
Compact_KeepsLast(coversSeq, content) ==
    /\ exists
    /\ CoversNewer(coversSeq)
    /\ CoversKnown(coversSeq)
    /\ snapshot' = content
    /\ snapshotSeq' = coversSeq
    /\ rows' = After(rows, coversSeq - 1)
    /\ UNCHANGED exists

\* save_live_snapshot replaces the snapshot and prunes the rows it covers.
Compact(coversSeq, content) ==
    /\ exists
    /\ CoversNewer(coversSeq)
    /\ CoversKnown(coversSeq)
    /\ snapshot' = content
    /\ snapshotSeq' = coversSeq
    /\ rows' = After(rows, coversSeq)
    /\ UNCHANGED exists

\* The note expires: the sweep, or the first read past expires_at, deletes it
\* and its rows go with it.
Expire ==
    /\ exists
    /\ exists' = FALSE
    /\ rows' = {}
    /\ UNCHANGED <<snapshot, snapshotSeq>>

SerialNext ==
    \/ \E seq \in Seqs, edits \in SUBSET Edits : AppendRow(seq, edits)
    \/ \E coversSeq \in Seqs, content \in SUBSET Edits : Compact(coversSeq, content)
    \/ Expire

SerialSpec == SerialInit /\ [][SerialNext]_serialVars
============================================================================
