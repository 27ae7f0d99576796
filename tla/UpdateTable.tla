---------------------------- MODULE UpdateTable ----------------------------
(***************************************************************************)
(* The update log of one live note as data: the rows of LiveNoteUpdate     *)
(* that belong to it, and what services.py computes from them.             *)
(*                                                                         *)
(* A document is a Yjs CRDT, so the only thing a reader can tell apart is  *)
(* which edits a copy contains: a document, a snapshot and the payload of  *)
(* a row are all sets of edits, merging is union, and encryption (which    *)
(* changes no membership) is left out.                                     *)
(***************************************************************************)
EXTENDS Integers, FiniteSets, FiniteSetsExt

CONSTANTS
    Edits,            \* the edits users make to the document
    MaxSeq,           \* bound: the largest row id the model allocates
    MaxPending,       \* MAX_LIVE_PENDING_UPDATES, rows in the pending tail
    MaxPendingLength  \* MAX_LIVE_PENDING_LENGTH, in edits instead of characters

ASSUME BoundsAssumption ==
    /\ MaxSeq \in Nat
    /\ MaxPending \in Nat
    /\ MaxPendingLength \in Nat

Seqs == 1..MaxSeq

\* A row of the log; the id is the sync cursor.
Row == [seq : Seqs, edits : SUBSET Edits]

SeqsOf(rows) == {r.seq : r \in rows}

EditsOf(rows) == UNION {r.edits : r \in rows}

\* rows[-1].pk of the rows in id order, or the given default when there are none.
Newest(rows, default) ==
    IF rows = {} THEN default
    ELSE CHOOSE n \in SeqsOf(rows) : \A s \in SeqsOf(rows) : s <= n

After(rows, seq) == {r \in rows : r.seq > seq}

TotalLength(rows) == MapThenSumSet(LAMBDA r : Cardinality(r.edits), rows)

\* The capacity check of append_live_update. An empty tail takes any payload.
TailFull(rows, edits) ==
    \/ Cardinality(rows) >= MaxPending
    \/ /\ rows # {}
       /\ TotalLength(rows) + Cardinality(edits) > MaxPendingLength

\* The cursor of a reader that has nothing.
NoCursor == -1

\* Mutant: a resync over an empty tail answers the reader's cursor, not snapshot_seq.
ReadBody_StaleSeq(snapshot, snapshotSeq, rows, since) ==
    LET resync == since < snapshotSeq
        found  == IF resync THEN rows ELSE After(rows, since)
    IN  [edits   |-> EditsOf(found) \cup (IF resync THEN snapshot ELSE {}),
         seq     |-> Newest(found, since),
         pending |-> Cardinality(rows)]

\* What live_updates_since answers for a cursor, from the note's snapshot
\* columns and the rows its second query finds. live_note_state is the same
\* answer for a reader at NoCursor: the snapshot and the whole tail, always.
ReadBody(snapshot, snapshotSeq, rows, since) ==
    LET resync == since < snapshotSeq
        found  == IF resync THEN rows ELSE After(rows, since)
    IN  [edits   |-> EditsOf(found) \cup (IF resync THEN snapshot ELSE {}),
         seq     |-> Newest(found, IF resync THEN snapshotSeq ELSE since),
         pending |-> Cardinality(rows)]
============================================================================
