------------------------------ MODULE LiveLog ------------------------------
(***************************************************************************)
(* One live note on the server, at the grain of its database statements,   *)
(* under readers and writers that keep the cursor rules.                   *)
(*                                                                         *)
(* Appends take the note's row lock, allocate an id inside the transaction *)
(* and become visible when it commits; compactions take the same lock;     *)
(* reads take no lock and run two queries, the note and then its rows.     *)
(* Production is PostgreSQL at READ COMMITTED: each query sees what had    *)
(* committed when it ran.                                                  *)
(*                                                                         *)
(* A client is reduced to what the log has to be right for: a document, a  *)
(* cursor, and at most one read, one append and one compaction in flight,  *)
(* any of which may be lost.  Pushes of committed rows may reach it late,  *)
(* out of order, repeatedly or never.  LiveSync has the browser in full.   *)
(***************************************************************************)
EXTENDS UpdateTable

CONSTANTS
    Clients,
    Author,      \* the client that makes each edit
    MaxInFlight  \* bound: requests being served at once, over all clients

ASSUME AuthorAssumption == Author \in [Edits -> Clients]
ASSUME MaxInFlightAssumption == MaxInFlight \in Nat

VARIABLES
    exists, snapshot, snapshotSeq, rows,  \* the committed tables, as in SerialLog
    lastId,    \* the id sequence of the table; allocations are never undone
    lock,      \* the client whose transaction holds the note's row lock, or {}
    push,      \* [Clients -> the append in flight]
    poll,      \* [Clients -> the read in flight]
    compact,   \* [Clients -> the compaction in flight]
    cursor,    \* [Clients -> the last id the client has applied]
    doc,       \* [Clients -> the edits in the client's document]
    log,       \* history: every row ever committed, with the prev_seq pushed for it
    torn       \* history: a compaction has committed between the queries of a read

tables == <<exists, snapshot, snapshotSeq, rows>>
vars == <<exists, snapshot, snapshotSeq, rows, lastId, lock, push, poll, compact,
          cursor, doc, log, torn>>

Serial == INSTANCE SerialLog WITH
    exists <- exists, snapshot <- snapshot, snapshotSeq <- snapshotSeq, rows <- rows

Idle == [st |-> "idle"]

Cursors == {NoCursor} \cup 0..MaxSeq
LogRecord == [seq : Seqs, prev : 0..MaxSeq, edits : SUBSET Edits]

PushTask ==
    {Idle}
    \cup [st : {"sent"}, edits : SUBSET Edits]
    \cup [st : {"held"}, edits : SUBSET Edits, seq : Seqs, prev : 0..MaxSeq]

PollTask ==
    {Idle}
    \cup [st : {"sent"}, since : Cursors]
    \cup [st : {"note"}, since : Cursors, snap : SUBSET Edits, snapSeq : 0..MaxSeq]
    \cup [st : {"done"}, since : Cursors, edits : SUBSET Edits, seq : 0..MaxSeq]

CompactTask == {Idle} \cup [st : {"sent"}, covers : Seqs, content : SUBSET Edits]

TypeOK ==
    /\ exists \in BOOLEAN
    /\ snapshot \in SUBSET Edits
    /\ snapshotSeq \in 0..MaxSeq
    /\ rows \in SUBSET Row
    /\ lastId \in 0..MaxSeq
    /\ lock \in SUBSET Clients
    /\ push \in [Clients -> PushTask]
    /\ poll \in [Clients -> PollTask]
    /\ compact \in [Clients -> CompactTask]
    /\ cursor \in [Clients -> Cursors]
    /\ doc \in [Clients -> SUBSET Edits]
    /\ log \in SUBSET LogRecord
    /\ torn \in BOOLEAN

Init ==
    /\ Serial!SerialInit
    /\ lastId = 0
    /\ lock = {}
    /\ push = [c \in Clients |-> Idle]
    /\ poll = [c \in Clients |-> Idle]
    /\ compact = [c \in Clients |-> Idle]
    /\ cursor = [c \in Clients |-> NoCursor]
    /\ doc = [c \in Clients |-> {}]
    /\ log = {}
    /\ torn = FALSE

Joined(c) == cursor[c] # NoCursor

InFlight ==
    ({"push"} \X {c \in Clients : push[c].st # "idle"})
    \cup ({"poll"} \X {c \in Clients : poll[c].st # "idle"})
    \cup ({"compact"} \X {c \in Clients : compact[c].st # "idle"})
MaySend == Cardinality(InFlight) < MaxInFlight
----------------------------------------------------------------------------
(* Editing and appending. *)

\* The user edits the document of a client that has loaded the note.
Type(c, e) ==
    /\ Joined(c)
    /\ Author[e] = c
    /\ e \notin doc[c]
    /\ doc' = [doc EXCEPT ![c] = @ \cup {e}]
    /\ UNCHANGED <<tables, lastId, lock, push, poll, compact, cursor, log, torn>>

\* The client sends some of its own edits as one merged update. It may send an
\* edit again: a flush whose reply was lost is retried.
PushSend(c, edits) ==
    /\ push[c].st = "idle"
    /\ MaySend
    /\ edits # {}
    /\ edits \subseteq {e \in doc[c] : Author[e] = c}
    /\ push' = [push EXCEPT ![c] = [st |-> "sent", edits |-> edits]]
    /\ UNCHANGED <<tables, lastId, lock, poll, compact, cursor, doc, log, torn>>

\* Mutant: the append does not take the note's row lock.
PushInsert_Unlocked(c, seq) ==
    /\ push[c].st = "sent"
    /\ exists
    /\ ~TailFull(rows, push[c].edits)
    /\ seq > lastId
    /\ lock' = {c}
    /\ lastId' = seq
    /\ push' = [push EXCEPT ![c] = [st |-> "held", edits |-> push[c].edits, seq |-> seq,
                                    prev |-> Newest(rows, snapshotSeq)]]
    /\ UNCHANGED <<tables, poll, compact, cursor, doc, log, torn>>

\* Mutant: prev_seq of the first update after a full compaction is 0.
PushInsert_PrevFromRows(c, seq) ==
    /\ push[c].st = "sent"
    /\ exists
    /\ lock = {}
    /\ ~TailFull(rows, push[c].edits)
    /\ seq > lastId
    /\ lock' = {c}
    /\ lastId' = seq
    /\ push' = [push EXCEPT ![c] = [st |-> "held", edits |-> push[c].edits, seq |-> seq,
                                    prev |-> Newest(rows, 0)]]
    /\ UNCHANGED <<tables, poll, compact, cursor, doc, log, torn>>

\* Mutant: no capacity check.
PushInsert_Unbounded(c, seq) ==
    /\ push[c].st = "sent"
    /\ exists
    /\ lock = {}
    /\ seq > lastId
    /\ lock' = {c}
    /\ lastId' = seq
    /\ push' = [push EXCEPT ![c] = [st |-> "held", edits |-> push[c].edits, seq |-> seq,
                                    prev |-> Newest(rows, snapshotSeq)]]
    /\ UNCHANGED <<tables, poll, compact, cursor, doc, log, torn>>

\* The append's transaction: SELECT ... FOR UPDATE on the note, the capacity
\* check, prev_seq, and the INSERT that allocates the id. Nothing of it is
\* visible yet, but the id is taken for good.
PushInsert(c, seq) ==
    /\ push[c].st = "sent"
    /\ exists
    /\ lock = {}
    /\ ~TailFull(rows, push[c].edits)
    /\ seq > lastId
    /\ lock' = {c}
    /\ lastId' = seq
    /\ push' = [push EXCEPT ![c] = [st |-> "held", edits |-> push[c].edits, seq |-> seq,
                                    prev |-> Newest(rows, snapshotSeq)]]
    /\ UNCHANGED <<tables, poll, compact, cursor, doc, log, torn>>

PushCommit(c) ==
    /\ push[c].st = "held"
    /\ rows' = rows \cup {[seq |-> push[c].seq, edits |-> push[c].edits]}
    /\ log' = log \cup {[seq |-> push[c].seq, prev |-> push[c].prev, edits |-> push[c].edits]}
    /\ lock' = {}
    /\ push' = [push EXCEPT ![c] = Idle]
    /\ UNCHANGED <<exists, snapshot, snapshotSeq, lastId, poll, compact, cursor, doc, torn>>

\* The append ends without a row: the request is lost or refused (404, the tail
\* is full), or its transaction rolls back and its id stays burnt.
PushFail(c) ==
    /\ push[c].st \in {"sent", "held"}
    /\ push' = [push EXCEPT ![c] = Idle]
    /\ lock' = lock \ {c}
    /\ UNCHANGED <<tables, lastId, poll, compact, cursor, doc, log, torn>>
----------------------------------------------------------------------------
(* Reading: the bootstrap, polls and gap fills. *)

PollSend(c) ==
    /\ poll[c].st = "idle"
    /\ MaySend
    /\ poll' = [poll EXCEPT ![c] = [st |-> "sent", since |-> cursor[c]]]
    /\ UNCHANGED <<tables, lastId, lock, push, compact, cursor, doc, log, torn>>

\* The view's first query: _live_note_or_404_json fetches the note.
PollReadNote(c) ==
    /\ poll[c].st = "sent"
    /\ exists
    /\ poll' = [poll EXCEPT ![c] = [st |-> "note", since |-> poll[c].since,
                                    snap |-> snapshot, snapSeq |-> snapshotSeq]]
    /\ UNCHANGED <<tables, lastId, lock, push, compact, cursor, doc, log, torn>>

\* The service's query of the note's rows, in a statement of its own. It pairs
\* whatever rows there are now with the snapshot columns read before.
PollReadRows(c) ==
    /\ poll[c].st = "note"
    /\ LET p    == poll[c]
           body == ReadBody(p.snap, p.snapSeq, rows, p.since)
       IN  poll' = [poll EXCEPT ![c] = [st |-> "done", since |-> p.since,
                                        edits |-> body.edits, seq |-> body.seq]]
    /\ torn' = (torn \/ poll[c].snapSeq # snapshotSeq)
    /\ UNCHANGED <<tables, lastId, lock, push, compact, cursor, doc, log>>

\* The client applies a body and then advances its cursor.
PollApply(c) ==
    /\ poll[c].st = "done"
    /\ doc' = [doc EXCEPT ![c] = @ \cup poll[c].edits]
    /\ cursor' = [cursor EXCEPT ![c] = IF poll[c].seq > @ THEN poll[c].seq ELSE @]
    /\ poll' = [poll EXCEPT ![c] = Idle]
    /\ UNCHANGED <<tables, lastId, lock, push, compact, log, torn>>

\* The read ends with nothing applied: lost, rate limited, failed or 404.
PollFail(c) ==
    /\ poll[c].st # "idle"
    /\ poll' = [poll EXCEPT ![c] = Idle]
    /\ UNCHANGED <<tables, lastId, lock, push, compact, cursor, doc, log, torn>>

\* Mutant: the client does not look at prev_seq.
Receive_NoGapCheck(c, r) ==
    /\ Joined(c)
    /\ r.seq > cursor[c]
    /\ doc' = [doc EXCEPT ![c] = @ \cup r.edits]
    /\ cursor' = [cursor EXCEPT ![c] = r.seq]
    /\ UNCHANGED <<tables, lastId, lock, push, poll, compact, log, torn>>

\* A pushed update frame, or the author's own ack: advanceCursor refuses it when
\* prev_seq is ahead of the cursor (a gap, filled by a read) or seq is not.
Receive(c, r) ==
    /\ Joined(c)
    /\ r.prev <= cursor[c]
    /\ r.seq > cursor[c]
    /\ doc' = [doc EXCEPT ![c] = @ \cup r.edits]
    /\ cursor' = [cursor EXCEPT ![c] = r.seq]
    /\ UNCHANGED <<tables, lastId, lock, push, poll, compact, log, torn>>
----------------------------------------------------------------------------
(* Compacting and expiring. *)

\* Mutant: the compaction covers the newest stored id, not the applied cursor.
CompactSend_CoversNewest(c) ==
    /\ compact[c].st = "idle"
    /\ MaySend
    /\ cursor[c] > 0
    /\ rows # {}
    /\ compact' = [compact EXCEPT ![c] = [st |-> "sent", covers |-> Newest(rows, 0),
                                          content |-> doc[c]]]
    /\ UNCHANGED <<tables, lastId, lock, push, poll, cursor, doc, log, torn>>

\* compact() captures the cursor and the document together.
CompactSend(c) ==
    /\ compact[c].st = "idle"
    /\ MaySend
    /\ cursor[c] > 0
    /\ compact' = [compact EXCEPT ![c] = [st |-> "sent", covers |-> cursor[c],
                                          content |-> doc[c]]]
    /\ UNCHANGED <<tables, lastId, lock, push, poll, cursor, doc, log, torn>>

\* save_live_snapshot checks and writes under the row lock and is visible at
\* once, so its transaction is one step taken while nobody holds the lock.
CompactCommit(c) ==
    /\ compact[c].st = "sent"
    /\ lock = {}
    /\ Serial!Compact(compact[c].covers, compact[c].content)
    /\ compact' = [compact EXCEPT ![c] = Idle]
    /\ UNCHANGED <<lastId, lock, push, poll, cursor, doc, log, torn>>

\* Lost, refused as stale_snapshot or covers_unknown_updates, or 404.
CompactFail(c) ==
    /\ compact[c].st # "idle"
    /\ compact' = [compact EXCEPT ![c] = Idle]
    /\ UNCHANGED <<tables, lastId, lock, push, poll, cursor, doc, log, torn>>

\* The sweep or an expire-on-read; deleting the row waits for its lock.
Delete ==
    /\ lock = {}
    /\ Serial!Expire
    /\ UNCHANGED <<lastId, lock, push, poll, compact, cursor, doc, log, torn>>

Next ==
    \/ \E c \in Clients :
        \/ \E e \in Edits : Type(c, e)
        \/ \E edits \in SUBSET Edits : PushSend(c, edits)
        \/ \E seq \in Seqs : PushInsert(c, seq)
        \/ PushCommit(c)
        \/ PushFail(c)
        \/ PollSend(c)
        \/ PollReadNote(c)
        \/ PollReadRows(c)
        \/ PollApply(c)
        \/ PollFail(c)
        \/ \E r \in log : Receive(c, r)
        \/ CompactSend(c)
        \/ CompactCommit(c)
        \/ CompactFail(c)
    \/ Delete

Spec == Init /\ [][Next]_vars
----------------------------------------------------------------------------
(* What has to be true of the log. *)

\* "Rows with id <= snapshot_seq never exist" (models.py, LiveNote): whatever the
\* order of appends and compactions, the tail is exactly the history the
\* snapshot does not have, so a cursor at snapshot_seq needs all of it.
TailAboveSnapshot ==
    /\ \A r \in rows : r.seq > snapshotSeq
    /\ exists => \A r \in log : r.seq > snapshotSeq => \E q \in rows : q.seq = r.seq

\* The reason append_live_update gives for its lock: while an id is allocated and
\* not yet visible, no committed row and no cursor anywhere has passed it, so no
\* reader can skip it when it commits.
NothingPassesAnUncommittedId ==
    \A c \in Clients : push[c].st = "held" =>
        /\ \A r \in log : r.seq < push[c].seq
        /\ \A d \in Clients : cursor[d] < push[c].seq
        /\ \A d \in Clients : push[d].st = "held" => d = c

\* "Consecutive appends chain gaplessly" (append_live_update): the prev_seq pushed
\* with a row is the id of the row before it in the note's whole history, pruned
\* or not, so a client can trust prev_seq <= cursor to mean it missed nothing.
PrevChain ==
    \A r \in log : r.prev = Newest({q \in log : q.seq < r.seq}, 0)

\* A client has applied every update at or below its cursor, whichever of
\* bootstrap, polls, resyncs and pushes moved it there - as long as no
\* compaction has committed between the two queries of a read.
HoldsHistory(c) == \A r \in log : r.seq <= cursor[c] => r.edits \subseteq doc[c]
CursorSound == torn \/ \A c \in Clients : HoldsHistory(c)

\* An accepted update stays readable until the note expires: it is in the
\* snapshot or in the tail, however many clients compact - under the same proviso.
AcceptedKept ==
    exists /\ ~torn => \A r \in log : r.edits \subseteq snapshot \cup EditsOf(rows)

\* The server's transactions, in whatever order their statements interleave,
\* have the effect of a log on which every append, compaction and expiry is one
\* step: nothing is accepted past the caps and ids never go back.
ImplementsSerialLog == Serial!SerialSpec

\* models.py, LiveNote, without the proviso: "a client whose sync cursor is older
\* than snapshot_seq has provably missed pruned history and is re-sent the
\* snapshot", so a cursor at or past snapshot_seq has missed nothing.
CursorNeverSkips == \A c \in Clients : HoldsHistory(c)
============================================================================
