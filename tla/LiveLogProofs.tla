--------------------------- MODULE LiveLogProofs ---------------------------
(***************************************************************************)
(* LiveLog, proved for every number of clients, edits and ids: its type    *)
(* invariant, the order of ids and cursors the row lock gives, the chain   *)
(* of prev_seq, and - while no read has been torn - that cursors miss      *)
(* nothing and accepted updates are kept.  Then: LiveLog implements        *)
(* SerialLog.                                                              *)
(***************************************************************************)
EXTENDS LiveLog, UpdateTableProofs

----------------------------------------------------------------------------
(* The inductive invariant, in parts. *)

\* The row lock is held by the one append that has allocated an id.
LockInv ==
    /\ \A c \in Clients : c \in lock <=> push[c].st = "held"
    /\ \A c, d \in lock : c = d
    /\ lock # {} => exists

\* n is an id that has been allocated, and below any id still uncommitted.
Settled(n) ==
    /\ n <= lastId
    /\ \A c \in Clients : push[c].st = "held" => n < push[c].seq

\* Every number a client or the note works with is settled.
SettledInv ==
    /\ Settled(snapshotSeq)
    /\ \A r \in log : Settled(r.seq)
    /\ \A c \in Clients :
        /\ Settled(cursor[c])
        /\ poll[c].st # "idle" => poll[c].since <= cursor[c]
        /\ poll[c].st = "done" => Settled(poll[c].seq)
        /\ compact[c].st # "idle" => Settled(compact[c].covers)

\* The table against the history: rows are what the snapshot has not folded in.
TableInv ==
    /\ \A q \in rows : /\ q.seq > snapshotSeq
                       /\ \E r \in log : r.seq = q.seq /\ r.edits = q.edits
    /\ \A q, r \in log : q.seq = r.seq => q = r
    /\ exists => \A r \in log : r.seq > snapshotSeq
                                    => [seq |-> r.seq, edits |-> r.edits] \in rows
    /\ exists /\ rows = {} /\ snapshotSeq # 0 => \E r \in log : r.seq = snapshotSeq
    /\ ~exists => rows = {}

\* What the append holding the lock has read is still true.
HeldInv ==
    \A c \in Clients : push[c].st = "held" =>
        /\ push[c].seq <= lastId
        /\ push[c].prev = Newest(log, 0)
        /\ ~TailFull(rows, push[c].edits)

\* A read that has fetched the note still has its snapshot, unless it was replaced.
NoteInv ==
    \A c \in Clients : poll[c].st = "note" =>
        /\ poll[c].snapSeq <= snapshotSeq
        /\ poll[c].snapSeq = snapshotSeq => poll[c].snap = snapshot

\* A copy that stands for the history up to an id really holds it.
Holds(content, upTo) == \A r \in log : r.seq <= upTo => r.edits \subseteq content

ContentInv ==
    torn \/ /\ Holds(snapshot, snapshotSeq)
            /\ \A c \in Clients :
                /\ Holds(doc[c], cursor[c])
                /\ compact[c].st # "idle" => Holds(compact[c].content, compact[c].covers)
                /\ poll[c].st = "done" =>
                    \A r \in log : r.seq <= poll[c].seq =>
                        r.seq <= poll[c].since \/ r.edits \subseteq poll[c].edits

\* All of it together: inductive, and stronger than each property of LiveLog.
IInv ==
    /\ TypeOK
    /\ LockInv
    /\ SettledInv
    /\ TableInv
    /\ HeldInv
    /\ PrevChain
    /\ NoteInv
    /\ ContentInv
----------------------------------------------------------------------------
(* Numbers *)

\* The ids of well-typed log records are ids.
LEMMA LogSeqs ==
    ASSUME NEW R \in SUBSET LogRecord
    PROVE  SeqsOf(R) \in SUBSET Seqs
BY DEF SeqsOf, LogRecord
----------------------------------------------------------------------------
(* The type invariant. *)

\* Init is well typed.
LEMMA TypeInit == Init => TypeOK
<1> SUFFICES ASSUME Init
             PROVE  TypeOK
  OBVIOUS
<1> USE BoundsAssumption DEF Init
<1>1. /\ exists \in BOOLEAN
      /\ snapshot \in SUBSET Edits
      /\ snapshotSeq \in 0..MaxSeq
      /\ rows \in SUBSET Row
  BY DEF Serial!SerialInit
<1>2. /\ push \in [Clients -> PushTask]
      /\ poll \in [Clients -> PollTask]
      /\ compact \in [Clients -> CompactTask]
  BY DEF PushTask, PollTask, CompactTask
<1>3. /\ cursor \in [Clients -> Cursors]
      /\ doc \in [Clients -> SUBSET Edits]
  BY DEF Cursors
<1>4. /\ lastId \in 0..MaxSeq
      /\ lock \in SUBSET Clients
      /\ log \in SUBSET LogRecord
  OBVIOUS
<1>5. torn \in BOOLEAN
  OBVIOUS
<1> QED BY <1>1, <1>2, <1>3, <1>4, <1>5 DEF TypeOK

\* Every step keeps the types.
LEMMA TypeStep == TypeOK /\ [Next]_vars => TypeOK'
<1> SUFFICES ASSUME TypeOK, [Next]_vars
             PROVE  TypeOK'
  OBVIOUS
<1> USE BoundsAssumption DEF TypeOK, tables
<1>1. ASSUME NEW c \in Clients, NEW e \in Edits, Type(c, e)
      PROVE  TypeOK'
  BY <1>1 DEF Type
<1>2. ASSUME NEW c \in Clients, NEW edits \in SUBSET Edits, PushSend(c, edits)
      PROVE  TypeOK'
  BY <1>2 DEF PushSend, PushTask
<1>3. ASSUME NEW c \in Clients, NEW seq \in Seqs, PushInsert(c, seq)
      PROVE  TypeOK'
  <2>1. Newest(rows, snapshotSeq) \in 0..MaxSeq
    BY RowSeqs, NewestType
  <2>2. push[c].edits \in SUBSET Edits
    BY <1>3 DEF PushInsert, PushTask, Idle
  <2>3. push'[c] \in PushTask
    BY <1>3, <2>1, <2>2 DEF PushInsert, PushTask
  <2>4. push' \in [Clients -> PushTask]
    BY <1>3, <2>3 DEF PushInsert
  <2> QED BY <1>3, <2>4 DEF PushInsert, Seqs
<1>4. ASSUME NEW c \in Clients, PushCommit(c)
      PROVE  TypeOK'
  <2>1. /\ push[c].edits \in SUBSET Edits
        /\ push[c].seq \in Seqs
        /\ push[c].prev \in 0..MaxSeq
    BY <1>4 DEF PushCommit, PushTask, Idle
  <2>2. rows' \in SUBSET Row
    BY <1>4, <2>1 DEF PushCommit, Row
  <2>3. log' \in SUBSET LogRecord
    BY <1>4, <2>1 DEF PushCommit, LogRecord
  <2> QED BY <1>4, <2>2, <2>3 DEF PushCommit, PushTask
<1>5. ASSUME NEW c \in Clients, PushFail(c)
      PROVE  TypeOK'
  BY <1>5 DEF PushFail, PushTask
<1>6. ASSUME NEW c \in Clients, PollSend(c)
      PROVE  TypeOK'
  BY <1>6 DEF PollSend, PollTask
<1>7. ASSUME NEW c \in Clients, PollReadNote(c)
      PROVE  TypeOK'
  <2>1. poll[c].since \in Cursors
    BY <1>7 DEF PollReadNote, PollTask, Idle
  <2>2. poll'[c] \in PollTask
    BY <1>7, <2>1 DEF PollReadNote, PollTask
  <2>3. poll' \in [Clients -> PollTask]
    BY <1>7, <2>2 DEF PollReadNote
  <2> QED BY <1>7, <2>3 DEF PollReadNote
<1>8. ASSUME NEW c \in Clients, PollReadRows(c)
      PROVE  TypeOK'
  <2> DEFINE body == ReadBody(poll[c].snap, poll[c].snapSeq, rows, poll[c].since)
  <2>1. /\ poll[c].since \in Cursors
        /\ poll[c].snap \in SUBSET Edits
        /\ poll[c].snapSeq \in 0..MaxSeq
    BY <1>8 DEF PollReadRows, PollTask, Idle
  <2>2. body.edits \in SUBSET Edits /\ body.seq \in 0..MaxSeq
    BY <2>1, ReadBodyType DEF Cursors
  <2> HIDE DEF body
  <2>3. poll' = [poll EXCEPT ![c] = [st |-> "done", since |-> poll[c].since,
                                     edits |-> body.edits, seq |-> body.seq]]
    BY <1>8 DEF PollReadRows, body
  <2>4. poll' \in [Clients -> PollTask]
    BY <2>1, <2>2, <2>3 DEF PollTask
  <2> QED BY <1>8, <2>4 DEF PollReadRows
<1>9. ASSUME NEW c \in Clients, PollApply(c)
      PROVE  TypeOK'
  <2>1. poll[c].edits \in SUBSET Edits /\ poll[c].seq \in 0..MaxSeq
    BY <1>9 DEF PollApply, PollTask, Idle
  <2> QED BY <1>9, <2>1 DEF PollApply, PollTask, Cursors
<1>10. ASSUME NEW c \in Clients, PollFail(c)
       PROVE  TypeOK'
  BY <1>10 DEF PollFail, PollTask
<1>11. ASSUME NEW c \in Clients, NEW r \in log, Receive(c, r)
       PROVE  TypeOK'
  BY <1>11 DEF Receive, LogRecord, Cursors, Seqs
<1>12. ASSUME NEW c \in Clients, CompactSend(c)
       PROVE  TypeOK'
  <2>1. cursor[c] \in Seqs
    BY <1>12 DEF CompactSend, Cursors, NoCursor, Seqs
  <2> QED BY <1>12, <2>1 DEF CompactSend, CompactTask
<1>13. ASSUME NEW c \in Clients, CompactCommit(c)
       PROVE  TypeOK'
  <2>1. compact[c].covers \in Seqs /\ compact[c].content \in SUBSET Edits
    BY <1>13 DEF CompactCommit, CompactTask, Idle
  <2>2. /\ snapshot' \in SUBSET Edits
        /\ snapshotSeq' \in 0..MaxSeq
        /\ rows' \in SUBSET Row
        /\ exists' = exists
    BY <1>13, <2>1 DEF CompactCommit, Serial!Compact, Serial!After, Seqs
  <2> QED BY <1>13, <2>2 DEF CompactCommit, CompactTask
<1>14. ASSUME NEW c \in Clients, CompactFail(c)
       PROVE  TypeOK'
  BY <1>14 DEF CompactFail, CompactTask
<1>15. CASE Delete
  BY <1>15 DEF Delete, Serial!Expire
<1>16. CASE UNCHANGED vars
  BY <1>16 DEF vars
<1> QED BY <1>1, <1>2, <1>3, <1>4, <1>5, <1>6, <1>7, <1>8, <1>9, <1>10, <1>11, <1>12,
           <1>13, <1>14, <1>15, <1>16 DEF Next

\* LiveLog is well typed: whatever the interleaving of transactions and reads,
\* ids and cursors stay ids of the table and every task keeps its shape.
THEOREM LiveLogTypeOK == Spec => []TypeOK
<1>1. Init => TypeOK
  BY TypeInit
<1>2. TypeOK /\ [Next]_vars => TypeOK'
  BY TypeStep
<1> QED BY <1>1, <1>2, PTL DEF Spec

----------------------------------------------------------------------------
(* The inductive invariant, action by action. *)

\* The inductive invariant holds of a note just created.
LEMMA IInvInit == Init => IInv
<1> SUFFICES ASSUME Init
             PROVE  IInv
  OBVIOUS
<1> USE BoundsAssumption DEF Init, Serial!SerialInit, Idle
<1>1. TypeOK
  BY TypeInit
<1>2. LockInv /\ SettledInv
  BY DEF LockInv, SettledInv, Settled, NoCursor
<1>3. TableInv /\ HeldInv /\ PrevChain /\ NoteInv
  BY DEF TableInv, HeldInv, PrevChain, NoteInv
<1>4. ContentInv
  BY DEF ContentInv, Holds
<1> QED BY <1>1, <1>2, <1>3, <1>4 DEF IInv

\* Typing (doc.on update) disturbs nothing: documents only grow.
LEMMA TypeKeeps ==
    ASSUME IInv, NEW c \in Clients, NEW e \in Edits, Type(c, e)
    PROVE  IInv'
<1> USE DEF IInv, Type, tables
<1>1. TypeOK'
  BY TypeStep DEF Next
<1>2. LockInv' /\ TableInv' /\ HeldInv' /\ PrevChain' /\ NoteInv'
  BY DEF LockInv, TableInv, HeldInv, PrevChain, NoteInv
<1>3. SettledInv'
  BY DEF SettledInv, Settled
<1>4. ContentInv'
  BY DEF ContentInv, Holds, TypeOK
<1> QED BY <1>1, <1>2, <1>3, <1>4

\* Sending an append touches no table.
LEMMA PushSendKeeps ==
    ASSUME IInv, NEW c \in Clients, NEW edits \in SUBSET Edits, PushSend(c, edits)
    PROVE  IInv'
<1> USE DEF IInv, PushSend, tables
<1>1. TypeOK'
  BY TypeStep DEF Next
<1>2. \A d \in Clients : push'[d].st = "held" => push[d].st = "held" /\ push'[d] = push[d]
  BY DEF TypeOK
<1>3. LockInv'
  BY DEF LockInv, TypeOK
<1>4. SettledInv'
  BY <1>2 DEF SettledInv, Settled
<1>5. HeldInv'
  BY <1>2 DEF HeldInv
<1>6. TableInv' /\ PrevChain' /\ NoteInv' /\ ContentInv'
  BY DEF TableInv, PrevChain, NoteInv, ContentInv, Holds
<1> QED BY <1>1, <1>3, <1>4, <1>5, <1>6

\* The prev_seq an append computes from the tail, or from snapshot_seq when the
\* tail is empty, is the newest id of the whole history.
LEMMA PrevFromTail ==
    ASSUME TypeOK, TableInv, exists
    PROVE  Newest(rows, snapshotSeq) = Newest(log, 0)
<1> USE BoundsAssumption
<1>1. SeqsOf(rows) \in SUBSET Seqs /\ SeqsOf(log) \in SUBSET Seqs
  BY RowSeqs, LogSeqs DEF TypeOK
<1>2. \A r \in log : r.seq \in Nat /\ r.seq > 0
  BY DEF TypeOK, LogRecord, Seqs
<1>3. snapshotSeq \in Nat
  BY DEF TypeOK
<1>4. CASE rows = {} /\ snapshotSeq = 0
  <2>1. log = {}
    BY <1>2, <1>4 DEF TableInv
  <2> QED BY <1>4, <2>1 DEF Newest
<1>5. CASE rows = {} /\ snapshotSeq # 0
  <2>1. PICK r \in log : r.seq = snapshotSeq
    BY <1>5 DEF TableInv
  <2>2. \A q \in log : ~(q.seq > snapshotSeq)
    BY <1>5 DEF TableInv
  <2>3. \A q \in log : q.seq <= r.seq
    BY <1>2, <1>3, <2>1, <2>2
  <2>4. Newest(log, 0) = r.seq
    BY <1>1, <2>3, NewestUnique
  <2> QED BY <1>5, <2>1, <2>4 DEF Newest
<1>6. CASE rows # {}
  <2>1. /\ Newest(rows, snapshotSeq) \in SeqsOf(rows)
        /\ \A q \in rows : q.seq <= Newest(rows, snapshotSeq)
    BY <1>1, <1>6, NewestIsLargest
  <2>2. PICK q \in rows : q.seq = Newest(rows, snapshotSeq)
    BY <2>1 DEF SeqsOf
  <2>3. PICK r \in log : r.seq = q.seq
    BY DEF TableInv
  <2>4. ASSUME NEW z \in log
        PROVE  z.seq <= r.seq
    <3>1. CASE z.seq > snapshotSeq
      <4>1. [seq |-> z.seq, edits |-> z.edits] \in rows
        BY <3>1 DEF TableInv
      <4> QED BY <4>1, <2>1, <2>2, <2>3
    <3>2. CASE ~(z.seq > snapshotSeq)
      <4>1. q.seq > snapshotSeq
        BY DEF TableInv
      <4> QED BY <1>2, <1>3, <2>3, <3>2, <4>1
    <3> QED BY <3>1, <3>2
  <2>5. Newest(log, 0) = r.seq
    BY <1>1, <2>4, NewestUnique
  <2> QED BY <2>2, <2>3, <2>5
<1> QED BY <1>4, <1>5, <1>6

\* The INSERT of append_live_update: the id it takes is above every id anyone has seen,
\* because the lock was free and so nothing was uncommitted.
LEMMA PushInsertKeeps ==
    ASSUME IInv, NEW c \in Clients, NEW seq \in Seqs, PushInsert(c, seq)
    PROVE  IInv'
<1> USE DEF IInv, PushInsert
<1>1. TypeOK'
  BY TypeStep DEF Next
<1>2. \A d \in Clients : push[d].st # "held"
  BY DEF LockInv
<1>3. \A d \in Clients : push'[d].st = "held" <=> d = c
  BY <1>2 DEF TypeOK
<1>4. /\ push'[c].seq = seq
      /\ push'[c].prev = Newest(rows, snapshotSeq)
      /\ push'[c].edits = push[c].edits
  BY DEF TypeOK
<1>5. LockInv'
  <2>1. lock' = {c} /\ exists'
    BY DEF tables
  <2>2. \A d \in Clients : d \in lock' <=> push'[d].st = "held"
    BY <1>3, <2>1
  <2> QED BY <2>1, <2>2 DEF LockInv
<1>6. SettledInv'
  <2>1. ASSUME NEW n \in Int, Settled(n)
        PROVE  Settled(n)'
    <3>1. n <= lastId
      BY <2>1 DEF Settled
    <3>2. lastId' = seq /\ seq > lastId /\ seq \in Int /\ lastId \in Int
      BY BoundsAssumption DEF TypeOK, Seqs
    <3>3. n < seq /\ n <= lastId'
      BY <3>1, <3>2
    <3> QED BY <1>3, <1>4, <3>3 DEF Settled
  <2>2. /\ snapshotSeq \in Int
        /\ \A r \in log : r.seq \in Int
        /\ \A d \in Clients : cursor[d] \in Int
    BY BoundsAssumption DEF TypeOK, LogRecord, Seqs, Cursors, NoCursor
  <2>3. \A d \in Clients : /\ poll[d].st = "done" => poll[d].seq \in Int
                           /\ compact[d].st # "idle" => compact[d].covers \in Int
    BY BoundsAssumption DEF TypeOK, PollTask, CompactTask, Idle, Seqs
  <2>4. Settled(snapshotSeq)' /\ \A r \in log : Settled(r.seq)'
    BY <2>1, <2>2 DEF SettledInv, tables
  <2> QED BY <2>1, <2>2, <2>3, <2>4 DEF SettledInv, tables
<1>7. HeldInv'
  <2>1. Newest(rows, snapshotSeq) = Newest(log, 0)
    BY PrevFromTail
  <2>2. /\ push'[c].seq <= lastId'
        /\ push'[c].prev = Newest(log, 0)'
        /\ ~TailFull(rows', push'[c].edits)
    BY <1>4, <2>1, BoundsAssumption DEF tables, Seqs
  <2> QED BY <1>3, <2>2 DEF HeldInv
<1>8. TableInv' /\ PrevChain' /\ NoteInv' /\ ContentInv'
  BY DEF TableInv, PrevChain, NoteInv, ContentInv, Holds, tables
<1> QED BY <1>1, <1>5, <1>6, <1>7, <1>8

\* With the row lock held, its holder is the only append that has an id.
LEMMA OneHolder ==
    ASSUME TypeOK, LockInv, NEW c \in Clients, push[c].st = "held"
    PROVE  lock = {c} /\ exists /\ \A d \in Clients : push[d].st = "held" <=> d = c
BY DEF LockInv, TypeOK

\* The COMMIT of append_live_update: the row lands on top of the tail and of the
\* history, above every cursor and every read under way.
LEMMA PushCommitKeeps ==
    ASSUME IInv, NEW c \in Clients, PushCommit(c)
    PROVE  IInv'
<1> USE DEF IInv
<1> DEFINE new == [seq |-> push[c].seq, prev |-> push[c].prev, edits |-> push[c].edits]
<1>1. TypeOK'
  BY TypeStep DEF Next
<1>2. /\ push[c].st = "held"
      /\ lock = {c}
      /\ exists
      /\ \A d \in Clients : push'[d].st # "held"
  BY OneHolder DEF PushCommit, TypeOK, Idle
<1>3. /\ rows' = rows \cup {[seq |-> push[c].seq, edits |-> push[c].edits]}
      /\ log' = log \cup {new}
      /\ lock' = {}
      /\ UNCHANGED <<exists, snapshot, snapshotSeq, lastId, poll, compact, cursor, doc, torn>>
  BY DEF PushCommit
<1>4. /\ \A r \in log : r.seq < new.seq
      /\ snapshotSeq < new.seq
      /\ new.seq <= lastId
      /\ new.prev = Newest(log, 0)
  BY <1>2 DEF SettledInv, Settled, HeldInv
<1>5. \A d \in Clients : /\ cursor[d] < new.seq
                         /\ poll[d].st = "done" => poll[d].seq < new.seq
                         /\ compact[d].st # "idle" => compact[d].covers < new.seq
  BY <1>2 DEF SettledInv, Settled
<1>6. new.seq \in Int /\ \A r \in log : r.seq \in Int
  BY <1>2, BoundsAssumption DEF TypeOK, PushTask, Idle, LogRecord, Seqs
<1> HIDE DEF new
<1>7. LockInv'
  BY <1>2, <1>3 DEF LockInv
<1>8. SettledInv'
  <2>1. \A n : n <= lastId => Settled(n)'
    BY <1>2, <1>3 DEF Settled
  <2>2. \A r \in log' : r.seq <= lastId
    BY <1>3, <1>4 DEF SettledInv, Settled
  <2> QED BY <1>3, <2>1, <2>2 DEF SettledInv, Settled
<1>9. TableInv'
  <2>1. \A q \in rows' : /\ q.seq > snapshotSeq'
                         /\ \E r \in log' : r.seq = q.seq /\ r.edits = q.edits
    <3>1. new \in log' /\ new.seq = push[c].seq /\ new.edits = push[c].edits
      BY <1>3 DEF new
    <3>2. snapshotSeq' = snapshotSeq /\ new.seq > snapshotSeq
      BY <1>3, <1>4, BoundsAssumption, <1>6 DEF TypeOK
    <3> QED BY <1>3, <3>1, <3>2 DEF TableInv
  <2>2. \A q, r \in log' : q.seq = r.seq => q = r
    BY <1>3, <1>4, <1>6 DEF TableInv
  <2>3. \A r \in log' : r.seq > snapshotSeq' => [seq |-> r.seq, edits |-> r.edits] \in rows'
    BY <1>2, <1>3 DEF TableInv, new
  <2> QED BY <1>2, <1>3, <2>1, <2>2, <2>3 DEF TableInv
<1>10. HeldInv'
  BY <1>2 DEF HeldInv
<1>11. PrevChain'
  <2>1. {q \in log' : q.seq < new.seq} = log
    BY <1>3, <1>4, <1>6
  <2>2. ASSUME NEW r \in log
        PROVE  {q \in log' : q.seq < r.seq} = {q \in log : q.seq < r.seq}
    BY <1>3, <1>4, <1>6
  <2> QED BY <1>3, <1>4, <2>1, <2>2 DEF PrevChain
<1>12. NoteInv'
  BY <1>3 DEF NoteInv
<1>13. ContentInv'
  <2>1. SUFFICES ASSUME ~torn
                 PROVE  ContentInv'
    BY <1>3 DEF ContentInv
  <2>2. ASSUME NEW content, NEW upTo \in Int, upTo < new.seq, Holds(content, upTo)
        PROVE  Holds(content, upTo)'
    BY <1>3, <1>6, <2>2 DEF Holds
  <2>3. /\ snapshotSeq \in Int
        /\ \A d \in Clients : /\ cursor[d] \in Int
                              /\ compact[d].st # "idle" => compact[d].covers \in Int
                              /\ poll[d].st = "done" => poll[d].seq \in Int
    BY BoundsAssumption DEF TypeOK, Cursors, NoCursor, CompactTask, PollTask, Idle, Seqs
  <2>4. Holds(snapshot, snapshotSeq)'
    BY <1>3, <1>4, <2>1, <2>2, <2>3 DEF ContentInv, Holds
  <2>5. ASSUME NEW d \in Clients
        PROVE  /\ Holds(doc[d], cursor[d])'
               /\ (compact[d].st # "idle" => Holds(compact[d].content, compact[d].covers))'
    BY <1>3, <1>5, <1>6, <2>1, <2>3 DEF ContentInv, Holds
  <2>6. ASSUME NEW d \in Clients, poll[d].st = "done", NEW r \in log', r.seq <= poll[d].seq
        PROVE  r.seq <= poll[d].since \/ r.edits \subseteq poll[d].edits
    <3>1. r \in log
      BY <1>3, <1>5, <1>6, <2>3, <2>6
    <3> QED BY <2>1, <2>6, <3>1 DEF ContentInv
  <2> QED BY <1>3, <2>4, <2>5, <2>6 DEF ContentInv
<1> QED BY <1>1, <1>7, <1>8, <1>9, <1>10, <1>11, <1>12, <1>13

\* A refused or rolled back append leaves the tables alone and frees its lock.
LEMMA PushFailKeeps ==
    ASSUME IInv, NEW c \in Clients, PushFail(c)
    PROVE  IInv'
<1> USE DEF IInv, PushFail, tables
<1>1. TypeOK'
  BY TypeStep DEF Next
<1>2. \A d \in Clients : push'[d].st = "held" <=> push[d].st = "held" /\ d # c
  BY DEF TypeOK, Idle
<1>3. \A d \in Clients : push'[d].st = "held" => push'[d] = push[d]
  BY DEF TypeOK, Idle
<1>4. LockInv'
  BY <1>2 DEF LockInv
<1>5. SettledInv'
  <2>1. \A n : Settled(n) => Settled(n)'
    BY <1>2, <1>3 DEF Settled
  <2> QED BY <2>1 DEF SettledInv
<1>6. HeldInv'
  BY <1>2, <1>3 DEF HeldInv
<1>7. TableInv' /\ PrevChain' /\ NoteInv' /\ ContentInv'
  BY DEF TableInv, PrevChain, NoteInv, ContentInv, Holds
<1> QED BY <1>1, <1>4, <1>5, <1>6, <1>7

\* A read starts at the reader's cursor.
LEMMA PollSendKeeps ==
    ASSUME IInv, NEW c \in Clients, PollSend(c)
    PROVE  IInv'
<1> USE DEF IInv, PollSend, tables
<1>1. TypeOK'
  BY TypeStep DEF Next
<1>2. \A d \in Clients : poll'[d] = poll[d] \/ (d = c /\ poll'[d].st = "sent"
                                                     /\ poll'[d].since = cursor[c])
  BY DEF TypeOK
<1>3. SettledInv'
  <2>1. cursor[c] \in Int
    BY BoundsAssumption DEF TypeOK, Cursors, NoCursor
  <2> QED BY <1>2, <2>1 DEF SettledInv, Settled
<1>4. NoteInv' /\ ContentInv'
  BY <1>2 DEF NoteInv, ContentInv, Holds
<1>5. LockInv' /\ TableInv' /\ HeldInv' /\ PrevChain'
  BY DEF LockInv, TableInv, HeldInv, PrevChain
<1> QED BY <1>1, <1>3, <1>4, <1>5

\* The first query of a read takes the snapshot columns as they are.
LEMMA PollReadNoteKeeps ==
    ASSUME IInv, NEW c \in Clients, PollReadNote(c)
    PROVE  IInv'
<1> USE DEF IInv, PollReadNote, tables
<1>1. TypeOK'
  BY TypeStep DEF Next
<1>2. \A d \in Clients : poll'[d] = poll[d]
                         \/ /\ d = c
                            /\ poll'[d].st = "note"
                            /\ poll'[d].since = poll[d].since
                            /\ poll'[d].snap = snapshot
                            /\ poll'[d].snapSeq = snapshotSeq
  BY DEF TypeOK
<1>3. SettledInv'
  BY <1>2 DEF SettledInv, Settled
<1>4. NoteInv'
  <2>1. snapshotSeq \in Int
    BY BoundsAssumption DEF TypeOK
  <2> QED BY <1>2, <2>1 DEF NoteInv
<1>5. ContentInv'
  BY <1>2 DEF ContentInv, Holds
<1>6. LockInv' /\ TableInv' /\ HeldInv' /\ PrevChain'
  BY DEF LockInv, TableInv, HeldInv, PrevChain
<1> QED BY <1>1, <1>3, <1>4, <1>5, <1>6

\* A read whose two queries saw the same snapshot brings everything between the
\* cursor it was sent with and the one it answers.
LEMMA ReadIsComplete ==
    ASSUME TypeOK, TableInv, Holds(snapshot, snapshotSeq), NEW since \in Cursors,
           NEW r \in log, r.seq <= ReadBody(snapshot, snapshotSeq, rows, since).seq
    PROVE  \/ r.seq <= since
           \/ r.edits \subseteq ReadBody(snapshot, snapshotSeq, rows, since).edits
<1> DEFINE resync == since < snapshotSeq
           found == IF resync THEN rows ELSE After(rows, since)
           row == [seq |-> r.seq, edits |-> r.edits]
<1>1. SUFFICES ASSUME ~(r.seq <= since)
               PROVE  r.edits \subseteq EditsOf(found) \cup (IF resync THEN snapshot ELSE {})
  BY DEF ReadBody
<1>2. r.seq \in Int /\ since \in Int /\ snapshotSeq \in Int
  BY BoundsAssumption DEF TypeOK, LogRecord, Seqs, Cursors, NoCursor
<1>3. CASE resync /\ r.seq <= snapshotSeq
  BY <1>3 DEF Holds
<1>4. CASE ~(resync /\ r.seq <= snapshotSeq)
  <2>1. r.seq > snapshotSeq
    BY <1>1, <1>2, <1>4
  <2>2. r.seq <= Newest(found, IF resync THEN snapshotSeq ELSE since)
    BY DEF ReadBody
  <2>3. found # {}
    BY <1>1, <1>2, <2>1, <2>2 DEF Newest
  <2>4. exists
    BY <2>3 DEF TableInv, After
  <2>5. row \in rows
    BY <2>1, <2>4 DEF TableInv
  <2>6. row \in found
    BY <1>1, <1>2, <2>5 DEF After
  <2>7. r.edits \subseteq EditsOf(found)
    <3> HIDE DEF found
    <3> QED BY <2>6 DEF EditsOf
  <2> QED BY <2>7
<1> QED BY <1>3, <1>4

\* The second query pairs them with the rows there are now; if the snapshot has moved
\* since, torn says so and ContentInv owes nothing more.
LEMMA PollReadRowsKeeps ==
    ASSUME IInv, NEW c \in Clients, PollReadRows(c)
    PROVE  IInv'
<1> USE DEF IInv
<1> DEFINE body == ReadBody(poll[c].snap, poll[c].snapSeq, rows, poll[c].since)
<1>1. TypeOK'
  BY TypeStep DEF Next
<1>2. /\ poll[c].st = "note"
      /\ poll' = [poll EXCEPT ![c] = [st |-> "done", since |-> poll[c].since,
                                      edits |-> body.edits, seq |-> body.seq]]
      /\ torn' = (torn \/ poll[c].snapSeq # snapshotSeq)
      /\ UNCHANGED <<exists, snapshot, snapshotSeq, rows, lastId, lock, push, compact,
                     cursor, doc, log>>
  BY DEF PollReadRows, tables
<1>3. /\ poll[c].since \in Cursors
      /\ poll[c].snap \in SUBSET Edits
      /\ poll[c].snapSeq \in 0..MaxSeq
  BY <1>2 DEF TypeOK, PollTask, Idle
<1>4. body.seq \in {poll[c].snapSeq, poll[c].since} \cup SeqsOf(rows)
  <2>1. ASSUME NEW R \in SUBSET rows, NEW n \in {poll[c].snapSeq, poll[c].since}
        PROVE  Newest(R, n) \in {n} \cup SeqsOf(rows)
    <3>1. CASE R = {}
      BY <3>1 DEF Newest
    <3>2. CASE R # {}
      <4>1. SeqsOf(R) \in SUBSET Seqs
        BY RowSeqs DEF TypeOK
      <4>2. Newest(R, n) \in SeqsOf(R)
        BY <3>2, <4>1, NewestIsLargest
      <4> QED BY <4>2 DEF SeqsOf
    <3> QED BY <3>1, <3>2
  <2>2. After(rows, poll[c].since) \in SUBSET rows
    BY DEF After
  <2> QED BY <2>1, <2>2 DEF ReadBody
<1>5. Settled(body.seq)
  <2>1. ASSUME NEW n \in Int, NEW m \in Int, n <= m, Settled(m)
        PROVE  Settled(n)
    <3>1. lastId \in Int /\ \A d \in Clients : push[d].st = "held" => push[d].seq \in Int
      BY BoundsAssumption DEF TypeOK, PushTask, Idle, Seqs
    <3> QED BY <2>1, <3>1 DEF Settled
  <2>2. /\ poll[c].snapSeq \in Int /\ snapshotSeq \in Int
        /\ poll[c].since \in Int /\ cursor[c] \in Int
    BY <1>3, BoundsAssumption DEF TypeOK, Cursors, NoCursor
  <2>3. Settled(poll[c].snapSeq)
    BY <1>2, <2>1, <2>2 DEF NoteInv, SettledInv
  <2>4. Settled(poll[c].since)
    BY <1>2, <2>1, <2>2 DEF SettledInv
  <2>5. \A n \in SeqsOf(rows) : Settled(n)
    BY DEF SettledInv, TableInv, SeqsOf
  <2> QED BY <1>4, <2>3, <2>4, <2>5
<1>6. ~torn' => \A r \in log : r.seq <= body.seq =>
                    r.seq <= poll[c].since \/ r.edits \subseteq body.edits
  <2>1. SUFFICES ASSUME ~torn'
                 PROVE  \A r \in log : r.seq <= body.seq =>
                            r.seq <= poll[c].since \/ r.edits \subseteq body.edits
    OBVIOUS
  <2>2. ~torn /\ poll[c].snapSeq = snapshotSeq /\ poll[c].snap = snapshot
    BY <1>2, <2>1 DEF NoteInv
  <2>3. Holds(snapshot, snapshotSeq)
    BY <2>2 DEF ContentInv
  <2> QED BY <1>3, <2>2, <2>3, ReadIsComplete
<1> HIDE DEF body
<1>7. /\ poll'[c].st = "done"
      /\ poll'[c].since = poll[c].since
      /\ poll'[c].edits = body.edits
      /\ poll'[c].seq = body.seq
      /\ \A d \in Clients : d # c => poll'[d] = poll[d]
  BY <1>2 DEF TypeOK
<1>8. SettledInv'
  BY <1>2, <1>5, <1>7 DEF SettledInv, Settled
<1>9. NoteInv'
  BY <1>2, <1>7 DEF NoteInv
<1>10. ContentInv'
  <2>1. SUFFICES ASSUME ~torn'
                 PROVE  ContentInv'
    BY DEF ContentInv
  <2>2. ~torn
    BY <1>2, <2>1
  <2> QED BY <1>2, <1>6, <1>7, <2>1, <2>2 DEF ContentInv, Holds
<1>11. LockInv' /\ TableInv' /\ HeldInv' /\ PrevChain'
  BY <1>2 DEF LockInv, TableInv, HeldInv, PrevChain
<1> QED BY <1>1, <1>8, <1>9, <1>10, <1>11

\* applyServerBody: the document grows by the body before the cursor moves to it.
LEMMA PollApplyKeeps ==
    ASSUME IInv, NEW c \in Clients, PollApply(c)
    PROVE  IInv'
<1> USE DEF IInv
<1>1. TypeOK'
  BY TypeStep DEF Next
<1>2. /\ poll[c].st = "done"
      /\ doc'[c] = doc[c] \cup poll[c].edits
      /\ cursor'[c] = IF poll[c].seq > cursor[c] THEN poll[c].seq ELSE cursor[c]
      /\ poll'[c].st = "idle"
      /\ \A d \in Clients : d # c => /\ doc'[d] = doc[d]
                                     /\ cursor'[d] = cursor[d]
                                     /\ poll'[d] = poll[d]
      /\ UNCHANGED <<exists, snapshot, snapshotSeq, rows, lastId, lock, push, compact,
                     log, torn>>
  BY DEF PollApply, TypeOK, tables, Idle
<1>3. SettledInv'
  <2>1. Settled(poll[c].seq) /\ Settled(cursor[c])
    BY <1>2 DEF SettledInv
  <2> QED BY <1>2, <2>1 DEF SettledInv, Settled
<1>4. NoteInv'
  BY <1>2 DEF NoteInv
<1>5. ContentInv'
  <2>1. SUFFICES ASSUME ~torn
                 PROVE  ContentInv'
    BY <1>2 DEF ContentInv
  <2>2. /\ cursor[c] \in Int /\ poll[c].seq \in Int /\ poll[c].since \in Int
        /\ poll[c].since <= cursor[c]
        /\ \A r \in log : r.seq \in Int
    BY <1>2, BoundsAssumption
    DEF TypeOK, SettledInv, Cursors, NoCursor, PollTask, Idle, LogRecord, Seqs
  <2>3. ASSUME NEW r \in log, r.seq <= cursor'[c]
        PROVE  r.edits \subseteq doc'[c]
    <3>1. CASE r.seq <= cursor[c]
      BY <1>2, <2>1, <3>1 DEF ContentInv, Holds
    <3>2. CASE ~(r.seq <= cursor[c])
      <4>1. r.seq <= poll[c].seq /\ ~(r.seq <= poll[c].since)
        BY <1>2, <2>2, <2>3, <3>2
      <4> QED BY <1>2, <2>1, <4>1 DEF ContentInv
    <3> QED BY <3>1, <3>2
  <2> QED BY <1>2, <2>1, <2>3 DEF ContentInv, Holds
<1>6. LockInv' /\ TableInv' /\ HeldInv' /\ PrevChain'
  BY <1>2 DEF LockInv, TableInv, HeldInv, PrevChain
<1> QED BY <1>1, <1>3, <1>4, <1>5, <1>6

\* A read that fails changes no client.
LEMMA PollFailKeeps ==
    ASSUME IInv, NEW c \in Clients, PollFail(c)
    PROVE  IInv'
<1> USE DEF IInv, PollFail, tables
<1>1. TypeOK'
  BY TypeStep DEF Next
<1>2. \A d \in Clients : poll'[d] = poll[d] \/ poll'[d].st = "idle"
  BY DEF TypeOK, Idle
<1>3. SettledInv' /\ NoteInv' /\ ContentInv'
  BY <1>2 DEF SettledInv, Settled, NoteInv, ContentInv, Holds
<1>4. LockInv' /\ TableInv' /\ HeldInv' /\ PrevChain'
  BY DEF LockInv, TableInv, HeldInv, PrevChain
<1> QED BY <1>1, <1>3, <1>4

\* prev_seq <= cursor means nothing between the cursor and the row was missed.
LEMMA ReceiveKeeps ==
    ASSUME IInv, NEW c \in Clients, NEW r \in log, Receive(c, r)
    PROVE  IInv'
<1> USE DEF IInv
<1>1. TypeOK'
  BY TypeStep DEF Next
<1>2. /\ cursor[c] # NoCursor
      /\ r.prev <= cursor[c]
      /\ r.seq > cursor[c]
      /\ doc'[c] = doc[c] \cup r.edits
      /\ cursor'[c] = r.seq
      /\ \A d \in Clients : d # c => doc'[d] = doc[d] /\ cursor'[d] = cursor[d]
      /\ UNCHANGED <<exists, snapshot, snapshotSeq, rows, lastId, lock, push, poll, compact,
                     log, torn>>
  BY DEF Receive, TypeOK, tables, Joined
<1>3. /\ cursor[c] \in Int
      /\ \A q \in log : q.seq \in Int /\ q.prev \in Int
  BY BoundsAssumption DEF TypeOK, Cursors, NoCursor, LogRecord, Seqs
<1>4. SettledInv'
  <2>1. Settled(r.seq) /\ r.seq > cursor[c]
    BY <1>2 DEF SettledInv
  <2>2. poll[c].st # "idle" => poll[c].since <= r.seq
    <3>1. poll[c].st # "idle" => poll[c].since \in Int
      BY BoundsAssumption DEF TypeOK, PollTask, Idle, Cursors, NoCursor
    <3> QED BY <1>3, <2>1, <3>1 DEF SettledInv
  <2> QED BY <1>2, <2>1, <2>2 DEF SettledInv, Settled
<1>5. ContentInv'
  <2>1. SUFFICES ASSUME ~torn
                 PROVE  ContentInv'
    BY <1>2 DEF ContentInv
  <2>2. ASSUME NEW q \in log, q.seq <= r.seq
        PROVE  q.edits \subseteq doc'[c]
    <3>1. CASE q.seq <= cursor[c]
      BY <1>2, <2>1, <3>1 DEF ContentInv, Holds
    <3>2. CASE q.seq = r.seq
      <4>1. q = r
        BY <3>2 DEF TableInv
      <4> QED BY <1>2, <4>1
    <3>3. CASE q.seq > cursor[c] /\ q.seq < r.seq
      <4> DEFINE earlier == {z \in log : z.seq < r.seq}
      <4>1. q \in earlier /\ earlier \in SUBSET LogRecord
        BY <3>3 DEF TypeOK
      <4>2. r.prev = Newest(earlier, 0)
        BY DEF PrevChain
      <4>3. q.seq <= r.prev
        <5> HIDE DEF earlier
        <5> QED BY <4>1, <4>2, LogSeqs, NewestIsLargest
      <4> QED BY <1>2, <1>3, <3>3, <4>3
    <3> QED BY <1>3, <2>2, <3>1, <3>2, <3>3
  <2> QED BY <1>2, <2>1, <2>2 DEF ContentInv, Holds
<1>6. LockInv' /\ TableInv' /\ HeldInv' /\ PrevChain' /\ NoteInv'
  BY <1>2 DEF LockInv, TableInv, HeldInv, PrevChain, NoteInv
<1> QED BY <1>1, <1>4, <1>5, <1>6

\* compact() sends a document that holds all its cursor covers.
LEMMA CompactSendKeeps ==
    ASSUME IInv, NEW c \in Clients, CompactSend(c)
    PROVE  IInv'
<1> USE DEF IInv, CompactSend, tables
<1>1. TypeOK'
  BY TypeStep DEF Next
<1>2. \A d \in Clients : compact'[d] = compact[d]
                         \/ /\ d = c
                            /\ compact'[d].covers = cursor[d]
                            /\ compact'[d].content = doc[d]
  BY DEF TypeOK
<1>3. SettledInv' /\ ContentInv'
  BY <1>2 DEF SettledInv, Settled, ContentInv, Holds
<1>4. LockInv' /\ TableInv' /\ HeldInv' /\ PrevChain' /\ NoteInv'
  BY DEF LockInv, TableInv, HeldInv, PrevChain, NoteInv
<1> QED BY <1>1, <1>3, <1>4

\* save_live_snapshot: what it prunes is at or below covers_seq, so its content has it.
LEMMA CompactCommitKeeps ==
    ASSUME IInv, NEW c \in Clients, CompactCommit(c)
    PROVE  IInv'
<1> USE DEF IInv
<1> DEFINE covers == compact[c].covers
<1>1. TypeOK'
  BY TypeStep DEF Next
<1>2. /\ compact[c].st = "sent"
      /\ lock = {}
      /\ exists
      /\ covers > snapshotSeq
      /\ rows # {} /\ covers <= Newest(rows, 0)
      /\ snapshot' = compact[c].content
      /\ snapshotSeq' = covers
      /\ rows' = After(rows, covers)
      /\ UNCHANGED <<exists, lastId, lock, push, poll, cursor, doc, log, torn>>
  BY DEF CompactCommit, Serial!Compact, Serial!CoversNewer, Serial!CoversKnown, Serial!After,
         Serial!Newest, Serial!SeqsOf, After, Newest, SeqsOf
<1>3. \A d \in Clients : compact'[d] = compact[d] \/ compact'[d].st = "idle"
  BY DEF CompactCommit, TypeOK, Idle
<1>4. \A d \in Clients : push[d].st # "held"
  BY <1>2 DEF LockInv
<1>5. /\ covers \in Int /\ snapshotSeq \in Int
      /\ \A r \in log : r.seq \in Int
      /\ \A d \in Clients : poll[d].st = "note" => poll[d].snapSeq \in Int
  BY <1>2, BoundsAssumption DEF TypeOK, CompactTask, PollTask, Idle, LogRecord, Seqs
<1>6. LockInv' /\ HeldInv' /\ PrevChain'
  BY <1>2, <1>4 DEF LockInv, HeldInv, PrevChain
<1>7. SettledInv'
  BY <1>2, <1>3 DEF SettledInv, Settled
<1>8. TableInv'
  <2>1. \A q \in rows' : /\ q.seq > snapshotSeq'
                         /\ \E r \in log : r.seq = q.seq /\ r.edits = q.edits
    BY <1>2 DEF TableInv, After
  <2>2. \A r \in log : r.seq > snapshotSeq' => [seq |-> r.seq, edits |-> r.edits] \in rows'
    BY <1>2, <1>5 DEF TableInv, After
  <2>3. rows' = {} => \E r \in log : r.seq = snapshotSeq'
    <3>1. Newest(rows, 0) \in SeqsOf(rows)
      BY <1>2, RowSeqs, NewestIsLargest DEF TypeOK
    <3>2. PICK q \in rows : q.seq = Newest(rows, 0)
      BY <3>1 DEF SeqsOf
    <3>3. PICK r \in log : r.seq = q.seq
      BY DEF TableInv
    <3>4. rows' = {} => ~(q.seq > covers)
      BY <1>2 DEF After
    <3> QED BY <1>2, <1>5, <3>2, <3>3, <3>4
  <2> QED BY <1>2, <2>1, <2>2, <2>3 DEF TableInv
<1>9. NoteInv'
  BY <1>2, <1>5 DEF NoteInv
<1>10. ContentInv'
  BY <1>2, <1>3 DEF ContentInv, Holds
<1> QED BY <1>1, <1>6, <1>7, <1>8, <1>9, <1>10

\* A refused compaction changes nothing.
LEMMA CompactFailKeeps ==
    ASSUME IInv, NEW c \in Clients, CompactFail(c)
    PROVE  IInv'
<1> USE DEF IInv, CompactFail, tables
<1>1. TypeOK'
  BY TypeStep DEF Next
<1>2. \A d \in Clients : compact'[d] = compact[d] \/ compact'[d].st = "idle"
  BY DEF TypeOK, Idle
<1>3. SettledInv' /\ ContentInv'
  BY <1>2 DEF SettledInv, Settled, ContentInv, Holds
<1>4. LockInv' /\ TableInv' /\ HeldInv' /\ PrevChain' /\ NoteInv'
  BY DEF LockInv, TableInv, HeldInv, PrevChain, NoteInv
<1> QED BY <1>1, <1>3, <1>4

\* Expiry deletes the rows with the note, while nobody holds the lock.
LEMMA DeleteKeeps ==
    ASSUME IInv, Delete
    PROVE  IInv'
<1> USE DEF IInv
<1>1. TypeOK'
  BY TypeStep DEF Next
<1>2. /\ lock = {}
      /\ exists' = FALSE
      /\ rows' = {}
      /\ UNCHANGED <<snapshot, snapshotSeq, lastId, lock, push, poll, compact, cursor, doc,
                     log, torn>>
  BY DEF Delete, Serial!Expire
<1>3. \A d \in Clients : push[d].st # "held"
  BY <1>2 DEF LockInv
<1>4. LockInv' /\ HeldInv' /\ TableInv'
  BY <1>2, <1>3 DEF LockInv, HeldInv, TableInv
<1>5. SettledInv' /\ PrevChain' /\ NoteInv' /\ ContentInv'
  BY <1>2 DEF SettledInv, Settled, PrevChain, NoteInv, ContentInv, Holds
<1> QED BY <1>1, <1>4, <1>5

\* The inductive invariant is inductive: one lemma above per action.
LEMMA IInvStep == IInv /\ [Next]_vars => IInv'
<1> SUFFICES ASSUME IInv, [Next]_vars
             PROVE  IInv'
  OBVIOUS
<1>1. CASE UNCHANGED vars
  <2>1. TypeOK' /\ LockInv' /\ SettledInv' /\ TableInv'
    BY <1>1 DEF vars, IInv, TypeOK, LockInv, SettledInv, Settled, TableInv
  <2>2. HeldInv' /\ PrevChain' /\ NoteInv' /\ ContentInv'
    BY <1>1 DEF vars, IInv, HeldInv, PrevChain, NoteInv, ContentInv, Holds
  <2> QED BY <2>1, <2>2 DEF IInv
<1>2. CASE Next
  BY <1>2, TypeKeeps, PushSendKeeps, PushInsertKeeps, PushCommitKeeps, PushFailKeeps,
     PollSendKeeps, PollReadNoteKeeps, PollReadRowsKeeps, PollApplyKeeps, PollFailKeeps,
     ReceiveKeeps, CompactSendKeeps, CompactCommitKeeps, CompactFailKeeps, DeleteKeeps
  DEF Next
<1> QED BY <1>1, <1>2

\* The inductive invariant holds of every behaviour: the row lock, the tables, the ids
\* of uncommitted appends and what documents, reads and compactions hold all fit together.
THEOREM LiveLogInvariant == Spec => []IInv
<1>1. Init => IInv
  BY IInvInit
<1>2. IInv /\ [Next]_vars => IInv'
  BY IInvStep
<1> QED BY <1>1, <1>2, PTL DEF Spec
----------------------------------------------------------------------------
(* What follows from it. *)

\* The rows of a note are exactly what its snapshot has not folded in, in every
\* order of appends, compactions and expiry (append_live_update, save_live_snapshot).
THEOREM LiveLogTailAboveSnapshot == Spec => []TailAboveSnapshot
<1>1. IInv => TailAboveSnapshot
  BY DEF IInv, TableInv, TailAboveSnapshot
<1> QED BY <1>1, LiveLogInvariant, PTL

\* While an append is between its INSERT and its COMMIT nothing visible and no
\* cursor is at or past its id: the lock of append_live_update is enough.
THEOREM LiveLogNothingPasses == Spec => []NothingPassesAnUncommittedId
<1>1. IInv => NothingPassesAnUncommittedId
  <2> SUFFICES ASSUME IInv, NEW c \in Clients, push[c].st = "held"
               PROVE  /\ \A r \in log : r.seq < push[c].seq
                      /\ \A d \in Clients : cursor[d] < push[c].seq
                      /\ \A d \in Clients : push[d].st = "held" => d = c
    BY DEF NothingPassesAnUncommittedId
  <2> QED BY OneHolder DEF IInv, SettledInv, Settled
<1> QED BY <1>1, LiveLogInvariant, PTL

\* The prev_seq of every committed row is the id before it in the note's whole
\* history, so the gap check of advanceCursor (live-sync.js) never lies.
THEOREM LiveLogPrevChain == Spec => []PrevChain
<1>1. IInv => PrevChain
  BY DEF IInv
<1> QED BY <1>1, LiveLogInvariant, PTL

\* Until a read is torn by a compaction, no client's cursor has passed an update
\* that its document lacks.
THEOREM LiveLogCursorSound == Spec => []CursorSound
<1>1. IInv => CursorSound
  BY DEF IInv, ContentInv, Holds, CursorSound, HoldsHistory
<1> QED BY <1>1, LiveLogInvariant, PTL

\* Until a read is torn, every accepted update is readable for as long as the
\* note exists: compactions by clients that obey their cursors lose nothing.
THEOREM LiveLogAcceptedKept == Spec => []AcceptedKept
<1>1. IInv => AcceptedKept
  <2> SUFFICES ASSUME IInv, exists, ~torn, NEW r \in log
               PROVE  r.edits \subseteq snapshot \cup EditsOf(rows)
    BY DEF AcceptedKept
  <2>1. CASE r.seq > snapshotSeq
    <3>1. [seq |-> r.seq, edits |-> r.edits] \in rows
      BY <2>1 DEF IInv, TableInv
    <3> QED BY <3>1 DEF EditsOf
  <2>2. CASE ~(r.seq > snapshotSeq)
    <3>1. r.seq <= snapshotSeq
      BY <2>2, BoundsAssumption DEF IInv, TypeOK, LogRecord, Seqs
    <3> QED BY <3>1 DEF IInv, ContentInv, Holds
  <2> QED BY <2>1, <2>2
<1> QED BY <1>1, LiveLogInvariant, PTL
----------------------------------------------------------------------------
(* LiveLog implements SerialLog. *)

\* Serial!TailFull is the capacity check of append_live_update itself.
LEMMA SameCapacity ==
    ASSUME NEW R, NEW edits
    PROVE  Serial!TailFull(R, edits) <=> TailFull(R, edits)
BY DEF Serial!TailFull, TailFull, Serial!TotalLength, TotalLength, Serial!MapThenSumSet,
       MapThenSumSet, Serial!MapThenFoldSet, MapThenFoldSet, Serial!Cardinality, Cardinality

\* Each step of LiveLog is one step of the atomic log or changes nothing of it.
LEMMA StepImplements ==
    ASSUME IInv, [Next]_vars
    PROVE  [Serial!SerialNext]_(Serial!serialVars)
<1> USE DEF IInv
<1>1. ASSUME NEW c \in Clients, PushCommit(c)
      PROVE  Serial!SerialNext
  <2>1. push[c].st = "held" /\ exists
    BY <1>1, OneHolder DEF PushCommit
  <2>2. push[c].seq \in Seqs /\ push[c].edits \in SUBSET Edits
    BY <2>1 DEF TypeOK, PushTask, Idle
  <2>3. ~Serial!TailFull(rows, push[c].edits)
    BY <2>1, SameCapacity DEF HeldInv
  <2>4. push[c].seq > Serial!Newest(rows, snapshotSeq)
    <3>1. Newest(rows, snapshotSeq) \in {snapshotSeq} \cup SeqsOf(rows)
      <4>1. CASE rows = {}
        BY <4>1 DEF Newest
      <4>2. CASE rows # {}
        BY <4>2, RowSeqs, NewestIsLargest DEF TypeOK
      <4> QED BY <4>1, <4>2
    <3>2. \A n \in {snapshotSeq} \cup SeqsOf(rows) : n < push[c].seq
      BY <2>1 DEF SettledInv, Settled, TableInv, SeqsOf
    <3>3. Serial!Newest(rows, snapshotSeq) = Newest(rows, snapshotSeq)
      BY DEF Serial!Newest, Newest, Serial!SeqsOf, SeqsOf
    <3>4. \A n \in {snapshotSeq} \cup SeqsOf(rows) : n \in Int
      BY BoundsAssumption DEF TypeOK, Row, Seqs, SeqsOf
    <3> QED BY <2>2, <3>1, <3>2, <3>3, <3>4, BoundsAssumption DEF Seqs
  <2>5. Serial!AppendRow(push[c].seq, push[c].edits)
    BY <1>1, <2>1, <2>3, <2>4 DEF PushCommit, Serial!AppendRow
  <2> QED BY <2>2, <2>5 DEF Serial!SerialNext, Serial!Seqs, Seqs
<1>2. ASSUME NEW c \in Clients, CompactCommit(c)
      PROVE  Serial!SerialNext
  <2>1. compact[c].covers \in Seqs /\ compact[c].content \in SUBSET Edits
    BY <1>2 DEF CompactCommit, TypeOK, CompactTask, Idle
  <2> QED BY <1>2, <2>1 DEF CompactCommit, Serial!SerialNext, Serial!Seqs, Seqs
<1>3. CASE Delete
  BY <1>3 DEF Delete, Serial!SerialNext
<1>4. ASSUME NEW c \in Clients,
             \/ \E e \in Edits : Type(c, e)
             \/ \E edits \in SUBSET Edits : PushSend(c, edits)
             \/ \E seq \in Seqs : PushInsert(c, seq)
             \/ PushFail(c)
      PROVE  UNCHANGED Serial!serialVars
  BY <1>4 DEF Type, PushSend, PushInsert, PushFail, tables, Serial!serialVars
<1>5. ASSUME NEW c \in Clients,
             \/ PollSend(c) \/ PollReadNote(c) \/ PollReadRows(c) \/ PollApply(c) \/ PollFail(c)
             \/ \E r \in log : Receive(c, r)
             \/ CompactSend(c) \/ CompactFail(c)
      PROVE  UNCHANGED Serial!serialVars
  BY <1>5 DEF PollSend, PollReadNote, PollReadRows, PollApply, PollFail, Receive, CompactSend,
              CompactFail, tables, Serial!serialVars
<1>6. CASE UNCHANGED vars
  BY <1>6 DEF vars, Serial!serialVars
<1> QED BY <1>1, <1>2, <1>3, <1>4, <1>5, <1>6 DEF Next

\* The locked transactions of append_live_update and save_live_snapshot, and the
\* expiry sweep, take effect as if each were a single step of an atomic log.
THEOREM LiveLogRefinesSerialLog == Spec => ImplementsSerialLog
<1>1. Init => Serial!SerialInit
  BY DEF Init
<1>2. IInv /\ [Next]_vars => [Serial!SerialNext]_(Serial!serialVars)
  BY StepImplements
<1> QED BY <1>1, <1>2, LiveLogInvariant, PTL DEF Spec, ImplementsSerialLog, Serial!SerialSpec

============================================================================
