-------------------------- MODULE LiveSyncProofs ---------------------------
(***************************************************************************)
(* LiveSync, proved for every set of clients and edits and every bound.    *)
(***************************************************************************)
EXTENDS LiveSync, UpdateTableProofs, SequenceTheorems

-----------------------------------------------------------------------------
(* The inductive invariant.  What concerns one client is stated of any closure k *)
(* and of a world w, so that it can be carried through the functions of a step.  *)

\* The newest id there can have been: once the note is gone nothing new comes.
Limit == IF exists THEN Newest(rows, snapshotSeq) ELSE MaxSeq

\* Every edit that has been typed; its author has it.
Known == {e \in Edits : e \in client[Author[e]].doc}

World == [log |-> log, top |-> Limit, known |-> Known, uplink |-> uplink]

\* Edits stand for everything accepted up to an id, or after one id up to another.
Holds(edits, seq, w) ==
    /\ seq <= w.top
    /\ \A r \in w.log : r.seq <= seq => r.edits \subseteq edits
Follows(prev, seq, edits, w) ==
    /\ seq <= w.top
    /\ \A r \in w.log : prev < r.seq /\ r.seq <= seq => r.edits \subseteq edits

\* What a client does next about its outbox, and to hear of others.
Live(k) == {i \in Slots : k.flushes[i] # Idle}
Armed(k) ==
    /\ k.outbox # <<>> /\ ~k.stopped /\ ~k.halted =>
           k.flushTimer \/ Live(k) # {} \/ k.wsFlush # NoFlush \/ k.handler.st = "compact"
    /\ k.flushing => Unanswered(k) # {} \/ k.wsFlush # NoFlush
Tuned(k) ==
    k.started /\ ~k.stopped => k.pollTimer \/ k.poll # Idle \/ k.ws \in {"open", "closing"}

\* What it holds, is told, folds and sends is as complete as it is taken for.
FrameSound(f, doc, w) ==
    /\ f.type = "update" => Follows(f.prev, f.seq, f.edits, w)
    /\ f.type = "ack" => Follows(f.prev, f.seq, doc, w)
Sound(k, w) ==
    /\ Holds(k.doc, k.cursor, w)
    /\ k.poll # Idle /\ k.poll.found => Holds(k.doc \cup k.poll.edits, k.poll.seq, w)
    /\ k.handler.st = "reply" /\ k.handler.found =>
           Holds(k.doc \cup k.handler.edits, k.handler.seq, w)
    /\ k.handler.st = "apply" => Holds(k.doc \cup k.handler.edits, k.handler.seq, w)
    /\ k.compaction # Idle => Holds(k.compaction.content, k.compaction.covers, w)
    /\ \A n \in DOMAIN k.inbox : FrameSound(k.inbox[n], k.doc, w)
    /\ Range(k.outbox) \subseteq k.doc
    /\ \A i \in Slots : k.flushes[i].st \in {"encrypt", "sent"} =>
           k.flushes[i].edits \subseteq k.doc

\* Nothing in it is made up.
KnownTo(k, w) ==
    /\ k.doc \subseteq w.known
    /\ k.poll # Idle => k.poll.edits \subseteq w.known
    /\ k.handler.st \in {"reply", "apply"} => k.handler.edits \subseteq w.known
    /\ k.compaction # Idle => k.compaction.content \subseteq w.known
    /\ \A n \in DOMAIN k.inbox : k.inbox[n].type = "update" => k.inbox[n].edits \subseteq w.known

\* The frames it waits for are of its last transaction, and there is none to come.
TxnOK(c, k, w) ==
    /\ k.wsFlush # NoFlush => k.wsFlush.txn = k.txn
    /\ \A f \in w.uplink : f.client = c => f.txn <= k.txn
    /\ \A n \in DOMAIN k.inbox : k.inbox[n].type = "ack" => k.inbox[n].txn <= k.txn

ClientOK(c, k, w) ==
    k \in Closure /\ Armed(k) /\ Tuned(k) /\ Sound(k, w) /\ KnownTo(k, w) /\ TxnOK(c, k, w)

\* What the first n updates of an outbox carry.
First(outbox, n) == {outbox[i] : i \in 1..n}

\* What an answer will take out of the outbox, the server has by then.
FlushOK(t, outbox, w) ==
    /\ t.st \in {"encrypt", "sent", "ok"} => t.count <= Len(outbox)
    /\ t.st \in {"encrypt", "sent"} => First(outbox, t.count) \subseteq t.edits
    /\ t.st = "ok" => First(outbox, t.count) \subseteq EditsOf(w.log)
OutboxOK(c, k, w) ==
    /\ ~Overlapping(k)
    /\ {e \in k.doc : Author[e] = c} \subseteq Range(k.outbox) \cup EditsOf(w.log)
    /\ \A i \in Slots : FlushOK(k.flushes[i], k.outbox, w)
    /\ k.wsFlush # NoFlush =>
        /\ k.wsFlush.count <= Len(k.outbox)
        /\ \A f \in w.uplink : f.client = c /\ f.txn = k.txn =>
               First(k.outbox, k.wsFlush.count) \subseteq f.edits
        /\ \A n \in DOMAIN k.inbox :
               k.inbox[n].type = "ack" /\ k.inbox[n].txn = k.txn =>
                   First(k.outbox, k.wsFlush.count) \subseteq EditsOf(w.log)

\* The tail is within its bound; the rows are what the snapshot has not folded in.
RowsInv == IsFiniteSet(rows) /\ Cardinality(rows) <= MaxPending
LogInv ==
    exists => /\ Holds(snapshot, snapshotSeq, World)
              /\ rows = After(log, snapshotSeq)
              /\ \A r \in log : r.seq <= Limit

\* What is on its way.
NetInv ==
    /\ \A f \in uplink : f.edits \subseteq client[f.client].doc
    /\ \A m \in outgoing : Follows(m.prev, m.seq, m.edits, World)

KnownInv ==
    /\ snapshot \subseteq Known
    /\ \A r \in rows : r.edits \subseteq Known
    /\ \A m \in outgoing : m.edits \subseteq Known

IInv ==
    /\ TypeOK /\ RowsInv /\ LogInv /\ NetInv /\ KnownInv
    /\ \A c \in Clients : ClientOK(c, client[c], World)
    /\ ~overlap => \A c \in Clients : OutboxOK(c, client[c], World)

-----------------------------------------------------------------------------
(* Functions from client to client: what each may change *)

Fields ==
    {"started", "stopped", "halted", "doc", "cursor", "pending", "outbox", "flushTimer",
     "flushing", "flushes", "compaction", "pollTimer", "poll", "ws", "consumer",
     "reconnectTimer", "gaveUp", "wsFlush", "txn", "inbox", "handler"}

Changes(k, r, changed) ==
    r \in Closure /\ \A f \in Fields \ changed : r[f] = k[f]

\* What a bound is.
LEMMA Bounds ==
    /\ MaxSeq \in Nat /\ MaxPending \in Nat /\ MaxTxn \in Nat /\ MaxFlushes \in Nat
    /\ CompactAt \in Nat \ {0}
BY BoundsAssumption, ClientAssumption

\* A closure has these variables, and values that stand for nothing.
LEMMA Domain ==
    /\ \A k \in Closure : DOMAIN k = Fields
    /\ Idle \in FlushTask /\ Idle \in HandlerTask /\ Idle.st = "idle"
    /\ [st |-> "compact"] \in HandlerTask
    /\ NoFlush \in [txn : 0..MaxTxn, count : Nat] /\ NoFlush.txn = 0
BY Bounds DEF Closure, Fields, Idle, NoFlush, FlushTask, HandlerTask

\* Changes add up.
LEMMA ChangesAdd ==
    ASSUME NEW k, NEW q, NEW r, NEW F, NEW G, Changes(k, q, F), Changes(q, r, G)
    PROVE  Changes(k, r, F \cup G)
BY DEF Changes

\* The flush timer is armed.
LEMMA ScheduleFlushDoes ==
    ASSUME NEW k \in Closure, NEW r, r = ScheduleFlush(k)
    PROVE  /\ Changes(k, r, {"flushTimer"})
           /\ k.stopped \/ k.halted \/ r.flushTimer
           /\ k.flushTimer => r.flushTimer
<1>1. CASE r = k
  BY <1>1, Domain DEF ScheduleFlush, Changes, Fields
<1>2. CASE r = [k EXCEPT !.flushTimer = TRUE]
  <2>1. r \in Closure
    BY <1>2 DEF Closure
  <2> QED
    BY <1>2, <2>1, Domain DEF Changes, Fields
<1> QED
  BY <1>1, <1>2 DEF ScheduleFlush

\* The poll timer is armed.
LEMMA SchedulePollDoes ==
    ASSUME NEW k \in Closure, NEW r, r = SchedulePoll(k)
    PROVE  /\ Changes(k, r, {"pollTimer"})
           /\ k.stopped \/ k.ws = "open" \/ r.pollTimer
           /\ k.pollTimer => r.pollTimer
<1>1. CASE r = k
  BY <1>1, Domain DEF SchedulePoll, WsIsOpen, Changes, Fields
<1>2. CASE r = [k EXCEPT !.pollTimer = TRUE]
  <2>1. r \in Closure
    BY <1>2 DEF Closure
  <2> QED
    BY <1>2, <2>1, Domain DEF Changes, Fields
<1> QED
  BY <1>1, <1>2 DEF SchedulePoll

\* A socket is opened.
LEMMA ConnectWsDoes ==
    ASSUME NEW c, NEW k \in Closure, NEW r, r = ConnectWs(c, k)
    PROVE  /\ Changes(k, r, {"ws"})
           /\ k.ws # "none" => r.ws = k.ws
<1>1. CASE r = k
  BY <1>1 DEF Changes
<1>2. CASE r = [k EXCEPT !.ws = "connecting"] /\ k.ws = "none"
  <2>1. r \in Closure
    BY <1>2 DEF Closure
  <2> QED
    BY <1>2, <2>1, Domain DEF Changes, Fields
<1> QED
  BY <1>1, <1>2 DEF ConnectWs

\* A reconnect is scheduled.
LEMMA ScheduleWsReconnectDoes ==
    ASSUME NEW c, NEW k \in Closure, NEW r, r = ScheduleWsReconnect(c, k)
    PROVE  Changes(k, r, {"reconnectTimer"})
<1>1. CASE r = k
  BY <1>1 DEF Changes
<1>2. CASE r = [k EXCEPT !.reconnectTimer = TRUE]
  <2>1. r \in Closure
    BY <1>2 DEF Closure
  <2> QED
    BY <1>2, <2>1, Domain DEF Changes, Fields
<1> QED
  BY <1>1, <1>2 DEF ScheduleWsReconnect

\* The wait for an ack is over.
LEMMA ClearWsFlushWaitDoes ==
    ASSUME NEW k \in Closure, NEW r, r = ClearWsFlushWait(k)
    PROVE  /\ Changes(k, r, {"wsFlush", "flushing"})
           /\ r.wsFlush = NoFlush /\ ~r.flushing
<1>1. r \in Closure
  BY Domain DEF ClearWsFlushWait, Closure
<1> QED
  BY <1>1, Domain DEF ClearWsFlushWait, Changes, Fields

\* Flushing ends for good.
LEMMA HaltFlushDoes ==
    ASSUME NEW k \in Closure, NEW r, r = HaltFlush(k)
    PROVE  /\ Changes(k, r, {"wsFlush", "flushing", "halted", "flushTimer"})
           /\ r.halted
           /\ \/ r.wsFlush = k.wsFlush /\ r.flushing = k.flushing
              \/ r.wsFlush = NoFlush /\ ~r.flushing
<1>1. CASE k.halted
  BY <1>1 DEF HaltFlush, Changes
<1>2. CASE ~k.halted
  <2> DEFINE q == ClearWsFlushWait(k)
  <2>1. Changes(k, q, {"wsFlush", "flushing"}) /\ q.wsFlush = NoFlush /\ ~q.flushing
    BY ClearWsFlushWaitDoes
  <2> HIDE DEF q
  <2>2. q \in Closure /\ r = [q EXCEPT !.halted = TRUE, !.flushTimer = FALSE]
    BY <1>2, <2>1 DEF HaltFlush, q, Changes
  <2>3. r \in Closure
    BY <2>2 DEF Closure
  <2>4. Changes(q, r, {"halted", "flushTimer"}) /\ r.halted /\ r.wsFlush = NoFlush /\ ~r.flushing
    BY <2>1, <2>2, <2>3, Domain DEF Changes, Fields
  <2>5. Changes(k, r, {"wsFlush", "flushing"} \cup {"halted", "flushTimer"})
    BY <2>1, <2>4, ChangesAdd
  <2> QED
    BY <2>4, <2>5 DEF Changes
<1> QED
  BY <1>1, <1>2

\* Sync stops for good.
LEMMA FatalDoes ==
    ASSUME NEW k \in Closure, NEW r, r = Fatal(k)
    PROVE  /\ Changes(k, r, {"stopped", "flushTimer", "pollTimer", "reconnectTimer", "ws",
                             "consumer"})
           /\ r.stopped
<1>1. r \in Closure
  BY DEF Fatal, Closure
<1> QED
  BY <1>1, Domain DEF Fatal, Changes, Fields

\* What a flush of this outbox carries.
Merged(k, st) == [st |-> st, count |-> Len(k.outbox), edits |-> Range(k.outbox)]

\* What the outbox carries is merged, and a flush begins in a free slot.
LEMMA FlushDoes ==
    ASSUME NEW k \in Closure, NEW b \in BOOLEAN, NEW r, r = Flush(k, b), FlushFits(k)
    PROVE  /\ Changes(k, r, {"flushing", "flushes"})
           /\ \/ ~MayFlush(k) /\ r = k
              \/ /\ MayFlush(k) /\ r.flushing
                 /\ \E i \in Slots, st \in {"encrypt", "sent"} :
                       /\ k.flushes[i] = Idle
                       /\ r.flushes[i] = Merged(k, st)
                       /\ \A j \in Slots \ {i} : r.flushes[j] = k.flushes[j]
<1>1. CASE ~MayFlush(k)
  BY <1>1 DEF Flush, Changes
<1>2. CASE MayFlush(k)
  <2> DEFINE I == CHOOSE i \in FreeSlots(k) : \A j \in FreeSlots(k) : i <= j
             s == IF WsIsOpen(k) /\ ~b THEN "encrypt" ELSE "sent"
             t == [st |-> s, count |-> Len(k.outbox), edits |-> Range(k.outbox)]
  <2>1. FreeSlots(k) # {} /\ FreeSlots(k) \subseteq Nat
    BY <1>2 DEF FlushFits, FreeSlots, Slots
  <2>2. PICK i \in FreeSlots(k) : \A j \in FreeSlots(k) : i <= j
    BY <2>1, LeastElement
  <2>3. I \in FreeSlots(k)
    BY <2>2
  <2>4. r = [k EXCEPT !.flushing = TRUE, !.flushes[I] = t]
    BY <1>2 DEF Flush
  <2>5. t \in FlushTask /\ s \in {"encrypt", "sent"}
    <3>1. Len(k.outbox) \in Nat /\ Range(k.outbox) \subseteq Edits
      BY DEF Closure, Range
    <3> QED
      BY <3>1 DEF FlushTask
  <2> HIDE DEF I, t
  <2>6. r = [k EXCEPT !.flushing = TRUE, !.flushes = [k.flushes EXCEPT ![I] = t]]
    BY <2>4
  <2>7. [k.flushes EXCEPT ![I] = t] \in [Slots -> FlushTask]
    BY <2>3, <2>5 DEF Closure
  <2>8. r \in Closure
    BY <2>6, <2>7 DEF Closure
  <2>9. Changes(k, r, {"flushing", "flushes"}) /\ r.flushing
        /\ r.flushes = [k.flushes EXCEPT ![I] = t]
    BY <2>6, <2>8, Domain DEF Changes, Fields
  <2>10. I \in Slots /\ k.flushes[I] = Idle
    BY <2>3 DEF FreeSlots
  <2>11. r.flushes[I] = t /\ \A j \in Slots \ {I} : r.flushes[j] = k.flushes[j]
    BY <2>9, <2>10 DEF Closure
  <2>12. t = Merged(k, s)
    BY DEF t, Merged
  <2> HIDE DEF s
  <2> QED
    BY <1>2, <2>5, <2>9, <2>10, <2>11, <2>12
<1> QED
  BY <1>1, <1>2

\* The finally block: the slot is free, the flag is down, and what is left is due.
LEMMA FinishFlushDoes ==
    ASSUME NEW k \in Closure, NEW i \in Slots, NEW r, r = FinishFlush(k, i)
    PROVE  /\ Changes(k, r, {"flushing", "flushes", "flushTimer"})
           /\ ~r.flushing
           /\ r.flushes = [k.flushes EXCEPT ![i] = Idle]
           /\ k.flushTimer => r.flushTimer
           /\ r.outbox = <<>> \/ r.stopped \/ r.halted \/ r.flushTimer
<1> DEFINE q == [k EXCEPT !.flushing = FALSE, !.flushes = [k.flushes EXCEPT ![i] = Idle]]
<1>1. r = IF q.outbox = <<>> THEN q ELSE ScheduleFlush(q)
  BY DEF FinishFlush
<1>2. [k.flushes EXCEPT ![i] = Idle] \in [Slots -> FlushTask]
  BY Domain DEF Closure
<1>3. q \in Closure
  BY <1>2 DEF Closure
<1>4. Changes(k, q, {"flushing", "flushes"}) /\ ~q.flushing
      /\ q.flushes = [k.flushes EXCEPT ![i] = Idle]
  BY <1>3, Domain DEF Changes, Fields
<1> HIDE DEF q
<1>5. CASE q.outbox = <<>>
  BY <1>1, <1>4, <1>5 DEF Changes, Fields
<1>6. CASE q.outbox # <<>>
  <2>1. /\ Changes(q, r, {"flushTimer"})
        /\ q.stopped \/ q.halted \/ r.flushTimer
        /\ q.flushTimer => r.flushTimer
    BY <1>1, <1>3, <1>6, ScheduleFlushDoes
  <2>2. Changes(k, r, {"flushing", "flushes"} \cup {"flushTimer"})
    BY <1>4, <2>1, ChangesAdd
  <2> QED
    BY <1>4, <2>1, <2>2 DEF Changes, Fields
<1> QED
  BY <1>5, <1>6

-----------------------------------------------------------------------------
(* Data at rest: r has nothing that k does not have *)

Control ==
    {"started", "stopped", "halted", "pending", "flushTimer", "flushing", "pollTimer", "ws",
     "consumer", "reconnectTimer", "gaveUp"}

Rests(k, r) ==
    /\ r.doc = k.doc /\ r.cursor = k.cursor /\ r.outbox = k.outbox /\ r.txn = k.txn
    /\ r.poll \in {k.poll, Idle}
    /\ r.handler \in {k.handler, Idle, [st |-> "compact"]}
    /\ \/ r.compaction \in {k.compaction, Idle}
       \/ r.compaction.covers = k.cursor /\ r.compaction.content = k.doc
    /\ \A n \in DOMAIN r.inbox :
          \/ r.inbox[n].type \in {"gapfill", "error", "expired"}
          \/ \E m \in DOMAIN k.inbox : r.inbox[n] = k.inbox[m]
    /\ \A i \in Slots : \/ r.flushes[i] = k.flushes[i]
                        \/ r.flushes[i].st \notin {"encrypt", "sent", "ok"}
    /\ r.wsFlush \in {k.wsFlush, NoFlush}

\* Nothing comes of nothing.
LEMMA RestsAdd ==
    ASSUME NEW k, NEW q, NEW r, Rests(k, q), Rests(q, r)
    PROVE  Rests(k, r)
<1>1. /\ r.doc = k.doc /\ r.cursor = k.cursor /\ r.outbox = k.outbox /\ r.txn = k.txn
      /\ r.poll \in {k.poll, Idle}
      /\ r.handler \in {k.handler, Idle, [st |-> "compact"]}
      /\ r.wsFlush \in {k.wsFlush, NoFlush}
  BY DEF Rests
<1>2. \/ r.compaction \in {k.compaction, Idle}
      \/ r.compaction.covers = k.cursor /\ r.compaction.content = k.doc
  BY DEF Rests
<1>3. ASSUME NEW n \in DOMAIN r.inbox
      PROVE  \/ r.inbox[n].type \in {"gapfill", "error", "expired"}
             \/ \E m \in DOMAIN k.inbox : r.inbox[n] = k.inbox[m]
  BY <1>3 DEF Rests
<1>4. \A i \in Slots : \/ r.flushes[i] = k.flushes[i]
                       \/ r.flushes[i].st \notin {"encrypt", "sent", "ok"}
  BY DEF Rests
<1> QED
  BY <1>1, <1>2, <1>3, <1>4 DEF Rests

\* Timers and flags are no data.
LEMMA ControlRests ==
    ASSUME NEW k, NEW r, NEW F, Changes(k, r, F), F \subseteq Control
    PROVE  Rests(k, r)
<1>1. \A f \in {"doc", "cursor", "outbox", "txn", "poll", "handler", "compaction", "inbox",
               "flushes", "wsFlush"} : r[f] = k[f]
  BY DEF Changes, Control, Fields
<1> QED
  BY <1>1 DEF Rests

\* Neither is giving up a wait.
LEMMA WaitRests ==
    ASSUME NEW k, NEW r, NEW F, Changes(k, r, F), F \subseteq Control \cup {"wsFlush"},
           r.wsFlush \in {k.wsFlush, NoFlush}
    PROVE  Rests(k, r)
<1>1. \A f \in {"doc", "cursor", "outbox", "txn", "poll", "handler", "compaction", "inbox",
               "flushes"} : r[f] = k[f]
  BY DEF Changes, Control, Fields
<1> QED
  BY <1>1 DEF Rests

\* A slot that is freed.
LEMMA FinishFlushRests ==
    ASSUME NEW k \in Closure, NEW i \in Slots
    PROVE  Rests(k, FinishFlush(k, i))
<1> DEFINE r == FinishFlush(k, i)
<1>1. /\ Changes(k, r, {"flushing", "flushes", "flushTimer"})
      /\ r.flushes = [k.flushes EXCEPT ![i] = Idle]
  BY FinishFlushDoes
<1> HIDE DEF r
<1>2. \A f \in {"doc", "cursor", "outbox", "txn", "poll", "handler", "compaction", "inbox",
               "wsFlush"} : r[f] = k[f]
  BY <1>1 DEF Changes, Fields
<1>3. \A j \in Slots : r.flushes[j] = IF j = i THEN Idle ELSE k.flushes[j]
  BY <1>1 DEF Closure
<1> QED
  BY <1>2, <1>3, Domain DEF Rests, r

\* A compaction covers what the client has applied, with the document it has.
LEMMA StartCompactDoes ==
    ASSUME NEW k \in Closure, NEW w \in {Frame, Nobody} \cup Slots, MayCompact(k),
           NEW r, r = StartCompact(k, w)
    PROVE  Changes(k, r, {"compaction"}) /\ Rests(k, r) /\ r.compaction # Idle
<1>1. [st |-> "sent", covers |-> k.cursor, content |-> k.doc, waiter |-> w] \in CompactTask
  BY Bounds DEF Closure, MayCompact, CompactTask, Seqs
<1>2. r \in Closure
  BY <1>1 DEF StartCompact, Closure
<1>3. /\ Changes(k, r, {"compaction"})
      /\ r.compaction = [st |-> "sent", covers |-> k.cursor, content |-> k.doc, waiter |-> w]
  BY <1>2, Domain DEF StartCompact, Changes, Fields
<1>4. \A f \in Fields \ {"compaction"} : r[f] = k[f]
  BY <1>3 DEF Changes
<1> QED
  BY <1>3, <1>4 DEF Rests, Fields, Idle

\* The same, if there is enough to fold.
LEMMA MaybeCompactDoes ==
    ASSUME NEW k \in Closure, NEW r, r = MaybeCompact(k)
    PROVE  Changes(k, r, {"compaction"}) /\ Rests(k, r)
<1>1. CASE r = k
  BY <1>1 DEF Changes, Rests
<1>2. CASE MayCompact(k) /\ r = StartCompact(k, Nobody)
  BY <1>2, StartCompactDoes
<1> QED
  BY <1>1, <1>2 DEF MaybeCompact

\* What an answer takes out of the outbox.
LEMMA DropSentDoes ==
    ASSUME NEW k \in Closure, NEW n \in Nat, NEW r, r = DropSent(k, n)
    PROVE  /\ Changes(k, r, {"outbox"})
           /\ r.outbox = SubSeq(k.outbox, n + 1, Len(k.outbox))
           /\ Range(k.outbox) \subseteq First(k.outbox, n) \cup Range(r.outbox)
           /\ Range(r.outbox) \subseteq Range(k.outbox)
<1>1. k.outbox \in Seq(Edits) /\ Len(k.outbox) \in Nat
  BY DEF Closure
<1> DEFINE s == SubSeq(k.outbox, n + 1, Len(k.outbox))
<1>2. s \in Seq(Edits)
  BY <1>1
<1>3. r \in Closure
  BY <1>2 DEF DropSent, Closure
<1>4. Changes(k, r, {"outbox"}) /\ r.outbox = s
  BY <1>3, Domain DEF DropSent, Changes, Fields
<1>5. ASSUME NEW i \in DOMAIN k.outbox, i \notin 1..n
      PROVE  k.outbox[i] \in Range(s)
  <2>1. i \in 1 .. Len(k.outbox) /\ i > n
    BY <1>1, <1>5
  <2>2. i - n \in DOMAIN s /\ s[i - n] = k.outbox[i]
    BY <1>1, <2>1
  <2> QED
    BY <2>2 DEF Range
<1>6. ASSUME NEW i \in DOMAIN s
      PROVE  s[i] \in Range(k.outbox)
  <2>1. i + n \in DOMAIN k.outbox /\ s[i] = k.outbox[i + n]
    BY <1>1, <1>6
  <2> QED
    BY <2>1 DEF Range
<1> QED
  BY <1>4, <1>5, <1>6 DEF Range, First

\* What a compaction's answer sets going.
LEMMA ResumeDoes ==
    ASSUME NEW k \in Closure, NEW w \in {Frame, Nobody} \cup Slots, NEW r, r = Resume(k, w)
    PROVE  /\ Changes(k, r, {"handler", "flushTimer", "flushing", "flushes"})
           /\ Rests(k, r)
           /\ Armed(k) => Armed(r)
<1>1. CASE w = Nobody
  <2>1. r = k
    BY <1>1 DEF Resume, Frame, Nobody
  <2> QED
    BY <2>1 DEF Changes, Rests
<1>2. CASE w = Frame
  <2> DEFINE q == [k EXCEPT !.handler = Idle]
  <2>1. r = ScheduleFlush(q)
    BY <1>2 DEF Resume, Frame, Nobody
  <2>2. q \in Closure
    BY Domain DEF Closure
  <2>3. Changes(k, q, {"handler"}) /\ q.handler = Idle
    BY <2>2, Domain DEF Changes, Fields
  <2> HIDE DEF q
  <2>4. Changes(q, r, {"flushTimer"}) /\ (q.stopped \/ q.halted \/ r.flushTimer)
    BY <2>1, <2>2, ScheduleFlushDoes
  <2>5. Changes(k, r, {"handler"} \cup {"flushTimer"})
    BY <2>3, <2>4, ChangesAdd
  <2>6. Rests(k, q)
    BY <2>3 DEF Changes, Fields, Rests
  <2>7. Rests(k, r)
    BY <2>4, <2>6, ControlRests, RestsAdd DEF Control
  <2>8. Armed(k) => Armed(r)
    BY <2>4, <2>5 DEF Changes, Fields, Armed, Unanswered
  <2> QED
    BY <2>5, <2>7, <2>8 DEF Changes
<1>3. CASE w \in Slots
  <2> DEFINE q == ScheduleFlush(k)
  <2>1. r = FinishFlush(q, w)
    BY <1>3, Bounds DEF Resume, Frame, Nobody, Slots
  <2>2. Changes(k, q, {"flushTimer"})
    BY ScheduleFlushDoes
  <2> HIDE DEF q
  <2>3. /\ Changes(q, r, {"flushing", "flushes", "flushTimer"})
        /\ ~r.flushing
        /\ r.outbox = <<>> \/ r.stopped \/ r.halted \/ r.flushTimer
    <3>1. q \in Closure
      BY <2>2 DEF Changes
    <3> QED
      BY <1>3, <2>1, <3>1, FinishFlushDoes
  <2>4. Changes(k, r, {"flushTimer"} \cup {"flushing", "flushes", "flushTimer"})
    BY <2>2, <2>3, ChangesAdd
  <2>5. Rests(k, r)
    BY <1>3, <2>1, <2>2, ControlRests, FinishFlushRests, RestsAdd DEF Control, Changes
  <2> QED
    BY <2>3, <2>4, <2>5 DEF Armed, Changes
<1> QED
  BY <1>1, <1>2, <1>3

-----------------------------------------------------------------------------
(* What is true of a closure stays true while its data rests and the world grows *)

\* Data at rest is as sound as it was.
LEMMA RestsKeeps ==
    ASSUME NEW c, NEW w, NEW k \in Closure, NEW r \in Closure, Rests(k, r)
    PROVE  /\ Sound(k, w) => Sound(r, w)
           /\ KnownTo(k, w) => KnownTo(r, w)
           /\ TxnOK(c, k, w) => TxnOK(c, r, w)
           /\ OutboxOK(c, k, w) /\ ~Overlapping(r) => OutboxOK(c, r, w)
<1>1. ASSUME NEW n \in DOMAIN r.inbox, r.inbox[n].type \in {"update", "ack"}
      PROVE  \E m \in DOMAIN k.inbox : r.inbox[n] = k.inbox[m]
  BY <1>1 DEF Rests
<1>2. /\ Idle.st = "idle"
      /\ r.doc = k.doc /\ r.cursor = k.cursor /\ r.outbox = k.outbox /\ r.txn = k.txn
      /\ r.poll # Idle => r.poll = k.poll
      /\ r.handler.st \in {"reply", "apply"} => r.handler = k.handler
      /\ r.compaction # Idle => \/ r.compaction = k.compaction
                                \/ r.compaction.covers = k.cursor /\ r.compaction.content = k.doc
      /\ r.wsFlush # NoFlush => r.wsFlush = k.wsFlush
  BY Domain DEF Rests
<1>3. \A i \in Slots : r.flushes[i].st \in {"encrypt", "sent", "ok"} => r.flushes[i] = k.flushes[i]
  BY DEF Rests
<1>4. ASSUME Sound(k, w)
      PROVE  Sound(r, w)
  <2>1. \A n \in DOMAIN r.inbox : FrameSound(r.inbox[n], r.doc, w)
    BY <1>1, <1>2, <1>4 DEF Sound, FrameSound
  <2>2. r.compaction # Idle => Holds(r.compaction.content, r.compaction.covers, w)
    BY <1>2, <1>4 DEF Sound
  <2> QED
    BY <1>2, <1>3, <1>4, <2>1, <2>2 DEF Sound
<1>5. ASSUME KnownTo(k, w)
      PROVE  KnownTo(r, w)
  <2>1. \A n \in DOMAIN r.inbox : r.inbox[n].type = "update" => r.inbox[n].edits \subseteq w.known
    BY <1>1, <1>5 DEF KnownTo
  <2>2. r.compaction # Idle => r.compaction.content \subseteq w.known
    BY <1>2, <1>5 DEF KnownTo
  <2> QED
    BY <1>2, <1>5, <2>1, <2>2 DEF KnownTo
<1>6. TxnOK(c, k, w) => TxnOK(c, r, w)
  BY <1>1, <1>2 DEF TxnOK
<1>7. ASSUME OutboxOK(c, k, w), ~Overlapping(r)
      PROVE  OutboxOK(c, r, w)
  <2>1. \A i \in Slots : FlushOK(r.flushes[i], r.outbox, w)
    BY <1>2, <1>3, <1>7 DEF OutboxOK, FlushOK
  <2> QED
    BY <1>1, <1>2, <1>7, <2>1 DEF OutboxOK
<1> QED
  BY <1>4, <1>5, <1>6, <1>7

\* A world of rows, and a later one in which client c has sent nothing more.
WorldOK(w) == w.top \in 0..MaxSeq /\ w.log \subseteq Row
LogLater(w, v) ==
    /\ WorldOK(w) /\ WorldOK(v)
    /\ w.top <= v.top /\ w.log \subseteq v.log /\ w.known \subseteq v.known
    /\ \A r \in v.log \ w.log : r.seq > w.top
Later(c, w, v) ==
    /\ LogLater(w, v)
    /\ \A f \in v.uplink : f.client = c =>
          \E g \in w.uplink : g.client = c /\ g.txn = f.txn /\ g.edits = f.edits

\* What stands for the log up to an id goes on standing for it.
LEMMA HoldsLater ==
    ASSUME NEW w, NEW v, LogLater(w, v), NEW n \in Int, NEW p \in Int, NEW E
    PROVE  /\ Holds(E, n, w) => Holds(E, n, v)
           /\ Follows(p, n, E, w) => Follows(p, n, E, v)
<1>1. w.top \in Int /\ v.top \in Int /\ w.top <= v.top
  BY Bounds DEF LogLater, WorldOK
<1>2. ASSUME n <= w.top
      PROVE  n <= v.top /\ \A r \in v.log : r.seq <= n => r \in w.log
  <2>1. \A r \in v.log : r.seq \in Int
    BY Bounds DEF LogLater, WorldOK, Row, Seqs
  <2> QED
    BY <1>1, <1>2, <2>1 DEF LogLater
<1> QED
  BY <1>2 DEF Holds, Follows

\* More of it holds more.
LEMMA HoldsMore ==
    ASSUME NEW w, NEW n, NEW p, NEW D, NEW E, D \subseteq E
    PROVE  /\ Holds(D, n, w) => Holds(E, n, w)
           /\ Follows(p, n, D, w) => Follows(p, n, E, w)
BY DEF Holds, Follows

\* The numbers in a closure.
LEMMA Numbers ==
    ASSUME NEW k \in Closure
    PROVE  /\ k.cursor \in 0..MaxSeq /\ k.cursor \in Int
           /\ k.poll # Idle => k.poll \in ReplyTask /\ k.poll.seq \in Int
           /\ k.handler.st = "reply" => k.handler \in ReplyTask /\ k.handler.seq \in Int
           /\ k.handler.st = "apply" =>
                 /\ k.handler.seq \in Seqs /\ k.handler.seq \in Int
                 /\ k.handler.edits \in SUBSET Edits
           /\ k.compaction # Idle => /\ k.compaction \in CompactTask
                                     /\ k.compaction.covers \in Int
           /\ \A n \in DOMAIN k.inbox : k.inbox[n] \in FrameType
<1>1. k.inbox \in Seq(FrameType) /\ k.handler \in HandlerTask
      /\ k.poll \in {Idle} \cup ReplyTask /\ k.compaction \in {Idle} \cup CompactTask
      /\ k.cursor \in 0..MaxSeq
  BY DEF Closure
<1>2. \A t \in ReplyTask : t.seq \in Int
  BY Bounds DEF ReplyTask
<1>3. \A t \in CompactTask : t.covers \in Int
  BY Bounds DEF CompactTask, Seqs
<1>4. /\ k.handler.st = "reply" => k.handler \in ReplyTask
      /\ k.handler.st = "apply" => k.handler \in [st : {"apply"}, seq : Seqs, edits : SUBSET Edits]
  BY <1>1, Domain DEF HandlerTask, ReplyTask
<1>5. \A n \in Seqs : n \in Int
  BY Bounds DEF Seqs
<1>6. \A n \in DOMAIN k.inbox : k.inbox[n] \in FrameType
  BY <1>1
<1> QED
  BY <1>1, <1>2, <1>3, <1>4, <1>5, <1>6, Bounds

\* Numbers in frames.
LEMMA FrameNumbers ==
    ASSUME NEW f \in FrameType
    PROVE  /\ f.type \in {"update", "ack"} => f.prev \in Int /\ f.seq \in Int /\ f.seq \in Seqs
           /\ f.type = "update" => f.edits \in SUBSET Edits
           /\ f.type = "ack" => f.txn \in 1..MaxTxn /\ f.pending \in 0..MaxPending
           /\ f.type = "error" => f.code \in {"update_too_large", "pending_tail_full", "server_error"}
           /\ f.type \in {"update", "ack", "gapfill", "error", "expired"}
<1>1. \A n \in Seqs : n \in Int
  BY Bounds DEF Seqs
<1> QED
  BY <1>1 DEF FrameType

\* What a closure holds is as sound in a later world.
LEMMA SoundLater ==
    ASSUME NEW w, NEW v, LogLater(w, v), NEW k \in Closure
    PROVE  /\ Sound(k, w) => Sound(k, v)
           /\ KnownTo(k, w) => KnownTo(k, v)
<1>1. ASSUME Sound(k, w)
      PROVE  Sound(k, v)
  <2>1. \A n \in DOMAIN k.inbox : FrameSound(k.inbox[n], k.doc, v)
    BY <1>1, Numbers, FrameNumbers, HoldsLater DEF Sound, FrameSound
  <2>2. Holds(k.doc, k.cursor, v)
    BY <1>1, Numbers, HoldsLater DEF Sound
  <2>3. /\ k.poll # Idle /\ k.poll.found => Holds(k.doc \cup k.poll.edits, k.poll.seq, v)
        /\ k.compaction # Idle => Holds(k.compaction.content, k.compaction.covers, v)
    BY <1>1, Numbers, HoldsLater DEF Sound
  <2>4. /\ k.handler.st = "reply" /\ k.handler.found =>
               Holds(k.doc \cup k.handler.edits, k.handler.seq, v)
        /\ k.handler.st = "apply" => Holds(k.doc \cup k.handler.edits, k.handler.seq, v)
    BY <1>1, Numbers, HoldsLater DEF Sound
  <2> QED
    BY <1>1, <2>1, <2>2, <2>3, <2>4 DEF Sound
<1>2. KnownTo(k, w) => KnownTo(k, v)
  BY DEF KnownTo, LogLater
<1> QED
  BY <1>1, <1>2

\* A closure in a later world.
LEMMA LaterKeeps ==
    ASSUME NEW c, NEW w, NEW v, Later(c, w, v), NEW k \in Closure
    PROVE  /\ Sound(k, w) => Sound(k, v)
           /\ KnownTo(k, w) => KnownTo(k, v)
           /\ TxnOK(c, k, w) => TxnOK(c, k, v)
           /\ OutboxOK(c, k, w) => OutboxOK(c, k, v)
<1>1. Sound(k, w) => Sound(k, v)
  BY SoundLater DEF Later
<1>2. KnownTo(k, w) => KnownTo(k, v)
  BY SoundLater DEF Later
<1>3. TxnOK(c, k, w) => TxnOK(c, k, v)
  BY DEF TxnOK, Later
<1>4. ASSUME OutboxOK(c, k, w)
      PROVE  OutboxOK(c, k, v)
  <2>1. EditsOf(w.log) \subseteq EditsOf(v.log)
    BY DEF Later, LogLater, EditsOf
  <2>2. \A i \in Slots : FlushOK(k.flushes[i], k.outbox, v)
    BY <1>4, <2>1 DEF OutboxOK, FlushOK
  <2>3. k.wsFlush # NoFlush => \A f \in v.uplink : f.client = c /\ f.txn = k.txn =>
            First(k.outbox, k.wsFlush.count) \subseteq f.edits
    BY <1>4 DEF OutboxOK, Later
  <2> QED
    BY <1>4, <2>1, <2>2, <2>3 DEF OutboxOK
<1> QED
  BY <1>1, <1>2, <1>3, <1>4

-----------------------------------------------------------------------------
(* The server's part of a step *)

\* What is known of the server by itself.
ServerInv ==
    /\ exists \in BOOLEAN /\ snapshot \subseteq Edits /\ snapshotSeq \in 0..MaxSeq
    /\ rows \subseteq Row /\ log \subseteq Row /\ RowsInv /\ LogInv

\* The log has grown, at its end, by what somebody typed.
ServerGrows ==
    /\ ServerInv'
    /\ Limit <= Limit' /\ log \subseteq log'
    /\ \A r \in log' \ log : r.seq > Limit
    /\ snapshot' \subseteq Known /\ \A r \in rows' : r.edits \subseteq Known

\* The fields of the world.
LEMMA WorldFields ==
    /\ World.log = log /\ World.top = Limit /\ World.known = Known /\ World.uplink = uplink
BY DEF World

\* Its types.
LEMMA WorldTypes ==
    ASSUME ServerInv
    PROVE  WorldOK(World) /\ Limit \in 0..MaxSeq /\ \A r \in Row : r.seq \in Int
<1>1. Newest(rows, snapshotSeq) \in 0..MaxSeq
  BY RowSeqs, NewestType DEF ServerInv
<1>2. Limit \in 0..MaxSeq
  BY <1>1, Bounds DEF Limit
<1> QED
  BY <1>2, Bounds, WorldFields DEF WorldOK, ServerInv, Row, Seqs

\* The invariant speaks of the server.
LEMMA ServerOK ==
    ASSUME IInv
    PROVE  ServerInv
BY DEF IInv, TypeOK, ServerInv

\* The newest row, while there is a note.
LEMMA TopIsNewest ==
    ASSUME ServerInv, exists
    PROVE  /\ Limit = Newest(rows, snapshotSeq)
           /\ snapshotSeq <= Limit
           /\ \A r \in rows : r.seq <= Limit
           /\ rows = {} => Limit = snapshotSeq
           /\ rows # {} => \E r \in rows : r.seq = Limit
<1>1. Limit = Newest(rows, snapshotSeq)
  BY DEF Limit
<1>2. CASE rows = {}
  BY <1>1, <1>2, Bounds DEF Newest, ServerInv
<1>3. CASE rows # {}
  <2>1. /\ Newest(rows, snapshotSeq) \in SeqsOf(rows)
        /\ \A r \in rows : r.seq <= Newest(rows, snapshotSeq)
    BY <1>3, RowSeqs, NewestIsLargest DEF ServerInv
  <2>2. PICK r \in rows : r.seq = Limit
    BY <1>1, <2>1 DEF SeqsOf
  <2>3. r.seq > snapshotSeq /\ r.seq \in Int /\ snapshotSeq \in Int
    BY <2>2, WorldTypes, Bounds DEF ServerInv, LogInv, After
  <2> QED
    BY <1>1, <1>3, <2>1, <2>2, <2>3
<1> QED
  BY <1>2, <1>3

\* The server rests.
LEMMA ServerRests ==
    ASSUME IInv, UNCHANGED serverVars
    PROVE  ServerGrows /\ Limit' = Limit /\ log' = log
<1>1. UNCHANGED <<exists, snapshot, snapshotSeq, rows, log>>
  BY DEF serverVars
<1>2. Limit' = Limit
  BY <1>1 DEF Limit
<1>3. ServerInv /\ Limit \in Int
  BY ServerOK, WorldTypes, Bounds
<1>4. World'.log = World.log /\ World'.top = World.top
  BY <1>1, <1>2, WorldFields DEF World
<1>5. RowsInv' /\ LogInv'
  BY <1>1, <1>2, <1>3, <1>4 DEF ServerInv, RowsInv, LogInv, Holds
<1> QED
  BY <1>1, <1>2, <1>3, <1>5 DEF ServerGrows, ServerInv, IInv, KnownInv

\* An update is accepted, on top of everything.
LEMMA AcceptGrows ==
    ASSUME IInv, NEW E \in SUBSET Edits, E \subseteq Known, Accept(E)
    PROVE  /\ ServerGrows
           /\ Limit' = NextSeq /\ NextSeq - 1 = Limit /\ NextSeq \in Seqs
           /\ Cardinality(rows) + 1 \in 0..MaxPending
           /\ \A r \in log' : Limit < r.seq => r.edits \subseteq E
           /\ E \subseteq EditsOf(log')
           /\ exists
<1> DEFINE n == [seq |-> NextSeq, edits |-> E]
<1>1. /\ exists /\ ~TailFull(rows, E) /\ NextSeq <= MaxSeq
      /\ rows' = rows \cup {n} /\ log' = log \cup {n}
      /\ UNCHANGED <<exists, snapshot, snapshotSeq>>
  BY DEF Accept, AppendRow
<1>2. ServerInv
  BY ServerOK
<1>3. Limit = Newest(rows, snapshotSeq) /\ Limit \in 0..MaxSeq /\ Limit \in Int
  BY <1>1, <1>2, TopIsNewest, WorldTypes, Bounds
<1>4. NextSeq = Limit + 1 /\ NextSeq \in Seqs /\ NextSeq \in Int /\ NextSeq - 1 = Limit
  BY <1>1, <1>3, Bounds DEF NextSeq, Seqs
<1>5. n \in Row /\ n.seq = NextSeq /\ n.edits = E
  BY <1>4 DEF Row
<1>6. rows' \subseteq Row /\ log' \subseteq Row
  BY <1>1, <1>2, <1>5 DEF ServerInv
<1>7. Limit' = NextSeq
  <2>1. SeqsOf(rows') \in SUBSET Seqs
    BY <1>6, RowSeqs
  <2>2. n \in rows' /\ \A q \in rows' : q.seq <= n.seq
    <3>1. \A q \in rows : q.seq <= Limit /\ q.seq \in Int
      BY <1>1, <1>2, TopIsNewest, WorldTypes DEF ServerInv
    <3> QED
      BY <1>1, <1>3, <1>4, <1>5, <3>1
  <2>3. Newest(rows', snapshotSeq') = NextSeq
    BY <1>5, <2>1, <2>2, NewestUnique
  <2> QED
    BY <1>1, <2>3 DEF Limit
<1>8. RowsInv' /\ Cardinality(rows) + 1 \in 0..MaxPending
  <2>1. IsFiniteSet(rows) /\ Cardinality(rows) \in Nat
    BY FS_CardinalityType DEF IInv, RowsInv
  <2>2. Cardinality(rows) < MaxPending
    BY <1>1, <2>1, Bounds DEF TailFull
  <2>3. IsFiniteSet(rows') /\ Cardinality(rows') <= Cardinality(rows) + 1
    <3>1. /\ IsFiniteSet(rows \cup {n})
          /\ Cardinality(rows \cup {n}) =
                IF n \in rows THEN Cardinality(rows) ELSE Cardinality(rows) + 1
      BY <2>1, FS_AddElement
    <3> QED
      BY <1>1, <2>1, <3>1
  <2>4. Cardinality(rows') \in Nat
    BY <2>3, FS_CardinalityType
  <2> QED
    BY <2>1, <2>2, <2>3, <2>4, Bounds DEF RowsInv
<1>9. /\ \A r \in log : r.seq <= Limit /\ r.seq \in Int
      /\ rows = After(log, snapshotSeq) /\ Holds(snapshot, snapshotSeq, World)
      /\ snapshotSeq <= Limit /\ snapshotSeq \in Int
  BY <1>1, <1>2, TopIsNewest, WorldTypes, Bounds DEF ServerInv, LogInv
<1>10. LogInv'
  <2>1. \A r \in log' : r.seq <= Limit' /\ (r.seq <= snapshotSeq => r \in log)
    BY <1>1, <1>3, <1>4, <1>5, <1>7, <1>9
  <2>2. rows' = After(log', snapshotSeq')
    BY <1>1, <1>3, <1>4, <1>5, <1>9 DEF After
  <2>3. Holds(snapshot', snapshotSeq', World')
    <3>1. World'.log = log' /\ World'.top = Limit'
      BY DEF World
    <3>2. snapshotSeq' <= Limit'
      BY <1>1, <1>3, <1>4, <1>7, <1>9
    <3> QED
      BY <1>1, <1>9, <2>1, <3>1, <3>2, WorldFields DEF Holds
  <2> QED
    BY <2>1, <2>2, <2>3 DEF LogInv
<1>11. \A r \in log' : Limit < r.seq => r.edits \subseteq E
  BY <1>1, <1>3, <1>5, <1>9
<1>12. \A r \in log' \ log : r.seq > Limit
  BY <1>1, <1>3, <1>4, <1>5
<1>13. snapshot' \subseteq Known /\ \A r \in rows' : r.edits \subseteq Known
  BY <1>1, <1>5 DEF IInv, KnownInv
<1>14. E \subseteq EditsOf(log')
  BY <1>1, <1>5 DEF EditsOf
<1>15. Limit <= Limit'
  BY <1>3, <1>4, <1>7
<1>16. ServerInv'
  BY <1>1, <1>2, <1>6, <1>8, <1>10 DEF ServerInv
<1> QED
  BY <1>1, <1>4, <1>7, <1>8, <1>11, <1>12, <1>13, <1>14, <1>15, <1>16 DEF ServerGrows

\* A compaction takes the place of what it covers.
LEMMA CompactGrows ==
    ASSUME IInv, NEW n \in Seqs, NEW E \in SUBSET Edits, E \subseteq Known,
           Holds(E, n, World), Compact(n, E), log' = log
    PROVE  ServerGrows
<1>1. /\ exists /\ n > snapshotSeq /\ rows # {} /\ n <= Newest(rows, 0)
      /\ snapshot' = E /\ snapshotSeq' = n /\ rows' = After(rows, n) /\ exists' = exists
  BY DEF Compact, CoversNewer, CoversKnown
<1>2. ServerInv
  BY ServerOK
<1>3. Limit \in 0..MaxSeq /\ Limit \in Int /\ n \in Int /\ snapshotSeq \in Int /\ n \in 0..MaxSeq
  BY <1>2, WorldTypes, Bounds DEF ServerInv, Seqs
<1>4. n <= Limit
  BY WorldFields DEF Holds
<1>5. \A r \in log : r.seq <= Limit /\ r.seq \in Int
  BY <1>1, <1>2, WorldTypes DEF ServerInv, LogInv
<1>6. rows' = After(log, n)
  BY <1>1, <1>2, <1>3, <1>5 DEF ServerInv, LogInv, After
<1>7. rows' \subseteq Row /\ rows' \subseteq rows
  BY <1>1, <1>2 DEF ServerInv, After
<1>8. Limit' = Limit
  <2>1. PICK q \in rows : q.seq = Limit
    BY <1>1, <1>2, TopIsNewest
  <2>2. CASE rows' = {}
    <3>1. ~(q.seq > n)
      BY <1>1, <2>1, <2>2 DEF After
    <3>2. Limit = n
      BY <1>3, <1>4, <2>1, <3>1
    <3> QED
      BY <1>1, <2>2, <3>2 DEF Limit, Newest
  <2>3. CASE rows' # {}
    <3>1. PICK p \in rows' : TRUE
      BY <2>3
    <3>2. p.seq > n /\ p.seq <= Limit /\ p.seq \in Int
      BY <1>1, <1>2, <1>7, <3>1, TopIsNewest, WorldTypes DEF After, ServerInv
    <3>3. q \in rows'
      BY <1>1, <1>3, <2>1, <3>2 DEF After
    <3>4. \A r \in rows' : r.seq <= q.seq
      BY <1>1, <1>2, <1>7, <2>1, TopIsNewest
    <3>5. Newest(rows', snapshotSeq') = q.seq
      BY <1>7, <3>3, <3>4, RowSeqs, NewestUnique
    <3> QED
      BY <1>1, <2>1, <3>5 DEF Limit
  <2> QED
    BY <2>2, <2>3
<1>9. RowsInv'
  <2>1. /\ IsFiniteSet(rows) /\ Cardinality(rows) \in Nat /\ Cardinality(rows) <= MaxPending
    BY FS_CardinalityType DEF IInv, RowsInv
  <2>2. IsFiniteSet(rows') /\ Cardinality(rows') <= Cardinality(rows)
    BY <1>7, <2>1, FS_Subset
  <2>3. Cardinality(rows') \in Nat
    BY <2>2, FS_CardinalityType
  <2> QED
    BY <2>1, <2>2, <2>3, Bounds DEF RowsInv
<1>10. World'.log = World.log /\ World'.top = World.top
  BY <1>8, WorldFields DEF World
<1>11. LogInv'
  BY <1>1, <1>5, <1>6, <1>8, <1>10 DEF LogInv, Holds
<1>12. ServerInv'
  BY <1>1, <1>2, <1>3, <1>7, <1>9, <1>11 DEF ServerInv
<1> QED
  BY <1>1, <1>3, <1>7, <1>8, <1>12 DEF ServerGrows, IInv, KnownInv

\* The note is gone, and nothing more will come.
LEMMA ExpireGrows ==
    ASSUME IInv, Expire, log' = log
    PROVE  ServerGrows
<1>1. exists' = FALSE /\ rows' = {} /\ UNCHANGED <<snapshot, snapshotSeq>>
  BY DEF Expire
<1>2. ServerInv /\ Limit \in 0..MaxSeq
  BY ServerOK, WorldTypes
<1>3. Limit' = MaxSeq
  BY <1>1 DEF Limit
<1>4. RowsInv'
  BY <1>1, FS_EmptySet, Bounds DEF RowsInv
<1>5. ServerInv'
  BY <1>1, <1>2, <1>4 DEF ServerInv, LogInv
<1> QED
  BY <1>1, <1>2, <1>3, <1>5, Bounds DEF ServerGrows, IInv, KnownInv

-----------------------------------------------------------------------------
(* A step of one client, and of the server with it *)

\* The fields of the world to come.
LEMMA NextWorld ==
    /\ World'.log = log' /\ World'.top = Limit' /\ World'.known = Known'
    /\ World'.uplink = uplink'
BY DEF World

\* The world as the step leaves it.
LEMMA WorldLogLater ==
    ASSUME IInv, ServerGrows, Known \subseteq Known'
    PROVE  LogLater(World, World')
<1>1. WorldOK(World)
  BY ServerOK, WorldTypes
<1>2. (ServerInv => WorldOK(World))'
  BY WorldTypes, PTL
<1>3. WorldOK(World')
  BY <1>2 DEF ServerGrows
<1> QED
  BY <1>1, <1>3, NextWorld, WorldFields DEF LogLater, ServerGrows

\* The same, if the step sends nothing new for client c.
LEMMA WorldLater ==
    ASSUME IInv, ServerGrows, Known \subseteq Known', NEW c,
           \A f \in uplink' : f.client = c =>
               \E g \in uplink : g.client = c /\ g.txn = f.txn /\ g.edits = f.edits
    PROVE  Later(c, World, World')
BY WorldLogLater, NextWorld, WorldFields DEF Later

\* One client goes on as r; what anybody sends has been typed and is complete.
LEMMA Step ==
    ASSUME IInv, ServerGrows, NEW c \in Clients, NEW r, Becomes(c, r),
           client[c].doc \subseteq r.doc, ClientOK(c, r, World'),
           overlap' \/ OutboxOK(c, r, World'),
           uplink' \subseteq Upload, outgoing' \subseteq Announcement, faults' \in 0..MaxFaults,
           \A f \in uplink' : f.client # c => f \in uplink,
           \A f \in uplink' : f.client = c => f.edits \subseteq r.doc,
           \A m \in outgoing' :
               m.edits \subseteq Known /\ Follows(m.prev, m.seq, m.edits, World')
    PROVE  IInv'
<1>1. /\ TypeOK /\ r \in Closure
      /\ client' = [client EXCEPT ![c] = r] /\ client' \in [Clients -> Closure]
      /\ \A d \in Clients : client'[d] = IF d = c THEN r ELSE client[d]
  BY DEF IInv, TypeOK, ClientOK, Becomes
<1>2. Known \subseteq Known'
  <2>1. \A d \in Clients : client[d].doc \subseteq client'[d].doc
    BY <1>1
  <2> QED
    BY <2>1, ClientAssumption DEF Known
<1>3. TypeOK'
  <2>1. overlap' \in BOOLEAN
    BY <1>1 DEF Becomes, TypeOK, Overlapping
  <2> QED
    BY <1>1, <2>1 DEF TypeOK, ServerGrows, ServerInv
<1>4. RowsInv' /\ LogInv'
  BY DEF ServerGrows, ServerInv
<1>5. NetInv'
  <2>1. ASSUME NEW f \in uplink'
        PROVE  f.edits \subseteq client'[f.client].doc
    <3>1. f.client \in Clients
      BY DEF Upload
    <3>2. CASE f.client = c
      BY <1>1, <3>1, <3>2
    <3>3. CASE f.client # c
      BY <1>1, <3>1, <3>3 DEF IInv, NetInv
    <3> QED
      BY <3>2, <3>3
  <2> QED
    BY <2>1 DEF NetInv
<1>6. KnownInv'
  BY <1>2 DEF KnownInv, ServerGrows
<1>7. ASSUME NEW d \in Clients, d # c
      PROVE  /\ ClientOK(d, client'[d], World')
             /\ overlap' \/ OutboxOK(d, client'[d], World')
  <2>1. Later(d, World, World')
    BY <1>2, <1>7, WorldLater
  <2>2. client'[d] = client[d] /\ client[d] \in Closure /\ ClientOK(d, client[d], World)
        /\ (overlap \/ OutboxOK(d, client[d], World))
    BY <1>1, <1>7 DEF IInv, ClientOK
  <2>3. overlap => overlap'
    BY DEF Becomes
  <2> QED
    BY <2>1, <2>2, <2>3, LaterKeeps DEF ClientOK
<1>8. \A d \in Clients : ClientOK(d, client'[d], World')
  BY <1>1, <1>7
<1>9. ~overlap' => \A d \in Clients : OutboxOK(d, client'[d], World')
  BY <1>1, <1>7
<1> QED
  BY <1>3, <1>4, <1>5, <1>6, <1>8, <1>9 DEF IInv

\* What a client brings into the step.
LEMMA Before ==
    ASSUME IInv, ServerGrows, NEW c \in Clients, Known \subseteq Known',
           \A f \in uplink' : f.client = c =>
               \E g \in uplink : g.client = c /\ g.txn = f.txn /\ g.edits = f.edits
    PROVE  /\ ClientOK(c, client[c], World) /\ ClientOK(c, client[c], World')
           /\ client[c] \in Closure
           /\ overlap \/ OutboxOK(c, client[c], World')
<1>1. Later(c, World, World')
  BY WorldLater
<1>2. ClientOK(c, client[c], World) /\ client[c] \in Closure
      /\ (overlap \/ OutboxOK(c, client[c], World))
  BY DEF IInv, ClientOK
<1> QED
  BY <1>1, <1>2, LaterKeeps DEF ClientOK

\* Everything typed so far has been typed whatever a client learns.
LEMMA KnownGrows ==
    ASSUME IInv, NEW c \in Clients, NEW r, Becomes(c, r), client[c].doc \subseteq r.doc
    PROVE  Known \subseteq Known'
<1>1. \A d \in Clients : client'[d] = IF d = c THEN r ELSE client[d]
  BY DEF IInv, TypeOK, Becomes
<1> QED
  BY <1>1, ClientAssumption DEF Known

\* What waits to be sent to others is as complete as it was.
LEMMA OutgoingLater ==
    ASSUME IInv, ServerGrows, Known \subseteq Known', NEW m \in outgoing
    PROVE  m.edits \subseteq Known /\ Follows(m.prev, m.seq, m.edits, World')
<1>1. LogLater(World, World')
  BY WorldLogLater
<1>2. m.edits \subseteq Known /\ Follows(m.prev, m.seq, m.edits, World)
  BY DEF IInv, NetInv, KnownInv
<1>3. m.seq \in Int /\ m.prev \in Int
  BY Bounds DEF IInv, TypeOK, Announcement, Seqs
<1> QED
  BY <1>1, <1>2, <1>3, HoldsLater

\* The same, when nothing is sent.
LEMMA QuietStep ==
    ASSUME IInv, ServerGrows, UNCHANGED netVars, NEW c \in Clients, NEW r, Becomes(c, r),
           client[c].doc \subseteq r.doc, ClientOK(c, r, World'),
           overlap' \/ OutboxOK(c, r, World'), faults' \in 0..MaxFaults
    PROVE  IInv'
<1>1. uplink' = uplink /\ outgoing' = outgoing
  BY DEF netVars
<1>2. Known \subseteq Known'
  BY KnownGrows
<1>4. \A f \in uplink' : f.client = c => f.edits \subseteq r.doc
  BY <1>1 DEF IInv, NetInv
<1>5. uplink' \subseteq Upload /\ outgoing' \subseteq Announcement
  BY <1>1 DEF IInv, TypeOK
<1>6. \A m \in outgoing' : m.edits \subseteq Known /\ Follows(m.prev, m.seq, m.edits, World')
  BY <1>1, <1>2, OutgoingLater
<1> QED
  BY <1>1, <1>4, <1>5, <1>6, Step

\* The same, when the client's data rests.
LEMMA RestStep ==
    ASSUME IInv, ServerGrows, UNCHANGED netVars, NEW c \in Clients, NEW r \in Closure,
           Becomes(c, r), Rests(client[c], r), Armed(r), Tuned(r), faults' \in 0..MaxFaults
    PROVE  IInv'
<1>1. client[c].doc \subseteq r.doc
  BY DEF Rests
<1>2. uplink' = uplink /\ Known \subseteq Known'
  BY <1>1, KnownGrows DEF netVars
<1>3. /\ client[c] \in Closure /\ ClientOK(c, client[c], World')
      /\ overlap \/ OutboxOK(c, client[c], World')
  BY <1>2, Before
<1>4. ClientOK(c, r, World')
  BY <1>3, RestsKeeps DEF ClientOK
<1>5. overlap' \/ OutboxOK(c, r, World')
  BY <1>3, RestsKeeps DEF Becomes
<1> QED
  BY <1>1, <1>4, <1>5, QuietStep

-----------------------------------------------------------------------------
(* Reading *)

\* The bound on faults.
LEMMA FaultType ==
    ASSUME IInv, Fault \/ UNCHANGED faults
    PROVE  faults' \in 0..MaxFaults
<1>1. faults \in 0..MaxFaults /\ MaxFaults \in Nat
  BY ClientAssumption DEF IInv, TypeOK
<1> QED
  BY <1>1 DEF Fault

\* A read completes what its reader holds up to the id it answers.
LEMMA ReplyOK ==
    ASSUME IInv, NEW since \in {NoCursor} \cup 0..MaxSeq, NEW D, Holds(D, since, World),
           NEW body, body = Reply(since)
    PROVE  /\ body \in ReplyTask /\ body.found = exists
           /\ body.edits \subseteq Known
           /\ body.found => Holds(D \cup body.edits, body.seq, World)
<1> DEFINE resync == since < snapshotSeq
           found == IF resync THEN rows ELSE After(rows, since)
           base == IF resync THEN snapshotSeq ELSE since
           edits == EditsOf(found) \cup (IF resync THEN snapshot ELSE {})
<1>1. body = [st |-> "reply", found |-> exists, edits |-> edits, seq |-> Newest(found, base),
              pending |-> Cardinality(rows)]
  BY DEF Reply, ReadBody
<1>2. ServerInv
  BY ServerOK
<1>3. edits \in SUBSET Edits /\ Newest(found, base) \in 0..MaxSeq
  BY <1>2, ReadBodyType DEF ServerInv, ReadBody
<1>4. Cardinality(rows) \in 0..MaxPending
  BY FS_CardinalityType, Bounds DEF IInv, RowsInv
<1>5. found \subseteq rows
  BY DEF After
<1>6. edits \subseteq Known
  BY <1>5 DEF IInv, KnownInv, EditsOf
<1>7. since \in Int /\ snapshotSeq \in Int /\ Limit \in Int /\ \A r \in log : r.seq \in Int
  BY <1>2, WorldTypes, Bounds DEF NoCursor, ServerInv
<1>8. ASSUME exists
      PROVE  Holds(D \cup edits, Newest(found, base), World)
  <2>1. /\ Holds(snapshot, snapshotSeq, World) /\ rows = After(log, snapshotSeq)
        /\ \A r \in log : r.seq <= Limit
    BY <1>2, <1>8 DEF ServerInv, LogInv
  <2>2. ASSUME NEW r \in log, r.seq > base
        PROVE  r.edits \subseteq edits
    <3>1. r \in rows
      BY <1>7, <2>1, <2>2 DEF After
    <3>2. r \in found
      BY <2>2, <3>1 DEF After
    <3> QED
      BY <3>2 DEF EditsOf
  <2>3. ASSUME NEW r \in log, r.seq <= base
        PROVE  r.edits \subseteq D \cup edits
    BY <2>1, <2>3, WorldFields DEF Holds
  <2>4. \A r \in log : r.edits \subseteq D \cup edits
    BY <1>7, <2>2, <2>3
  <2>5. base <= Limit
    BY <2>1, WorldFields DEF Holds
  <2>6. Newest(found, base) <= Limit
    <3>1. CASE found = {}
      BY <2>5, <3>1 DEF Newest
    <3>2. CASE found # {}
      <4>1. SeqsOf(found) \in SUBSET Seqs
        BY <1>2, <1>5, RowSeqs DEF ServerInv
      <4>2. Newest(found, base) \in SeqsOf(found)
        BY <3>2, <4>1, NewestIsLargest
      <4> QED
        BY <1>2, <1>5, <1>8, <4>2, TopIsNewest DEF SeqsOf
    <3> QED
      BY <3>1, <3>2
  <2> QED
    BY <2>4, <2>6, WorldFields DEF Holds
<1> HIDE DEF edits, found, base
<1>9. body \in ReplyTask
  BY <1>1, <1>2, <1>3, <1>4 DEF ReplyTask, ServerInv
<1> QED
  BY <1>1, <1>6, <1>8, <1>9

\* A client overlaps itself by its flushes and its wait for an ack alone.
LEMMA SameOverlap ==
    ASSUME NEW k, NEW r, r.flushes = k.flushes, r.wsFlush = k.wsFlush
    PROVE  Overlapping(r) = Overlapping(k) /\ Unanswered(r) = Unanswered(k) /\ Live(r) = Live(k)
BY DEF Overlapping, Unanswered, Live

\* A client learns of edits, and is entitled to its new cursor.
LEMMA Learn ==
    ASSUME NEW c, NEW w, NEW k \in Closure, NEW E, NEW q,
           Changes(k, q, {"doc", "cursor", "pending"}), q.doc = k.doc \cup E,
           Holds(q.doc, q.cursor, w)
    PROVE  /\ Sound(k, w) => Sound(q, w)
           /\ KnownTo(k, w) /\ E \subseteq w.known => KnownTo(q, w)
           /\ TxnOK(c, k, w) => TxnOK(c, q, w)
           /\ OutboxOK(c, k, w) /\ {e \in E : Author[e] = c} \subseteq k.doc => OutboxOK(c, q, w)
           /\ Armed(k) => Armed(q)
           /\ Tuned(k) => Tuned(q)
<1>1. /\ q.started = k.started /\ q.stopped = k.stopped /\ q.halted = k.halted
      /\ q.outbox = k.outbox /\ q.flushTimer = k.flushTimer /\ q.flushing = k.flushing
      /\ q.flushes = k.flushes /\ q.wsFlush = k.wsFlush /\ q.handler = k.handler
      /\ q.pollTimer = k.pollTimer /\ q.poll = k.poll /\ q.ws = k.ws
      /\ q.compaction = k.compaction /\ q.inbox = k.inbox /\ q.txn = k.txn
  BY DEF Changes, Fields
<1>2. ASSUME Sound(k, w)
      PROVE  Sound(q, w)
  <2>1. \A n \in DOMAIN q.inbox : FrameSound(q.inbox[n], q.doc, w)
    BY <1>1, <1>2, HoldsMore DEF Sound, FrameSound
  <2>2. q.poll # Idle /\ q.poll.found => Holds(q.doc \cup q.poll.edits, q.poll.seq, w)
    BY <1>1, <1>2, HoldsMore DEF Sound
  <2>3. /\ q.handler.st = "reply" /\ q.handler.found =>
               Holds(q.doc \cup q.handler.edits, q.handler.seq, w)
        /\ q.handler.st = "apply" => Holds(q.doc \cup q.handler.edits, q.handler.seq, w)
    <3>1. k.doc \cup k.handler.edits \subseteq q.doc \cup q.handler.edits
      BY <1>1
    <3> QED
      BY <1>1, <1>2, <3>1, HoldsMore DEF Sound
  <2>4. q.compaction # Idle => Holds(q.compaction.content, q.compaction.covers, w)
    BY <1>1, <1>2 DEF Sound
  <2>5. /\ Range(q.outbox) \subseteq q.doc
        /\ \A i \in Slots : q.flushes[i].st \in {"encrypt", "sent"} =>
               q.flushes[i].edits \subseteq q.doc
    BY <1>1, <1>2 DEF Sound
  <2> QED
    BY <2>1, <2>2, <2>3, <2>4, <2>5 DEF Sound
<1>3. KnownTo(k, w) /\ E \subseteq w.known => KnownTo(q, w)
  BY <1>1 DEF KnownTo
<1>4. TxnOK(c, k, w) => TxnOK(c, q, w)
  BY <1>1 DEF TxnOK
<1>5. OutboxOK(c, k, w) /\ {e \in E : Author[e] = c} \subseteq k.doc => OutboxOK(c, q, w)
  BY <1>1, SameOverlap DEF OutboxOK
<1>6. Armed(k) => Armed(q)
  BY <1>1, SameOverlap DEF Armed
<1>7. Tuned(k) => Tuned(q)
  BY <1>1 DEF Tuned
<1> QED
  BY <1>2, <1>3, <1>4, <1>5, <1>6, <1>7

\* What a reply changes.
LEMMA ApplyServerBodyDoes ==
    ASSUME NEW k \in Closure, NEW body \in ReplyTask, NEW r, r = ApplyServerBody(k, body)
    PROVE  /\ Changes(k, r, {"doc", "cursor", "pending"})
           /\ r.doc = k.doc \cup body.edits
           /\ r.cursor \in {k.cursor, body.seq}
<1>1. /\ body.edits \subseteq Edits /\ body.seq \in 0..MaxSeq /\ body.pending \in 0..MaxPending
  BY DEF ReplyTask
<1>2. r \in Closure
  BY <1>1 DEF ApplyServerBody, Closure
<1> QED
  BY <1>2, Domain DEF ApplyServerBody, Changes, Fields

\* What a client is after a reply.
LEMMA TakeReplyKeeps ==
    ASSUME NEW c, NEW w, NEW k \in Closure, NEW body \in ReplyTask,
           body.found => Holds(k.doc \cup body.edits, body.seq, w), body.edits \subseteq w.known,
           Sound(k, w), KnownTo(k, w), TxnOK(c, k, w),
           {e \in body.edits : Author[e] = c} \subseteq k.doc,
           NEW r, r = TakeReply(k, body)
    PROVE  /\ r \in Closure /\ k.doc \subseteq r.doc
           /\ Sound(r, w) /\ KnownTo(r, w) /\ TxnOK(c, r, w)
           /\ OutboxOK(c, k, w) => OutboxOK(c, r, w)
           /\ Armed(k) => Armed(r)
           /\ \/ r.stopped
              \/ Changes(k, r, {"doc", "cursor", "pending", "compaction"})
<1>1. CASE ~body.found
  <2>1. /\ Changes(k, r, {"stopped", "flushTimer", "pollTimer", "reconnectTimer", "ws",
                          "consumer"})
        /\ r.stopped
    BY <1>1, FatalDoes DEF TakeReply
  <2>2. r \in Closure /\ Rests(k, r)
    BY <2>1, ControlRests DEF Changes, Control
  <2>3. r.flushes = k.flushes /\ r.wsFlush = k.wsFlush /\ r.flushing = k.flushing
    BY <2>1 DEF Changes, Fields
  <2>4. OutboxOK(c, k, w) => OutboxOK(c, r, w)
    BY <2>2, <2>3, SameOverlap, RestsKeeps DEF OutboxOK
  <2>5. Armed(k) => Armed(r)
    BY <2>1, <2>3, SameOverlap DEF Armed
  <2> QED
    BY <2>1, <2>2, <2>4, <2>5, RestsKeeps DEF Rests
<1>2. CASE body.found
  <2> DEFINE q == ApplyServerBody(k, body)
  <2>1. /\ Changes(k, q, {"doc", "cursor", "pending"})
        /\ q.doc = k.doc \cup body.edits /\ q.cursor \in {k.cursor, body.seq}
    BY ApplyServerBodyDoes
  <2>2. r = MaybeCompact(q)
    BY <1>2 DEF TakeReply
  <2> HIDE DEF q
  <2>3. q \in Closure
    BY <2>1 DEF Changes
  <2>4. Holds(q.doc, q.cursor, w)
    <3>1. Holds(k.doc, k.cursor, w)
      BY DEF Sound
    <3> QED
      BY <1>2, <2>1, <3>1, HoldsMore
  <2>5. /\ Sound(q, w) /\ KnownTo(q, w) /\ TxnOK(c, q, w)
        /\ OutboxOK(c, k, w) => OutboxOK(c, q, w)
        /\ Armed(k) => Armed(q)
    BY <2>1, <2>4, Learn
  <2>6. Changes(q, r, {"compaction"}) /\ Rests(q, r)
    BY <2>2, <2>3, MaybeCompactDoes
  <2>7. /\ r \in Closure /\ r.doc = q.doc /\ r.flushes = q.flushes /\ r.wsFlush = q.wsFlush
        /\ r.flushing = q.flushing /\ r.outbox = q.outbox /\ r.stopped = q.stopped
        /\ r.halted = q.halted /\ r.flushTimer = q.flushTimer /\ r.handler = q.handler
    BY <2>6 DEF Changes, Fields
  <2>8. OutboxOK(c, k, w) => OutboxOK(c, r, w)
    BY <2>3, <2>5, <2>6, <2>7, SameOverlap, RestsKeeps DEF OutboxOK
  <2>9. Armed(k) => Armed(r)
    BY <2>5, <2>7, SameOverlap DEF Armed
  <2>10. Changes(k, r, {"doc", "cursor", "pending", "compaction"})
    <3>1. Changes(k, r, {"doc", "cursor", "pending"} \cup {"compaction"})
      BY <2>1, <2>6, ChangesAdd
    <3> QED
      BY <3>1 DEF Changes
  <2>11. Sound(r, w) /\ KnownTo(r, w) /\ TxnOK(c, r, w)
    BY <2>3, <2>5, <2>6, <2>7, RestsKeeps
  <2> QED
    BY <2>1, <2>7, <2>8, <2>9, <2>10, <2>11
<1> QED
  BY <1>1, <1>2

\* A step of one client alone can be looked at in the world as it is.
LEMMA LocalStep ==
    ASSUME IInv, UNCHANGED serverVars, UNCHANGED netVars, Fault \/ UNCHANGED faults,
           NEW c \in Clients, NEW r, Becomes(c, r), client[c].doc \subseteq r.doc,
           ClientOK(c, r, World), overlap' \/ OutboxOK(c, r, World)
    PROVE  IInv'
<1>1. ServerGrows /\ faults' \in 0..MaxFaults
  BY ServerRests, FaultType
<1>2. uplink' = uplink /\ Known \subseteq Known'
  BY KnownGrows DEF netVars
<1>3. Later(c, World, World')
  BY <1>1, <1>2, WorldLater
<1>4. ClientOK(c, r, World') /\ (overlap' \/ OutboxOK(c, r, World'))
  BY <1>3, LaterKeeps DEF ClientOK
<1> QED
  BY <1>1, <1>4, QuietStep

\* A client as the step finds it.
LEMMA Now ==
    ASSUME IInv, NEW c \in Clients
    PROVE  /\ client[c] \in Closure
           /\ Armed(client[c]) /\ Tuned(client[c])
           /\ Sound(client[c], World) /\ KnownTo(client[c], World) /\ TxnOK(c, client[c], World)
           /\ overlap \/ OutboxOK(c, client[c], World)
BY DEF IInv, ClientOK

\* What somebody has typed, its author has.
LEMMA AuthorKnows ==
    ASSUME NEW c, NEW E \in SUBSET Known
    PROVE  {e \in E : Author[e] = c} \subseteq client[c].doc
BY DEF Known

\* A poll has been answered, not yet applied.
LEMMA Ask ==
    ASSUME NEW c, NEW w, NEW k \in Closure, NEW r, Changes(k, r, {"pollTimer", "poll"}),
           r.poll \in ReplyTask, r.poll.found => Holds(k.doc \cup r.poll.edits, r.poll.seq, w),
           r.poll.edits \subseteq w.known
    PROVE  /\ Sound(k, w) => Sound(r, w)
           /\ KnownTo(k, w) => KnownTo(r, w)
           /\ TxnOK(c, k, w) => TxnOK(c, r, w)
           /\ OutboxOK(c, k, w) => OutboxOK(c, r, w)
           /\ Armed(k) => Armed(r)
           /\ Tuned(r)
<1>1. /\ r.started = k.started /\ r.stopped = k.stopped /\ r.halted = k.halted
      /\ r.outbox = k.outbox /\ r.flushTimer = k.flushTimer /\ r.flushing = k.flushing
      /\ r.flushes = k.flushes /\ r.wsFlush = k.wsFlush /\ r.handler = k.handler
      /\ r.ws = k.ws /\ r.doc = k.doc /\ r.cursor = k.cursor
      /\ r.compaction = k.compaction /\ r.inbox = k.inbox /\ r.txn = k.txn
  BY DEF Changes, Fields
<1>2. r.poll # Idle
  BY Domain DEF ReplyTask
<1>3. Sound(k, w) => Sound(r, w)
  BY <1>1 DEF Sound
<1>4. KnownTo(k, w) => KnownTo(r, w)
  BY <1>1 DEF KnownTo
<1>5. TxnOK(c, k, w) => TxnOK(c, r, w)
  BY <1>1 DEF TxnOK
<1>6. OutboxOK(c, k, w) => OutboxOK(c, r, w)
  BY <1>1, SameOverlap DEF OutboxOK
<1>7. Armed(k) => Armed(r)
  BY <1>1, SameOverlap DEF Armed
<1> QED
  BY <1>1, <1>2, <1>3, <1>4, <1>5, <1>6, <1>7 DEF Tuned

\* The next poll is scheduled, and so the client hears of others again.
LEMMA SchedulePollKeeps ==
    ASSUME NEW c, NEW w, NEW k \in Closure, NEW r, r = SchedulePoll(k)
    PROVE  /\ r \in Closure /\ Rests(k, r) /\ Tuned(r)
           /\ Armed(k) => Armed(r)
           /\ OutboxOK(c, k, w) => OutboxOK(c, r, w)
<1>1. Changes(k, r, {"pollTimer"}) /\ (k.stopped \/ k.ws = "open" \/ r.pollTimer)
  BY SchedulePollDoes
<1>2. /\ r \in Closure /\ r.started = k.started /\ r.stopped = k.stopped /\ r.halted = k.halted
      /\ r.outbox = k.outbox /\ r.flushTimer = k.flushTimer /\ r.flushing = k.flushing
      /\ r.flushes = k.flushes /\ r.wsFlush = k.wsFlush /\ r.handler = k.handler
      /\ r.ws = k.ws
  BY <1>1 DEF Changes, Fields
<1>3. Rests(k, r)
  BY <1>1, ControlRests DEF Control
<1>4. OutboxOK(c, k, w) => OutboxOK(c, r, w)
  BY <1>2, <1>3, SameOverlap, RestsKeeps DEF OutboxOK
<1> QED
  BY <1>1, <1>2, <1>3, <1>4, SameOverlap DEF Tuned, Armed

\* The poll timer fires: the poll is served at once.
LEMMA PollTimerFiresKeeps ==
    ASSUME IInv, NEW c \in Clients, PollTimerFires(c)
    PROVE  IInv'
<1> DEFINE k == client[c]
           body == Reply(k.cursor)
           r == [k EXCEPT !.pollTimer = FALSE, !.poll = body]
<1>1. Becomes(c, r) /\ UNCHANGED <<serverVars, netVars, faults>>
  BY DEF PollTimerFires
<1>2. /\ k \in Closure /\ Armed(k) /\ Tuned(k) /\ Sound(k, World) /\ KnownTo(k, World)
      /\ TxnOK(c, k, World) /\ (overlap \/ OutboxOK(c, k, World))
  BY Now
<1>3. /\ body \in ReplyTask /\ body.edits \subseteq Known
      /\ body.found => Holds(k.doc \cup body.edits, body.seq, World)
  <2>1. k.cursor \in {NoCursor} \cup 0..MaxSeq
    BY <1>2, Numbers
  <2> QED
    BY <1>2, <2>1, ReplyOK DEF Sound
<1> HIDE DEF k, body
<1>4. r \in Closure
  BY <1>2, <1>3 DEF Closure
<1>5. Changes(k, r, {"pollTimer", "poll"}) /\ r.poll = body /\ r.doc = k.doc
  BY <1>2, <1>4, Domain DEF Changes, Fields
<1> HIDE DEF r
<1>6. ClientOK(c, r, World) /\ (overlap \/ OutboxOK(c, r, World))
  BY <1>2, <1>3, <1>4, <1>5, Ask, WorldFields DEF ClientOK
<1> QED
  BY <1>1, <1>5, <1>6, LocalStep DEF k, Becomes

\* The poll's answer is applied, and the next poll scheduled.
LEMMA PollDoneKeeps ==
    ASSUME IInv, NEW c \in Clients, PollDone(c)
    PROVE  IInv'
<1> DEFINE k == client[c]
           body == k.poll
           p == [k EXCEPT !.poll = Idle]
           q == TakeReply(p, body)
           r == SchedulePoll(q)
<1>1. body # Idle /\ Becomes(c, r) /\ UNCHANGED <<serverVars, netVars, faults>>
  BY DEF PollDone
<1>2. /\ k \in Closure /\ Armed(k) /\ Tuned(k) /\ Sound(k, World) /\ KnownTo(k, World)
      /\ TxnOK(c, k, World) /\ (overlap \/ OutboxOK(c, k, World))
  BY Now
<1>3. /\ body \in ReplyTask /\ body.edits \subseteq Known
      /\ body.found => Holds(k.doc \cup body.edits, body.seq, World)
  BY <1>1, <1>2, Numbers, WorldFields DEF Sound, KnownTo
<1>4. {e \in body.edits : Author[e] = c} \subseteq k.doc
  BY <1>3, AuthorKnows
<1> HIDE DEF k, body
<1>5. p \in Closure
  BY <1>2 DEF Closure
<1>6. Changes(k, p, {"poll"}) /\ p.poll = Idle
  BY <1>2, <1>5, Domain DEF Changes, Fields
<1> HIDE DEF p
<1>7. /\ p.doc = k.doc /\ p.flushes = k.flushes /\ p.wsFlush = k.wsFlush
      /\ p.flushing = k.flushing /\ p.outbox = k.outbox /\ p.stopped = k.stopped
      /\ p.halted = k.halted /\ p.flushTimer = k.flushTimer /\ p.handler = k.handler
  BY <1>6 DEF Changes, Fields
<1>8. Rests(k, p)
  BY <1>6 DEF Changes, Fields, Rests
<1>9. Armed(p) /\ (overlap \/ OutboxOK(c, p, World))
  BY <1>2, <1>5, <1>7, <1>8, SameOverlap, RestsKeeps DEF Armed, OutboxOK
<1>10. Sound(p, World) /\ KnownTo(p, World) /\ TxnOK(c, p, World)
  BY <1>2, <1>5, <1>8, RestsKeeps
<1>11. /\ q \in Closure /\ p.doc \subseteq q.doc
       /\ Sound(q, World) /\ KnownTo(q, World) /\ TxnOK(c, q, World)
       /\ (overlap \/ OutboxOK(c, q, World)) /\ Armed(q)
  BY <1>3, <1>4, <1>5, <1>7, <1>9, <1>10, TakeReplyKeeps, WorldFields
<1> HIDE DEF q
<1>12. /\ r \in Closure /\ Rests(q, r) /\ Tuned(r) /\ Armed(r)
       /\ (overlap \/ OutboxOK(c, r, World))
  BY <1>11, SchedulePollKeeps
<1> HIDE DEF r
<1>13. ClientOK(c, r, World) /\ q.doc = r.doc
  BY <1>11, <1>12, RestsKeeps DEF ClientOK, Rests
<1> QED
  BY <1>1, <1>7, <1>11, <1>12, <1>13, LocalStep DEF k, Becomes

\* The poll fails; the next one is scheduled.
LEMMA PollFailsKeeps ==
    ASSUME IInv, NEW c \in Clients, PollFails(c)
    PROVE  IInv'
<1> DEFINE k == client[c]
           p == [k EXCEPT !.poll = Idle]
           r == SchedulePoll(p)
<1>1. Becomes(c, r) /\ UNCHANGED <<serverVars, netVars>> /\ Fault
  BY DEF PollFails
<1>2. k \in Closure /\ Armed(k)
  BY Now
<1> HIDE DEF k
<1>5. p \in Closure
  BY <1>2 DEF Closure
<1>6. Changes(k, p, {"poll"}) /\ p.poll = Idle
  BY <1>2, <1>5, Domain DEF Changes, Fields
<1> HIDE DEF p
<1>8. Rests(k, p)
  BY <1>6 DEF Changes, Fields, Rests
<1>9. Armed(p)
  BY <1>2, <1>6, SameOverlap DEF Armed, Changes, Fields
<1>10. r \in Closure /\ Rests(p, r) /\ Tuned(r) /\ Armed(r)
  BY <1>5, <1>9, SchedulePollKeeps
<1> HIDE DEF r
<1>11. Rests(k, r)
  BY <1>8, <1>10, RestsAdd
<1> QED
  BY <1>1, <1>10, <1>11, RestStep, ServerRests, FaultType DEF k

\* A client starts from the full state.
LEMMA StartKeeps ==
    ASSUME IInv, NEW c \in Clients, Start(c)
    PROVE  IInv'
<1> DEFINE k == client[c]
           body == Reply(NoCursor)
           p == [k EXCEPT !.started = TRUE]
           q == TakeReply(p, body)
           s == SchedulePoll(q)
           r == ConnectWs(c, s)
<1>1. Becomes(c, r) /\ UNCHANGED <<serverVars, netVars, faults>>
  BY DEF Start
<1>2. /\ k \in Closure /\ Armed(k) /\ Sound(k, World) /\ KnownTo(k, World)
      /\ TxnOK(c, k, World) /\ (overlap \/ OutboxOK(c, k, World))
  BY Now
<1>3. /\ body \in ReplyTask /\ body.edits \subseteq Known
      /\ body.found => Holds(k.doc \cup body.edits, body.seq, World)
  <2>1. Limit \in 0..MaxSeq /\ \A x \in log : x.seq \in Seqs
    BY ServerOK, WorldTypes DEF ServerInv, Row
  <2>2. Holds(k.doc, NoCursor, World)
    BY <2>1, Bounds, WorldFields DEF Holds, NoCursor, Seqs
  <2> QED
    BY <2>2, ReplyOK
<1>4. {e \in body.edits : Author[e] = c} \subseteq k.doc
  BY <1>3, AuthorKnows
<1> HIDE DEF k, body
<1>5. p \in Closure
  BY <1>2 DEF Closure
<1>6. Changes(k, p, {"started"})
  BY <1>2, <1>5, Domain DEF Changes, Fields
<1> HIDE DEF p
<1>7. /\ p.doc = k.doc /\ p.flushes = k.flushes /\ p.wsFlush = k.wsFlush
      /\ p.flushing = k.flushing /\ p.outbox = k.outbox /\ p.stopped = k.stopped
      /\ p.halted = k.halted /\ p.flushTimer = k.flushTimer /\ p.handler = k.handler
  BY <1>6 DEF Changes, Fields
<1>8. Rests(k, p)
  BY <1>6, ControlRests DEF Control
<1>9. Armed(p) /\ (overlap \/ OutboxOK(c, p, World))
  BY <1>2, <1>5, <1>7, <1>8, SameOverlap, RestsKeeps DEF Armed, OutboxOK
<1>10. Sound(p, World) /\ KnownTo(p, World) /\ TxnOK(c, p, World)
  BY <1>2, <1>5, <1>8, RestsKeeps
<1>11. /\ q \in Closure /\ p.doc \subseteq q.doc
       /\ Sound(q, World) /\ KnownTo(q, World) /\ TxnOK(c, q, World)
       /\ (overlap \/ OutboxOK(c, q, World)) /\ Armed(q)
  BY <1>3, <1>4, <1>5, <1>7, <1>9, <1>10, TakeReplyKeeps, WorldFields
<1> HIDE DEF q
<1>12. /\ s \in Closure /\ Rests(q, s) /\ Tuned(s) /\ Armed(s)
       /\ (overlap \/ OutboxOK(c, s, World))
  BY <1>11, SchedulePollKeeps
<1> HIDE DEF s
<1>13. Changes(s, r, {"ws"}) /\ (s.ws # "none" => r.ws = s.ws)
  BY <1>12, ConnectWsDoes
<1> HIDE DEF r
<1>14. /\ r \in Closure /\ r.flushes = s.flushes /\ r.wsFlush = s.wsFlush
       /\ r.flushing = s.flushing /\ r.outbox = s.outbox /\ r.stopped = s.stopped
       /\ r.halted = s.halted /\ r.flushTimer = s.flushTimer /\ r.handler = s.handler
       /\ r.started = s.started /\ r.pollTimer = s.pollTimer /\ r.poll = s.poll
  BY <1>13 DEF Changes, Fields
<1>15. Tuned(r) /\ Armed(r)
  BY <1>12, <1>13, <1>14, SameOverlap DEF Tuned, Armed
<1>16. Rests(q, r)
  BY <1>12, <1>13, ControlRests, RestsAdd DEF Control
<1>17. ClientOK(c, r, World) /\ q.doc = r.doc
  BY <1>11, <1>14, <1>15, <1>16, RestsKeeps DEF ClientOK, Rests
<1>18. overlap \/ OutboxOK(c, r, World)
  <2>1. Rests(s, r)
    BY <1>13, ControlRests DEF Control
  <2> QED
    BY <1>12, <1>14, <2>1, SameOverlap, RestsKeeps DEF OutboxOK
<1> QED
  BY <1>1, <1>7, <1>11, <1>17, <1>18, LocalStep DEF k, Becomes

-----------------------------------------------------------------------------
(* Compacting *)

\* What decides whether a client is armed and tuned.
ArmedFields == {"outbox", "stopped", "halted", "flushTimer", "flushes", "wsFlush", "handler",
                "flushing"}
TunedFields == {"started", "stopped", "pollTimer", "poll", "ws"}

\* Nothing else does.
LEMMA Untouched ==
    ASSUME NEW k, NEW r, NEW F, Changes(k, r, F)
    PROVE  /\ F \cap ArmedFields = {} => (Armed(k) => Armed(r))
           /\ F \cap TunedFields = {} => (Tuned(k) => Tuned(r))
<1>1. ASSUME F \cap ArmedFields = {}, Armed(k)
      PROVE  Armed(r)
  <2>1. \A f \in ArmedFields : r[f] = k[f]
    BY <1>1 DEF Changes, Fields, ArmedFields
  <2> QED
    BY <1>1, <2>1, SameOverlap DEF Armed, ArmedFields
<1>2. ASSUME F \cap TunedFields = {}, Tuned(k)
      PROVE  Tuned(r)
  <2>1. \A f \in TunedFields : r[f] = k[f]
    BY <1>2 DEF Changes, Fields, TunedFields
  <2> QED
    BY <1>2, <2>1 DEF Tuned, TunedFields
<1> QED
  BY <1>1, <1>2

\* A stopped client has nothing to be armed or tuned for.
LEMMA FatalKeeps ==
    ASSUME NEW k \in Closure, NEW r, r = Fatal(k)
    PROVE  /\ r \in Closure /\ Rests(k, r) /\ Tuned(r)
           /\ Armed(k) => Armed(r)
           /\ (k.flushing => Unanswered(k) # {} \/ k.wsFlush # NoFlush) => Armed(r)
<1>1. /\ Changes(k, r, {"stopped", "flushTimer", "pollTimer", "reconnectTimer", "ws",
                        "consumer"})
      /\ r.stopped
  BY FatalDoes
<1>2. r.flushes = k.flushes /\ r.wsFlush = k.wsFlush /\ r.flushing = k.flushing
  BY <1>1 DEF Changes, Fields
<1>3. Rests(k, r)
  BY <1>1, ControlRests DEF Control
<1> QED
  BY <1>1, <1>2, <1>3, SameOverlap DEF Armed, Tuned, Changes

\* The answer to a compaction moves no data, and sets going whoever waited for it.
LEMMA FreedKeeps ==
    ASSUME NEW k \in Closure, k.compaction # Idle, Armed(k), Tuned(k), NEW p, NEW r,
           \/ p = [k EXCEPT !.compaction = Idle]
           \/ p = [[k EXCEPT !.compaction = Idle] EXCEPT !.pending = 0]
           \/ p = Fatal([k EXCEPT !.compaction = Idle]),
           r = Resume(p, k.compaction.waiter)
    PROVE  r \in Closure /\ Rests(k, r) /\ Armed(r) /\ Tuned(r)
<1> DEFINE freed == [k EXCEPT !.compaction = Idle]
<1>1. freed \in Closure
  BY DEF Closure
<1>2. Changes(k, freed, {"compaction"}) /\ freed.compaction = Idle
  BY <1>1, Domain DEF Changes, Fields
<1> HIDE DEF freed
<1>3. Rests(k, freed) /\ Armed(freed) /\ Tuned(freed)
  <2>1. Rests(k, freed)
    BY <1>2 DEF Changes, Fields, Rests
  <2> QED
    BY <1>2, <2>1, Untouched DEF ArmedFields, TunedFields
<1>4. p \in Closure /\ Rests(k, p) /\ Armed(p) /\ Tuned(p)
  <2>1. CASE p = freed
    BY <1>1, <1>3, <2>1
  <2>2. CASE p = [freed EXCEPT !.pending = 0]
    <3>1. p \in Closure
      <4>1. 0 \in 0..MaxPending
        BY Bounds
      <4> QED
        BY <1>1, <2>2, <4>1 DEF Closure
    <3>2. Changes(freed, p, {"pending"})
      BY <1>1, <2>2, <3>1, Domain DEF Changes, Fields
    <3>3. Rests(k, p)
      BY <1>3, <3>2, ControlRests, RestsAdd DEF Control
    <3> QED
      BY <1>3, <3>1, <3>2, <3>3, Untouched DEF ArmedFields, TunedFields
  <2>3. CASE p = Fatal(freed)
    BY <1>1, <1>3, <2>3, FatalKeeps, RestsAdd
  <2> QED
    BY <2>1, <2>2, <2>3 DEF freed
<1>5. k.compaction.waiter \in {Frame, Nobody} \cup Slots
  BY Numbers DEF CompactTask
<1>6. /\ Changes(p, r, {"handler", "flushTimer", "flushing", "flushes"})
      /\ Rests(p, r) /\ Armed(r)
  BY <1>4, <1>5, ResumeDoes
<1>7. Tuned(r)
  BY <1>4, <1>6, Untouched DEF TunedFields
<1> QED
  BY <1>4, <1>6, <1>7, RestsAdd DEF Changes

\* A compaction on its way may be stored.
LEMMA StoredGrows ==
    ASSUME IInv, NEW c \in Clients, client[c].compaction # Idle, log' = log,
           Compact(client[c].compaction.covers, client[c].compaction.content)
    PROVE  ServerGrows
<1> DEFINE t == client[c].compaction
<1>1. /\ client[c] \in Closure /\ Sound(client[c], World) /\ KnownTo(client[c], World)
  BY Now
<1>2. t \in CompactTask
  BY <1>1, Numbers
<1>3. /\ t.covers \in Seqs /\ t.content \in SUBSET Edits
      /\ t.content \subseteq Known /\ Holds(t.content, t.covers, World)
  BY <1>1, <1>2, WorldFields DEF CompactTask, Sound, KnownTo
<1> QED
  BY <1>3, CompactGrows

\* The compaction is answered.
LEMMA CompactDoneKeeps ==
    ASSUME IInv, NEW c \in Clients, CompactDone(c)
    PROVE  IInv'
<1> DEFINE k == client[c]
           t == k.compaction
           freed == [k EXCEPT !.compaction = Idle]
<1>1. t # Idle /\ UNCHANGED <<log, netVars, faults>>
  BY DEF CompactDone
<1>2. PICK p : /\ \/ p = freed
                  \/ p = [freed EXCEPT !.pending = 0]
                  \/ p = Fatal(freed)
               /\ Becomes(c, Resume(p, t.waiter))
               /\ Compact(t.covers, t.content) \/ UNCHANGED serialVars
  BY DEF CompactDone
<1>3. k \in Closure /\ Armed(k) /\ Tuned(k)
  BY Now
<1>4. ServerGrows
  <2>1. CASE Compact(t.covers, t.content)
    BY <1>1, <2>1, StoredGrows
  <2>2. CASE UNCHANGED serialVars
    BY <1>1, <2>2, ServerRests DEF serialVars, serverVars
  <2> QED
    BY <1>2, <2>1, <2>2
<1> DEFINE r == Resume(p, t.waiter)
<1>5. r \in Closure /\ Rests(k, r) /\ Armed(r) /\ Tuned(r)
  BY <1>1, <1>2, <1>3, FreedKeeps
<1>6. UNCHANGED netVars /\ faults' \in 0..MaxFaults
  BY <1>1, FaultType
<1> HIDE DEF r
<1> QED
  BY <1>2, <1>4, <1>5, <1>6, RestStep DEF r

\* The compaction fails, stored or not.
LEMMA CompactFailsKeeps ==
    ASSUME IInv, NEW c \in Clients, CompactFails(c)
    PROVE  IInv'
<1> DEFINE k == client[c]
           t == k.compaction
           freed == [k EXCEPT !.compaction = Idle]
           r == Resume(freed, t.waiter)
<1>1. /\ t # Idle /\ UNCHANGED <<log, netVars>> /\ Fault /\ Becomes(c, r)
      /\ Compact(t.covers, t.content) \/ UNCHANGED serialVars
  BY DEF CompactFails
<1>3. k \in Closure /\ Armed(k) /\ Tuned(k)
  BY Now
<1>4. ServerGrows
  <2>1. CASE Compact(t.covers, t.content)
    BY <1>1, <2>1, StoredGrows
  <2>2. CASE UNCHANGED serialVars
    BY <1>1, <2>2, ServerRests DEF serialVars, serverVars
  <2> QED
    BY <1>1, <2>1, <2>2
<1>5. r \in Closure /\ Rests(k, r) /\ Armed(r) /\ Tuned(r)
  BY <1>1, <1>3, FreedKeeps
<1>6. UNCHANGED netVars /\ faults' \in 0..MaxFaults
  BY <1>1, FaultType
<1> HIDE DEF r
<1> QED
  BY <1>1, <1>4, <1>5, <1>6, RestStep

-----------------------------------------------------------------------------
(* Typing and flushing *)

\* The flush timer is armed, and so is the client.
LEMMA ScheduleFlushKeeps ==
    ASSUME NEW k \in Closure, NEW r, r = ScheduleFlush(k)
    PROVE  /\ r \in Closure /\ Changes(k, r, {"flushTimer"}) /\ Rests(k, r)
           /\ ~k.flushing \/ Armed(k) => Armed(r)
           /\ Tuned(k) => Tuned(r)
<1>1. Changes(k, r, {"flushTimer"}) /\ (k.stopped \/ k.halted \/ r.flushTimer)
  BY ScheduleFlushDoes
<1>2. Rests(k, r)
  BY <1>1, ControlRests DEF Control
<1>3. /\ r.stopped = k.stopped /\ r.halted = k.halted /\ r.flushes = k.flushes
      /\ r.wsFlush = k.wsFlush /\ r.flushing = k.flushing
  BY <1>1 DEF Changes, Fields
<1>4. ~k.flushing \/ Armed(k) => Armed(r)
  BY <1>1, <1>3, SameOverlap DEF Armed
<1>5. Tuned(k) => Tuned(r)
  BY <1>1, Untouched DEF TunedFields
<1>6. r \in Closure
  BY <1>1 DEF Changes
<1> QED
  BY <1>1, <1>2, <1>4, <1>5, <1>6

\* A flush ends; what is left is due.
LEMMA FinishFlushKeeps ==
    ASSUME NEW k \in Closure, NEW i \in Slots, NEW r, r = FinishFlush(k, i)
    PROVE  /\ r \in Closure /\ Rests(k, r) /\ Armed(r)
           /\ Tuned(k) => Tuned(r)
<1>1. /\ Changes(k, r, {"flushing", "flushes", "flushTimer"})
      /\ ~r.flushing
      /\ r.outbox = <<>> \/ r.stopped \/ r.halted \/ r.flushTimer
  BY FinishFlushDoes
<1>2. Rests(k, r)
  BY FinishFlushRests
<1>3. Tuned(k) => Tuned(r)
  BY <1>1, Untouched DEF TunedFields
<1>4. r \in Closure /\ Armed(r)
  BY <1>1 DEF Changes, Armed
<1> QED
  BY <1>2, <1>3, <1>4

\* The user types: the edit is in the document and the outbox.
LEMMA TypeKeeps ==
    ASSUME IInv, NEW c \in Clients, NEW e \in Edits, Type(c, e)
    PROVE  IInv'
<1> DEFINE k == client[c]
           q == [k EXCEPT !.doc = @ \cup {e}, !.outbox = Append(@, e)]
           r == ScheduleFlush(q)
<1>1. Becomes(c, r) /\ UNCHANGED <<serverVars, netVars, faults>> /\ Author[e] = c
  BY DEF Type, QueueLocal
<1>2. k \in Closure /\ Armed(k) /\ Tuned(k)
  BY Now
<1>3. k.outbox \in Seq(Edits) /\ Append(k.outbox, e) \in Seq(Edits) /\ k.doc \cup {e} \subseteq Edits
  BY <1>2 DEF Closure
<1> HIDE DEF k
<1>4. q \in Closure
  BY <1>2, <1>3 DEF Closure
<1>5. /\ Changes(k, q, {"doc", "outbox"})
      /\ q.doc = k.doc \cup {e} /\ q.outbox = Append(k.outbox, e)
  BY <1>2, <1>4, Domain DEF Changes, Fields
<1> HIDE DEF q
<1>6. /\ Changes(q, r, {"flushTimer"}) /\ Rests(q, r) /\ r \in Closure
      /\ q.stopped \/ q.halted \/ r.flushTimer
  BY <1>4, ScheduleFlushKeeps, ScheduleFlushDoes
<1> HIDE DEF r
<1>7. Changes(k, r, {"doc", "outbox", "flushTimer"}) /\ r.doc = q.doc /\ r.outbox = q.outbox
  <2>1. Changes(k, r, {"doc", "outbox"} \cup {"flushTimer"})
    BY <1>5, <1>6, ChangesAdd
  <2> QED
    BY <1>6, <2>1 DEF Changes, Fields
<1>8. Known \subseteq Known' /\ e \in Known'
  <2>1. Known \subseteq Known'
    BY <1>1, <1>5, <1>7, KnownGrows DEF k
  <2>2. client'[c] = r
    BY <1>1 DEF Becomes, IInv, TypeOK
  <2> QED
    BY <1>1, <1>5, <1>7, <2>1, <2>2 DEF Known
<1>9. /\ Sound(k, World') /\ KnownTo(k, World') /\ TxnOK(c, k, World')
      /\ overlap \/ OutboxOK(c, k, World')
  BY <1>1, <1>8, Before, ServerRests DEF ClientOK, k, netVars
<1>10. /\ q.poll = k.poll /\ q.handler = k.handler /\ q.compaction = k.compaction
       /\ q.inbox = k.inbox /\ q.flushes = k.flushes /\ q.wsFlush = k.wsFlush /\ q.txn = k.txn
       /\ q.cursor = k.cursor
  BY <1>5 DEF Changes, Fields
<1>11. Range(q.outbox) = Range(k.outbox) \cup {e}
  <2>1. /\ Len(q.outbox) = Len(k.outbox) + 1 /\ Len(k.outbox) \in Nat
        /\ q.outbox[Len(k.outbox) + 1] = e
        /\ \A i \in 1 .. Len(k.outbox) : q.outbox[i] = k.outbox[i]
        /\ DOMAIN q.outbox = 1 .. Len(k.outbox) + 1 /\ DOMAIN k.outbox = 1 .. Len(k.outbox)
    BY <1>3, <1>5
  <2> QED
    BY <2>1 DEF Range
<1>12. Sound(q, World')
  <2>1. k.doc \subseteq q.doc
    BY <1>5
  <2>2. \A n \in DOMAIN q.inbox : FrameSound(q.inbox[n], q.doc, World')
    BY <1>9, <1>10, <2>1, HoldsMore DEF Sound, FrameSound
  <2>3. Holds(q.doc, q.cursor, World')
    BY <1>9, <1>10, <2>1, HoldsMore DEF Sound
  <2>4. q.poll # Idle /\ q.poll.found => Holds(q.doc \cup q.poll.edits, q.poll.seq, World')
    <3>1. k.doc \cup k.poll.edits \subseteq q.doc \cup q.poll.edits
      BY <1>10, <2>1
    <3> QED
      BY <1>9, <1>10, <3>1, HoldsMore DEF Sound
  <2>5. /\ q.handler.st = "reply" /\ q.handler.found =>
               Holds(q.doc \cup q.handler.edits, q.handler.seq, World')
        /\ q.handler.st = "apply" => Holds(q.doc \cup q.handler.edits, q.handler.seq, World')
    <3>1. k.doc \cup k.handler.edits \subseteq q.doc \cup q.handler.edits
      BY <1>10, <2>1
    <3> QED
      BY <1>9, <1>10, <3>1, HoldsMore DEF Sound
  <2>6. /\ q.compaction # Idle => Holds(q.compaction.content, q.compaction.covers, World')
        /\ Range(q.outbox) \subseteq q.doc
        /\ \A i \in Slots : q.flushes[i].st \in {"encrypt", "sent"} =>
               q.flushes[i].edits \subseteq q.doc
    BY <1>5, <1>9, <1>10, <1>11, <2>1 DEF Sound
  <2> QED
    BY <2>2, <2>3, <2>4, <2>5, <2>6 DEF Sound
<1>13. KnownTo(q, World')
  BY <1>5, <1>8, <1>9, <1>10, NextWorld DEF KnownTo
<1>14. TxnOK(c, q, World')
  BY <1>9, <1>10 DEF TxnOK
<1>15. overlap \/ OutboxOK(c, q, World')
  <2>1. SUFFICES ASSUME OutboxOK(c, k, World')
                 PROVE  OutboxOK(c, q, World')
    BY <1>9
  <2>2. Len(k.outbox) \in Nat /\ Len(q.outbox) = Len(k.outbox) + 1
        /\ \A i \in 1 .. Len(k.outbox) : q.outbox[i] = k.outbox[i]
    BY <1>3, <1>5
  <2>3. ASSUME NEW n \in Nat, n <= Len(k.outbox)
        PROVE  n <= Len(q.outbox) /\ First(q.outbox, n) = First(k.outbox, n)
    BY <2>2, <2>3 DEF First
  <2>4. ASSUME NEW i \in Slots
        PROVE  FlushOK(q.flushes[i], q.outbox, World')
    <3>1. k.flushes[i] \in FlushTask
      BY <1>2 DEF Closure
    <3>2. k.flushes[i].st \in {"encrypt", "sent", "ok"} => k.flushes[i].count \in Nat
      BY <3>1, Domain DEF FlushTask
    <3> QED
      BY <1>10, <2>1, <2>3, <3>2 DEF OutboxOK, FlushOK
  <2>5. k.wsFlush.count \in Nat
    BY <1>2 DEF Closure
  <2>6. q.wsFlush # NoFlush =>
            /\ q.wsFlush.count <= Len(q.outbox)
            /\ First(q.outbox, q.wsFlush.count) = First(k.outbox, k.wsFlush.count)
    BY <1>10, <2>1, <2>3, <2>5 DEF OutboxOK
  <2>7. ~Overlapping(q)
    BY <1>10, <2>1, SameOverlap DEF OutboxOK
  <2> QED
    BY <1>5, <1>10, <1>11, <2>1, <2>4, <2>6, <2>7 DEF OutboxOK
<1>16. Sound(r, World') /\ KnownTo(r, World') /\ TxnOK(c, r, World')
  BY <1>4, <1>6, <1>12, <1>13, <1>14, RestsKeeps
<1>17. overlap' \/ OutboxOK(c, r, World')
  BY <1>1, <1>4, <1>6, <1>15, RestsKeeps DEF Becomes
<1>18. Armed(r) /\ Tuned(r)
  <2>1. /\ r.stopped = q.stopped /\ r.halted = q.halted /\ r.flushes = k.flushes
        /\ r.wsFlush = k.wsFlush /\ r.flushing = k.flushing
    BY <1>6, <1>7 DEF Changes, Fields
  <2> QED
    BY <1>2, <1>6, <1>7, <2>1, SameOverlap, Untouched DEF Armed, TunedFields
<1> QED
  BY <1>1, <1>5, <1>6, <1>7, <1>16, <1>17, <1>18, QuietStep, ServerRests, FaultType
     DEF ClientOK, k

\* Only timers and flags have moved, none of them one that decides an overlap.
LEMMA SameRests ==
    ASSUME NEW c, NEW w, NEW k \in Closure, NEW r \in Closure, Rests(k, r),
           r.flushes = k.flushes, r.wsFlush = k.wsFlush, OutboxOK(c, k, w)
    PROVE  OutboxOK(c, r, w)
BY SameOverlap, RestsKeeps DEF OutboxOK

\* A flush begins with the whole outbox.
LEMMA FlushKeeps ==
    ASSUME NEW c, NEW w, NEW k \in Closure, NEW b \in BOOLEAN, NEW r, r = Flush(k, b), FlushFits(k),
           Sound(k, w), KnownTo(k, w), TxnOK(c, k, w),
           k.flushing => Unanswered(k) # {} \/ k.wsFlush # NoFlush
    PROVE  /\ r \in Closure /\ r.doc = k.doc
           /\ Sound(r, w) /\ KnownTo(r, w) /\ TxnOK(c, r, w) /\ Armed(r)
           /\ Tuned(k) => Tuned(r)
           /\ OutboxOK(c, k, w) /\ ~Overlapping(r) => OutboxOK(c, r, w)
<1>1. CASE ~MayFlush(k) /\ r = k
  <2>1. Unanswered(k) \subseteq Live(k)
    BY Domain DEF Unanswered, Live
  <2> QED
    BY <1>1, <2>1 DEF MayFlush, Armed
<1>2. CASE MayFlush(k) /\ r # k
  <2>1. Changes(k, r, {"flushing", "flushes"})
    BY FlushDoes
  <2>2. PICK i \in Slots, st \in {"encrypt", "sent"} :
            /\ k.flushes[i] = Idle
            /\ r.flushes[i] = Merged(k, st)
            /\ \A j \in Slots \ {i} : r.flushes[j] = k.flushes[j]
    BY <1>2, FlushDoes
  <2>3. k.flushes \in [Slots -> FlushTask] /\ Len(k.outbox) \in Nat /\ k.outbox \in Seq(Edits)
    BY DEF Closure
  <2>4. /\ r.flushes[i].st = st /\ r.flushes[i].count = Len(k.outbox)
        /\ r.flushes[i].edits = Range(k.outbox)
        /\ \A j \in Slots \ {i} : r.flushes[j] = k.flushes[j]
    BY <2>2 DEF Merged
  <2>5. /\ r \in Closure /\ r.doc = k.doc /\ r.cursor = k.cursor /\ r.outbox = k.outbox
        /\ r.poll = k.poll /\ r.handler = k.handler /\ r.compaction = k.compaction
        /\ r.inbox = k.inbox /\ r.wsFlush = k.wsFlush /\ r.txn = k.txn
    BY <2>1 DEF Changes, Fields
  <2>6. Sound(r, w)
    <3>1. \A j \in Slots : r.flushes[j].st \in {"encrypt", "sent"} =>
              r.flushes[j].edits \subseteq r.doc
      <4> TAKE j \in Slots
      <4>1. CASE j = i
        BY <2>4, <2>5, <4>1 DEF Sound
      <4>2. CASE j # i
        BY <2>4, <2>5, <4>2 DEF Sound
      <4> QED
        BY <4>1, <4>2
    <3> QED
      BY <2>5, <3>1 DEF Sound
  <2>7. KnownTo(r, w) /\ TxnOK(c, r, w)
    BY <2>5 DEF KnownTo, TxnOK
  <2>8. Armed(r)
    <3>1. i \in Live(r) /\ i \in Unanswered(r)
      BY <2>4, Domain DEF Live, Unanswered
    <3> QED
      BY <3>1 DEF Armed
  <2>9. Tuned(k) => Tuned(r)
    BY <2>1, Untouched DEF TunedFields
  <2>10. ASSUME OutboxOK(c, k, w), ~Overlapping(r)
         PROVE  OutboxOK(c, r, w)
    <3>1. First(r.outbox, Len(k.outbox)) = Range(k.outbox)
      BY <2>3, <2>5 DEF First, Range
    <3>2. FlushOK(r.flushes[i], r.outbox, w)
      BY <2>3, <2>4, <2>5, <3>1 DEF FlushOK
    <3>3. \A j \in Slots : FlushOK(r.flushes[j], r.outbox, w)
      BY <2>4, <2>5, <2>10, <3>2 DEF OutboxOK
    <3> QED
      BY <2>5, <2>10, <3>3 DEF OutboxOK
  <2> QED
    BY <2>5, <2>6, <2>7, <2>8, <2>9, <2>10
<1>3. CASE MayFlush(k) /\ r = k
  <2>1. r.flushing /\ ~k.flushing
    BY <1>3, FlushDoes DEF MayFlush
  <2> QED
    BY <1>3, <2>1
<1> QED
  BY <1>1, <1>2, <1>3, FlushDoes

\* The flush timer, or a tab that is hidden, starts a flush.
LEMMA FlushStarts ==
    ASSUME IInv, NEW c \in Clients, NEW b \in BOOLEAN,
           FlushFits([client[c] EXCEPT !.flushTimer = FALSE]),
           Becomes(c, Flush([client[c] EXCEPT !.flushTimer = FALSE], b)),
           UNCHANGED <<serverVars, netVars, faults>>
    PROVE  IInv'
<1> DEFINE k == client[c]
           p == [k EXCEPT !.flushTimer = FALSE]
           r == Flush(p, b)
<1>1. Becomes(c, r) /\ FlushFits(p)
  OBVIOUS
<1>2. /\ k \in Closure /\ Armed(k) /\ Tuned(k) /\ Sound(k, World) /\ KnownTo(k, World)
      /\ TxnOK(c, k, World) /\ (overlap \/ OutboxOK(c, k, World))
  BY Now
<1> HIDE DEF k
<1>3. p \in Closure
  BY <1>2 DEF Closure
<1>4. Changes(k, p, {"flushTimer"})
  BY <1>2, <1>3, Domain DEF Changes, Fields
<1> HIDE DEF p
<1>5. /\ p.flushes = k.flushes /\ p.wsFlush = k.wsFlush /\ p.flushing = k.flushing
      /\ p.doc = k.doc
  BY <1>4 DEF Changes, Fields
<1>6. Rests(k, p)
  BY <1>4, ControlRests DEF Control
<1>7. /\ Sound(p, World) /\ KnownTo(p, World) /\ TxnOK(c, p, World)
      /\ p.flushing => Unanswered(p) # {} \/ p.wsFlush # NoFlush
  BY <1>2, <1>3, <1>5, <1>6, RestsKeeps, SameOverlap DEF Armed
<1>8. Tuned(p) /\ (overlap \/ OutboxOK(c, p, World))
  BY <1>2, <1>3, <1>4, <1>5, <1>6, SameRests, Untouched DEF TunedFields
<1>9. /\ r \in Closure /\ r.doc = p.doc
      /\ Sound(r, World) /\ KnownTo(r, World) /\ TxnOK(c, r, World) /\ Armed(r) /\ Tuned(r)
      /\ OutboxOK(c, p, World) /\ ~Overlapping(r) => OutboxOK(c, r, World)
  BY <1>1, <1>3, <1>7, <1>8, FlushKeeps
<1> HIDE DEF r
<1> QED
  BY <1>1, <1>5, <1>8, <1>9, LocalStep DEF ClientOK, k, Becomes

\* The flush timer fires.
LEMMA FlushTimerFiresKeeps ==
    ASSUME IInv, NEW c \in Clients, FlushTimerFires(c)
    PROVE  IInv'
BY FlushStarts DEF FlushTimerFires

\* A tab is hidden.
LEMMA HideKeeps ==
    ASSUME IInv, NEW c \in Clients, Hide(c)
    PROVE  IInv'
<1> DEFINE p == [client[c] EXCEPT !.flushTimer = FALSE]
<1>1. (~WsIsOpen(p)) \in BOOLEAN
  BY DEF WsIsOpen
<1> QED
  BY <1>1, FlushStarts DEF Hide

\* A tab is shown.
LEMMA ShowKeeps ==
    ASSUME IInv, NEW c \in Clients, Show(c)
    PROVE  IInv'
<1> DEFINE k == client[c]
           p == SchedulePoll(k)
           q == [p EXCEPT !.reconnectTimer = FALSE]
           r == ConnectWs(c, q)
<1>1. /\ Becomes(c, r) /\ UNCHANGED <<serverVars, netVars, faults>>
      /\ ~k.stopped /\ k.ws # "open"
  BY DEF Show, WsIsOpen
<1>2. k \in Closure /\ Armed(k) /\ Tuned(k)
  BY Now
<1> HIDE DEF k
<1>3. Changes(k, p, {"pollTimer"}) /\ p.pollTimer
  BY <1>1, <1>2, SchedulePollDoes
<1> HIDE DEF p
<1>4. q \in Closure
  BY <1>3 DEF Changes, Closure
<1>5. Changes(p, q, {"reconnectTimer"})
  BY <1>3, <1>4, Domain DEF Changes, Fields
<1> HIDE DEF q
<1>6. Changes(q, r, {"ws"})
  BY <1>4, ConnectWsDoes
<1> HIDE DEF r
<1>7. Changes(k, r, ({"pollTimer"} \cup {"reconnectTimer"}) \cup {"ws"})
  BY <1>3, <1>5, <1>6, ChangesAdd
<1>8. Rests(k, r)
  BY <1>7, ControlRests DEF Control
<1>9. Armed(r)
  BY <1>2, <1>7, Untouched DEF ArmedFields
<1>10. r \in Closure /\ r.pollTimer
  BY <1>3, <1>5, <1>6 DEF Changes, Fields
<1> QED
  BY <1>1, <1>8, <1>9, <1>10, RestStep, ServerRests, FaultType DEF k, Tuned

\* A slot that changes, and the answer it may hold.
Slotted(k, i, t) == [k EXCEPT !.flushes[i] = t]
Outcome(s, count, pending) == [st |-> s, count |-> count, pending |-> pending]

\* Nothing else does.
LEMMA SlotDoes ==
    ASSUME NEW k \in Closure, NEW i \in Slots, NEW t \in FlushTask,
           NEW r, r = Slotted(k, i, t)
    PROVE  /\ Changes(k, r, {"flushes"})
           /\ r.flushes[i] = t /\ \A j \in Slots \ {i} : r.flushes[j] = k.flushes[j]
<1>1. r = [k EXCEPT !.flushes = [k.flushes EXCEPT ![i] = t]]
  BY DEF Slotted
<1>2. [k.flushes EXCEPT ![i] = t] \in [Slots -> FlushTask]
  BY DEF Closure
<1>3. r \in Closure
  BY <1>1, <1>2 DEF Closure
<1>4. Changes(k, r, {"flushes"}) /\ r.flushes = [k.flushes EXCEPT ![i] = t]
  BY <1>1, <1>3, Domain DEF Changes, Fields
<1> QED
  BY <1>4 DEF Closure

\* A flush that has been answered is not settled yet.
LEMMA AnswerKeeps ==
    ASSUME NEW k \in Closure, NEW i \in Slots, k.flushes[i].st \in {"sent", "ok"},
           NEW s \in {"ok", "full", "bad", "gone", "err"}, NEW p \in 0..MaxPending, NEW r,
           r = Slotted(k, i, Outcome(s, k.flushes[i].count, p))
    PROVE  /\ Changes(k, r, {"flushes"})
           /\ r.flushes[i] = Outcome(s, k.flushes[i].count, p)
           /\ \A j \in Slots \ {i} : r.flushes[j] = k.flushes[j]
           /\ Armed(k) => Armed(r)
           /\ Tuned(k) => Tuned(r)
           /\ s # "ok" => Rests(k, r)
<1> DEFINE t == Outcome(s, k.flushes[i].count, p)
<1>1. t \in FlushTask /\ t.st = s
  <2>1. k.flushes[i] \in FlushTask
    BY DEF Closure
  <2>2. k.flushes[i].count \in Nat
    BY <2>1, Domain DEF FlushTask
  <2> QED
    BY <2>2 DEF FlushTask, Outcome
<1> HIDE DEF t
<1>2. /\ Changes(k, r, {"flushes"})
      /\ r.flushes[i] = t /\ \A j \in Slots \ {i} : r.flushes[j] = k.flushes[j]
  BY <1>1, SlotDoes DEF t
<1>3. i \in Live(r) /\ i \in Unanswered(r)
  BY <1>1, <1>2, Domain DEF Live, Unanswered
<1>4. Armed(r)
  BY <1>3 DEF Armed
<1>5. Tuned(k) => Tuned(r)
  BY <1>2, Untouched DEF TunedFields
<1>6. ASSUME s # "ok"
      PROVE  Rests(k, r)
  <2>1. \A f \in {"doc", "cursor", "outbox", "txn", "poll", "handler", "compaction", "inbox",
                  "wsFlush"} : r[f] = k[f]
    BY <1>2 DEF Changes, Fields
  <2>2. \A j \in Slots : \/ r.flushes[j] = k.flushes[j]
                         \/ r.flushes[j].st \notin {"encrypt", "sent", "ok"}
    BY <1>1, <1>2, <1>6
  <2> QED
    BY <2>1, <2>2 DEF Rests
<1> QED
  BY <1>2, <1>4, <1>5, <1>6 DEF t

\* A POST is lost, or its answer is.
LEMMA FlushFailsKeeps ==
    ASSUME IInv, NEW c \in Clients, NEW i \in Slots, FlushFails(c, i)
    PROVE  IInv'
<1> DEFINE k == client[c]
           r == [k EXCEPT !.flushes[i] = [st |-> "err", count |-> k.flushes[i].count,
                                          pending |-> 0]]
<1>1. /\ Becomes(c, r) /\ UNCHANGED <<serverVars, netVars>> /\ Fault
      /\ k.flushes[i].st \in {"sent", "ok"}
  BY DEF FlushFails
<1>2. k \in Closure /\ Armed(k) /\ Tuned(k)
  BY Now
<1> HIDE DEF k
<1>3. r \in Closure /\ Rests(k, r) /\ Armed(r) /\ Tuned(r)
  <2>1. 0 \in 0..MaxPending
    BY Bounds
  <2>3. r = Slotted(k, i, Outcome("err", k.flushes[i].count, 0))
    BY DEF Slotted, Outcome
  <2> HIDE DEF r
  <2>2. Changes(k, r, {"flushes"}) /\ Rests(k, r) /\ Armed(r) /\ Tuned(r)
    BY <1>1, <1>2, <2>1, <2>3, AnswerKeeps
  <2> QED
    BY <2>2 DEF Changes
<1> HIDE DEF r
<1> QED
  BY <1>1, <1>3, RestStep, ServerRests, FaultType DEF k

\* A POST is served: the row is there, or the flush has nothing to take out.
LEMMA ServeFlushKeeps ==
    ASSUME IInv, NEW c \in Clients, NEW i \in Slots, ServeFlush(c, i)
    PROVE  IInv'
<1> DEFINE k == client[c]
           t == k.flushes[i]
           r(s, p) == [k EXCEPT !.flushes[i] = [st |-> s, count |-> t.count, pending |-> p]]
<1>1. /\ t.st = "sent" /\ UNCHANGED <<netVars, faults>>
      /\ \/ Accept(t.edits) /\ Becomes(c, r("ok", Cardinality(rows) + 1))
         \/ \E s \in {"gone", "full", "bad"} : Becomes(c, r(s, 0)) /\ UNCHANGED serverVars
  BY DEF ServeFlush
<1>2. /\ k \in Closure /\ Armed(k) /\ Tuned(k) /\ Sound(k, World) /\ KnownTo(k, World)
      /\ (overlap \/ OutboxOK(c, k, World))
  BY Now
<1>3. t.edits \in SUBSET Edits /\ t.edits \subseteq Known /\ t.edits \subseteq k.doc
  <2>1. t \in FlushTask
    BY <1>2 DEF Closure
  <2>2. t.edits \subseteq k.doc
    BY <1>1, <1>2 DEF Sound
  <2> QED
    BY <1>2, <2>2, WorldFields DEF KnownTo, Closure
<1>4. faults' \in 0..MaxFaults /\ UNCHANGED netVars
  BY <1>1, FaultType
<1>5. CASE \E s \in {"gone", "full", "bad"} : Becomes(c, r(s, 0)) /\ UNCHANGED serverVars
  <2>1. PICK s \in {"gone", "full", "bad"} : Becomes(c, r(s, 0)) /\ UNCHANGED serverVars
    BY <1>5
  <2>2. 0 \in 0..MaxPending
    BY Bounds
  <2> DEFINE q == r(s, 0)
  <2>4. /\ Becomes(c, q)
        /\ q = Slotted(k, i, Outcome(s, k.flushes[i].count, 0))
    BY <2>1 DEF Slotted, Outcome
  <2> HIDE DEF q, k
  <2>3. Changes(k, q, {"flushes"}) /\ Rests(k, q) /\ Armed(q) /\ Tuned(q)
    BY <1>1, <1>2, <2>2, <2>4, AnswerKeeps
  <2>5. q \in Closure
    BY <2>3 DEF Changes
  <2>6. ServerGrows
    BY <1>1, <2>1, ServerRests DEF serialVars, serverVars
  <2> QED
    BY <1>4, <2>1, <2>3, <2>4, RestStep, <2>5, <2>6 DEF k
<1>6. CASE Accept(t.edits) /\ Becomes(c, r("ok", Cardinality(rows) + 1))
  <2> DEFINE p == Cardinality(rows) + 1
             q == r("ok", p)
  <2>1. ServerGrows /\ p \in 0..MaxPending /\ t.edits \subseteq EditsOf(log')
    BY <1>3, <1>6, AcceptGrows
  <2>3. /\ Becomes(c, q)
        /\ q = Slotted(k, i, Outcome("ok", k.flushes[i].count, p))
    BY <1>6 DEF Slotted, Outcome
  <2> HIDE DEF p, q, k
  <2>2. /\ Changes(k, q, {"flushes"})
        /\ q.flushes[i] = Outcome("ok", t.count, p)
        /\ \A j \in Slots \ {i} : q.flushes[j] = k.flushes[j]
        /\ Armed(q) /\ Tuned(q)
    BY <1>1, <1>2, <2>1, <2>3, AnswerKeeps
  <2>4. /\ q \in Closure /\ q.doc = k.doc /\ q.cursor = k.cursor /\ q.outbox = k.outbox
        /\ q.poll = k.poll /\ q.handler = k.handler /\ q.compaction = k.compaction
        /\ q.inbox = k.inbox /\ q.wsFlush = k.wsFlush /\ q.txn = k.txn
    BY <2>2 DEF Changes, Fields
  <2>5. Known \subseteq Known' /\ uplink' = uplink
    BY <1>1, <2>3, <2>4, KnownGrows DEF netVars, k
  <2>6. /\ ClientOK(c, k, World') /\ (overlap \/ OutboxOK(c, k, World'))
    BY <2>1, <2>5, Before DEF k
  <2>7. Sound(q, World')
    <3>1. \A j \in Slots : q.flushes[j].st \in {"encrypt", "sent"} =>
              q.flushes[j].edits \subseteq q.doc
      <4>1. q.flushes[i].st = "ok"
        BY <2>2 DEF Outcome
      <4> QED
        BY <2>2, <2>4, <2>6, <4>1 DEF ClientOK, Sound
    <3> QED
      BY <2>4, <2>6, <3>1 DEF ClientOK, Sound
  <2>8. KnownTo(q, World') /\ TxnOK(c, q, World')
    BY <2>4, <2>6 DEF ClientOK, KnownTo, TxnOK
  <2>9. ASSUME OutboxOK(c, k, World'), ~Overlapping(q)
        PROVE  OutboxOK(c, q, World')
    <3>1. FlushOK(t, k.outbox, World')
      BY <2>9 DEF OutboxOK
    <3>2. FlushOK(q.flushes[i], q.outbox, World')
      BY <1>1, <2>1, <2>2, <2>4, <3>1, NextWorld DEF FlushOK, Outcome
    <3>3. \A j \in Slots : FlushOK(q.flushes[j], q.outbox, World')
      BY <2>2, <2>4, <2>9, <3>2 DEF OutboxOK
    <3> QED
      BY <2>4, <2>9, <3>3 DEF OutboxOK
  <2> QED
    BY <1>4, <2>1, <2>2, <2>3, <2>4, <2>6, <2>7, <2>8, <2>9, QuietStep DEF ClientOK, Becomes, k
<1> QED
  BY <1>1, <1>5, <1>6

\* A client that does not overlap itself has one flush unanswered, or a wait for an ack.
LEMMA Alone ==
    ASSUME NEW k \in Closure, ~Overlapping(k), NEW i \in Unanswered(k)
    PROVE  Unanswered(k) = {i} /\ k.wsFlush = NoFlush
<1>1. k.wsFlush = NoFlush /\ ~(Cardinality(Unanswered(k)) > 1)
  BY DEF Overlapping
<1>2. IsFiniteSet(Unanswered(k)) /\ Cardinality(Unanswered(k)) \in Nat
  <2>1. IsFiniteSet(Slots)
    BY Bounds, FS_Interval DEF Slots
  <2>2. Unanswered(k) \subseteq Slots
    BY DEF Unanswered
  <2> QED
    BY <2>1, <2>2, FS_Subset, FS_CardinalityType
<1>3. ASSUME NEW j \in Unanswered(k), j # i
      PROVE  FALSE
  <2>1. {i} \cup {j} \subseteq Unanswered(k)
    OBVIOUS
  <2>2. IsFiniteSet({i}) /\ Cardinality({i}) = 1
    BY FS_Singleton
  <2>3. Cardinality({i} \cup {j}) = 2
    BY <1>3, <2>2, FS_AddElement
  <2>4. Cardinality({i} \cup {j}) <= Cardinality(Unanswered(k))
    BY <1>2, <2>1, FS_Subset
  <2> QED
    BY <1>1, <1>2, <2>3, <2>4
<1> QED
  BY <1>1, <1>3

\* A refused flush waits for the compaction that makes room, or is over.
LEMMA AwaitCompactKeeps ==
    ASSUME NEW k \in Closure, NEW i \in Slots, Tuned(k), NEW r, r = AwaitCompact(k, i)
    PROVE  r \in Closure /\ Rests(k, r) /\ Armed(r) /\ Tuned(r)
<1> DEFINE p == [k EXCEPT !.flushing = FALSE]
           t == [st |-> "compacting", count |-> 0, edits |-> {}]
           q == Slotted(p, i, t)
<1>1. r = IF MayCompact(k) THEN StartCompact(q, i) ELSE FinishFlush(ScheduleFlush(p), i)
  BY DEF AwaitCompact, Slotted
<1>2. p \in Closure
  BY DEF Closure
<1>3. Changes(k, p, {"flushing"}) /\ ~p.flushing
  BY <1>2, Domain DEF Changes, Fields
<1>4. t \in FlushTask /\ t.st = "compacting"
  BY DEF FlushTask
<1> HIDE DEF p, t
<1>5. Rests(k, p) /\ Tuned(p)
  BY <1>3, ControlRests, Untouched DEF Control, TunedFields
<1>6. CASE MayCompact(k)
  <2>1. Changes(p, q, {"flushes"}) /\ q.flushes[i] = t
        /\ \A j \in Slots \ {i} : q.flushes[j] = p.flushes[j]
    BY <1>2, <1>4, SlotDoes
  <2> HIDE DEF q
  <2>2. /\ q.doc = p.doc /\ q.cursor = p.cursor /\ q.outbox = p.outbox /\ q.txn = p.txn
        /\ q.poll = p.poll /\ q.handler = p.handler /\ q.compaction = p.compaction
        /\ q.inbox = p.inbox /\ q.wsFlush = p.wsFlush /\ q.flushing = p.flushing
        /\ q.stopped = p.stopped /\ q.started = p.started
    BY <2>1 DEF Changes, Fields
  <2>3. Rests(p, q)
    <3>1. \A j \in Slots : \/ q.flushes[j] = p.flushes[j]
                           \/ q.flushes[j].st \notin {"encrypt", "sent", "ok"}
      BY <1>4, <2>1
    <3> QED
      BY <2>2, <3>1 DEF Rests
  <2>4. q \in Closure /\ MayCompact(q)
    BY <1>3, <1>6, <2>1, <2>2 DEF MayCompact, Changes, Fields
  <2>5. Changes(q, r, {"compaction"}) /\ Rests(q, r)
    BY <1>1, <1>6, <2>4, StartCompactDoes
  <2>6. r.flushes = q.flushes /\ ~r.flushing /\ r \in Closure
    BY <1>3, <2>2, <2>5 DEF Changes, Fields
  <2>7. i \in Live(r)
    BY <1>4, <2>1, <2>6, Domain DEF Live
  <2>8. Tuned(q)
    BY <1>5, <2>1, Untouched DEF TunedFields
  <2>9. Tuned(r)
    BY <2>5, <2>8, Untouched DEF TunedFields
  <2>10. Rests(k, r)
    BY <1>5, <2>3, <2>5, RestsAdd
  <2> QED
    BY <2>6, <2>7, <2>9, <2>10 DEF Armed
<1>7. CASE ~MayCompact(k)
  <2> DEFINE s == ScheduleFlush(p)
  <2>1. s \in Closure /\ Rests(p, s) /\ Tuned(s)
    BY <1>2, <1>5, ScheduleFlushKeeps
  <2>2. r = FinishFlush(s, i)
    BY <1>1, <1>7
  <2> HIDE DEF s
  <2>3. r \in Closure /\ Rests(s, r) /\ Armed(r) /\ Tuned(r)
    BY <2>1, <2>2, FinishFlushKeeps
  <2> QED
    BY <1>5, <2>1, <2>3, RestsAdd
<1> QED
  BY <1>6, <1>7

\* A flush that halts the client, stops it, or is to be tried again.
LEMMA SettleKeeps ==
    ASSUME NEW k \in Closure, NEW i \in Slots, Tuned(k), NEW q,
           q = HaltFlush(k) \/ q = Fatal(k) \/ q = ScheduleFlush(k), NEW r, r = FinishFlush(q, i)
    PROVE  r \in Closure /\ Rests(k, r) /\ Armed(r) /\ Tuned(r)
<1>1. q \in Closure /\ Rests(k, q) /\ Tuned(q)
  <2>1. CASE q = HaltFlush(k)
    <3>1. /\ Changes(k, q, {"wsFlush", "flushing", "halted", "flushTimer"})
          /\ q.wsFlush \in {k.wsFlush, NoFlush}
      BY <2>1, HaltFlushDoes
    <3>2. Rests(k, q)
      BY <3>1, WaitRests DEF Control
    <3>3. Tuned(q)
      BY <3>1, Untouched DEF TunedFields
    <3> QED
      BY <3>1, <3>2, <3>3 DEF Changes
  <2>2. CASE q = Fatal(k)
    BY <2>2, FatalKeeps
  <2>3. CASE q = ScheduleFlush(k)
    BY <2>3, ScheduleFlushKeeps
  <2> QED
    BY <2>1, <2>2, <2>3
<1>2. r \in Closure /\ Rests(q, r) /\ Armed(r) /\ Tuned(r)
  BY <1>1, FinishFlushKeeps
<1> QED
  BY <1>1, <1>2, RestsAdd

\* What was sent and stored leaves the outbox.
LEMMA SentKeeps ==
    ASSUME NEW c, NEW w, NEW k \in Closure, NEW n \in Nat, NEW p, Changes(k, p, {"outbox", "pending"}),
           p.outbox = SubSeq(k.outbox, n + 1, Len(k.outbox)),
           Range(k.outbox) \subseteq First(k.outbox, n) \cup Range(p.outbox),
           Range(p.outbox) \subseteq Range(k.outbox)
    PROVE  /\ Sound(k, w) => Sound(p, w)
           /\ KnownTo(k, w) => KnownTo(p, w)
           /\ TxnOK(c, k, w) => TxnOK(c, p, w)
           /\ {e \in k.doc : Author[e] = c} \subseteq Range(k.outbox) \cup EditsOf(w.log)
              /\ First(k.outbox, n) \subseteq EditsOf(w.log) =>
                     {e \in p.doc : Author[e] = c} \subseteq Range(p.outbox) \cup EditsOf(w.log)
<1>1. /\ p.doc = k.doc /\ p.cursor = k.cursor
      /\ p.poll = k.poll /\ p.handler = k.handler /\ p.compaction = k.compaction
      /\ p.inbox = k.inbox /\ p.wsFlush = k.wsFlush /\ p.txn = k.txn /\ p.flushes = k.flushes
  BY DEF Changes, Fields
<1>2. Sound(k, w) => Sound(p, w)
  BY <1>1 DEF Sound
<1>3. KnownTo(k, w) => KnownTo(p, w)
  BY <1>1 DEF KnownTo
<1>4. TxnOK(c, k, w) => TxnOK(c, p, w)
  BY <1>1 DEF TxnOK
<1> QED
  BY <1>1, <1>2, <1>3, <1>4

\* The answer to a flush is handled.
LEMMA FlushDoneKeeps ==
    ASSUME IInv, NEW c \in Clients, NEW i \in Slots, FlushDone(c, i)
    PROVE  IInv'
<1> DEFINE k == client[c]
           t == k.flushes[i]
<1>1. UNCHANGED <<serverVars, netVars, faults>>
  BY DEF FlushDone
<1>2. /\ k \in Closure /\ Tuned(k) /\ Sound(k, World) /\ KnownTo(k, World)
      /\ TxnOK(c, k, World) /\ (overlap \/ OutboxOK(c, k, World))
  BY Now
<1>3. ASSUME NEW r, Becomes(c, r), r \in Closure, Rests(k, r), Armed(r), Tuned(r)
      PROVE  IInv'
  BY <1>1, <1>3, RestStep, ServerRests, FaultType
<1>4. CASE t.st = "full" /\ Becomes(c, AwaitCompact(k, i))
  BY <1>2, <1>3, <1>4, AwaitCompactKeeps
<1>5. CASE t.st = "bad" /\ Becomes(c, FinishFlush(HaltFlush(k), i))
  BY <1>2, <1>3, <1>5, SettleKeeps
<1>6. CASE t.st = "gone" /\ Becomes(c, FinishFlush(Fatal(k), i))
  BY <1>2, <1>3, <1>6, SettleKeeps
<1>7. CASE t.st = "err" /\ Becomes(c, FinishFlush(ScheduleFlush(k), i))
  BY <1>2, <1>3, <1>7, SettleKeeps
<1>8. CASE t.st = "ok" /\ Becomes(c, FinishFlush(MaybeCompact(
                             [DropSent(k, t.count) EXCEPT !.pending = t.pending]), i))
  <2> DEFINE p0 == DropSent(k, t.count)
             p == [p0 EXCEPT !.pending = t.pending]
             q == MaybeCompact(p)
             r == FinishFlush(q, i)
  <2>1. t.count \in Nat /\ t.pending \in 0..MaxPending
    <3>1. t \in FlushTask
      BY <1>2 DEF Closure
    <3> QED
      BY <1>8, <3>1, Domain DEF FlushTask
  <2>2. Becomes(c, r)
    BY <1>8
  <2> HIDE DEF k
  <2>3. /\ Changes(k, p0, {"outbox"})
        /\ p0.outbox = SubSeq(k.outbox, t.count + 1, Len(k.outbox))
        /\ Range(k.outbox) \subseteq First(k.outbox, t.count) \cup Range(p0.outbox)
        /\ Range(p0.outbox) \subseteq Range(k.outbox)
    <3> HIDE DEF t
    <3>1. p0 = DropSent(k, t.count)
      OBVIOUS
    <3> HIDE DEF p0
    <3> QED
      BY <1>2, <2>1, <3>1, DropSentDoes
  <2> HIDE DEF p0
  <2>4. p \in Closure
    BY <2>1, <2>3 DEF Changes, Closure
  <2>5. Changes(p0, p, {"pending"})
    BY <2>3, <2>4, Domain DEF Changes, Fields
  <2> HIDE DEF p
  <2>6. Changes(k, p, {"outbox", "pending"}) /\ p.outbox = p0.outbox
    <3>1. Changes(k, p, {"outbox"} \cup {"pending"})
      BY <2>3, <2>5, ChangesAdd
    <3> QED
      BY <2>5, <3>1 DEF Changes, Fields
  <2>7. Sound(p, World) /\ KnownTo(p, World) /\ TxnOK(c, p, World) /\ Tuned(p)
    <3>1. Tuned(p)
      BY <1>2, <2>6, Untouched DEF TunedFields
    <3> QED
      BY <1>2, <2>1, <2>3, <2>6, <3>1, SentKeeps
  <2>8. Changes(p, q, {"compaction"}) /\ Rests(p, q)
    BY <2>4, MaybeCompactDoes
  <2> HIDE DEF q
  <2>9. q \in Closure /\ Tuned(q)
    <3>1. Tuned(q)
      BY <2>7, <2>8, Untouched DEF TunedFields
    <3> QED
      BY <2>8, <3>1 DEF Changes
  <2>10. /\ Changes(q, r, {"flushing", "flushes", "flushTimer"})
         /\ r.flushes = [q.flushes EXCEPT ![i] = Idle]
         /\ r \in Closure /\ Rests(q, r) /\ Armed(r) /\ Tuned(r)
    BY <2>9, FinishFlushDoes, FinishFlushKeeps
  <2> HIDE DEF r
  <2>11. /\ r.doc = k.doc /\ r.outbox = p.outbox /\ r.wsFlush = k.wsFlush
         /\ \A j \in Slots : r.flushes[j] = IF j = i THEN Idle ELSE k.flushes[j]
    <3>1. /\ q.doc = k.doc /\ q.outbox = p.outbox /\ q.wsFlush = k.wsFlush
          /\ q.flushes = k.flushes
      BY <2>6, <2>8 DEF Changes, Fields
    <3>2. r.doc = q.doc /\ r.outbox = q.outbox /\ r.wsFlush = q.wsFlush
      BY <2>10 DEF Changes, Fields
    <3>3. \A j \in Slots : r.flushes[j] = IF j = i THEN Idle ELSE q.flushes[j]
      BY <2>9, <2>10 DEF Closure
    <3> QED
      BY <3>1, <3>2, <3>3
  <2>12. ClientOK(c, r, World)
    <3>1. Rests(p, r)
      BY <2>8, <2>10, RestsAdd
    <3> QED
      BY <2>4, <2>7, <2>10, <3>1, RestsKeeps DEF ClientOK
  <2>13. ASSUME OutboxOK(c, k, World), ~Overlapping(r)
         PROVE  OutboxOK(c, r, World)
    <3>1. i \in Unanswered(k)
      BY <1>8 DEF Unanswered, k
    <3>2. Unanswered(k) = {i} /\ k.wsFlush = NoFlush
      BY <1>2, <2>13, <3>1, Alone DEF OutboxOK
    <3>3. ASSUME NEW j \in Slots
          PROVE  FlushOK(r.flushes[j], r.outbox, World)
      <4>1. r.flushes[j].st \in {"idle", "compacting"}
        BY <2>11, <3>2, Domain DEF Unanswered
      <4> QED
        BY <4>1 DEF FlushOK
    <3>4. First(k.outbox, t.count) \subseteq EditsOf(World.log)
      BY <1>8, <2>13 DEF OutboxOK, FlushOK, k
    <3>5. {e \in k.doc : Author[e] = c} \subseteq Range(k.outbox) \cup EditsOf(World.log)
      BY <2>13 DEF OutboxOK
    <3>6. {e \in r.doc : Author[e] = c} \subseteq Range(r.outbox) \cup EditsOf(World.log)
      BY <2>3, <2>6, <2>11, <3>4, <3>5
    <3> QED
      BY <2>11, <2>13, <3>2, <3>3, <3>6 DEF OutboxOK
  <2> QED
    BY <1>1, <1>2, <2>2, <2>11, <2>12, <2>13, LocalStep DEF Becomes, k
<1> QED
  BY <1>4, <1>5, <1>6, <1>7, <1>8 DEF FlushDone

\* Time runs out on the page.
LEMMA CountdownEndsKeeps ==
    ASSUME IInv, NEW c \in Clients, CountdownEnds(c)
    PROVE  IInv'
<1>1. Becomes(c, Fatal(client[c])) /\ UNCHANGED <<serverVars, netVars, faults>>
  BY DEF CountdownEnds
<1>2. client[c] \in Closure /\ Armed(client[c])
  BY Now
<1> DEFINE r == Fatal(client[c])
<1>3. r \in Closure /\ Rests(client[c], r) /\ Armed(r) /\ Tuned(r)
  BY <1>2, FatalKeeps
<1> HIDE DEF r
<1> QED
  BY <1>1, <1>3, RestStep, ServerRests, FaultType DEF r

-----------------------------------------------------------------------------
(* The socket: sending, opening and closing *)

\* An encrypted flush goes out as a frame, or back to the timer.
LEMMA EncryptDoneKeeps ==
    ASSUME IInv, NEW c \in Clients, NEW i \in Slots, EncryptDone(c, i)
    PROVE  IInv'
<1> DEFINE k == client[c]
           t == k.flushes[i]
           freed == Slotted(k, i, Idle)
<1>1. t.st = "encrypt" /\ UNCHANGED <<serverVars, outgoing, faults>>
  BY DEF EncryptDone
<1>2. /\ k \in Closure /\ Armed(k) /\ Tuned(k) /\ Sound(k, World) /\ KnownTo(k, World)
      /\ TxnOK(c, k, World) /\ (overlap \/ OutboxOK(c, k, World))
  BY Now
<1>3. /\ t \in FlushTask /\ t.count \in Nat /\ t.edits \subseteq k.doc /\ k.doc \subseteq Edits
      /\ k.txn \in 0..MaxTxn
  <2>1. t \in FlushTask /\ k.doc \subseteq Edits /\ k.txn \in 0..MaxTxn
    BY <1>2 DEF Closure
  <2> QED
    BY <1>1, <1>2, <2>1, Domain DEF FlushTask, Sound
<1>4. /\ Changes(k, freed, {"flushes"}) /\ freed.flushes[i] = Idle
      /\ \A j \in Slots \ {i} : freed.flushes[j] = k.flushes[j]
  BY <1>2, Domain, SlotDoes
<1>5. /\ \/ /\ k.ws = "open" /\ k.txn < MaxTxn
            /\ Becomes(c, [freed EXCEPT !.txn = @ + 1,
                                        !.wsFlush = [txn |-> k.txn + 1, count |-> t.count]])
            /\ uplink' = uplink \cup {[client |-> c, txn |-> k.txn + 1, edits |-> t.edits,
                                       live |-> TRUE]}
         \/ /\ Becomes(c, ScheduleFlush(ClearWsFlushWait(freed)))
            /\ UNCHANGED uplink
  BY DEF EncryptDone, Slotted, WsIsOpen
<1> HIDE DEF freed
<1>6. /\ freed.doc = k.doc /\ freed.cursor = k.cursor /\ freed.outbox = k.outbox
      /\ freed.poll = k.poll /\ freed.handler = k.handler /\ freed.compaction = k.compaction
      /\ freed.inbox = k.inbox /\ freed.wsFlush = k.wsFlush /\ freed.txn = k.txn
      /\ freed.started = k.started /\ freed.stopped = k.stopped /\ freed.pollTimer = k.pollTimer
      /\ freed.ws = k.ws
  BY <1>4 DEF Changes, Fields
<1>7. Rests(k, freed)
  <2>1. \A j \in Slots : \/ freed.flushes[j] = k.flushes[j]
                         \/ freed.flushes[j].st \notin {"encrypt", "sent", "ok"}
    BY <1>4, Domain
  <2> QED
    BY <1>6, <2>1 DEF Rests
<1>8. CASE Becomes(c, ScheduleFlush(ClearWsFlushWait(freed))) /\ UNCHANGED uplink
  <2> DEFINE q == ClearWsFlushWait(freed)
             r == ScheduleFlush(q)
  <2>1. /\ Changes(freed, q, {"wsFlush", "flushing"})
        /\ q.wsFlush = NoFlush /\ ~q.flushing
    BY <1>4, ClearWsFlushWaitDoes DEF Changes
  <2> HIDE DEF q
  <2>2. Rests(freed, q)
    BY <2>1, WaitRests DEF Control
  <2>3. Tuned(freed)
    BY <1>2, <1>4, Untouched DEF TunedFields
  <2>4. Tuned(q)
    BY <2>1, <2>3, Untouched DEF TunedFields
  <2>5. q \in Closure
    BY <2>1 DEF Changes
  <2>6. r \in Closure /\ Rests(q, r) /\ Armed(r) /\ Tuned(r)
    BY <2>1, <2>4, <2>5, ScheduleFlushKeeps
  <2>7. Becomes(c, r)
    BY <1>8 DEF q
  <2> HIDE DEF r
  <2>8. Rests(k, r)
    BY <1>7, <2>2, <2>6, RestsAdd
  <2> QED
    BY <1>1, <1>8, <2>6, <2>7, <2>8, RestStep, ServerRests, FaultType DEF netVars
<1>9. CASE /\ k.ws = "open" /\ k.txn < MaxTxn
           /\ Becomes(c, [freed EXCEPT !.txn = @ + 1,
                                       !.wsFlush = [txn |-> k.txn + 1, count |-> t.count]])
           /\ uplink' = uplink \cup {[client |-> c, txn |-> k.txn + 1, edits |-> t.edits,
                                      live |-> TRUE]}
  <2> DEFINE wait == [txn |-> k.txn + 1, count |-> t.count]
             frame == [client |-> c, txn |-> k.txn + 1, edits |-> t.edits, live |-> TRUE]
             r == [freed EXCEPT !.txn = k.txn + 1, !.wsFlush = wait]
  <2>1. k.txn + 1 \in 1..MaxTxn /\ k.txn + 1 \in 0..MaxTxn /\ k.txn \in Nat
    BY <1>3, <1>9, Bounds
  <2>2. /\ wait \in [txn : 0..MaxTxn, count : Nat] /\ wait # NoFlush
        /\ wait.txn = k.txn + 1 /\ wait.count = t.count
    BY <1>3, <2>1 DEF NoFlush
  <2>3. frame \in Upload /\ frame.client = c /\ frame.txn = k.txn + 1 /\ frame.edits = t.edits
    BY <1>3, <2>1 DEF Upload
  <2>4. Becomes(c, r) /\ uplink' = uplink \cup {frame}
    BY <1>6, <1>9
  <2> HIDE DEF wait, frame
  <2>5. r \in Closure
    BY <1>4, <2>1, <2>2 DEF Changes, Closure
  <2>6. Changes(freed, r, {"txn", "wsFlush"}) /\ r.txn = k.txn + 1 /\ r.wsFlush = wait
    BY <1>4, <2>5, Domain DEF Changes, Fields
  <2> HIDE DEF r
  <2>7. /\ r.doc = k.doc /\ r.cursor = k.cursor /\ r.outbox = k.outbox
        /\ r.poll = k.poll /\ r.handler = k.handler /\ r.compaction = k.compaction
        /\ r.inbox = k.inbox /\ r.flushes = freed.flushes
    BY <1>6, <2>6 DEF Changes, Fields
  <2>8. /\ ServerGrows /\ World'.log = World.log /\ World'.top = World.top
        /\ Known \subseteq Known'
    BY <1>1, <2>4, <2>7, ServerRests, KnownGrows, WorldFields, NextWorld
  <2>9. Sound(k, World') /\ KnownTo(k, World')
    BY <1>2, <2>8, WorldLogLater, SoundLater
  <2>10. Sound(freed, World') /\ KnownTo(freed, World')
    BY <1>2, <1>4, <1>7, <2>9, RestsKeeps DEF Changes
  <2>11. Sound(r, World') /\ KnownTo(r, World')
    BY <1>6, <2>7, <2>10 DEF Sound, KnownTo
  <2>12. TxnOK(c, r, World')
    <3>1. \A f \in World'.uplink : f.client = c => f.txn <= k.txn + 1
      <4>1. \A f \in uplink : f.client = c => f.txn <= k.txn /\ f.txn \in Int
        BY <1>2, WorldFields, Bounds DEF TxnOK, IInv, TypeOK, Upload
      <4> QED
        BY <2>1, <2>3, <2>4, <4>1, NextWorld
    <3>2. \A n \in DOMAIN k.inbox : k.inbox[n].type = "ack" => k.inbox[n].txn <= k.txn + 1
      <4>1. \A n \in DOMAIN k.inbox : k.inbox[n].type = "ack" =>
                k.inbox[n].txn <= k.txn /\ k.inbox[n].txn \in Int
        BY <1>2, Numbers, FrameNumbers, Bounds DEF TxnOK
      <4> QED
        BY <2>1, <4>1
    <3> QED
      BY <2>2, <2>6, <2>7, <3>1, <3>2 DEF TxnOK
  <2>13. Armed(r)
    BY <2>2, <2>6 DEF Armed
  <2>14. Tuned(r)
    BY <1>6, <1>9, <2>6 DEF Tuned, Changes, Fields
  <2>15. ASSUME OutboxOK(c, k, World), ~Overlapping(r)
         PROVE  OutboxOK(c, r, World')
    <3>1. {e \in r.doc : Author[e] = c} \subseteq Range(r.outbox) \cup EditsOf(World'.log)
      BY <2>7, <2>8, <2>15 DEF OutboxOK
    <3>2. \A j \in Slots : FlushOK(r.flushes[j], r.outbox, World')
      <4>1. FlushOK(Idle, r.outbox, World')
        BY Domain DEF FlushOK
      <4>2. \A j \in Slots \ {i} : FlushOK(k.flushes[j], r.outbox, World')
        BY <2>7, <2>8, <2>15 DEF OutboxOK, FlushOK
      <4> QED
        BY <1>4, <2>7, <4>1, <4>2
    <3>3. t.count <= Len(r.outbox) /\ First(r.outbox, t.count) \subseteq t.edits
      BY <1>1, <2>7, <2>15 DEF OutboxOK, FlushOK
    <3>4. ASSUME NEW f \in World'.uplink, f.client = c, f.txn = r.txn
          PROVE  First(r.outbox, r.wsFlush.count) \subseteq f.edits
      <4>1. ASSUME f \in uplink
            PROVE  FALSE
        <5>1. f.txn <= k.txn /\ f.txn = k.txn + 1
          BY <1>2, <2>6, <3>4, <4>1, WorldFields DEF TxnOK
        <5> QED
          BY <2>1, <5>1
      <4> QED
        BY <2>2, <2>3, <2>4, <2>6, <3>3, <4>1, <3>4, NextWorld
    <3>5. ASSUME NEW n \in DOMAIN r.inbox, r.inbox[n].type = "ack", r.inbox[n].txn = r.txn
          PROVE  FALSE
      <4>1. k.inbox[n].txn <= k.txn /\ k.inbox[n].txn = k.txn + 1
        BY <1>2, <2>6, <2>7, <3>5 DEF TxnOK
      <4> QED
        BY <2>1, <4>1
    <3> QED
      BY <2>2, <2>6, <2>15, <3>1, <3>2, <3>3, <3>4, <3>5 DEF OutboxOK
  <2>16. uplink' \subseteq Upload /\ outgoing' \subseteq Announcement /\ outgoing' = outgoing
    BY <1>1, <2>3, <2>4 DEF IInv, TypeOK
  <2>17. \A f \in uplink' : f.client # c => f \in uplink
    BY <2>3, <2>4
  <2>18. \A f \in uplink' : f.client = c => f.edits \subseteq r.doc
    BY <1>3, <2>3, <2>4, <2>7 DEF IInv, NetInv
  <2>19. \A m \in outgoing' :
             m.edits \subseteq Known /\ Follows(m.prev, m.seq, m.edits, World')
    BY <2>8, <2>16, OutgoingLater
  <2>20. ClientOK(c, r, World') /\ (overlap' \/ OutboxOK(c, r, World'))
    BY <1>2, <2>4, <2>5, <2>11, <2>12, <2>13, <2>14, <2>15 DEF ClientOK, Becomes
  <2>21. faults' \in 0..MaxFaults /\ client[c].doc \subseteq r.doc
    BY <1>1, <2>7, FaultType
  <2> QED
    BY <2>4, <2>8, <2>16, <2>17, <2>18, <2>19, <2>20, <2>21, Step
<1> QED
  BY <1>5, <1>8, <1>9

\* What is unsaved is due once no flush holds the flag.
LEMMA FlushUnsavedKeeps ==
    ASSUME NEW k \in Closure, k.flushing => Unanswered(k) # {} \/ k.wsFlush # NoFlush,
           NEW r, r = FlushUnsaved(k)
    PROVE  /\ r \in Closure /\ Rests(k, r) /\ Armed(r)
           /\ Tuned(k) => Tuned(r)
<1>1. CASE k.outbox # <<>> /\ ~k.flushing
  <2>1. r = ScheduleFlush(k)
    BY <1>1 DEF FlushUnsaved
  <2> QED
    BY <1>1, <2>1, ScheduleFlushKeeps
<1>2. CASE ~(k.outbox # <<>> /\ ~k.flushing)
  <2>1. r = k
    BY <1>2 DEF FlushUnsaved
  <2>2. Unanswered(k) \subseteq Live(k)
    BY Domain DEF Unanswered, Live
  <2>3. Rests(k, r)
    BY <2>1 DEF Rests
  <2> QED
    BY <1>2, <2>1, <2>2, <2>3 DEF Armed
<1> QED
  BY <1>1, <1>2

\* A frame more in the inbox.
LEMMA Received ==
    ASSUME NEW k \in Closure, NEW f \in FrameType
    PROVE  /\ Append(k.inbox, f) \in Seq(FrameType)
           /\ \A n \in DOMAIN Append(k.inbox, f) :
                 \/ Append(k.inbox, f)[n] = f
                 \/ n \in DOMAIN k.inbox /\ Append(k.inbox, f)[n] = k.inbox[n]
<1>1. k.inbox \in Seq(FrameType)
  BY DEF Closure
<1> QED
  BY <1>1

\* The socket opens.
LEMMA OpenKeeps ==
    ASSUME IInv, NEW c \in Clients, Open(c)
    PROVE  IInv'
<1> DEFINE k == client[c]
           inbox == Append(k.inbox, [type |-> "gapfill"])
           p == [k EXCEPT !.ws = "open", !.consumer = "accepted", !.pollTimer = FALSE,
                          !.inbox = inbox]
           r == FlushUnsaved(p)
<1>1. Becomes(c, r) /\ UNCHANGED <<serverVars, netVars, faults>>
  BY DEF Open
<1>2. k \in Closure /\ Armed(k)
  BY Now
<1> HIDE DEF k
<1>3. /\ inbox \in Seq(FrameType)
      /\ \A n \in DOMAIN inbox :
            \/ inbox[n].type = "gapfill"
            \/ n \in DOMAIN k.inbox /\ inbox[n] = k.inbox[n]
  <2>1. [type |-> "gapfill"] \in FrameType
    BY DEF FrameType
  <2> QED
    BY <1>2, <2>1, Received
<1> HIDE DEF inbox
<1>4. p \in Closure
  BY <1>2, <1>3 DEF Closure
<1>5. /\ Changes(k, p, {"ws", "consumer", "pollTimer", "inbox"})
      /\ p.inbox = inbox /\ p.ws = "open"
  BY <1>2, <1>4, Domain DEF Changes, Fields
<1> HIDE DEF p
<1>6. \A f \in {"doc", "cursor", "outbox", "txn", "poll", "handler", "compaction", "flushes",
               "wsFlush"} : p[f] = k[f]
  BY <1>5 DEF Changes, Fields
<1>7. Rests(k, p)
  BY <1>3, <1>5, <1>6 DEF Rests
<1>8. Armed(p) /\ Tuned(p)
  BY <1>2, <1>5, Untouched DEF ArmedFields, Tuned
<1>9. r \in Closure /\ Rests(p, r) /\ Armed(r) /\ Tuned(r)
  BY <1>4, <1>8, FlushUnsavedKeeps DEF Armed
<1> HIDE DEF r
<1>10. Rests(k, r)
  BY <1>7, <1>9, RestsAdd
<1> QED
  BY <1>1, <1>9, <1>10, RestStep, ServerRests, FaultType DEF k

\* The consumer joins the group.
LEMMA JoinKeeps ==
    ASSUME IInv, NEW c \in Clients, Join(c)
    PROVE  IInv'
<1> DEFINE k == client[c]
           r == [k EXCEPT !.consumer = "ready"]
<1>1. Becomes(c, r) /\ UNCHANGED <<serverVars, netVars, faults>>
  BY DEF Join
<1>2. k \in Closure /\ Armed(k) /\ Tuned(k)
  BY Now
<1> HIDE DEF k
<1>3. r \in Closure
  BY <1>2 DEF Closure
<1>4. Changes(k, r, {"consumer"})
  BY <1>2, <1>3, Domain DEF Changes, Fields
<1> HIDE DEF r
<1>5. Rests(k, r) /\ Armed(r) /\ Tuned(r)
  BY <1>2, <1>4, ControlRests, Untouched DEF Control, ArmedFields, TunedFields
<1> QED
  BY <1>1, <1>3, <1>5, RestStep, ServerRests, FaultType DEF k

\* The wait for an ack ends in the socket's closing.
LEMMA AckTimeoutKeeps ==
    ASSUME IInv, NEW c \in Clients, AckTimeout(c)
    PROVE  IInv'
<1> DEFINE k == client[c]
           r == [k EXCEPT !.ws = "closing"]
<1>1. Becomes(c, r) /\ UNCHANGED <<serverVars, netVars>> /\ Fault
  BY DEF AckTimeout
<1>2. k \in Closure /\ Armed(k)
  BY Now
<1> HIDE DEF k
<1>3. r \in Closure
  BY <1>2 DEF Closure
<1>4. Changes(k, r, {"ws"}) /\ r.ws = "closing"
  BY <1>2, <1>3, Domain DEF Changes, Fields
<1> HIDE DEF r
<1>5. Rests(k, r) /\ Armed(r) /\ Tuned(r)
  BY <1>2, <1>4, ControlRests, Untouched DEF Control, ArmedFields, Tuned
<1> QED
  BY <1>1, <1>3, <1>5, RestStep, ServerRests, FaultType DEF k

\* The reconnect timer fires.
LEMMA ReconnectTimerFiresKeeps ==
    ASSUME IInv, NEW c \in Clients, ReconnectTimerFires(c)
    PROVE  IInv'
<1> DEFINE k == client[c]
           p == [k EXCEPT !.reconnectTimer = FALSE]
           r == ConnectWs(c, p)
<1>1. Becomes(c, r) /\ UNCHANGED <<serverVars, netVars, faults>>
  BY DEF ReconnectTimerFires
<1>2. k \in Closure /\ Armed(k) /\ Tuned(k)
  BY Now
<1> HIDE DEF k
<1>3. p \in Closure
  BY <1>2 DEF Closure
<1>4. Changes(k, p, {"reconnectTimer"})
  BY <1>2, <1>3, Domain DEF Changes, Fields
<1> HIDE DEF p
<1>5. Changes(p, r, {"ws"}) /\ (p.ws # "none" => r.ws = p.ws)
  BY <1>3, ConnectWsDoes
<1> HIDE DEF r
<1>6. Changes(k, r, {"reconnectTimer"} \cup {"ws"})
  BY <1>4, <1>5, ChangesAdd
<1>7. Rests(k, r)
  BY <1>6, ControlRests DEF Control
<1>8. Armed(r)
  BY <1>2, <1>6, Untouched DEF ArmedFields
<1>9. Tuned(p) /\ p.started = r.started /\ p.stopped = r.stopped /\ p.poll = r.poll
      /\ p.pollTimer = r.pollTimer
  <2>1. Tuned(p)
    BY <1>2, <1>4, Untouched DEF TunedFields
  <2> QED
    BY <1>5, <2>1 DEF Changes, Fields
<1>10. Tuned(r)
  BY <1>5, <1>9 DEF Tuned
<1>11. r \in Closure
  BY <1>5 DEF Changes
<1> QED
  BY <1>1, <1>7, <1>8, <1>10, <1>11, RestStep, ServerRests, FaultType DEF k

\* What survives a closing socket was there, or is a gap fill.
LEMMA SurvivingType ==
    ASSUME NEW k \in Closure, NEW n \in 0 .. Len(k.inbox)
    PROVE  /\ Surviving(k.inbox, n) \in Seq(FrameType)
           /\ \A m \in DOMAIN Surviving(k.inbox, n) :
                 \/ Surviving(k.inbox, n)[m].type = "gapfill"
                 \/ \E j \in DOMAIN k.inbox : Surviving(k.inbox, n)[m] = k.inbox[j]
<1> DEFINE s == SubSeq(k.inbox, 1, n)
           gapfills == {i \in n + 1 .. Len(k.inbox) : k.inbox[i].type = "gapfill"}
           N == Cardinality(gapfills)
           t == [i \in 1 .. N |-> [type |-> "gapfill"]]
<1>1. k.inbox \in Seq(FrameType) /\ Len(k.inbox) \in Nat /\ n \in Nat
  BY DEF Closure
<1>2. N \in Nat
  <2>1. IsFiniteSet(n + 1 .. Len(k.inbox))
    BY <1>1, FS_Interval
  <2>2. IsFiniteSet(gapfills)
    BY <2>1, FS_Subset
  <2> QED
    BY <2>2, FS_CardinalityType
<1> HIDE DEF N
<1>3. t \in Seq(FrameType) /\ Len(t) = N /\ \A i \in 1 .. N : t[i].type = "gapfill"
  BY <1>2 DEF FrameType
<1>4. s \in Seq(FrameType) /\ Len(s) = n /\ \A i \in 1 .. n : s[i] = k.inbox[i]
  BY <1>1
<1>5. Surviving(k.inbox, n) = s \o t
  BY DEF Surviving, N
<1> HIDE DEF s, t
<1>6. /\ s \o t \in Seq(FrameType) /\ Len(s \o t) = n + N
      /\ \A m \in 1 .. n + N : (s \o t)[m] = IF m <= n THEN s[m] ELSE t[m - n]
  <2>1. /\ s \o t \in Seq(FrameType)
        /\ Len(s \o t) = Len(s) + Len(t)
        /\ \A m \in 1 .. Len(s) + Len(t) :
              (s \o t)[m] = IF m <= Len(s) THEN s[m] ELSE t[m - Len(s)]
    BY <1>3, <1>4, ConcatProperties
  <2> QED
    BY <1>3, <1>4, <2>1
<1>7. ASSUME NEW m \in 1 .. n + N
      PROVE  \/ (s \o t)[m].type = "gapfill"
             \/ \E j \in DOMAIN k.inbox : (s \o t)[m] = k.inbox[j]
  <2>1. CASE m <= n
    <3>1. (s \o t)[m] = s[m] /\ m \in 1 .. n /\ m \in DOMAIN k.inbox
      BY <1>1, <1>2, <1>6, <2>1
    <3> QED
      BY <1>4, <3>1
  <2>2. CASE m > n
    <3>1. (s \o t)[m] = t[m - n] /\ m - n \in 1 .. N
      BY <1>1, <1>2, <1>6, <2>2
    <3> QED
      BY <1>3, <3>1
  <2>3. m <= n \/ m > n
    BY <1>1, <1>2
  <2> QED
    BY <2>1, <2>2, <2>3
<1>8. DOMAIN (s \o t) = 1 .. n + N
  BY <1>6
<1> QED
  BY <1>5, <1>6, <1>7, <1>8

\* The wait and the flag are let go of together.
LEMMA ReleasedDoes ==
    ASSUME NEW k \in Closure, Armed(k), NEW n \in 0 .. Len(k.inbox), NEW r,
           r = Released(k, Surviving(k.inbox, n))
    PROVE  /\ r \in Closure /\ Rests(k, r)
           /\ r.flushing => Unanswered(r) # {} \/ r.wsFlush # NoFlush
<1> DEFINE inbox == Surviving(k.inbox, n)
<1>1. /\ inbox \in Seq(FrameType)
      /\ \A m \in DOMAIN inbox : \/ inbox[m].type = "gapfill"
                                 \/ \E j \in DOMAIN k.inbox : inbox[m] = k.inbox[j]
  BY SurvivingType
<1> HIDE DEF inbox
<1> DEFINE flushing == k.flushing /\ k.wsFlush = NoFlush
<1>2. r = [k EXCEPT !.ws = "none", !.consumer = "none", !.inbox = inbox,
                    !.flushing = flushing, !.wsFlush = NoFlush]
  BY DEF Released, inbox
<1>3. flushing \in BOOLEAN
  OBVIOUS
<1> HIDE DEF flushing
<1>4. r \in Closure
  <2>1. NoFlush \in [txn : 0..MaxTxn, count : Nat]
    BY Domain
  <2> HIDE DEF NoFlush
  <2> QED
    BY <1>1, <1>2, <1>3, <2>1 DEF Closure
<1>5. /\ Changes(k, r, {"ws", "consumer", "inbox", "flushing", "wsFlush"})
      /\ r.inbox = inbox /\ r.wsFlush = NoFlush
      /\ r.flushing = flushing
  BY <1>2, <1>3, <1>4, Domain DEF Changes, Fields
<1>6. \A f \in {"doc", "cursor", "outbox", "txn", "poll", "handler", "compaction",
               "flushes"} : r[f] = k[f]
  BY <1>5 DEF Changes, Fields
<1>7. Rests(k, r)
  BY <1>1, <1>5, <1>6 DEF Rests
<1>8. Unanswered(r) = Unanswered(k)
  BY <1>6 DEF Unanswered
<1> QED
  BY <1>4, <1>5, <1>7, <1>8 DEF Armed, flushing

\* Whatever the close code, the client hears of others and sends again, or stops.
LEMMA OnCloseKeeps ==
    ASSUME NEW c, NEW k \in Closure, k.flushing => Unanswered(k) # {} \/ k.wsFlush # NoFlush,
           NEW code \in {"not_found", "abuse", "lost"}, NEW r, r = OnClose(c, k, code)
    PROVE  r \in Closure /\ Rests(k, r) /\ Armed(r) /\ Tuned(r)
<1>1. CASE code = "not_found"
  BY <1>1, FatalKeeps DEF OnClose
<1>2. ASSUME NEW p, NEW F, Changes(k, p, F), F \subseteq {"gaveUp", "reconnectTimer"},
             r = FlushUnsaved(SchedulePoll(p))
      PROVE  r \in Closure /\ Rests(k, r) /\ Armed(r) /\ Tuned(r)
  <2> DEFINE q == SchedulePoll(p)
  <2>1. p \in Closure /\ Rests(k, p)
    BY <1>2, ControlRests DEF Control, Changes
  <2>2. Changes(p, q, {"pollTimer"}) /\ q \in Closure /\ Rests(p, q) /\ Tuned(q)
    BY <2>1, SchedulePollDoes, SchedulePollKeeps
  <2> HIDE DEF q
  <2>3. q.flushing = k.flushing /\ q.flushes = k.flushes /\ q.wsFlush = k.wsFlush
    BY <1>2, <2>2 DEF Changes, Fields
  <2>4. q.flushing => Unanswered(q) # {} \/ q.wsFlush # NoFlush
    BY <2>3, SameOverlap
  <2>5. r \in Closure /\ Rests(q, r) /\ Armed(r) /\ Tuned(r)
    BY <1>2, <2>2, <2>4, FlushUnsavedKeeps DEF q
  <2> QED
    BY <2>1, <2>2, <2>5, RestsAdd
<1>3. CASE code = "abuse"
  <2> DEFINE p == [k EXCEPT !.gaveUp = TRUE]
  <2>1. p \in Closure
    BY DEF Closure
  <2>2. Changes(k, p, {"gaveUp"})
    BY <2>1, Domain DEF Changes, Fields
  <2>3. r = FlushUnsaved(SchedulePoll(p))
    BY <1>3 DEF OnClose
  <2> HIDE DEF p
  <2> QED
    BY <1>2, <2>2, <2>3
<1>4. CASE code = "lost"
  <2> DEFINE p == ScheduleWsReconnect(c, k)
  <2>1. Changes(k, p, {"reconnectTimer"})
    BY ScheduleWsReconnectDoes
  <2>2. r = FlushUnsaved(SchedulePoll(p))
    BY <1>4 DEF OnClose
  <2> HIDE DEF p
  <2> QED
    BY <1>2, <2>1, <2>2
<1> QED
  BY <1>1, <1>3, <1>4

\* The socket closes, with any code and after any frame.
LEMMA CloseKeeps ==
    ASSUME IInv, NEW c \in Clients, NEW code \in {"not_found", "abuse", "lost"}, Close(c, code),
           Fault \/ UNCHANGED faults
    PROVE  IInv'
<1> DEFINE k == client[c]
<1>1. PICK n \in 0..Len(k.inbox) :
          Becomes(c, OnClose(c, Released(k, Surviving(k.inbox, n)), code))
  BY DEF Close
<1>2. /\ uplink' = {f \in uplink : f.client # c \/ ~f.live}
                   \cup (IF k.consumer = "ready"
                         THEN {[f EXCEPT !.live = FALSE] : f \in {g \in uplink : g.client = c}}
                         ELSE {})
      /\ outgoing' = {[m EXCEPT !.sender = @ \ {c}] : m \in outgoing}
      /\ UNCHANGED serverVars
  BY DEF Close
<1>3. k \in Closure /\ Armed(k)
  BY Now
<1> DEFINE p == Released(k, Surviving(k.inbox, n))
           r == OnClose(c, p, code)
<1>4. /\ p \in Closure /\ Rests(k, p)
      /\ p.flushing => Unanswered(p) # {} \/ p.wsFlush # NoFlush
  BY <1>3, ReleasedDoes
<1>5. Becomes(c, r)
  BY <1>1
<1> HIDE DEF p
<1>6. r \in Closure /\ Rests(p, r) /\ Armed(r) /\ Tuned(r)
  BY <1>4, OnCloseKeeps
<1> HIDE DEF r
<1>7. Rests(k, r) /\ k.doc \subseteq r.doc
  BY <1>4, <1>6, RestsAdd DEF Rests
<1>8. ServerGrows /\ Known \subseteq Known' /\ faults' \in 0..MaxFaults
  BY <1>2, <1>5, <1>7, ServerRests, KnownGrows, FaultType DEF k
<1>9. ASSUME NEW f \in uplink'
      PROVE  \/ f \in uplink
             \/ \E g \in uplink : /\ f \in Upload /\ f.client = c /\ g.client = c
                                  /\ f.txn = g.txn /\ f.edits = g.edits
  <2>1. CASE f \in uplink
    BY <2>1
  <2>2. CASE \E g \in uplink : g.client = c /\ f = [g EXCEPT !.live = FALSE]
    <3>1. PICK g \in uplink : g.client = c /\ f = [g EXCEPT !.live = FALSE]
      BY <2>2
    <3>2. g \in Upload
      BY DEF IInv, TypeOK
    <3>3. f \in Upload /\ f.client = c /\ f.txn = g.txn /\ f.edits = g.edits
      BY <3>1, <3>2 DEF Upload
    <3> QED
      BY <3>1, <3>3
  <2> QED
    BY <1>2, <2>1, <2>2
<1>10. ASSUME NEW m \in outgoing'
       PROVE  /\ m \in Announcement
              /\ \E o \in outgoing : m.seq = o.seq /\ m.prev = o.prev /\ m.edits = o.edits
  <2>1. PICK o \in outgoing : m = [o EXCEPT !.sender = @ \ {c}]
    BY <1>2
  <2>2. o \in Announcement
    BY DEF IInv, TypeOK
  <2> QED
    BY <2>1, <2>2 DEF Announcement
<1>11. /\ ClientOK(c, k, World') /\ (overlap \/ OutboxOK(c, k, World'))
  <2>1. \A f \in uplink' : f.client = c =>
            \E g \in uplink : g.client = c /\ g.txn = f.txn /\ g.edits = f.edits
    BY <1>9
  <2> QED
    BY <1>8, <2>1, Before
<1>12. ClientOK(c, r, World')
  BY <1>3, <1>6, <1>7, <1>11, RestsKeeps DEF ClientOK
<1>13. overlap' \/ OutboxOK(c, r, World')
  BY <1>3, <1>5, <1>6, <1>7, <1>11, RestsKeeps DEF Becomes
<1>14. uplink' \subseteq Upload /\ outgoing' \subseteq Announcement
  BY <1>9, <1>10 DEF IInv, TypeOK
<1>15. /\ \A f \in uplink' : f.client # c => f \in uplink
       /\ \A f \in uplink' : f.client = c => f.edits \subseteq r.doc
  BY <1>7, <1>9 DEF IInv, NetInv
<1>16. \A m \in outgoing' :
           m.edits \subseteq Known /\ Follows(m.prev, m.seq, m.edits, World')
  BY <1>8, <1>10, OutgoingLater
<1> QED
  BY <1>5, <1>7, <1>8, <1>12, <1>13, <1>14, <1>15, <1>16, Step DEF k

\* The socket is lost, or taken away.
LEMMA DisconnectKeeps ==
    ASSUME IInv, NEW c \in Clients, Disconnect(c)
    PROVE  IInv'
BY CloseKeeps DEF Disconnect

\* The consumer finds no note.
LEMMA TurnAwayKeeps ==
    ASSUME IInv, NEW c \in Clients, TurnAway(c)
    PROVE  IInv'
BY CloseKeeps DEF TurnAway

\* The socket has closed.
LEMMA FinishClosingKeeps ==
    ASSUME IInv, NEW c \in Clients, FinishClosing(c)
    PROVE  IInv'
BY CloseKeeps DEF FinishClosing

-----------------------------------------------------------------------------
(* The socket: what the server sends *)

\* A frame changes the inbox at most.
LEMMA DeliverDoes ==
    ASSUME NEW k \in Closure, NEW f \in FrameType, NEW r, r = Deliver(k, f)
    PROVE  r \in Closure /\ r.doc = k.doc
<1>1. Append(k.inbox, f) \in Seq(FrameType)
  BY Received
<1>2. CASE r = [k EXCEPT !.inbox = Append(k.inbox, f)]
  <2>1. r \in Closure
    BY <1>1, <1>2 DEF Closure
  <2> QED
    BY <1>2, <2>1, Domain DEF Fields
<1> QED
  BY <1>2 DEF Deliver

\* A frame arrives that is as sound as the rest.
LEMMA DeliverKeeps ==
    ASSUME NEW c, NEW w, NEW k \in Closure, NEW f \in FrameType, FrameSound(f, k.doc, w),
           f.type = "update" => f.edits \subseteq w.known, f.type = "ack" => f.txn <= k.txn,
           NEW r, r = Deliver(k, f)
    PROVE  /\ r \in Closure /\ r.doc = k.doc
           /\ Sound(k, w) => Sound(r, w)
           /\ KnownTo(k, w) => KnownTo(r, w)
           /\ TxnOK(c, k, w) => TxnOK(c, r, w)
           /\ Armed(k) => Armed(r)
           /\ Tuned(k) => Tuned(r)
           /\ OutboxOK(c, k, w)
              /\ (f.type = "ack" /\ f.txn = k.txn /\ k.wsFlush # NoFlush =>
                      First(k.outbox, k.wsFlush.count) \subseteq EditsOf(w.log))
                  => OutboxOK(c, r, w)
<1>1. CASE r = k
  BY <1>1
<1>2. CASE r = [k EXCEPT !.inbox = Append(k.inbox, f)]
  <2> DEFINE inbox == Append(k.inbox, f)
  <2>1. /\ inbox \in Seq(FrameType)
        /\ \A n \in DOMAIN inbox : \/ inbox[n] = f
                                   \/ n \in DOMAIN k.inbox /\ inbox[n] = k.inbox[n]
    BY Received
  <2> HIDE DEF inbox
  <2>2. r = [k EXCEPT !.inbox = inbox]
    BY <1>2 DEF inbox
  <2>3. r \in Closure
    BY <2>1, <2>2 DEF Closure
  <2>4. Changes(k, r, {"inbox"}) /\ r.inbox = inbox
    BY <2>2, <2>3, Domain DEF Changes, Fields
  <2>5. /\ r.doc = k.doc /\ r.cursor = k.cursor /\ r.outbox = k.outbox
        /\ r.poll = k.poll /\ r.handler = k.handler /\ r.compaction = k.compaction
        /\ r.flushes = k.flushes /\ r.wsFlush = k.wsFlush /\ r.txn = k.txn
    BY <2>4 DEF Changes, Fields
  <2>6. Sound(k, w) => Sound(r, w)
    <3>1. Sound(k, w) => \A n \in DOMAIN r.inbox : FrameSound(r.inbox[n], r.doc, w)
      BY <2>1, <2>4, <2>5 DEF Sound
    <3> QED
      BY <2>5, <3>1 DEF Sound
  <2>7. KnownTo(k, w) => KnownTo(r, w)
    <3>1. KnownTo(k, w) => \A n \in DOMAIN r.inbox :
              r.inbox[n].type = "update" => r.inbox[n].edits \subseteq w.known
      BY <2>1, <2>4 DEF KnownTo
    <3> QED
      BY <2>5, <3>1 DEF KnownTo
  <2>8. TxnOK(c, k, w) => TxnOK(c, r, w)
    BY <2>1, <2>4, <2>5 DEF TxnOK
  <2>9. (Armed(k) => Armed(r)) /\ (Tuned(k) => Tuned(r))
    BY <2>4, Untouched DEF ArmedFields, TunedFields
  <2>10. ASSUME OutboxOK(c, k, w),
                f.type = "ack" /\ f.txn = k.txn /\ k.wsFlush # NoFlush =>
                    First(k.outbox, k.wsFlush.count) \subseteq EditsOf(w.log)
         PROVE  OutboxOK(c, r, w)
    <3>1. ~Overlapping(r)
      BY <2>5, <2>10, SameOverlap DEF OutboxOK
    <3>2. k.wsFlush # NoFlush => \A n \in DOMAIN r.inbox :
              r.inbox[n].type = "ack" /\ r.inbox[n].txn = k.txn =>
                  First(k.outbox, k.wsFlush.count) \subseteq EditsOf(w.log)
      BY <2>1, <2>4, <2>10 DEF OutboxOK
    <3> QED
      BY <2>5, <2>10, <3>1, <3>2 DEF OutboxOK
  <2> QED
    BY <2>3, <2>5, <2>6, <2>7, <2>8, <2>9, <2>10
<1> QED
  BY <1>1, <1>2 DEF Deliver

\* An ack, and nothing else, answers what the outbox still holds.
LEMMA ServeFrameKeeps ==
    ASSUME IInv, NEW f \in uplink, ServeFrame(f)
    PROVE  IInv'
<1> DEFINE c == f.client
           k == client[c]
           Answer(frame) == Becomes(c, IF f.live THEN Deliver(k, frame) ELSE k)
           ack == [type |-> "ack", txn |-> f.txn, prev |-> NextSeq - 1, seq |-> NextSeq,
                   pending |-> Cardinality(rows) + 1]
           new == [seq |-> NextSeq, prev |-> NextSeq - 1, edits |-> f.edits,
                   sender |-> IF f.live THEN {c} ELSE {}]
<1>1. /\ uplink' = uplink \ {f}
      /\ \/ /\ Accept(f.edits) /\ Answer(ack) /\ outgoing' = outgoing \cup {new}
            /\ UNCHANGED faults
         \/ /\ \/ Becomes(c, k)
               \/ Answer([type |-> "expired"])
               \/ \E code \in {"update_too_large", "pending_tail_full", "server_error"} :
                      Answer([type |-> "error", code |-> code])
            /\ UNCHANGED <<serverVars, outgoing>>
            /\ Fault \/ UNCHANGED faults
  BY DEF ServeFrame
<1>2. /\ f \in Upload /\ c \in Clients /\ f.txn \in 1..MaxTxn /\ f.edits \in SUBSET Edits
      /\ f.edits \subseteq k.doc
  BY DEF IInv, TypeOK, Upload, NetInv
<1>3. /\ k \in Closure /\ Armed(k) /\ Tuned(k) /\ Sound(k, World) /\ KnownTo(k, World)
      /\ TxnOK(c, k, World) /\ (overlap \/ OutboxOK(c, k, World))
  BY <1>2, Now
<1>4. f.edits \subseteq Known /\ f.txn <= k.txn
  BY <1>2, <1>3, WorldFields DEF KnownTo, TxnOK
<1>5. faults' \in 0..MaxFaults
  BY <1>1, FaultType
<1>6. ASSUME ServerGrows, NEW g \in FrameType, FrameSound(g, k.doc, World'), g.type # "update",
             g.type = "ack" => g.txn = f.txn /\ f.edits \subseteq EditsOf(log'),
             NEW r, r = k \/ r = Deliver(k, g), Becomes(c, r),
             outgoing' \subseteq Announcement,
             \A m \in outgoing' : m.edits \subseteq Known /\ Follows(m.prev, m.seq, m.edits, World')
      PROVE  IInv'
  <2>1. \A h \in uplink' : h.client = c =>
            \E e \in uplink : e.client = c /\ e.txn = h.txn /\ e.edits = h.edits
    BY <1>1
  <2>2. r.doc = k.doc
    BY <1>3, <1>6, DeliverDoes
  <2>3. Known \subseteq Known'
    BY <1>2, <1>6, <2>2, KnownGrows
  <2>4. /\ ClientOK(c, k, World') /\ (overlap \/ OutboxOK(c, k, World'))
    BY <1>2, <1>6, <2>1, <2>3, Before
  <2>5. ClientOK(c, r, World')
    <3>1. CASE r = k
      BY <2>4, <3>1
    <3>2. CASE r = Deliver(k, g)
      BY <1>3, <1>4, <1>6, <2>4, <3>2, DeliverKeeps DEF ClientOK
    <3> QED
      BY <1>6, <3>1, <3>2
  <2>6. ASSUME OutboxOK(c, k, World'), ~overlap
        PROVE  OutboxOK(c, r, World')
    <3>1. CASE r = k
      BY <2>6, <3>1
    <3>2. CASE r = Deliver(k, g)
      <4>1. ASSUME g.type = "ack", g.txn = k.txn, k.wsFlush # NoFlush
            PROVE  First(k.outbox, k.wsFlush.count) \subseteq EditsOf(World'.log)
        <5>1. First(k.outbox, k.wsFlush.count) \subseteq f.edits
          BY <1>3, <1>6, <2>6, <4>1, WorldFields DEF OutboxOK
        <5> QED
          BY <1>6, <4>1, <5>1, NextWorld
      <4> QED
        BY <1>3, <1>4, <1>6, <2>6, <3>2, <4>1, DeliverKeeps
    <3> QED
      BY <1>6, <3>1, <3>2
  <2>7. overlap' \/ OutboxOK(c, r, World')
    BY <1>6, <2>4, <2>6 DEF Becomes
  <2>8. /\ uplink' \subseteq Upload
        /\ \A h \in uplink' : h.client # c => h \in uplink
        /\ \A h \in uplink' : h.client = c => h.edits \subseteq r.doc
    BY <1>1, <2>2 DEF IInv, TypeOK, NetInv
  <2> HIDE DEF c
  <2> QED
    BY <1>2, <1>5, <1>6, <2>2, <2>5, <2>7, <2>8, Step
<1>7. CASE /\ \/ Becomes(c, k)
              \/ Answer([type |-> "expired"])
              \/ \E code \in {"update_too_large", "pending_tail_full", "server_error"} :
                     Answer([type |-> "error", code |-> code])
           /\ UNCHANGED <<serverVars, outgoing>>
  <2>1. PICK g \in FrameType : /\ g.type \in {"expired", "error"}
                               /\ Becomes(c, k) \/ Answer(g)
    <3>1. /\ [type |-> "expired"] \in FrameType
          /\ \A code \in {"update_too_large", "pending_tail_full", "server_error"} :
                [type |-> "error", code |-> code] \in FrameType
      BY DEF FrameType
    <3> QED
      BY <1>7, <3>1
  <2>2. ServerGrows /\ FrameSound(g, k.doc, World')
    BY <1>7, <2>1, ServerRests DEF FrameSound
  <2>3. PICK r : (r = k \/ r = Deliver(k, g)) /\ Becomes(c, r)
    BY <2>1
  <2>4. Known \subseteq Known'
    <3>1. r.doc = k.doc
      <4>1. CASE r = k
        BY <4>1
      <4>2. CASE r = Deliver(k, g)
        BY <1>3, <2>1, <4>2, DeliverDoes
      <4> QED
        BY <2>3, <4>1, <4>2
    <3> QED
      BY <1>2, <2>3, <3>1, KnownGrows
  <2>5. /\ outgoing' \subseteq Announcement
        /\ \A m \in outgoing' :
               m.edits \subseteq Known /\ Follows(m.prev, m.seq, m.edits, World')
    BY <1>7, <2>2, <2>4, OutgoingLater DEF IInv, TypeOK
  <2> QED
    BY <1>6, <2>1, <2>2, <2>3, <2>5
<1>8. CASE Accept(f.edits) /\ Answer(ack) /\ outgoing' = outgoing \cup {new}
  <2>1. /\ ServerGrows
        /\ Limit' = NextSeq /\ NextSeq - 1 = Limit /\ NextSeq \in Seqs
        /\ Cardinality(rows) + 1 \in 0..MaxPending
        /\ \A r \in log' : Limit < r.seq => r.edits \subseteq f.edits
        /\ f.edits \subseteq EditsOf(log')
    BY <1>2, <1>4, <1>8, AcceptGrows
  <2>2. Limit \in Nat
    BY ServerOK, WorldTypes, Bounds
  <2>3. /\ ack \in FrameType /\ ack.type = "ack" /\ ack.txn = f.txn /\ ack.prev = Limit
        /\ ack.seq = NextSeq
    BY <1>2, <2>1, <2>2 DEF FrameType
  <2>4. /\ new \in Announcement /\ new.seq = NextSeq /\ new.prev = Limit /\ new.edits = f.edits
    BY <1>2, <2>1, <2>2 DEF Announcement
  <2>5. PICK r : (r = k \/ r = Deliver(k, ack)) /\ Becomes(c, r)
    BY <1>8
  <2> HIDE DEF ack, new
  <2>6. Limit' <= Limit'
    BY <2>1, Bounds DEF Seqs
  <2>7. Follows(Limit, NextSeq, f.edits, World') /\ Follows(Limit, NextSeq, k.doc, World')
    BY <1>2, <2>1, <2>6, NextWorld DEF Follows
  <2>8. FrameSound(ack, k.doc, World')
    BY <2>3, <2>7 DEF FrameSound
  <2>9. Known \subseteq Known'
    <3>1. r.doc = k.doc
      <4>1. CASE r = k
        BY <4>1
      <4>2. CASE r = Deliver(k, ack)
        BY <1>3, <2>3, <4>2, DeliverDoes
      <4> QED
        BY <2>5, <4>1, <4>2
    <3> QED
      BY <1>2, <2>5, <3>1, KnownGrows
  <2>10. outgoing' \subseteq Announcement
    BY <1>8, <2>4 DEF IInv, TypeOK
  <2>11. \A m \in outgoing' :
             m.edits \subseteq Known /\ Follows(m.prev, m.seq, m.edits, World')
    BY <1>4, <1>8, <2>1, <2>4, <2>7, <2>9, OutgoingLater
  <2> QED
    BY <1>6, <2>1, <2>3, <2>5, <2>8, <2>10, <2>11
<1> QED
  BY <1>1, <1>7, <1>8

\* No document changes, and nothing is sent by a client.
LEMMA WorldStep ==
    ASSUME IInv, ServerGrows, client' \in [Clients -> Closure],
           \A d \in Clients : client'[d].doc = client[d].doc,
           UNCHANGED <<uplink, overlap>>, outgoing' \subseteq outgoing, faults' \in 0..MaxFaults,
           \A d \in Clients : ClientOK(d, client[d], World') => ClientOK(d, client'[d], World'),
           \A d \in Clients : OutboxOK(d, client[d], World') => OutboxOK(d, client'[d], World')
    PROVE  IInv'
<1>1. Known' = Known
  BY ClientAssumption DEF Known
<1>2. ASSUME NEW d \in Clients
      PROVE  ClientOK(d, client'[d], World') /\ (overlap' \/ OutboxOK(d, client'[d], World'))
  BY <1>1, Before
<1>3. TypeOK'
  BY DEF IInv, TypeOK, ServerGrows, ServerInv
<1>4. NetInv'
  <2>1. \A f \in uplink' : f.edits \subseteq client'[f.client].doc
    BY DEF IInv, TypeOK, Upload, NetInv
  <2>2. \A m \in outgoing' : Follows(m.prev, m.seq, m.edits, World')
    BY <1>1, OutgoingLater
  <2> QED
    BY <2>1, <2>2 DEF NetInv
<1>5. KnownInv'
  BY <1>1 DEF IInv, KnownInv, ServerGrows
<1>6. RowsInv' /\ LogInv'
  BY DEF ServerGrows, ServerInv
<1>7. \A d \in Clients : ClientOK(d, client'[d], World')
  BY <1>2
<1>8. ~overlap' => \A d \in Clients : OutboxOK(d, client'[d], World')
  BY <1>2
<1> QED
  BY <1>3, <1>4, <1>5, <1>6, <1>7, <1>8 DEF IInv

\* Every joined socket gets the update.
LEMMA BroadcastKeeps ==
    ASSUME IInv, NEW m \in outgoing, Broadcast(m)
    PROVE  IInv'
<1> DEFINE f == [type |-> "update", prev |-> m.prev, seq |-> m.seq, edits |-> m.edits]
<1>1. /\ client' = [d \in Clients |->
                       IF client[d].consumer = "ready" /\ d \notin m.sender
                       THEN Deliver(client[d], f) ELSE client[d]]
      /\ outgoing' = outgoing \ {m}
      /\ UNCHANGED <<serverVars, uplink, faults, overlap>>
  BY DEF Broadcast
<1>2. /\ f \in FrameType /\ f.type = "update" /\ f.edits = m.edits /\ f.prev = m.prev
      /\ f.seq = m.seq
  BY DEF IInv, TypeOK, Announcement, FrameType
<1>3. m.edits \subseteq Known /\ Follows(m.prev, m.seq, m.edits, World)
  BY DEF IInv, NetInv, KnownInv
<1> HIDE DEF f
<1>4. ServerGrows
  BY <1>1, ServerRests
<1>5. ASSUME NEW d \in Clients
      PROVE  /\ client'[d] \in Closure /\ client'[d].doc = client[d].doc
             /\ client'[d] = client[d] \/ client'[d] = Deliver(client[d], f)
  <2>1. client[d] \in Closure
    BY Now
  <2>3. CASE client'[d] = client[d]
    BY <2>1, <2>3
  <2>4. CASE client'[d] = Deliver(client[d], f)
    BY <1>2, <2>1, <2>4, DeliverDoes
  <2> QED
    BY <1>1, <2>3, <2>4
<1>6. client' \in [Clients -> Closure]
  <2>1. client' = [d \in Clients |-> client'[d]]
    BY <1>1
  <2> QED
    BY <1>5, <2>1
<1>7. Known' = Known
  BY <1>5, ClientAssumption DEF Known
<1>8. Follows(m.prev, m.seq, m.edits, World')
  BY <1>4, <1>7, OutgoingLater
<1>9. ASSUME NEW d \in Clients
      PROVE  /\ ClientOK(d, client[d], World') => ClientOK(d, client'[d], World')
             /\ OutboxOK(d, client[d], World') => OutboxOK(d, client'[d], World')
  <2>1. client[d] \in Closure
    BY Now
  <2>2. FrameSound(f, client[d].doc, World') /\ f.edits \subseteq World'.known
    BY <1>2, <1>3, <1>7, <1>8, NextWorld DEF FrameSound
  <2>3. CASE client'[d] = client[d]
    BY <2>3
  <2>4. CASE client'[d] = Deliver(client[d], f)
    BY <1>2, <2>1, <2>2, <2>4, DeliverKeeps DEF ClientOK
  <2> QED
    BY <1>5, <2>3, <2>4
<1>10. faults' \in 0..MaxFaults /\ outgoing' \subseteq outgoing /\ UNCHANGED <<uplink, overlap>>
  BY <1>1, FaultType
<1> QED
  BY <1>4, <1>5, <1>6, <1>9, <1>10, WorldStep

\* An update is lost on its way to the others.
LEMMA LoseBroadcastKeeps ==
    ASSUME IInv, NEW m \in outgoing, LoseBroadcast(m)
    PROVE  IInv'
<1>1. /\ outgoing' \subseteq outgoing /\ UNCHANGED <<serverVars, client, uplink, overlap>>
      /\ faults' \in 0..MaxFaults
  BY FaultType DEF LoseBroadcast
<1>2. ServerGrows
  BY <1>1, ServerRests
<1>3. client \in [Clients -> Closure]
  BY DEF IInv, TypeOK
<1> QED
  BY <1>1, <1>2, <1>3, WorldStep

\* The note expires.
LEMMA ExpireNoteKeeps ==
    ASSUME IInv, ExpireNote
    PROVE  IInv'
<1>1. Expire /\ UNCHANGED <<client, uplink, outgoing, faults, log, overlap>>
  BY DEF ExpireNote
<1>2. ServerGrows /\ faults' \in 0..MaxFaults
  BY <1>1, ExpireGrows, FaultType
<1>3. client \in [Clients -> Closure]
  BY DEF IInv, TypeOK
<1> QED
  BY <1>1, <1>2, <1>3, WorldStep

-----------------------------------------------------------------------------
(* The inbox *)

\* The inbox handler is given something to apply.
LEMMA HandleKeeps ==
    ASSUME NEW c, NEW w, NEW k \in Closure, NEW r, Changes(k, r, {"handler"}),
           r.handler.st \in {"reply", "apply"}, k.handler = Idle,
           r.handler.st = "apply" \/ r.handler.found =>
               Holds(k.doc \cup r.handler.edits, r.handler.seq, w),
           r.handler.edits \subseteq w.known
    PROVE  /\ Sound(k, w) => Sound(r, w)
           /\ KnownTo(k, w) => KnownTo(r, w)
           /\ TxnOK(c, k, w) => TxnOK(c, r, w)
           /\ OutboxOK(c, k, w) => OutboxOK(c, r, w)
           /\ Armed(k) => Armed(r)
           /\ Tuned(k) => Tuned(r)
<1>1. /\ r.stopped = k.stopped /\ r.halted = k.halted
      /\ r.outbox = k.outbox /\ r.flushTimer = k.flushTimer /\ r.flushing = k.flushing
      /\ r.flushes = k.flushes /\ r.wsFlush = k.wsFlush /\ r.poll = k.poll
      /\ r.doc = k.doc /\ r.cursor = k.cursor
      /\ r.compaction = k.compaction /\ r.inbox = k.inbox /\ r.txn = k.txn
  BY DEF Changes, Fields
<1>2. Sound(k, w) => Sound(r, w)
  BY <1>1 DEF Sound
<1>3. KnownTo(k, w) => KnownTo(r, w)
  BY <1>1 DEF KnownTo
<1>4. TxnOK(c, k, w) => TxnOK(c, r, w)
  BY <1>1 DEF TxnOK
<1>5. OutboxOK(c, k, w) => OutboxOK(c, r, w)
  BY <1>1, SameOverlap DEF OutboxOK
<1>6. Armed(k) => Armed(r)
  BY <1>1, SameOverlap, Domain DEF Armed
<1>7. Tuned(k) => Tuned(r)
  BY Untouched DEF TunedFields
<1> QED
  BY <1>2, <1>3, <1>4, <1>5, <1>6, <1>7

\* A client that is all right but for what is due.
Fit(c, k) ==
    /\ k \in Closure /\ Tuned(k) /\ Sound(k, World) /\ KnownTo(k, World)
    /\ TxnOK(c, k, World) /\ (overlap \/ OutboxOK(c, k, World))

\* A gap fill asks for what is missing.
LEMMA GapFillKeeps ==
    ASSUME IInv, NEW c \in Clients, NEW k, Fit(c, k), k.handler = Idle, NEW r, r = GapFill(k)
    PROVE  /\ Fit(c, r) /\ r.doc = k.doc
           /\ Armed(k) => Armed(r)
<1>1. CASE r = k
  BY <1>1
<1>2. CASE r = [k EXCEPT !.handler = Reply(k.cursor)]
  <2> DEFINE body == Reply(k.cursor)
  <2>1. k \in Closure /\ k.cursor \in {NoCursor} \cup 0..MaxSeq /\ Holds(k.doc, k.cursor, World)
    BY Numbers DEF Fit, Sound
  <2>2. /\ body \in ReplyTask /\ body.edits \subseteq Known
        /\ body.found => Holds(k.doc \cup body.edits, body.seq, World)
    BY <2>1, ReplyOK
  <2> HIDE DEF body
  <2>3. r = [k EXCEPT !.handler = body]
    BY <1>2 DEF body
  <2>4. body \in HandlerTask /\ body.st = "reply"
    BY <2>2 DEF HandlerTask, ReplyTask
  <2>5. r \in Closure
    BY <2>1, <2>3, <2>4 DEF Closure
  <2>6. Changes(k, r, {"handler"}) /\ r.handler = body /\ r.doc = k.doc
    BY <2>1, <2>3, <2>5, Domain DEF Changes, Fields
  <2>7. /\ Sound(k, World) => Sound(r, World)
        /\ KnownTo(k, World) => KnownTo(r, World)
        /\ TxnOK(c, k, World) => TxnOK(c, r, World)
        /\ OutboxOK(c, k, World) => OutboxOK(c, r, World)
        /\ Armed(k) => Armed(r)
        /\ Tuned(k) => Tuned(r)
    BY <2>1, <2>2, <2>4, <2>6, HandleKeeps, WorldFields
  <2> QED
    BY <2>5, <2>6, <2>7 DEF Fit
<1> QED
  BY <1>1, <1>2 DEF GapFill

\* An update without a gap before it is applied, or is old.
LEMMA HandleUpdateKeeps ==
    ASSUME IInv, NEW c \in Clients, NEW k, Fit(c, k), k.handler = Idle, Armed(k),
           NEW f \in FrameType, f.type = "update", FrameSound(f, k.doc, World),
           f.edits \subseteq Known, NEW r, r = HandleUpdate(k, f)
    PROVE  Fit(c, r) /\ Armed(r) /\ r.doc = k.doc
<1>1. CASE r = GapFill(k)
  BY <1>1, GapFillKeeps
<1>2. CASE r = k
  BY <1>2
<1>3. CASE /\ r = [k EXCEPT !.handler = [st |-> "apply", seq |-> f.seq, edits |-> f.edits]]
           /\ ~(f.prev > k.cursor)
  <2> DEFINE t == [st |-> "apply", seq |-> f.seq, edits |-> f.edits]
  <2>1. /\ f.prev \in Int /\ f.seq \in Int /\ f.seq \in Seqs /\ f.edits \in SUBSET Edits
        /\ k \in Closure /\ k.cursor \in Int /\ \A x \in log : x.seq \in Int
    BY FrameNumbers, Numbers, ServerOK, WorldTypes DEF Fit, ServerInv
  <2>2. t \in HandlerTask /\ t.st = "apply" /\ t.seq = f.seq /\ t.edits = f.edits
    BY <2>1 DEF HandlerTask
  <2> HIDE DEF t
  <2>3. r = [k EXCEPT !.handler = t]
    BY <1>3 DEF t
  <2>4. r \in Closure
    BY <2>1, <2>2, <2>3 DEF Closure
  <2>5. Changes(k, r, {"handler"}) /\ r.handler = t /\ r.doc = k.doc
    BY <2>1, <2>3, <2>4, Domain DEF Changes, Fields
  <2>6. Holds(k.doc \cup f.edits, f.seq, World)
    <3>1. Holds(k.doc, k.cursor, World) /\ Follows(f.prev, f.seq, f.edits, World)
      BY DEF Fit, Sound, FrameSound
    <3>2. ASSUME NEW x \in log, x.seq <= f.seq
          PROVE  x.edits \subseteq k.doc \cup f.edits
      <4>1. CASE x.seq <= k.cursor
        BY <3>1, <4>1, WorldFields DEF Holds
      <4>2. CASE x.seq > k.cursor
        BY <1>3, <2>1, <3>1, <3>2, <4>2, WorldFields DEF Follows
      <4> QED
        BY <2>1, <4>1, <4>2
    <3> QED
      BY <3>1, <3>2, WorldFields DEF Holds, Follows
  <2>7. /\ Sound(k, World) => Sound(r, World)
        /\ KnownTo(k, World) => KnownTo(r, World)
        /\ TxnOK(c, k, World) => TxnOK(c, r, World)
        /\ OutboxOK(c, k, World) => OutboxOK(c, r, World)
        /\ Armed(k) => Armed(r)
        /\ Tuned(k) => Tuned(r)
    BY <2>1, <2>2, <2>5, <2>6, HandleKeeps, WorldFields
  <2> QED
    BY <2>4, <2>5, <2>7 DEF Fit
<1> QED
  BY <1>1, <1>2, <1>3 DEF HandleUpdate, advanceCursor

\* A client whose data rests and whose flushes and wait stand goes on as fit.
LEMMA FitRests ==
    ASSUME NEW c, NEW k, Fit(c, k), NEW r \in Closure, Rests(k, r), Tuned(r),
           \/ r.flushes = k.flushes /\ r.wsFlush = k.wsFlush
           \/ ~Overlapping(r)
    PROVE  Fit(c, r) /\ r.doc = k.doc
<1>1. k \in Closure /\ r.doc = k.doc
  BY DEF Fit, Rests
<1>2. OutboxOK(c, k, World) => OutboxOK(c, r, World)
  BY <1>1, SameOverlap, RestsKeeps DEF OutboxOK
<1> QED
  BY <1>1, <1>2, RestsKeeps DEF Fit

\* Giving up a wait cannot make two flushes overlap.
LEMMA FewerOverlap ==
    ASSUME NEW k, NEW r, ~Overlapping(k), r.flushes = k.flushes, r.wsFlush \in {k.wsFlush, NoFlush}
    PROVE  ~Overlapping(r)
BY DEF Overlapping, Unanswered

\* The part of handleAck that settles the flush it answers.
Answered(k, f) ==
    IF k.wsFlush # NoFlush /\ f.txn = k.wsFlush.txn
    THEN [ClearWsFlushWait(DropSent(k, k.wsFlush.count)) EXCEPT !.pending = f.pending]
    ELSE k

\* What was acked leaves the outbox.
LEMMA AnsweredKeeps ==
    ASSUME NEW c, NEW k, Fit(c, k), Armed(k), NEW f \in FrameType, f.type = "ack",
           f.txn = k.txn /\ k.wsFlush # NoFlush =>
               (overlap \/ First(k.outbox, k.wsFlush.count) \subseteq EditsOf(log)),
           NEW r, r = Answered(k, f)
    PROVE  /\ Fit(c, r) /\ r.doc = k.doc /\ r.cursor = k.cursor /\ r.handler = k.handler
           /\ Armed(r) \/ ~r.flushing
<1>1. CASE r = k
  BY <1>1
<1>2. CASE k.wsFlush # NoFlush /\ f.txn = k.wsFlush.txn
  <2> DEFINE n == k.wsFlush.count
             p0 == DropSent(k, n)
             p1 == ClearWsFlushWait(p0)
  <2>1. k \in Closure /\ n \in Nat /\ f.pending \in 0..MaxPending /\ k.wsFlush.txn = k.txn
    BY <1>2, FrameNumbers DEF Fit, Closure, TxnOK
  <2>2. /\ Changes(k, p0, {"outbox"})
        /\ p0.outbox = SubSeq(k.outbox, n + 1, Len(k.outbox))
        /\ Range(k.outbox) \subseteq First(k.outbox, n) \cup Range(p0.outbox)
        /\ Range(p0.outbox) \subseteq Range(k.outbox)
    <3> HIDE DEF n
    <3>1. p0 = DropSent(k, n)
      OBVIOUS
    <3> HIDE DEF p0
    <3> QED
      BY <2>1, <3>1, DropSentDoes
  <2> HIDE DEF p0, n
  <2>3. /\ Changes(p0, p1, {"wsFlush", "flushing"}) /\ p1.wsFlush = NoFlush /\ ~p1.flushing
    BY <2>2, ClearWsFlushWaitDoes DEF Changes
  <2>4. r = [p1 EXCEPT !.pending = f.pending]
    BY <1>2 DEF Answered, p0, n
  <2> HIDE DEF p1
  <2>5. r \in Closure
    BY <2>1, <2>3, <2>4 DEF Changes, Closure
  <2>6. Changes(p1, r, {"pending"})
    BY <2>3, <2>4, <2>5, Domain DEF Changes, Fields
  <2>7. /\ r.doc = k.doc /\ r.cursor = k.cursor /\ r.outbox = p0.outbox
        /\ r.poll = k.poll /\ r.handler = k.handler /\ r.compaction = k.compaction
        /\ r.inbox = k.inbox /\ r.flushes = k.flushes /\ r.txn = k.txn
        /\ r.wsFlush = NoFlush /\ ~r.flushing
        /\ r.started = k.started /\ r.stopped = k.stopped /\ r.pollTimer = k.pollTimer
        /\ r.ws = k.ws
    BY <2>2, <2>3, <2>6 DEF Changes, Fields
  <2>8. Sound(r, World) /\ KnownTo(r, World) /\ Tuned(r)
    BY <2>2, <2>7 DEF Fit, Sound, KnownTo, Tuned
  <2>9. TxnOK(c, r, World)
    BY <2>7 DEF Fit, TxnOK
  <2>10. ASSUME OutboxOK(c, k, World), ~overlap
         PROVE  OutboxOK(c, r, World)
    <3>1. First(k.outbox, n) \subseteq EditsOf(World.log)
      BY <1>2, <2>1, <2>10, WorldFields DEF n
    <3>2. {e \in r.doc : Author[e] = c} \subseteq Range(r.outbox) \cup EditsOf(World.log)
      BY <2>2, <2>7, <2>10, <3>1 DEF OutboxOK
    <3>3. Unanswered(k) = {}
      BY <1>2, <2>10 DEF OutboxOK, Overlapping
    <3>4. \A i \in Slots : FlushOK(r.flushes[i], r.outbox, World)
      <4>1. \A i \in Slots : r.flushes[i].st \in {"idle", "compacting"}
        BY <2>7, <3>3 DEF Unanswered
      <4> QED
        BY <4>1 DEF FlushOK
    <3>5. ~Overlapping(r)
      BY <2>7, <2>10, FewerOverlap DEF OutboxOK
    <3> QED
      BY <2>7, <3>2, <3>4, <3>5 DEF OutboxOK
  <2> QED
    BY <2>5, <2>7, <2>8, <2>9, <2>10 DEF Fit
<1> QED
  BY <1>1, <1>2 DEF Answered

\* A step that ends in a client that is all right.
LEMMA FitStep ==
    ASSUME IInv, UNCHANGED serverVars, UNCHANGED netVars, Fault \/ UNCHANGED faults,
           NEW c \in Clients, NEW r, Becomes(c, r), client[c].doc \subseteq r.doc,
           Fit(c, r), Armed(r)
    PROVE  IInv'
<1>1. ClientOK(c, r, World)
  BY DEF Fit, ClientOK
<1>2. overlap' \/ OutboxOK(c, r, World)
  BY DEF Fit, Becomes
<1> QED
  BY <1>1, <1>2, LocalStep

\* The inbox without its next frame.
Popped(k) == [k EXCEPT !.inbox = Tail(@)]

\* A client goes on with the next frame; all that has changed is its inbox.
LEMMA PopKeeps ==
    ASSUME IInv, NEW c \in Clients, NEW k, k = client[c], k.inbox # <<>>,
           NEW f, f = Head(k.inbox), NEW p, p = Popped(k)
    PROVE  /\ Fit(c, p) /\ Armed(p) /\ p.doc = k.doc /\ p.handler = k.handler
           /\ f \in FrameType /\ FrameSound(f, p.doc, World)
           /\ f.type = "update" => f.edits \subseteq Known
           /\ f.type = "ack" /\ f.txn = p.txn /\ p.wsFlush # NoFlush =>
                  (overlap \/ First(p.outbox, p.wsFlush.count) \subseteq EditsOf(log))
<1>1. /\ k \in Closure /\ Armed(k) /\ Tuned(k) /\ Sound(k, World) /\ KnownTo(k, World)
      /\ TxnOK(c, k, World) /\ (overlap \/ OutboxOK(c, k, World))
  BY Now
<1>2. k.inbox \in Seq(FrameType)
  BY <1>1 DEF Closure
<1> DEFINE inbox == Tail(k.inbox)
<1>3. /\ 1 \in DOMAIN k.inbox /\ f = k.inbox[1] /\ f \in FrameType
      /\ inbox \in Seq(FrameType)
      /\ \A n \in DOMAIN inbox : \E m \in DOMAIN k.inbox : inbox[n] = k.inbox[m]
  <2>1. Len(k.inbox) \in Nat /\ Len(k.inbox) # 0
    BY <1>2
  <2>2. /\ 1 \in DOMAIN k.inbox /\ f = k.inbox[1] /\ f \in FrameType
        /\ inbox \in Seq(FrameType)
    BY <1>2, <2>1
  <2>3. \A n \in DOMAIN inbox : n + 1 \in DOMAIN k.inbox /\ inbox[n] = k.inbox[n + 1]
    BY <1>2, <2>1
  <2> QED
    BY <2>2, <2>3
<1> HIDE DEF inbox
<1>4. p = [k EXCEPT !.inbox = inbox]
  BY DEF inbox, Popped
<1>5. p \in Closure
  BY <1>1, <1>3, <1>4 DEF Closure
<1>6. Changes(k, p, {"inbox"}) /\ p.inbox = inbox
  BY <1>1, <1>4, <1>5, Domain DEF Changes, Fields
<1>7. \A g \in Fields \ {"inbox"} : p[g] = k[g]
  BY <1>6 DEF Changes
<1>8. /\ p.doc = k.doc /\ p.handler = k.handler /\ p.txn = k.txn /\ p.outbox = k.outbox
      /\ p.flushes = k.flushes /\ p.wsFlush = k.wsFlush
  BY <1>7 DEF Fields
<1>9. Rests(k, p)
  BY <1>3, <1>6, <1>7 DEF Rests, Fields
<1>10. Armed(p) /\ Tuned(p)
  BY <1>1, <1>6, Untouched DEF ArmedFields, TunedFields
<1>11. Fit(c, k)
  BY <1>1 DEF Fit
<1>12. Fit(c, p)
  BY <1>5, <1>8, <1>9, <1>10, <1>11, FitRests
<1>13. FrameSound(f, p.doc, World)
  BY <1>1, <1>3, <1>8 DEF Sound
<1>14. f.type = "update" => f.edits \subseteq Known
  BY <1>1, <1>3, WorldFields DEF KnownTo
<1>15. f.type = "ack" /\ f.txn = p.txn /\ p.wsFlush # NoFlush =>
           (overlap \/ First(p.outbox, p.wsFlush.count) \subseteq EditsOf(log))
  BY <1>1, <1>3, <1>8, WorldFields DEF OutboxOK
<1> QED
  BY <1>3, <1>8, <1>10, <1>12, <1>13, <1>14, <1>15

\* An ack settles its flush, moves the cursor if nothing is missing, and asks for
\* what is.
LEMMA HandleAckKeeps ==
    ASSUME IInv, NEW c \in Clients, NEW k, Fit(c, k), k.handler = Idle, Armed(k),
           NEW f \in FrameType, f.type = "ack", FrameSound(f, k.doc, World),
           f.txn = k.txn /\ k.wsFlush # NoFlush =>
               (overlap \/ First(k.outbox, k.wsFlush.count) \subseteq EditsOf(log)),
           NEW r, r = HandleAck(k, f)
    PROVE  Fit(c, r) /\ Armed(r) /\ r.doc = k.doc
<1> DEFINE step == advanceCursor(k.cursor, f.prev, f.seq)
           dropped == Answered(k, f)
           moved == [dropped EXCEPT !.cursor = step.cursor]
           armed == MaybeCompact(moved)
           flushed == IF armed.outbox = <<>> THEN armed ELSE ScheduleFlush(armed)
<1>1. r = flushed \/ r = GapFill(flushed)
  BY DEF HandleAck, Answered
<1>2. /\ step.cursor \in {k.cursor, f.seq}
      /\ step.cursor # k.cursor => step.cursor = f.seq /\ f.prev <= k.cursor
  BY DEF advanceCursor
<1> DEFINE n == step.cursor
<1>3. moved = [dropped EXCEPT !.cursor = n]
  OBVIOUS
<1>4. /\ n \in {k.cursor, f.seq}
      /\ n # k.cursor => n = f.seq /\ f.prev <= k.cursor
  BY <1>2
<1> HIDE DEF step, n
<1>5. /\ Fit(c, dropped) /\ dropped.doc = k.doc /\ dropped.cursor = k.cursor
      /\ dropped.handler = Idle
      /\ Armed(dropped) \/ ~dropped.flushing
  BY AnsweredKeeps
<1> HIDE DEF dropped
<1>6. dropped \in Closure
  BY <1>5 DEF Fit
<1>7. /\ k \in Closure /\ k.cursor \in Int /\ k.cursor \in 0..MaxSeq
      /\ f.prev \in Int /\ f.seq \in Int /\ f.seq \in Seqs
      /\ \A x \in log : x.seq \in Int
  BY FrameNumbers, Numbers, ServerOK, WorldTypes DEF Fit, ServerInv
<1>8. moved \in Closure
  <2>1. n \in 0..MaxSeq
    BY <1>4, <1>7, Bounds DEF Seqs
  <2> QED
    BY <1>3, <1>6, <2>1 DEF Closure
<1>9. Changes(dropped, moved, {"cursor"}) /\ moved.cursor = n
  BY <1>3, <1>6, <1>8, Domain DEF Changes, Fields
<1>10. /\ moved.doc = k.doc /\ moved.handler = Idle /\ moved.flushing = dropped.flushing
  BY <1>5, <1>9 DEF Changes, Fields
<1>11. Holds(k.doc, n, World)
  <2>1. Holds(k.doc, k.cursor, World) /\ Follows(f.prev, f.seq, k.doc, World)
    BY DEF Fit, Sound, FrameSound
  <2>2. CASE n = k.cursor
    BY <2>1, <2>2
  <2>3. CASE n = f.seq /\ f.prev <= k.cursor
    <3>1. ASSUME NEW x \in log, x.seq <= f.seq
          PROVE  x.edits \subseteq k.doc
      <4>1. CASE x.seq <= k.cursor
        BY <2>1, <4>1, WorldFields DEF Holds
      <4>2. CASE x.seq > k.cursor
        BY <1>7, <2>1, <2>3, <3>1, <4>2, WorldFields DEF Follows
      <4> QED
        BY <1>7, <4>1, <4>2
    <3> QED
      BY <2>1, <2>3, <3>1, WorldFields DEF Holds, Follows
  <2> QED
    BY <1>4, <2>2, <2>3
<1> HIDE DEF moved
<1>12. Fit(c, moved) /\ (Armed(moved) \/ ~moved.flushing)
  <2>1. Changes(dropped, moved, {"doc", "cursor", "pending"})
    BY <1>9 DEF Changes
  <2>2. moved.doc = dropped.doc \cup {} /\ Holds(moved.doc, moved.cursor, World)
    BY <1>5, <1>9, <1>10, <1>11
  <2>3. /\ Sound(dropped, World) => Sound(moved, World)
        /\ KnownTo(dropped, World) => KnownTo(moved, World)
        /\ TxnOK(c, dropped, World) => TxnOK(c, moved, World)
        /\ OutboxOK(c, dropped, World) => OutboxOK(c, moved, World)
        /\ Armed(dropped) => Armed(moved)
        /\ Tuned(dropped) => Tuned(moved)
    <3> DEFINE E == {}
    <3>1. moved.doc = dropped.doc \cup E
      BY <2>2
    <3>2. E \subseteq World.known /\ {e \in E : Author[e] = c} \subseteq dropped.doc
      OBVIOUS
    <3> HIDE DEF E
    <3> QED
      BY <1>6, <2>1, <2>2, <3>1, <3>2, Learn
  <2> QED
    BY <1>5, <1>8, <1>10, <2>3 DEF Fit
<1>13. Changes(moved, armed, {"compaction"}) /\ Rests(moved, armed)
  BY <1>8, MaybeCompactDoes
<1> HIDE DEF armed
<1>14. /\ armed \in Closure /\ armed.flushes = moved.flushes /\ armed.wsFlush = moved.wsFlush
       /\ armed.handler = Idle /\ armed.flushing = moved.flushing
  BY <1>10, <1>13 DEF Changes, Fields
<1>15. Tuned(armed) /\ (Armed(armed) \/ ~armed.flushing)
  <2>1. Tuned(moved)
    BY <1>12 DEF Fit
  <2> QED
    BY <1>12, <1>13, <1>14, <2>1, Untouched DEF ArmedFields, TunedFields
<1>16. Fit(c, armed) /\ armed.doc = k.doc
  BY <1>10, <1>12, <1>13, <1>14, <1>15, FitRests
<1>17. Fit(c, flushed) /\ Armed(flushed) /\ flushed.doc = k.doc /\ flushed.handler = Idle
  <2>1. CASE armed.outbox = <<>>
    <3>1. Armed(armed)
      BY <1>15, <2>1 DEF Armed
    <3> QED
      BY <1>14, <1>16, <2>1, <3>1
  <2>2. CASE armed.outbox # <<>>
    <3>1. flushed = ScheduleFlush(armed)
      BY <2>2
    <3> HIDE DEF flushed
    <3>2. /\ flushed \in Closure /\ Changes(armed, flushed, {"flushTimer"})
          /\ Rests(armed, flushed) /\ Armed(flushed) /\ Tuned(flushed)
      BY <1>14, <1>15, <3>1, ScheduleFlushKeeps
    <3>3. /\ flushed.flushes = armed.flushes /\ flushed.wsFlush = armed.wsFlush
          /\ flushed.handler = Idle
      BY <1>14, <3>2 DEF Changes, Fields
    <3>4. Fit(c, flushed) /\ flushed.doc = armed.doc
      BY <1>16, <3>2, <3>3, FitRests
    <3> QED
      BY <1>16, <3>2, <3>3, <3>4
  <2> QED
    BY <2>1, <2>2
<1> HIDE DEF flushed
<1>18. CASE r = GapFill(flushed)
  BY <1>17, <1>18, GapFillKeeps
<1> QED
  BY <1>1, <1>17, <1>18

\* A refusal ends the wait for an ack; what was refused is tried again, folded first,
\* or given up.
LEMMA HandleErrorFrameKeeps ==
    ASSUME NEW c \in Clients, NEW k, Fit(c, k), k.handler = Idle, Armed(k),
           NEW f \in FrameType, f.type = "error", NEW r, r = HandleErrorFrame(k, f)
    PROVE  Fit(c, r) /\ Armed(r) /\ r.doc = k.doc
<1> DEFINE clear == ClearWsFlushWait(k)
<1>1. k \in Closure /\ Tuned(k)
  BY DEF Fit
<1>2. /\ Changes(k, clear, {"wsFlush", "flushing"})
      /\ clear.wsFlush = NoFlush /\ ~clear.flushing
  BY <1>1, ClearWsFlushWaitDoes
<1>3. /\ \/ f.code = "pending_tail_full" /\ MayCompact(clear)
            /\ r = StartCompact([clear EXCEPT !.handler = [st |-> "compact"]], Frame)
         \/ r = ScheduleFlush(clear)
         \/ r = HaltFlush(k)
         \/ r = k
  BY FrameNumbers DEF HandleErrorFrame, isPermanentErrorCode
<1> HIDE DEF clear
<1>4. /\ clear \in Closure /\ Rests(k, clear) /\ clear.flushes = k.flushes
      /\ Tuned(clear)
  <2>1. clear \in Closure /\ clear.flushes = k.flushes
    BY <1>2 DEF Changes, Fields
  <2>2. Rests(k, clear)
    BY <1>2, WaitRests DEF Control
  <2>3. Tuned(clear)
    BY <1>1, <1>2, Untouched DEF TunedFields
  <2> QED
    BY <2>1, <2>2, <2>3
<1>5. ASSUME NEW q, q = clear \/ q = HaltFlush(k)
      PROVE  q.flushes = k.flushes /\ (q.wsFlush = k.wsFlush \/ q.wsFlush = NoFlush)
  <2>1. Changes(k, HaltFlush(k), {"wsFlush", "flushing", "halted", "flushTimer"})
        /\ (HaltFlush(k).wsFlush = k.wsFlush \/ HaltFlush(k).wsFlush = NoFlush)
    BY <1>1, HaltFlushDoes
  <2> QED
    BY <1>2, <1>4, <1>5, <2>1 DEF Changes, Fields
<1>6. ASSUME NEW q \in Closure, Rests(k, q), Tuned(q), q.flushes = k.flushes,
             q.wsFlush \in {k.wsFlush, NoFlush}
      PROVE  Fit(c, q) /\ q.doc = k.doc
  <2>1. CASE Overlapping(k)
    <3>1. overlap \/ ~OutboxOK(c, k, World)
      BY <2>1 DEF OutboxOK
    <3>2. overlap
      BY <3>1 DEF Fit
    <3> QED
      BY <1>6, <1>1, <3>2, RestsKeeps DEF Fit, Rests
  <2>2. CASE ~Overlapping(k)
    <3>1. ~Overlapping(q)
      BY <1>6, <2>2, FewerOverlap
    <3> QED
      BY <1>6, <3>1, FitRests
  <2> QED
    BY <2>1, <2>2
<1>7. CASE r = ScheduleFlush(clear)
  <2>1. /\ r \in Closure /\ Changes(clear, r, {"flushTimer"}) /\ Rests(clear, r)
        /\ Armed(r) /\ Tuned(r)
    BY <1>2, <1>4, <1>7, ScheduleFlushKeeps
  <2>2. r.flushes = k.flushes /\ r.wsFlush = NoFlush
    BY <1>2, <1>4, <2>1 DEF Changes, Fields
  <2>3. Rests(k, r)
    BY <1>4, <2>1, RestsAdd
  <2> QED
    BY <1>6, <2>1, <2>2, <2>3
<1>8. CASE r = HaltFlush(k)
  <2>1. /\ Changes(k, r, {"wsFlush", "flushing", "halted", "flushTimer"})
        /\ r.halted
        /\ \/ r.wsFlush = k.wsFlush /\ r.flushing = k.flushing
           \/ r.wsFlush = NoFlush /\ ~r.flushing
    BY <1>1, <1>8, HaltFlushDoes
  <2>2. r \in Closure /\ r.flushes = k.flushes
    BY <2>1 DEF Changes, Fields
  <2>3. Rests(k, r)
    BY <2>1, WaitRests DEF Control
  <2>4. Tuned(r)
    BY <1>1, <2>1, Untouched DEF TunedFields
  <2>5. Armed(r)
    BY <2>1, <2>2 DEF Armed, Unanswered
  <2> QED
    BY <1>6, <2>1, <2>2, <2>3, <2>4, <2>5
<1>9. CASE r = k
  BY <1>9
<1>10. CASE /\ MayCompact(clear)
            /\ r = StartCompact([clear EXCEPT !.handler = [st |-> "compact"]], Frame)
  <2> DEFINE t == [st |-> "compact"]
             q == [clear EXCEPT !.handler = t]
  <2>1. t \in HandlerTask /\ t.st = "compact"
    BY Domain
  <2> HIDE DEF t
  <2>2. q \in Closure
    BY <1>4, <2>1 DEF Closure
  <2>3. Changes(clear, q, {"handler"}) /\ q.handler = t
    BY <1>4, <2>2, Domain DEF Changes, Fields
  <2>4. r = StartCompact(q, Frame)
    BY <1>10 DEF t
  <2> HIDE DEF q
  <2>5. \A g \in Fields \ {"handler"} : q[g] = clear[g]
    BY <2>3 DEF Changes
  <2>6. MayCompact(q)
    BY <1>10, <2>5 DEF MayCompact, Fields
  <2>7. Rests(clear, q)
    BY <2>3, <2>5 DEF Rests, Fields, t
  <2>8. Changes(q, r, {"compaction"}) /\ Rests(q, r)
    BY <2>2, <2>4, <2>6, StartCompactDoes
  <2>9. /\ r \in Closure /\ r.flushes = k.flushes /\ r.wsFlush = NoFlush /\ ~r.flushing
        /\ r.handler.st = "compact"
    BY <1>2, <1>4, <2>1, <2>3, <2>8 DEF Changes, Fields
  <2>10. Rests(k, r)
    BY <1>4, <2>7, <2>8, RestsAdd
  <2>11. Tuned(r)
    BY <1>4, <2>3, <2>8, Untouched DEF TunedFields
  <2>12. Armed(r)
    BY <2>9 DEF Armed
  <2> QED
    BY <1>6, <2>9, <2>10, <2>11, <2>12
<1> QED
  BY <1>3, <1>7, <1>8, <1>9, <1>10

\* The next frame is handled.
LEMMA TakeFrameKeeps ==
    ASSUME IInv, NEW c \in Clients, TakeFrame(c)
    PROVE  IInv'
<1> DEFINE k == client[c]
           f == Head(k.inbox)
           p == [k EXCEPT !.inbox = Tail(@)]
<1>1. /\ k.inbox # <<>> /\ k.handler = Idle
      /\ UNCHANGED <<serverVars, netVars, faults>>
      /\ \/ Becomes(c, p)
         \/ f.type = "gapfill" /\ Becomes(c, GapFill(p))
         \/ f.type = "update" /\ Becomes(c, HandleUpdate(p, f))
         \/ f.type = "ack" /\ Becomes(c, HandleAck(p, f))
         \/ f.type = "error" /\ Becomes(c, HandleErrorFrame(p, f))
         \/ f.type = "expired" /\ Becomes(c, Fatal(p))
  BY DEF TakeFrame
<1> HIDE DEF f, p, k
<1>2. /\ Fit(c, p) /\ Armed(p) /\ p.doc = k.doc /\ p.handler = Idle
      /\ f \in FrameType /\ FrameSound(f, p.doc, World)
      /\ f.type = "update" => f.edits \subseteq Known
      /\ f.type = "ack" /\ f.txn = p.txn /\ p.wsFlush # NoFlush =>
             (overlap \/ First(p.outbox, p.wsFlush.count) \subseteq EditsOf(log))
  <2>1. k = client[c] /\ f = Head(k.inbox) /\ p = Popped(k)
    BY DEF k, f, p, Popped
  <2>2. k.inbox # <<>>
    BY <1>1
  <2>3. /\ Fit(c, p) /\ Armed(p) /\ p.doc = k.doc /\ p.handler = k.handler
        /\ f \in FrameType /\ FrameSound(f, p.doc, World)
        /\ f.type = "update" => f.edits \subseteq Known
        /\ f.type = "ack" /\ f.txn = p.txn /\ p.wsFlush # NoFlush =>
               (overlap \/ First(p.outbox, p.wsFlush.count) \subseteq EditsOf(log))
    BY <2>1, <2>2, PopKeeps
  <2> QED
    BY <1>1, <2>3
<1>3. ASSUME NEW r, Becomes(c, r), Fit(c, r), Armed(r), r.doc = p.doc
      PROVE  IInv'
  BY <1>1, <1>2, <1>3, FitStep DEF k
<1>4. CASE Becomes(c, p)
  BY <1>2, <1>3, <1>4
<1>5. CASE f.type = "gapfill" /\ Becomes(c, GapFill(p))
  <2>1. Fit(c, GapFill(p)) /\ GapFill(p).doc = p.doc /\ Armed(GapFill(p))
    BY <1>2, GapFillKeeps
  <2> QED
    BY <1>3, <1>5, <2>1
<1>6. CASE f.type = "update" /\ Becomes(c, HandleUpdate(p, f))
  <2>1. Fit(c, HandleUpdate(p, f)) /\ Armed(HandleUpdate(p, f)) /\ HandleUpdate(p, f).doc = p.doc
    BY <1>2, <1>6, HandleUpdateKeeps
  <2> QED
    BY <1>3, <1>6, <2>1
<1>7. CASE f.type = "ack" /\ Becomes(c, HandleAck(p, f))
  <2>1. Fit(c, HandleAck(p, f)) /\ Armed(HandleAck(p, f)) /\ HandleAck(p, f).doc = p.doc
    BY <1>2, <1>7, HandleAckKeeps
  <2> QED
    BY <1>3, <1>7, <2>1
<1>8. CASE f.type = "error" /\ Becomes(c, HandleErrorFrame(p, f))
  <2>1. /\ Fit(c, HandleErrorFrame(p, f)) /\ Armed(HandleErrorFrame(p, f))
        /\ HandleErrorFrame(p, f).doc = p.doc
    BY <1>2, <1>8, HandleErrorFrameKeeps
  <2> QED
    BY <1>3, <1>8, <2>1
<1>9. CASE Becomes(c, Fatal(p))
  <2> DEFINE r == Fatal(p)
  <2>1. p \in Closure
    BY <1>2 DEF Fit
  <2>2. /\ r \in Closure /\ Rests(p, r) /\ Tuned(r) /\ Armed(r)
    BY <1>2, <2>1, FatalKeeps
  <2>3. Changes(p, r, {"stopped", "flushTimer", "pollTimer", "reconnectTimer", "ws", "consumer"})
    BY <2>1, FatalDoes
  <2> HIDE DEF r
  <2>4. r.flushes = p.flushes /\ r.wsFlush = p.wsFlush
    BY <2>3 DEF Changes, Fields
  <2>5. Fit(c, r) /\ r.doc = p.doc
    BY <1>2, <2>2, <2>4, FitRests
  <2> QED
    BY <1>3, <1>9, <2>2, <2>5 DEF r
<1> QED
  BY <1>1, <1>4, <1>5, <1>6, <1>7, <1>8, <1>9

\* The handler lets go of what it was given.
LEMMA HandlerDone ==
    ASSUME IInv, NEW c \in Clients, NEW p, p = [client[c] EXCEPT !.handler = Idle],
           client[c].handler.st # "compact"
    PROVE  /\ p \in Closure /\ Changes(client[c], p, {"handler"}) /\ p.handler = Idle
           /\ Rests(client[c], p) /\ Fit(c, p) /\ Armed(p) /\ p.doc = client[c].doc
<1> DEFINE k == client[c]
<1>1. /\ k \in Closure /\ Armed(k) /\ Tuned(k) /\ Sound(k, World) /\ KnownTo(k, World)
      /\ TxnOK(c, k, World) /\ (overlap \/ OutboxOK(c, k, World))
  BY Now
<1>2. p = [k EXCEPT !.handler = Idle] /\ k.handler.st # "compact"
  OBVIOUS
<1> HIDE DEF k
<1>3. p \in Closure
  BY <1>1, <1>2, Domain DEF Closure
<1>4. Changes(k, p, {"handler"}) /\ p.handler = Idle
  BY <1>1, <1>2, <1>3, Domain DEF Changes, Fields
<1>5. \A g \in Fields \ {"handler"} : p[g] = k[g]
  BY <1>4 DEF Changes
<1>6. Rests(k, p)
  BY <1>4, <1>5 DEF Rests, Fields
<1>7. Armed(p)
  <2>1. /\ p.outbox = k.outbox /\ p.stopped = k.stopped /\ p.halted = k.halted
        /\ p.flushTimer = k.flushTimer /\ p.flushes = k.flushes /\ p.wsFlush = k.wsFlush
        /\ p.flushing = k.flushing
    BY <1>5 DEF Fields
  <2> QED
    BY <1>1, <1>2, <2>1, SameOverlap DEF Armed
<1>8. Tuned(p)
  BY <1>1, <1>4, Untouched DEF TunedFields
<1>9. p.flushes = k.flushes /\ p.wsFlush = k.wsFlush
  BY <1>5 DEF Fields
<1>10. Fit(c, k)
  BY <1>1 DEF Fit
<1>11. Fit(c, p) /\ p.doc = k.doc
  BY <1>3, <1>6, <1>8, <1>9, <1>10, FitRests
<1> QED
  BY <1>3, <1>4, <1>6, <1>7, <1>11 DEF k

\* The update is applied.
LEMMA ApplyDoneKeeps ==
    ASSUME IInv, NEW c \in Clients, ApplyDone(c)
    PROVE  IInv'
<1> DEFINE k == client[c]
           t == k.handler
           p == [k EXCEPT !.handler = Idle]
           r == [p EXCEPT !.doc = k.doc \cup t.edits, !.cursor = t.seq]
<1>1. t.st = "apply" /\ UNCHANGED <<serverVars, netVars, faults>>
  BY DEF ApplyDone
<1>2. /\ k \in Closure /\ Sound(k, World) /\ KnownTo(k, World)
  BY Now
<1>3. t.seq \in Seqs /\ t.edits \in SUBSET Edits
  BY <1>1, <1>2, Numbers
<1>4. Holds(k.doc \cup t.edits, t.seq, World) /\ t.edits \subseteq Known
  BY <1>1, <1>2, WorldFields DEF Sound, KnownTo
<1>5. Becomes(c, r)
  <2>1. r = [k EXCEPT !.doc = @ \cup t.edits, !.cursor = t.seq, !.handler = Idle]
    BY <1>2, Domain DEF Fields
  <2> QED
    BY <2>1 DEF ApplyDone
<1>6. p = [client[c] EXCEPT !.handler = Idle] /\ client[c].handler.st # "compact"
  BY <1>1
<1> HIDE DEF p
<1>7. /\ p \in Closure /\ Changes(k, p, {"handler"}) /\ p.handler = Idle
      /\ Fit(c, p) /\ Armed(p) /\ p.doc = k.doc
  BY <1>6, HandlerDone
<1> HIDE DEF k
<1> DEFINE D == k.doc \cup t.edits
           n == t.seq
<1>8. D \in SUBSET Edits /\ n \in 0..MaxSeq
  BY <1>2, <1>3, Bounds DEF Closure, Seqs
<1>9. r = [p EXCEPT !.doc = D, !.cursor = n]
  OBVIOUS
<1> HIDE DEF r, D, n, t
<1>10. r \in Closure
  BY <1>7, <1>8, <1>9 DEF Closure
<1>11. Changes(p, r, {"doc", "cursor"}) /\ r.doc = D /\ r.cursor = n
  BY <1>7, <1>9, <1>10, Domain DEF Changes, Fields
<1>12. /\ Changes(p, r, {"doc", "cursor", "pending"})
       /\ r.doc = p.doc \cup t.edits /\ Holds(r.doc, r.cursor, World)
  BY <1>4, <1>7, <1>11 DEF Changes, D, n
<1>13. {e \in t.edits : Author[e] = c} \subseteq p.doc
  <2>1. {e \in t.edits : Author[e] = c} \subseteq client[c].doc
    BY <1>4, AuthorKnows
  <2> QED
    BY <1>7, <2>1 DEF k
<1>14. /\ Sound(p, World) => Sound(r, World)
       /\ KnownTo(p, World) => KnownTo(r, World)
       /\ TxnOK(c, p, World) => TxnOK(c, r, World)
       /\ OutboxOK(c, p, World) => OutboxOK(c, r, World)
       /\ Armed(p) => Armed(r)
       /\ Tuned(p) => Tuned(r)
  <2>1. t.edits \subseteq World.known
    BY <1>4, WorldFields
  <2> QED
    BY <1>7, <1>12, <1>13, <2>1, Learn
<1>15. Fit(c, r) /\ Armed(r)
  BY <1>7, <1>10, <1>14 DEF Fit
<1>16. client[c].doc \subseteq r.doc
  BY <1>7, <1>12 DEF k
<1> QED
  BY <1>1, <1>5, <1>15, <1>16, FitStep

\* The gap fill's answer is applied.
LEMMA GapFillDoneKeeps ==
    ASSUME IInv, NEW c \in Clients, GapFillDone(c)
    PROVE  IInv'
<1> DEFINE k == client[c]
           body == k.handler
           p == [k EXCEPT !.handler = Idle]
           r == TakeReply(p, body)
<1>1. body.st = "reply" /\ UNCHANGED <<serverVars, netVars, faults>> /\ Becomes(c, r)
  BY DEF GapFillDone
<1>2. k \in Closure /\ Sound(k, World) /\ KnownTo(k, World)
  BY Now
<1>3. body \in ReplyTask
  BY <1>1, <1>2, Numbers
<1>4. /\ body.found => Holds(k.doc \cup body.edits, body.seq, World)
      /\ body.edits \subseteq Known
  BY <1>1, <1>2, WorldFields DEF Sound, KnownTo
<1>5. p = [client[c] EXCEPT !.handler = Idle] /\ client[c].handler.st # "compact"
  BY <1>1
<1>6. r = TakeReply(p, body)
  OBVIOUS
<1> HIDE DEF p, r
<1>7. /\ p \in Closure /\ Fit(c, p) /\ Armed(p) /\ p.doc = k.doc
  BY <1>5, HandlerDone
<1>8. {e \in body.edits : Author[e] = c} \subseteq p.doc
  <2>1. {e \in body.edits : Author[e] = c} \subseteq client[c].doc
    BY <1>4, AuthorKnows
  <2> QED
    BY <1>7, <2>1
<1> HIDE DEF k, body
<1>9. /\ r \in Closure /\ p.doc \subseteq r.doc
      /\ Sound(r, World) /\ KnownTo(r, World) /\ TxnOK(c, r, World)
      /\ OutboxOK(c, p, World) => OutboxOK(c, r, World)
      /\ Armed(r)
      /\ \/ r.stopped
         \/ Changes(p, r, {"doc", "cursor", "pending", "compaction"})
  <2>1. /\ body.found => Holds(p.doc \cup body.edits, body.seq, World)
        /\ body.edits \subseteq World.known
        /\ Sound(p, World) /\ KnownTo(p, World) /\ TxnOK(c, p, World)
    BY <1>4, <1>7, WorldFields DEF Fit
  <2>2. /\ r \in Closure /\ p.doc \subseteq r.doc
        /\ Sound(r, World) /\ KnownTo(r, World) /\ TxnOK(c, r, World)
        /\ OutboxOK(c, p, World) => OutboxOK(c, r, World)
        /\ Armed(p) => Armed(r)
        /\ \/ r.stopped
           \/ Changes(p, r, {"doc", "cursor", "pending", "compaction"})
    BY <1>3, <1>6, <1>7, <1>8, <2>1, TakeReplyKeeps
  <2> QED
    BY <1>7, <2>2
<1>10. Tuned(r)
  <2>1. CASE r.stopped
    BY <2>1 DEF Tuned
  <2>2. CASE Changes(p, r, {"doc", "cursor", "pending", "compaction"})
    <3>1. Tuned(p)
      BY <1>7 DEF Fit
    <3> QED
      BY <2>2, <3>1, Untouched DEF TunedFields
  <2> QED
    BY <1>9, <2>1, <2>2
<1>11. Fit(c, r)
  BY <1>7, <1>9, <1>10 DEF Fit
<1>12. client[c].doc \subseteq r.doc
  BY <1>7, <1>9 DEF k
<1> QED
  BY <1>1, <1>9, <1>11, <1>12, FitStep

\* The gap fill fails, and is not tried again.
LEMMA GapFillFailsKeeps ==
    ASSUME IInv, NEW c \in Clients, GapFillFails(c)
    PROVE  IInv'
<1> DEFINE p == [client[c] EXCEPT !.handler = Idle]
<1>1. /\ client[c].handler.st = "reply" /\ UNCHANGED <<serverVars, netVars>> /\ Fault
      /\ Becomes(c, p)
  BY DEF GapFillFails
<1>2. p = [client[c] EXCEPT !.handler = Idle] /\ client[c].handler.st # "compact"
  BY <1>1
<1> HIDE DEF p
<1>3. Fit(c, p) /\ Armed(p) /\ p.doc = client[c].doc
  BY <1>2, HandlerDone
<1> QED
  BY <1>1, <1>3, FitStep

-----------------------------------------------------------------------------
(* The invariant *)

\* A client that has done nothing yet.
LEMMA NewClientOK ==
    ASSUME NEW c, NEW w, WorldOK(w), w.log = {}, w.uplink = {}
    PROVE  ClientOK(c, NewClient, w) /\ OutboxOK(c, NewClient, w)
<1> DEFINE k == NewClient
<1>1. /\ k.started = FALSE /\ k.stopped = FALSE /\ k.flushing = FALSE
      /\ k.doc = {} /\ k.cursor = 0 /\ k.outbox = <<>> /\ k.poll = Idle /\ k.handler = Idle
      /\ k.compaction = Idle /\ k.inbox = <<>> /\ k.flushes = [i \in Slots |-> Idle]
      /\ k.wsFlush = NoFlush /\ k.txn = 0
  BY DEF NewClient
<1>2. k \in Closure
  <2>1. [i \in Slots |-> Idle] \in [Slots -> FlushTask]
    BY Domain
  <2>2. <<>> \in Seq(Edits) /\ <<>> \in Seq(FrameType)
    OBVIOUS
  <2>3. 0 \in 0..MaxSeq /\ 0 \in 0..MaxPending /\ 0 \in 0..MaxTxn
    BY Bounds
  <2> QED
    BY <2>1, <2>2, <2>3, Domain DEF NewClient, Closure
<1> HIDE DEF k
<1>3. /\ \A i \in Slots : k.flushes[i] = Idle
      /\ DOMAIN k.inbox = {} /\ DOMAIN k.outbox = {}
  BY <1>1
<1>4. Armed(k) /\ Tuned(k)
  BY <1>1 DEF Armed, Tuned
<1>5. Sound(k, w)
  <2>1. Holds(k.doc, k.cursor, w)
    BY <1>1, Bounds DEF Holds, WorldOK
  <2>2. Range(k.outbox) = {}
    BY <1>3 DEF Range
  <2> QED
    BY <1>1, <1>3, <2>1, <2>2, Domain DEF Sound
<1>6. KnownTo(k, w)
  BY <1>1, <1>3, Domain DEF KnownTo
<1>7. TxnOK(c, k, w)
  BY <1>1, <1>3 DEF TxnOK
<1>8. ~Overlapping(k)
  <2>1. Unanswered(k) = {}
    BY <1>3, Domain DEF Unanswered
  <2> QED
    BY <2>1, FS_EmptySet DEF Overlapping
<1>9. OutboxOK(c, k, w)
  BY <1>1, <1>3, <1>8, Domain DEF OutboxOK, FlushOK
<1> QED
  BY <1>2, <1>4, <1>5, <1>6, <1>7, <1>9 DEF ClientOK, k

\* It holds at first.
LEMMA InitInv ==
    ASSUME Init
    PROVE  IInv
<1>1. /\ exists = TRUE /\ snapshot = {} /\ snapshotSeq = 0 /\ rows = {}
      /\ client = [c \in Clients |-> NewClient] /\ uplink = {} /\ outgoing = {}
      /\ faults = 0 /\ log = {} /\ overlap = FALSE
  BY DEF Init, SerialInit
<1>2. Limit = 0
  BY <1>1 DEF Limit, Newest
<1>3. WorldOK(World) /\ World.log = {} /\ World.uplink = {} /\ World.top = 0
  BY <1>1, <1>2, Bounds, WorldFields DEF WorldOK
<1>4. \A c \in Clients : ClientOK(c, client[c], World) /\ OutboxOK(c, client[c], World)
  BY <1>1, <1>3, NewClientOK
<1>5. TypeOK
  <2>1. client \in [Clients -> Closure]
    BY <1>1, <1>4 DEF ClientOK
  <2>2. snapshotSeq \in 0..MaxSeq /\ faults \in 0..MaxFaults
    BY <1>1, Bounds, ClientAssumption
  <2> QED
    BY <1>1, <2>1, <2>2 DEF TypeOK
<1>6. RowsInv
  BY <1>1, FS_EmptySet, Bounds DEF RowsInv
<1>7. LogInv
  BY <1>1, <1>3 DEF LogInv, Holds, After
<1>8. NetInv /\ KnownInv
  BY <1>1 DEF NetInv, KnownInv
<1> QED
  BY <1>4, <1>5, <1>6, <1>7, <1>8 DEF IInv

\* Nothing happens.
LEMMA StutterKeeps ==
    ASSUME IInv, UNCHANGED vars
    PROVE  IInv'
<1>1. /\ exists' = exists /\ snapshot' = snapshot /\ snapshotSeq' = snapshotSeq
      /\ rows' = rows /\ client' = client /\ uplink' = uplink /\ outgoing' = outgoing
      /\ faults' = faults /\ log' = log /\ overlap' = overlap
  BY DEF vars
<1>2. Limit' = Limit /\ Known' = Known
  BY <1>1 DEF Limit, Known
<1>3. World' = World
  BY <1>1, <1>2 DEF World
<1>4. TypeOK' /\ RowsInv' /\ LogInv' /\ NetInv' /\ KnownInv'
  BY <1>1, <1>2, <1>3 DEF IInv, TypeOK, RowsInv, LogInv, NetInv, KnownInv
<1>5. /\ \A c \in Clients : ClientOK(c, client'[c], World')
      /\ ~overlap' => \A c \in Clients : OutboxOK(c, client'[c], World')
  BY <1>1, <1>3 DEF IInv
<1> QED
  BY <1>4, <1>5 DEF IInv

\* Every step keeps it.
LEMMA NextInv ==
    ASSUME IInv, [Next]_vars
    PROVE  IInv'
<1>1. CASE Environment
  <2>1. CASE ExpireNote
    BY <2>1, ExpireNoteKeeps
  <2>2. CASE \E m \in outgoing : LoseBroadcast(m)
    BY <2>2, LoseBroadcastKeeps
  <2>3. ASSUME NEW c \in Clients, Start(c)
        PROVE  IInv'
    BY <2>3, StartKeeps
  <2>4. ASSUME NEW c \in Clients, Hide(c) \/ Show(c)
        PROVE  IInv'
    BY <2>4, HideKeeps, ShowKeeps
  <2>5. ASSUME NEW c \in Clients, NEW e \in Edits, Type(c, e)
        PROVE  IInv'
    BY <2>5, TypeKeeps
  <2>6. ASSUME NEW c \in Clients, CountdownEnds(c)
        PROVE  IInv'
    BY <2>6, CountdownEndsKeeps
  <2>7. ASSUME NEW c \in Clients, PollFails(c) \/ CompactFails(c) \/ GapFillFails(c)
        PROVE  IInv'
    BY <2>7, PollFailsKeeps, CompactFailsKeeps, GapFillFailsKeeps
  <2>8. ASSUME NEW c \in Clients, NEW i \in Slots, FlushFails(c, i)
        PROVE  IInv'
    BY <2>8, FlushFailsKeeps
  <2>9. ASSUME NEW c \in Clients, Disconnect(c) \/ AckTimeout(c)
        PROVE  IInv'
    BY <2>9, DisconnectKeeps, AckTimeoutKeeps
  <2> QED
    BY <1>1, <2>1, <2>2, <2>3, <2>4, <2>5, <2>6, <2>7, <2>8, <2>9 DEF Environment
<1>2. ASSUME NEW c \in Clients, PollLoop(c)
      PROVE  IInv'
  BY <1>2, PollTimerFiresKeeps, PollDoneKeeps DEF PollLoop
<1>3. ASSUME NEW c \in Clients, CompactDone(c)
      PROVE  IInv'
  BY <1>3, CompactDoneKeeps
<1>4. ASSUME NEW c \in Clients, FlushTimerFires(c)
      PROVE  IInv'
  BY <1>4, FlushTimerFiresKeeps
<1>5. ASSUME NEW c \in Clients, Inbox(c)
      PROVE  IInv'
  BY <1>5, TakeFrameKeeps, ApplyDoneKeeps, GapFillDoneKeeps DEF Inbox
<1>6. ASSUME NEW c \in Clients, Socket(c)
      PROVE  IInv'
  BY <1>6, OpenKeeps, JoinKeeps, TurnAwayKeeps, FinishClosingKeeps, ReconnectTimerFiresKeeps
     DEF Socket
<1>7. ASSUME NEW c \in Clients, Consumer(c)
      PROVE  IInv'
  BY <1>7, ServeFrameKeeps DEF Consumer
<1>8. ASSUME NEW c \in Clients, FlushLoop(c)
      PROVE  IInv'
  BY <1>8, EncryptDoneKeeps, ServeFlushKeeps, FlushDoneKeeps DEF FlushLoop
<1>9. CASE ChannelLayer
  BY <1>9, BroadcastKeeps DEF ChannelLayer
<1>10. CASE UNCHANGED vars
  BY <1>10, StutterKeeps
<1> QED
  BY <1>1, <1>2, <1>3, <1>4, <1>5, <1>6, <1>7, <1>8, <1>9, <1>10 DEF Next

\* Every state a run of clients, sockets and server can reach satisfies the inductive
\* invariant.
THEOREM LiveSyncInvariant == Spec => []IInv
<1>1. Init => IInv
  BY InitInv
<1>2. IInv /\ [Next]_vars => IInv'
  BY NextInv
<1> QED
  BY <1>1, <1>2, PTL DEF Spec

\* The closure of create(), the consumer, the frames and the rows have the types
\* their code gives them.
THEOREM LiveSyncTypeOK == Spec => []TypeOK
<1>1. IInv => TypeOK
  BY DEF IInv
<1> QED
  BY <1>1, LiveSyncInvariant, PTL

\* No compaction by any client, however stale its cursor and document, loses an
\* accepted update.
THEOREM LiveSyncAcceptedKept == Spec => []AcceptedKept
<1>1. ASSUME IInv
      PROVE  AcceptedKept
  <2> SUFFICES ASSUME exists, NEW r \in log
               PROVE  r.edits \subseteq snapshot \cup EditsOf(rows)
    BY DEF AcceptedKept, Accepted, EditsOf
  <2>1. Holds(snapshot, snapshotSeq, World) /\ rows = After(log, snapshotSeq)
    BY <1>1 DEF IInv, LogInv
  <2>2. r.seq \in Int /\ snapshotSeq \in Int
    BY <1>1, ServerOK, WorldTypes DEF ServerInv
  <2>3. CASE r.seq <= snapshotSeq
    BY <2>1, <2>3, WorldFields DEF Holds
  <2>4. CASE r.seq > snapshotSeq
    BY <2>1, <2>4 DEF After, EditsOf
  <2> QED
    BY <2>2, <2>3, <2>4
<1> QED
  BY <1>1, LiveSyncInvariant, PTL

\* A client holds every update at or below its cursor, whichever of polls, gap fills,
\* pushes and acks moved it.
THEOREM LiveSyncCursorSound == Spec => []CursorSound
<1>1. ASSUME IInv
      PROVE  CursorSound
  <2> SUFFICES ASSUME NEW c \in Clients, NEW r \in log, r.seq <= client[c].cursor
               PROVE  r.edits \subseteq client[c].doc
    BY DEF CursorSound
  <2>1. Holds(client[c].doc, client[c].cursor, World)
    BY <1>1, Now DEF Sound
  <2> QED
    BY <2>1, WorldFields DEF Holds
<1> QED
  BY <1>1, LiveSyncInvariant, PTL

\* An edit leaves the outbox of flush, handleAck and handleHttpFlushResponse only once
\* the server has it, unless a client has had two flushes unanswered at once.
THEOREM LiveSyncOutboxKeepsUnsaved == Spec => []OutboxKeepsUnsaved
<1>1. ASSUME IInv
      PROVE  OutboxKeepsUnsaved
  <2> SUFFICES ASSUME ~overlap, NEW c \in Clients
               PROVE  Typed(c) \subseteq Range(client[c].outbox) \cup Accepted
    BY DEF OutboxKeepsUnsaved, UnsavedStaysInOutbox
  <2>1. OutboxOK(c, client[c], World)
    BY <1>1 DEF IInv
  <2> QED
    BY <2>1, WorldFields DEF OutboxOK, Typed, Accepted
<1> QED
  BY <1>1, LiveSyncInvariant, PTL

\* A client with unsaved edits has something armed that will send them, and
\* flushInFlight is held by a flush that can let go of it.
THEOREM LiveSyncUnsavedIsArmed == Spec => []UnsavedIsArmed
<1>1. ASSUME IInv
      PROVE  UnsavedIsArmed
  <2>1. \A c \in Clients : Armed(client[c])
    BY <1>1, Now
  <2> QED
    BY <2>1 DEF UnsavedIsArmed, Armed, Live
<1> QED
  BY <1>1, LiveSyncInvariant, PTL

\* A running client polls, is about to, or has a socket: it never goes deaf.
THEOREM LiveSyncStaysTuned == Spec => []StaysTuned
<1>1. ASSUME IInv
      PROVE  StaysTuned
  <2>1. \A c \in Clients : Tuned(client[c])
    BY <1>1, Now
  <2> QED
    BY <2>1 DEF StaysTuned, Tuned
<1> QED
  BY <1>1, LiveSyncInvariant, PTL

-----------------------------------------------------------------------------
(* The log below stays the atomic log it is built on *)

\* The server's part of a step is one of the log's, or none.
LEMMA StepIsSerial ==
    ASSUME IInv, [Next]_vars
    PROVE  [SerialNext]_serialVars
<1>1. ASSUME UNCHANGED serverVars \/ UNCHANGED serialVars
      PROVE  [SerialNext]_serialVars
  BY <1>1 DEF serverVars, serialVars
<1>2. ASSUME NEW E \in SUBSET Edits, E \subseteq Known, Accept(E)
      PROVE  [SerialNext]_serialVars
  <2>1. NextSeq \in Seqs
    BY <1>2, AcceptGrows
  <2> QED
    BY <1>2, <2>1 DEF Accept, SerialNext
<1>3. ASSUME NEW c \in Clients, client[c].compaction # Idle,
             Compact(client[c].compaction.covers, client[c].compaction.content)
      PROVE  [SerialNext]_serialVars
  <2>1. client[c].compaction \in CompactTask
    BY <1>3, Now, Numbers
  <2>2. client[c].compaction.covers \in Seqs /\ client[c].compaction.content \in SUBSET Edits
    BY <2>1 DEF CompactTask
  <2> QED
    BY <1>3, <2>2 DEF SerialNext
<1>4. ASSUME NEW c \in Clients, CompactDone(c) \/ CompactFails(c)
      PROVE  [SerialNext]_serialVars
  BY <1>1, <1>3, <1>4 DEF CompactDone, CompactFails
<1>5. ASSUME NEW c \in Clients, NEW i \in Slots, ServeFlush(c, i)
      PROVE  [SerialNext]_serialVars
  <2> DEFINE t == client[c].flushes[i]
  <2>1. t.st = "sent" /\ (Accept(t.edits) \/ UNCHANGED serverVars)
    BY <1>5 DEF ServeFlush
  <2>2. client[c] \in Closure /\ t \in FlushTask
    BY Now DEF Closure
  <2>3. t.edits \in SUBSET Edits
    BY <2>1, <2>2 DEF FlushTask, Idle
  <2>4. t.edits \subseteq Known
    BY <2>1, Now, WorldFields DEF Sound, KnownTo
  <2> QED
    BY <1>1, <1>2, <2>1, <2>3, <2>4
<1>6. ASSUME NEW f \in uplink, ServeFrame(f)
      PROVE  [SerialNext]_serialVars
  <2>1. Accept(f.edits) \/ UNCHANGED serverVars
    BY <1>6 DEF ServeFrame
  <2>2. f \in Upload /\ f.edits \subseteq client[f.client].doc
    BY DEF IInv, TypeOK, NetInv
  <2>3. f.edits \in SUBSET Edits /\ f.edits \subseteq Known
    BY <2>2, Now, WorldFields DEF Upload, KnownTo
  <2> QED
    BY <1>1, <1>2, <2>1, <2>3
<1>7. ASSUME ExpireNote
      PROVE  [SerialNext]_serialVars
  BY <1>7 DEF ExpireNote, SerialNext
<1>8. ASSUME NEW c \in Clients,
             \/ Start(c) \/ Hide(c) \/ Show(c) \/ CountdownEnds(c) \/ PollFails(c)
             \/ GapFillFails(c) \/ Disconnect(c) \/ AckTimeout(c)
             \/ PollLoop(c) \/ FlushTimerFires(c) \/ Inbox(c) \/ Socket(c)
             \/ \E e \in Edits : Type(c, e)
             \/ \E i \in Slots : FlushFails(c, i) \/ EncryptDone(c, i) \/ FlushDone(c, i)
      PROVE  UNCHANGED serverVars
  <2>1. ASSUME NEW code, Close(c, code)
        PROVE  UNCHANGED serverVars
    BY <2>1 DEF Close
  <2>2. CASE Disconnect(c) \/ Socket(c)
    BY <2>1, <2>2 DEF Disconnect, Socket, Open, Join, TurnAway, FinishClosing, ReconnectTimerFires
  <2>3. CASE Start(c) \/ Hide(c) \/ Show(c) \/ CountdownEnds(c) \/ PollFails(c)
    BY <2>3 DEF Start, Hide, Show, CountdownEnds, PollFails
  <2>4. CASE GapFillFails(c) \/ AckTimeout(c) \/ PollLoop(c) \/ FlushTimerFires(c)
    BY <2>4 DEF GapFillFails, AckTimeout, PollLoop, PollTimerFires, PollDone, FlushTimerFires
  <2>5. CASE Inbox(c)
    BY <2>5 DEF Inbox, TakeFrame, ApplyDone, GapFillDone
  <2>6. CASE \E e \in Edits : Type(c, e)
    BY <2>6 DEF Type
  <2>7. CASE \E i \in Slots : FlushFails(c, i) \/ EncryptDone(c, i) \/ FlushDone(c, i)
    BY <2>7 DEF FlushFails, EncryptDone, FlushDone
  <2> QED
    BY <1>8, <2>2, <2>3, <2>4, <2>5, <2>6, <2>7
<1>9. ASSUME NEW m \in outgoing, Broadcast(m) \/ LoseBroadcast(m)
      PROVE  UNCHANGED serverVars
  BY <1>9 DEF Broadcast, LoseBroadcast
<1>10. CASE UNCHANGED vars
  BY <1>1, <1>10 DEF vars, serialVars
<1>11. CASE Environment
  BY <1>1, <1>4, <1>7, <1>8, <1>9, <1>11 DEF Environment
<1>12. ASSUME NEW c \in Clients,
              \/ PollLoop(c) \/ CompactDone(c) \/ FlushTimerFires(c) \/ Inbox(c) \/ Socket(c)
              \/ Consumer(c) \/ FlushLoop(c)
       PROVE  [SerialNext]_serialVars
  BY <1>1, <1>4, <1>5, <1>6, <1>8, <1>12 DEF Consumer, FlushLoop
<1>13. CASE ChannelLayer
  BY <1>1, <1>9, <1>13 DEF ChannelLayer
<1> QED
  BY <1>10, <1>11, <1>12, <1>13 DEF Next

\* However clients flush, compact, retry and reconnect, what they do to the note is
\* what SerialLog allows, each append under an id of the table.
THEOREM LiveSyncRefinesSerialLog == Spec => SerialSpec
<1>1. Init => SerialInit
  BY DEF Init
<1>2. IInv /\ [Next]_vars => [SerialNext]_serialVars
  BY StepIsSerial
<1> QED
  BY <1>1, <1>2, LiveSyncInvariant, PTL DEF Spec, SerialSpec
=============================================================================
