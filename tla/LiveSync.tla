------------------------------ MODULE LiveSync ------------------------------
(***************************************************************************)
(* The live-note sync client (static/note/js/live-sync.js) in full, on top *)
(* of the atomic server log, with the socket consumer                      *)
(* (apps/note/consumers.py) between them.                                  *)
(*                                                                         *)
(* A client is one JavaScript closure: its variables are the fields of a   *)
(* record, its functions operators from record to record, and a step of    *)
(* the model is what runs between two awaits.  A read is served the moment *)
(* it is sent and applied later (a request that waits is a timer that      *)
(* waits); appends and compactions are sent, served and answered in        *)
(* separate steps.  Delays are left out: a timer is armed or not.          *)
(***************************************************************************)
EXTENDS SerialLog, Sequences, Functions

CONSTANTS
    Clients,
    Author,      \* the client that types each edit
    Sockets,     \* the clients whose browser can open a WebSocket
    CompactAt,   \* COMPACT_PENDING_THRESHOLD, jitter included
    MayExpire,   \* whether the note expires in this instance
    MayHide,     \* whether tabs are hidden and shown in this instance
    MayReject,   \* whether an update can be over MAX_LIVE_UPDATE_LENGTH in this instance
    MaxFlushes,  \* bound: flushes of one client not yet settled
    MaxTxn,      \* bound: update frames one client sends
    MaxFaults    \* bound: losses, timeouts, refusals and server errors

ASSUME ClientAssumption ==
    /\ Author \in [Edits -> Clients]
    /\ Sockets \subseteq Clients
    /\ CompactAt \in Nat \ {0}
    /\ {MaxFlushes, MaxTxn, MaxFaults} \subseteq Nat
    /\ {MayExpire, MayHide, MayReject} \subseteq BOOLEAN

VARIABLES
    client,    \* [Clients -> the closure of create(), and its server-side consumer]
    uplink,    \* update frames on their way to a consumer
    outgoing,  \* committed updates whose group_send has not happened
    faults,    \* how many faults there have been
    log,       \* history: every row ever accepted
    overlap    \* history: some client has had two flushes unanswered at once

vars == <<exists, snapshot, snapshotSeq, rows, client, uplink, outgoing, faults, log, overlap>>

Slots == 1..MaxFlushes
Idle == [st |-> "idle"]
NoFlush == [txn |-> 0, count |-> 0]

\* Who awaits a compaction: a flush slot, or
Frame == 0    \* the inbox handler,
Nobody == -1  \* or nobody.

NewClient ==
    [started |-> FALSE, stopped |-> FALSE, halted |-> FALSE,
     doc |-> {}, cursor |-> 0, pending |-> 0, outbox |-> <<>>,
     flushTimer |-> FALSE, flushing |-> FALSE, flushes |-> [i \in Slots |-> Idle],
     compaction |-> Idle, pollTimer |-> FALSE, poll |-> Idle,
     ws |-> "none", consumer |-> "none", reconnectTimer |-> FALSE, gaveUp |-> FALSE,
     wsFlush |-> NoFlush, txn |-> 0, inbox |-> <<>>, handler |-> Idle]

FlushTask ==
    {Idle}
    \cup [st : {"encrypt", "sent", "compacting"}, count : Nat, edits : SUBSET Edits]
    \cup [st : {"ok", "full", "bad", "gone", "err"}, count : Nat, pending : 0..MaxPending]

ReplyTask ==
    [st : {"reply"}, found : BOOLEAN, edits : SUBSET Edits, seq : 0..MaxSeq,
     pending : 0..MaxPending]

CompactTask ==
    [st : {"sent"}, covers : Seqs, content : SUBSET Edits, waiter : {Frame, Nobody} \cup Slots]

HandlerTask ==
    {Idle} \cup ReplyTask \cup [st : {"compact"}]
    \cup [st : {"apply"}, seq : Seqs, edits : SUBSET Edits]

FrameType ==
    [type : {"gapfill", "expired"}]
    \cup [type : {"update"}, prev : Nat, seq : Seqs, edits : SUBSET Edits]
    \cup [type : {"ack"}, txn : 1..MaxTxn, prev : Nat, seq : Seqs, pending : 0..MaxPending]
    \cup [type : {"error"}, code : {"update_too_large", "pending_tail_full", "server_error"}]

Closure ==
    [started : BOOLEAN, stopped : BOOLEAN, halted : BOOLEAN,
     doc : SUBSET Edits, cursor : 0..MaxSeq, pending : 0..MaxPending, outbox : Seq(Edits),
     flushTimer : BOOLEAN, flushing : BOOLEAN, flushes : [Slots -> FlushTask],
     compaction : {Idle} \cup CompactTask, pollTimer : BOOLEAN, poll : {Idle} \cup ReplyTask,
     ws : {"none", "connecting", "open", "closing"}, consumer : {"none", "accepted", "ready"},
     reconnectTimer : BOOLEAN, gaveUp : BOOLEAN,
     wsFlush : [txn : 0..MaxTxn, count : Nat], txn : 0..MaxTxn,
     inbox : Seq(FrameType), handler : HandlerTask]

Upload == [client : Clients, txn : 1..MaxTxn, edits : SUBSET Edits, live : BOOLEAN]
Announcement == [seq : Seqs, prev : Nat, edits : SUBSET Edits, sender : SUBSET Clients]

TypeOK ==
    /\ exists \in BOOLEAN
    /\ snapshot \subseteq Edits
    /\ snapshotSeq \in 0..MaxSeq
    /\ rows \subseteq Row
    /\ client \in [Clients -> Closure]
    /\ uplink \subseteq Upload
    /\ outgoing \subseteq Announcement
    /\ faults \in 0..MaxFaults
    /\ log \subseteq Row
    /\ overlap \in BOOLEAN

Init ==
    /\ SerialInit
    /\ client = [c \in Clients |-> NewClient]
    /\ uplink = {}
    /\ outgoing = {}
    /\ faults = 0
    /\ log = {}
    /\ overlap = FALSE
----------------------------------------------------------------------------
(* The functions of live-sync.js that arm timers and settle a flush. *)

WsIsOpen(k) == k.ws = "open"

\* scheduleFlushAfter. backoffFlush and scheduleFlushAfterCompact only differ
\* from it in the delay.
ScheduleFlush(k) ==
    IF k.stopped \/ k.halted THEN k ELSE [k EXCEPT !.flushTimer = TRUE]

SchedulePoll(k) ==
    IF k.stopped \/ WsIsOpen(k) THEN k ELSE [k EXCEPT !.pollTimer = TRUE]

ConnectWs(c, k) ==
    IF k.stopped \/ k.gaveUp \/ k.ws # "none" \/ c \notin Sockets
    THEN k ELSE [k EXCEPT !.ws = "connecting"]

ScheduleWsReconnect(c, k) ==
    IF k.stopped \/ k.gaveUp \/ c \notin Sockets
    THEN k ELSE [k EXCEPT !.reconnectTimer = TRUE]

\* Mutant: giving up the wait drops what was sent.
ClearWsFlushWait_DropsOutbox(k) ==
    [k EXCEPT !.wsFlush = NoFlush, !.flushing = FALSE,
              !.outbox = SubSeq(@, k.wsFlush.count + 1, Len(@))]

ClearWsFlushWait(k) == [k EXCEPT !.wsFlush = NoFlush, !.flushing = FALSE]

HaltFlush(k) ==
    IF k.halted THEN k
    ELSE [ClearWsFlushWait(k) EXCEPT !.halted = TRUE, !.flushTimer = FALSE]

\* fatal, and the stop it calls.
Fatal(k) ==
    [k EXCEPT !.stopped = TRUE, !.flushTimer = FALSE, !.pollTimer = FALSE,
              !.reconnectTimer = FALSE, !.ws = "none", !.consumer = "none"]

\* flush does nothing while another flush holds flushInFlight.
MayFlush(k) == ~k.stopped /\ ~k.halted /\ ~k.flushing /\ k.outbox # <<>>

FreeSlots(k) == {i \in Slots : k.flushes[i] = Idle}

\* Mutant: no fallback to HTTP.
Flush_SocketOnly(k, keepalive) ==
    IF ~MayFlush(k) THEN k
    ELSE LET i == CHOOSE i \in FreeSlots(k) : \A j \in FreeSlots(k) : i <= j
         IN  [k EXCEPT !.flushing = TRUE,
                       !.flushes[i] = [st |-> IF keepalive THEN "sent" ELSE "encrypt",
                                       count |-> Len(k.outbox), edits |-> Range(k.outbox)]]

\* flush: the outbox is merged at once. Both transports then wait for the encryption,
\* but only the socket's looks around again before it sends.
Flush(k, keepalive) ==
    IF ~MayFlush(k) THEN k
    ELSE LET i == CHOOSE i \in FreeSlots(k) : \A j \in FreeSlots(k) : i <= j
         IN  [k EXCEPT !.flushing = TRUE,
                       !.flushes[i] = [st |-> IF WsIsOpen(k) /\ ~keepalive THEN "encrypt" ELSE "sent",
                                       count |-> Len(k.outbox), edits |-> Range(k.outbox)]]

\* The bound on unsettled flushes, as a guard of the steps that may start one.
FlushFits(k) == MayFlush(k) => FreeSlots(k) # {}

\* The finally block of flushOverHttp.
FinishFlush(k, i) ==
    LET freed == [k EXCEPT !.flushing = FALSE, !.flushes[i] = Idle]
    IN  IF freed.outbox = <<>> THEN freed ELSE ScheduleFlush(freed)

DropSent(k, count) == [k EXCEPT !.outbox = SubSeq(@, count + 1, Len(@))]

\* Flushes whose outcome the client does not know yet.
Unanswered(k) == {i \in Slots : k.flushes[i].st \notin {"idle", "compacting"}}
Overlapping(k) ==
    \/ Cardinality(Unanswered(k)) > 1
    \/ Unanswered(k) # {} /\ k.wsFlush # NoFlush

\* Client c goes on as k.
Becomes(c, k) ==
    /\ client' = [client EXCEPT ![c] = k]
    /\ overlap' = (overlap \/ Overlapping(k))

Fault ==
    /\ faults < MaxFaults
    /\ faults' = faults + 1

serverVars == <<exists, snapshot, snapshotSeq, rows, log>>
netVars == <<uplink, outgoing>>
----------------------------------------------------------------------------
(* Reading and compacting. *)

Reply(since) ==
    LET body == ReadBody(snapshot, snapshotSeq, rows, since)
    IN  [st |-> "reply", found |-> exists, edits |-> body.edits, seq |-> body.seq,
         pending |-> body.pending]

\* applyServerBody.
ApplyServerBody(k, body) ==
    [k EXCEPT !.doc = @ \cup body.edits,
              !.cursor = IF body.seq > @ THEN body.seq ELSE @,
              !.pending = body.pending]

\* Mutant: a client that has applied nothing compacts too.
MayCompact_AnyCursor(k) == ~k.stopped /\ k.compaction = Idle

\* compact: one at a time, and only with something applied to cover.
MayCompact(k) == ~k.stopped /\ k.compaction = Idle /\ k.cursor # 0

StartCompact(k, waiter) ==
    [k EXCEPT !.compaction = [st |-> "sent", covers |-> k.cursor, content |-> k.doc,
                              waiter |-> waiter]]

shouldCompact(pending) == pending >= CompactAt

MaybeCompact(k) ==
    IF shouldCompact(k.pending) /\ MayCompact(k) THEN StartCompact(k, Nobody) ELSE k

\* What a poll and a gap fill do with their reply.
TakeReply(k, body) ==
    IF body.found THEN MaybeCompact(ApplyServerBody(k, body)) ELSE Fatal(k)

\* start: bootstrap from the full state, then poll, and try the socket.
Start(c) ==
    LET k == [client[c] EXCEPT !.started = TRUE]
    IN  /\ ~client[c].started
        /\ Becomes(c, ConnectWs(c, SchedulePoll(TakeReply(k, Reply(NoCursor)))))
        /\ UNCHANGED <<serverVars, netVars, faults>>

PollTimerFires(c) ==
    LET k == client[c]
    IN  /\ k.pollTimer
        /\ k.poll = Idle
        /\ Becomes(c, [k EXCEPT !.pollTimer = FALSE, !.poll = Reply(k.cursor)])
        /\ UNCHANGED <<serverVars, netVars, faults>>

PollDone(c) ==
    LET k == client[c]
    IN  /\ k.poll # Idle
        /\ Becomes(c, SchedulePoll(TakeReply([k EXCEPT !.poll = Idle], k.poll)))
        /\ UNCHANGED <<serverVars, netVars, faults>>

\* Mutant: a failed poll does not schedule the next.
PollFails_NoRetry(c) ==
    /\ client[c].poll # Idle
    /\ Fault
    /\ Becomes(c, [client[c] EXCEPT !.poll = Idle])
    /\ UNCHANGED <<serverVars, netVars>>

\* The poll is lost, rate limited or answered with a 5xx; the next one is scheduled.
PollFails(c) ==
    /\ client[c].poll # Idle
    /\ Fault
    /\ Becomes(c, SchedulePoll([client[c] EXCEPT !.poll = Idle]))
    /\ UNCHANGED <<serverVars, netVars>>

\* Mutant: the frame handler forgets to retry the refused flush.
Resume_NoRetry(k, waiter) ==
    CASE waiter = Nobody -> k
      [] waiter = Frame  -> [k EXCEPT !.handler = Idle]
      [] OTHER           -> FinishFlush(ScheduleFlush(k), waiter)

\* Whoever awaited the compaction goes on: a flush refused for a full tail, or the
\* inbox handler of an error frame.
Resume(k, waiter) ==
    CASE waiter = Nobody -> k
      [] waiter = Frame  -> ScheduleFlush([k EXCEPT !.handler = Idle])
      [] OTHER           -> FinishFlush(ScheduleFlush(k), waiter)

\* Mutant: covers_seq is read when the request goes out, after the document was encoded.
CompactDone_LateCursor(c) ==
    LET k     == client[c]
        t     == k.compaction
        freed == [k EXCEPT !.compaction = Idle]
    IN  /\ t # Idle
        /\ Compact(k.cursor, t.content)
        /\ Becomes(c, Resume([freed EXCEPT !.pending = 0], t.waiter))
        /\ UNCHANGED <<log, netVars, faults>>

\* The compaction is served and its answer handled: stored, refused with 409, or 404.
CompactDone(c) ==
    LET k     == client[c]
        t     == k.compaction
        freed == [k EXCEPT !.compaction = Idle]
    IN  /\ t # Idle
        /\ \/ /\ Compact(t.covers, t.content)
              /\ Becomes(c, Resume([freed EXCEPT !.pending = 0], t.waiter))
           \/ /\ exists
              /\ ~(CoversNewer(t.covers) /\ CoversKnown(t.covers))
              /\ Becomes(c, Resume(freed, t.waiter))
              /\ UNCHANGED serialVars
           \/ /\ ~exists
              /\ Becomes(c, Resume(Fatal(freed), t.waiter))
              /\ UNCHANGED serialVars
        /\ UNCHANGED <<log, netVars, faults>>

\* The compaction ends in an error for the client, stored or not.
CompactFails(c) ==
    LET k == client[c]
        t == k.compaction
    IN  /\ t # Idle
        /\ Fault
        /\ Compact(t.covers, t.content) \/ UNCHANGED serialVars
        /\ Becomes(c, Resume([k EXCEPT !.compaction = Idle], t.waiter))
        /\ UNCHANGED <<log, netVars>>
----------------------------------------------------------------------------
(* Typing and flushing. *)

\* The page takes no more input (enterTerminalState): sync stopped, for good.
Terminal(k) == k.stopped

\* doc.on("update") for a local edit.
QueueLocal(k, e) == ScheduleFlush([k EXCEPT !.doc = @ \cup {e}, !.outbox = Append(@, e)])

\* core.onInput of the live page.
Type(c, e) ==
    LET k == client[c]
    IN  /\ k.started /\ ~Terminal(k)
        /\ Author[e] = c
        /\ e \notin k.doc
        /\ Becomes(c, QueueLocal(k, e))
        /\ UNCHANGED <<serverVars, netVars, faults>>

\* The countdown of the live page reaches zero, however sync fares.
CountdownEnds(c) ==
    /\ client[c].started /\ ~Terminal(client[c])
    /\ ~exists
    /\ Becomes(c, Fatal(client[c]))
    /\ UNCHANGED <<serverVars, netVars, faults>>

FlushTimerFires(c) ==
    LET k == [client[c] EXCEPT !.flushTimer = FALSE]
    IN  /\ client[c].flushTimer
        /\ FlushFits(k)
        /\ Becomes(c, Flush(k, FALSE))
        /\ UNCHANGED <<serverVars, netVars, faults>>

\* visibilitychange, hidden: flush now, by keepalive POST unless the socket is open.
Hide(c) ==
    LET k == [client[c] EXCEPT !.flushTimer = FALSE]
    IN  /\ k.started /\ ~k.stopped
        /\ FlushFits(k)
        /\ Becomes(c, Flush(k, ~WsIsOpen(k)))
        /\ UNCHANGED <<serverVars, netVars, faults>>

\* visibilitychange, visible: poll and reconnect now.
Show(c) ==
    LET k == client[c]
    IN  /\ k.started /\ ~k.stopped
        /\ ~WsIsOpen(k)
        /\ Becomes(c, ConnectWs(c, [SchedulePoll(k) EXCEPT !.reconnectTimer = FALSE]))
        /\ UNCHANGED <<serverVars, netVars, faults>>

\* flushOverWs after its await: send, unless the socket closed during encryption.
EncryptDone(c, i) ==
    LET k     == client[c]
        t     == k.flushes[i]
        freed == [k EXCEPT !.flushes[i] = Idle]
    IN  /\ t.st = "encrypt"
        /\ \/ /\ WsIsOpen(k)
              /\ k.txn < MaxTxn
              /\ Becomes(c, [freed EXCEPT !.txn = @ + 1,
                                          !.wsFlush = [txn |-> k.txn + 1, count |-> t.count]])
              /\ uplink' = uplink \cup {[client |-> c, txn |-> k.txn + 1, edits |-> t.edits,
                                         live |-> TRUE]}
           \/ /\ ~WsIsOpen(k)
              /\ Becomes(c, ScheduleFlush(ClearWsFlushWait(freed)))
              /\ UNCHANGED uplink
        /\ UNCHANGED <<serverVars, outgoing, faults>>

\* append_live_update accepts a payload, under the next id.
NextSeq == Newest(rows, snapshotSeq) + 1
Accept(edits) ==
    /\ NextSeq <= MaxSeq
    /\ AppendRow(NextSeq, edits)
    /\ log' = log \cup {[seq |-> NextSeq, edits |-> edits]}

\* LiveNoteUpdatesView.post: the tail is checked before the payload, whose size is
\* not known here. 400 is permanent.
ServeFlush(c, i) ==
    LET t == client[c].flushes[i]
        Answer(outcome, pending) ==
            Becomes(c, [client[c] EXCEPT !.flushes[i] =
                            [st |-> outcome, count |-> t.count, pending |-> pending]])
    IN  /\ t.st = "sent"
        /\ \/ Accept(t.edits) /\ Answer("ok", Cardinality(rows) + 1)
           \/ /\ \/ ~exists /\ Answer("gone", 0)
                 \/ exists /\ TailFull(rows, t.edits) /\ Answer("full", 0)
                 \/ exists /\ ~TailFull(rows, t.edits) /\ MayReject /\ Answer("bad", 0)
              /\ UNCHANGED serverVars
        /\ UNCHANGED <<netVars, faults>>

\* The POST is rate limited, lost, or answered with a 5xx; or its answer is lost
\* after the row was stored.
FlushFails(c, i) ==
    /\ client[c].flushes[i].st \in {"sent", "ok"}
    /\ Fault
    /\ Becomes(c, [client[c] EXCEPT !.flushes[i] =
                       [st |-> "err", count |-> client[c].flushes[i].count, pending |-> 0]])
    /\ UNCHANGED <<serverVars, netVars>>

\* A flush waits for the compaction that makes room, having let go of flushInFlight.
AwaitCompact(k, i) ==
    LET let_go == [k EXCEPT !.flushing = FALSE]
    IN  IF MayCompact(k)
        THEN StartCompact([let_go EXCEPT !.flushes[i] = [st |-> "compacting", count |-> 0,
                                                         edits |-> {}]], i)
        ELSE FinishFlush(ScheduleFlush(let_go), i)

\* handleHttpFlushResponse and the blocks around it in flushOverHttp.
FlushDone(c, i) ==
    LET k == client[c]
        t == k.flushes[i]
    IN  /\ \/ t.st = "ok" /\ Becomes(c, FinishFlush(MaybeCompact(
                                 [DropSent(k, t.count) EXCEPT !.pending = t.pending]), i))
           \/ t.st = "full" /\ Becomes(c, AwaitCompact(k, i))
           \/ t.st = "bad" /\ Becomes(c, FinishFlush(HaltFlush(k), i))
           \/ t.st = "gone" /\ Becomes(c, FinishFlush(Fatal(k), i))
           \/ t.st = "err" /\ Becomes(c, FinishFlush(ScheduleFlush(k), i))
        /\ UNCHANGED <<serverVars, netVars, faults>>
----------------------------------------------------------------------------
(* The socket: opening and closing. *)

\* If nothing is flushing, what is unsaved is flushed (onopen, onclose).
FlushUnsaved(k) ==
    IF k.outbox # <<>> /\ ~k.flushing THEN ScheduleFlush(k) ELSE k

\* The consumer accepts at once and checks afterwards; onopen parks the poll loop
\* and queues a gap fill.
Open(c) ==
    LET k == client[c]
    IN  /\ k.ws = "connecting"
        /\ Becomes(c, FlushUnsaved([k EXCEPT !.ws = "open", !.consumer = "accepted",
                                             !.pollTimer = FALSE,
                                             !.inbox = Append(@, [type |-> "gapfill"])]))
        /\ UNCHANGED <<serverVars, netVars, faults>>

\* The consumer's checks pass: it joins the group and serves frames.
Join(c) ==
    /\ client[c].consumer = "accepted"
    /\ exists
    /\ Becomes(c, [client[c] EXCEPT !.consumer = "ready"])
    /\ UNCHANGED <<serverVars, netVars, faults>>

\* Of the frames in the inbox, the ones not delivered when the socket closes are
\* lost; the gap fills among them were queued by the client itself.
Surviving(inbox, n) ==
    LET gapfills == {i \in n + 1 .. Len(inbox) : inbox[i].type = "gapfill"}
    IN  SubSeq(inbox, 1, n) \o [i \in 1 .. Cardinality(gapfills) |-> [type |-> "gapfill"]]

\* onclose, up to the close code.
Released(k, inbox) ==
    [k EXCEPT !.ws = "none", !.consumer = "none", !.inbox = inbox,
              !.flushing = @ /\ k.wsFlush = NoFlush, !.wsFlush = NoFlush]

\* Mutant: the poll loop is not resumed while a reconnect is scheduled.
OnClose_NoPoll(c, k, code) ==
    CASE code = "not_found" -> Fatal(k)
      [] code = "abuse"     -> FlushUnsaved(SchedulePoll([k EXCEPT !.gaveUp = TRUE]))
      [] code = "lost"      -> FlushUnsaved(ScheduleWsReconnect(c, k))

\* onclose, by close code: 4404, the three codes of abuse, any other.
OnClose(c, k, code) ==
    CASE code = "not_found" -> Fatal(k)
      [] code = "abuse"     -> FlushUnsaved(SchedulePoll([k EXCEPT !.gaveUp = TRUE]))
      [] code = "lost"      -> FlushUnsaved(SchedulePoll(ScheduleWsReconnect(c, k)))

\* The socket of c closes. A frame a ready consumer has received may still be
\* served; the sender of an update is its channel, which is gone.
Close(c, code) ==
    LET k == client[c]
    IN  /\ \E n \in 0..Len(k.inbox) :
               Becomes(c, OnClose(c, Released(k, Surviving(k.inbox, n)), code))
        /\ uplink' = {f \in uplink : f.client # c \/ ~f.live}
                     \cup (IF k.consumer = "ready"
                           THEN {[f EXCEPT !.live = FALSE] : f \in {g \in uplink : g.client = c}}
                           ELSE {})
        /\ outgoing' = {[m EXCEPT !.sender = @ \ {c}] : m \in outgoing}
        /\ UNCHANGED serverVars

\* The connection drops or is never made, or the consumer sends the client away for
\* good (too many connects, sockets or frames).
Disconnect(c) ==
    /\ client[c].ws \in {"connecting", "open"}
    /\ Fault
    /\ \/ Close(c, "lost")
       \/ client[c].consumer # "none" /\ Close(c, "abuse")

\* The consumer finds no note to serve.
TurnAway(c) ==
    /\ client[c].consumer = "accepted"
    /\ ~exists
    /\ Close(c, "not_found")
    /\ UNCHANGED faults

\* WS_ACK_TIMEOUT_MS without an answer: the client starts closing the socket. Every
\* frame is answered in the end, so this is an answer that comes too late.
AckTimeout(c) ==
    /\ client[c].wsFlush # NoFlush
    /\ WsIsOpen(client[c])
    /\ Fault
    /\ Becomes(c, [client[c] EXCEPT !.ws = "closing"])
    /\ UNCHANGED <<serverVars, netVars>>

FinishClosing(c) ==
    /\ client[c].ws = "closing"
    /\ Close(c, "lost")
    /\ UNCHANGED faults

ReconnectTimerFires(c) ==
    /\ client[c].reconnectTimer
    /\ Becomes(c, ConnectWs(c, [client[c] EXCEPT !.reconnectTimer = FALSE]))
    /\ UNCHANGED <<serverVars, netVars, faults>>
----------------------------------------------------------------------------
(* The socket: frames. *)

\* A frame reaches the client only while its socket is open.
Deliver(k, frame) == IF WsIsOpen(k) THEN [k EXCEPT !.inbox = Append(@, frame)] ELSE k

\* receive_json and _handle_update, for a frame of a consumer that has joined. A
\* consumer handles one event at a time, its broadcast included.
ServeFrame(f) ==
    LET c == f.client
        k == client[c]
        Answer(frame) == Becomes(c, IF f.live THEN Deliver(k, frame) ELSE k)
        Refuse(code)  == Answer([type |-> "error", code |-> code])
    IN  /\ f.live => k.consumer = "ready"
        /\ \A m \in outgoing : c \notin m.sender
        /\ \/ /\ Accept(f.edits)
              /\ Answer([type |-> "ack", txn |-> f.txn, prev |-> NextSeq - 1, seq |-> NextSeq,
                         pending |-> Cardinality(rows) + 1])
              /\ outgoing' = outgoing \cup
                     {[seq |-> NextSeq, prev |-> NextSeq - 1, edits |-> f.edits,
                       sender |-> IF f.live THEN {c} ELSE {}]}
              /\ UNCHANGED faults
           \/ /\ \/ MayReject /\ Refuse("update_too_large")
                 \/ ~exists /\ Answer([type |-> "expired"])
                 \/ exists /\ TailFull(rows, f.edits) /\ Refuse("pending_tail_full")
                 \/ ~f.live /\ Becomes(c, k)
              /\ UNCHANGED <<serverVars, outgoing, faults>>
           \/ /\ Refuse("server_error")
              /\ Fault
              /\ UNCHANGED <<serverVars, outgoing>>
        /\ uplink' = uplink \ {f}

\* group_send: every joined socket but the sender's gets the update.
Broadcast(m) ==
    /\ client' = [d \in Clients |->
                     IF client[d].consumer = "ready" /\ d \notin m.sender
                     THEN Deliver(client[d], [type |-> "update", prev |-> m.prev, seq |-> m.seq,
                                              edits |-> m.edits])
                     ELSE client[d]]
    /\ outgoing' = outgoing \ {m}
    /\ UNCHANGED <<serverVars, uplink, faults, overlap>>

\* The channel layer drops an update.
LoseBroadcast(m) ==
    /\ Fault
    /\ outgoing' = outgoing \ {m}
    /\ UNCHANGED <<serverVars, client, uplink, overlap>>

\* gapFill, up to its await.
GapFill(k) == IF k.stopped THEN k ELSE [k EXCEPT !.handler = Reply(k.cursor)]

\* What an update or an ack that follows prev tells a client at this cursor.
advanceCursor(cursor, prev, seq) ==
    [gap |-> prev > cursor, stale |-> prev <= cursor /\ seq <= cursor,
     cursor |-> IF prev <= cursor /\ seq > cursor THEN seq ELSE cursor]

\* Mutant: prev_seq is not looked at.
HandleUpdate_NoGapCheck(k, f) ==
    IF f.seq <= k.cursor THEN k
    ELSE [k EXCEPT !.handler = [st |-> "apply", seq |-> f.seq, edits |-> f.edits]]

\* handleWsMessage for an update.
HandleUpdate(k, f) ==
    LET step == advanceCursor(k.cursor, f.prev, f.seq)
    IN  IF step.gap THEN GapFill(k)
        ELSE IF step.stale THEN k
        ELSE [k EXCEPT !.handler = [st |-> "apply", seq |-> f.seq, edits |-> f.edits]]

\* handleAck: the outbox and the tail size for the flush it answers, the cursor for
\* any ack.
HandleAck(k, f) ==
    LET mine    == k.wsFlush # NoFlush /\ f.txn = k.wsFlush.txn
        dropped == IF mine
                   THEN [ClearWsFlushWait(DropSent(k, k.wsFlush.count)) EXCEPT !.pending = f.pending]
                   ELSE k
        step    == advanceCursor(k.cursor, f.prev, f.seq)
        moved   == [dropped EXCEPT !.cursor = step.cursor]
        armed   == MaybeCompact(moved)
        flushed == IF armed.outbox = <<>> THEN armed ELSE ScheduleFlush(armed)
    IN  IF step.gap THEN GapFill(flushed) ELSE flushed

\* The consumer has no other: this client sends no invalid frame.
isPermanentErrorCode(code) == code = "update_too_large"

\* handleErrorFrame.
HandleErrorFrame(k, f) ==
    CASE f.code = "pending_tail_full" ->
             LET clear == ClearWsFlushWait(k)
             IN  IF MayCompact(clear)
                 THEN StartCompact([clear EXCEPT !.handler = [st |-> "compact"]], Frame)
                 ELSE ScheduleFlush(clear)
      [] isPermanentErrorCode(f.code) -> HaltFlush(k)
      [] f.code = "server_error" ->
             IF k.wsFlush # NoFlush THEN ScheduleFlush(ClearWsFlushWait(k)) ELSE k

\* The next frame of the inbox; a stopped client drops it.
TakeFrame(c) ==
    LET f == Head(client[c].inbox)
        k == [client[c] EXCEPT !.inbox = Tail(@)]
    IN  /\ client[c].inbox # <<>>
        /\ client[c].handler = Idle
        /\ \/ k.stopped /\ Becomes(c, k)
           \/ /\ ~k.stopped
              /\ \/ f.type = "gapfill" /\ Becomes(c, GapFill(k))
                 \/ f.type = "update" /\ Becomes(c, HandleUpdate(k, f))
                 \/ f.type = "ack" /\ Becomes(c, HandleAck(k, f))
                 \/ f.type = "error" /\ Becomes(c, HandleErrorFrame(k, f))
                 \/ f.type = "expired" /\ Becomes(c, Fatal(k))
        /\ UNCHANGED <<serverVars, netVars, faults>>

\* The update is decrypted and applied. The cursor is the one computed before that,
\* even if a poll has moved it further meanwhile.
ApplyDone(c) ==
    LET k == client[c]
    IN  /\ k.handler.st = "apply"
        /\ Becomes(c, [k EXCEPT !.doc = @ \cup k.handler.edits, !.cursor = k.handler.seq,
                                !.handler = Idle])
        /\ UNCHANGED <<serverVars, netVars, faults>>

GapFillDone(c) ==
    LET k == client[c]
    IN  /\ k.handler.st = "reply"
        /\ Becomes(c, TakeReply([k EXCEPT !.handler = Idle], k.handler))
        /\ UNCHANGED <<serverVars, netVars, faults>>

GapFillFails(c) ==
    /\ client[c].handler.st = "reply"
    /\ Fault
    /\ Becomes(c, [client[c] EXCEPT !.handler = Idle])
    /\ UNCHANGED <<serverVars, netVars>>
----------------------------------------------------------------------------
ExpireNote ==
    /\ MayExpire
    /\ Expire
    /\ UNCHANGED <<client, uplink, outgoing, faults, log, overlap>>

\* Users and the world: never obliged to do anything.
Environment ==
    \/ ExpireNote
    \/ \E m \in outgoing : LoseBroadcast(m)
    \/ \E c \in Clients :
        \/ Start(c)
        \/ MayHide /\ (Hide(c) \/ Show(c))
        \/ \E e \in Edits : Type(c, e)
        \/ CountdownEnds(c)
        \/ PollFails(c) \/ CompactFails(c) \/ GapFillFails(c)
        \/ \E i \in Slots : FlushFails(c, i)
        \/ Disconnect(c) \/ AckTimeout(c)

\* What a running client and server get round to, by the thread of control it is on.
PollLoop(c) == PollTimerFires(c) \/ PollDone(c)
FlushLoop(c) == \E i \in Slots : EncryptDone(c, i) \/ ServeFlush(c, i) \/ FlushDone(c, i)
Inbox(c) == TakeFrame(c) \/ ApplyDone(c) \/ GapFillDone(c)
Socket(c) ==
    Open(c) \/ Join(c) \/ TurnAway(c) \/ FinishClosing(c) \/ ReconnectTimerFires(c)
Consumer(c) == \E f \in uplink : f.client = c /\ ServeFrame(f)
ChannelLayer == \E m \in outgoing : Broadcast(m)

Next ==
    \/ Environment
    \/ \E c \in Clients :
        \/ PollLoop(c) \/ CompactDone(c) \/ FlushTimerFires(c) \/ Inbox(c) \/ Socket(c)
        \/ Consumer(c) \/ FlushLoop(c)
    \/ ChannelLayer

Spec == Init /\ [][Next]_vars

\* Timers fire, promises settle and requests are answered: weak fairness for each
\* thread. Users, faults and the expiry of the note are owed nothing.
Fairness ==
    /\ \A c \in Clients :
        /\ WF_vars(PollLoop(c))
        /\ WF_vars(CompactDone(c))
        /\ WF_vars(FlushTimerFires(c))
        /\ WF_vars(FlushLoop(c))
    /\ \A c \in Sockets :
        /\ WF_vars(Inbox(c))
        /\ WF_vars(Socket(c))
        /\ WF_vars(Consumer(c))
    /\ Sockets # {} => WF_vars(ChannelLayer)

FairSpec == Spec /\ Fairness

----------------------------------------------------------------------------
(* What has to be true. *)

Accepted == EditsOf(log)
Typed(c) == {e \in client[c].doc : Author[e] = c}

\* "Send merged outbox over WS; clear it only after the ack", and the same for a
\* POST: an edit leaves the outbox only once the server has it.
UnsavedStaysInOutbox ==
    \A c \in Clients : Typed(c) \subseteq Range(client[c].outbox) \cup Accepted

\* An edit leaves the outbox only once the server has it, through every loss, retry,
\* stale answer and change of transport - provided no client has ever had two
\* flushes unanswered at once.
OutboxKeepsUnsaved == overlap \/ UnsavedStaysInOutbox

\* A client with unsaved edits never just sits there: a timer, a flush, an ack or a
\* compaction it waits for will send them, and flushInFlight, which keeps every other
\* flush out, is only ever held by a flush that can still let go of it.
UnsavedIsArmed ==
    \A c \in Clients :
        LET k == client[c]
            live == {i \in Slots : k.flushes[i] # Idle}
        IN  /\ k.outbox # <<>> /\ ~k.stopped /\ ~k.halted =>
                   k.flushTimer \/ live # {} \/ k.wsFlush # NoFlush \/ k.handler.st = "compact"
            /\ k.flushing => Unanswered(k) # {} \/ k.wsFlush # NoFlush

\* A running client always has a way to hear of other people's edits: the poll loop
\* survives every opening, parking, closing and failing of the socket.
StaysTuned ==
    \A c \in Clients :
        LET k == client[c]
        IN  k.started /\ ~k.stopped =>
                k.pollTimer \/ k.poll # Idle \/ k.ws \in {"open", "closing"}

\* A client holds every update at or below its cursor, whichever of polls, gap
\* fills, pushes and acks moved it, in whatever order their awaits finished.
CursorSound ==
    \A c \in Clients : \A r \in log :
        client[c].started /\ r.seq <= client[c].cursor => r.edits \subseteq client[c].doc

\* No compaction by any client, however stale, loses an accepted update.
AcceptedKept == exists => Accepted \subseteq snapshot \cup EditsOf(rows)

\* Every edit reaches the server in the end, over whichever transport, unless the
\* note expires or the client has told its user that it gave up: however it goes on,
\* there comes a time when everything typed so far is saved.
GaveUp(c) == client[c].stopped \/ client[c].halted \/ overlap
EditsReachServer ==
    []<>(\A c \in Clients : Typed(c) \subseteq Accepted \/ GaveUp(c))

\* Every edit reaches every running client in the end.
EditsReachPeers ==
    []<>(\A c, d \in Clients : client[d].started /\ ~client[d].stopped =>
             Typed(c) \subseteq client[d].doc \/ GaveUp(c))
============================================================================
