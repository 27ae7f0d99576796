--------------------------- MODULE VaultTabProofs ---------------------------
(***************************************************************************)
(* VaultTab, proved for every timeout and every bound: the keys of a tab   *)
(* open what they stand for, no tab counts on its vault for too long, and  *)
(* the timer that drops a key is set for as long as the key is held.       *)
(***************************************************************************)
EXTENDS VaultTab, AccountSessionProofs

-----------------------------------------------------------------------------
(* The inductive invariant.  Its parts are about a time n, a generation c  *)
(* and a session s, so that they can be said of a tab before and after the *)
(* server's part of a step.                                                *)

\* A request was sent in the past, and the access its answer tells of was there
\* when the server worked it out.
CallOK(call, n, c, s) ==
    /\ call.at <= n
    /\ call.reply.status = "none" => call.reply = NoReply
    /\ call.reply.until # 0 =>
        /\ call.reply.status = "ok"
        /\ call.at <= call.reply.time /\ call.reply.time <= n
        /\ call.reply.time < call.reply.until
        /\ call.reply.until <= call.reply.time + Timeout["note"]
        /\ Within(call.reply.until, call.reply.identity, n, c, s)

\* Each key stands under the identity it opens, and the timer and the answers that
\* are on their way tell of no more access than there is.
TabOK(b, n, c, s) ==
    /\ b \in Tab
    /\ b.key \in {0, b.identity}
    /\ b.store.key = b.store.identity
    /\ b.transfer.key = b.transfer.identity
    /\ b.mirror.key = b.mirror.identity
    /\ b.timer => Within(b.deadline, b.identity, n, c, s)
    /\ CallOK(b.check, n, c, s)
    /\ CallOK(b.obtain, n, c, s)
    \* obtainKey asks for the state; it renews nothing, and so is not refused
    /\ b.obtain.kind # "post" /\ b.obtain.reply.status \notin {"409", "423"}

\* The inductive invariant.
IInv == SessionOK(now, cred, session) /\ TabOK(tab, now, cred, session)

-----------------------------------------------------------------------------
(* Calls *)

\* The records that stand for nothing.
LEMMA Nothing ==
    /\ NoReply \in Replies /\ NoReply.until = 0 /\ NoReply.status = "none"
    /\ NoEntry \in Entries /\ NoEntry.key = NoEntry.identity
    /\ NoCall \in Calls /\ NoCall.at = 0 /\ NoCall.reply = NoReply /\ NoCall.kind = "none"
    /\ Prompt \in Calls /\ Prompt.at = 0 /\ Prompt.reply = NoReply /\ Prompt.kind = "prompt"
BY Bounds DEF NoReply, NoEntry, NoCall, Prompt, Replies, Entries, Calls

\* No call, and one that has no answer yet.
LEMMA SilentCallOK ==
    ASSUME NEW n \in 0 .. MaxTime, NEW c, NEW s
    PROVE  CallOK(NoCall, n, c, s) /\ CallOK(Prompt, n, c, s)
BY Nothing, Bounds DEF CallOK

\* A request that is sent now.
LEMMA CallFields ==
    ASSUME now \in 0 .. MaxTime, NEW c, NEW s,
           NEW kind \in {"first", "again", "get", "post"}
    PROVE  /\ Call(kind) \in Calls /\ Call(kind).kind = kind /\ Call(kind).reply = NoReply
           /\ CallOK(Call(kind), now, c, s)
BY Nothing, Bounds DEF CallOK, Call, Calls

-----------------------------------------------------------------------------
(* The functions of the tab *)

\* lock drops the key and every copy of it but the mirror.
LEMMA LockKeeps ==
    ASSUME NEW n, NEW c, NEW s, NEW b, TabOK(b, n, c, s), NEW p \in BOOLEAN
    PROVE  /\ TabOK(lock(b, p), n, c, s)
           /\ lock(b, p).key = 0 /\ lock(b, p).identity = b.identity
           /\ lock(b, p).obtain = b.obtain /\ lock(b, p).check = b.check
           /\ lock(b, p).phase = b.phase
BY Nothing, Bounds DEF TabOK, Tab, lock

\* obtainKey gives up.
LEMMA WithoutKeeps ==
    ASSUME NEW n \in 0 .. MaxTime, NEW c, NEW s, NEW b, TabOK(b, n, c, s)
    PROVE  TabOK(Without(b), n, c, s)
BY Nothing, SilentCallOK DEF TabOK, Tab, Without

\* The prompt is closed, the page stopped or signed out.
LEMMA DismissKeeps ==
    ASSUME NEW n \in 0 .. MaxTime, NEW c, NEW s, NEW b, TabOK(b, n, c, s)
    PROVE  /\ TabOK(dismiss(b), n, c, s)
           /\ TabOK(changedIdentity(b), n, c, s)
           /\ TabOK(SignedOut(b), n, c, s)
<1>1. \A d : TabOK(d, n, c, s) => TabOK(dismiss(d), n, c, s)
  BY WithoutKeeps DEF dismiss
<1>2. TabOK(SignedOut(b), n, c, s)
  BY <1>1, LockKeeps DEF SignedOut
<1>3. TabOK(changedIdentity(b), n, c, s)
  <2> DEFINE d == dismiss(lock(b, FALSE))
  <2>1. TabOK(d, n, c, s)
    BY <1>1, LockKeeps
  <2> HIDE DEF d
  <2>2. TabOK([d EXCEPT !.phase = "stopped"], n, c, s)
    BY <2>1 DEF TabOK, Tab
  <2> QED
    BY <2>2 DEF changedIdentity, d
<1> QED
  BY <1>1, <1>2, <1>3

\* applyState: what the tab takes for the end of its access is no later than
\* what the server told.
LEMMA ApplyStateKeeps ==
    ASSUME NEW n, NEW c, NEW s, SessionOK(n, c, s), NEW b, TabOK(b, n, c, s), NEW call \in Calls,
           CallOK(call, n, c, s), b.key \in {0, call.reply.identity}
    PROVE  LET a == applyState(b, call)
           IN  /\ TabOK(a, n, c, s)
               /\ a.identity = call.reply.identity /\ a.key = b.key /\ a.obtain = b.obtain
<1> DEFINE r == call.reply
<1>1. /\ call.at \in Times /\ r \in Replies /\ r.identity \in Gens
      /\ r.until \in Times /\ r.time \in Times /\ Times \subseteq Nat
  BY Bounds DEF Calls, Replies
<1>2. /\ Deadline(call) \in Times
      /\ r.until # 0 => Within(Deadline(call), r.identity, n, c, s)
  <2>1. CASE r.until = 0
    BY <2>1, <1>1 DEF Deadline
  <2>2. CASE r.until # 0
    <3>1. /\ Deadline(call) = call.at + (r.until - r.time)
          /\ call.at <= r.time /\ r.time < r.until /\ r.time <= n /\ call.at <= n
          /\ r.until <= r.time + Timeout["note"] /\ Within(r.until, r.identity, n, c, s)
      BY <2>2 DEF Deadline, CallOK
    <3>2. Deadline(call) \in Nat /\ Deadline(call) <= r.until
          /\ Deadline(call) <= n + Timeout["note"]
      <4>1. \A a, u, t, m, k \in Nat :
               a <= t /\ t < u /\ t <= m /\ u <= t + k =>
                   a + (u - t) \in Nat /\ a + (u - t) <= u /\ a + (u - t) <= m + k
        OBVIOUS
      <4>2. {call.at, r.until, r.time, n, Timeout["note"]} \subseteq Nat
        BY <1>1, Bounds DEF SessionOK
      <4> HIDE DEF r
      <4> QED
        BY <3>1, <4>1, <4>2
    <3>3. s.in /\ s.version = c /\ r.identity = c => Deadline(call) <= s.until["note"]
      <4> SUFFICES ASSUME s.in, s.version = c, r.identity = c
                   PROVE  Deadline(call) <= s.until["note"]
        OBVIOUS
      <4>1. r.until <= s.until["note"]
        BY <3>1 DEF Within
      <4>2. s.until["note"] \in Nat /\ r.until \in Nat
        BY <1>1, Bounds DEF SessionOK, Tools
      <4> HIDE DEF r
      <4> QED
        BY <4>1, <4>2, <3>2
    <3>4. Deadline(call) \in Times
      BY <3>2, Bounds DEF SessionOK
    <3> QED
      BY <3>2, <3>3, <3>4 DEF Within
  <2> QED
    BY <2>1, <2>2
<1>3. n \in 0 .. MaxTime /\ Open(call) \in BOOLEAN /\ (Open(call) => r.until # 0)
  BY DEF Open, SessionOK
<1> QED
  BY <1>1, <1>2, <1>3 DEF TabOK, Tab, applyState

\* cachedKey takes a key that stands under the identity of the answer, or none.
LEMMA CachedKeyKeeps ==
    ASSUME NEW n, NEW c, NEW s, NEW b, TabOK(b, n, c, s), NEW r, b.identity = r.identity
    PROVE  /\ TabOK(cachedKey(b, r), n, c, s)
           /\ cachedKey(b, r).identity = r.identity
           /\ cachedKey(b, r).obtain = b.obtain
<1> DEFINE took(key) == [b EXCEPT !.key = key]
<1>1. b \in Tab /\ NoEntry \in Entries /\ NoEntry.key = NoEntry.identity /\ 0 \in Gens
  BY Nothing, Bounds DEF TabOK
<1>2. CASE Fits(b.transfer, r)
  BY <1>1, <1>2 DEF cachedKey, Fits, TabOK, Tab, Entries
<1>3. CASE ~Fits(b.transfer, r) /\ Fits(b.store, r) /\ b.store.until > r.time
  BY <1>1, <1>3 DEF cachedKey, Fits, TabOK, Tab, Entries
<1>4. CASE /\ ~Fits(b.transfer, r) /\ ~(Fits(b.store, r) /\ b.store.until > r.time)
           /\ Fits(b.mirror, r) /\ b.mirror.until > r.time
  BY <1>1, <1>4 DEF cachedKey, Fits, TabOK, Tab, Entries
<1>5. CASE /\ ~Fits(b.transfer, r) /\ ~(Fits(b.store, r) /\ b.store.until > r.time)
           /\ ~(Fits(b.mirror, r) /\ b.mirror.until > r.time)
  BY <1>1, <1>5 DEF cachedKey, TabOK, Tab
<1> QED
  BY <1>2, <1>3, <1>4, <1>5

\* remember stores the key the tab holds under the identity of the answer.
LEMMA RememberKeeps ==
    ASSUME NEW n, NEW c, NEW s, NEW b, TabOK(b, n, c, s), NEW r \in Replies,
           b.identity = r.identity, b.key # 0
    PROVE  TabOK(remember(b, r), n, c, s)
<1>1. b.key \in Gens /\ b.key = r.identity /\ b \in Tab
  BY DEF TabOK, Tab
<1>2. Entry(b, r) \in Entries /\ Entry(b, r).key = Entry(b, r).identity
  BY <1>1 DEF Entry, Entries, Replies
<1> QED
  BY <1>1, <1>2 DEF TabOK, Tab, remember

\* obtainKey ends with the key, or with none.
LEMMA ObtainedKeeps ==
    ASSUME NEW n \in 0 .. MaxTime, NEW c, NEW s, NEW b, TabOK(b, n, c, s),
           NEW call \in Calls, b.identity = call.reply.identity
    PROVE  TabOK(Obtained(b, call), n, c, s)
<1>1. CASE b.key = 0
  BY <1>1, WithoutKeeps DEF Obtained
<1>2. CASE b.key # 0
  <2> DEFINE d == [b EXCEPT !.locked = FALSE, !.obtain = NoCall,
                            !.phase = IF @ = "start" THEN "on" ELSE @]
  <2>1. TabOK(d, n, c, s) /\ d.identity = b.identity /\ d.key = b.key
    BY Nothing, SilentCallOK DEF TabOK, Tab
  <2>2. call.reply \in Replies
    BY DEF Calls
  <2>3. Obtained(b, call) = remember(d, call.reply)
    BY <1>2 DEF Obtained
  <2> HIDE DEF d
  <2> QED
    BY <1>2, <2>1, <2>2, <2>3, RememberKeeps
<1> QED
  BY <1>1, <1>2

\* obtainKey finds a key, or locks the tab and asks for the password.
LEMMA ObtainKeyKeeps ==
    ASSUME NEW n \in 0 .. MaxTime, NEW c, NEW s, NEW b, TabOK(b, n, c, s),
           NEW call \in Calls, b.identity = call.reply.identity
    PROVE  TabOK(obtainKey(b, call), n, c, s)
<1> DEFINE d == IF Open(call) /\ b.key = 0 THEN cachedKey(b, call.reply) ELSE b
<1>1. TabOK(d, n, c, s) /\ d.identity = call.reply.identity
  BY CachedKeyKeeps
<1>2. obtainKey(b, call) = IF Open(call) /\ d.key # 0 THEN Obtained(d, call)
                           ELSE [lock(d, FALSE) EXCEPT !.obtain = Prompt]
  BY DEF obtainKey
<1> HIDE DEF d
<1>3. TabOK([lock(d, FALSE) EXCEPT !.obtain = Prompt], n, c, s)
  <2> DEFINE e == lock(d, FALSE)
  <2>1. TabOK(e, n, c, s)
    BY <1>1, LockKeeps
  <2> HIDE DEF e
  <2>2. TabOK([e EXCEPT !.obtain = Prompt], n, c, s)
    BY <2>1, Nothing, SilentCallOK DEF TabOK, Tab
  <2> QED
    BY <2>2 DEF e
<1> QED
  BY <1>1, <1>2, <1>3, ObtainedKeeps

\* A tab drops the call whose answer it takes.
LEMMA HangUpKeeps ==
    ASSUME NEW n \in 0 .. MaxTime, NEW c, NEW s, NEW b, TabOK(b, n, c, s)
    PROVE  /\ TabOK([b EXCEPT !.check = NoCall], n, c, s)
           /\ TabOK([b EXCEPT !.obtain = NoCall], n, c, s)
BY Nothing, SilentCallOK DEF TabOK, Tab

\* refresh, from its answer on: an answer of another identity stops the page,
\* and any other leaves the key standing under the identity of the answer.
LEMMA CheckResultKeeps ==
    ASSUME NEW n, NEW c, NEW s, SessionOK(n, c, s), NEW b, TabOK(b, n, c, s),
           NEW call \in Calls, CallOK(call, n, c, s)
    PROVE  TabOK(CheckResult(b, call), n, c, s)
<1> DEFINE r == call.reply
           a == IF r.status = "ok" THEN applyState(b, call) ELSE b
<1>1. n \in 0 .. MaxTime /\ r \in Replies
  BY DEF SessionOK, Calls
<1>2. CASE r.status = "401"
  BY <1>1, <1>2, DismissKeeps DEF CheckResult
<1>3. CASE r.status = "409" \/ (r.status = "ok" /\ Foreign(b, call))
  BY <1>1, <1>3, DismissKeeps DEF CheckResult
<1>4. CASE r.status = "err"
  BY <1>1, <1>4, LockKeeps DEF CheckResult
<1>5. CASE r.status = "ok" /\ ~Foreign(b, call)
  <2>1. b.key \in {0, r.identity}
    BY <1>5 DEF Foreign, TabOK
  <2>2. TabOK(a, n, c, s) /\ a.identity = r.identity
    BY <1>5, <2>1, ApplyStateKeeps
  <2>3. CheckResult(b, call) = IF Open(call) /\ a.key # 0 THEN remember(a, r)
                               ELSE IF a.obtain = NoCall THEN obtainKey(a, call) ELSE a
    BY <1>5 DEF CheckResult
  <2> HIDE DEF a
  <2> QED
    BY <1>1, <2>2, <2>3, RememberKeeps, ObtainKeyKeeps
<1>6. CASE r.status \notin {"401", "409", "ok", "err"}
  <2>1. ~Open(call)
    BY <1>6 DEF CallOK, Open
  <2>2. CheckResult(b, call) = IF b.obtain = NoCall THEN obtainKey(b, call) ELSE b
    BY <1>6, <2>1 DEF CheckResult
  <2>3. obtainKey(b, call) = [lock(b, FALSE) EXCEPT !.obtain = Prompt]
    BY <2>1 DEF obtainKey
  <2>4. TabOK([lock(b, FALSE) EXCEPT !.obtain = Prompt], n, c, s)
    <3> DEFINE e == lock(b, FALSE)
    <3>1. TabOK(e, n, c, s)
      BY LockKeeps
    <3> HIDE DEF e
    <3>2. TabOK([e EXCEPT !.obtain = Prompt], n, c, s)
      BY <1>1, <3>1, Nothing, SilentCallOK DEF TabOK, Tab
    <3> QED
      BY <3>2 DEF e
  <2> QED
    BY <2>2, <2>3, <2>4
<1> QED
  BY <1>2, <1>3, <1>4, <1>5, <1>6

\* obtainKey and start, from the answer on.
LEMMA ObtainResultKeeps ==
    ASSUME NEW n, NEW c, NEW s, SessionOK(n, c, s), NEW b, TabOK(b, n, c, s),
           NEW call \in Calls, CallOK(call, n, c, s),
           call.reply.status \in {"ok", "401", "err"}
    PROVE  TabOK(ObtainResult(b, call), n, c, s)
<1> DEFINE r == call.reply
           a == applyState(b, call)
<1>1. n \in 0 .. MaxTime
  BY DEF SessionOK
<1>2. CASE r.status = "401"
  BY <1>1, <1>2, DismissKeeps, WithoutKeeps DEF ObtainResult
<1>3. CASE r.status = "ok" /\ Foreign(b, call)
  BY <1>1, <1>3, DismissKeeps, WithoutKeeps DEF ObtainResult
<1>4. CASE r.status = "err"
  BY <1>1, <1>4, WithoutKeeps DEF ObtainResult
<1>5. CASE r.status = "ok" /\ ~Foreign(b, call)
  <2>1. b.key \in {0, r.identity}
    BY <1>5 DEF Foreign, TabOK
  <2>2. TabOK(a, n, c, s) /\ a.identity = r.identity
    BY <2>1, ApplyStateKeeps
  <2>3. ObtainResult(b, call) =
            IF call.kind = "first" THEN obtainKey(a, call)
            ELSE IF Open(call) THEN Obtained(cachedKey(a, r), call) ELSE Without(a)
    BY <1>5 DEF ObtainResult
  <2> HIDE DEF a
  <2>4. TabOK(cachedKey(a, r), n, c, s) /\ cachedKey(a, r).identity = r.identity
    BY <2>2, CachedKeyKeeps
  <2> QED
    BY <1>1, <2>2, <2>3, <2>4, ObtainKeyKeeps, ObtainedKeeps, WithoutKeeps
<1> QED
  BY <1>2, <1>3, <1>4, <1>5

\* refresh, as far as its request.
LEMMA RefreshKeeps ==
    ASSUME NEW c, NEW s, now \in 0 .. MaxTime, NEW b, TabOK(b, now, c, s),
           NEW kind \in {"get", "post"}
    PROVE  TabOK(refresh(b, kind), now, c, s)
<1> DEFINE d == IF ~b.locked /\ b.deadline # 0 /\ now >= b.deadline THEN lock(b, TRUE) ELSE b
<1>1. TabOK(d, now, c, s)
  BY LockKeeps
<1>2. refresh(b, kind) = IF b.phase = "stopped" THEN b
                         ELSE IF d.check = NoCall THEN [d EXCEPT !.check = Call(kind)] ELSE d
  BY DEF refresh
<1> HIDE DEF d
<1>3. TabOK([d EXCEPT !.check = Call(kind)], now, c, s)
  BY <1>1, CallFields DEF TabOK, Tab
<1> QED
  BY <1>1, <1>2, <1>3

-----------------------------------------------------------------------------
(* The server's part of a step *)

\* Such a step leaves a tab in order.
LEMMA LongerKeeps ==
    ASSUME SessionOK(now, cred, session), Longer, NEW b, TabOK(b, now, cred, session)
    PROVE  TabOK(b, now', cred', session')
<1>1. now \in Nat /\ now' \in Nat /\ now <= now'
  BY Bounds DEF SessionOK, Longer
<1>2. \A call \in Calls : CallOK(call, now, cred, session) => CallOK(call, now', cred', session')
  <2> SUFFICES ASSUME NEW call \in Calls, CallOK(call, now, cred, session)
               PROVE  CallOK(call, now', cred', session')
    OBVIOUS
  <2>1. /\ call.at \in Nat /\ call.reply.time \in Nat /\ call.reply.until \in Nat
        /\ call.reply.identity \in Gens
    BY Bounds DEF Calls, Replies
  <2>2. call.at <= now'
    BY <1>1, <2>1 DEF CallOK
  <2>3. ASSUME call.reply.until # 0
        PROVE  /\ call.reply.time <= now'
               /\ Within(call.reply.until, call.reply.identity, now', cred', session')
    BY <1>1, <2>1, <2>3 DEF CallOK, Longer
  <2> QED
    BY <2>2, <2>3 DEF CallOK
<1>3. b.check \in Calls /\ b.obtain \in Calls /\ b.deadline \in Nat /\ b.identity \in Gens
  BY Bounds DEF TabOK, Tab
<1>4. b.timer => Within(b.deadline, b.identity, now', cred', session')
  BY <1>3 DEF TabOK, Longer
<1> QED
  BY <1>2, <1>3, <1>4 DEF TabOK

-----------------------------------------------------------------------------
(* The steps *)

\* What the tab stores of a password that was given: its key.
LEMMA HandoffFields ==
    ASSUME cred \in Gens, NEW sid \in 1 .. MaxSid
    PROVE  Handoff(sid) \in Entries /\ Handoff(sid).key = Handoff(sid).identity
BY Bounds DEF Handoff, Entries

\* A tab that is being opened has no key and nothing to count on.
LEMMA OpeningKeeps ==
    ASSUME NEW c, NEW s, now \in 0 .. MaxTime,
           NEW x \in Entries, NEW y \in Entries, NEW z \in Entries,
           x.key = x.identity, y.key = y.identity, z.key = z.identity
    PROVE  TabOK(Opening(x, y, z), now, c, s)
BY Nothing, Bounds, CallFields, SilentCallOK DEF TabOK, Tab, Opening

\* The entries of a tab.
LEMMA Entry3 ==
    ASSUME NEW n, NEW c, NEW s, NEW b, TabOK(b, n, c, s)
    PROVE  /\ {b.store, b.transfer, b.mirror} \subseteq Entries
           /\ b.store.key = b.store.identity /\ b.transfer.key = b.transfer.identity
           /\ b.mirror.key = b.mirror.identity
BY DEF TabOK, Tab

\* Another tab writes the mirror.
LEMMA MirrorKeeps ==
    ASSUME NEW n, NEW c, NEW s, NEW b, TabOK(b, n, c, s), NEW e \in Entries, e.key = e.identity
    PROVE  TabOK([b EXCEPT !.mirror = e], n, c, s)
BY DEF TabOK, Tab

\* What the server answers to a request of the tab.
LEMMA AccessStateFields ==
    ASSUME NEW c, NEW s, SessionOK(now, c, s), cred = c, s.in /\ s.version = c
    PROVE  LET r == access_state(s, "note")
           IN  /\ r \in Replies /\ r.status = "ok" /\ r.time = now
               /\ r.until # 0 => /\ now < r.until /\ r.until <= now + Timeout["note"]
                                 /\ Within(r.until, r.identity, now, c, s)
<1>1. /\ s.sid \in 1 .. MaxSid /\ s.until["note"] \in Times /\ now \in Times /\ c \in Gens
      /\ s.until["note"] <= now + Timeout["note"] /\ now \in Nat /\ s.until["note"] \in Nat
  BY Bounds DEF SessionOK, Tools
<1>2. 0 \in Times /\ MaxSid \in Nat
  BY Bounds
<1> QED
  BY <1>1, <1>2 DEF access_state, NoReply, Replies, Within

\* An answer without access.
LEMMA ReplyFields ==
    ASSUME NEW status \in {"401", "409", "423", "err"}
    PROVE  Reply(status) \in Replies /\ Reply(status).status = status /\ Reply(status).until = 0
BY Bounds DEF Reply, NoReply, Replies

\* The answer comes back to the request that waits for it.
LEMMA AnswerKeeps ==
    ASSUME NEW n \in Nat, NEW c, NEW s, NEW b, TabOK(b, n, c, s), NEW r \in Replies,
           r.status # "none",
           r.until # 0 => /\ r.status = "ok" /\ r.time = n /\ n < r.until
                          /\ r.until <= n + Timeout["note"] /\ Within(r.until, r.identity, n, c, s)
    PROVE  /\ TabOK([b EXCEPT !["check"].reply = r], n, c, s)
           /\ r.status \notin {"409", "423"} => TabOK([b EXCEPT !["obtain"].reply = r], n, c, s)
<1>1. ASSUME NEW call \in Calls, CallOK(call, n, c, s)
      PROVE  /\ [call EXCEPT !.reply = r] \in Calls
             /\ [call EXCEPT !.reply = r].kind = call.kind
             /\ [call EXCEPT !.reply = r].reply = r
             /\ CallOK([call EXCEPT !.reply = r], n, c, s)
  BY <1>1 DEF Calls, CallOK
<1>2. b \in Tab /\ b.check \in Calls /\ b.obtain \in Calls
      /\ CallOK(b.check, n, c, s) /\ CallOK(b.obtain, n, c, s)
  BY DEF TabOK, Tab
<1>3. TabOK([b EXCEPT !.check = [b.check EXCEPT !.reply = r]], n, c, s)
  <2> DEFINE k == [b.check EXCEPT !.reply = r]
  <2>1. k \in Calls /\ CallOK(k, n, c, s)
    BY <1>1, <1>2
  <2> HIDE DEF k
  <2>2. TabOK([b EXCEPT !.check = k], n, c, s)
    BY <1>2, <2>1 DEF TabOK, Tab
  <2> QED
    BY <2>2 DEF k
<1>4. ASSUME r.status \notin {"409", "423"}
      PROVE  TabOK([b EXCEPT !.obtain = [b.obtain EXCEPT !.reply = r]], n, c, s)
  <2> DEFINE k == [b.obtain EXCEPT !.reply = r]
  <2>1. k \in Calls /\ CallOK(k, n, c, s) /\ k.kind = b.obtain.kind /\ k.reply = r
    BY <1>1, <1>2
  <2> HIDE DEF k
  <2>2. TabOK([b EXCEPT !.obtain = k], n, c, s)
    BY <1>2, <1>4, <2>1 DEF TabOK, Tab
  <2> QED
    BY <2>2 DEF k
<1> QED
  BY <1>2, <1>3, <1>4

\* A sign-in, here: the key the password gives is handed over.
LEMMA SignInHereKeeps ==
    ASSUME IInv, SignInHere
    PROVE  IInv'
<1>1. Longer /\ session.sid + 1 \in 1 .. MaxSid /\ UNCHANGED <<now, cred>>
  BY SignInIsLonger DEF IInv, SignInHere, SignIn
<1>2. /\ now \in 0 .. MaxTime /\ cred \in Gens /\ SessionOK(now, cred, session')
      /\ tab.store \in Entries /\ tab.mirror \in Entries
      /\ tab.store.key = tab.store.identity /\ tab.mirror.key = tab.mirror.identity
  BY <1>1, Entry3 DEF IInv, SessionOK, Longer
<1>3. TabOK(tab', now, cred, session')
  BY <1>1, <1>2, HandoffFields, OpeningKeeps DEF SignInHere
<1> QED
  BY <1>1, <1>2, <1>3 DEF IInv

\* A sign-out, here: every copy of the key is dropped.
LEMMA SignOutHereKeeps ==
    ASSUME IInv, SignOutHere
    PROVE  IInv'
<1>1. Longer /\ UNCHANGED <<now, cred>>
  BY FlushedIsLonger DEF IInv, SignOutHere, SignOut
<1>2. now \in 0 .. MaxTime
  BY DEF IInv, SessionOK
<1>3. TabOK([Opening(NoEntry, NoEntry, NoEntry) EXCEPT !.phase = "dead", !.obtain = NoCall],
            now, cred, session')
  <2> DEFINE b == Opening(NoEntry, NoEntry, NoEntry)
  <2>1. TabOK(b, now, cred, session')
    BY <1>2, Nothing, OpeningKeeps
  <2> HIDE DEF b
  <2>2. TabOK([b EXCEPT !.phase = "dead", !.obtain = NoCall], now, cred, session')
    BY <1>2, <2>1, Nothing, SilentCallOK DEF TabOK, Tab
  <2> QED
    BY <2>2 DEF b
<1> QED
  BY <1>1, <1>3 DEF IInv, Longer, SignOutHere

\* The mirror is written or cleared from elsewhere.
LEMMA ElsewhereKeeps ==
    ASSUME IInv, SignOutElsewhere \/ DeleteAccountElsewhere \/ SiblingActivity
    PROVE  IInv'
<1> USE DEF IInv
<1>1. Longer
  <2>1. CASE SignOutElsewhere
    BY <2>1, FlushedIsLonger DEF SignOutElsewhere, SignOut
  <2>2. CASE SiblingActivity
    BY <2>2, GrantedIsLonger DEF SiblingActivity, RenewNoteAccess, Gate, Tools
  <2>3. CASE DeleteAccountElsewhere
    BY <2>3, Bounds, LostIsLonger DEF DeleteAccountElsewhere, DeleteAccount
  <2> QED
    BY <2>1, <2>2, <2>3
<1>2. \E e \in Entries : e.key = e.identity /\ tab' = [tab EXCEPT !.mirror = e]
  <2>1. CASE SignOutElsewhere
    BY <2>1, Nothing DEF SignOutElsewhere
  <2>2. CASE DeleteAccountElsewhere
    BY <2>2, Nothing, Entry3 DEF DeleteAccountElsewhere
  <2>3. CASE SiblingActivity
    <3> DEFINE e == [key |-> cred, identity |-> cred, sid |-> session.sid,
                     until |-> now + Timeout["note"]]
    <3>1. /\ cred \in Gens /\ session.sid \in 0 .. MaxSid /\ now + Timeout["note"] \in Times
      BY Bounds DEF SessionOK, Tools
    <3>2. e \in Entries /\ e.key = e.identity
      BY <3>1 DEF Entries
    <3>3. tab' = [tab EXCEPT !.mirror = e]
      BY <2>3 DEF SiblingActivity
    <3> HIDE DEF e
    <3> QED
      BY <3>2, <3>3
  <2> QED
    BY <2>1, <2>2, <2>3
<1>3. TabOK(tab, now', cred', session')
  BY <1>1, LongerKeeps
<1> QED
  BY <1>1, <1>2, <1>3, MirrorKeeps DEF Longer

\* The tab asks, shows the prompt or is opened again; the server is not involved.
LEMMA TabOnlyKeeps ==
    ASSUME IInv,
           \/ Reload \/ ExpiryTimer \/ CheckAnswered \/ ObtainAnswered
           \/ \E kind \in {"get", "post"} : Refresh(kind)
    PROVE  IInv'
<1> USE DEF IInv
<1>1. now \in 0 .. MaxTime /\ tab.check \in Calls /\ tab.obtain \in Calls
      /\ CallOK(tab.check, now, cred, session) /\ CallOK(tab.obtain, now, cred, session)
  BY DEF TabOK, Tab, SessionOK
<1>2. CASE Reload
  BY <1>1, <1>2, OpeningKeeps, Entry3 DEF Reload, serverVars
<1>3. CASE ExpiryTimer
  <2>1. TabOK(lock(tab, TRUE), now, cred, session)
    BY LockKeeps
  <2> QED
    BY <1>1, <1>3, <2>1, RefreshKeeps DEF ExpiryTimer, serverVars
<1>4. CASE CheckAnswered
  <2> DEFINE b == [tab EXCEPT !.check = NoCall]
  <2>1. TabOK(b, now, cred, session)
    BY <1>1, HangUpKeeps
  <2>2. tab' = CheckResult(b, tab.check) /\ UNCHANGED serverVars
    BY <1>4 DEF CheckAnswered
  <2> HIDE DEF b
  <2> QED
    BY <1>1, <2>1, <2>2, CheckResultKeeps DEF serverVars
<1>5. CASE ObtainAnswered
  <2> DEFINE b == [tab EXCEPT !.obtain = NoCall]
  <2>1. TabOK(b, now, cred, session)
    BY <1>1, HangUpKeeps
  <2>2. tab' = ObtainResult(b, tab.obtain) /\ UNCHANGED serverVars
    BY <1>5 DEF ObtainAnswered
  <2>3. tab.obtain.reply.status \in {"ok", "401", "err"}
    <3>1. tab.obtain.reply # NoReply
      BY <1>5 DEF ObtainAnswered, Answered
    <3>2. tab.obtain.reply.status # "none"
      BY <1>1, <3>1 DEF CallOK
    <3> QED
      BY <1>1, <3>2 DEF TabOK, Calls, Replies
  <2> HIDE DEF b
  <2> QED
    BY <1>1, <2>1, <2>2, <2>3, ObtainResultKeeps DEF serverVars
<1>6. ASSUME NEW kind \in {"get", "post"}, Refresh(kind)
      PROVE  IInv'
  BY <1>1, <1>6, RefreshKeeps DEF Refresh, serverVars
<1> QED
  BY <1>2, <1>3, <1>4, <1>5, <1>6

\* A refused request of the open vault.
LEMMA VaultSessionErrorKeeps ==
    ASSUME IInv, VaultSessionError
    PROVE  IInv'
<1>1. Longer /\ UNCHANGED <<now, cred>>
  BY FlushedIsLonger DEF IInv, VaultSessionError
<1>2. TabOK(tab, now, cred, session') /\ now \in 0 .. MaxTime
  BY <1>1, LongerKeeps DEF IInv, SessionOK
<1>3. TabOK(tab', now, cred, session')
  BY <1>2, DismissKeeps, RefreshKeeps DEF VaultSessionError
<1> QED
  BY <1>1, <1>3 DEF IInv, Longer

\* A request for the state of the session is answered.
LEMMA VaultSessionViewKeeps ==
    ASSUME IInv, VaultSessionView
    PROVE  IInv'
<1> USE DEF IInv
<1>1. PICK field \in {"check", "obtain"} :
        LET served == IF tab[field].kind = "post" THEN PostState ELSE GetState
        IN  \/ /\ session' = served.session
               /\ \E r \in {served.reply, Reply("err")} : tab' = [tab EXCEPT ![field].reply = r]
            \/ /\ tab' = [tab EXCEPT ![field].reply = Reply("err")]
               /\ UNCHANGED session
  BY DEF VaultSessionView
<1>2. UNCHANGED <<now, cred>> /\ now \in Nat
  BY Bounds DEF VaultSessionView, SessionOK
<1> DEFINE Answer(r) ==
        /\ r \in Replies /\ r.status # "none"
        /\ r.until # 0 => /\ r.status = "ok" /\ r.time = now /\ now < r.until
                          /\ r.until <= now + Timeout["note"]
                          /\ Within(r.until, r.identity, now, cred, session')
<1>3. Answer(Reply("err")) /\ Reply("err").status \notin {"409", "423"}
  BY ReplyFields
<1>4. ASSUME session' = GetState.session
      PROVE  /\ Longer
             /\ Answer(GetState.reply) /\ GetState.reply.status \notin {"409", "423"}
  <2>1. session' = Flushed
    BY <1>4 DEF GetState
  <2>2. Longer
    BY <1>2, <2>1, FlushedIsLonger
  <2>3. CASE Authenticated
    <3>1. session' = session /\ GetState.reply = access_state(session', "note")
      BY <2>1, <2>3 DEF Flushed, GetState
    <3>2. SessionOK(now, cred, session') /\ session'.in /\ session'.version = cred
      BY <2>3, <3>1 DEF Authenticated
    <3> QED
      BY <2>2, <3>1, <3>2, AccessStateFields
  <2>4. CASE ~Authenticated
    BY <2>2, <2>4, ReplyFields DEF GetState
  <2> QED
    BY <2>3, <2>4
<1>5. ASSUME session' = PostState.session
      PROVE  Longer /\ Answer(PostState.reply)
  <2>1. CASE Gate("note", vaultHeaders) = "ok"
    <3>1. Authenticated
      BY <2>1 DEF Gate
    <3>2. /\ session' = Granted(session, {"note"}, cred)
          /\ PostState.reply = access_state(session', "note")
      BY <1>5, <2>1 DEF PostState
    <3>3. Longer
      BY <1>2, <3>1, <3>2, GrantedIsLonger DEF Tools
    <3>4. SessionOK(now, cred, session') /\ session'.in /\ session'.version = cred
      BY <1>2, <3>1, <3>2, <3>3 DEF Longer, Authenticated, Granted, SessionOK
    <3> QED
      BY <3>2, <3>3, <3>4, AccessStateFields
  <2>2. CASE Gate("note", vaultHeaders) # "ok"
    <3>1. Gate("note", vaultHeaders) \in {"401", "409", "423"}
      BY <2>2 DEF Gate
    <3>2. session' = Flushed /\ PostState.reply = Reply(Gate("note", vaultHeaders))
      BY <1>5, <2>2 DEF PostState
    <3> QED
      BY <1>2, <3>1, <3>2, FlushedIsLonger, ReplyFields
  <2> QED
    BY <2>1, <2>2
<1>6. Longer /\ \E r : /\ Answer(r) /\ (field = "obtain" => r.status \notin {"409", "423"})
                       /\ tab' = [tab EXCEPT ![field].reply = r]
  <2>1. field = "obtain" => tab[field].kind # "post"
    BY DEF TabOK
  <2>2. UNCHANGED session => Longer
    BY <1>2, SameIsLonger DEF serverVars
  <2> HIDE DEF Answer
  <2> QED
    BY <1>1, <1>3, <1>4, <1>5, <2>1, <2>2
<1>7. TabOK(tab, now, cred, session')
  BY <1>2, <1>6, LongerKeeps
<1>8. TabOK(tab', now, cred, session')
  <2>1. PICK r : /\ Answer(r) /\ (field = "obtain" => r.status \notin {"409", "423"})
                 /\ tab' = [tab EXCEPT ![field].reply = r]
    BY <1>6
  <2>2. CASE field = "check"
    BY <1>2, <1>7, <2>1, <2>2, AnswerKeeps
  <2>3. CASE field = "obtain"
    BY <1>2, <1>7, <2>1, <2>3, AnswerKeeps
  <2> QED
    BY <2>2, <2>3
<1> QED
  BY <1>2, <1>6, <1>8 DEF Longer

\* The prompt: the key is handed to obtainKey, which asks for the state again.
LEMMA ReauthKeeps ==
    ASSUME IInv, Reauth
    PROVE  IInv'
<1> USE DEF IInv
<1>1. Longer /\ UNCHANGED <<now, cred>>
  <2>1. CASE ReauthView({"note"})
    BY <2>1, GrantedIsLonger DEF ReauthView, Tools
  <2>2. CASE ~Authenticated /\ Request
    BY <2>2, FlushedIsLonger DEF Request
  <2> QED
    BY <2>1, <2>2 DEF Reauth, ReauthView, Request
<1>2. TabOK(tab, now, cred, session') /\ now \in 0 .. MaxTime
  BY <1>1, LongerKeeps DEF SessionOK
<1>3. session.sid \in 1 .. MaxSid /\ cred \in Gens
  BY DEF SessionOK
<1>4. TabOK([tab EXCEPT !.obtain = Call("again"), !.transfer = Handoff(session.sid)],
            now, cred, session')
  BY <1>2, <1>3, CallFields, HandoffFields, Nothing DEF TabOK, Tab
<1> QED
  BY <1>1, <1>2, <1>4 DEF Longer, Reauth

\* What the account does without this browser's tab.
LEMMA AccountKeeps ==
    ASSUME IInv, Tick \/ SignIn \/ ChangePassword \/ RotateElsewhere \/ DeleteElsewhere,
           UNCHANGED tab
    PROVE  IInv'
<1> USE DEF IInv
<1>1. Longer
  <2>1. CASE RotateElsewhere
    BY <2>1, Bounds, RotationIsLonger DEF RotateElsewhere, SessionOK, Gens
  <2>2. CASE DeleteElsewhere
    BY <2>2, Bounds, RotationIsLonger DEF DeleteElsewhere
  <2> QED
    BY <2>1, <2>2, TickIsLonger, SignInIsLonger, ChangePasswordIsLonger
<1> QED
  BY <1>1, LongerKeeps DEF Longer

-----------------------------------------------------------------------------
(* The theorems *)

\* The first page of a browser that has just signed in.
LEMMA InitKeeps == Init => IInv
<1> SUFFICES ASSUME Init PROVE IInv
  OBVIOUS
<1>1. now = 0 /\ cred = 1 /\ session = SignedIn(1) /\ tab = Opening(NoEntry, NoEntry, NoEntry)
  BY DEF Init, SessionInit
<1>2. 0 \in 0 .. MaxTime
  BY Bounds
<1>3. TabOK(tab, now, cred, session)
  BY <1>1, <1>2, Nothing, OpeningKeeps
<1>4. SessionOK(now, cred, session)
  BY SessionInitOK DEF Init
<1> QED
  BY <1>3, <1>4 DEF IInv

\* Every step keeps the invariant.
LEMMA StepKeeps ==
    ASSUME IInv, [Next]_vars
    PROVE  IInv'
<1>1. CASE UNCHANGED vars
  BY <1>1 DEF vars, IInv
<1> QED
  BY <1>1, SignInHereKeeps, SignOutHereKeeps, ElsewhereKeeps, TabOnlyKeeps,
     VaultSessionErrorKeeps, VaultSessionViewKeeps, ReauthKeeps, AccountKeeps DEF Next

\* The inductive invariant of a tab over its session.
THEOREM TabInvariant == Spec => []IInv
<1>1. IInv /\ [Next]_vars => IInv'
  BY StepKeeps
<1> QED
  BY <1>1, InitKeeps, PTL DEF Spec

\* The session, the tab, what it stores and what it waits for have their types;
\* in particular the end of access a tab works out of a late answer stays a time.
THEOREM TabTypeOK == Spec => []TypeOK
<1>1. IInv => TypeOK
  BY DEF IInv, SessionOK, TabOK, TypeOK, SessionTypeOK
<1> QED
  BY <1>1, TabInvariant, PTL

\* A key opens the ciphertext of the identity it stands under
\* (vault-session.js:79-102).
THEOREM TabKeyMatchesIdentity == Spec => []KeyMatchesIdentity
<1>1. IInv => KeyMatchesIdentity
  BY DEF IInv, TabOK, KeyMatchesIdentity
<1> QED
  BY <1>1, TabInvariant, PTL

\* A tab never counts on its vault for longer than the server granted it
\* (vault-session.js:103-125; vault_sessions.py:44-61).
THEOREM TabDeadlineSound == Spec => []DeadlineSound
<1>1. IInv => DeadlineSound
  BY DEF IInv, TabOK, Within, DeadlineSound, Authenticated
<1> QED
  BY <1>1, TabInvariant, PTL

-----------------------------------------------------------------------------
(* A key that is held is watched.  This is the safety half of               *)
(* ExpiredKeyGoes: the timer that is to drop the key is always set, so that *)
(* only the fairness of ExpiryTimer is left to TLC.                         *)

\* The tab is locked exactly when it holds no key; and the timer of a tab that
\* holds one is set.
KeyIsWatched == (tab.key = 0 <=> tab.locked) /\ (tab.key # 0 => tab.timer)

\* A tab without a key.
Dark(b) == b.key = 0 /\ b.locked

\* As it is inductive: while obtainKey runs the tab holds no key, and so no answer to it
\* finds one whose timer applyState would stop.
Watched(b) ==
    /\ b.key = 0 <=> b.locked
    /\ b.key # 0 => b.timer /\ b.obtain = NoCall

WatchedInv == IInv /\ Watched(tab)

\* The functions that drop the key.
LEMMA DropKeys ==
    ASSUME NEW b \in Tab
    PROVE  /\ \A p \in BOOLEAN : Dark(lock(b, p))
           /\ Dark(SignedOut(b)) /\ Dark(changedIdentity(b))
           /\ Dark(b) => Dark(Without(b)) /\ Watched(b) /\ Watched(Without(b))
<1>1. \A d \in Tab : Dark(d) => Dark(Without(d)) /\ Dark(dismiss(d))
  BY DEF Dark, Without, dismiss, Tab
<1>2. \A p \in BOOLEAN : lock(b, p) \in Tab /\ Dark(lock(b, p))
  BY Nothing, Bounds DEF lock, Tab, Dark
<1>3. Dark(SignedOut(b))
  BY <1>1, <1>2 DEF SignedOut
<1>4. Dark(changedIdentity(b))
  <2> DEFINE d == lock(b, FALSE)
  <2>1. d \in Tab /\ Dark(d)
    BY <1>2
  <2> HIDE DEF d
  <2>2. dismiss(d) \in Tab /\ Dark(dismiss(d))
    BY <1>1, <2>1, Nothing DEF dismiss, Without, Tab
  <2>3. Dark([dismiss(d) EXCEPT !.phase = "stopped"])
    BY <2>2 DEF Dark, Tab
  <2> QED
    BY <2>3 DEF changedIdentity, d
<1>5. \A d : Dark(d) => Watched(d)
  BY DEF Dark, Watched
<1> QED
  BY <1>1, <1>2, <1>3, <1>4, <1>5

\* obtainKey ends: the tab unlocks with the timer that applyState set.
LEMMA ObtainedWatched ==
    ASSUME NEW b \in Tab, NEW call, b.locked, b.timer
    PROVE  Watched(Obtained(b, call))
<1>1. CASE b.key = 0
  <2>1. Dark(b) /\ Obtained(b, call) = Without(b) /\ Without(b) \in Tab
    BY <1>1, Nothing DEF Dark, Obtained, Without, Tab
  <2> QED
    BY <2>1, DropKeys
<1>2. CASE b.key # 0
  <2> DEFINE d == [b EXCEPT !.locked = FALSE, !.obtain = NoCall,
                            !.phase = IF @ = "start" THEN "on" ELSE @]
             e == remember(d, call.reply)
  <2>1. d.key = b.key /\ ~d.locked /\ d.timer = b.timer /\ d.obtain = NoCall
    BY DEF Tab
  <2>3. /\ e.key = d.key /\ e.locked = d.locked
        /\ e.timer = d.timer /\ e.obtain = d.obtain
    BY DEF remember, Tab
  <2>4. Obtained(b, call) = e
    BY <1>2 DEF Obtained
  <2> HIDE DEF d, e
  <2> QED
    BY <1>2, <2>1, <2>3, <2>4 DEF Watched
<1> QED
  BY <1>1, <1>2

\* obtainKey takes a key only while the vault is open, and then the timer is set.
LEMMA ObtainKeyWatched ==
    ASSUME NEW n, NEW c, NEW s, NEW b, TabOK(b, n, c, s), NEW call \in Calls,
           b.identity = call.reply.identity,
           Open(call) => b.timer /\ Dark(b)
    PROVE  Watched(obtainKey(b, call))
<1> DEFINE d == IF Open(call) /\ b.key = 0 THEN cachedKey(b, call.reply) ELSE b
<1>1. TabOK(d, n, c, s) /\ (Open(call) => d.timer /\ d.locked)
  <2>1. b \in Tab /\ TabOK(d, n, c, s)
    BY CachedKeyKeeps DEF TabOK
  <2>2. cachedKey(b, call.reply).timer = b.timer /\ cachedKey(b, call.reply).locked = b.locked
    BY <2>1 DEF cachedKey, Tab
  <2> QED
    BY <2>1, <2>2 DEF Dark
<1>2. obtainKey(b, call) = IF Open(call) /\ d.key # 0 THEN Obtained(d, call)
                           ELSE [lock(d, FALSE) EXCEPT !.obtain = Prompt]
  BY DEF obtainKey
<1> HIDE DEF d
<1>3. d \in Tab
  BY <1>1 DEF TabOK
<1>4. Watched([lock(d, FALSE) EXCEPT !.obtain = Prompt])
  <2> DEFINE e == lock(d, FALSE)
  <2>1. e \in Tab /\ Dark(e)
    BY <1>1, <1>3, LockKeeps, DropKeys DEF TabOK
  <2> HIDE DEF e
  <2>2. Dark([e EXCEPT !.obtain = Prompt])
    BY <2>1 DEF Dark, Tab
  <2> QED
    BY <2>2 DEF e, Dark, Watched
<1> QED
  BY <1>1, <1>2, <1>3, <1>4, ObtainedWatched

\* applyState sets the timer for a vault that is open, and stops it for one that is not.
LEMMA ApplyStateWatches ==
    ASSUME NEW b \in Tab, NEW call
    PROVE  LET a == applyState(b, call)
           IN  /\ a.key = b.key /\ a.locked = b.locked /\ a.obtain = b.obtain
               /\ a.timer = Open(call)
BY DEF applyState, Tab

\* refresh, from its answer on: a vault that is no longer open costs the tab its key.
LEMMA CheckResultWatched ==
    ASSUME NEW n, NEW c, NEW s, SessionOK(n, c, s), NEW b, TabOK(b, n, c, s), Watched(b),
           NEW call \in Calls, CallOK(call, n, c, s)
    PROVE  Watched(CheckResult(b, call))
<1> DEFINE r == call.reply
           a == IF r.status = "ok" THEN applyState(b, call) ELSE b
<1>1. b \in Tab
  BY DEF TabOK
<1>2. CASE r.status = "401" \/ r.status = "409" \/ (r.status = "ok" /\ Foreign(b, call))
  <2>1. CheckResult(b, call) \in {SignedOut(b), changedIdentity(b)}
    BY <1>2 DEF CheckResult
  <2>2. Dark(SignedOut(b)) /\ Dark(changedIdentity(b))
    BY <1>1, DropKeys
  <2> QED
    BY <2>1, <2>2 DEF Dark, Watched
<1>3. CASE r.status = "err"
  <2>1. CheckResult(b, call) \in {lock(b, FALSE), b}
    BY <1>3 DEF CheckResult
  <2>2. Dark(lock(b, FALSE))
    BY <1>1, DropKeys
  <2> QED
    BY <2>1, <2>2 DEF Dark, Watched
<1>4. CASE r.status = "ok" /\ ~Foreign(b, call)
  <2>1. b.key \in {0, r.identity}
    BY <1>4 DEF Foreign, TabOK
  <2>2. TabOK(a, n, c, s) /\ a.identity = r.identity
    BY <1>4, <2>1, ApplyStateKeeps
  <2>3. /\ a.key = b.key /\ a.locked = b.locked /\ a.obtain = b.obtain
        /\ a.timer = Open(call) /\ a \in Tab
    BY <1>1, <1>4, <2>2, ApplyStateWatches DEF TabOK
  <2>4. CheckResult(b, call) = IF Open(call) /\ a.key # 0 THEN remember(a, r)
                               ELSE IF a.obtain = NoCall THEN obtainKey(a, call) ELSE a
    BY <1>4 DEF CheckResult
  <2> HIDE DEF a
  <2>5. ASSUME Open(call), a.key # 0
        PROVE  Watched(remember(a, r))
    BY <2>3, <2>5 DEF Watched, remember, Tab
  <2>6. ASSUME ~(Open(call) /\ a.key # 0)
        PROVE  Watched(obtainKey(a, call))
    BY <2>2, <2>3, <2>6, ObtainKeyWatched DEF Watched, Dark
  <2>7. ASSUME a.obtain # NoCall
        PROVE  Watched(a)
    BY <2>3, <2>7 DEF Watched
  <2> QED
    BY <2>4, <2>5, <2>6, <2>7
<1>5. CASE r.status \notin {"401", "409", "ok", "err"}
  <2>1. ~Open(call)
    BY <1>5 DEF CallOK, Open
  <2>2. CheckResult(b, call) = IF b.obtain = NoCall THEN obtainKey(b, call) ELSE b
    BY <1>5, <2>1 DEF CheckResult
  <2>3. obtainKey(b, call) = [lock(b, FALSE) EXCEPT !.obtain = Prompt]
    BY <2>1 DEF obtainKey
  <2>4. Watched([lock(b, FALSE) EXCEPT !.obtain = Prompt])
    <3> DEFINE e == lock(b, FALSE)
    <3>1. e \in Tab /\ Dark(e)
      BY <1>1, LockKeeps, DropKeys DEF TabOK
    <3> HIDE DEF e
    <3>2. Dark([e EXCEPT !.obtain = Prompt])
      BY <3>1 DEF Dark, Tab
    <3> QED
      BY <3>2 DEF e, Dark, Watched
  <2> QED
    BY <2>2, <2>3, <2>4
<1> QED
  BY <1>2, <1>3, <1>4, <1>5

\* obtainKey and start, from the answer on.
LEMMA ObtainResultWatched ==
    ASSUME NEW n, NEW c, NEW s, SessionOK(n, c, s), NEW b, TabOK(b, n, c, s), Dark(b),
           NEW call \in Calls, CallOK(call, n, c, s),
           call.reply.status \in {"ok", "401", "err"}
    PROVE  Watched(ObtainResult(b, call))
<1> DEFINE r == call.reply
           a == applyState(b, call)
<1>1. n \in 0 .. MaxTime /\ b \in Tab
  BY DEF SessionOK, TabOK
<1>2. \A d \in Tab : Dark(d) => Watched(Without(d))
  BY DropKeys
<1>3. /\ SignedOut(b) \in Tab /\ Dark(SignedOut(b))
      /\ changedIdentity(b) \in Tab /\ Dark(changedIdentity(b))
  BY <1>1, DismissKeeps, DropKeys DEF TabOK
<1>4. CASE r.status = "401" \/ r.status = "err" \/ (r.status = "ok" /\ Foreign(b, call))
  <2>1. ObtainResult(b, call) \in
            {Without(SignedOut(b)), Without(changedIdentity(b)), Without(b)}
    BY <1>4 DEF ObtainResult
  <2> QED
    BY <1>1, <1>2, <1>3, <2>1
<1>5. CASE r.status = "ok" /\ ~Foreign(b, call)
  <2>1. TabOK(a, n, c, s) /\ a.identity = r.identity /\ a \in Tab
    BY <1>5, ApplyStateKeeps DEF TabOK, Dark
  <2>2. Dark(a) /\ a.timer = Open(call)
    BY <1>1, ApplyStateWatches DEF Dark
  <2>3. ObtainResult(b, call) =
            IF call.kind = "first" THEN obtainKey(a, call)
            ELSE IF Open(call) THEN Obtained(cachedKey(a, r), call) ELSE Without(a)
    BY <1>5 DEF ObtainResult
  <2> HIDE DEF a
  <2>4. Watched(obtainKey(a, call))
    BY <2>1, <2>2, ObtainKeyWatched
  <2>5. /\ cachedKey(a, r) \in Tab
        /\ cachedKey(a, r).timer = a.timer /\ cachedKey(a, r).locked = a.locked
    BY <2>1, CachedKeyKeeps DEF cachedKey, TabOK, Tab
  <2>6. Open(call) => Watched(Obtained(cachedKey(a, r), call))
    BY <2>2, <2>5, ObtainedWatched DEF Dark
  <2> QED
    BY <1>2, <2>1, <2>2, <2>3, <2>4, <2>6
<1> QED
  BY <1>4, <1>5

\* refresh, as far as its request.
LEMMA RefreshWatched ==
    ASSUME NEW c, NEW s, now \in 0 .. MaxTime, NEW b, TabOK(b, now, c, s), Watched(b),
           NEW kind \in {"get", "post"}
    PROVE  Watched(refresh(b, kind))
<1> DEFINE d == IF ~b.locked /\ b.deadline # 0 /\ now >= b.deadline THEN lock(b, TRUE) ELSE b
<1>1. d \in Tab /\ Watched(d)
  BY LockKeeps, DropKeys DEF TabOK, Dark, Watched
<1>2. refresh(b, kind) = IF b.phase = "stopped" THEN b
                         ELSE IF d.check = NoCall THEN [d EXCEPT !.check = Call(kind)] ELSE d
  BY DEF refresh
<1> HIDE DEF d
<1>3. Watched([d EXCEPT !.check = Call(kind)])
  BY <1>1 DEF Watched, Tab
<1> QED
  BY <1>1, <1>2, <1>3

\* A step of the account or of another tab, of which this one sees the mirror at most;
\* and a page that is opened or left.
LEMMA OutsideWatched ==
    ASSUME WatchedInv,
           \/ SignInHere \/ SignOutHere \/ SignOutElsewhere \/ DeleteAccountElsewhere
           \/ SiblingActivity \/ Reload
           \/ UNCHANGED tab
    PROVE  Watched(tab')
<1>1. tab \in Tab /\ Watched(tab)
  BY DEF WatchedInv, IInv, TabOK
<1>2. \A store, transfer, mirror : Watched(Opening(store, transfer, mirror))
  BY DEF Opening, Watched
<1>3. CASE SignInHere \/ Reload
  BY <1>2, <1>3 DEF SignInHere, Reload
<1>4. CASE SignOutHere
  BY <1>4 DEF SignOutHere, Opening, Watched
<1>5. ASSUME NEW e
      PROVE  Watched([tab EXCEPT !.mirror = e])
  BY <1>1 DEF Watched, Tab
<1>6. CASE SignOutElsewhere \/ DeleteAccountElsewhere \/ SiblingActivity
  BY <1>5, <1>6 DEF SignOutElsewhere, DeleteAccountElsewhere, SiblingActivity
<1> QED
  BY <1>1, <1>3, <1>4, <1>6

\* The tab's own steps.
LEMMA OwnWatched ==
    ASSUME WatchedInv,
           \/ ExpiryTimer \/ CheckAnswered \/ ObtainAnswered \/ VaultSessionError
           \/ \E kind \in {"get", "post"} : Refresh(kind)
    PROVE  Watched(tab')
<1>1. /\ SessionOK(now, cred, session) /\ TabOK(tab, now, cred, session) /\ Watched(tab)
      /\ now \in 0 .. MaxTime /\ tab \in Tab /\ tab.check \in Calls /\ tab.obtain \in Calls
      /\ CallOK(tab.check, now, cred, session) /\ CallOK(tab.obtain, now, cred, session)
  BY DEF WatchedInv, IInv, TabOK, Tab, SessionOK
<1>2. ASSUME ExpiryTimer
      PROVE  Watched(tab')
  <2> DEFINE b == lock(tab, TRUE)
  <2>1. TabOK(b, now, cred, session) /\ Watched(b)
    BY <1>1, LockKeeps, DropKeys DEF Dark, Watched
  <2>2. tab' = refresh(b, "get")
    BY <1>2 DEF ExpiryTimer
  <2> HIDE DEF b
  <2> QED
    BY <1>1, <2>1, <2>2, RefreshWatched
<1>3. ASSUME CheckAnswered
      PROVE  Watched(tab')
  <2> DEFINE b == [tab EXCEPT !.check = NoCall]
  <2>1. TabOK(b, now, cred, session) /\ Watched(b)
    BY <1>1, HangUpKeeps DEF Watched, Tab
  <2>2. tab' = CheckResult(b, tab.check)
    BY <1>3 DEF CheckAnswered
  <2> HIDE DEF b
  <2> QED
    BY <1>1, <2>1, <2>2, CheckResultWatched
<1>4. ASSUME ObtainAnswered
      PROVE  Watched(tab')
  <2> DEFINE b == [tab EXCEPT !.obtain = NoCall]
  <2>1. tab.obtain.reply # NoReply
    BY <1>4 DEF ObtainAnswered, Answered
  <2>2. tab.obtain # NoCall
    BY <2>1, Nothing
  <2>3. TabOK(b, now, cred, session) /\ Dark(b)
    BY <1>1, <2>2, HangUpKeeps DEF Watched, Dark, Tab
  <2>4. tab' = ObtainResult(b, tab.obtain)
    BY <1>4 DEF ObtainAnswered
  <2>5. tab.obtain.reply.status \in {"ok", "401", "err"}
    <3>1. tab.obtain.reply.status # "none"
      BY <1>1, <2>1 DEF CallOK
    <3> QED
      BY <1>1, <3>1 DEF TabOK, Calls, Replies
  <2> HIDE DEF b
  <2> QED
    BY <1>1, <2>3, <2>4, <2>5, ObtainResultWatched
<1>5. ASSUME VaultSessionError
      PROVE  Watched(tab')
  <2>1. tab' \in {changedIdentity(tab), refresh(tab, "get")}
    BY <1>5 DEF VaultSessionError
  <2>2. Watched(changedIdentity(tab))
    BY <1>1, DropKeys DEF Dark, Watched
  <2> QED
    BY <1>1, <2>1, <2>2, RefreshWatched
<1>6. ASSUME NEW kind \in {"get", "post"}, Refresh(kind)
      PROVE  Watched(tab')
  BY <1>1, <1>6, RefreshWatched DEF Refresh
<1> QED
  BY <1>2, <1>3, <1>4, <1>5, <1>6

\* An answer comes, or the prompt is filled in: while obtainKey waits there is no key.
LEMMA WaitingWatched ==
    ASSUME WatchedInv, VaultSessionView \/ Reauth
    PROVE  Watched(tab')
<1>1. tab \in Tab /\ Watched(tab) /\ tab.check \in Calls /\ tab.obtain \in Calls
  BY DEF WatchedInv, IInv, TabOK, Tab
<1>2. CASE VaultSessionView
  <2>1. PICK field \in {"check", "obtain"} :
            /\ Pending(tab[field])
            /\ \E r : tab' = [tab EXCEPT ![field].reply = r]
    BY <1>2 DEF VaultSessionView
  <2> PICK r : tab' = [tab EXCEPT ![field].reply = r]
    BY <2>1
  <2>2. CASE field = "check"
    BY <1>1, <2>2 DEF Watched, Tab
  <2>3. CASE field = "obtain"
    <3>1. tab.obtain # NoCall
      BY <2>1, <2>3, Nothing DEF Pending
    <3>2. tab' = [tab EXCEPT !.obtain = [tab.obtain EXCEPT !.reply = r]]
      BY <1>1, <2>3 DEF Tab
    <3> QED
      BY <1>1, <3>1, <3>2 DEF Watched, Tab
  <2> QED
    BY <2>2, <2>3
<1>3. CASE Reauth
  <2>1. tab.obtain # NoCall
    BY <1>3, Nothing DEF Reauth
  <2>2. \/ tab' = [tab EXCEPT !.obtain = Call("again"), !.transfer = Handoff(session.sid)]
        \/ tab' = tab
    BY <1>3 DEF Reauth
  <2> QED
    BY <1>1, <2>1, <2>2 DEF Watched, Tab
<1> QED
  BY <1>2, <1>3

\* Every step keeps a key watched.
LEMMA WatchedStep ==
    ASSUME WatchedInv, [Next]_vars
    PROVE  WatchedInv'
<1>1. IInv'
  BY StepKeeps DEF WatchedInv
<1>2. Watched(tab')
  BY OutsideWatched, OwnWatched, WaitingWatched DEF Next, vars
<1> QED
  BY <1>1, <1>2 DEF WatchedInv

\* The inductive invariant of a watched key.
LEMMA WatchedInvariant == Spec => []WatchedInv
<1>1. Init => WatchedInv
  <2> SUFFICES ASSUME Init PROVE WatchedInv
    OBVIOUS
  <2>1. Watched(tab)
    BY DEF Init, Opening, Watched
  <2> QED
    BY <2>1, InitKeeps DEF WatchedInv
<1>2. WatchedInv /\ [Next]_vars => WatchedInv'
  BY WatchedStep
<1> QED
  BY <1>1, <1>2, PTL DEF Spec

\* Whatever answers come late, are lost or tell of an expired vault, a tab that holds a key
\* is unlocked and has its expiry timer set (vault-session.js:103-125, 182-184).
THEOREM TabKeyIsWatched == Spec => []KeyIsWatched
<1>1. WatchedInv => KeyIsWatched
  BY DEF WatchedInv, Watched, KeyIsWatched
<1> QED
  BY <1>1, WatchedInvariant, PTL
=============================================================================
