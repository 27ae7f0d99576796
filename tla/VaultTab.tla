------------------------------ MODULE VaultTab ------------------------------
(***************************************************************************)
(* One note tab with its password prompt (static/auth/js/vault-session.js, *)
(* unlock.js) over the account session: which key it holds and stores, and *)
(* for how long.                                                           *)
(*                                                                         *)
(* An answer is worked out by the server in one step and taken by the tab  *)
(* in a later one.  Other tabs of the browser are actions here.            *)
(***************************************************************************)
EXTENDS AccountSession

VARIABLE tab    \* the tab, with the browser's storage

vars == <<now, cred, session, tab>>

-----------------------------------------------------------------------------
\* Answers and stored keys

NoReply == [status |-> "none", identity |-> 0, sid |-> 0, until |-> 0, time |-> 0]
Reply(status) == [NoReply EXCEPT !.status = status]
\* access_state, with no "until" for a vault that is locked.
access_state(s, tool) ==
    [status |-> "ok", identity |-> cred, sid |-> s.sid, time |-> now,
     until |-> IF s.version = cred /\ s.until[tool] > now THEN s.until[tool] ELSE 0]

NoCall == [kind |-> "none", at |-> 0, reply |-> NoReply]
Call(kind) == [kind |-> kind, at |-> now, reply |-> NoReply]
\* ensureSecureSession: the prompt is open.
Prompt == [NoCall EXCEPT !.kind = "prompt"]
Pending(call) == call.kind \notin {"none", "prompt"} /\ call.reply = NoReply
Answered(call) == call.reply # NoReply

NoEntry == [key |-> 0, identity |-> 0, sid |-> 0, until |-> 0]

\* establishSecureSession: the key the password gives, with the state of the session.
Handoff(sid) == [key |-> cred, identity |-> cred, sid |-> sid, until |-> 0]

\* A tab that is being opened, over what its sessionStorage holds.
Opening(store, transfer, mirror) ==
    [phase |-> "start", locked |-> TRUE, key |-> 0, identity |-> 0, deadline |-> 0,
     timer |-> FALSE, store |-> store, transfer |-> transfer, mirror |-> mirror,
     check |-> NoCall, obtain |-> Call("first")]

-----------------------------------------------------------------------------
\* The functions of vault-session.js, from tab to tab

lock(b, preserveMirror) ==
    [b EXCEPT !.key = 0, !.store = NoEntry, !.transfer = NoEntry,
              !.mirror = IF preserveMirror THEN @ ELSE NoEntry,
              !.timer = FALSE, !.locked = TRUE]

\* obtainKey came to nothing: a page that was starting stays dead.
Without(b) == [b EXCEPT !.obtain = NoCall, !.phase = IF @ = "start" THEN "dead" ELSE @]

dismiss(b) == IF b.obtain.kind = "prompt" THEN Without(b) ELSE b

\* The page stays, read-only, until it is reloaded.
changedIdentity(b) == [dismiss(lock(b, FALSE)) EXCEPT !.phase = "stopped"]
SignedOut(b) == dismiss(lock(b, FALSE))

Fits(entry, r) == entry.identity = r.identity /\ entry.sid = r.sid

\* Mutant: a copy is used whichever session or password it was made under.
cachedKey_Any(b, r) ==
    IF b.transfer.key # 0
    THEN [b EXCEPT !.key = b.transfer.key, !.transfer = NoEntry]
    ELSE IF b.store.until > r.time THEN [b EXCEPT !.key = b.store.key]
    ELSE IF b.mirror.until > r.time THEN [b EXCEPT !.key = b.mirror.key, !.store = NoEntry]
    ELSE [b EXCEPT !.key = 0, !.store = NoEntry, !.mirror = NoEntry]

\* cachedKey: the handoff, the tab's own copy, the mirror; the copies passed
\* over are removed.
cachedKey(b, r) ==
    IF Fits(b.transfer, r)
    THEN [b EXCEPT !.key = b.transfer.key, !.transfer = NoEntry]
    ELSE IF Fits(b.store, r) /\ b.store.until > r.time THEN [b EXCEPT !.key = b.store.key]
    ELSE IF Fits(b.mirror, r) /\ b.mirror.until > r.time
    THEN [b EXCEPT !.key = b.mirror.key, !.store = NoEntry]
    ELSE [b EXCEPT !.key = 0, !.store = NoEntry, !.mirror = NoEntry]

\* Mutant: the time left is counted from when the answer is read.
Deadline_Late(call) ==
    IF call.reply.until = 0 THEN call.at
    ELSE now + (call.reply.until - call.reply.time)

\* Mutant: the server's time of expiry is taken for the time left.
Deadline_Absolute(call) == call.at + call.reply.until

\* applyState: the time left is counted from when the request was sent.
Deadline(call) ==
    IF call.reply.until = 0 THEN call.at
    ELSE call.at + (call.reply.until - call.reply.time)

\* state.unlocked, as applyState leaves it.
Open(call) == call.reply.until # 0 /\ Deadline(call) > now

\* Mutant: the timer is not set again.
applyState_NoTimer(b, call) ==
    [b EXCEPT !.identity = call.reply.identity, !.deadline = Deadline(call), !.timer = FALSE]

applyState(b, call) ==
    [b EXCEPT !.identity = call.reply.identity, !.deadline = Deadline(call), !.timer = Open(call)]

Entry(b, r) == [key |-> b.key, identity |-> r.identity, sid |-> r.sid, until |-> r.until]
remember(b, r) ==
    [b EXCEPT !.store = Entry(b, r), !.mirror = Entry(b, r)]

\* The end of obtainKey.
Obtained(b, call) ==
    IF b.key = 0 THEN Without(b)
    ELSE remember([b EXCEPT !.locked = FALSE, !.obtain = NoCall,
                            !.phase = IF @ = "start" THEN "on" ELSE @], call.reply)

\* obtainKey, up to the prompt if it takes one.
obtainKey(b, call) ==
    LET c == IF Open(call) /\ b.key = 0 THEN cachedKey(b, call.reply) ELSE b
    IN IF Open(call) /\ c.key # 0 THEN Obtained(c, call)
       ELSE [lock(c, FALSE) EXCEPT !.obtain = Prompt]

\* The state is of another account or password than the tab was opened under.
Foreign(b, call) == b.identity \notin {0, call.reply.identity}

\* refresh, from its answer on.
CheckResult(b, call) ==
    LET s == call.reply.status
        a == IF s = "ok" THEN applyState(b, call) ELSE b
    IN IF s = "401" THEN SignedOut(b)
       ELSE IF s = "409" \/ (s = "ok" /\ Foreign(b, call)) THEN changedIdentity(b)
       ELSE IF s = "err" THEN (IF b.deadline # 0 /\ now >= b.deadline THEN lock(b, FALSE) ELSE b)
       ELSE IF Open(call) /\ a.key # 0 THEN remember(a, call.reply)
       ELSE IF a.obtain = NoCall THEN obtainKey(a, call) ELSE a

\* start, from its first answer on; and obtainKey, after the prompt.
ObtainResult(b, call) ==
    LET s == call.reply.status
    IN IF s = "401" THEN Without(SignedOut(b))
       ELSE IF s = "ok" /\ Foreign(b, call) THEN Without(changedIdentity(b))
       ELSE IF s = "err" THEN Without(b)
       ELSE IF call.kind = "first" THEN obtainKey(applyState(b, call), call)
       ELSE IF Open(call) THEN Obtained(cachedKey(applyState(b, call), call.reply), call)
       ELSE Without(applyState(b, call))

-----------------------------------------------------------------------------
\* What happens around the tab

\* The page that signed in goes on to the vault with the key it derived, and the
\* tab is that page now.
SignInHere ==
    /\ SignIn
    /\ tab' = Opening(tab.store, Handoff(session.sid + 1), tab.mirror)

\* Another tab signs out; it clears the mirror as it submits the form.
SignOutElsewhere ==
    /\ SignOut
    /\ tab' = [tab EXCEPT !.mirror = NoEntry]

\* The tab signs out: it drops every copy, and the page is gone.
SignOutHere ==
    /\ tab.phase \in {"on", "stopped"}
    /\ SignOut
    /\ tab' = [Opening(NoEntry, NoEntry, NoEntry) EXCEPT !.phase = "dead", !.obtain = NoCall]

\* The account page deletes the account, and clears the mirror once it is told so.
DeleteAccountElsewhere ==
    /\ DeleteAccount
    /\ \E mirror \in {NoEntry, tab.mirror} : tab' = [tab EXCEPT !.mirror = mirror]

\* Another note tab of this browser, open under the current password, is used:
\* it renews the grant and writes the mirror.
SiblingActivity ==
    /\ RenewNoteAccess
    /\ tab' = [tab EXCEPT !.mirror = [key |-> cred, identity |-> cred, sid |-> session.sid,
                                      until |-> now + Timeout["note"]]]

-----------------------------------------------------------------------------
\* The tab's steps

Reload ==
    /\ tab.phase # "start"
    /\ tab' = Opening(tab.store, tab.transfer, tab.mirror)
    /\ UNCHANGED serverVars

\* refresh, as far as its request; the expired access is hidden first.
refresh(b, kind) ==
    IF b.phase = "stopped" THEN b
    ELSE LET c == IF ~b.locked /\ b.deadline # 0 /\ now >= b.deadline THEN lock(b, TRUE) ELSE b
         IN IF c.check = NoCall THEN [c EXCEPT !.check = Call(kind)] ELSE c

\* The interval, a focus or a visibility change; or the user's activity.
Refresh(kind) ==
    /\ tab.phase = "on" /\ tab.check = NoCall
    /\ kind = "post" => ~tab.locked /\ now < tab.deadline
    /\ tab' = refresh(tab, kind)
    /\ UNCHANGED serverVars

ExpiryTimer ==
    /\ tab.timer /\ now >= tab.deadline
    /\ tab' = refresh(lock(tab, TRUE), "get")
    /\ UNCHANGED serverVars

\* The identity every request of the tab names.
vaultHeaders == tab.identity

\* A request of the open vault, a save or a read, is refused.
VaultSessionError ==
    LET status == Gate("note", vaultHeaders)
    IN /\ tab.phase = "on" /\ tab.key # 0 /\ status # "ok"
       /\ session' = Flushed
       /\ tab' = IF status = "409" THEN changedIdentity(tab) ELSE refresh(tab, "get")
       /\ UNCHANGED <<now, cred>>

\* VaultSessionView.get only reads; the session of an old password is flushed.
GetState ==
    [reply |-> IF Authenticated THEN access_state(session, "note") ELSE Reply("401"),
     session |-> Flushed]

\* VaultSessionView.post, with renew_note_access.
PostState ==
    LET gate == Gate("note", vaultHeaders)
        s == IF gate = "ok" THEN Granted(session, {"note"}, cred) ELSE Flushed
    IN [reply |-> IF gate = "ok" THEN access_state(s, "note") ELSE Reply(gate), session |-> s]

\* fetchState: the request is served, and the answer may be lost; or it never
\* arrives, or is throttled.
VaultSessionView ==
    /\ UNCHANGED <<now, cred>>
    /\ \E field \in {"check", "obtain"} :
        LET served == IF tab[field].kind = "post" THEN PostState ELSE GetState
        IN /\ Pending(tab[field])
           /\ \/ /\ session' = served.session
                 /\ \E r \in {served.reply, Reply("err")} : tab' = [tab EXCEPT ![field].reply = r]
              \/ /\ tab' = [tab EXCEPT ![field].reply = Reply("err")]
                 /\ UNCHANGED session

CheckAnswered ==
    /\ Answered(tab.check)
    /\ tab' = CheckResult([tab EXCEPT !.check = NoCall], tab.check)
    /\ UNCHANGED serverVars

ObtainAnswered ==
    /\ Answered(tab.obtain)
    /\ tab' = ObtainResult([tab EXCEPT !.obtain = NoCall], tab.obtain)
    /\ UNCHANGED serverVars

\* The prompt, with the right password: the note vault is granted and
\* deriveAndStoreKey hands the key over to obtainKey; or the answer is lost.
Reauth ==
    /\ tab.obtain.kind = "prompt"
    /\ \/ /\ ReauthView({"note"})
          /\ \/ tab' = [tab EXCEPT !.obtain = Call("again"), !.transfer = Handoff(session.sid)]
             \/ UNCHANGED tab
       \/ ~Authenticated /\ Request /\ UNCHANGED tab

-----------------------------------------------------------------------------

Init ==
    /\ SessionInit
    /\ tab = Opening(NoEntry, NoEntry, NoEntry)

Next ==
    \/ SignInHere \/ SignOutHere \/ SignOutElsewhere \/ DeleteAccountElsewhere
    \/ SiblingActivity \/ Reload \/ Reauth \/ VaultSessionError
    \/ \E kind \in {"get", "post"} : Refresh(kind)
    \/ ExpiryTimer \/ VaultSessionView \/ CheckAnswered \/ ObtainAnswered
    \/ (Tick \/ SignIn \/ ChangePassword \/ RotateElsewhere \/ DeleteElsewhere) /\ UNCHANGED tab

\* The expiry timer runs; nothing is asked of the network.
Spec == Init /\ [][Next]_vars /\ WF_vars(ExpiryTimer)

-----------------------------------------------------------------------------

Entries == [key : Gens, identity : Gens, sid : 0 .. MaxSid, until : Times]
Replies == [status : {"none", "ok", "401", "409", "423", "err"}, identity : Gens,
            sid : 0 .. MaxSid, until : Times, time : Times]
Calls == [kind : {"none", "prompt", "first", "again", "get", "post"}, at : Times, reply : Replies]
Tab == [phase : {"start", "on", "dead", "stopped"}, locked : BOOLEAN, timer : BOOLEAN,
        key : Gens, identity : Gens, deadline : Times,
        store : Entries, transfer : Entries, mirror : Entries, check : Calls, obtain : Calls]

TypeOK == SessionTypeOK /\ tab \in Tab

\* Every key the tab holds or has stored opens the ciphertext of the identity it
\* stands under, whatever was handed over, mirrored or left from another session
\* (vault-session.js:79-102).
KeyMatchesIdentity ==
    /\ tab.key \in {0, tab.identity}
    /\ \A e \in {tab.store, tab.transfer, tab.mirror} : e.key = e.identity

\* A tab never counts on a vault for longer than the server granted it, however
\* late an answer arrives (vault-session.js:103-125; vault_sessions.py:44-61).
DeadlineSound ==
    tab.timer /\ Authenticated /\ tab.identity = cred => tab.deadline <= session.until["note"]

\* A key past its deadline is dropped, though the network hangs
\* (vault-session.js:113-123, 182-184).
ExpiredKeyGoes == tab.key # 0 /\ now >= tab.deadline ~> tab.key = 0 \/ now < tab.deadline
=============================================================================
