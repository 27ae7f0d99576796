--------------------------- MODULE AccountSession ---------------------------
(***************************************************************************)
(* Who may open a vault, and until when: the browser's account session on  *)
(* the server (apps/auth/vault_sessions.py, utils.py, services.py,         *)
(* views.py).                                                              *)
(*                                                                         *)
(* A generation is a password with its salts: it fixes the password hash,  *)
(* the vault key and the identity of the ciphertext, and 0 is none.        *)
(***************************************************************************)
EXTENDS Naturals

CONSTANTS
    Timeout,    \* [Tools -> Nat]: PASSWORD_VAULT_TIMEOUT, NOTE_VAULT_IDLE_TIMEOUT
    MaxTime,    \* bound: the clock
    MaxCred,    \* bound: generations
    MaxSid      \* bound: vault session ids

Tools == {"pass", "note"}
ASSUME SessionAssumption ==
    /\ Timeout \in [Tools -> Nat \ {0}]
    /\ {MaxTime, MaxCred, MaxSid} \subseteq Nat \ {0}

VARIABLES
    now,        \* the time
    cred,       \* the account's generation, 0 once it is deleted
    session     \* the browser's session

serverVars == <<now, cred, session>>

Gens == 0 .. MaxCred
Times == 0 .. MaxTime + Timeout["pass"] + Timeout["note"]

-----------------------------------------------------------------------------

NoSession(sid) == [in |-> FALSE, version |-> 0, sid |-> sid, until |-> [t \in Tools |-> 0]]

\* The session as grant_access leaves it.
Granted(s, tools, version) ==
    [s EXCEPT !.version = version,
              !.until = [t \in Tools |-> IF t \in tools THEN now + Timeout[t] ELSE s.until[t]]]

\* A session signed in under the id after the last.
SignedIn(sid) == [Granted(NoSession(sid), Tools, cred) EXCEPT !.in = TRUE]

\* get_authenticated_user_id: a session of another generation is flushed.
Authenticated == session.in /\ session.version = cred
Flushed == IF Authenticated THEN session ELSE NoSession(session.sid)

\* access_state
Unlocked(tool) == Authenticated /\ session.until[tool] > now

\* require_tool_auth_api for a request that names a generation, or names none.
Gate(tool, identity) ==
    IF ~Authenticated THEN "401"
    ELSE IF identity \notin {0, cred} THEN "409"
    ELSE IF ~Unlocked(tool) THEN "423" ELSE "ok"

-----------------------------------------------------------------------------

SessionInit ==
    /\ now = 0
    /\ cred = 1
    /\ session = SignedIn(1)

Tick ==
    /\ now < MaxTime
    /\ now' = now + 1
    /\ UNCHANGED <<cred, session>>

\* SigninView, which sends a browser that is signed in on to its vault, and
\* create_user_session.
SignIn ==
    /\ ~Authenticated
    /\ cred # 0 /\ session.sid < MaxSid
    /\ session' = SignedIn(session.sid + 1)
    /\ UNCHANGED <<now, cred>>

\* SignoutView
SignOut ==
    /\ session.in
    /\ session' = NoSession(session.sid)
    /\ UNCHANGED <<now, cred>>

\* ReauthView, with the password of the current generation.
ReauthView(tools) ==
    /\ Authenticated
    /\ session' = Granted(session, tools, cred)
    /\ UNCHANGED <<now, cred>>

\* VaultSessionView.post, for a tab open under the current generation.
RenewNoteAccess ==
    /\ Gate("note", cred) = "ok"
    /\ session' = Granted(session, {"note"}, cred)
    /\ UNCHANGED <<now, cred>>

\* Any other request, and the refused ones.
Request == session' = Flushed /\ UNCHANGED <<now, cred>>

\* PasswordChangeView: change_user_auth_secret, and
\* regenerate_session_after_password_change, which gives the key caches up.
ChangePassword ==
    /\ Authenticated
    /\ cred < MaxCred /\ session.sid < MaxSid
    /\ cred' = cred + 1
    /\ session' = Granted([session EXCEPT !.sid = @ + 1], Tools, cred + 1)
    /\ UNCHANGED now

\* Another device changes the password.
RotateElsewhere ==
    /\ cred # 0 /\ cred < MaxCred
    /\ cred' = cred + 1
    /\ UNCHANGED <<now, session>>

\* AccountDeletionView: delete_user_account, and the session is flushed.
DeleteAccount ==
    /\ Authenticated
    /\ cred' = 0
    /\ session' = NoSession(session.sid)
    /\ UNCHANGED now

\* Another device deletes the account.
DeleteElsewhere ==
    /\ cred # 0
    /\ cred' = 0
    /\ UNCHANGED <<now, session>>

SessionTypeOK ==
    /\ now \in 0 .. MaxTime
    /\ cred \in Gens
    /\ session \in [in : BOOLEAN, version : Gens, sid : 1 .. MaxSid, until : [Tools -> Times]]
=============================================================================
