------------------------ MODULE AccountSessionProofs ------------------------
(***************************************************************************)
(* What every step of the account session keeps, proved once for the       *)
(* modules that are built over it.                                         *)
(***************************************************************************)
EXTENDS AccountSession, TLAPS

-----------------------------------------------------------------------------
(* Said of a time n, a generation c and a session s, so that it can be     *)
(* said before and after a step alike.                                     *)

\* The session was signed in or granted by a password there has been, and its
\* grants are no longer than they may be.
SessionOK(n, c, s) ==
    /\ n \in 0 .. MaxTime /\ c \in Gens
    /\ s \in [in : BOOLEAN, version : Gens, sid : 1 .. MaxSid, until : [Tools -> Times]]
    /\ s.in => s.version # 0 /\ (c = 0 \/ s.version <= c)
    /\ s.until["note"] <= n + Timeout["note"]

\* What a tab open under the generation i may take for the end of its access.
Within(t, i, n, c, s) ==
    /\ t <= n + Timeout["note"]
    /\ s.in /\ s.version = c /\ i = c => t <= s.until["note"]

\* Times and generations.
LEMMA Bounds ==
    /\ Timeout["note"] \in Nat \ {0} /\ Timeout["pass"] \in Nat \ {0}
    /\ MaxTime \in Nat /\ MaxCred \in Nat /\ MaxSid \in Nat
    /\ 0 \in Gens /\ 1 \in Gens /\ 0 \in Times /\ 1 \in 1 .. MaxSid
    /\ Times \subseteq Nat /\ Gens \subseteq Nat
    /\ \A n \in 0 .. MaxTime : /\ n \in Nat /\ n \in Times
                               /\ \A t \in Nat : t <= n + Timeout["note"] => t \in Times
                               /\ \A tool \in Tools : n + Timeout[tool] \in Times
BY SessionAssumption DEF Gens, Times, Tools

-----------------------------------------------------------------------------
(* The steps *)

\* The server took a step that left the session in order and shortened no
\* access a tab may count on.
Longer ==
    /\ SessionOK(now', cred', session')
    /\ now <= now'
    /\ \A t \in Nat, i \in Gens : Within(t, i, now, cred, session) =>
                                      Within(t, i, now', cred', session')

\* Nothing happens there.
LEMMA SameIsLonger ==
    ASSUME SessionOK(now, cred, session), UNCHANGED serverVars
    PROVE  Longer
BY Bounds DEF Longer, serverVars, SessionOK

\* A session that is gone, or one that was there before.
LEMMA FlushedIsLonger ==
    ASSUME SessionOK(now, cred, session), UNCHANGED <<now, cred>>,
           session' \in {session, Flushed, NoSession(session.sid)}
    PROVE  Longer
<1>1. NoSession(session.sid).in = FALSE /\ NoSession(session.sid).until["note"] = 0
      /\ NoSession(session.sid) \in
             [in : BOOLEAN, version : Gens, sid : 1 .. MaxSid, until : [Tools -> Times]]
  BY Bounds DEF NoSession, Tools, SessionOK
<1>2. CASE session' = session
  BY <1>2, SameIsLonger DEF serverVars
<1>3. CASE session' = NoSession(session.sid)
  BY <1>1, <1>3, Bounds DEF Longer, SessionOK, Within
<1> QED
  BY <1>2, <1>3 DEF Flushed

\* A grant under the generation of the account, to a session that was open under
\* it or that opens now.
LEMMA GrantIsLonger ==
    ASSUME SessionOK(now, cred, session), now' = now, cred' \in Gens, cred' # 0,
           NEW s \in [in : BOOLEAN, version : Gens, sid : 1 .. MaxSid, until : [Tools -> Times]],
           NEW tools \in SUBSET Tools, "note" \in tools,
           session' = Granted(s, tools, cred')
    PROVE  Longer
<1>1. /\ session'.version = cred' /\ session'.until["note"] = now + Timeout["note"]
      /\ session' \in [in : BOOLEAN, version : Gens, sid : 1 .. MaxSid, until : [Tools -> Times]]
  BY Bounds DEF Granted, Tools, SessionOK
<1>2. now \in Nat /\ cred' \in Nat /\ now + Timeout["note"] \in Nat
  BY Bounds DEF SessionOK
<1>3. SessionOK(now', cred', session')
  BY <1>1, <1>2 DEF SessionOK
<1> QED
  BY <1>1, <1>2, <1>3 DEF Longer, Within

\* The session of another password is not looked at until it is flushed.
LEMMA RotationIsLonger ==
    ASSUME SessionOK(now, cred, session), UNCHANGED <<now, session>>,
           cred # 0, cred' \in Gens, cred' \in {0, cred + 1}
    PROVE  Longer
<1>1. ~(session.in /\ session.version = cred')
  BY Bounds DEF SessionOK
<1>2. cred \in Nat /\ session.version \in Nat
  BY Bounds DEF SessionOK
<1>3. SessionOK(now', cred', session')
  BY <1>2 DEF SessionOK
<1>4. now \in Nat
  BY Bounds DEF SessionOK
<1> QED
  BY <1>1, <1>3, <1>4 DEF Longer, Within

\* Time goes on.
LEMMA TickIsLonger ==
    ASSUME SessionOK(now, cred, session), Tick
    PROVE  Longer
<1>1. /\ now \in 0 .. MaxTime /\ now < MaxTime /\ now' = now + 1 /\ MaxTime \in Nat
      /\ cred' = cred /\ session' = session
  BY Bounds DEF Tick, SessionOK
<1>2. session.until["note"] \in Nat /\ Timeout["note"] \in Nat
  BY Bounds DEF SessionOK, Tools
<1>3. SessionOK(now', cred', session')
  BY <1>1, <1>2 DEF SessionOK
<1> QED
  BY <1>1, <1>2, <1>3 DEF Longer, Within

\* A browser that signs in has a new session, open for both vaults.
LEMMA SignInIsLonger ==
    ASSUME SessionOK(now, cred, session), SignIn
    PROVE  Longer /\ session.sid + 1 \in 1 .. MaxSid
<1>1. /\ cred' = cred /\ now' = now /\ cred # 0 /\ session.sid + 1 \in 1 .. MaxSid
      /\ cred \in Gens /\ session.sid \in 1 .. MaxSid
  BY Bounds DEF SignIn, SessionOK
<1> DEFINE s == [NoSession(session.sid + 1) EXCEPT !.in = TRUE]
<1>2. s \in [in : BOOLEAN, version : Gens, sid : 1 .. MaxSid, until : [Tools -> Times]]
  BY <1>1, Bounds DEF NoSession
<1>3. session' = Granted(s, Tools, cred')
  BY <1>1 DEF SignIn, SignedIn, Granted, NoSession
<1> HIDE DEF s
<1> QED
  BY <1>1, <1>2, <1>3, GrantIsLonger DEF Tools

\* The account page changes the password.
LEMMA ChangePasswordIsLonger ==
    ASSUME SessionOK(now, cred, session), ChangePassword
    PROVE  Longer
<1>1. /\ cred' = cred + 1 /\ now' = now /\ cred' \in Gens /\ cred' # 0
      /\ session.sid + 1 \in 1 .. MaxSid
  BY Bounds DEF ChangePassword, SessionOK, Gens
<1> DEFINE s == [session EXCEPT !.sid = @ + 1]
<1>2. s \in [in : BOOLEAN, version : Gens, sid : 1 .. MaxSid, until : [Tools -> Times]]
  BY <1>1 DEF SessionOK
<1>3. session' = Granted(s, Tools, cred')
  BY <1>1 DEF ChangePassword
<1> HIDE DEF s
<1> QED
  BY <1>1, <1>2, <1>3, GrantIsLonger DEF Tools

\* The password of an open session, given again; and the renewal of note access.
LEMMA GrantedIsLonger ==
    ASSUME SessionOK(now, cred, session), UNCHANGED <<now, cred>>, Authenticated,
           NEW tools \in SUBSET Tools, session' = Granted(session, tools, cred)
    PROVE  Longer
<1>1. cred \in Gens /\ cred # 0 /\ session.in /\ session.version = cred
  BY DEF Authenticated, SessionOK
<1>2. CASE "note" \in tools
  BY <1>1, <1>2, GrantIsLonger DEF SessionOK, Tools
<1>3. CASE "note" \notin tools
  <2>1. /\ session'.version = cred /\ session'.until["note"] = session.until["note"]
        /\ session'.in = session.in
        /\ session' \in [in : BOOLEAN, version : Gens, sid : 1 .. MaxSid, until : [Tools -> Times]]
    BY <1>1, <1>3, Bounds DEF Granted, Tools, SessionOK
  <2> QED
    BY <1>1, <2>1, Bounds DEF Longer, SessionOK, Within
<1> QED
  BY <1>2, <1>3

\* Access that a step shortens belongs to a session that is gone: the cookie of a
\* new session is lost, or the account is deleted.
LEMMA LostIsLonger ==
    ASSUME SessionOK(now, cred, session), now' = now, cred' \in Gens,
           session' = NoSession(session.sid)
    PROVE  Longer
<1>1. /\ NoSession(session.sid).in = FALSE /\ NoSession(session.sid).until["note"] = 0
      /\ NoSession(session.sid) \in
             [in : BOOLEAN, version : Gens, sid : 1 .. MaxSid, until : [Tools -> Times]]
  BY Bounds DEF NoSession, Tools, SessionOK
<1> QED
  BY <1>1, Bounds DEF Longer, SessionOK, Within

\* The session the browser has when it signs in for the first time.
LEMMA SessionInitOK ==
    ASSUME SessionInit
    PROVE  SessionOK(now, cred, session)
<1>1. now = 0 /\ cred = 1 /\ session = SignedIn(1) /\ 0 \in 0 .. MaxTime
  BY Bounds DEF SessionInit
<1>2. \A t \in Tools : 0 + Timeout[t] \in Times
  BY <1>1, Bounds
<1>3. session = [in |-> TRUE, version |-> 1, sid |-> 1, until |-> [t \in Tools |-> 0 + Timeout[t]]]
  BY <1>1 DEF SignedIn, Granted, NoSession
<1>4. session \in [in : BOOLEAN, version : Gens, sid : 1 .. MaxSid, until : [Tools -> Times]]
  BY <1>2, <1>3, Bounds
<1>5. /\ session.version = 1 /\ session.until["note"] = 0 + Timeout["note"]
      /\ Timeout["note"] \in Nat
  BY <1>3, Bounds DEF Tools
<1> QED
  BY <1>1, <1>4, <1>5, Bounds DEF SessionOK
=============================================================================
