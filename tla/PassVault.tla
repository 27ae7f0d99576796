----------------------------- MODULE PassVault ------------------------------
(***************************************************************************)
(* The password vault: one page (static/passwd/js/vault.js), the user's    *)
(* encrypted blob and the shares it lists (apps/passwd).                   *)
(*                                                                         *)
(* The blob holds the only copy of each share's key, and every change      *)
(* writes the whole of it.  An async function of the page is a handler: a  *)
(* step is what runs between two awaits, and a request is answered in a    *)
(* step of its own.  A request dies with the page that sent it.            *)
(***************************************************************************)
EXTENDS ShareTable

CONSTANTS
    Tags,
    MaxTags,       \* MAX_TAGS_PER_SHARE
    MaxHandlers,   \* bound: async functions running at a time
    MaxLocks,      \* bound: locks a page goes through
    NoBlob         \* the user has no ServiceData row

\* What the blob decrypts to: the listed shares, with their tags.
Lists == UNION {[S -> SUBSET Tags] : S \in SUBSET Shares}

ASSUME PassAssumption ==
    /\ NoBlob \notin Lists
    /\ MaxTags \in Nat
    /\ MaxHandlers \in Nat \ {0}
    /\ MaxLocks \in Nat

Handlers == 1 .. MaxHandlers

VARIABLES
    blob,         \* ServiceData.encrypted_data
    locked,       \* VaultSession's flag
    masterKey,    \* 0, or which import of a key it came from
    inert,        \* the page takes no input
    disabled,     \* disableVault has been called
    userShares, isPersisting, lockEpoch,
    handler,      \* [Handlers -> an async function and where it waits]
    \* History, for the properties only:
    loaded,       \* userShares comes from a load under the present key
    disturbed     \* since then something broke the order the page counts on (Disturb)

pageVars == <<locked, masterKey, inert, disabled, userShares, isPersisting, lockEpoch>>
vars == <<shareVars, blob, pageVars, handler, loaded, disturbed>>

-----------------------------------------------------------------------------
\* Handlers.  "at" is the await a handler stands at, "reply" what the request
\* there came back with: ok, no (an error, or no answer) or gone (401, 423).

Handler == [kind : {"none", "load", "recover", "create", "remove", "tag"},
            at : {"idle", "import", "fetch", "create", "revoke", "save"},
            reply : {"none", "ok", "no", "gone"},
            share : SUBSET Shares, key : Nat, epoch : Nat,
            body : Lists \cup {NoBlob}, prev : Lists]

EmptyList == [s \in {} |-> {}]
Stored == IF blob = NoBlob THEN EmptyList ELSE blob

Idle == [kind |-> "none", at |-> "idle", reply |-> "none", share |-> {},
         key |-> 0, epoch |-> 0, body |-> NoBlob, prev |-> EmptyList]
Call(kind, at) == [Idle EXCEPT !.kind = kind, !.at = at]
Busy == {h \in Handlers : handler[h] # Idle}
\* The slots are alike: the first free one is taken.
Free(h) == handler[h] = Idle /\ 1 .. h - 1 \subseteq Busy

Put(h, r) == handler' = [handler EXCEPT ![h] = r]
Answer(h, reply) == Put(h, [handler[h] EXCEPT !.reply = reply])
Waits(h, at) == handler[h].at = at /\ handler[h].reply = "none"
Back(h, at) == handler[h].at = at /\ handler[h].reply # "none"

Init ==
    /\ ShareInit
    /\ blob = NoBlob
    /\ locked = FALSE /\ inert = FALSE /\ disabled = FALSE
    /\ masterKey = 1
    /\ userShares = EmptyList
    /\ isPersisting = FALSE
    /\ lockEpoch = 0
    /\ handler = [h \in Handlers |->
                      IF h = 1 THEN [Call("load", "fetch") EXCEPT !.key = 1] ELSE Idle]
    /\ loaded = FALSE
    /\ disturbed = FALSE

\* The proviso of two properties: the user did not wait for what was under
\* way, an answer was lost, the load came back without the list, or one key was
\* imported over another.
Disturb(now) == disturbed' = (disturbed \/ now)

-----------------------------------------------------------------------------
\* Loading

VaultDataView(h) ==
    /\ Waits(h, "fetch")
    /\ \/ Put(h, [handler[h] EXCEPT !.reply = "ok", !.body = blob])
       \/ \E r \in {"no", "gone"} : Answer(h, r)
    /\ UNCHANGED <<shareVars, blob, pageVars, loaded, disturbed>>

\* The answer of a load that a lock has overtaken is dropped, whatever it says.
LoadDropped(h) ==
    /\ handler[h].key # masterKey
    /\ UNCHANGED <<disabled, userShares, loaded, disturbed>>

\* 401 or 423: the session's own check will lock the page.
LoadRefused(h) ==
    /\ handler[h].key = masterKey /\ handler[h].reply = "gone"
    /\ Disturb(TRUE)
    /\ UNCHANGED <<disabled, userShares, loaded>>

\* Nothing can be created any more; what is listed can still be removed or tagged.
disableVault == disabled' = TRUE

\* Mutant: a failed fetch leaves an empty vault behind, ready for use.
LoadFailed_Empty(h) ==
    /\ handler[h].reply = "no"
    /\ UNCHANGED <<disabled, userShares, loaded, disturbed>>

\* "no" is an error, dropped if a lock has overtaken the load, or a request without an
\* answer, which disables the vault also then.
LoadFailed(h) ==
    /\ handler[h].reply = "no"
    /\ disableVault
    /\ UNCHANGED <<userShares, loaded, disturbed>>

\* Mutant: the list is taken whatever became of the key meanwhile.
LoadTaken_AnyKey(h) ==
    /\ handler[h].reply = "ok"
    /\ userShares' = IF handler[h].body = NoBlob THEN userShares ELSE handler[h].body
    /\ loaded' = TRUE
    /\ Disturb(Busy # {h})
    /\ UNCHANGED disabled

\* Mutant: an account without a stored blob is not told apart.
LoadTaken_NoBlob(h) ==
    /\ handler[h].key = masterKey /\ handler[h].reply = "ok"
    /\ userShares' = handler[h].body
    /\ loaded' = TRUE
    /\ Disturb(Busy # {h})
    /\ UNCHANGED disabled

LoadTaken(h) ==
    /\ handler[h].key = masterKey /\ handler[h].reply = "ok"
    /\ userShares' = IF handler[h].body = NoBlob THEN userShares ELSE handler[h].body
    /\ loaded' = TRUE
    /\ Disturb(Busy # {h})
    /\ UNCHANGED disabled

\* The blob does not decrypt: the user is told to save the links again.
Undecryptable(h) ==
    /\ handler[h].key = masterKey /\ handler[h].reply = "ok"
    /\ handler[h].body # NoBlob
    /\ userShares' = EmptyList
    /\ loaded' = TRUE
    /\ Disturb(TRUE)
    /\ UNCHANGED disabled

\* loadSavedShares, from the answer on; the decryption is part of the step.
LoadAnswered(h) ==
    /\ Back(h, "fetch")
    /\ Put(h, Idle)
    /\ LoadDropped(h) \/ LoadRefused(h) \/ LoadFailed(h) \/ LoadTaken(h) \/ Undecryptable(h)
    /\ UNCHANGED <<shareVars, blob, locked, masterKey, inert, isPersisting, lockEpoch>>

-----------------------------------------------------------------------------
\* Saving

\* Mutant: nothing keeps a second save from being sent beside the first.
persistUserShares_NoGuard(h, list, prev) ==
    \/ /\ masterKey = 0
       /\ Put(h, Idle)
       /\ UNCHANGED <<userShares, isPersisting>>
    \/ /\ masterKey # 0
       /\ Put(h, [handler[h] EXCEPT !.at = "save", !.reply = "none", !.body = list,
                                    !.prev = prev, !.epoch = lockEpoch])
       /\ userShares' = list
       /\ isPersisting' = TRUE

\* persistUserShares, up to its request: without a key it fails, and while
\* another save is under way it reports success at once.
persistUserShares(h, list, prev) ==
    \/ /\ masterKey = 0
       /\ Put(h, Idle)
       /\ UNCHANGED <<userShares, isPersisting>>
    \/ /\ masterKey # 0 /\ isPersisting
       /\ Put(h, Idle)
       /\ userShares' = list
       /\ UNCHANGED isPersisting
    \/ /\ masterKey # 0 /\ ~isPersisting
       /\ Put(h, [handler[h] EXCEPT !.at = "save", !.reply = "none", !.body = list,
                                    !.prev = prev, !.epoch = lockEpoch])
       /\ userShares' = list
       /\ isPersisting' = TRUE

\* commitShareChange: the change shows at once; without a key its save fails
\* and it is undone in the same turn.
commitShareChange(h, list) == persistUserShares(h, list, userShares)

\* UpdateEncryptedDataView and save_user_vault_data.
SaveVaultData(h) ==
    /\ Waits(h, "save")
    /\ \/ /\ blob' = handler[h].body
          /\ \/ Answer(h, "ok") /\ UNCHANGED disturbed
             \/ Answer(h, "no") /\ Disturb(TRUE)
       \/ Answer(h, "no") /\ UNCHANGED <<blob, disturbed>>
    /\ UNCHANGED <<shareVars, pageVars, loaded>>

\* Mutant: a failed save is not rolled back.
SaveAnswered_Keep(h) ==
    /\ Back(h, "save")
    /\ Put(h, Idle)
    /\ isPersisting' = FALSE
    /\ UNCHANGED <<shareVars, blob, locked, masterKey, inert, disabled, userShares, lockEpoch,
                   loaded, disturbed>>

\* The end of persistUserShares and of commitShareChange, with the rollback.
SaveAnswered(h) ==
    /\ Back(h, "save")
    /\ Put(h, Idle)
    /\ isPersisting' = FALSE
    /\ userShares' = IF handler[h].reply # "ok" /\ handler[h].epoch = lockEpoch
                     THEN handler[h].prev ELSE userShares
    /\ UNCHANGED <<shareVars, blob, locked, masterKey, inert, disabled, lockEpoch, loaded, disturbed>>

-----------------------------------------------------------------------------
\* What the user does

\* A click or a submit, when the page is ready for it or not.  Bound: once the
\* order is broken, the user starts nothing more before the next load.
Starts(h) ==
    /\ Free(h)
    /\ ~inert
    /\ ~disturbed
    /\ Disturb(Busy # {})

\* handleInlineFormSubmit; its button is busy until it is done.
handleInlineFormSubmit(h) ==
    /\ Starts(h)
    /\ masterKey # 0 /\ ~disabled
    /\ \A g \in Handlers : handler[g].kind # "create"
    /\ Put(h, Call("create", "create"))
    /\ UNCHANGED <<shareVars, blob, pageVars, loaded>>

\* CreateShareView takes it, and its answer may be lost.
CreateShareView(h) ==
    /\ Waits(h, "create")
    /\ \/ \E s \in Shares :
            /\ create_share(s)
            /\ \/ Put(h, [handler[h] EXCEPT !.reply = "ok", !.share = {s}])
               \/ Answer(h, "no")
       \/ Answer(h, "no") /\ UNCHANGED row
    /\ UNCHANGED <<sweep, blob, pageVars, loaded, disturbed>>

ShareCreated(h) ==
    /\ Back(h, "create")
    /\ IF handler[h].reply = "ok"
       THEN commitShareChange(h, [s \in DOMAIN userShares \cup handler[h].share |->
                                    IF s \in DOMAIN userShares THEN userShares[s] ELSE {}])
       ELSE Put(h, Idle) /\ UNCHANGED <<userShares, isPersisting>>
    /\ UNCHANGED <<shareVars, blob, locked, masterKey, inert, disabled, lockEpoch, loaded, disturbed>>

\* handleRemoveClick, at the second click.
handleRemoveClick(h, s) ==
    /\ Starts(h)
    /\ s \in DOMAIN userShares
    /\ Put(h, [Call("remove", "revoke") EXCEPT !.share = {s}])
    /\ UNCHANGED <<shareVars, blob, pageVars, loaded>>

\* DeleteShareView.
DeleteShareView(h) ==
    /\ Waits(h, "revoke")
    /\ \/ /\ \E s \in handler[h].share : delete_user_share(s)
          /\ \E r \in {"ok", "no"} : Answer(h, r)
       \/ Answer(h, "no") /\ UNCHANGED row
    /\ UNCHANGED <<sweep, blob, pageVars, loaded, disturbed>>

ShareRevoked(h) ==
    /\ Back(h, "revoke")
    /\ IF handler[h].reply = "ok"
       THEN commitShareChange(h, [s \in DOMAIN userShares \ handler[h].share |-> userShares[s]])
       ELSE Put(h, Idle) /\ UNCHANGED <<userShares, isPersisting>>
    /\ UNCHANGED <<shareVars, blob, locked, masterKey, inert, disabled, lockEpoch, loaded, disturbed>>

\* addTagToShare (a no-op once the share has all the tags it may have) and
\* removeTagFromShare; either is saved, changed or not.
addTagToShare(s, t) ==
    IF Cardinality(userShares[s]) < MaxTags
    THEN [userShares EXCEPT ![s] = @ \cup {t}] ELSE userShares
removeTagFromShare(s, t) == [userShares EXCEPT ![s] = @ \ {t}]

TagClick(h, s, t) ==
    /\ Starts(h)
    /\ s \in DOMAIN userShares
    /\ \E list \in {addTagToShare(s, t), removeTagFromShare(s, t)} : commitShareChange(h, list)
    /\ UNCHANGED <<shareVars, blob, locked, masterKey, inert, disabled, lockEpoch, loaded>>

-----------------------------------------------------------------------------
\* The session locks and unlocks the page (the callbacks of initialize)

onLock ==
    /\ ~locked
    /\ lockEpoch < MaxLocks
    /\ locked' = TRUE /\ inert' = TRUE
    /\ lockEpoch' = lockEpoch + 1
    /\ masterKey' = 0
    /\ userShares' = EmptyList
    /\ loaded' = FALSE
    /\ UNCHANGED <<shareVars, blob, disabled, isPersisting, handler, disturbed>>

\* The session obtained a key.  It does not ask for another before onUnlock is
\* through, so there is one handler of this kind at most.
onUnlock(h) ==
    /\ locked
    /\ Free(h)
    /\ \A g \in Handlers : handler[g].kind # "recover"
    /\ locked' = FALSE
    /\ Put(h, [Call("recover", "import") EXCEPT !.key = lockEpoch + 1])
    /\ UNCHANGED <<shareVars, blob, masterKey, inert, disabled, userShares, isPersisting,
                   lockEpoch, loaded, disturbed>>

\* The key is imported, and the page takes input before its list is loaded.  After
\* a lock that came during an import, this may be the second key of a page that
\* still lists what it loaded under the first.
KeyImported(h) ==
    /\ handler[h].at = "import"
    /\ masterKey' = handler[h].key
    /\ inert' = FALSE
    /\ Put(h, [handler[h] EXCEPT !.at = "fetch"])
    /\ loaded' = FALSE
    /\ disturbed' = (Busy # {h} \/ masterKey # 0)
    /\ UNCHANGED <<shareVars, blob, locked, disabled, userShares, isPersisting, lockEpoch>>

\* The page is opened anew, as onIdentityChange does as well: all it had in
\* memory and in flight is lost.
Reload ==
    /\ locked' = FALSE /\ inert' = FALSE /\ disabled' = FALSE
    /\ masterKey' = 1
    /\ userShares' = EmptyList
    /\ isPersisting' = FALSE
    /\ lockEpoch' = 0
    /\ handler' = [g \in Handlers |->
                      IF g = 1 THEN [Call("load", "fetch") EXCEPT !.key = 1] ELSE Idle]
    /\ loaded' = FALSE /\ disturbed' = FALSE
    /\ UNCHANGED <<shareVars, blob>>

-----------------------------------------------------------------------------
Runs(h) ==
    \/ KeyImported(h) \/ VaultDataView(h) \/ LoadAnswered(h)
    \/ CreateShareView(h) \/ ShareCreated(h)
    \/ DeleteShareView(h) \/ ShareRevoked(h)
    \/ SaveVaultData(h) \/ SaveAnswered(h)

User(h) ==
    \/ handleInlineFormSubmit(h)
    \/ \E s \in Shares : handleRemoveClick(h, s) \/ \E t \in Tags : TagClick(h, s, t)
    \/ onUnlock(h)

Server == ShareNext /\ UNCHANGED <<blob, pageVars, handler, loaded, disturbed>>

Next == onLock \/ Reload \/ Server \/ \E h \in Handlers : Runs(h) \/ User(h)

\* cron runs the sweep again and again, and each run goes on.
Spec ==
    /\ Init /\ [][Next]_vars
    /\ WF_vars(delete_expired /\ UNCHANGED <<blob, pageVars, handler, loaded, disturbed>>)
    /\ WF_vars(SweepStep /\ UNCHANGED <<blob, pageVars, handler, loaded, disturbed>>)

-----------------------------------------------------------------------------
\* Properties

\* Every variable has its type.
TypeOK ==
    /\ ShareTypeOK
    /\ blob \in Lists \cup {NoBlob}
    /\ userShares \in Lists
    /\ masterKey \in 0 .. MaxLocks + 1 /\ lockEpoch \in 0 .. MaxLocks
    /\ \A flag \in {locked, inert, disabled, isPersisting, loaded, disturbed} : flag \in BOOLEAN
    /\ handler \in [Handlers -> Handler]

\* A lock clears the list and no answer that comes later brings it back: neither
\* a load sent under the key that is gone nor the rollback of a failed save.
LockedShowsNothing == masterKey = 0 => userShares = EmptyList

\* Saves write the whole blob, so the page has one under way at a time, and
\* isPersisting says whether it has.
OneSaveAtATime ==
    Cardinality({h \in Handlers : handler[h].at = "save"}) = IF isPersisting THEN 1 ELSE 0

\* With nothing under way, the page shows what the server has stored: a change
\* was saved, or it was rolled back and the user told.
QuietMeansStored ==
    (Busy = {} /\ masterKey # 0 /\ loaded /\ ~disturbed) => userShares = Stored

\* The stored blob has the only copy of a share's key: a save drops an entry
\* when its share is gone from the server, and for no other reason.  In
\* particular an empty list that a failed load left behind is never saved.
KeysOfLiveSharesKept ==
    [][disturbed \/ \A s \in DOMAIN Stored \ DOMAIN Stored' : row[s] \notin {"live", "expired"}]_vars
=============================================================================
