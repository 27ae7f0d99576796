----------------------------- MODULE NoteVault ------------------------------
(***************************************************************************)
(* The note vault: one browser tab (static/note/js/vault.js) and the rows, *)
(* index and expiry sweep of the server (apps/note/services.py).           *)
(*                                                                         *)
(* Content and index are saved by separate requests.  An async function of *)
(* the tab is a job: a step of the model is what runs between two awaits,  *)
(* and each request is answered (served, refused or lost, before or after  *)
(* the server did its part) in a step of its own.  A request dies with the *)
(* page that sent it.                                                      *)
(***************************************************************************)
EXTENDS VaultIndex, Naturals, FiniteSets

CONSTANTS
    Jobs,        \* bound: async functions running at a time
    Nil,         \* no note
    Unset,       \* the user has no VaultIndex row
    Unreadable,  \* an index this build cannot decrypt or does not support
    MaxVer,      \* bound: texts one document can have
    MaxLocks,    \* bound: times a page loses its key
    MaxRows,     \* MAX_VAULT_NOTES_PER_USER
    BatchSize    \* the rows the sweep deletes at a time, at most

ASSUME VaultAssumption ==
    /\ Nil \notin Notes
    /\ {Unset, Unreadable} \cap VaultIndexData = {}
    /\ {MaxVer, MaxRows, BatchSize} \subseteq Nat \ {0}
    /\ MaxLocks \in Nat

VARIABLES
    rows,    \* the user's VaultNote rows: text and trashed_at
    saved,   \* the user's VaultIndex row
    picked,  \* the batch the sweep is about to delete
    used,    \* the ids ever given to a row
    masterKey, \* held, dropped (until the tab is unlocked) or none (until it is reloaded)
    readOnly, permanentReadOnly, vaultLoaded,
    locks,     \* how often this page has lost its key
    index, unreadableIds,
    currentNoteId, value, lastSavedValue, isDirty, isSaving,
    job,     \* [Jobs -> an async function and where it waits]
    crossed  \* history: what the user did beside something still under way (Overlaps)

serverVars == <<rows, saved, picked, used>>
keyVars == <<masterKey, readOnly, permanentReadOnly, locks>>
treeVars == <<index, unreadableIds>>
bufferVars == <<currentNoteId, value, lastSavedValue, isDirty>>
vars == <<serverVars, keyVars, vaultLoaded, treeVars, bufferVars, isSaving, job, crossed>>

\* A text, with the document it belongs to; a document without a row is Nil.
Text == [own : Notes \cup {Nil}, ver : 0..MaxVer]
Empty == [own |-> Nil, ver |-> 0]
sameText(s, t) == s = t \/ {s.ver, t.ver} = {0}

\* trashed_at is null (FALSE) or a time, which the retention window may be past.
Row == [text : Text, trashed_at : BOOLEAN]
Flagged == {n \in DOMAIN rows : rows[n].trashed_at}

-----------------------------------------------------------------------------
\* Jobs.  "at" is the await a job stands at; "reply" is what the request there
\* came back with: ok, no (an error, or no answer), gone (401 or 423; only a load
\* treats it otherwise than no).

Gets == {"getIndex", "getRows", "getOrphan", "open"}
Posts == {"index", "persist", "create", "update", "delete", "flag"}
Kinds == {"none", "init", "load", "save", "open", "edit", "trash", "restore", "delete"}

Job == [kind : Kinds, at : Gets \cup Posts \cup {"idle", "session", "encrypt", "updating", "orphans"},
        reply : {"none", "ok", "no", "gone"},
        note : Notes \cup {Nil}, ids : SUBSET Notes, text : Text, flag : BOOLEAN,
        body : VaultIndexData \cup {Unset, Unreadable}, prev : VaultIndexData,
        listed : SUBSET Notes, flagged : SUBSET Notes,
        changed : BOOLEAN, sameKey : BOOLEAN, calm : BOOLEAN]

Idle == [kind |-> "none", at |-> "idle", reply |-> "none",
         note |-> Nil, ids |-> {}, text |-> Empty, flag |-> FALSE,
         body |-> Unset, prev |-> createEmpty, listed |-> {}, flagged |-> {},
         changed |-> FALSE, sameKey |-> TRUE, calm |-> FALSE]

\* The user starts something, in a free slot; nothing else is in the way.
May(j) == job[j].at = "idle"

Put(j, r) == job' = [job EXCEPT ![j] = r]
End(j) == Put(j, Idle)
Call(kind, at, n) == [Idle EXCEPT !.kind = kind, !.at = at, !.note = n]
At(j, at) == job[j].at = at /\ job[j].reply # "none"

\* The history.  The code keeps the user from none of these; each property names as its
\* proviso those that can break it, and a history does not forget.
\*   typed     an input event while a save is under way
\*   switched  the buffer is replaced while a save is under way
\*   reopened  a note is saved while an answer to open that same note is still to come
\*   writes    rows or index are written from two jobs at a time
\*   early     rows or index are written before the load is through
Overlaps == {"typed", "switched", "reopened", "writes", "early"}

\* What a step crosses that replaces the buffer, ...
Switched == IF isSaving /\ bufferVars' # bufferVars THEN {"switched"} ELSE {}
\* ... one that begins a job that writes, in slot j, ...
Written(j) ==
    (IF \E k \in Jobs \ {j} : job[k].kind \notin {"none", "open"} THEN {"writes"} ELSE {})
    \cup (IF vaultLoaded THEN {} ELSE {"early"})
\* ... and one that begins a save.
Reopened ==
    IF \E k \in Jobs : job[k].kind = "open" /\ job[k].note = currentNoteId THEN {"reopened"} ELSE {}

Cross(overlaps) == crossed' = crossed \cup overlaps

TypeOK ==
    /\ rows \in UNION {[S -> Row] : S \in SUBSET Notes}
    /\ saved \in VaultIndexData \cup {Unset, Unreadable}
    /\ picked \subseteq Notes /\ used \subseteq Notes
    /\ masterKey \in {"none", "held", "dropped"} /\ locks \in 0..MaxLocks
    /\ {readOnly, permanentReadOnly, vaultLoaded, isDirty, isSaving} \subseteq BOOLEAN
    /\ index \in VaultIndexData
    /\ unreadableIds \subseteq Notes
    /\ currentNoteId \in Notes \cup {Nil}
    /\ {value, lastSavedValue} \subseteq Text
    /\ job \in [Jobs -> Job]
    /\ crossed \subseteq Overlaps

\* A page that has just been opened: initialize() waits for the session.
Opened ==
    /\ masterKey = "none" /\ locks = 0
    /\ readOnly = FALSE /\ permanentReadOnly = FALSE /\ vaultLoaded = FALSE
    /\ index = createEmpty /\ unreadableIds = {}
    /\ currentNoteId = Nil /\ value = Empty /\ lastSavedValue = Empty
    /\ isDirty = FALSE /\ isSaving = FALSE
    /\ \E j \in Jobs : job = [k \in Jobs |-> IF k = j THEN Call("init", "session", Nil) ELSE Idle]

Init ==
    /\ rows = [n \in {} |-> Nil]
    /\ saved \in {Unset, Unreadable}
    /\ picked = {} /\ used = {}
    /\ Opened /\ crossed = {}

-----------------------------------------------------------------------------
\* The server.  It answers a request, or the answer is lost on the way back.

MayAnswer(j, at) == job[j].at = at /\ job[j].reply = "none"
Answer(j, r) == \E reply \in {"ok", "no"} : Put(j, [r EXCEPT !.reply = reply, !.calm = @ /\ reply = "ok"])
Deny(j) == Put(j, [job[j] EXCEPT !.reply = "no", !.calm = FALSE])

\* The request or its answer is lost, limited, or refused for want of a session or key.
Refuse(j) ==
    /\ job[j].at \in Gets \cup Posts /\ job[j].reply = "none"
    /\ \E reply \in {"no"} \cup (IF job[j].kind = "load" THEN {"gone"} ELSE {}) :
           Put(j, [job[j] EXCEPT !.reply = reply, !.calm = FALSE])
    /\ UNCHANGED serverVars

\* save_vault_index: the last writer wins.
ServeIndex(j) ==
    /\ MayAnswer(j, "index") \/ MayAnswer(j, "persist")
    /\ saved' = job[j].body
    /\ Answer(j, job[j])
    /\ UNCHANGED <<rows, picked, used>>

create_vault_note(j) ==
    /\ MayAnswer(j, "create")
    /\ IF Cardinality(DOMAIN rows) >= MaxRows
       THEN Deny(j) /\ UNCHANGED <<rows, used>>
       ELSE \E n \in Notes \ used :
                LET text == [own |-> IF job[j].text.own = Nil THEN n ELSE job[j].text.own,
                             ver |-> job[j].text.ver]
                IN  /\ rows' = [m \in DOMAIN rows \cup {n} |->
                                    IF m = n THEN [text |-> text, trashed_at |-> FALSE] ELSE rows[m]]
                    /\ used' = used \cup {n}
                    /\ Answer(j, [job[j] EXCEPT !.note = n, !.text = text])
    /\ UNCHANGED <<saved, picked>>

\* update_vault_note: the row is read, and then written whole.
update_vault_note_get(j) ==
    /\ MayAnswer(j, "update")
    /\ LET n == job[j].note
       IN  IF n \in DOMAIN rows
           THEN Put(j, [job[j] EXCEPT !.at = "updating", !.flag = rows[n].trashed_at])
           ELSE Deny(j)
    /\ UNCHANGED serverVars

update_vault_note_save(j) ==
    /\ MayAnswer(j, "updating")
    /\ LET n == job[j].note
           row == [text |-> job[j].text, trashed_at |-> job[j].flag]
       IN  rows' = [m \in DOMAIN rows \cup {n} |-> IF m = n THEN row ELSE rows[m]]
    /\ Answer(j, [job[j] EXCEPT !.at = "update"])
    /\ UNCHANGED <<saved, picked, used>>

delete_vault_note(j) ==
    /\ MayAnswer(j, "delete")
    /\ rows' = Restrict(rows, DOMAIN rows \ {job[j].note})
    /\ Answer(j, job[j])
    /\ UNCHANGED <<saved, picked, used>>

set_vault_notes_trashed(j) ==
    /\ MayAnswer(j, "flag")
    /\ rows' = [n \in DOMAIN rows |->
                    IF n \in job[j].ids THEN [rows[n] EXCEPT !.trashed_at = job[j].flag] ELSE rows[n]]
    /\ Answer(j, job[j])
    /\ UNCHANGED <<saved, picked, used>>

ServeGet(j) ==
    /\ \/ /\ MayAnswer(j, "getIndex")
          /\ Put(j, [job[j] EXCEPT !.reply = "ok", !.body = saved])
       \/ /\ MayAnswer(j, "getRows")
          /\ Put(j, [job[j] EXCEPT !.reply = "ok", !.listed = DOMAIN rows, !.flagged = Flagged])
       \/ /\ MayAnswer(j, "getOrphan")
          /\ IF job[j].note \in DOMAIN rows
             THEN Put(j, [job[j] EXCEPT !.reply = "ok", !.flag = rows[job[j].note].trashed_at])
             ELSE Deny(j)
       \/ /\ MayAnswer(j, "open")
          /\ IF job[j].note \in DOMAIN rows
             THEN Put(j, [job[j] EXCEPT !.reply = "ok", !.text = rows[job[j].note].text])
             ELSE Deny(j)
    /\ UNCHANGED serverVars

Serve(j) ==
    /\ \/ Refuse(j) \/ ServeIndex(j) \/ create_vault_note(j)
       \/ update_vault_note_get(j) \/ update_vault_note_save(j)
       \/ delete_vault_note(j) \/ set_vault_notes_trashed(j) \/ ServeGet(j)
    /\ UNCHANGED <<keyVars, vaultLoaded, treeVars, bufferVars, isSaving, crossed>>

\* delete_expired_trashed_vault_notes: the keys of the rows whose retention
\* window has run out are selected, and then deleted.
SweepSelect ==
    /\ picked = {}
    /\ \E batch \in (SUBSET Flagged) \ {{}} :
           Cardinality(batch) <= BatchSize /\ picked' = batch
    /\ UNCHANGED <<rows, saved, used, keyVars, vaultLoaded, treeVars, bufferVars, isSaving, job, crossed>>

SweepDelete ==
    /\ picked # {}
    /\ rows' = Restrict(rows, DOMAIN rows \ picked)
    /\ picked' = {}
    /\ job' = [j \in Jobs |-> [job[j] EXCEPT !.calm = FALSE]]
    /\ UNCHANGED <<saved, used, keyVars, vaultLoaded, treeVars, bufferVars, isSaving, crossed>>

-----------------------------------------------------------------------------
\* Pieces of the tab's functions.

CanPersist == masterKey = "held" /\ ~readOnly
disableVault(message) ==
    /\ readOnly' = TRUE
    /\ permanentReadOnly' = (permanentReadOnly \/ message)
    /\ UNCHANGED <<masterKey, locks>>

startNewBuffer ==
    /\ currentNoteId' = Nil
    /\ value' = Empty
    /\ lastSavedValue' = Empty
    /\ isDirty' = FALSE

\* persistIndex up to its request; without key or right to write there is none.
Persist(j, r, new) ==
    Put(j, [r EXCEPT !.body = new,
                     !.reply = IF CanPersist THEN "none" ELSE "no",
                     !.calm = @ /\ CanPersist])

\* commitIndexChange up to the await of persistIndex.
Commit(j, r, new) ==
    /\ index' = new
    /\ Persist(j, [r EXCEPT !.at = "index", !.prev = index], new)

\* setTrashed up to its request.
Flag(j, r, ids, flag) == Put(j, [r EXCEPT !.at = "flag", !.reply = "none", !.ids = ids, !.flag = flag])

\* The key is dropped: by the deadline, by a 401 or 423, or by signing out elsewhere;
\* or for good, when the account or its password has changed (onIdentityChange).
onLock ==
    /\ masterKey = "held"
    /\ locks < MaxLocks /\ locks' = locks + 1
    /\ \E changed \in BOOLEAN :
           /\ masterKey' = IF changed THEN "none" ELSE "dropped"
           /\ readOnly' = TRUE
           /\ permanentReadOnly' = (permanentReadOnly \/ changed)
    /\ job' = [j \in Jobs |-> [job[j] EXCEPT !.sameKey = @ /\ job[j].kind # "load",
                                                 !.calm = FALSE]]
    /\ UNCHANGED <<serverVars, vaultLoaded, treeVars, bufferVars, isSaving, crossed>>

\* loadVault up to its first request.
loadVault(j) ==
    Put(j, [Call("load", "getIndex", Nil) EXCEPT !.calm = \A k \in Jobs \ {j} : job[k].at = "idle"])

onUnlock ==
    /\ masterKey = "dropped"
    /\ masterKey' = "held"
    /\ readOnly' = permanentReadOnly
    /\ IF vaultLoaded \/ permanentReadOnly
       THEN UNCHANGED job
       ELSE \E j \in Jobs : job[j].at = "idle" /\ loadVault(j)
    /\ UNCHANGED <<serverVars, permanentReadOnly, locks, vaultLoaded, treeVars, bufferVars, isSaving, crossed>>

\* initialize after session.start(): a key, or no writing until the page is reloaded.
initialize(j) ==
    /\ job[j].at = "session"
    /\ \/ /\ masterKey' = "held"
          /\ loadVault(j)
          /\ UNCHANGED <<readOnly, permanentReadOnly, locks>>
       \/ disableVault(TRUE) /\ End(j)
    /\ UNCHANGED <<serverVars, vaultLoaded, treeVars, bufferVars, isSaving, crossed>>

\* The tab is closed or reloaded; its requests die with it.
Reload ==
    /\ masterKey' = "none" /\ locks' = 0
    /\ readOnly' = FALSE /\ permanentReadOnly' = FALSE /\ vaultLoaded' = FALSE
    /\ index' = createEmpty /\ unreadableIds' = {}
    /\ startNewBuffer /\ isSaving' = FALSE
    /\ \E j \in Jobs :
           job' = [k \in Jobs |-> IF k = j THEN Call("init", "session", Nil) ELSE Idle]
    /\ UNCHANGED <<serverVars, crossed>>

-----------------------------------------------------------------------------
\* loadVault, reply by reply.

AfterGetIndex(j) ==
    /\ At(j, "getIndex")
    /\ \/ /\ ~job[j].sameKey
          /\ End(j) /\ UNCHANGED <<keyVars, index>>
       \/ /\ job[j].reply = "gone" /\ job[j].sameKey
          /\ disableVault(FALSE) /\ End(j) /\ UNCHANGED index
       \/ /\ job[j].reply = "no" \/ job[j].body = Unreadable
          /\ disableVault(TRUE) /\ End(j) /\ UNCHANGED index
       \/ /\ job[j].reply = "ok" /\ job[j].body # Unreadable /\ job[j].sameKey
          /\ index' = IF job[j].body = Unset THEN index ELSE job[j].body
          /\ Put(j, [job[j] EXCEPT !.at = "getRows", !.reply = "none", !.body = Unset])
          /\ UNCHANGED keyVars
    /\ UNCHANGED <<serverVars, vaultLoaded, unreadableIds, bufferVars, isSaving, crossed>>

AfterGetRows(j) ==
    /\ At(j, "getRows")
    /\ \/ /\ job[j].reply # "ok"
          /\ disableVault(job[j].reply = "no") /\ End(j) /\ UNCHANGED index
       \/ /\ job[j].reply = "ok" /\ ~job[j].sameKey
          /\ End(j) /\ UNCHANGED <<keyVars, index>>
       \/ /\ job[j].reply = "ok" /\ job[j].sameKey
          /\ index' = reconcile(index, job[j].listed)
          /\ Put(j, [job[j] EXCEPT !.at = "orphans", !.reply = "none",
                                   !.listed = {},
                                   !.ids = orphanIds(index, job[j].listed),
                                   !.changed = DOMAIN index.notes \ job[j].listed # {}])
          /\ UNCHANGED keyVars
    /\ UNCHANGED <<serverVars, vaultLoaded, unreadableIds, bufferVars, isSaving, crossed>>

\* recoverOrphanRows asks for one row after the other.
NextOrphan(j) ==
    /\ job[j].at = "orphans"
    /\ \E n \in job[j].ids :
           Put(j, [job[j] EXCEPT !.at = "getOrphan", !.note = n, !.ids = @ \ {n}])
    /\ UNCHANGED <<serverVars, keyVars, vaultLoaded, treeVars, bufferVars, isSaving, crossed>>

AfterGetOrphan(j) ==
    /\ At(j, "getOrphan")
    /\ LET on == [job[j] EXCEPT !.at = "orphans", !.reply = "none", !.note = Nil, !.flag = FALSE]
       IN  \/ /\ ~job[j].sameKey
              /\ End(j) /\ UNCHANGED <<keyVars, treeVars>>
           \/ /\ job[j].reply = "gone" /\ job[j].sameKey
              /\ disableVault(FALSE) /\ End(j) /\ UNCHANGED treeVars
           \/ /\ job[j].reply = "no"
              /\ unreadableIds' = unreadableIds \cup {job[j].note}
              /\ Put(j, on) /\ UNCHANGED <<keyVars, index>>
           \/ /\ job[j].reply = "ok" /\ job[j].sameKey
              /\ index' = addNote(index, job[j].note, job[j].flag)
              /\ Put(j, [on EXCEPT !.changed = TRUE])
              /\ UNCHANGED <<keyVars, unreadableIds>>
    /\ UNCHANGED <<serverVars, vaultLoaded, bufferVars, isSaving, crossed>>

\* The load is done but for the Trash flags that do not match the index.
Loaded(j) ==
    LET Drift(v) == IF readOnly THEN {} ELSE trashFlagDrift(index, job[j].flagged, v)
    IN  /\ vaultLoaded' = TRUE
        /\ IF isDirty THEN UNCHANGED bufferVars ELSE startNewBuffer
        /\ \/ /\ Drift(TRUE) # {}
              /\ Flag(j, [job[j] EXCEPT !.listed = Drift(FALSE)], Drift(TRUE), TRUE)
           \/ /\ Drift(TRUE) = {} /\ Drift(FALSE) # {}
              /\ Flag(j, [job[j] EXCEPT !.listed = {}], Drift(FALSE), FALSE)
           \/ /\ Drift(TRUE) = {} /\ Drift(FALSE) = {}
              /\ End(j)

OrphansDone(j) ==
    /\ job[j].at = "orphans" /\ job[j].ids = {}
    /\ IF job[j].changed
       THEN Persist(j, [job[j] EXCEPT !.at = "persist", !.changed = FALSE], index) /\ UNCHANGED <<vaultLoaded, bufferVars>>
       ELSE Loaded(j)
    /\ Cross(Switched)
    /\ UNCHANGED <<serverVars, keyVars, treeVars, isSaving>>

AfterPersist(j) ==
    /\ At(j, "persist")
    /\ Loaded(j)
    /\ Cross(Switched)
    /\ UNCHANGED <<serverVars, keyVars, treeVars, isSaving>>

-----------------------------------------------------------------------------
\* The editor.

\* Any input event: isDirty is computed anew.  Nobody types an earlier text again.
Type ==
    /\ value.ver < IF value.own = Nil THEN 1 ELSE MaxVer
    /\ value' = [value EXCEPT !.ver = @ + 1]
    /\ isDirty' = ~sameText(value', lastSavedValue)
    /\ Cross(IF isSaving THEN {"typed"} ELSE {})
    /\ UNCHANGED <<serverVars, keyVars, vaultLoaded, treeVars, currentNoteId, lastSavedValue, isSaving, job>>

\* "New note"; confirmDiscard has been answered yes.
NewNote ==
    /\ startNewBuffer
    /\ Cross(Switched)
    /\ UNCHANGED <<serverVars, keyVars, vaultLoaded, treeVars, isSaving, job>>

openNote(j, n) ==
    /\ May(j)
    /\ n \in DOMAIN index.notes /\ ~index.notes[n].trashed
    /\ n # currentNoteId
    /\ Put(j, Call("open", "open", n))
    /\ UNCHANGED <<serverVars, keyVars, vaultLoaded, treeVars, bufferVars, isSaving, crossed>>

\* Mutant: the buffer is filled but still belongs to the note before.
AfterOpen_SameNote(j) ==
    /\ At(j, "open")
    /\ IF job[j].reply = "ok" /\ masterKey = "held"
       THEN value' = job[j].text /\ lastSavedValue' = job[j].text /\ isDirty' = FALSE
       ELSE UNCHANGED <<value, lastSavedValue, isDirty>>
    /\ End(j)
    /\ UNCHANGED <<serverVars, keyVars, vaultLoaded, treeVars, currentNoteId, isSaving, crossed>>

AfterOpen(j) ==
    /\ At(j, "open")
    /\ IF job[j].reply = "ok" /\ masterKey = "held"
       THEN /\ currentNoteId' = job[j].note
            /\ value' = job[j].text
            /\ lastSavedValue' = job[j].text
            /\ isDirty' = FALSE
       ELSE UNCHANGED bufferVars
    /\ End(j)
    /\ Cross(Switched)
    /\ UNCHANGED <<serverVars, keyVars, vaultLoaded, treeVars, isSaving>>

\* Mutant: the buffer counts as saved when the save begins.
saveNote_CleanFirst(j) ==
    /\ May(j)
    /\ CanPersist /\ ~isSaving
    /\ value.ver # 0
    /\ isSaving' = TRUE
    /\ lastSavedValue' = value /\ isDirty' = FALSE
    /\ Put(j, [Call("save", "encrypt", Nil) EXCEPT !.text = value])
    /\ Cross(Written(j) \cup Reopened)
    /\ UNCHANGED <<serverVars, keyVars, vaultLoaded, treeVars, currentNoteId, value>>

saveNote(j) ==
    /\ May(j)
    /\ CanPersist /\ ~isSaving
    /\ value.ver # 0
    /\ isSaving' = TRUE
    /\ Put(j, [Call("save", "encrypt", Nil) EXCEPT !.text = value])
    /\ Cross(Written(j) \cup Reopened)
    /\ UNCHANGED <<serverVars, keyVars, vaultLoaded, treeVars, bufferVars>>

\* persistNoteRow: which row is written is read after the encryption.
persistNoteRow(j) ==
    /\ job[j].at = "encrypt"
    /\ Put(j, [job[j] EXCEPT !.at = IF currentNoteId = Nil THEN "create" ELSE "update",
                             !.reply = "none", !.note = currentNoteId])
    /\ UNCHANGED <<serverVars, keyVars, vaultLoaded, treeVars, bufferVars, isSaving, crossed>>

\* The row is answered: indexSavedNote, or the end of saveNote.
AfterRow(j) ==
    /\ At(j, "create") \/ At(j, "update")
    /\ IF job[j].reply = "ok"
       THEN /\ IF job[j].at = "create"
               THEN /\ currentNoteId' = job[j].note
                    /\ value' = [value EXCEPT !.own = IF @ = Nil THEN job[j].note ELSE @]
                    /\ Commit(j, job[j], addNote(index, job[j].note, FALSE))
               ELSE /\ Commit(j, job[j], index)
                    /\ UNCHANGED <<currentNoteId, value>>
            /\ UNCHANGED isSaving
       ELSE /\ isSaving' = FALSE
            /\ End(j)
            /\ UNCHANGED <<index, currentNoteId, value>>
    /\ UNCHANGED <<serverVars, keyVars, vaultLoaded, unreadableIds, lastSavedValue, isDirty, crossed>>

-----------------------------------------------------------------------------
\* The tree.

\* The operations that are one index commit: a new folder, a rename, a move.
\* A menu may be older than the index, so a move may name any folder.
editIndex(j) ==
    /\ May(j)
    /\ \/ \E f \in Folders \ index.folders :
              ~readOnly /\ Commit(j, Call("edit", "index", Nil), addFolder(index, f))
       \/ \E n \in DOMAIN index.notes, f \in Folders \cup {Root} :
              ~index.notes[n].trashed /\ Commit(j, Call("edit", "index", Nil), moveNote(index, n, f))
       \/ \* renameNote, renameFolder
          /\ index.folders # {} \/ DOMAIN index.notes # {}
          /\ Commit(j, Call("edit", "index", Nil), index)
    /\ Cross(Written(j))
    /\ UNCHANGED <<serverVars, keyVars, vaultLoaded, unreadableIds, bufferVars, isSaving>>

moveNoteToTrash(j, n) ==
    /\ May(j)
    /\ n \in DOMAIN index.notes /\ ~index.notes[n].trashed
    /\ IF n = currentNoteId THEN startNewBuffer ELSE UNCHANGED bufferVars
    /\ Commit(j, [Call("trash", "index", Nil) EXCEPT !.ids = {n}], trashNote(index, n))
    /\ Cross(Written(j) \cup Switched)
    /\ UNCHANGED <<serverVars, keyVars, vaultLoaded, unreadableIds, isSaving>>

deleteFolderToTrash(j, f) ==
    /\ May(j)
    /\ f \in index.folders
    /\ LET active == {n \in DOMAIN index.notes : index.notes[n].folder = f /\ ~index.notes[n].trashed}
       IN  Commit(j, [Call("trash", "index", Nil) EXCEPT !.ids = active], deleteFolder(index, f))
    /\ Cross(Written(j))
    /\ UNCHANGED <<serverVars, keyVars, vaultLoaded, unreadableIds, bufferVars, isSaving>>

\* Mutant: the index first, as when a note is trashed.
restoreTrashedNote_IndexFirst(j, n) ==
    /\ May(j)
    /\ n \in DOMAIN index.notes /\ index.notes[n].trashed
    /\ Commit(j, Call("edit", "index", Nil), restoreNote(index, n))
    /\ Cross(Written(j))
    /\ UNCHANGED <<serverVars, keyVars, vaultLoaded, unreadableIds, bufferVars, isSaving>>

restoreTrashedNote(j, n) ==
    /\ May(j)
    /\ n \in DOMAIN index.notes /\ index.notes[n].trashed
    /\ Flag(j, Call("restore", "flag", n), {n}, FALSE)
    /\ Cross(Written(j))
    /\ UNCHANGED <<serverVars, keyVars, vaultLoaded, treeVars, bufferVars, isSaving>>

deleteNoteForever(j, n) ==
    /\ May(j)
    /\ n \in unreadableIds \/ (n \in DOMAIN index.notes /\ index.notes[n].trashed)
    /\ Put(j, Call("delete", "delete", n))
    /\ Cross(Written(j))
    /\ UNCHANGED <<serverVars, keyVars, vaultLoaded, treeVars, bufferVars, isSaving>>

\* What follows the await in deleteNoteForever, when it was the open note.
CloseIfOpen(n) == IF n = currentNoteId THEN startNewBuffer ELSE UNCHANGED bufferVars

AfterDelete(j) ==
    /\ At(j, "delete")
    /\ LET n == job[j].note
       IN  \/ /\ job[j].reply # "ok"
              /\ End(j) /\ UNCHANGED <<treeVars, bufferVars>>
           \/ /\ job[j].reply = "ok" /\ n \in unreadableIds
              /\ unreadableIds' = unreadableIds \ {n}
              /\ CloseIfOpen(n) /\ End(j) /\ UNCHANGED index
           \/ /\ job[j].reply = "ok" /\ n \notin unreadableIds
              /\ Commit(j, job[j], removeNote(index, n))
              /\ UNCHANGED <<unreadableIds, bufferVars>>
    /\ Cross(Switched)
    /\ UNCHANGED <<serverVars, keyVars, vaultLoaded, isSaving>>

\* setTrashed has returned.
AfterFlag(j) ==
    /\ At(j, "flag")
    /\ \/ /\ job[j].kind = "restore" /\ job[j].reply = "ok"
          /\ Commit(j, job[j], restoreNote(index, job[j].note))
       \/ /\ job[j].kind = "load" /\ job[j].flag /\ job[j].listed # {}
          /\ Flag(j, job[j], job[j].listed, FALSE)
          /\ UNCHANGED index
       \/ /\ job[j].kind = "restore" => job[j].reply # "ok"
          /\ job[j].kind = "load" => ~job[j].flag \/ job[j].listed = {}
          /\ End(j)
          /\ UNCHANGED index
    /\ UNCHANGED <<serverVars, keyVars, vaultLoaded, unreadableIds, bufferVars, isSaving, crossed>>

\* commitIndexChange has returned: the rollback, and what its caller does next.
AfterIndex(j) ==
    /\ At(j, "index")
    /\ index' = IF job[j].reply = "ok" THEN index ELSE job[j].prev
    /\ IF job[j].kind = "trash" /\ job[j].reply = "ok" /\ job[j].ids # {}
       THEN Flag(j, job[j], job[j].ids, TRUE)
       ELSE End(j)
    /\ \/ /\ job[j].kind = "save"
          /\ lastSavedValue' = job[j].text
          /\ isDirty' = FALSE
          /\ isSaving' = FALSE
          /\ UNCHANGED <<currentNoteId, value>>
       \/ /\ job[j].kind = "delete"
          /\ CloseIfOpen(job[j].note)
          /\ UNCHANGED isSaving
       \/ /\ job[j].kind \notin {"save", "delete"}
          /\ UNCHANGED <<bufferVars, isSaving>>
    /\ Cross(IF job[j].kind = "delete" THEN Switched ELSE {})
    /\ UNCHANGED <<serverVars, keyVars, vaultLoaded, unreadableIds>>

-----------------------------------------------------------------------------
Load(j) ==
    \/ initialize(j) \/ AfterGetIndex(j) \/ AfterGetRows(j) \/ NextOrphan(j)
    \/ AfterGetOrphan(j) \/ OrphansDone(j) \/ AfterPersist(j)

Continue(j) ==
    \/ AfterOpen(j) \/ persistNoteRow(j) \/ AfterRow(j)
    \/ AfterDelete(j) \/ AfterFlag(j) \/ AfterIndex(j)

User(j) ==
    \/ saveNote(j) \/ editIndex(j)
    \/ \E n \in Notes : \/ openNote(j, n) \/ moveNoteToTrash(j, n)
                        \/ restoreTrashedNote(j, n) \/ deleteNoteForever(j, n)
    \/ \E f \in Folders : deleteFolderToTrash(j, f)

Next ==
    \/ \E j \in Jobs : Serve(j) \/ Load(j) \/ Continue(j) \/ User(j)
    \/ Type \/ NewNote
    \/ onLock \/ onUnlock \/ Reload
    \/ SweepSelect \/ SweepDelete

Spec == Init /\ [][Next]_vars

-----------------------------------------------------------------------------
\* Every index, here, on its way and on the server, keeps its notes in folders it has:
\* moves and restores fall back to the root and deleting a folder empties it.
FoldersStay ==
    /\ FoldersExist(index)
    /\ saved \notin {Unset, Unreadable} => FoldersExist(saved)

\* A note the saved index shows as active has no deletion flag on its row, so
\* that no sweep will take it (moveNoteToTrash, restoreTrashedNote, loadVault); unless
\* rollbacks or requests of two changes have crossed (commitIndexChange, vault.js:403).
ActiveNeverFlagged ==
    saved \notin {Unset, Unreadable} /\ crossed \cap {"writes", "early"} = {} =>
        \A n \in DOMAIN saved.notes \cap DOMAIN rows :
            ~saved.notes[n].trashed => ~rows[n].trashed_at

\* A row holds a text of its own document, never one typed into another note; unless the
\* buffer was replaced during a save, which reads currentNoteId late (persistNoteRow).
RowHoldsItsNote == "switched" \notin crossed => \A n \in DOMAIN rows : rows[n].text.own = n

\* While the page asks nothing before it discards the buffer, the row of the
\* open note holds what the buffer shows; unless the buffer was changed during a save, which
\* ends with a clean mark (saveNote), or a late answer brought an older text (openNote).
CleanMeansSaved ==
    ~isDirty /\ currentNoteId \in DOMAIN rows /\ crossed \cap {"typed", "switched", "reopened"} = {}
        => rows[currentNoteId].text = value

\* The index on the server names exactly the rows there are, each with its flag.
Agree ==
    LET entries == IF saved = Unset THEN createEmpty.notes ELSE saved.notes
    IN  /\ saved # Unreadable
        /\ DOMAIN entries = DOMAIN rows
        /\ \A n \in DOMAIN rows : entries[n].trashed = (n \in Flagged)

\* A load that nothing disturbed (every request answered, the key kept, no
\* sweep) leaves index and rows in agreement, whatever it found: rows no index
\* names, entries without a row, flags of an interrupted trash or restore; unless
\* changes have crossed each other or the load.
LoadSettles ==
    [][crossed' \cap {"writes", "early"} = {} =>
          \A j \in Jobs :
              job[j].kind = "load" /\ job[j].calm /\ job'[j].kind = "none" /\ vaultLoaded'
                  => Agree']_vars

\* An index this build cannot read is never written over (loadVault, disableVault).
UnreadableKept == [][saved = Unreadable => saved' = Unreadable]_saved
=============================================================================
