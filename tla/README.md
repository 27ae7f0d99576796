# proxima-red, modelled and proved in TLA+

proxima-red is a Django application with two tools, *note* (markdown notes:
one-time shares, a vault, and editable "live" notes) and *pass* (one-time
password shares and a vault of them). Everything is encrypted in the browser;
the server stores and relays ciphertext. What can go wrong is therefore not
in the data but in the protocol between browsers, requests, transactions and
timers, and that is what these modules describe.

Line numbers below and in PROJECT.json are those of the repository's `src/`.

## Inventory

| Component | Code | State | Operations |
|---|---|---|---|
| Live-note log | `apps/note/services.py`, `views.py`, `models.py` | `LiveNote` (snapshot, snapshot_seq, expiry), `LiveNoteUpdate` rows | create, append, read since a cursor, compact, expire |
| Live socket consumer | `apps/note/consumers.py` | per socket: ready, group, token bucket, abuse streak; a shared per-note counter in the cache | connect, receive update, broadcast, disconnect |
| Live sync client | `static/note/js/live-sync.js` | cursor, outbox, flush/poll/socket/compaction flags and timers | type, flush, poll, gap fill, compact, socket events |
| Live editor, presence | `live.js`, `live-binding.js`, `live-presence.js` | textarea, peers with deadlines | splice text, announce, expire peers |
| Note vault, browser | `static/note/js/vault.js`, `vault-index.js` | master key, index, open note, lock state | save, trash, restore, delete, rename, load and reconcile |
| Note vault, server | `apps/note/services.py`, `views.py` | `VaultNote` rows with trash flags, one `VaultIndex` blob | create under a quota, update, delete, trash, migrate, sweep |
| Pass vault | `static/passwd/js/vault.js`, `apps/passwd/` | list of shares in one blob, lock epoch | add, tag, revoke, persist, lock |
| Password change | `static/auth/js/account.js`, `vault-migration.js`, `apps/auth/services.py` | salts and credential hash, decrypted copies in one page | recover, rotate, re-encrypt in batches |
| Vault sessions | `apps/auth/vault_sessions.py`, `static/auth/js/vault-session.js` | grants with deadlines, cached keys per tab and per browser | grant, renew, check, lock, recover |
| One-time shares | `apps/note/services.py`, `apps/passwd/services.py`, management commands | share rows with expiry and counters | create, open, revoke, sweep in batches |
| Accounts, cryptography, HTTP helpers, page widgets | `apps/auth/views.py`, `shared/js/*`, `apps/core/*` | little or none | forms, WebCrypto calls, rendering |

How they interact. Browsers call the HTTP views; the live client also holds a
socket to a consumer, which writes through the same service function as the
HTTP view and then broadcasts through the channel layer. There is no
`ATOMIC_REQUESTS`: a view's queries are separate statements unless a service
opens a transaction, and production is PostgreSQL at READ COMMITTED. Browser
code is single-threaded and interleaves at every `await`. Tabs of one user
share the server's rows and the session, and know of each other only through
them.

What is hard there, and what makes each component correct:

- *Live-note log*: ids are allocated inside transactions and become visible at
  commit; readers take no lock. Correct when no cursor passes an id that
  becomes visible later, when compaction loses nothing, and when the
  concurrent server is indistinguishable from an atomic log.
- *Live sync client*: six independent activities (flush, poll, inbox, socket,
  compaction, page visibility) share one record of flags. Correct when no edit
  leaves the outbox before it is stored, nothing unsaved is left without
  anything to send it, cursors are sound, and edits arrive in the end.
- *Consumer*: frames of one socket are served serially, broadcasts of several
  sockets are not; the socket counter is shared and not atomic. Correct when
  nothing is announced before it is committed and the counter counts sockets.
- *Note vault*: one user action is two writes (row and index, or index and
  flag) and either can fail. Correct when an interrupted action heals on the
  next load, when a note shown as active is never swept, and when a rollback
  undoes only its own change.
- *Pass vault*: correct when a change that was reported as saved is on the
  server, or will be with the next save.
- *Password change*: correct when a failure before the rotation changes
  nothing, and one after it leaves every row readable under a key the page
  still has.
- *Vault sessions*: correct when a locked tab holds no key, and no cached key
  outlives its grant or its credential.

PROJECT.json lists the hazards one by one, each at its line.

## Plan

In this order; a module may be composed of the ones before it.

1. `UpdateTable`, `SerialLog`, `LiveLog`: the log as data, as an atomic
   promise, and as the code's transactions. `LiveLogProofs`. **Done.**
2. `LiveSync`: the browser client and the consumer on top of `SerialLog`.
   `LiveSyncProofs`, with `UpdateTableProofs`. **Done.**
3. `VaultIndex`, `NoteVault`: rows, index blob and trash flags on the server,
   one tab with optimistic commits, saves and loads. `NoteVaultProofs`.
   **Done** for one tab.
4. `ShareTable`, `PassVault`: the share rows with their sweep, and the page over
   the blob that lists them. `PassVaultProofs`. **Done.**
5. `AccountSession`, `VaultTab`: the session with its grants, and a tab with
   its keys, deadlines and prompt. `AccountSessionProofs`, `VaultTabProofs`. **Done.**
6. `PasswordChange`: rotation and migration over the same session, with other
   tabs saving meanwhile, and the batching algorithm. `PasswordChangeProofs`. **Done.**

Each has its theorems in a module of its own (see Proofs).

Left: a second tab over one note vault (quota, index overwritten, row put back),
and an abstract vault in which every action is atomic. The consumer's admission
control and the splices of `live-binding.js` come last: nothing that is stored
depends on them.

## The modules

### UpdateTable, SerialLog

`UpdateTable` is the table of update rows as data: what is newest, when the
tail is full, what a read answers for a cursor. Documents are Yjs CRDTs, whose
merge is commutative and idempotent, so a document, a snapshot and an update
are all *sets of edits* and merging is union.

`SerialLog` is the abstract specification: a note, its snapshot and its tail,
changed by `AppendRow`, `Compact` and `Expire`, each one step.

### LiveLog

One note at the grain of its database statements. An append is sent, takes the
row lock and allocates an id (`PushInsert`), and commits or rolls back
(`PushCommit`, `PushFail`); a compaction checks and writes under the same lock
(`CompactCommit`; its transaction is one step because nothing of it is visible
earlier and nobody can interfere while it holds the lock); a read runs two
queries (`PollReadNote`, `PollReadRows`). Clients are reduced to a document and
a cursor; a push of any committed row may reach any of them at any time
(`Receive`), which covers loss, delay, duplication and reordering.

Ids are those of a table shared by all notes: an append may take any larger id,
so gaps left by other notes and by rollbacks are there.

`torn` remembers that a compaction committed between the two queries of a read.
The code has no protection against that (first finding below), so the two
properties that depend on it are stated up to the first such read.

### LiveSync

The client in full. One browser is one JavaScript closure: its variables are
the fields of a record, its functions are operators from record to record with
the names they have in the code (`ScheduleFlush`, `HaltFlush`, `HandleAck`,
...), and an action is what runs between two awaits. A delay is left out: a
timer is armed (`flushTimer`, `pollTimer`, `reconnectTimer`) and may fire.

| Code | Model |
|---|---|
| `flush`, `flushOverWs`, `flushOverHttp` | `FlushTimerFires`/`Hide`, `EncryptDone`, `ServeFlush`, `FlushDone`, `FlushFails` |
| `compact` | `StartCompact`, `CompactDone`, `CompactFails`, `Resume` for whoever awaited it |
| `poll`, `schedulePoll` | `PollTimerFires`, `PollDone`, `PollFails` |
| `connectWs` and its handlers | `Open`, `Close` (with `OnClose`), `AckTimeout`, `ReconnectTimerFires` |
| the promise chain `wsInbox` | `inbox`, `handler`, `TakeFrame`, `ApplyDone`, `GapFillDone`, `GapFillFails` |
| `visibilitychange` | `Hide`, `Show` |
| the consumer's `connect`, `receive_json`, `live_update`, `disconnect` | `Join`/`TurnAway`, `ServeFrame`, `Broadcast`, `Close` |

The page around the client (`live.js`) is in as far as it steers it: `Type` is
`onInput`, which queues what is typed and is refused once the page is
`Terminal`, and `CountdownEnds` is the countdown that ends the note in this
browser, perhaps before the server has said so.

Simplifications, each on the safe side or harmless: a read is served when it is
sent and applied later (that a read is torn is `LiveLog`'s subject); `start` is
one step; one poll of a client is in flight at a time; the size of an update is
not counted, and `MayReject` lets the server refuse any update for good; ids
are consecutive. A request rate limit, a 5xx and a lost request are one fault:
the client treats them alike.

### VaultIndex, NoteVault

`VaultIndex` is vault-index.js as operators on an index: the folders, and for
each note its folder and whether it is in Trash. Names, order and time stamps
are left out, so renames and `touchNote` are commits of an unchanged index.

`NoteVault` is one tab and the server. A vault action is several requests: a
save writes the row and then the index; trashing writes the index and then the
flag, restoring the other way round; a load fetches the index, the rows, and
one orphan row after the other, then saves the index and repairs flags. Each
async function is a *job*, a record that says at which await it stands, what
came back and what it still needs; an action is what runs between two awaits.

| Code | Model |
|---|---|
| `loadVault` and its helpers | `loadVault`, `AfterGetIndex`, `AfterGetRows`, `NextOrphan`, `AfterGetOrphan`, `OrphansDone`, `AfterPersist`, `Loaded` |
| `commitIndexChange`, `persistIndex` | `Commit`/`Persist` before the request, `AfterIndex` after it, rollback included |
| `saveNote`, `persistNoteRow`, `indexSavedNote` | `saveNote`, `persistNoteRow`, `AfterRow`, `AfterIndex` |
| `setTrashed` | `Flag`, `AfterFlag` |
| `openNote`, `deleteNoteForever` | `openNote`/`AfterOpen`, `deleteNoteForever`/`AfterDelete` |
| the session's callbacks | `onLock` (`onIdentityChange` with it), `onUnlock`, `initialize`, `Reload` |
| services.py | `ServeIndex`, `create_vault_note`, `update_vault_note_get`/`_save` (read, then whole-row write), `delete_vault_note`, `set_vault_notes_trashed`, `SweepSelect`/`SweepDelete` |

A request is served, refused before it has an effect, or served and its answer
lost. A text is the document it was typed into and a version; typing never
returns to an earlier version. `trashed_at` is set or not, and any flagged row
may be past its retention. Simplifications: a request dies with the page that
sent it (a late one is the second-tab case); the import of a key is immediate;
ids are never used twice; two entries of one id are one.

The user may start anything at any moment: the code makes nobody wait. Some of
what can be started beside something else breaks a property, and `crossed`
remembers which of it has happened, so that each property can name in its
proviso just what breaks it:

| `crossed` has | when | who needs it not to have happened |
|---|---|---|
| `typed` | an input event came during a save (vault.js:541) | `CleanMeansSaved` |
| `switched` | the buffer was replaced during a save (vault.js:478) | `RowHoldsItsNote`, `CleanMeansSaved`, `TextNeverOlder` |
| `reopened` | a note was saved while an answer to open that note was still to come (vault.js:434) | `CleanMeansSaved`, `TextNeverOlder` |
| `writes` | a change was begun beside a load or another change (vault.js:403) | `ActiveNeverFlagged`, `LoadSettles` |
| `early` | a change was begun before the load was through (vault.js:930) | `ActiveNeverFlagged`, `LoadSettles` |

The five are hazards of the code, listed as such; no document of the repository
promises otherwise, but for the last (finding 4). `FoldersStay` needs no proviso.
Without a proviso TLC finds a counterexample, for every entry of the table but
one: `LoadSettles` may not need `early`.

### ShareTable, PassVault

`ShareTable` is the `SharedPassword` rows: created, opened, revoked, taken down
by command, and swept in batches by a cron job that keeps the cutoff it started
with. A UUID is never used twice; time is the step `expires_at` at which a row
passes its expiry.

`PassVault` is one page over the user's blob (`ServiceData`), which holds the
only copy of every share's key. Each async function is a *handler*, as the jobs
of `NoteVault` are; a request is answered in a step of its own, and may be
served with its answer lost.

| Code | Model |
|---|---|
| `loadSavedShares` | `VaultDataView`, then `LoadAnswered`: dropped, refused, failed, taken or undecryptable |
| `persistUserShares`, `commitShareChange` | one operator up to the request, `SaveVaultData`, `SaveAnswered` with the rollback |
| `handleInlineFormSubmit`, `handleRemoveClick`, tag edits | the action of that name, the view (`CreateShareView`, `DeleteShareView`), then `ShareCreated`, `ShareRevoked` |
| `initialize`'s session callbacks | `onLock`, `onUnlock`/`KeyImported`, `Reload` |
| `delete_expired`, `_delete_in_batches` | `delete_expired`, `DeleteBatch`, `SweepEnds` |

`disturbed` is the proviso of `QuietMeansStored` and `KeysOfLiveSharesKept`: it
remembers that the user started something while something else was under way,
or before a load was through; that a save was stored and its answer lost; that
the load brought no list; or that a key was imported while something was under
way, or over another key, whose list is then still shown. In each of these cases the code loses a change or
overwrites an entry it has not read, and promises nothing else.

### AccountSession, VaultTab

`AccountSession` is the browser's session on the server. A *generation* is a
password with its salts: it stands for the password hash, the vault key and the
identity of the ciphertext at once, because the code derives all three from it
and compares them for equality only. `Gate` is `require_tool_auth_api`, with its
order of refusals 401, 409, 423. A deleted account has generation 0.

`VaultTab` is one note tab over it, with the browser's storage.

| Code | Model |
|---|---|
| `fetchState` | `Call` when it is sent, `VaultSessionView` when it is served or lost, `CheckAnswered`/`ObtainAnswered` when it is taken |
| `refresh`, the interval, focus, activity | `Refresh("get")`, `Refresh("post")` |
| `applyState`, `cachedKey`, `remember`, `obtainKey`, `lock`, `changedIdentity` | operators of the same names, from tab to tab |
| the expiry timer | `ExpiryTimer` |
| `ensureSecureSession`, the prompt | `Prompt`, `Reauth`, `dismiss` |
| http.js: identity header, `vault-session-error` | `vaultHeaders`, `VaultSessionError` |
| sign-in and sign-out pages, account deletion, another tab's activity | `SignInHere`, `SignOutHere`, `SignOutElsewhere`, `DeleteAccountElsewhere`, `SiblingActivity` |

Time passes between a request, its answer and the step that takes the answer,
so deadlines computed too late or from a stale answer are possible. One
account only: an identity is then its generation, and a foreign identity is one
of another generation. The copy in `localStorage` (the mirror) may be written,
used and removed by other tabs at any time.

### PasswordChange

The account page's submit over the same session: the preflight, three recovery
reads, the rotation, the password blob, the note batches with their retries, and
the recovery copy. A ciphertext is the generation it is under; the plaintexts
are the set of items decrypted.

| Code | Model |
|---|---|
| `submitPasswordChange` | `Preflight`, `recoverVaultBeforeChange`, `PasswordChangeView`, `resecureVaultAfterChange`, `postMigrationBatch`, `Finish` |
| `remigrateNoteVault`, `batchNotePayloads` | `Payloads`, `batchNotePayloads` (a recursive function over the notes) |
| `postMigrationBatch`, `isRetryableMigrationStatus` | `Store` when it is accepted, `Rejected` when not |
| `deleteAccountForm`, `exportAction`, leaving the page | `AccountDeletionView`, `Export`, `AccountLeaves` |
| another tab's save: decorator, then view | `SaveGate`, `SaveWrite` |
| sweep, another device | `SweepRow`, `ChangeElsewhere`, `AccountDeletedElsewhere` |

A request of the page is one step with its answer: what happens between the
server's part and the answer can touch the page in no way that happening just
after the answer could not. A save of a tab is two steps, since the decorator
compares the identity before the view writes. The note tabs are reduced to that
save; that a tab encrypts with the key of the identity it names is
`VaultTab`'s `KeyMatchesIdentity`.

`hole` is the proviso of `NothingStranded` and `CommitMarker`: the answer to the
rotation was lost (the page then takes the change for refused and drops its
plaintexts), the page was left while it held the only plaintext, or a save
slipped in that the page does not provide for (`Unforeseen`: let in under the
old key and stored under the new, or creating a row the page has already read
past, or a first index over rows that are not re-encrypted). The code permits
all of these; the properties say that there is no other way.

## Runs

| Run | Shows |
|---|---|
| `live_log` | types; the tail is what the snapshot lacks; nothing passes an uncommitted id; `prev_seq` chains; cursors miss nothing and compaction loses nothing (unless torn); LiveLog implements SerialLog |
| `live_log_torn_read` | violation: without the proviso a cursor skips pruned updates |
| `live_sync_http` | two polling clients, tail of one row, one fault: nothing accepted is lost, all edits reach both |
| `live_sync_retry` | one client with a socket, hidden and shown, any one fault: no edit is dropped unsaved, the client always listens, the edit arrives |
| `live_sync_ws` | two clients on sockets: types, sound cursors, nothing unsaved is left without anything to send it, the flush lock is always let go of |
| `live_sync_overlap` | violation: the 409 path lets two flushes overlap and drops an edit |
| `live_sync_mixed` | violation: an HTTP update never reaches a client with an open socket |
| `note_vault` | folders exist; an active note is never flagged for the sweep; rows hold text of their own document; a clean buffer is saved; an undisturbed load leaves index, rows and flags in agreement (each with its proviso) |
| `note_vault_blind_write` | violation: a page that is still loading writes over an index it cannot read |
| `pass_vault` | types; a locked page shows nothing, whatever is answered late; one save is sent at a time; an undisturbed page shows what is stored; a save never drops the key of a live share; expired shares go |
| `vault_tab` | types; every key held or stored is the one of its identity; no deadline outlasts the grant; an expired key is dropped though the network hangs |
| `password_change` | types; what is not under the current key is still held in the clear; an index under the current key vouches for every row; batches respect both limits for every list of up to four lengths; a change that was begun ends |

Bounds. `live_log`: two clients, two edits, ids up to 3, a tail of two rows (so
that it fills), two requests in service at once; three ids are enough for a
row to be compacted, one to be pending and one to be allocated. The `live_sync`
runs trade breadth: `http` has two clients and one fault, `retry` one client
and every fault, `ws` two sockets, two edits, expiry and rejection and no
faults. A tail of one row makes the 409/compaction path the common case.
`MaxFlushes` (2) bounds unsettled flushes of one client; the code reaches two
only through the overlap that a run of its own shows. `MaxTxn` bounds the
frames a client sends. `note_vault` has two notes (one opened or typed into
while another is saved; drift in both directions at once), one folder, two jobs
(a load that outlived its key beside the next one), two texts per document, one
lock per page (so that every action can be cut off by it, and the load repeated
after it), a quota of two and a sweep that takes one row at a time. The constraint
`Explored` keeps it within minutes: what is begun beside something else is explored for
typing during a save, saving during an opening, and opening during anything, there while
no folder exists, no key was lost and no sweep is at work; and once a key was lost the
buffer is empty and no sweep is at work. TLC has also been let run, without a lock,
over whatever `crossed` may hold until every property of the table has lost its
proviso: 71 million states, to a depth of 36, without a violation (not to the end). What
remains of these overlaps is the matter of the proofs, which have no bound. `pass_vault` has two
shares (one kept while the other changes), one tag, two handlers (a load or an
answer that outlives a lock beside the next one), two locks per page (so that a
key can be imported over another), and a sweep of one row at a time; once the order is disturbed the user starts nothing more
before the next load, since neither proviso-bound property says anything then and
the others do not depend on it. `vault_tab` has grants of one tick over three
ticks (granted, renewed, expired, granted again), two generations and three
sessions (signed in, out and in again, or past a password change).
`password_change` has two notes that need a batch each by length (limits of two
notes and two characters), an index and a blob that may be absent, one retry,
two generations and three sessions. Deadlock of the `live` runs is not checked:
edits are finite and the note may expire, so every instance comes to rest.

Fairness (`FairSpec`). Weak fairness for each thread of control: the poll loop,
the flush timer, the flush in progress, the compaction, the inbox, the socket,
the consumer, the channel layer. It says that timers fire, promises settle and
requests are answered, which a browser with a page open and a running server
give; failures are explicit faults and limited in number. Nothing is assumed of
users, of faults, of expiry, or of closing sockets. Liveness is stated as
"again and again everything is saved (arrived)", which, with finitely many
edits and acceptance never undone, is the same as "in the end".

`pass_vault` assumes that cron starts the sweep again and again and that a sweep
goes on; nothing is assumed of the page. `vault_tab` assumes the expiry timer
alone: the network may hang for ever. `password_change` assumes that the page's
requests settle one way or the other (`PageStep`); the user may leave, and every
answer may be a failure.

## Proofs

`LiveLogProofs` proves, for every set of clients and edits and every bound, from
the named assumptions on the constants alone:

- `LiveLogTypeOK`: the type invariant;
- `LiveLogInvariant`: the inductive invariant `IInv`;
- from it `TailAboveSnapshot`, `NothingPassesAnUncommittedId`, `PrevChain`,
  `CursorSound` and `AcceptedKept`, each as `Spec => []...`;
- `LiveLogRefinesSerialLog`: `Spec => ImplementsSerialLog`, that is, every step
  of the transactions is a step of the atomic log or leaves it alone.

The properties are not inductive by themselves. `IInv` adds what the code
relies on without saying so: the lock is held exactly by the one append that
has allocated an id (`LockInv`); every id a snapshot, row, cursor, read or
compaction works with is *settled*, below any id still uncommitted
(`SettledInv`) - this is what the row lock is for; the rows are the part of the
history above the snapshot (`TableInv`); what the lock holder has read is still
true (`HeldInv`); a read between its queries has the snapshot it read, or an
older one (`NoteInv`); and documents, snapshots, replies and compactions really
hold the history up to the id they claim (`ContentInv`). The proof has a lemma
per action. The pivotal steps are `PushCommitKeeps` (a row lands above
everything anyone knows), `PollReadRowsKeeps` (where a read is torn or
complete), `ReceiveKeeps` (`prev_seq <= cursor` means nothing was missed) and
`CompactCommitKeeps` (what is pruned is in the content).

The refinement is stated with a refinement mapping (`INSTANCE SerialLog WITH`
...): note, snapshot and tail are the committed ones of `LiveLog`; locks, ids
allocated and not committed, and reads under way have no counterpart.

`UpdateTableProofs` holds what both `LiveLogProofs` and `LiveSyncProofs` need of
the table: the newest id is the largest there is, and it is the only one
(`NewestIsLargest`, `NewestUnique`); a read answers with ids and edits that are there.

`LiveSyncProofs` proves, for every set of clients and edits, either kind of
transport and every bound:

- `LiveSyncInvariant`, and from it `LiveSyncTypeOK`, `LiveSyncAcceptedKept`,
  `LiveSyncCursorSound`, `LiveSyncOutboxKeepsUnsaved`, `LiveSyncUnsavedIsArmed`
  and `LiveSyncStaysTuned`;
- `LiveSyncRefinesSerialLog`: clients and sockets change the note by steps of
  `SerialLog` and by no others, so that `LiveLog`'s refinement and this one meet
  at the same atomic log.

The invariant states of each client what its closure must satisfy so that its next
callback does no harm, whatever the others did meanwhile. `Sound`: a document, and
also every poll, gap fill, push, ack and compaction under way, holds the log up to
the id it will be taken for. `TxnOK` and `OutboxOK`: an ack on its way is of the
last transaction or an earlier one, and what an answer will splice off the outbox
the server has by then; this is the part that two unanswered flushes break, and it
is asked for only while `overlap` is false. `Armed` and `Tuned`: what is unsaved
has something to send it, what runs has something to listen to. `KnownTo`: no
edit is made up. Of the server, `RowsInv`, `LogInv` and `NetInv` say that the tail
is what the snapshot lacks, is within its bound, and that a broadcast follows what
it claims to. An action runs several functions of the client in a row, and the
closure satisfies everything only at the end; so the functions have lemmas of
their own (`Fit` is the invariant without `Armed`, `Rests` a function that leaves
the document, the outbox and every answer alone), and `Later` says how the world
may have moved under the other clients. TLC checked the invariant on small
instances before it was proved.

`NoteVaultProofs` proves, for every set of notes, folders and jobs, and without an
assumption on what the user does:

- `IndexOperations`: each operation of vault-index.js, applied to a *closed*
  index (well-formed, every note in a folder there is or at the root), returns a
  closed one, whatever ids it is given;
- `VaultTypeOK` and `VaultFoldersStay`: the type invariant, and that no index,
  in the tab or on the server, names a folder it lacks.

`FoldersStay` speaks of two indexes, but an index also travels: in a request, in
a reply, and in the copy a failed commit goes back to. The inductive invariant
says that all of them are closed (`JobInv`), and that a job about to write or
adopt a row knows its id (`HasNote`). There is a lemma for each group of actions:
the server's (`ServeKeeps`), the load (`LoadKeeps`), the other replies
(`ContinueKeeps`), what the user starts (`UserKeeps`) and the rest.

And with the provisos of the table above, as theorems of the same `Spec`:

- `VaultRowHoldsItsNote`, `VaultCleanMeansSaved`: a row holds a text of its own
  note, and that of the open note is what a clean buffer shows;
- `VaultTextNeverOlder`: no save puts an older text of a note over a newer one
  (`TextNeverOlder`, an action property stated beside its proof);
- `VaultActiveNeverFlagged`: what the stored index shows outside Trash carries no
  deletion flag;
- `VaultUnreadableKept`: no step replaces an index this version cannot read until the
  user has begun a change before a load was through
  (`UnreadableKeptFromEarly`, stated beside its proof). The run
  `note_vault_blind_write` refutes `UnreadableKept` itself; the theorem says that the
  early change it finds is the only way there, however else changes cross;
- `VaultLoadSettles`: a load that nothing disturbed leaves a stored index that names
  exactly the rows there are, each with its flag.

The history only grows (`CrossedGrows`), so what a property excludes has been
excluded all along, and each invariant is kept by the steps that do not cross it.
All rest on the first invariant and on which awaits each kind of job can be at
(`Stands`). The three about texts hold beside any number of other jobs. `SaveInv`: one
save at a time (`OneSave`), and no id is given out twice (`IdsInv`). `OwnInv`: the buffer,
a save and an opened note carry a text of the note they are for. `NewInv`: the buffer is no
older than its row, nor is what a save is about to write. `CleanInv`: a save about to
mark the buffer clean has stored what it shows. Each is asked for only while the history
has not what breaks it (`BufferInv`). What a step can do to buffer, rows and jobs is
said once, in `BufferStep`. For the others `PhaseInv` says that what writes has a
loaded vault and nothing but openings beside it (`Alone`), and that an
initialization has a vault that is not loaded. `FlagInv` says of every index
that counts (the one shown, the one stored, the one a failed commit goes back to,
those on their way) that no flagged row is active in it (`Vouched`), and, until a
load is through, that what they have in Trash is flagged or about to be, because
the stored index has it there too. The actions are dealt with by what they do to a job and to the
rows (`Served`, `LoadStep`, `ContinueStep`, `UserStep` and the lemmas `ServeEffect`, ...), once for
all of them. For `VaultUnreadableKept` it is enough that no job that writes was begun before
the first load was through (`LoadedFirst`), and that only a readable index is ever on
its way to the server (`UnreadableInv`).

The last needs most, since a load that ends without a request of its own has to have
been right all along. `CalmInv` follows it from request to request: it is alone and
may write, what it has been told is still true, the rows the index lacks are those it
has yet to ask for, an index that differs from the stored one will be saved, and
before the flags are cleared all of Trash has been flagged. Three smaller invariants
support it. `UnsavedInv`: until an index is saved no row is flagged. `KeyInv`: at most
one load has the key the tab holds, so an earlier load that a lock overtook cannot
touch the index. `FirstInv`: while no index is saved, the one in the tab, which an
overtaken load may have left half filled, lacks a row, so that the next load has
something to save. Were it otherwise, a load could find every row in the index its
forerunner had left and end with nothing on the server. It is so because a load that
has added its last row goes straight on to save, and counts as done even if that
fails.

`PassVaultProofs` proves all but the liveness of `PassVault`, for every set of
shares, tags and handlers and every bound: `PassTypeOK`, `PassLockedShowsNothing`,
`PassOneSaveAtATime`, `PassQuietMeansStored` and, as an action property,
`PassKeysOfLiveSharesKept`. The invariant says what each handler is at its await
(`HandlerInv`: a save of the present epoch means an unlocked page, a revocation
answered means the row is gone), that `isPersisting` is the one save there is
(`SaveInv`), that what is listed was created (`MadeInv`), and, for an undisturbed
page, in which order things can be (`OrderInv`: nothing beside a load; one change
at a time once there is a list), what is shown against what is stored while a save
is unanswered, stored or refused (`QuietInv`), and that a save under way drops
nothing but what is gone (`KeepInv`). The proof was of use to the model: it failed
at the import of a second key, after a lock during an import, which leaves the
list of the first in place. `KeyImported` says so now, and the bound on locks
is large enough for TLC to go there.
Three action properties are about the rows beside the page. `PassRowsGoForward`: an
id is used once, an expired row is never live again, a deleted one never back.
`PassSweepSparesTheLive`: no step of a sweep, which goes by a cutoff from its start and
runs in batches beside everything else, takes a share that can still be opened.
`PassSweepNearsItsEnd`: a sweep is after finitely many rows and each of its steps
leaves fewer, since what expires meanwhile waits for the next one. What the run adds
for `ExpiredSharesGo` is the fairness of the sweep.

`AccountSessionProofs` states what each step of the session keeps (`SessionOK`: a
session is of a password there has been and is granted no longer than allowed;
`Longer`: no step shortens an access that a tab may count on, other than by
ending the session or changing the password). `VaultTabProofs` uses it to prove
`TabTypeOK`, `TabKeyMatchesIdentity` and `TabDeadlineSound` for every timeout and
bound. Neither property is about the answers on their way, and both depend on them:
`CallOK` says that an answer tells of access the server granted at a time between
the request and now, so that a deadline worked out from it, however late, is within
the grant; `TabOK` says of the tab, its two stores and the key handed over by the
sign-in page that each key stands under the identity it opens.
`TabKeyIsWatched` is the safety half of `ExpiredKeyGoes`: a
tab that holds a key is unlocked and has its timer set, whatever answers were late
or lost. What makes it
inductive is that a tab whose `obtainKey` is under way holds no key (`Watched`);
otherwise an answer could stop the timer of a key that is there to stay.

`PasswordChangeProofs` proves, for every number and length of notes, every limit
and every number of retries:

- `BatchesHoldRows` and `PayloadsHold`: the batches hold each row that is to be
  re-encrypted, and no other; there is at least one; the index is in the last, and what
  is sent in all is what the page holds but the blob, and nothing else. The
  recursive function behind them is shown to exist, and the statement to hold of
  every prefix of the notes, by the least counterexample;
- `BatchesOfAnyNotesFit`, and from it `ChangeBatchesFit`: for every list of notes,
  of whatever lengths, each is sent once and in order; a batch is within both limits
  unless a single note exceeds one; and a batch is begun only for a note the one
  before could not take. `BatchesFit` compares with sums and concatenations that are
  folds over sequences. The folds are shown to be the functions with the equations
  one expects (`SumsExist`, `FlattenedExist`), so that what one more note changes can
  be said (`CharsAdded`, `FlattenAdded`), and `Splits` is then shown of every prefix
  of the notes, the running count of the code being the sum of its last batch;
- `ChangeTypeOK`, `ChangeNothingStranded` and `ChangeCommitMarker`, from
  `ChangeInvariant`: nothing is of a generation still to come (`GenInv`); up to the
  rotation what has been read is held as it is stored (`ReadInv`); what is under a
  key that is gone is held, and is still to be sent (`HeldInv`); a save of the
  index that was let in comes upon the index it was let in for (`WriteInv`);
- `ChangeSuccessMeansAll`: a page that reports success has left nothing under the
  old key, unless one of the named ways out was taken;
- `ChangeNearsItsEnd`: each step of a change, retries and lost answers included,
  makes a measure smaller (the phase, what is left to read or send, the retries
  left), lexicographically. It is why the change ends; what `ChangeEnds` adds is
  that its steps are taken.

Only model-checked: liveness (`EditsReachServer`, `EditsReachPeers`,
`ExpiredSharesGo`, `ExpiredKeyGoes`, `ChangeEnds`), which is beyond the prover. For the last
three the part that is not about fairness is proved: the measure of the change, that
of the sweep and the timer of the tab.

## Findings

1. *Torn read.* models.py:206 promises that a cursor older than `snapshot_seq`
   is how a client has missed pruned history. A read that fetches the note,
   then (after a compaction) its rows, hands out a cursor that is not older and
   has missed it. Run `live_log_torn_read`.
2. *Overlapping flushes.* live-sync.js:457 lets go of `flushInFlight` before it
   awaits the compaction; the `finally` block of its caller then clears the flag
   of whoever took it. Two answers splice the same outbox. Run
   `live_sync_overlap`.
3. *Mixed transports.* consumers.py:4 promises that socket and polling clients
   interoperate; updates stored over HTTP are not broadcast, and a client with
   an open socket does not poll. Run `live_sync_mixed`.
4. *Blind write.* vault-index.js:61 says an unsupported index must never be
   silently rewritten, and vault.js:1078 that writes are suspended to that end;
   they are suspended only once the index has been fetched. A folder made
   before that overwrites it. Run `note_vault_blind_write`.

## Further observations

Behaviour met while modelling that contradicts no document, kept here for whoever
changes the code. The models contain it; the provisos above name it.

- passwd/js/vault.js:497: a change made while a save is under way reports success
  and is stored only with the next save; 554: a failed save rolls back later
  changes as well; 945: the page takes input before its list is loaded.
- passwd/js/vault.js:943: a key imported after the page was locked again leaves a
  locked page that holds a key.
- passwd/js/vault.js:594: a share created whose blob cannot be saved stays on the
  server with nobody knowing its key. A share created just after the session
  expired is anonymous, and revoking it is a no-op that reports success.
- account.js:405: when the answer to the rotation is lost the page drops its
  plaintexts, although the server may have accepted it.
- auth/utils.py:119 and the views behind it: a save let in before a rotation is
  stored after it. services.py:716: a row deleted meanwhile is put back.
- services.py:836: a note deleted or swept between recovery and migration makes
  its batch fail, and the index is then never sent.
- consumers.py:84-87: the comment says every connect refreshes the counter's time
  to live; it is set when the counter is created.

## Not modelled

- Cryptography: ciphertext is opaque, a key is the generation it is derived from.
- Admission control of the consumer (token bucket, abuse streak, socket counter):
  arithmetic over a clock and a cache that only decides who is refused; a refusal
  is in the model.
- `live-binding.js`, `live-presence.js`: a text splice and a list of peers that
  expire; neither changes what is stored.
- Signing up, forms and their messages, salts and decoy answers, rate limits
  outside the consumer (a throttled request is one that fails).
- Editor, markdown, toolbar, menus, clipboard, notifications, hosts and
  middleware, deployment: DOM and text transformation, or stateless.
- One-time notes: created, opened, expired and swept by the same statements as
  the password shares of `ShareTable`; access counters, on which nothing depends.
- Two tabs over one vault, in `NoteVault` and `PassVault`: the last writer of a
  blob wins, and the quota is counted without a lock. Listed as hazards without a
  property.
