--------------------------- MODULE PasswordChange ---------------------------
(***************************************************************************)
(* A password change with the re-encryption of both vaults, by an account  *)
(* page (static/auth/js/account.js, vault-migration.js, PasswordChangeView *)
(* and VaultMigrateView), beside the note tabs, which go on saving, and    *)
(* the sweep of trashed notes.                                             *)
(*                                                                         *)
(* Of a ciphertext only its generation is kept.  A request of the page is  *)
(* one step, its answer included; a save of a tab is let in in one step    *)
(* and stored in a later one.  The page's plaintexts are the set of items  *)
(* it has decrypted.                                                       *)
(***************************************************************************)
EXTENDS AccountSession, Sequences, SequencesExt

CONSTANTS
    Size,           \* the rows in the order they are listed: their lengths
    BATCH_MAX_NOTES,
    BATCH_MAX_CHARS,
    RETRY_DELAYS    \* Len(RETRY_DELAYS_MS)

ASSUME ChangeAssumption ==
    /\ Size \in Seq(Nat \ {0})
    /\ {BATCH_MAX_NOTES, BATCH_MAX_CHARS, RETRY_DELAYS} \subseteq Nat \ {0}

VARIABLES
    key,    \* [Items -> Gens]: the generation each item is stored under, 0 for no item
    write,  \* a tab's save that was let in and is not stored yet: [item, key, new] or none
    page,   \* the account page
    hole    \* history: something happened that the page does not provide for

vars == <<now, cred, session, key, write, page, hole>>

Rows == DOMAIN Size
Index == Len(Size) + 1
Blob == Len(Size) + 2
Items == Rows \cup {Index, Blob}

NoWrite == [item |-> 0, key |-> 0, new |-> FALSE]

\* The account page as it loads, with the salts of the current generation.
Loaded == [pc |-> "form", gen |-> cred, plain |-> {}, copy |-> {}, todo |-> <<>>, tries |-> 0]
Idle == {"form", "done"}

\* submitWithBusy: one submit of the form at a time.
MaySubmit == page.pc \in Idle

\* The secret derived with the page's salts is the account's.
CurrentSecret == page.gen = cred

\* The key of the password the page knows opens every item that is there.
Readable(items) == \A i \in items : key[i] \in {0, page.gen}

\* Items the page would not notice if they appeared now, before the rotation.
AlreadyRead ==
    CASE page.pc = "index" -> {Blob}
      [] page.pc = "rows" -> {Blob, Index}
      [] page.pc = "rotate" -> Items
      [] OTHER -> {}

Stranded(i) == key[i] \notin {0, cred}

-----------------------------------------------------------------------------
\* Batches

Chars(batch) == FoldLeft(LAMBDA sum, item : sum + item.length, 0, batch)

\* The batches so far, and the characters counted in the last one.
NoNotes == [list |-> << <<>> >>, chars |-> 0]

Overflows(split, item) ==
    \/ Len(Last(split.list)) >= BATCH_MAX_NOTES
    \/ Len(Last(split.list)) > 0 /\ split.chars + item.length > BATCH_MAX_CHARS

\* Mutant: the characters are counted on into the new batch.
Packed_NoReset(split, item) ==
    [list |-> IF Overflows(split, item) THEN Append(split.list, <<item>>)
              ELSE [split.list EXCEPT ![Len(split.list)] = Append(@, item)],
     chars |-> split.chars + item.length]

Packed(split, item) ==
    IF Overflows(split, item)
    THEN [list |-> Append(split.list, <<item>>), chars |-> item.length]
    ELSE [list |-> [split.list EXCEPT ![Len(split.list)] = Append(@, item)],
          chars |-> split.chars + item.length]

\* The items of the rows, in the order they are listed.  There is always at least
\* one batch, for the index to travel in.
batchNotePayloads(items, rows) ==
    LET split[n \in 0 .. Len(items)] ==
            IF n = 0 THEN NoNotes
            ELSE IF n \in rows THEN Packed(split[n - 1], items[n])
            ELSE split[n - 1]
    IN split[Len(items)].list

\* What is sent of each row.
Payload(lengths) == [i \in DOMAIN lengths |-> [id |-> i, length |-> lengths[i]]]

\* The rows of each batch.
RowBatches(rows) ==
    LET batches == batchNotePayloads(Payload(Size), rows)
    IN [b \in DOMAIN batches |-> {item.id : item \in Range(batches[b])}]

\* Mutant: the index goes out with the first batch.
Payloads_IndexFirst(plain) ==
    LET batches == RowBatches(plain \cap Rows)
    IN IF plain \subseteq {Blob} THEN <<>>
       ELSE [batches EXCEPT ![1] = @ \cup (plain \cap {Index})]

\* The requests of remigrateNoteVault: the index, the commit marker, goes out
\* with the last batch, and with nothing to send there is none.
Payloads(plain) ==
    LET batches == RowBatches(plain \cap Rows)
    IN IF plain \subseteq {Blob} THEN <<>>
       ELSE [batches EXCEPT ![Len(batches)] = @ \cup (plain \cap {Index})]

-----------------------------------------------------------------------------
\* Before the rotation: any failure leaves the account as it was

\* The submit is over, and its plaintexts are gone.
Aborted == [page EXCEPT !.pc = "form", !.plain = {}]

\* ReauthView for both tools, with the password the page was loaded under; the
\* answer may be lost.
Preflight ==
    /\ MaySubmit
    /\ \/ /\ CurrentSecret /\ ReauthView(Tools)
          /\ \E pc \in {"blob", "form"} : page' = [page EXCEPT !.pc = pc]
       \/ Request /\ page' = [page EXCEPT !.pc = "form"]
    /\ UNCHANGED <<key, write, hole>>

\* Mutant: a read that fails counts as one that found nothing.
readVaultJson_Null(tool, items, next) ==
    \/ /\ Gate(tool, page.gen) = "ok" /\ Readable(items)
       /\ page' = [page EXCEPT !.pc = next, !.plain = @ \cup {i \in items : key[i] # 0}]
    \/ page' = [page EXCEPT !.pc = next]

\* One read, with the decryption of what it brings; the answer may be lost.
readVaultJson(tool, items, next) ==
    \/ /\ Gate(tool, page.gen) = "ok" /\ Readable(items)
       /\ page' = [page EXCEPT !.pc = next, !.plain = @ \cup {i \in items : key[i] # 0}]
    \/ page' = Aborted

recoverCurrentVaultData == page.pc = "blob" /\ readVaultJson("pass", {Blob}, "index")

recoverCurrentNoteVault ==
    \/ page.pc = "index" /\ readVaultJson("note", {Index}, "rows")
    \/ page.pc = "rows" /\ readVaultJson("note", Rows, "rotate")

recoverVaultBeforeChange ==
    /\ recoverCurrentVaultData \/ recoverCurrentNoteVault
    /\ Request
    /\ UNCHANGED <<key, write, hole>>

-----------------------------------------------------------------------------
\* The rotation

\* With its answer the browser loses the cookie of the new session, and the page
\* takes the change for refused and drops its plaintexts.
Rotated ==
    /\ CurrentSecret
    /\ \/ /\ ChangePassword
          /\ page' = [page EXCEPT !.pc = "save", !.gen = cred + 1]
          /\ UNCHANGED hole
       \/ /\ Authenticated /\ cred < MaxCred
          /\ cred' = cred + 1
          /\ session' = NoSession(session.sid)
          /\ page' = Aborted
          /\ hole' = TRUE
          /\ UNCHANGED now
    /\ UNCHANGED <<key, write>>

Refused == Request /\ page' = Aborted /\ UNCHANGED <<key, write, hole>>

PasswordChangeView == page.pc = "rotate" /\ (Rotated \/ Refused)

-----------------------------------------------------------------------------
\* After the rotation: only forward

\* The recovery copy is offered for download.
Failed == [page EXCEPT !.pc = "form", !.copy = page.plain, !.plain = {}, !.todo = <<>>]
Succeeded == [page EXCEPT !.pc = "done", !.copy = {}, !.plain = {}, !.todo = <<>>]

StartBatches == [page EXCEPT !.pc = "batch", !.todo = Payloads(page.plain), !.tries = 0]

\* The page's save of items: stored or not, answered or not.
Store(tool, items, next) ==
    /\ session' = Flushed
    /\ \/ /\ Gate(tool, page.gen) = "ok"
          /\ key' = [i \in Items |-> IF i \in items THEN page.gen ELSE key[i]]
          /\ page' \in {next, Failed}
       \/ /\ page' = Failed
          /\ UNCHANGED key

resecureVaultAfterChange ==
    /\ page.pc = "save"
    /\ \/ Blob \in page.plain /\ Store("pass", {Blob}, StartBatches)
       \/ /\ Blob \notin page.plain
          /\ page' = StartBatches
          /\ UNCHANGED <<session, key>>
    /\ UNCHANGED <<now, cred, write, hole>>

isRetryableMigrationStatus(status) == status = "429"

\* Mutant: once more than there are delays.
Rejected_OneMore(status) ==
    IF isRetryableMigrationStatus(status) /\ page.tries <= RETRY_DELAYS
    THEN [page EXCEPT !.tries = @ + 1] ELSE Failed

\* Mutant: the delays start over.
Rejected_Again(status) ==
    IF isRetryableMigrationStatus(status)
    THEN [page EXCEPT !.tries = IF @ < RETRY_DELAYS THEN @ + 1 ELSE 0] ELSE Failed

\* postMigrationBatch, when the batch was not accepted.
Rejected(status) ==
    IF isRetryableMigrationStatus(status) /\ page.tries < RETRY_DELAYS
    THEN [page EXCEPT !.tries = @ + 1] ELSE Failed

\* VaultMigrateView and migrate_vault_data: all rows of the batch must exist.
postMigrationBatch ==
    /\ page.pc = "batch" /\ page.todo # <<>>
    /\ \/ /\ \A i \in Head(page.todo) \cap Rows : key[i] # 0
          /\ Store("note", Head(page.todo), [page EXCEPT !.todo = Tail(@), !.tries = 0])
       \/ /\ \E status \in {"429", "500"} : page' = Rejected(status)
          /\ session' \in {session, Flushed}
          /\ UNCHANGED key
    /\ UNCHANGED <<now, cred, write, hole>>

Finish ==
    /\ page.pc = "batch" /\ page.todo = <<>>
    /\ page' = Succeeded
    /\ UNCHANGED <<now, cred, session, key, write, hole>>

\* The form for deleting the account, with the password the page was loaded under;
\* its own button is all that is kept from being pressed twice.
AccountDeletionView ==
    /\ \/ /\ CurrentSecret /\ DeleteAccount
          /\ key' = [i \in Items |-> 0]
       \/ Request /\ UNCHANGED key
    /\ UNCHANGED <<write, page, hole>>

\* The export needs both grants, and its prompt renews both.
Export ==
    /\ \E tool \in Tools : ~Unlocked(tool)
    /\ ReauthView(Tools)
    /\ UNCHANGED <<key, write, page, hole>>

\* The page is left or reloaded, and its plaintexts go with it.
AccountLeaves ==
    /\ page.pc # "form" \/ page.copy # {} \/ page.gen # cred
    /\ page' = Loaded
    /\ hole' = (hole \/ \E i \in page.plain \cup page.copy : Stranded(i))
    /\ UNCHANGED <<now, cred, session, key, write>>

-----------------------------------------------------------------------------
\* Meanwhile

\* A note tab, with a vault it could open, saves, and require_tool_auth_api lets it
\* in: it holds the key of the identity it names (VaultTab!KeyMatchesIdentity), and
\* that is the current one.
SaveGate ==
    /\ write = NoWrite
    /\ Gate("note", cred) = "ok"
    /\ \E i \in Rows \cup {Index} :
        /\ {key[Index], key[i]} \subseteq {0, cred}
        /\ write' = [item |-> i, key |-> cred, new |-> key[i] = 0]
    /\ UNCHANGED <<now, cred, session, key, page, hole>>

\* A write the account page does not provide for: under a key that is gone, of an
\* item it takes for absent, or of a first index over rows under another key.
Unforeseen(w) ==
    \/ w.key # cred
    \/ key[w.item] = 0 /\ w.item \in AlreadyRead
    \/ key[w.item] = 0 /\ w.item = Index /\ \E i \in Rows : Stranded(i)

\* The view stores what was let in, whatever the account's password is by now.  A
\* row that has been deleted meanwhile is not found, or put back by save() if it
\* had been read; what belongs to no account cannot be stored.
SaveWrite ==
    /\ write # NoWrite
    /\ \/ /\ cred # 0
          /\ key' = [key EXCEPT ![write.item] = write.key]
          /\ hole' = (hole \/ Unforeseen(write))
       \/ /\ cred = 0 \/ (~write.new /\ write.item # Index /\ key[write.item] = 0)
          /\ UNCHANGED <<key, hole>>
    /\ write' = NoWrite
    /\ UNCHANGED <<now, cred, session, page>>

\* The sweep of trashed notes deletes a row.
SweepRow ==
    /\ \E i \in Rows :
        /\ key[i] # 0
        /\ key' = [key EXCEPT ![i] = 0]
    /\ UNCHANGED <<now, cred, session, write, page, hole>>

\* Another device changes the password, and re-encrypts everything it can open.
ChangeElsewhere ==
    /\ RotateElsewhere
    /\ \A i \in Items : ~Stranded(i)
    /\ key' = [i \in Items |-> IF key[i] = 0 THEN 0 ELSE cred + 1]
    /\ UNCHANGED <<write, page, hole>>

AccountDeletedElsewhere ==
    /\ DeleteElsewhere
    /\ key' = [i \in Items |-> 0]
    /\ UNCHANGED <<write, page, hole>>

-----------------------------------------------------------------------------

Init ==
    /\ SessionInit
    /\ key \in {k \in [Items -> {0, 1}] : \A i \in Rows : k[i] = 1}
    /\ write = NoWrite
    /\ page = Loaded
    /\ hole = FALSE

PageStep ==
    \/ recoverVaultBeforeChange \/ PasswordChangeView
    \/ resecureVaultAfterChange \/ postMigrationBatch \/ Finish

\* The account session, as the browser's other tabs use it.
Session ==
    \/ Tick \/ SignIn \/ SignOut \/ RenewNoteAccess
    \/ \E tool \in Tools : ReauthView({tool})

Next ==
    \/ Session /\ UNCHANGED <<key, write, page, hole>>
    \/ Preflight \/ PageStep \/ AccountDeletionView \/ Export \/ AccountLeaves
    \/ SaveGate \/ SaveWrite \/ SweepRow \/ ChangeElsewhere \/ AccountDeletedElsewhere

Spec == Init /\ [][Next]_vars /\ WF_vars(PageStep)

-----------------------------------------------------------------------------

Pages == [pc : Idle \cup {"blob", "index", "rows", "rotate", "save", "batch"}, gen : Gens,
          plain : SUBSET Items, copy : SUBSET Items, todo : Seq(SUBSET Items),
          tries : 0 .. RETRY_DELAYS]

TypeOK ==
    /\ SessionTypeOK
    /\ key \in [Items -> Gens]
    /\ write \in [item : {0} \cup Items, key : Gens, new : BOOLEAN]
    /\ page \in Pages
    /\ hole \in BOOLEAN

\* Nothing is left under a key nobody has any more: what is not under the current
\* key, the account page still holds in the clear, unless the answer to the
\* rotation was lost, the page was left too early, or another tab's save slipped
\* past it; and of a deleted account nothing is left (account.js:203-208, 373-376,
\* 414-427; services.py:172-185).
NothingStranded ==
    hole \/ \A i \in Items : Stranded(i) => i \in page.plain \cup page.copy

\* An index under the current key vouches for every row, at every moment of a
\* migration in batches, unless (hole) the answer to the rotation was lost, the page was
\* left too early, or another tab's save slipped past it (account.js:157-160;
\* services.py:822-826).
CommitMarker ==
    hole \/ (key[Index] = cred => \A i \in Rows : ~Stranded(i))

Fit(items, batches) ==
    /\ FlattenSeq(batches) = items
    /\ \A b \in DOMAIN batches :
        /\ Len(batches[b]) <= BATCH_MAX_NOTES
        /\ Chars(batches[b]) > BATCH_MAX_CHARS => Len(batches[b]) = 1
        /\ b > 1 => \/ Len(batches[b - 1]) = BATCH_MAX_NOTES
                    \/ Chars(batches[b - 1]) + batches[b][1].length > BATCH_MAX_CHARS

AnyLengthsFit ==
    \A n \in 0 .. 4 : \A lengths \in [1 .. n -> 1 .. BATCH_MAX_CHARS + 1] :
        Fit(Payload(lengths), batchNotePayloads(Payload(lengths), 1 .. n))

\* Whatever their lengths, the notes go out once each and in order, in batches
\* within both limits but for a note that alone exceeds one, and no batch could
\* have taken the next one's first note (vault-migration.js:34-65).
BatchesFit == page.pc = "rotate" => AnyLengthsFit

\* A password change that was begun comes to an end, however its requests fare
\* and however often it is throttled (account.js:137-155).
ChangeEnds == page.pc \notin Idle ~> page.pc \in Idle
=============================================================================
