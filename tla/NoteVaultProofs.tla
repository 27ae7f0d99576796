-------------------------- MODULE NoteVaultProofs ---------------------------
(***************************************************************************)
(* NoteVault, proved for every set of notes, folders and jobs, the user    *)
(* acting at any moment: its type invariant, that no index names a folder  *)
(* it does not have, that a row holds its own note's text and never goes   *)
(* back to an older one, that a buffer which counts as saved is, that no   *)
(* note the index shows as active is flagged for the sweep, that no step   *)
(* replaces an index this version cannot read, and that an undisturbed     *)
(* load leaves index and rows in agreement; all but the first two until    *)
(* the user has begun, beside something still under way, what the property *)
(* names as able to break it (crossed).                                    *)
(***************************************************************************)
EXTENDS NoteVault, TLAPS

\* The indexes that are closed: well-formed, every note in a folder there is.
Closed == {ix \in VaultIndexData : FoldersExist(ix)}

-----------------------------------------------------------------------------
(* The operations of the index keep it closed. *)

\* The partial functions from D to R, by their domain and values.
LEMMA PartialFunctions ==
    ASSUME NEW D, NEW R, NEW f
    PROVE  f \in UNION {[S -> R] : S \in SUBSET D}
               <=> /\ f = [x \in DOMAIN f |-> f[x]]
                   /\ DOMAIN f \subseteq D
                   /\ \A x \in DOMAIN f : f[x] \in R
<1>1. ASSUME f \in UNION {[S -> R] : S \in SUBSET D}
      PROVE  /\ f = [x \in DOMAIN f |-> f[x]]
             /\ DOMAIN f \subseteq D
             /\ \A x \in DOMAIN f : f[x] \in R
  <2>1. PICK S \in SUBSET D : f \in [S -> R]
    BY <1>1
  <2> QED
    BY <2>1
<1>2. ASSUME f = [x \in DOMAIN f |-> f[x]],
             DOMAIN f \subseteq D,
             \A x \in DOMAIN f : f[x] \in R
      PROVE  f \in UNION {[S -> R] : S \in SUBSET D}
  <2>1. f \in [DOMAIN f -> R]
    BY <1>2
  <2> QED
    BY <1>2, <2>1
<1> QED
  BY <1>1, <1>2

\* What it is to be closed, said of the two fields.
LEMMA ClosedFields ==
    ASSUME NEW F, NEW m,
           F \subseteq Folders,
           m = [n \in DOMAIN m |-> m[n]],
           DOMAIN m \subseteq Notes,
           \A n \in DOMAIN m : m[n] \in Entry /\ m[n].folder \in F \cup {Root}
    PROVE  [folders |-> F, notes |-> m] \in Closed
<1>1. m \in UNION {[S -> Entry] : S \in SUBSET Notes}
  BY PartialFunctions
<1> QED
  BY <1>1 DEF Closed, VaultIndexData, FoldersExist

\* ... and the other way round.
LEMMA FieldsClosed ==
    ASSUME NEW ix \in Closed
    PROVE  /\ ix = [folders |-> ix.folders, notes |-> ix.notes]
           /\ ix.folders \subseteq Folders
           /\ ix.notes = [n \in DOMAIN ix.notes |-> ix.notes[n]]
           /\ DOMAIN ix.notes \subseteq Notes
           /\ \A n \in DOMAIN ix.notes : /\ ix.notes[n] \in Entry
                                         /\ ix.notes[n].folder \in ix.folders \cup {Root}
<1>1. ix \in VaultIndexData /\ FoldersExist(ix)
  BY DEF Closed
<1>2. ix.notes \in UNION {[S -> Entry] : S \in SUBSET Notes}
  BY <1>1 DEF VaultIndexData
<1> HIDE DEF FoldersExist
<1>3. /\ ix.notes = [n \in DOMAIN ix.notes |-> ix.notes[n]]
      /\ DOMAIN ix.notes \subseteq Notes
      /\ \A n \in DOMAIN ix.notes : ix.notes[n] \in Entry
  BY <1>2, PartialFunctions
<1>4. ix = [folders |-> ix.folders, notes |-> ix.notes] /\ ix.folders \subseteq Folders
  BY <1>1 DEF VaultIndexData
<1> QED
  BY <1>1, <1>3, <1>4 DEF FoldersExist

\* The operations of vault-index.js, one by one.
LEMMA IndexOperations ==
    ASSUME NEW ix \in Closed, NEW n, NEW f, NEW t \in BOOLEAN, NEW R
    PROVE  /\ createEmpty \in Closed
           /\ f \in Folders => addFolder(ix, f) \in Closed
           /\ deleteFolder(ix, f) \in Closed
           /\ n \in Notes => addNote(ix, n, t) \in Closed
           /\ moveNote(ix, n, f) \in Closed
           /\ trashNote(ix, n) \in Closed
           /\ restoreNote(ix, n) \in Closed
           /\ removeNote(ix, n) \in Closed
           /\ reconcile(ix, R) \in Closed
<1> DEFINE F == ix.folders
           M == ix.notes
           D == DOMAIN M
<1>ix. /\ ix = [folders |-> F, notes |-> M]
       /\ F \subseteq Folders
       /\ M = [k \in D |-> M[k]]
       /\ D \subseteq Notes
       /\ \A k \in D : M[k] \in Entry /\ M[k].folder \in F \cup {Root}
  BY FieldsClosed
<1>eq. ix = [folders |-> F, notes |-> M]
  BY <1>ix
<1>up. ASSUME NEW m
       PROVE  [ix EXCEPT !.notes = m] = [folders |-> F, notes |-> m]
  <2> HIDE DEF F, M
  <2> QED
    BY <1>eq
<1> HIDE DEF F, M
<1>1. createEmpty \in Closed
  <2> DEFINE m == [x \in {} |-> Root]
  <2>1. DOMAIN m = {} /\ m = [x \in DOMAIN m |-> m[x]]
    OBVIOUS
  <2> HIDE DEF m
  <2>2. [folders |-> {}, notes |-> m] \in Closed
    BY <2>1, ClosedFields
  <2> QED
    BY <2>2 DEF createEmpty, m
<1>2. ASSUME f \in Folders PROVE addFolder(ix, f) \in Closed
  <2>1. [folders |-> F \cup {f}, notes |-> M] \in Closed
    BY <1>2, <1>ix, ClosedFields
  <2>2. addFolder(ix, f) = [folders |-> F \cup {f}, notes |-> M]
    BY <1>eq DEF addFolder
  <2> QED
    BY <2>1, <2>2
<1>3. deleteFolder(ix, f) \in Closed
  <2> DEFINE out == [folder |-> Root, trashed |-> TRUE]
             m == [k \in D |-> IF k \in {h \in D : M[h].folder = f} THEN out ELSE M[k]]
  <2>1. deleteFolder(ix, f) = [folders |-> F \ {f}, notes |-> m]
    <3>1. deleteFolder(ix, f) = [[ix EXCEPT !.notes = m] EXCEPT !.folders = @ \ {f}]
      BY DEF deleteFolder, EditNotes, M
    <3> HIDE DEF m
    <3>2. [[folders |-> F, notes |-> m] EXCEPT !.folders = @ \ {f}] = [folders |-> F \ {f}, notes |-> m]
      OBVIOUS
    <3> QED
      BY <3>1, <3>2, <1>up
  <2>2. DOMAIN m = D /\ m = [k \in DOMAIN m |-> m[k]]
    OBVIOUS
  <2>3. \A k \in D : m[k] \in Entry /\ m[k].folder \in (F \ {f}) \cup {Root}
    <3> TAKE k \in D
    <3>1. CASE M[k].folder = f
      BY <3>1 DEF Entry
    <3>2. CASE M[k].folder # f
      BY <3>2, <1>ix
    <3> QED
      BY <3>1, <3>2
  <2> HIDE DEF m
  <2> QED
    BY <1>ix, <2>1, <2>2, <2>3, ClosedFields
<1>4. ASSUME n \in Notes PROVE addNote(ix, n, t) \in Closed
  <2> DEFINE new == [folder |-> Root, trashed |-> t]
             m == [k \in D \cup {n} |-> IF k = n THEN new ELSE M[k]]
  <2>1. addNote(ix, n, t) = [folders |-> F, notes |-> m]
    BY <1>eq DEF addNote
  <2>2. DOMAIN m = D \cup {n} /\ m = [k \in DOMAIN m |-> m[k]]
    OBVIOUS
  <2>3. \A k \in D \cup {n} : m[k] \in Entry /\ m[k].folder \in F \cup {Root}
    <3> TAKE k \in D \cup {n}
    <3>1. CASE k = n
      BY <3>1 DEF Entry
    <3>2. CASE k # n
      BY <3>2, <1>ix
    <3> QED
      BY <3>1, <3>2
  <2> HIDE DEF m
  <2> QED
    BY <1>ix, <1>4, <2>1, <2>2, <2>3, ClosedFields
<1>5. moveNote(ix, n, f) \in Closed
  <2> DEFINE to == folderOrRoot(ix, f)
             m == [k \in D |-> IF k \in {n} THEN [M[k] EXCEPT !.folder = to] ELSE M[k]]
  <2>0. to \in F \cup {Root}
    BY DEF folderOrRoot, F
  <2> HIDE DEF to
  <2>1. moveNote(ix, n, f) = [folders |-> F, notes |-> m]
    <3>1. moveNote(ix, n, f) = [ix EXCEPT !.notes = m]
      BY DEF moveNote, EditNotes, M, to
    <3> HIDE DEF m
    <3> QED
      BY <3>1, <1>up
  <2>2. DOMAIN m = D /\ m = [k \in DOMAIN m |-> m[k]]
    OBVIOUS
  <2>3. \A k \in D : m[k] \in Entry /\ m[k].folder \in F \cup {Root}
    <3> TAKE k \in D
    <3>1. CASE k = n
      BY <3>1, <2>0, <1>ix DEF Entry
    <3>2. CASE k # n
      BY <3>2, <1>ix
    <3> QED
      BY <3>1, <3>2
  <2> HIDE DEF m
  <2> QED
    BY <1>ix, <2>1, <2>2, <2>3, ClosedFields
<1>6. trashNote(ix, n) \in Closed
  <2> DEFINE m == [k \in D |-> IF k \in {n} THEN [M[k] EXCEPT !.trashed = TRUE] ELSE M[k]]
  <2>1. trashNote(ix, n) = [folders |-> F, notes |-> m]
    <3>1. trashNote(ix, n) = [ix EXCEPT !.notes = m]
      BY DEF trashNote, EditNotes, M
    <3> HIDE DEF m
    <3> QED
      BY <3>1, <1>up
  <2>2. DOMAIN m = D /\ m = [k \in DOMAIN m |-> m[k]]
    OBVIOUS
  <2>3. \A k \in D : m[k] \in Entry /\ m[k].folder \in F \cup {Root}
    BY <1>ix DEF Entry
  <2> HIDE DEF m
  <2> QED
    BY <1>ix, <2>1, <2>2, <2>3, ClosedFields
<1>7. restoreNote(ix, n) \in Closed
  <2> DEFINE back(k) == [folder |-> folderOrRoot(ix, M[k].folder), trashed |-> FALSE]
             m == [k \in D |-> IF k \in {n} THEN back(k) ELSE M[k]]
  <2>1. restoreNote(ix, n) = [folders |-> F, notes |-> m]
    <3>1. restoreNote(ix, n) = [ix EXCEPT !.notes = m]
      BY DEF restoreNote, EditNotes, M
    <3> HIDE DEF m
    <3> QED
      BY <3>1, <1>up
  <2>2. DOMAIN m = D /\ m = [k \in DOMAIN m |-> m[k]]
    OBVIOUS
  <2>3. \A k \in D : m[k] \in Entry /\ m[k].folder \in F \cup {Root}
    <3> TAKE k \in D
    <3>1. back(k) \in Entry /\ back(k).folder \in F \cup {Root}
      BY <1>ix DEF Entry, folderOrRoot
    <3> HIDE DEF back
    <3> QED
      BY <3>1, <1>ix
  <2> HIDE DEF m
  <2> QED
    BY <1>ix, <2>1, <2>2, <2>3, ClosedFields
<1>8. ASSUME NEW S
      PROVE  [folders |-> F, notes |-> Restrict(M, D \ S)] \in Closed
  <2> DEFINE m == Restrict(M, D \ S)
  <2>1. DOMAIN m = D \ S /\ m = [k \in DOMAIN m |-> m[k]] /\ \A k \in D \ S : m[k] = M[k]
    BY DEF Restrict
  <2> HIDE DEF m
  <2>2. m = [k \in DOMAIN m |-> m[k]] /\ DOMAIN m \subseteq Notes
    BY <2>1, <1>ix
  <2>3. \A k \in DOMAIN m : m[k] \in Entry /\ m[k].folder \in F \cup {Root}
    BY <2>1, <1>ix
  <2>4. [folders |-> F, notes |-> m] \in Closed
    BY <1>ix, <2>2, <2>3, ClosedFields
  <2> QED
    BY <2>4 DEF m
<1>9. removeNote(ix, n) \in Closed
  <2>1. removeNote(ix, n) = [folders |-> F, notes |-> Restrict(M, D \ {n})]
    BY <1>eq DEF removeNote
  <2> QED
    BY <2>1, <1>8
<1>10. reconcile(ix, R) \in Closed
  <2>1. reconcile(ix, R) = [folders |-> F, notes |-> Restrict(M, D \cap R)]
    BY <1>eq DEF reconcile
  <2>2. D \cap R = D \ (D \ R)
    OBVIOUS
  <2> QED
    BY <2>1, <2>2, <1>8
<1> QED
  BY <1>1, <1>2, <1>3, <1>4, <1>5, <1>6, <1>7, <1>9, <1>10

-----------------------------------------------------------------------------
(* The invariant, in parts, and what the pieces of an action do to it. *)

\* Where a job writes or indexes the row of its note, it has one.
HasNote(r) ==
    r.at \in {"updating", "getOrphan"} \/ (r.at = "create" /\ r.reply = "ok") => r.note \in Notes

GoodFields ==
    [kind : Kinds, at : Gets \cup Posts \cup {"idle", "session", "encrypt", "updating", "orphans"},
     reply : {"none", "ok", "no", "gone"},
     note : Notes \cup {Nil}, ids : SUBSET Notes, text : Text, flag : BOOLEAN,
     body : Closed \cup {Unset, Unreadable}, prev : Closed,
     listed : SUBSET Notes, flagged : SUBSET Notes,
     changed : BOOLEAN, sameKey : BOOLEAN, calm : BOOLEAN]

GoodJob == {r \in GoodFields : HasNote(r)}

Rows == UNION {[S -> Row] : S \in SUBSET Notes}

\* The server: its rows are well-formed and its index is closed, if it can be read.
ServerInv ==
    /\ rows \in Rows
    /\ saved \in Closed \cup {Unset, Unreadable}
    /\ picked \subseteq Notes /\ used \subseteq Notes

\* The tab's flags and its editor.
TabInv ==
    /\ masterKey \in {"none", "held", "dropped"} /\ locks \in 0..MaxLocks
    /\ {readOnly, permanentReadOnly, vaultLoaded, isDirty, isSaving} \subseteq BOOLEAN
    /\ unreadableIds \subseteq Notes
    /\ currentNoteId \in Notes \cup {Nil}
    /\ {value, lastSavedValue} \subseteq Text

\* The indexes the tab holds: its own, those on their way, and those to roll back to.
IndexInv == index \in Closed
JobInv == job \in [Jobs -> GoodJob]

IInv == ServerInv /\ TabInv /\ IndexInv /\ JobInv

\* An index and a buffer with nothing in them.
LEMMA EmptyGood == createEmpty \in Closed /\ Empty \in Text
<1>1. [x \in {} |-> Root] = [k \in DOMAIN [x \in {} |-> Root] |-> [x \in {} |-> Root][k]]
  OBVIOUS
<1>2. Empty \in Text
  BY VaultAssumption DEF Empty, Text
<1> QED
  BY <1>1, <1>2, ClosedFields DEF createEmpty

\* Where jobs begin.
Starts == {"session", "getIndex", "open", "encrypt", "index", "delete", "flag"}

\* No job: the idle record, and one that has just been started.
LEMMA GoodCalls ==
    /\ Idle \in GoodJob
    /\ \A kind \in Kinds, at \in Starts, n \in Notes \cup {Nil} : Call(kind, at, n) \in GoodJob
<1>1. createEmpty \in Closed /\ Empty \in Text
  BY EmptyGood
<1>2. Idle \in GoodJob
  BY <1>1 DEF Idle, GoodJob, GoodFields, HasNote, Kinds
<1>3. ASSUME NEW kind \in Kinds, NEW at \in Starts, NEW n \in Notes \cup {Nil}
      PROVE  Call(kind, at, n) \in GoodJob
  <2> DEFINE c == Call(kind, at, n)
  <2>1. c = [Idle EXCEPT !.kind = kind, !.at = at, !.note = n]
    BY DEF Call
  <2>2. c \in GoodFields /\ c.at = at
    BY <1>2, <2>1 DEF GoodJob, GoodFields, Starts, Gets, Posts
  <2> HIDE DEF c
  <2>3. HasNote(c)
    BY <2>2 DEF HasNote, Starts
  <2> QED
    BY <2>2, <2>3 DEF GoodJob, c
<1> QED
  BY <1>2, <1>3

\* A job put in its slot.
LEMMA GoodPut ==
    ASSUME JobInv, NEW j \in Jobs, NEW r \in GoodJob, Put(j, r)
    PROVE  JobInv'
BY DEF JobInv, Put

\* A request denied.
LEMMA GoodDeny ==
    ASSUME JobInv, NEW j \in Jobs, Deny(j)
    PROVE  JobInv'
<1>1. job[j] \in GoodJob
  BY DEF JobInv
<1>2. [job[j] EXCEPT !.reply = "no", !.calm = FALSE] \in GoodJob
  BY <1>1 DEF GoodJob, GoodFields, HasNote
<1> QED
  BY <1>2, GoodPut DEF Deny

\* A request answered; a row that is created is known by its id.
LEMMA GoodAnswer ==
    ASSUME JobInv, NEW j \in Jobs, NEW r \in GoodJob, r.at = "create" => r.note \in Notes,
           Answer(j, r)
    PROVE  JobInv'
<1>1. PICK reply \in {"ok", "no"} :
          Put(j, [r EXCEPT !.reply = reply, !.calm = r.calm /\ reply = "ok"])
  BY DEF Answer
<1> DEFINE s == [r EXCEPT !.reply = reply, !.calm = r.calm /\ reply = "ok"]
<1>2. s \in GoodFields
  BY DEF GoodJob, GoodFields
<1>3. HasNote(s)
  BY DEF GoodJob, GoodFields, HasNote
<1> HIDE DEF s
<1>4. s \in GoodJob
  BY <1>2, <1>3 DEF GoodJob
<1> QED
  BY <1>1, <1>4, GoodPut DEF s

\* persistIndex of a closed index.
LEMMA GoodPersist ==
    ASSUME JobInv, NEW j \in Jobs, NEW r \in GoodJob, r.at \in {"index", "persist"},
           NEW new \in Closed, Persist(j, r, new)
    PROVE  JobInv'
<1> DEFINE s == [r EXCEPT !.body = new, !.reply = IF CanPersist THEN "none" ELSE "no",
                          !.calm = r.calm /\ CanPersist]
<1>1. s \in GoodFields
  BY DEF GoodJob, GoodFields, CanPersist
<1>2. HasNote(s)
  BY DEF GoodJob, GoodFields, HasNote
<1>3. Put(j, s)
  BY DEF Persist
<1> HIDE DEF s
<1>4. s \in GoodJob
  BY <1>1, <1>2 DEF GoodJob
<1> QED
  BY <1>3, <1>4, GoodPut

\* commitIndexChange to a closed index.
LEMMA GoodCommit ==
    ASSUME JobInv, IndexInv, NEW j \in Jobs, NEW r \in GoodJob, NEW new \in Closed,
           Commit(j, r, new)
    PROVE  JobInv' /\ IndexInv'
<1>1. [r EXCEPT !.at = "index", !.prev = index] \in GoodJob
  BY DEF GoodJob, GoodFields, HasNote, Posts, IndexInv
<1>2. [r EXCEPT !.at = "index", !.prev = index].at = "index"
  BY DEF GoodJob, GoodFields
<1> QED
  BY <1>1, <1>2, GoodPersist DEF Commit, IndexInv

\* setTrashed.
LEMMA GoodFlag ==
    ASSUME JobInv, NEW j \in Jobs, NEW r \in GoodJob, NEW ids \in SUBSET Notes, NEW flag \in BOOLEAN,
           Flag(j, r, ids, flag)
    PROVE  JobInv'
<1>1. [r EXCEPT !.at = "flag", !.reply = "none", !.ids = ids, !.flag = flag] \in GoodJob
  BY DEF GoodJob, GoodFields, HasNote, Posts
<1> QED
  BY <1>1, GoodPut DEF Flag

\* An empty buffer.
LEMMA GoodBuffer ==
    ASSUME TabInv, startNewBuffer
    PROVE  /\ currentNoteId' \in Notes \cup {Nil}
           /\ {value', lastSavedValue'} \subseteq Text
           /\ isDirty' \in BOOLEAN
<1>1. Empty \in Text
  BY VaultAssumption DEF Empty, Text
<1> QED
  BY <1>1 DEF startNewBuffer

-----------------------------------------------------------------------------
(* The steps of the server. *)

\* The rows after a row is written, flags are set, or rows are deleted.
LEMMA GoodRows ==
    ASSUME rows \in Rows
    PROVE  /\ \A n \in Notes, row \in Row :
                  [m \in DOMAIN rows \cup {n} |-> IF m = n THEN row ELSE rows[m]] \in Rows
           /\ \A S : \A flag \in BOOLEAN :
                  [m \in DOMAIN rows |-> IF m \in S THEN [rows[m] EXCEPT !.trashed_at = flag] ELSE rows[m]]
                      \in Rows
           /\ \A S : Restrict(rows, DOMAIN rows \ S) \in Rows
<1>1. DOMAIN rows \subseteq Notes /\ \A m \in DOMAIN rows : rows[m] \in Row
  BY PartialFunctions DEF Rows
<1>2. ASSUME NEW D \in SUBSET Notes, NEW f \in [D -> Row]
      PROVE  f \in Rows
  BY DEF Rows
<1>3. ASSUME NEW n \in Notes, NEW row \in Row
      PROVE  [m \in DOMAIN rows \cup {n} |-> IF m = n THEN row ELSE rows[m]] \in Rows
  <2>1. [m \in DOMAIN rows \cup {n} |-> IF m = n THEN row ELSE rows[m]] \in [DOMAIN rows \cup {n} -> Row]
    BY <1>1
  <2>2. DOMAIN rows \cup {n} \in SUBSET Notes
    BY <1>1
  <2> QED
    BY <1>2, <2>1, <2>2
<1>4. ASSUME NEW S, NEW flag \in BOOLEAN
      PROVE  [m \in DOMAIN rows |-> IF m \in S THEN [rows[m] EXCEPT !.trashed_at = flag] ELSE rows[m]] \in Rows
  <2>1. \A m \in DOMAIN rows : [rows[m] EXCEPT !.trashed_at = flag] \in Row
    BY <1>1 DEF Row
  <2>2. [m \in DOMAIN rows |-> IF m \in S THEN [rows[m] EXCEPT !.trashed_at = flag] ELSE rows[m]]
            \in [DOMAIN rows -> Row]
    BY <1>1, <2>1
  <2> QED
    BY <1>1, <1>2, <2>2
<1>5. ASSUME NEW S
      PROVE  Restrict(rows, DOMAIN rows \ S) \in Rows
  <2>1. Restrict(rows, DOMAIN rows \ S) \in [DOMAIN rows \ S -> Row]
    BY <1>1 DEF Restrict
  <2>2. DOMAIN rows \ S \in SUBSET Notes
    BY <1>1
  <2> QED
    BY <1>2, <2>1, <2>2
<1> QED
  BY <1>3, <1>4, <1>5

\* Whatever the server does for a request, its rows and index stay sound.
LEMMA ServeKeeps ==
    ASSUME IInv, NEW j \in Jobs, Serve(j)
    PROVE  IInv'
<1> USE DEF IInv
<1> DEFINE r == job[j]
<1>r. r \in GoodJob
  BY DEF JobInv
<1>tab. TabInv' /\ IndexInv'
  BY DEF Serve, TabInv, IndexInv, keyVars, treeVars, bufferVars
<1>rows. DOMAIN rows \subseteq Notes /\ \A m \in DOMAIN rows : rows[m] \in Row
  BY PartialFunctions DEF ServerInv, Rows
<1>1. CASE Refuse(j)
  <2>1. PICK reply \in {"no", "gone"} : Put(j, [r EXCEPT !.reply = reply, !.calm = FALSE])
    BY <1>1 DEF Refuse
  <2>2. [r EXCEPT !.reply = reply, !.calm = FALSE] \in GoodJob
    BY <1>r DEF GoodJob, GoodFields, HasNote
  <2>3. JobInv'
    BY <2>1, <2>2, GoodPut
  <2>4. ServerInv'
    BY <1>1 DEF Refuse, ServerInv, serverVars
  <2> QED
    BY <1>tab, <2>3, <2>4
<1>2. CASE ServeIndex(j)
  <2>0. r.at # "create"
    BY <1>2 DEF ServeIndex, MayAnswer
  <2>1. JobInv'
    BY <1>2, <1>r, <2>0, GoodAnswer DEF ServeIndex
  <2>2. r.body \in Closed \cup {Unset, Unreadable}
    BY <1>r DEF GoodJob, GoodFields
  <2>3. ServerInv'
    BY <1>2, <2>2 DEF ServeIndex, ServerInv
  <2> QED
    BY <1>tab, <2>1, <2>3
<1>3. CASE create_vault_note(j)
  <2>1. CASE Cardinality(DOMAIN rows) >= MaxRows
    <3>1. JobInv'
      BY <1>3, <2>1, GoodDeny DEF create_vault_note
    <3>2. ServerInv'
      BY <1>3, <2>1 DEF create_vault_note, ServerInv
    <3> QED
      BY <1>tab, <3>1, <3>2
  <2>2. CASE ~(Cardinality(DOMAIN rows) >= MaxRows)
    <3> DEFINE text(n) == [own |-> IF r.text.own = Nil THEN n ELSE r.text.own, ver |-> r.text.ver]
    <3>1. PICK n \in Notes \ used :
              /\ rows' = [m \in DOMAIN rows \cup {n} |->
                              IF m = n THEN [text |-> text(n), trashed_at |-> FALSE] ELSE rows[m]]
              /\ used' = used \cup {n}
              /\ Answer(j, [r EXCEPT !.note = n, !.text = text(n)])
      BY <1>3, <2>2 DEF create_vault_note
    <3>2. text(n) \in Text
      BY <1>r DEF GoodJob, GoodFields, Text
    <3> HIDE DEF text
    <3>3. [r EXCEPT !.note = n, !.text = text(n)] \in GoodJob
      BY <1>r, <3>2 DEF GoodJob, GoodFields, HasNote
    <3>n. [r EXCEPT !.note = n, !.text = text(n)].note \in Notes
      BY <1>r DEF GoodJob, GoodFields
    <3>4. JobInv'
      BY <3>1, <3>n, <3>3, GoodAnswer
    <3>5. [text |-> text(n), trashed_at |-> FALSE] \in Row
      BY <3>2 DEF Row
    <3>6. rows' \in Rows
      BY <3>1, <3>5, GoodRows DEF ServerInv
    <3>7. ServerInv'
      BY <1>3, <3>1, <3>6 DEF create_vault_note, ServerInv
    <3> QED
      BY <1>tab, <3>4, <3>7
  <2> QED
    BY <2>1, <2>2
<1>4. CASE update_vault_note_get(j)
  <2>1. ServerInv'
    BY <1>4 DEF update_vault_note_get, ServerInv, serverVars
  <2>2. CASE r.note \in DOMAIN rows
    <3>1. rows[r.note].trashed_at \in BOOLEAN
      BY <1>rows, <2>2 DEF Row
    <3>2. [r EXCEPT !.at = "updating", !.flag = rows[r.note].trashed_at] \in GoodJob
      BY <1>r, <2>2, <1>rows, <3>1 DEF GoodJob, GoodFields, HasNote
    <3>3. JobInv'
      BY <1>4, <2>2, <3>2, GoodPut DEF update_vault_note_get
    <3> QED
      BY <1>tab, <2>1, <3>3
  <2>3. CASE r.note \notin DOMAIN rows
    <3>1. JobInv'
      BY <1>4, <2>3, GoodDeny DEF update_vault_note_get
    <3> QED
      BY <1>tab, <2>1, <3>1
  <2> QED
    BY <2>2, <2>3
<1>5. CASE update_vault_note_save(j)
  <2> DEFINE row == [text |-> r.text, trashed_at |-> r.flag]
             done == [r EXCEPT !.at = "update"]
  <2>1. r.note \in Notes /\ row \in Row
    BY <1>5, <1>r DEF update_vault_note_save, MayAnswer, GoodJob, GoodFields, HasNote, Row
  <2>2. rows' = [m \in DOMAIN rows \cup {r.note} |-> IF m = r.note THEN row ELSE rows[m]]
    BY <1>5 DEF update_vault_note_save
  <2>3. done \in GoodJob /\ done.at = "update"
    BY <1>r DEF GoodJob, GoodFields, HasNote, Posts
  <2>4. Answer(j, done)
    BY <1>5 DEF update_vault_note_save
  <2> HIDE DEF row, done
  <2>5. ServerInv'
    BY <1>5, <2>1, <2>2, GoodRows DEF update_vault_note_save, ServerInv
  <2>6. JobInv'
    BY <2>3, <2>4, GoodAnswer
  <2> QED
    BY <1>tab, <2>5, <2>6
<1>6. CASE delete_vault_note(j)
  <2>1. rows' = Restrict(rows, DOMAIN rows \ {r.note})
    BY <1>6 DEF delete_vault_note
  <2>2. rows' \in Rows
    BY <2>1, GoodRows DEF ServerInv
  <2>3. ServerInv'
    BY <1>6, <2>2 DEF delete_vault_note, ServerInv
  <2>4. JobInv'
    BY <1>6, <1>r, GoodAnswer DEF delete_vault_note, MayAnswer
  <2> QED
    BY <1>tab, <2>3, <2>4
<1>7. CASE set_vault_notes_trashed(j)
  <2>1. r.flag \in BOOLEAN
    BY <1>r DEF GoodJob, GoodFields
  <2> DEFINE after == [n \in DOMAIN rows |-> IF n \in r.ids THEN [rows[n] EXCEPT !.trashed_at = r.flag] ELSE rows[n]]
  <2>0. after \in Rows
    BY <2>1, GoodRows DEF ServerInv
  <2>2. rows' = after
    BY <1>7 DEF set_vault_notes_trashed
  <2> HIDE DEF after
  <2>3. ServerInv'
    BY <1>7, <2>0, <2>2 DEF set_vault_notes_trashed, ServerInv
  <2>4. JobInv'
    BY <1>7, <1>r, GoodAnswer DEF set_vault_notes_trashed, MayAnswer
  <2> QED
    BY <1>tab, <2>3, <2>4
<1>8. CASE ServeGet(j)
  <2>1. ServerInv'
    BY <1>8 DEF ServeGet, ServerInv, serverVars
  <2>2. Flagged \subseteq Notes
    BY <1>rows DEF Flagged
  <2>3. CASE MayAnswer(j, "getIndex") /\ Put(j, [r EXCEPT !.reply = "ok", !.body = saved])
    <3>1. [r EXCEPT !.reply = "ok", !.body = saved] \in GoodJob
      BY <1>r, <2>3 DEF GoodJob, GoodFields, HasNote, ServerInv, MayAnswer
    <3> QED
      BY <1>tab, <2>1, <2>3, <3>1, GoodPut
  <2>4. CASE MayAnswer(j, "getRows") /\ Put(j, [r EXCEPT !.reply = "ok", !.listed = DOMAIN rows, !.flagged = Flagged])
    <3>1. [r EXCEPT !.reply = "ok", !.listed = DOMAIN rows, !.flagged = Flagged] \in GoodJob
      BY <1>r, <1>rows, <2>2, <2>4 DEF GoodJob, GoodFields, HasNote, MayAnswer
    <3> QED
      BY <1>tab, <2>1, <2>4, <3>1, GoodPut
  <2>5. CASE /\ MayAnswer(j, "getOrphan") /\ r.note \in DOMAIN rows
             /\ Put(j, [r EXCEPT !.reply = "ok", !.flag = rows[r.note].trashed_at])
    <3>1. rows[r.note].trashed_at \in BOOLEAN
      BY <1>rows, <2>5 DEF Row
    <3>2. [r EXCEPT !.reply = "ok", !.flag = rows[r.note].trashed_at] \in GoodJob
      BY <1>r, <2>5, <3>1 DEF GoodJob, GoodFields, HasNote, MayAnswer
    <3> QED
      BY <1>tab, <2>1, <2>5, <3>2, GoodPut
  <2>6. CASE /\ MayAnswer(j, "open") /\ r.note \in DOMAIN rows
             /\ Put(j, [r EXCEPT !.reply = "ok", !.text = rows[r.note].text])
    <3>1. rows[r.note].text \in Text
      BY <1>rows, <2>6 DEF Row
    <3>2. [r EXCEPT !.reply = "ok", !.text = rows[r.note].text] \in GoodJob
      BY <1>r, <2>6, <3>1 DEF GoodJob, GoodFields, HasNote, MayAnswer
    <3> QED
      BY <1>tab, <2>1, <2>6, <3>2, GoodPut
  <2>7. CASE Deny(j)
    BY <1>tab, <2>1, <2>7, GoodDeny
  <2> QED
    BY <1>8, <2>3, <2>4, <2>5, <2>6, <2>7 DEF ServeGet
<1> QED
  BY <1>1, <1>2, <1>3, <1>4, <1>5, <1>6, <1>7, <1>8 DEF Serve

-----------------------------------------------------------------------------
(* The steps of the tab. *)

\* What most steps of the tab leave alone.
LEMMA GoodServer ==
    ASSUME ServerInv, UNCHANGED serverVars
    PROVE  ServerInv'
BY DEF ServerInv, serverVars

\* A load that is done: the buffer, and the flags it still has to repair.
LEMMA GoodLoaded ==
    ASSUME IInv, NEW j \in Jobs, Loaded(j)
    PROVE  /\ vaultLoaded' \in BOOLEAN
           /\ currentNoteId' \in Notes \cup {Nil}
           /\ {value', lastSavedValue'} \subseteq Text
           /\ isDirty' \in BOOLEAN
           /\ JobInv'
<1> USE DEF IInv
<1> DEFINE Drift(v) == IF readOnly THEN {} ELSE trashFlagDrift(index, job[j].flagged, v)
<1>1. \A v \in BOOLEAN : Drift(v) \in SUBSET Notes
  BY FieldsClosed DEF trashFlagDrift, IndexInv
<1>2. job[j] \in GoodJob
  BY DEF JobInv
<1>6. Drift(TRUE) \in SUBSET Notes /\ Drift(FALSE) \in SUBSET Notes
  BY <1>1
<1> HIDE DEF Drift
<1>3. [job[j] EXCEPT !.listed = Drift(FALSE)] \in GoodJob
  BY <1>2, <1>6 DEF GoodJob, GoodFields, HasNote
<1>4. [job[j] EXCEPT !.listed = {}] \in GoodJob
  BY <1>2 DEF GoodJob, GoodFields, HasNote
<1>5. \/ Flag(j, [job[j] EXCEPT !.listed = Drift(FALSE)], Drift(TRUE), TRUE)
      \/ Flag(j, [job[j] EXCEPT !.listed = {}], Drift(FALSE), FALSE)
      \/ End(j)
  BY DEF Loaded, Drift
<1>7. JobInv'
  BY <1>3, <1>4, <1>5, <1>6, GoodFlag, GoodCalls, GoodPut DEF End
<1>8. /\ currentNoteId' \in Notes \cup {Nil}
      /\ {value', lastSavedValue'} \subseteq Text
      /\ isDirty' \in BOOLEAN
  <2>1. CASE isDirty
    BY <2>1 DEF Loaded, bufferVars, TabInv
  <2>2. CASE ~isDirty
    BY <2>2, GoodBuffer DEF Loaded
  <2> QED
    BY <2>1, <2>2
<1> QED
  BY <1>7, <1>8 DEF Loaded

\* The steps of a load.
LEMMA LoadKeeps ==
    ASSUME IInv, NEW j \in Jobs, Load(j)
    PROVE  IInv'
<1> USE DEF IInv
<1> DEFINE r == job[j]
<1>r. r \in GoodJob
  BY DEF JobInv
<1>end. ASSUME End(j) PROVE JobInv'
  BY <1>end, GoodCalls, GoodPut DEF End
<1>dis. ASSUME NEW m \in BOOLEAN, disableVault(m)
        PROVE  /\ masterKey' \in {"none", "held", "dropped"} /\ locks' \in 0..MaxLocks
               /\ {readOnly', permanentReadOnly'} \subseteq BOOLEAN
  BY <1>dis DEF disableVault, TabInv
<1>srv. ServerInv'
  BY GoodServer DEF Load, initialize, AfterGetIndex, AfterGetRows, NextOrphan, AfterGetOrphan,
                    OrphansDone, AfterPersist
<1>key. (UNCHANGED keyVars) => /\ masterKey' \in {"none", "held", "dropped"} /\ locks' \in 0..MaxLocks
                             /\ {readOnly', permanentReadOnly'} \subseteq BOOLEAN
  BY DEF TabInv, keyVars
<1>buf. (UNCHANGED bufferVars) => /\ currentNoteId' \in Notes \cup {Nil}
                                /\ {value', lastSavedValue'} \subseteq Text
                                /\ isDirty' \in BOOLEAN
  BY DEF TabInv, bufferVars
<1>1. CASE initialize(j)
  <2>1. IndexInv'
    BY <1>1 DEF initialize, treeVars, IndexInv
  <2>2. masterKey' \in {"none", "held", "dropped"} /\ locks' \in 0..MaxLocks /\ {readOnly', permanentReadOnly'} \subseteq BOOLEAN
    BY <1>1, <1>dis DEF initialize, TabInv
  <2>3. TabInv'
    BY <1>1, <1>buf, <2>2 DEF initialize, treeVars, TabInv
  <2>4. CASE loadVault(j)
    <3>1. Call("load", "getIndex", Nil) \in GoodJob
      BY GoodCalls DEF Starts, Kinds
    <3> DEFINE alone == \A k \in Jobs \ {j} : job[k].at = "idle"
    <3>2. alone \in BOOLEAN
      OBVIOUS
    <3>3. Put(j, [Call("load", "getIndex", Nil) EXCEPT !.calm = alone])
      BY <2>4 DEF loadVault
    <3> HIDE DEF alone
    <3>4. [Call("load", "getIndex", Nil) EXCEPT !.calm = alone] \in GoodJob
      BY <3>1, <3>2 DEF GoodJob, GoodFields, HasNote
    <3>5. JobInv'
      BY <3>3, <3>4, GoodPut
    <3> QED
      BY <1>srv, <2>1, <2>3, <3>5
  <2>5. CASE End(j)
    BY <1>srv, <1>end, <2>1, <2>3, <2>5
  <2> QED
    BY <1>1, <2>4, <2>5 DEF initialize
<1>2. CASE AfterGetIndex(j)
  <2> DEFINE on == [r EXCEPT !.at = "getRows", !.reply = "none", !.body = Unset]
  <2>1. on \in GoodJob
    BY <1>r DEF GoodJob, GoodFields, HasNote, Gets
  <2>2. r.body \in Closed \cup {Unset, Unreadable}
    BY <1>r DEF GoodJob, GoodFields
  <2>3. r.body # Unreadable => (IF r.body = Unset THEN index ELSE r.body) \in Closed
    BY <2>2 DEF IndexInv
  <2> HIDE DEF on
  <2>4. IndexInv'
    BY <1>2, <2>3 DEF AfterGetIndex, IndexInv
  <2>5. /\ masterKey' \in {"none", "held", "dropped"} /\ locks' \in 0..MaxLocks
        /\ {readOnly', permanentReadOnly'} \subseteq BOOLEAN
    BY <1>2, <1>dis, <1>key DEF AfterGetIndex
  <2>6. TabInv'
    BY <1>2, <1>buf, <2>5 DEF AfterGetIndex, TabInv
  <2>7. End(j) \/ Put(j, on)
    BY <1>2 DEF AfterGetIndex, on
  <2>8. JobInv'
    BY <1>end, <2>1, <2>7, GoodPut
  <2> QED
    BY <1>srv, <2>4, <2>6, <2>8
<1>3. CASE AfterGetRows(j)
  <2> DEFINE on == [r EXCEPT !.at = "orphans", !.reply = "none", !.listed = {},
                             !.ids = orphanIds(index, r.listed),
                             !.changed = DOMAIN index.notes \ r.listed # {}]
  <2>0. orphanIds(index, r.listed) \in SUBSET Notes
    BY <1>r DEF orphanIds, GoodJob, GoodFields
  <2>1. on \in GoodJob
    <3>1. on \in GoodFields
      BY <1>r, <2>0 DEF GoodJob, GoodFields
    <3>2. HasNote(on)
      BY <1>r DEF GoodJob, GoodFields, HasNote
    <3> QED
      BY <3>1, <3>2 DEF GoodJob
  <2>2. reconcile(index, r.listed) \in Closed
    BY IndexOperations DEF IndexInv
  <2> HIDE DEF on
  <2>4. IndexInv'
    BY <1>3, <2>2 DEF AfterGetRows, IndexInv
  <2>5. /\ masterKey' \in {"none", "held", "dropped"} /\ locks' \in 0..MaxLocks
        /\ {readOnly', permanentReadOnly'} \subseteq BOOLEAN
    BY <1>3, <1>dis, <1>key DEF AfterGetRows
  <2>6. TabInv'
    BY <1>3, <1>buf, <2>5 DEF AfterGetRows, TabInv
  <2>7. End(j) \/ Put(j, on)
    BY <1>3 DEF AfterGetRows, on
  <2>8. JobInv'
    BY <1>end, <2>1, <2>7, GoodPut
  <2> QED
    BY <1>srv, <2>4, <2>6, <2>8
<1>4. CASE NextOrphan(j)
  <2>1. PICK n \in r.ids : Put(j, [r EXCEPT !.at = "getOrphan", !.note = n, !.ids = r.ids \ {n}])
    BY <1>4 DEF NextOrphan
  <2>2. [r EXCEPT !.at = "getOrphan", !.note = n, !.ids = r.ids \ {n}] \in GoodJob
    BY <1>r DEF GoodJob, GoodFields, HasNote, Gets
  <2>3. JobInv'
    BY <2>1, <2>2, GoodPut
  <2>4. TabInv' /\ IndexInv'
    BY <1>4, <1>key, <1>buf DEF NextOrphan, TabInv, IndexInv, treeVars
  <2> QED
    BY <1>srv, <2>3, <2>4
<1>5. CASE AfterGetOrphan(j)
  <2> DEFINE on == [r EXCEPT !.at = "orphans", !.reply = "none", !.note = Nil, !.flag = FALSE]
             more == [on EXCEPT !.changed = TRUE]
  <2>1. on \in GoodJob /\ more \in GoodJob
    BY <1>r DEF GoodJob, GoodFields, HasNote
  <2>2. r.note \in Notes /\ r.flag \in BOOLEAN
    BY <1>5, <1>r DEF AfterGetOrphan, At, GoodJob, GoodFields, HasNote
  <2>3. addNote(index, r.note, r.flag) \in Closed
    BY <2>2, IndexOperations DEF IndexInv
  <2> HIDE DEF on
  <2>4. IndexInv'
    BY <1>5, <2>3 DEF AfterGetOrphan, IndexInv, treeVars
  <2>5. /\ masterKey' \in {"none", "held", "dropped"} /\ locks' \in 0..MaxLocks
        /\ {readOnly', permanentReadOnly'} \subseteq BOOLEAN
    BY <1>5, <1>dis, <1>key DEF AfterGetOrphan
  <2>6. unreadableIds' \subseteq Notes
    BY <1>5, <2>2 DEF AfterGetOrphan, TabInv, treeVars
  <2>7. TabInv'
    BY <1>5, <1>buf, <2>5, <2>6 DEF AfterGetOrphan, TabInv
  <2>8. End(j) \/ Put(j, on) \/ Put(j, more)
    BY <1>5 DEF AfterGetOrphan, on
  <2> HIDE DEF more
  <2>9. JobInv'
    BY <1>end, <2>1, <2>8, GoodPut
  <2> QED
    BY <1>srv, <2>4, <2>7, <2>9
<1>6. CASE OrphansDone(j)
  <2>1. IndexInv'
    BY <1>6 DEF OrphansDone, IndexInv, treeVars
  <2>2. CASE r.changed
    <3> DEFINE on == [r EXCEPT !.at = "persist", !.changed = FALSE]
    <3>1. on \in GoodJob /\ on.at = "persist"
      BY <1>r DEF GoodJob, GoodFields, HasNote, Posts
    <3>2. Persist(j, on, index)
      BY <1>6, <2>2 DEF OrphansDone
    <3> HIDE DEF on
    <3>3. JobInv'
      BY <3>1, <3>2, GoodPersist DEF IndexInv
    <3>4. TabInv'
      BY <1>6, <2>2, <1>key, <1>buf DEF OrphansDone, TabInv, treeVars
    <3> QED
      BY <1>srv, <2>1, <3>3, <3>4
  <2>3. CASE ~r.changed
    <3>1. Loaded(j)
      BY <1>6, <2>3 DEF OrphansDone
    <3>2. TabInv'
      BY <1>6, <1>key, <3>1, GoodLoaded DEF OrphansDone, TabInv, treeVars
    <3> QED
      BY <1>srv, <2>1, <3>1, <3>2, GoodLoaded
  <2> QED
    BY <2>2, <2>3
<1>7. CASE AfterPersist(j)
  <2>1. Loaded(j)
    BY <1>7 DEF AfterPersist
  <2>2. IndexInv'
    BY <1>7 DEF AfterPersist, IndexInv, treeVars
  <2>3. TabInv'
    BY <1>7, <1>key, <2>1, GoodLoaded DEF AfterPersist, TabInv, treeVars
  <2> QED
    BY <1>srv, <2>1, <2>2, <2>3, GoodLoaded
<1> QED
  BY <1>1, <1>2, <1>3, <1>4, <1>5, <1>6, <1>7 DEF Load

\* What a job does with the reply it waited for.
LEMMA ContinueKeeps ==
    ASSUME IInv, NEW j \in Jobs, Continue(j)
    PROVE  IInv'
<1> USE DEF IInv
<1> DEFINE r == job[j]
<1>r. r \in GoodJob
  BY DEF JobInv
<1>rec. /\ r.note \in Notes \cup {Nil} /\ r.text \in Text /\ r.ids \in SUBSET Notes
        /\ r.listed \in SUBSET Notes /\ r.prev \in Closed
  BY <1>r DEF GoodJob, GoodFields
<1>end. ASSUME End(j) PROVE JobInv'
  BY <1>end, GoodCalls, GoodPut DEF End
<1>srv. ServerInv'
  BY GoodServer DEF Continue, AfterOpen, persistNoteRow, AfterRow, AfterDelete, AfterFlag, AfterIndex
<1>key. /\ masterKey' \in {"none", "held", "dropped"} /\ locks' \in 0..MaxLocks
        /\ {readOnly', permanentReadOnly', vaultLoaded'} \subseteq BOOLEAN
  BY DEF Continue, AfterOpen, persistNoteRow, AfterRow, AfterDelete, AfterFlag, AfterIndex,
         TabInv, keyVars
<1>buf. (UNCHANGED bufferVars) => /\ currentNoteId' \in Notes \cup {Nil}
                                /\ {value', lastSavedValue'} \subseteq Text
                                /\ isDirty' \in BOOLEAN
  BY DEF TabInv, bufferVars
<1>close. CloseIfOpen(r.note) => /\ currentNoteId' \in Notes \cup {Nil}
                                /\ {value', lastSavedValue'} \subseteq Text
                                /\ isDirty' \in BOOLEAN
  BY <1>buf, GoodBuffer DEF CloseIfOpen
<1>1. CASE AfterOpen(j)
  <2>1. TabInv'
    BY <1>1, <1>key, <1>rec DEF AfterOpen, TabInv, treeVars, bufferVars
  <2>2. IndexInv' /\ JobInv'
    BY <1>1, <1>end DEF AfterOpen, IndexInv, treeVars
  <2> QED
    BY <1>srv, <2>1, <2>2
<1>2. CASE persistNoteRow(j)
  <2> DEFINE on == [r EXCEPT !.at = IF currentNoteId = Nil THEN "create" ELSE "update",
                             !.reply = "none", !.note = currentNoteId]
  <2>r. Put(j, on)
    BY <1>2 DEF persistNoteRow
  <2>1. on \in GoodJob
    <3> DEFINE at == IF currentNoteId = Nil THEN "create" ELSE "update"
    <3>1. currentNoteId \in Notes \cup {Nil} /\ at \in {"create", "update"}
      BY DEF TabInv
    <3>2. on = [r EXCEPT !.at = at, !.reply = "none", !.note = currentNoteId]
      OBVIOUS
    <3> HIDE DEF at, on
    <3>3. on \in GoodFields /\ on.at = at /\ on.reply = "none"
      BY <1>r, <3>1, <3>2 DEF GoodJob, GoodFields, Posts
    <3>4. HasNote(on)
      BY <3>1, <3>3 DEF HasNote
    <3> QED
      BY <3>3, <3>4 DEF GoodJob
  <2> HIDE DEF on
  <2>2. JobInv'
    BY <2>r, <2>1, GoodPut
  <2>3. TabInv' /\ IndexInv'
    BY <1>2, <1>key, <1>buf DEF persistNoteRow, TabInv, IndexInv, treeVars
  <2> QED
    BY <1>srv, <2>2, <2>3
<1>3. CASE AfterRow(j)
  <2>1. CASE r.reply # "ok"
    <3>1. TabInv'
      BY <1>3, <2>1, <1>key DEF AfterRow, TabInv
    <3>2. IndexInv' /\ JobInv'
      BY <1>3, <2>1, <1>end DEF AfterRow, IndexInv
    <3> QED
      BY <1>srv, <3>1, <3>2
  <2>2. CASE r.reply = "ok" /\ r.at = "create"
    <3>1. r.note \in Notes
      BY <1>r, <2>2 DEF GoodJob, HasNote
    <3>2. Commit(j, r, addNote(index, r.note, FALSE))
      BY <1>3, <2>2 DEF AfterRow
    <3>3. addNote(index, r.note, FALSE) \in Closed
      BY <3>1, IndexOperations DEF IndexInv
    <3>4. value' \in Text
      BY <1>3, <2>2, <3>1 DEF AfterRow, TabInv, Text
    <3>5. TabInv'
      BY <1>3, <2>2, <1>key, <3>1, <3>4 DEF AfterRow, TabInv
    <3> QED
      BY <1>r, <1>srv, <3>2, <3>3, <3>5, GoodCommit
  <2>3. CASE r.reply = "ok" /\ r.at # "create"
    <3>1. Commit(j, r, index)
      BY <1>3, <2>3 DEF AfterRow
    <3>2. TabInv'
      BY <1>3, <2>3, <1>key DEF AfterRow, TabInv
    <3> QED
      BY <1>r, <1>srv, <3>1, <3>2, GoodCommit DEF IndexInv
  <2> QED
    BY <2>1, <2>2, <2>3
<1>4. CASE AfterDelete(j)
  <2>1. /\ isSaving' \in BOOLEAN
        /\ unreadableIds' \subseteq Notes
        /\ currentNoteId' \in Notes \cup {Nil}
        /\ {value', lastSavedValue'} \subseteq Text
        /\ isDirty' \in BOOLEAN
    BY <1>4, <1>buf, <1>close DEF AfterDelete, TabInv, treeVars
  <2>2. TabInv'
    BY <1>key, <2>1 DEF TabInv
  <2>3. removeNote(index, r.note) \in Closed
    BY IndexOperations DEF IndexInv
  <2>4. \/ End(j) /\ UNCHANGED index
        \/ Commit(j, r, removeNote(index, r.note))
    BY <1>4 DEF AfterDelete, treeVars
  <2>5. CASE End(j) /\ UNCHANGED index
    BY <1>srv, <1>end, <2>2, <2>5 DEF IndexInv
  <2>6. CASE Commit(j, r, removeNote(index, r.note))
    BY <1>r, <1>srv, <2>2, <2>3, <2>6, GoodCommit
  <2> QED
    BY <2>4, <2>5, <2>6
<1>5. CASE AfterFlag(j)
  <2>1. TabInv'
    BY <1>5, <1>key, <1>buf DEF AfterFlag, TabInv
  <2>2. restoreNote(index, r.note) \in Closed
    BY IndexOperations DEF IndexInv
  <2>3. CASE Commit(j, r, restoreNote(index, r.note))
    BY <1>r, <1>srv, <2>1, <2>2, <2>3, GoodCommit
  <2>4. CASE Flag(j, r, r.listed, FALSE) /\ UNCHANGED index
    BY <1>r, <1>rec, <1>srv, <2>1, <2>4, GoodFlag DEF IndexInv
  <2>5. CASE End(j) /\ UNCHANGED index
    BY <1>srv, <1>end, <2>1, <2>5 DEF IndexInv
  <2> QED
    BY <1>5, <2>3, <2>4, <2>5 DEF AfterFlag
<1>6. CASE AfterIndex(j)
  <2>1. /\ isSaving' \in BOOLEAN
        /\ currentNoteId' \in Notes \cup {Nil}
        /\ {value', lastSavedValue'} \subseteq Text
        /\ isDirty' \in BOOLEAN
    BY <1>6, <1>buf, <1>close, <1>rec DEF AfterIndex, TabInv
  <2>2. TabInv'
    BY <1>6, <1>key, <2>1 DEF AfterIndex, TabInv
  <2>3. IndexInv'
    BY <1>6, <1>rec DEF AfterIndex, IndexInv
  <2>4. End(j) \/ Flag(j, r, r.ids, TRUE)
    BY <1>6 DEF AfterIndex
  <2>5. JobInv'
    BY <1>r, <1>rec, <1>end, <2>4, GoodFlag
  <2> QED
    BY <1>srv, <2>2, <2>3, <2>5
<1> QED
  BY <1>1, <1>2, <1>3, <1>4, <1>5, <1>6 DEF Continue

\* What the user starts.
LEMMA UserKeeps ==
    ASSUME IInv, NEW j \in Jobs, User(j)
    PROVE  IInv'
<1> USE DEF IInv
<1>buf. (UNCHANGED bufferVars) => /\ currentNoteId' \in Notes \cup {Nil}
                                /\ {value', lastSavedValue'} \subseteq Text
                                /\ isDirty' \in BOOLEAN
  BY DEF TabInv, bufferVars
<1>call. \A kind \in Kinds, at \in Starts, n \in Notes \cup {Nil} : Call(kind, at, n) \in GoodJob
  BY GoodCalls
<1>edit. Call("edit", "index", Nil) \in GoodJob /\ Call("trash", "index", Nil) \in GoodJob
  BY <1>call DEF Kinds, Starts
<1>1. CASE saveNote(j)
  <2> DEFINE c == Call("save", "encrypt", Nil)
  <2>1. c \in GoodJob
    BY <1>call DEF Kinds, Starts
  <2>2. Put(j, [c EXCEPT !.text = value])
    BY <1>1 DEF saveNote
  <2> HIDE DEF c
  <2>3. [c EXCEPT !.text = value] \in GoodJob
    BY <2>1 DEF GoodJob, GoodFields, HasNote, TabInv
  <2>4. JobInv'
    BY <2>2, <2>3, GoodPut
  <2>5. ServerInv' /\ IndexInv'
    BY <1>1, GoodServer DEF saveNote, IndexInv, treeVars
  <2>6. TabInv'
    BY <1>1, <1>buf DEF saveNote, TabInv, keyVars, treeVars
  <2> QED
    BY <2>4, <2>5, <2>6
<1>2. CASE editIndex(j)
  <2>1. ServerInv' /\ TabInv'
    BY <1>2, <1>buf, GoodServer DEF editIndex, TabInv, keyVars
  <2>2. PICK new \in Closed : Commit(j, Call("edit", "index", Nil), new)
    <3>1. CASE \E f \in Folders : Commit(j, Call("edit", "index", Nil), addFolder(index, f))
      BY <3>1, IndexOperations DEF IndexInv
    <3>2. CASE \E n \in DOMAIN index.notes, f \in Folders \cup {Root} :
                   Commit(j, Call("edit", "index", Nil), moveNote(index, n, f))
      BY <3>2, IndexOperations DEF IndexInv
    <3>3. CASE Commit(j, Call("edit", "index", Nil), index)
      BY <3>3 DEF IndexInv
    <3> QED
      BY <1>2, <3>1, <3>2, <3>3 DEF editIndex
  <2> QED
    BY <1>edit, <2>1, <2>2, GoodCommit
<1>3. ASSUME NEW n \in Notes, openNote(j, n) PROVE IInv'
  <2>1. ServerInv' /\ IndexInv' /\ TabInv'
    BY <1>3, <1>buf, GoodServer DEF openNote, IndexInv, TabInv, keyVars, treeVars
  <2>2. Call("open", "open", n) \in GoodJob
    BY <1>call DEF Kinds, Starts
  <2>3. Put(j, Call("open", "open", n))
    BY <1>3 DEF openNote
  <2> QED
    BY <2>1, <2>2, <2>3, GoodPut
<1>4. ASSUME NEW n \in Notes, moveNoteToTrash(j, n) PROVE IInv'
  <2> DEFINE c == Call("trash", "index", Nil)
             d == [c EXCEPT !.ids = {n}]
  <2>1. Commit(j, d, trashNote(index, n))
    BY <1>4 DEF moveNoteToTrash
  <2> HIDE DEF c
  <2>2. d \in GoodJob
    BY <1>edit DEF c, GoodJob, GoodFields, HasNote
  <2>3. trashNote(index, n) \in Closed
    BY IndexOperations DEF IndexInv
  <2> HIDE DEF d
  <2>4. /\ currentNoteId' \in Notes \cup {Nil}
        /\ {value', lastSavedValue'} \subseteq Text
        /\ isDirty' \in BOOLEAN
    BY <1>4, <1>buf, GoodBuffer DEF moveNoteToTrash
  <2>5. ServerInv' /\ TabInv'
    BY <1>4, <2>4, GoodServer DEF moveNoteToTrash, TabInv, keyVars
  <2> QED
    BY <2>1, <2>2, <2>3, <2>5, GoodCommit
<1>5. ASSUME NEW n \in Notes, restoreTrashedNote(j, n) PROVE IInv'
  <2>1. ServerInv' /\ IndexInv' /\ TabInv'
    BY <1>5, <1>buf, GoodServer DEF restoreTrashedNote, IndexInv, TabInv, keyVars, treeVars
  <2>2. Call("restore", "flag", n) \in GoodJob
    BY <1>call DEF Kinds, Starts
  <2>3. Flag(j, Call("restore", "flag", n), {n}, FALSE)
    BY <1>5 DEF restoreTrashedNote
  <2> QED
    BY <2>1, <2>2, <2>3, GoodFlag
<1>6. ASSUME NEW n \in Notes, deleteNoteForever(j, n) PROVE IInv'
  <2>1. ServerInv' /\ IndexInv' /\ TabInv'
    BY <1>6, <1>buf, GoodServer DEF deleteNoteForever, IndexInv, TabInv, keyVars, treeVars
  <2>2. Call("delete", "delete", n) \in GoodJob
    BY <1>call DEF Kinds, Starts
  <2>3. Put(j, Call("delete", "delete", n))
    BY <1>6 DEF deleteNoteForever
  <2> QED
    BY <2>1, <2>2, <2>3, GoodPut
<1>7. ASSUME NEW f \in Folders, deleteFolderToTrash(j, f) PROVE IInv'
  <2> DEFINE c == Call("trash", "index", Nil)
             active == {n \in DOMAIN index.notes : index.notes[n].folder = f /\ ~index.notes[n].trashed}
             d == [c EXCEPT !.ids = active]
  <2>1. Commit(j, d, deleteFolder(index, f))
    BY <1>7 DEF deleteFolderToTrash
  <2>2. active \in SUBSET Notes
    BY FieldsClosed DEF IndexInv
  <2> HIDE DEF c, active
  <2>3. d \in GoodJob
    BY <1>edit, <2>2 DEF c, GoodJob, GoodFields, HasNote
  <2>4. deleteFolder(index, f) \in Closed
    BY IndexOperations DEF IndexInv
  <2> HIDE DEF d
  <2>5. ServerInv' /\ TabInv'
    BY <1>7, <1>buf, GoodServer DEF deleteFolderToTrash, TabInv, keyVars
  <2> QED
    BY <2>1, <2>3, <2>4, <2>5, GoodCommit
<1> QED
  BY <1>1, <1>2, <1>3, <1>4, <1>5, <1>6, <1>7 DEF User

\* What the user and the clock do without a job of the tab.
LEMMA OthersKeep ==
    ASSUME IInv, \/ Type \/ NewNote \/ onLock \/ onUnlock \/ Reload
                 \/ SweepSelect \/ SweepDelete
    PROVE  IInv'
<1> USE DEF IInv
<1>rows. DOMAIN rows \subseteq Notes
  BY PartialFunctions DEF ServerInv, Rows
<1>0. createEmpty \in Closed /\ Empty \in Text
  BY EmptyGood
<1>init. ASSUME NEW j \in Jobs
         PROVE  [k \in Jobs |-> IF k = j THEN Call("init", "session", Nil) ELSE Idle] \in [Jobs -> GoodJob]
  <2>1. Idle \in GoodJob /\ Call("init", "session", Nil) \in GoodJob
    BY GoodCalls DEF Kinds, Starts
  <2> QED
    BY <2>1
<1>1. CASE Type
  <2>1. value' \in Text
    <3>1. value.ver + 1 \in 0..MaxVer
      BY <1>1, VaultAssumption DEF Type, TabInv, Text
    <3> QED
      BY <1>1, <3>1 DEF Type, TabInv, Text
  <2>2. isDirty' \in BOOLEAN
    BY <1>1 DEF Type
  <2>3. ServerInv' /\ IndexInv' /\ JobInv'
    BY <1>1, GoodServer DEF Type, IndexInv, JobInv, treeVars
  <2>4. TabInv'
    BY <1>1, <2>1, <2>2 DEF Type, TabInv, keyVars, treeVars
  <2> QED
    BY <2>3, <2>4
<1>2. CASE NewNote
  <2>1. ServerInv' /\ IndexInv' /\ JobInv'
    BY <1>2, GoodServer DEF NewNote, IndexInv, JobInv, treeVars
  <2>2. TabInv'
    BY <1>2, GoodBuffer DEF NewNote, TabInv, keyVars, treeVars
  <2> QED
    BY <2>1, <2>2
<1>3. CASE onLock
  <2>1. \A k \in Jobs : [job[k] EXCEPT !.sameKey = @ /\ job[k].kind # "load", !.calm = FALSE] \in GoodJob
    <3> TAKE k \in Jobs
    <3> DEFINE s == [job[k] EXCEPT !.sameKey = @ /\ job[k].kind # "load", !.calm = FALSE]
    <3>1. job[k] \in GoodJob
      BY DEF JobInv
    <3>2. s \in GoodFields
      BY <3>1 DEF GoodJob, GoodFields
    <3>3. HasNote(s)
      BY <3>1 DEF GoodJob, GoodFields, HasNote
    <3> QED
      BY <3>2, <3>3 DEF GoodJob
  <2>2. JobInv'
    BY <1>3, <2>1 DEF onLock, JobInv
  <2>3. ServerInv' /\ IndexInv'
    BY <1>3, GoodServer DEF onLock, IndexInv, treeVars
  <2>l. locks' \in 0..MaxLocks
    <3>1. locks \in 0..MaxLocks /\ locks < MaxLocks /\ locks' = locks + 1
      BY <1>3 DEF onLock, TabInv
    <3>2. MaxLocks \in Nat
      BY VaultAssumption
    <3> QED
      BY <3>1, <3>2
  <2>4. TabInv'
    BY <1>3, <2>l DEF onLock, TabInv, treeVars, bufferVars
  <2> QED
    BY <2>2, <2>3, <2>4
<1>4. CASE onUnlock
  <2>1. ServerInv' /\ IndexInv'
    BY <1>4, GoodServer DEF onUnlock, IndexInv, treeVars
  <2>2. TabInv'
    BY <1>4 DEF onUnlock, TabInv, treeVars, bufferVars
  <2>3. ASSUME NEW j \in Jobs, loadVault(j) PROVE JobInv'
    <3> DEFINE alone == \A k \in Jobs \ {j} : job[k].at = "idle"
               s == [Call("load", "getIndex", Nil) EXCEPT !.calm = alone]
    <3>1. Put(j, s)
      BY <2>3 DEF loadVault
    <3>2. Call("load", "getIndex", Nil) \in GoodJob
      BY GoodCalls DEF Starts, Kinds
    <3>3. alone \in BOOLEAN
      OBVIOUS
    <3> HIDE DEF alone
    <3>4. s \in GoodJob
      BY <3>2, <3>3 DEF GoodJob, GoodFields, HasNote
    <3> QED
      BY <3>1, <3>4, GoodPut
  <2>4. CASE vaultLoaded \/ permanentReadOnly
    BY <1>4, <2>1, <2>2, <2>4 DEF onUnlock, JobInv
  <2>5. CASE ~(vaultLoaded \/ permanentReadOnly)
    BY <1>4, <2>1, <2>2, <2>3, <2>5 DEF onUnlock
  <2> QED
    BY <2>4, <2>5
<1>5. CASE Reload
  <2>1. ServerInv' /\ IndexInv'
    BY <1>5, <1>0, GoodServer DEF Reload, IndexInv
  <2>l. locks' \in 0..MaxLocks
    BY <1>5, VaultAssumption DEF Reload
  <2>2. TabInv'
    BY <1>5, <2>l, GoodBuffer DEF Reload, TabInv
  <2>3. JobInv'
    BY <1>5, <1>init DEF Reload, JobInv
  <2> QED
    BY <2>1, <2>2, <2>3
<1>6. CASE SweepSelect
  <2>1. ServerInv'
    BY <1>6, <1>rows DEF SweepSelect, ServerInv, Flagged
  <2>2. TabInv' /\ IndexInv' /\ JobInv'
    BY <1>6 DEF SweepSelect, TabInv, IndexInv, JobInv, keyVars, treeVars, bufferVars
  <2> QED
    BY <2>1, <2>2
<1>7. CASE SweepDelete
  <2>1. rows' \in Rows
    BY <1>7, GoodRows DEF SweepDelete, ServerInv
  <2>2. ServerInv'
    BY <1>7, <2>1 DEF SweepDelete, ServerInv
  <2>3. \A k \in Jobs : [job[k] EXCEPT !.calm = FALSE] \in GoodJob
    <3> TAKE k \in Jobs
    <3>1. job[k] \in GoodJob
      BY DEF JobInv
    <3> QED
      BY <3>1 DEF GoodJob, GoodFields, HasNote
  <2>4. JobInv'
    BY <1>7, <2>3 DEF SweepDelete, JobInv
  <2>5. TabInv' /\ IndexInv'
    BY <1>7 DEF SweepDelete, TabInv, IndexInv, keyVars, treeVars, bufferVars
  <2> QED
    BY <2>2, <2>4, <2>5
<1> QED
  BY <1>1, <1>2, <1>3, <1>4, <1>5, <1>6, <1>7

\* The history of a step is written at its end: it grows, within what it can name.
LEMMA CrossedGrows ==
    ASSUME [Next]_vars
    PROVE  crossed \subseteq crossed' /\ (crossed \subseteq Overlaps => crossed' \subseteq Overlaps)
<1>1. CASE UNCHANGED crossed
  BY <1>1
<1>2. ASSUME NEW S, S \subseteq Overlaps, Cross(S)
      PROVE  crossed \subseteq crossed' /\ (crossed \subseteq Overlaps => crossed' \subseteq Overlaps)
  BY <1>2 DEF Cross
<1>s. /\ Switched \subseteq Overlaps /\ Reopened \subseteq Overlaps
      /\ \A j \in Jobs : Written(j) \subseteq Overlaps
  BY DEF Switched, Reopened, Written, Overlaps
<1>3. ASSUME NEW j \in Jobs, Serve(j) \/ Load(j)
      PROVE  UNCHANGED crossed \/ Cross(Switched)
  BY <1>3 DEF Serve, Load, initialize, AfterGetIndex, AfterGetRows, NextOrphan, AfterGetOrphan,
              OrphansDone, AfterPersist
<1>4. ASSUME NEW j \in Jobs, Continue(j)
      PROVE  UNCHANGED crossed \/ Cross(Switched) \/ Cross({})
  BY <1>4 DEF Continue, AfterOpen, persistNoteRow, AfterRow, AfterDelete, AfterFlag, AfterIndex
<1>5. ASSUME NEW j \in Jobs, User(j)
      PROVE  \/ UNCHANGED crossed \/ Cross(Written(j))
             \/ Cross(Written(j) \cup Reopened) \/ Cross(Written(j) \cup Switched)
  BY <1>5 DEF User, saveNote, editIndex, openNote, moveNoteToTrash, restoreTrashedNote,
              deleteNoteForever, deleteFolderToTrash
<1>6. ASSUME Type \/ NewNote
      PROVE  Cross({"typed"}) \/ Cross({}) \/ Cross(Switched)
  BY <1>6 DEF Type, NewNote
<1>7. CASE onLock \/ onUnlock \/ Reload \/ SweepSelect \/ SweepDelete \/ UNCHANGED vars
  BY <1>1, <1>7 DEF onLock, onUnlock, Reload, SweepSelect, SweepDelete, vars
<1>8. ASSUME NEW j \in Jobs, User(j)
      PROVE  crossed \subseteq crossed' /\ (crossed \subseteq Overlaps => crossed' \subseteq Overlaps)
  <2>1. /\ Written(j) \cup Reopened \subseteq Overlaps
        /\ Written(j) \cup Switched \subseteq Overlaps
    BY <1>s
  <2> QED
    BY <1>1, <1>2, <1>5, <1>8, <1>s, <2>1
<1>9. {"typed"} \subseteq Overlaps
  BY DEF Overlaps
<1> QED
  BY <1>1, <1>2, <1>s, <1>3, <1>4, <1>6, <1>7, <1>8, <1>9 DEF Next

-----------------------------------------------------------------------------
(* The theorems. *)

CrossedInv == crossed \subseteq Overlaps

\* The invariant holds of a page that has just been opened over an empty vault.
LEMMA InitIInv == ASSUME Init PROVE IInv
<1> USE DEF Init, Opened
<1>0. createEmpty \in Closed /\ Empty \in Text
  BY EmptyGood
<1>1. ServerInv
  <2>1. rows \in [{} -> Row]
    OBVIOUS
  <2> QED
    BY <2>1 DEF ServerInv, Rows
<1>l. locks \in 0..MaxLocks
  BY VaultAssumption
<1>2. TabInv /\ IndexInv
  BY <1>0, <1>l DEF TabInv, IndexInv
<1>3. JobInv
  <2>1. Idle \in GoodJob /\ Call("init", "session", Nil) \in GoodJob
    BY GoodCalls DEF Kinds, Starts
  <2> QED
    BY <2>1 DEF JobInv
<1> QED
  BY <1>1, <1>2, <1>3 DEF IInv

\* Every step keeps it.
LEMMA StepIInv == ASSUME IInv, [Next]_vars PROVE IInv'
<1>1. CASE Next
  BY <1>1, ServeKeeps, LoadKeeps, ContinueKeeps, UserKeeps, OthersKeep DEF Next
<1>2. CASE UNCHANGED vars
  BY <1>2 DEF vars, serverVars, keyVars, treeVars, bufferVars,
              IInv, ServerInv, TabInv, IndexInv, JobInv
<1> QED
  BY <1>1, <1>2

\* It gives the two properties.
LEMMA FromIInv == ASSUME IInv PROVE (CrossedInv => TypeOK) /\ FoldersStay
<1>1. Closed \subseteq VaultIndexData /\ \A ix \in Closed : FoldersExist(ix)
  BY DEF Closed
<1>2. GoodJob \subseteq Job
  BY <1>1 DEF GoodJob, GoodFields, Job
<1>3. CrossedInv => TypeOK
  BY <1>1, <1>2 DEF CrossedInv, IInv, ServerInv, TabInv, IndexInv, JobInv, Rows, TypeOK
<1>4. FoldersStay
  BY <1>1 DEF IInv, ServerInv, IndexInv, FoldersStay
<1> QED
  BY <1>3, <1>4

\* The vault's state is well-typed, whatever is lost, refused, reloaded or swept.
THEOREM VaultTypeOK == Spec => []TypeOK
<1>1. Init => IInv /\ CrossedInv
  BY InitIInv DEF Init, CrossedInv
<1>2. IInv /\ CrossedInv /\ [Next]_vars => IInv' /\ CrossedInv'
  BY StepIInv, CrossedGrows DEF CrossedInv
<1>3. IInv /\ CrossedInv => TypeOK
  BY FromIInv
<1> QED
  BY <1>1, <1>2, <1>3, PTL DEF Spec

\* No index, the tab's or the server's, names a folder it does not have
\* (vault-index.js: moveNote, restoreNote, deleteFolder), though indexes are rolled
\* back, overwritten by older ones and lost on the way.
THEOREM VaultFoldersStay == Spec => []FoldersStay
<1>1. Init => IInv
  BY InitIInv
<1>2. IInv /\ [Next]_vars => IInv'
  BY StepIInv
<1>3. IInv => FoldersStay
  BY FromIInv
<1> QED
  BY <1>1, <1>2, <1>3, PTL DEF Spec

-----------------------------------------------------------------------------
(* What a step does to the fields of its job, the bookkeeping left out. *)

\* s is r but for the fields of C, its reply, and what only steers a load.
Keeps(r, s, C) ==
    /\ s.kind = r.kind
    /\ s.at = r.at \/ "at" \in C
    /\ s.note = r.note \/ "note" \in C
    /\ s.ids = r.ids \/ "ids" \in C
    /\ s.text = r.text \/ "text" \in C
    /\ s.flag = r.flag \/ "flag" \in C
    /\ s.body = r.body \/ "body" \in C
    /\ s.prev = r.prev \/ "prev" \in C
    /\ s.listed = r.listed \/ "listed" \in C
    /\ s.flagged = r.flagged

\* The other jobs stay where they are.
OthersStay(j) == \A k \in Jobs \ {j} : job'[k] = job[k]

\* A job is a record with the fields of a job.
LEMMA JobFields ==
    ASSUME IInv, NEW j \in Jobs
    PROVE  job[j] \in GoodFields /\ HasNote(job[j])
BY DEF IInv, JobInv, GoodJob

\* A job put in its slot is there, and nothing else moves.
LEMMA PutEffect ==
    ASSUME IInv, NEW j \in Jobs, NEW r, Put(j, r)
    PROVE  job'[j] = r /\ OthersStay(j)
BY DEF IInv, JobInv, Put, OthersStay

\* A request answered.
LEMMA AnswerEffect ==
    ASSUME IInv, NEW j \in Jobs, NEW r \in GoodFields, Answer(j, r)
    PROVE  /\ OthersStay(j)
           /\ Keeps(r, job'[j], {})
           /\ job'[j].reply \in {"ok", "no"}
<1>1. PICK reply \in {"ok", "no"} :
          Put(j, [r EXCEPT !.reply = reply, !.calm = r.calm /\ reply = "ok"])
  BY DEF Answer
<1> DEFINE s == [r EXCEPT !.reply = reply, !.calm = r.calm /\ reply = "ok"]
<1>2. Keeps(r, s, {}) /\ s.reply = reply
  BY DEF Keeps, GoodFields
<1> HIDE DEF s
<1>3. job'[j] = s /\ OthersStay(j)
  BY <1>1, PutEffect DEF s
<1> QED
  BY <1>2, <1>3

\* A request denied.
LEMMA DenyEffect ==
    ASSUME IInv, NEW j \in Jobs, Deny(j)
    PROVE  /\ OthersStay(j)
           /\ Keeps(job[j], job'[j], {})
           /\ job'[j].reply = "no"
<1> DEFINE s == [job[j] EXCEPT !.reply = "no", !.calm = FALSE]
<1>1. Keeps(job[j], s, {}) /\ s.reply = "no"
  BY JobFields DEF Keeps, GoodFields
<1>2. Put(j, s)
  BY DEF Deny
<1> HIDE DEF s
<1> QED
  BY <1>1, <1>2, PutEffect

\* A job ended.
LEMMA EndEffect ==
    ASSUME IInv, NEW j \in Jobs, End(j)
    PROVE  OthersStay(j) /\ job'[j] = Idle /\ job'[j].kind = "none" /\ job'[j].at = "idle"
<1>1. OthersStay(j) /\ job'[j] = Idle
  BY PutEffect DEF End
<1> QED
  BY <1>1 DEF Idle

\* A call made.
LEMMA CallEffect ==
    ASSUME NEW kind, NEW at, NEW n
    PROVE  /\ Call(kind, at, n).kind = kind /\ Call(kind, at, n).at = at
           /\ Call(kind, at, n).note = n /\ Call(kind, at, n).reply = "none"
BY DEF Call, Idle

\* persistIndex begun.
LEMMA PersistEffect ==
    ASSUME IInv, NEW j \in Jobs, NEW r \in GoodFields, NEW new, Persist(j, r, new)
    PROVE  /\ OthersStay(j)
           /\ Keeps(r, job'[j], {"body"})
           /\ job'[j].body = new /\ job'[j].reply \in {"none", "no"}
<1> DEFINE s == [r EXCEPT !.body = new, !.reply = IF CanPersist THEN "none" ELSE "no",
                          !.calm = r.calm /\ CanPersist]
<1>1. Keeps(r, s, {"body"}) /\ s.body = new /\ s.reply \in {"none", "no"}
  BY DEF Keeps, GoodFields
<1>2. Put(j, s)
  BY DEF Persist
<1> HIDE DEF s
<1> QED
  BY <1>1, <1>2, PutEffect

\* commitIndexChange begun.
LEMMA CommitEffect ==
    ASSUME IInv, NEW j \in Jobs, NEW r \in GoodFields, NEW new, Commit(j, r, new)
    PROVE  /\ OthersStay(j)
           /\ Keeps(r, job'[j], {"at", "body", "prev"})
           /\ job'[j].at = "index" /\ job'[j].body = new /\ job'[j].prev = index
           /\ job'[j].reply \in {"none", "no"}
           /\ index' = new
<1> DEFINE c == [r EXCEPT !.at = "index", !.prev = index]
<1>1. c \in GoodFields
  BY DEF GoodFields, Posts, IInv, IndexInv
<1>2. Keeps(r, c, {"at", "prev"}) /\ c.at = "index" /\ c.prev = index
  BY DEF Keeps, GoodFields
<1>3. Persist(j, c, new) /\ index' = new
  BY DEF Commit
<1> HIDE DEF c
<1>4. /\ OthersStay(j)
      /\ Keeps(c, job'[j], {"body"})
      /\ job'[j].body = new /\ job'[j].reply \in {"none", "no"}
  BY <1>1, <1>3, PersistEffect
<1> QED
  BY <1>2, <1>3, <1>4 DEF Keeps

\* setTrashed begun.
LEMMA FlagEffect ==
    ASSUME IInv, NEW j \in Jobs, NEW r \in GoodFields, NEW ids, NEW flag, Flag(j, r, ids, flag)
    PROVE  /\ OthersStay(j)
           /\ Keeps(r, job'[j], {"at", "ids", "flag"})
           /\ job'[j].at = "flag" /\ job'[j].ids = ids /\ job'[j].flag = flag
           /\ job'[j].reply = "none"
<1> DEFINE s == [r EXCEPT !.at = "flag", !.reply = "none", !.ids = ids, !.flag = flag]
<1>1. /\ Keeps(r, s, {"at", "ids", "flag"})
      /\ s.at = "flag" /\ s.ids = ids /\ s.flag = flag /\ s.reply = "none"
  BY DEF Keeps, GoodFields
<1>2. Put(j, s)
  BY DEF Flag
<1> HIDE DEF s
<1> QED
  BY <1>1, <1>2, PutEffect

\* What the server does for a request: the request as it was, and as it is then.
Refused(r, s) ==
    /\ r.at \in Gets \cup Posts
    /\ Keeps(r, s, {}) /\ s.reply \in {"no", "gone"}
    /\ UNCHANGED <<rows, saved>>
IndexSaved(r, s) ==
    /\ r.at \in {"index", "persist"}
    /\ Keeps(r, s, {}) /\ s.reply \in {"ok", "no"}
    /\ saved' = r.body /\ rows' = rows
RowCreated(r, s) ==
    /\ r.at = "create"
    /\ Keeps(r, s, {"note", "text"}) /\ s.reply \in {"ok", "no"}
    /\ s.note \in Notes \ used
    /\ s.text = [own |-> IF r.text.own = Nil THEN s.note ELSE r.text.own, ver |-> r.text.ver]
    /\ rows' = [m \in DOMAIN rows \cup {s.note} |->
                    IF m = s.note THEN [text |-> s.text, trashed_at |-> FALSE] ELSE rows[m]]
    /\ saved' = saved
RowRead(r, s) ==
    /\ r.at = "update" /\ r.note \in DOMAIN rows
    /\ Keeps(r, s, {"at", "flag"}) /\ s.at = "updating" /\ s.reply = "none"
    /\ s.flag = rows[r.note].trashed_at
    /\ UNCHANGED <<rows, saved>>
RowWritten(r, s) ==
    /\ r.at = "updating"
    /\ Keeps(r, s, {"at"}) /\ s.at = "update" /\ s.reply \in {"ok", "no"}
    /\ rows' = [m \in DOMAIN rows \cup {r.note} |->
                    IF m = r.note THEN [text |-> r.text, trashed_at |-> r.flag] ELSE rows[m]]
    /\ saved' = saved
RowDeleted(r, s) ==
    /\ r.at = "delete"
    /\ Keeps(r, s, {}) /\ s.reply \in {"ok", "no"}
    /\ rows' = Restrict(rows, DOMAIN rows \ {r.note})
    /\ saved' = saved
RowsFlagged(r, s) ==
    /\ r.at = "flag"
    /\ Keeps(r, s, {}) /\ s.reply \in {"ok", "no"}
    /\ rows' = [n \in DOMAIN rows |->
                    IF n \in r.ids THEN [rows[n] EXCEPT !.trashed_at = r.flag] ELSE rows[n]]
    /\ saved' = saved
Got(r, s) ==
    /\ s.reply = "ok"
    /\ \/ /\ r.at = "getIndex" /\ Keeps(r, s, {"body"}) /\ s.body = saved
       \/ /\ r.at = "getRows" /\ s.listed = DOMAIN rows /\ s.flagged = Flagged
          /\ s.kind = r.kind /\ s.at = r.at
       \/ /\ r.at = "getOrphan" /\ Keeps(r, s, {"flag"})
          /\ r.note \in DOMAIN rows /\ s.flag = rows[r.note].trashed_at
       \/ /\ r.at = "open" /\ Keeps(r, s, {"text"})
          /\ r.note \in DOMAIN rows /\ s.text = rows[r.note].text
    /\ UNCHANGED <<rows, saved>>

Served(r, s) ==
    /\ r.reply = "none"
    /\ \/ Refused(r, s) \/ IndexSaved(r, s) \/ RowCreated(r, s) \/ RowRead(r, s)
       \/ RowWritten(r, s) \/ RowDeleted(r, s) \/ RowsFlagged(r, s) \/ Got(r, s)

\* The requests, one by one.
LEMMA ServeEffect ==
    ASSUME IInv, NEW j \in Jobs, Serve(j)
    PROVE  OthersStay(j) /\ Served(job[j], job'[j])
<1> DEFINE r == job[j]
<1>r. r \in GoodFields /\ HasNote(r)
  BY JobFields
<1>rows. DOMAIN rows \subseteq Notes
  BY PartialFunctions DEF IInv, ServerInv, Rows
<1>deny. ASSUME Deny(j), r.at \in Gets \cup Posts, r.reply = "none", UNCHANGED <<rows, saved>>
         PROVE  OthersStay(j) /\ Served(r, job'[j])
  BY <1>deny, DenyEffect DEF Served, Refused
<1>1. CASE Refuse(j)
  <2>1. PICK reply \in {"no", "gone"} : Put(j, [r EXCEPT !.reply = reply, !.calm = FALSE])
    BY <1>1 DEF Refuse
  <2> DEFINE s == [r EXCEPT !.reply = reply, !.calm = FALSE]
  <2>2. Keeps(r, s, {}) /\ s.reply = reply
    BY <1>r DEF Keeps, GoodFields
  <2> HIDE DEF s
  <2>3. job'[j] = s /\ OthersStay(j)
    BY <2>1, PutEffect DEF s
  <2> QED
    BY <1>1, <2>2, <2>3 DEF Refuse, Served, Refused, serverVars
<1>2. CASE ServeIndex(j)
  <2>1. Answer(j, r)
    BY <1>2 DEF ServeIndex
  <2>2. OthersStay(j) /\ Keeps(r, job'[j], {}) /\ job'[j].reply \in {"ok", "no"}
    BY <1>r, <2>1, AnswerEffect
  <2> QED
    BY <1>2, <2>2 DEF ServeIndex, MayAnswer, Served, IndexSaved
<1>3. CASE create_vault_note(j)
  <2>0. r.at = "create" /\ r.reply = "none" /\ saved' = saved
    BY <1>3 DEF create_vault_note, MayAnswer
  <2>1. CASE Cardinality(DOMAIN rows) >= MaxRows
    BY <1>3, <2>0, <2>1, <1>deny DEF create_vault_note, Posts
  <2>2. CASE ~(Cardinality(DOMAIN rows) >= MaxRows)
    <3> DEFINE text(n) == [own |-> IF r.text.own = Nil THEN n ELSE r.text.own, ver |-> r.text.ver]
    <3>1. PICK n \in Notes \ used :
              /\ rows' = [m \in DOMAIN rows \cup {n} |->
                              IF m = n THEN [text |-> text(n), trashed_at |-> FALSE] ELSE rows[m]]
              /\ Answer(j, [r EXCEPT !.note = n, !.text = text(n)])
      BY <1>3, <2>2 DEF create_vault_note
    <3> DEFINE q == [r EXCEPT !.note = n, !.text = text(n)]
    <3>2. text(n) \in Text
      BY <1>r DEF GoodFields, Text
    <3>t. text(n) = [own |-> IF r.text.own = Nil THEN n ELSE r.text.own, ver |-> r.text.ver]
      OBVIOUS
    <3> HIDE DEF text
    <3>3. q \in GoodFields /\ Keeps(r, q, {"note", "text"}) /\ q.note = n /\ q.text = text(n)
      BY <1>r, <3>2 DEF GoodFields, Keeps
    <3>4. Answer(j, q)
      BY <3>1
    <3> HIDE DEF q
    <3>5. OthersStay(j) /\ Keeps(q, job'[j], {}) /\ job'[j].reply \in {"ok", "no"}
      BY <3>3, <3>4, AnswerEffect
    <3>6. /\ Keeps(r, job'[j], {"note", "text"})
          /\ job'[j].note = n /\ job'[j].text = text(n)
      BY <3>3, <3>5 DEF Keeps
    <3> QED
      BY <2>0, <3>1, <3>t, <3>5, <3>6 DEF Served, RowCreated
  <2> QED
    BY <2>1, <2>2
<1>4. CASE update_vault_note_get(j)
  <2>0. r.at = "update" /\ r.reply = "none" /\ UNCHANGED <<rows, saved>>
    BY <1>4 DEF update_vault_note_get, MayAnswer, serverVars
  <2>1. CASE r.note \in DOMAIN rows
    <3> DEFINE s == [r EXCEPT !.at = "updating", !.flag = rows[r.note].trashed_at]
    <3>1. Put(j, s)
      BY <1>4, <2>1 DEF update_vault_note_get
    <3>2. /\ Keeps(r, s, {"at", "flag"}) /\ s.at = "updating"
          /\ s.flag = rows[r.note].trashed_at /\ s.reply = "none"
      BY <1>r, <2>0 DEF Keeps, GoodFields
    <3> HIDE DEF s
    <3> QED
      BY <2>0, <2>1, <3>1, <3>2, PutEffect DEF Served, RowRead
  <2>2. CASE r.note \notin DOMAIN rows
    BY <1>4, <2>0, <2>2, <1>deny DEF update_vault_note_get, Posts
  <2> QED
    BY <2>1, <2>2
<1>5. CASE update_vault_note_save(j)
  <2> DEFINE q == [r EXCEPT !.at = "update"]
             row == [text |-> r.text, trashed_at |-> r.flag]
  <2>0. /\ r.at = "updating" /\ r.reply = "none" /\ saved' = saved
        /\ rows' = [m \in DOMAIN rows \cup {r.note} |-> IF m = r.note THEN row ELSE rows[m]]
        /\ Answer(j, q)
    BY <1>5 DEF update_vault_note_save, MayAnswer
  <2>1. q \in GoodFields /\ Keeps(r, q, {"at"}) /\ q.at = "update"
    BY <1>r DEF GoodFields, Keeps, Posts
  <2> HIDE DEF q
  <2>2. OthersStay(j) /\ Keeps(q, job'[j], {}) /\ job'[j].reply \in {"ok", "no"}
    BY <2>0, <2>1, AnswerEffect
  <2>3. Keeps(r, job'[j], {"at"}) /\ job'[j].at = "update"
    BY <2>1, <2>2 DEF Keeps
  <2> QED
    BY <2>0, <2>2, <2>3 DEF Served, RowWritten
<1>6. CASE delete_vault_note(j)
  <2>0. r.at = "delete" /\ r.reply = "none" /\ Answer(j, r) /\ saved' = saved
        /\ rows' = Restrict(rows, DOMAIN rows \ {r.note})
    BY <1>6 DEF delete_vault_note, MayAnswer
  <2>1. OthersStay(j) /\ Keeps(r, job'[j], {}) /\ job'[j].reply \in {"ok", "no"}
    BY <1>r, <2>0, AnswerEffect
  <2> QED
    BY <2>0, <2>1 DEF Served, RowDeleted
<1>7. CASE set_vault_notes_trashed(j)
  <2> DEFINE after == [n \in DOMAIN rows |-> IF n \in r.ids THEN [rows[n] EXCEPT !.trashed_at = r.flag] ELSE rows[n]]
  <2>0. r.at = "flag" /\ r.reply = "none" /\ Answer(j, r) /\ saved' = saved /\ rows' = after
    BY <1>7 DEF set_vault_notes_trashed, MayAnswer
  <2>1. OthersStay(j) /\ Keeps(r, job'[j], {}) /\ job'[j].reply \in {"ok", "no"}
    BY <1>r, <2>0, AnswerEffect
  <2> QED
    BY <2>0, <2>1 DEF Served, RowsFlagged
<1>8. CASE ServeGet(j)
  <2>0. r.reply = "none" /\ UNCHANGED <<rows, saved>>
    BY <1>8 DEF ServeGet, MayAnswer, serverVars
  <2>1. CASE r.at = "getIndex" /\ Put(j, [r EXCEPT !.reply = "ok", !.body = saved])
    <3> DEFINE s == [r EXCEPT !.reply = "ok", !.body = saved]
    <3>1. Keeps(r, s, {"body"}) /\ s.body = saved /\ s.reply = "ok"
      BY <1>r DEF Keeps, GoodFields
    <3>2. Put(j, s)
      BY <2>1
    <3> HIDE DEF s
    <3>3. job'[j] = s /\ OthersStay(j)
      BY <3>2, PutEffect
    <3> QED
      BY <2>0, <2>1, <3>1, <3>3 DEF Served, Got
  <2>2. CASE r.at = "getRows" /\ Put(j, [r EXCEPT !.reply = "ok", !.listed = DOMAIN rows, !.flagged = Flagged])
    <3> DEFINE s == [r EXCEPT !.reply = "ok", !.listed = DOMAIN rows, !.flagged = Flagged]
    <3>1. /\ s.listed = DOMAIN rows /\ s.flagged = Flagged /\ s.reply = "ok"
          /\ s.kind = r.kind /\ s.at = r.at
      BY <1>r DEF GoodFields
    <3>2. Put(j, s)
      BY <2>2
    <3> HIDE DEF s
    <3>3. job'[j] = s /\ OthersStay(j)
      BY <3>2, PutEffect
    <3> QED
      BY <2>0, <2>2, <3>1, <3>3 DEF Served, Got
  <2>3. CASE r.at = "getOrphan" /\ r.note \in DOMAIN rows
             /\ Put(j, [r EXCEPT !.reply = "ok", !.flag = rows[r.note].trashed_at])
    <3> DEFINE s == [r EXCEPT !.reply = "ok", !.flag = rows[r.note].trashed_at]
    <3>1. Keeps(r, s, {"flag"}) /\ s.flag = rows[r.note].trashed_at /\ s.reply = "ok"
      BY <1>r DEF Keeps, GoodFields
    <3>2. Put(j, s)
      BY <2>3
    <3> HIDE DEF s
    <3>3. job'[j] = s /\ OthersStay(j)
      BY <3>2, PutEffect
    <3> QED
      BY <2>0, <2>3, <3>1, <3>3 DEF Served, Got
  <2>4. CASE r.at = "open" /\ r.note \in DOMAIN rows
             /\ Put(j, [r EXCEPT !.reply = "ok", !.text = rows[r.note].text])
    <3> DEFINE s == [r EXCEPT !.reply = "ok", !.text = rows[r.note].text]
    <3>1. Keeps(r, s, {"text"}) /\ s.text = rows[r.note].text /\ s.reply = "ok"
      BY <1>r DEF Keeps, GoodFields
    <3>2. Put(j, s)
      BY <2>4
    <3> HIDE DEF s
    <3>3. job'[j] = s /\ OthersStay(j)
      BY <3>2, PutEffect
    <3> QED
      BY <2>0, <2>4, <3>1, <3>3 DEF Served, Got
  <2>5. CASE Deny(j) /\ r.at \in {"getOrphan", "open"}
    BY <2>0, <2>5, <1>deny DEF Gets
  <2> QED
    BY <1>8, <2>1, <2>2, <2>3, <2>4, <2>5 DEF ServeGet, MayAnswer
<1> QED
  BY <1>1, <1>2, <1>3, <1>4, <1>5, <1>6, <1>7, <1>8 DEF Serve

\* What a step of a load does, with its job before and after.
LoadStep(r, s) ==
    \/ \* it ends, as far as it has come
       s = Idle /\ r.at \in {"session", "getIndex", "getRows", "getOrphan"}
       /\ index' = index /\ vaultLoaded' = vaultLoaded
    \/ \* loadVault
       /\ r.at = "session"
       /\ s.kind = "load" /\ s.at = "getIndex" /\ s.reply = "none"
       /\ index' = index /\ vaultLoaded' = vaultLoaded
    \/ \* AfterGetIndex
       /\ r.at = "getIndex" /\ r.reply = "ok" /\ r.body # Unreadable
       /\ s.kind = r.kind /\ s.at = "getRows" /\ s.reply = "none"
       /\ index' = (IF r.body = Unset THEN index ELSE r.body) /\ vaultLoaded' = vaultLoaded
    \/ \* AfterGetRows
       /\ r.at = "getRows" /\ r.reply = "ok"
       /\ Keeps(r, s, {"at", "ids", "listed"}) /\ s.at = "orphans" /\ s.reply = "none"
       /\ s.ids = orphanIds(index, r.listed)
       /\ index' = reconcile(index, r.listed) /\ vaultLoaded' = vaultLoaded
    \/ \* NextOrphan
       /\ r.at = "orphans"
       /\ Keeps(r, s, {"at", "ids", "note"}) /\ s.at = "getOrphan" /\ s.reply = r.reply
       /\ s.note \in r.ids /\ s.ids = r.ids \ {s.note}
       /\ index' = index /\ vaultLoaded' = vaultLoaded
    \/ \* AfterGetOrphan
       /\ r.at = "getOrphan"
       /\ Keeps(r, s, {"at", "note", "flag"}) /\ s.at = "orphans" /\ s.reply = "none"
       /\ \/ index' = index
          \/ r.reply = "ok" /\ r.note \in Notes /\ index' = addNote(index, r.note, r.flag)
       /\ vaultLoaded' = vaultLoaded
    \/ \* OrphansDone, with an index to save
       /\ r.at = "orphans"
       /\ Keeps(r, s, {"at", "body"}) /\ s.at = "persist" /\ s.body = index
       /\ index' = index /\ vaultLoaded' = vaultLoaded
    \/ \* Loaded
       /\ r.at \in {"orphans", "persist"}
       /\ \/ s = Idle
          \/ /\ s.kind = r.kind /\ s.at = "flag" /\ s.reply = "none" /\ s.flag = TRUE
             /\ s.ids = trashFlagDrift(index, r.flagged, TRUE)
             /\ s.listed \subseteq trashFlagDrift(index, r.flagged, FALSE)
          \/ /\ s.kind = r.kind /\ s.at = "flag" /\ s.reply = "none" /\ s.flag = FALSE
             /\ s.ids = trashFlagDrift(index, r.flagged, FALSE)
       /\ index' = index /\ vaultLoaded' = TRUE

\* The end of a load.
LEMMA LoadedEffect ==
    ASSUME IInv, NEW j \in Jobs, Loaded(j), job[j].at \in {"orphans", "persist"}, index' = index
    PROVE  OthersStay(j) /\ LoadStep(job[j], job'[j])
<1> DEFINE r == job[j]
           Drift(v) == IF readOnly THEN {} ELSE trashFlagDrift(index, job[j].flagged, v)
<1>r. r \in GoodFields
  BY JobFields
<1>0. /\ Drift(TRUE) # {} => Drift(TRUE) = trashFlagDrift(index, r.flagged, TRUE)
      /\ Drift(FALSE) # {} => Drift(FALSE) = trashFlagDrift(index, r.flagged, FALSE)
      /\ Drift(FALSE) \subseteq trashFlagDrift(index, r.flagged, FALSE)
  OBVIOUS
<1>d. Drift(FALSE) \in SUBSET Notes
  BY FieldsClosed DEF trashFlagDrift, IInv, IndexInv
<1>4. /\ vaultLoaded' = TRUE
      /\ \/ Drift(TRUE) # {} /\ Flag(j, [r EXCEPT !.listed = Drift(FALSE)], Drift(TRUE), TRUE)
         \/ Drift(FALSE) # {} /\ Flag(j, [r EXCEPT !.listed = {}], Drift(FALSE), FALSE)
         \/ End(j)
  BY DEF Loaded
<1> HIDE DEF Drift
<1>1. CASE Drift(TRUE) # {} /\ Flag(j, [r EXCEPT !.listed = Drift(FALSE)], Drift(TRUE), TRUE)
  <2> DEFINE q == [r EXCEPT !.listed = Drift(FALSE)]
  <2>1. q \in GoodFields /\ q.kind = r.kind /\ q.listed = Drift(FALSE)
    BY <1>r, <1>d DEF GoodFields
  <2>2. Flag(j, q, Drift(TRUE), TRUE)
    BY <1>1
  <2> HIDE DEF q
  <2>3. /\ OthersStay(j)
        /\ Keeps(q, job'[j], {"at", "ids", "flag"})
        /\ job'[j].at = "flag" /\ job'[j].ids = Drift(TRUE) /\ job'[j].flag = TRUE
        /\ job'[j].reply = "none"
    BY <2>1, <2>2, FlagEffect
  <2>4. job'[j].kind = r.kind /\ job'[j].listed = Drift(FALSE)
    BY <2>1, <2>3 DEF Keeps
  <2> QED
    BY <1>0, <1>1, <1>4, <2>3, <2>4 DEF LoadStep
<1>2. CASE Drift(FALSE) # {} /\ Flag(j, [r EXCEPT !.listed = {}], Drift(FALSE), FALSE)
  <2> DEFINE q == [r EXCEPT !.listed = {}]
  <2>1. q \in GoodFields /\ q.kind = r.kind
    BY <1>r DEF GoodFields
  <2>2. Flag(j, q, Drift(FALSE), FALSE)
    BY <1>2
  <2> HIDE DEF q
  <2>3. /\ OthersStay(j)
        /\ Keeps(q, job'[j], {"at", "ids", "flag"})
        /\ job'[j].at = "flag" /\ job'[j].ids = Drift(FALSE) /\ job'[j].flag = FALSE
        /\ job'[j].reply = "none"
    BY <2>1, <2>2, FlagEffect
  <2>4. job'[j].kind = r.kind
    BY <2>1, <2>3 DEF Keeps
  <2> QED
    BY <1>0, <1>2, <1>4, <2>3, <2>4 DEF LoadStep
<1>3. CASE End(j)
  BY <1>3, <1>4, EndEffect DEF LoadStep
<1> QED
  BY <1>1, <1>2, <1>3, <1>4

\* The steps of a load, one by one.
LEMMA LoadEffect ==
    ASSUME IInv, NEW j \in Jobs, Load(j)
    PROVE  OthersStay(j) /\ LoadStep(job[j], job'[j])
<1> DEFINE r == job[j]
<1>r. r \in GoodFields /\ HasNote(r)
  BY JobFields
<1>end. ASSUME End(j), r.at \in {"session", "getIndex", "getRows", "getOrphan"},
               index' = index, vaultLoaded' = vaultLoaded
        PROVE  OthersStay(j) /\ LoadStep(r, job'[j])
  BY <1>end, EndEffect DEF LoadStep
<1>1. CASE initialize(j)
  <2>0. r.at = "session" /\ index' = index /\ vaultLoaded' = vaultLoaded
    BY <1>1 DEF initialize, treeVars
  <2>1. CASE loadVault(j)
    <3> DEFINE alone == \A k \in Jobs \ {j} : job[k].at = "idle"
               s == [Call("load", "getIndex", Nil) EXCEPT !.calm = alone]
    <3>1. s.kind = "load" /\ s.at = "getIndex" /\ s.reply = "none"
      BY DEF Call, Idle
    <3>2. Put(j, s)
      BY <2>1 DEF loadVault
    <3> HIDE DEF s
    <3>3. job'[j] = s /\ OthersStay(j)
      BY <3>2, PutEffect
    <3> QED
      BY <2>0, <3>1, <3>3 DEF LoadStep
  <2>2. CASE End(j)
    BY <1>end, <2>0, <2>2
  <2> QED
    BY <1>1, <2>1, <2>2 DEF initialize
<1>2. CASE AfterGetIndex(j)
  <2> DEFINE s == [r EXCEPT !.at = "getRows", !.reply = "none", !.body = Unset]
  <2>0. r.at = "getIndex" /\ vaultLoaded' = vaultLoaded
    BY <1>2 DEF AfterGetIndex, At
  <2>1. CASE End(j) /\ index' = index
    BY <1>end, <2>0, <2>1
  <2>2. CASE /\ r.reply = "ok" /\ r.body # Unreadable
             /\ index' = (IF r.body = Unset THEN index ELSE r.body)
             /\ Put(j, s)
    <3>1. s.kind = r.kind /\ s.at = "getRows" /\ s.reply = "none"
      BY <1>r DEF GoodFields
    <3> HIDE DEF s
    <3>2. job'[j] = s /\ OthersStay(j)
      BY <2>2, PutEffect
    <3> QED
      BY <2>0, <2>2, <3>1, <3>2 DEF LoadStep
  <2> QED
    BY <1>2, <2>1, <2>2 DEF AfterGetIndex
<1>3. CASE AfterGetRows(j)
  <2> DEFINE s == [r EXCEPT !.at = "orphans", !.reply = "none", !.listed = {},
                            !.ids = orphanIds(index, r.listed),
                            !.changed = DOMAIN index.notes \ r.listed # {}]
  <2>0. r.at = "getRows" /\ vaultLoaded' = vaultLoaded
    BY <1>3 DEF AfterGetRows, At
  <2>1. CASE End(j) /\ index' = index
    BY <1>end, <2>0, <2>1
  <2>2. CASE r.reply = "ok" /\ index' = reconcile(index, r.listed) /\ Put(j, s)
    <3>1. /\ Keeps(r, s, {"at", "ids", "listed"}) /\ s.at = "orphans" /\ s.reply = "none"
          /\ s.ids = orphanIds(index, r.listed)
      BY <1>r DEF GoodFields, Keeps
    <3> HIDE DEF s
    <3>2. job'[j] = s /\ OthersStay(j)
      BY <2>2, PutEffect
    <3> QED
      BY <2>0, <2>2, <3>1, <3>2 DEF LoadStep
  <2> QED
    BY <1>3, <2>1, <2>2 DEF AfterGetRows
<1>4. CASE NextOrphan(j)
  <2>0. r.at = "orphans" /\ vaultLoaded' = vaultLoaded /\ index' = index
    BY <1>4 DEF NextOrphan, treeVars
  <2>1. PICK n \in r.ids : Put(j, [r EXCEPT !.at = "getOrphan", !.note = n, !.ids = r.ids \ {n}])
    BY <1>4 DEF NextOrphan
  <2> DEFINE s == [r EXCEPT !.at = "getOrphan", !.note = n, !.ids = r.ids \ {n}]
  <2>2. /\ Keeps(r, s, {"at", "ids", "note"}) /\ s.at = "getOrphan" /\ s.reply = r.reply
        /\ s.note = n /\ s.ids = r.ids \ {n}
    BY <1>r DEF GoodFields, Keeps
  <2>3. Put(j, s)
    BY <2>1
  <2> HIDE DEF s
  <2>4. job'[j] = s /\ OthersStay(j)
    BY <2>3, PutEffect
  <2> QED
    BY <2>0, <2>1, <2>2, <2>4 DEF LoadStep
<1>5. CASE AfterGetOrphan(j)
  <2> DEFINE on == [r EXCEPT !.at = "orphans", !.reply = "none", !.note = Nil, !.flag = FALSE]
             more == [on EXCEPT !.changed = TRUE]
  <2>0. r.at = "getOrphan" /\ r.note \in Notes /\ r.reply # "none" /\ vaultLoaded' = vaultLoaded
    BY <1>5, <1>r DEF AfterGetOrphan, At, HasNote
  <2>1. CASE End(j) /\ index' = index
    BY <1>end, <2>0, <2>1
  <2>2. ASSUME NEW s \in {on, more}
        PROVE  Keeps(r, s, {"at", "note", "flag"}) /\ s.at = "orphans" /\ s.reply = "none"
    BY <1>r DEF GoodFields, Keeps
  <2>3. \/ End(j) /\ index' = index
        \/ Put(j, on) /\ index' = index
        \/ Put(j, more) /\ r.reply = "ok" /\ index' = addNote(index, r.note, r.flag)
    BY <1>5 DEF AfterGetOrphan, treeVars
  <2> HIDE DEF on, more
  <2>4. CASE Put(j, on) /\ index' = index
    <3>1. job'[j] = on /\ OthersStay(j)
      BY <2>4, PutEffect
    <3> QED
      BY <2>0, <2>2, <2>4, <3>1 DEF LoadStep
  <2>5. CASE Put(j, more) /\ r.reply = "ok" /\ index' = addNote(index, r.note, r.flag)
    <3>1. job'[j] = more /\ OthersStay(j)
      BY <2>5, PutEffect
    <3> QED
      BY <2>0, <2>2, <2>5, <3>1 DEF LoadStep
  <2> QED
    BY <2>1, <2>3, <2>4, <2>5
<1>6. CASE OrphansDone(j)
  <2>0. r.at = "orphans" /\ index' = index
    BY <1>6 DEF OrphansDone, treeVars
  <2>1. CASE r.changed
    <3> DEFINE q == [r EXCEPT !.at = "persist", !.changed = FALSE]
    <3>1. q \in GoodFields /\ Keeps(r, q, {"at"}) /\ q.at = "persist"
      BY <1>r DEF GoodFields, Keeps, Posts
    <3>2. Persist(j, q, index) /\ vaultLoaded' = vaultLoaded
      BY <1>6, <2>1 DEF OrphansDone
    <3> HIDE DEF q
    <3>3. /\ OthersStay(j)
          /\ Keeps(q, job'[j], {"body"})
          /\ job'[j].body = index
      BY <3>1, <3>2, PersistEffect
    <3>4. Keeps(r, job'[j], {"at", "body"}) /\ job'[j].at = "persist"
      BY <3>1, <3>3 DEF Keeps
    <3> QED
      BY <2>0, <3>2, <3>3, <3>4 DEF LoadStep
  <2>2. CASE ~r.changed
    <3>1. Loaded(j)
      BY <1>6, <2>2 DEF OrphansDone
    <3> QED
      BY <2>0, <3>1, LoadedEffect
  <2> QED
    BY <2>1, <2>2
<1>7. CASE AfterPersist(j)
  <2>1. Loaded(j) /\ r.at = "persist" /\ index' = index
    BY <1>7 DEF AfterPersist, At, treeVars
  <2> QED
    BY <2>1, LoadedEffect
<1> QED
  BY <1>1, <1>2, <1>3, <1>4, <1>5, <1>6, <1>7 DEF Load

\* commitIndexChange begun by a job.
Commits(r, s, new) ==
    /\ Keeps(r, s, {"at", "body", "prev"})
    /\ s.at = "index" /\ s.body = new /\ s.prev = index /\ s.reply \in {"none", "no"}
    /\ index' = new

\* What a job does with a reply, before and after.
ContinueStep(r, s) ==
    \/ \* AfterOpen
       /\ r.at = "open" /\ s = Idle /\ index' = index
       /\ \/ UNCHANGED bufferVars
          \/ /\ r.reply = "ok"
             /\ currentNoteId' = r.note /\ value' = r.text /\ lastSavedValue' = r.text
             /\ isDirty' = FALSE
    \/ \* persistNoteRow
       /\ r.at = "encrypt"
       /\ Keeps(r, s, {"at", "note"}) /\ s.reply = "none" /\ s.note = currentNoteId
       /\ s.at = (IF currentNoteId = Nil THEN "create" ELSE "update")
       /\ index' = index /\ UNCHANGED bufferVars
    \/ \* AfterRow
       /\ r.at \in {"create", "update"} /\ s = Idle /\ index' = index /\ UNCHANGED bufferVars
    \/ /\ r.at = "create" /\ r.reply = "ok" /\ r.note \in Notes
       /\ Commits(r, s, addNote(index, r.note, FALSE))
       /\ currentNoteId' = r.note
       /\ value' = [value EXCEPT !.own = IF @ = Nil THEN r.note ELSE @]
       /\ UNCHANGED <<lastSavedValue, isDirty>>
    \/ /\ r.at = "update" /\ r.reply = "ok"
       /\ Commits(r, s, index) /\ UNCHANGED bufferVars
    \/ \* AfterDelete
       /\ r.at = "delete" /\ s = Idle /\ index' = index
       /\ (UNCHANGED bufferVars \/ startNewBuffer)
    \/ /\ r.at = "delete"
       /\ Commits(r, s, removeNote(index, r.note)) /\ UNCHANGED bufferVars
    \/ \* AfterFlag
       /\ r.at = "flag" /\ r.kind = "restore" /\ r.reply = "ok"
       /\ Commits(r, s, restoreNote(index, r.note)) /\ UNCHANGED bufferVars
    \/ /\ r.at = "flag" /\ r.kind = "load" /\ r.flag
       /\ Keeps(r, s, {"ids", "flag"}) /\ s.reply = "none"
       /\ s.ids = r.listed /\ s.flag = FALSE
       /\ index' = index /\ UNCHANGED bufferVars
    \/ /\ r.at = "flag" /\ s = Idle /\ index' = index /\ UNCHANGED bufferVars
    \/ \* AfterIndex
       /\ r.at = "index" /\ r.reply # "none"
       /\ index' = (IF r.reply = "ok" THEN index ELSE r.prev)
       /\ \/ s = Idle
          \/ /\ r.kind = "trash" /\ r.reply = "ok"
             /\ Keeps(r, s, {"at", "flag"}) /\ s.at = "flag" /\ s.flag = TRUE /\ s.reply = "none"
       /\ \/ /\ r.kind = "save" /\ s = Idle
             /\ lastSavedValue' = r.text /\ isDirty' = FALSE /\ UNCHANGED <<currentNoteId, value>>
          \/ UNCHANGED bufferVars \/ startNewBuffer

\* The replies, one by one.
LEMMA ContinueEffect ==
    ASSUME IInv, NEW j \in Jobs, Continue(j)
    PROVE  /\ OthersStay(j) /\ ContinueStep(job[j], job'[j])
           /\ UNCHANGED <<rows, saved, vaultLoaded>>
<1> DEFINE r == job[j]
<1>r. r \in GoodFields /\ HasNote(r)
  BY JobFields
<1>0. UNCHANGED <<rows, saved, vaultLoaded>>
  BY DEF Continue, AfterOpen, persistNoteRow, AfterRow, AfterDelete, AfterFlag, AfterIndex, serverVars
<1>end. End(j) => OthersStay(j) /\ job'[j] = Idle
  BY EndEffect
<1>com. ASSUME NEW new, Commit(j, r, new)
        PROVE  OthersStay(j) /\ Commits(r, job'[j], new)
  BY <1>r, <1>com, CommitEffect DEF Commits
<1>1. CASE AfterOpen(j)
  <2>1. r.at = "open" /\ End(j) /\ index' = index
    BY <1>1 DEF AfterOpen, At, treeVars
  <2>2. \/ UNCHANGED bufferVars
        \/ /\ r.reply = "ok"
           /\ currentNoteId' = r.note /\ value' = r.text /\ lastSavedValue' = r.text
           /\ isDirty' = FALSE
    BY <1>1 DEF AfterOpen
  <2> QED
    BY <1>0, <1>end, <2>1, <2>2 DEF ContinueStep
<1>2. CASE persistNoteRow(j)
  <2> DEFINE at == IF currentNoteId = Nil THEN "create" ELSE "update"
             s == [r EXCEPT !.at = at, !.reply = "none", !.note = currentNoteId]
  <2>0. r.at = "encrypt" /\ Put(j, s) /\ index' = index /\ UNCHANGED bufferVars
    BY <1>2 DEF persistNoteRow, treeVars
  <2> HIDE DEF at
  <2>1. /\ Keeps(r, s, {"at", "note"}) /\ s.reply = "none" /\ s.note = currentNoteId
        /\ s.at = at
    BY <1>r DEF Keeps, GoodFields
  <2> HIDE DEF s
  <2>2. job'[j] = s /\ OthersStay(j)
    BY <2>0, PutEffect
  <2> QED
    BY <1>0, <2>0, <2>1, <2>2 DEF ContinueStep, at
<1>3. CASE AfterRow(j)
  <2>0. r.at \in {"create", "update"} /\ UNCHANGED <<lastSavedValue, isDirty>>
    BY <1>3 DEF AfterRow, At
  <2>1. CASE r.reply # "ok"
    <3>1. End(j) /\ index' = index /\ UNCHANGED bufferVars
      BY <1>3, <2>1 DEF AfterRow, bufferVars
    <3> QED
      BY <1>0, <1>end, <2>0, <3>1 DEF ContinueStep
  <2>2. CASE r.reply = "ok" /\ r.at = "create"
    <3>1. /\ currentNoteId' = r.note
          /\ value' = [value EXCEPT !.own = IF @ = Nil THEN r.note ELSE @]
          /\ Commit(j, r, addNote(index, r.note, FALSE))
      BY <1>3, <2>2 DEF AfterRow
    <3>2. r.note \in Notes
      BY <1>r, <2>2 DEF HasNote
    <3>3. OthersStay(j) /\ Commits(r, job'[j], addNote(index, r.note, FALSE))
      BY <1>com, <3>1
    <3> QED
      BY <1>0, <2>0, <2>2, <3>1, <3>2, <3>3 DEF ContinueStep
  <2>3. CASE r.reply = "ok" /\ r.at # "create"
    <3>1. Commit(j, r, index) /\ UNCHANGED bufferVars
      BY <1>3, <2>0, <2>3 DEF AfterRow, bufferVars
    <3>2. OthersStay(j) /\ Commits(r, job'[j], index)
      BY <1>com, <3>1
    <3> QED
      BY <1>0, <2>0, <2>3, <3>1, <3>2 DEF ContinueStep
  <2> QED
    BY <2>1, <2>2, <2>3
<1>4. CASE AfterDelete(j)
  <2>0. r.at = "delete"
    BY <1>4 DEF AfterDelete, At
  <2>1. \/ End(j) /\ index' = index /\ (UNCHANGED bufferVars \/ startNewBuffer)
        \/ Commit(j, r, removeNote(index, r.note)) /\ UNCHANGED bufferVars
    BY <1>4 DEF AfterDelete, treeVars, CloseIfOpen
  <2>2. CASE End(j) /\ index' = index /\ (UNCHANGED bufferVars \/ startNewBuffer)
    BY <1>0, <1>end, <2>0, <2>2 DEF ContinueStep
  <2>3. CASE Commit(j, r, removeNote(index, r.note)) /\ UNCHANGED bufferVars
    <3>1. OthersStay(j) /\ Commits(r, job'[j], removeNote(index, r.note))
      BY <1>com, <2>3
    <3> QED
      BY <1>0, <2>0, <2>3, <3>1 DEF ContinueStep
  <2> QED
    BY <2>1, <2>2, <2>3
<1>5. CASE AfterFlag(j)
  <2>0. r.at = "flag" /\ UNCHANGED bufferVars
    BY <1>5 DEF AfterFlag, At
  <2>1. CASE r.kind = "restore" /\ r.reply = "ok" /\ Commit(j, r, restoreNote(index, r.note))
    <3>1. OthersStay(j) /\ Commits(r, job'[j], restoreNote(index, r.note))
      BY <1>com, <2>1
    <3> QED
      BY <1>0, <2>0, <2>1, <3>1 DEF ContinueStep
  <2>2. CASE r.kind = "load" /\ r.flag /\ Flag(j, r, r.listed, FALSE) /\ index' = index
    <3>1. /\ OthersStay(j)
          /\ Keeps(r, job'[j], {"at", "ids", "flag"})
          /\ job'[j].at = "flag" /\ job'[j].ids = r.listed /\ job'[j].flag = FALSE
          /\ job'[j].reply = "none"
      BY <1>r, <2>2, FlagEffect
    <3>2. Keeps(r, job'[j], {"ids", "flag"})
      BY <2>0, <3>1 DEF Keeps
    <3> QED
      BY <1>0, <2>0, <2>2, <3>1, <3>2 DEF ContinueStep
  <2>3. CASE End(j) /\ index' = index
    BY <1>0, <1>end, <2>0, <2>3 DEF ContinueStep
  <2> QED
    BY <1>5, <2>1, <2>2, <2>3 DEF AfterFlag
<1>6. CASE AfterIndex(j)
  <2>0. r.at = "index" /\ r.reply # "none" /\ index' = (IF r.reply = "ok" THEN index ELSE r.prev)
    BY <1>6 DEF AfterIndex, At
  <2>1. \/ /\ r.kind = "save"
           /\ lastSavedValue' = r.text /\ isDirty' = FALSE /\ UNCHANGED <<currentNoteId, value>>
        \/ r.kind # "save" /\ (UNCHANGED bufferVars \/ startNewBuffer)
    BY <1>6 DEF AfterIndex, CloseIfOpen
  <2>2. CASE r.kind = "trash" /\ r.reply = "ok" /\ Flag(j, r, r.ids, TRUE)
    <3>1. /\ OthersStay(j)
          /\ Keeps(r, job'[j], {"at", "ids", "flag"})
          /\ job'[j].at = "flag" /\ job'[j].ids = r.ids /\ job'[j].flag = TRUE
          /\ job'[j].reply = "none"
      BY <1>r, <2>2, FlagEffect
    <3>2. Keeps(r, job'[j], {"at", "flag"})
      BY <3>1 DEF Keeps
    <3> QED
      BY <1>0, <2>0, <2>1, <2>2, <3>1, <3>2 DEF ContinueStep
  <2>3. CASE End(j)
    BY <1>0, <1>end, <2>0, <2>1, <2>3 DEF ContinueStep
  <2> QED
    BY <1>6, <2>2, <2>3 DEF AfterIndex
<1> QED
  BY <1>1, <1>2, <1>3, <1>4, <1>5, <1>6 DEF Continue

\* What the user starts.
UserStep(s) ==
    \/ \* saveNote
       /\ s.kind = "save" /\ s.at = "encrypt" /\ s.reply = "none" /\ s.text = value
       /\ index' = index /\ UNCHANGED bufferVars
       /\ ~isSaving /\ isSaving' = TRUE /\ Reopened \subseteq crossed'
    \/ \* editIndex
       /\ isSaving' = isSaving
       /\ s.kind = "edit" /\ s.at = "index" /\ s.reply \in {"none", "no"} /\ s.prev = index
       /\ \/ \E f \in Folders : s.body = addFolder(index, f)
          \/ \E n \in Notes, f \in Folders \cup {Root} : s.body = moveNote(index, n, f)
          \/ s.body = index
       /\ index' = s.body /\ UNCHANGED bufferVars
    \/ \* openNote
       /\ s.kind = "open" /\ s.at = "open" /\ s.reply = "none"
       /\ s.note # currentNoteId /\ s.note \in DOMAIN index.notes
       /\ index' = index /\ UNCHANGED bufferVars /\ isSaving' = isSaving
    \/ \* moveNoteToTrash
       /\ isSaving' = isSaving
       /\ s.kind = "trash" /\ s.at = "index" /\ s.reply \in {"none", "no"} /\ s.prev = index
       /\ \E n \in Notes : s.ids = {n} /\ s.body = trashNote(index, n)
       /\ index' = s.body /\ (UNCHANGED bufferVars \/ startNewBuffer)
    \/ \* deleteFolderToTrash
       /\ isSaving' = isSaving
       /\ s.kind = "trash" /\ s.at = "index" /\ s.reply \in {"none", "no"} /\ s.prev = index
       /\ \E f \in Folders :
              /\ s.ids \subseteq {n \in DOMAIN index.notes : index.notes[n].folder = f}
              /\ s.body = deleteFolder(index, f)
       /\ index' = s.body /\ UNCHANGED bufferVars
    \/ \* restoreTrashedNote
       /\ isSaving' = isSaving
       /\ s.kind = "restore" /\ s.at = "flag" /\ s.reply = "none"
       /\ s.ids = {s.note} /\ s.flag = FALSE
       /\ index' = index /\ UNCHANGED bufferVars
    \/ \* deleteNoteForever
       /\ isSaving' = isSaving
       /\ s.kind = "delete" /\ s.at = "delete" /\ s.reply = "none"
       /\ index' = index /\ UNCHANGED bufferVars

\* What the user starts, one by one.
LEMMA UserEffect ==
    ASSUME IInv, NEW j \in Jobs, User(j)
    PROVE  /\ OthersStay(j) /\ UserStep(job'[j])
           /\ UNCHANGED <<rows, saved, vaultLoaded, masterKey>>
           /\ job[j].at = "idle"
           /\ job'[j].kind # "open" => Written(j) \subseteq crossed'
           /\ isSaving /\ bufferVars' # bufferVars => "switched" \in crossed'
<1>0. UNCHANGED <<rows, saved, vaultLoaded, masterKey>> /\ job[j].at = "idle"
  BY DEF User, saveNote, editIndex, openNote, moveNoteToTrash, restoreTrashedNote, deleteNoteForever,
         deleteFolderToTrash, serverVars, keyVars, May
<1>s. /\ Written(j) \subseteq crossed' \/ \E n \in Notes : openNote(j, n)
      /\ isSaving /\ bufferVars' # bufferVars => "switched" \in crossed'
  BY DEF User, saveNote, editIndex, openNote, moveNoteToTrash, restoreTrashedNote, deleteNoteForever,
         deleteFolderToTrash, Cross, Switched, bufferVars
<1>c. ASSUME NEW kind \in Kinds, NEW at \in Starts, NEW n \in Notes \cup {Nil}
      PROVE  Call(kind, at, n) \in GoodFields
  BY GoodCalls DEF GoodJob
<1>1. ASSUME saveNote(j) PROVE OthersStay(j) /\ UserStep(job'[j])
  <2> DEFINE c == Call("save", "encrypt", Nil)
             s == [c EXCEPT !.text = value]
  <2>1. c \in GoodFields /\ c.kind = "save" /\ c.at = "encrypt" /\ c.reply = "none"
    BY <1>c, CallEffect DEF Kinds, Starts
  <2>2. Put(j, s) /\ index' = index /\ UNCHANGED bufferVars
    BY <1>1 DEF saveNote, treeVars
  <2>s. ~isSaving /\ isSaving' = TRUE /\ Reopened \subseteq crossed'
    BY <1>1 DEF saveNote, Cross
  <2> HIDE DEF c
  <2>3. s.kind = "save" /\ s.at = "encrypt" /\ s.reply = "none" /\ s.text = value
    BY <2>1 DEF GoodFields
  <2> HIDE DEF s
  <2> QED
    BY <1>0, <1>s, <2>2, <2>3, <2>s, PutEffect DEF UserStep
<1>2. ASSUME editIndex(j) PROVE OthersStay(j) /\ UserStep(job'[j])
  <2> DEFINE c == Call("edit", "index", Nil)
  <2>1. c \in GoodFields /\ c.kind = "edit"
    BY <1>c, CallEffect DEF Kinds, Starts
  <2>2. ASSUME NEW new, Commit(j, c, new)
        PROVE  /\ OthersStay(j) /\ job'[j].kind = "edit" /\ job'[j].at = "index"
               /\ job'[j].reply \in {"none", "no"} /\ job'[j].prev = index
               /\ job'[j].body = new /\ index' = new
    <3> HIDE DEF c
    <3> QED
      BY <2>1, <2>2, CommitEffect DEF Keeps
  <2>3. UNCHANGED bufferVars /\ isSaving' = isSaving
    BY <1>2 DEF editIndex
  <2>d. DOMAIN index.notes \subseteq Notes
    BY FieldsClosed DEF IInv, IndexInv
  <2>4. \/ \E f \in Folders : Commit(j, c, addFolder(index, f))
        \/ \E n \in Notes, f \in Folders \cup {Root} : Commit(j, c, moveNote(index, n, f))
        \/ Commit(j, c, index)
    BY <1>2, <2>d DEF editIndex
  <2> HIDE DEF c
  <2>5. ASSUME NEW f \in Folders, Commit(j, c, addFolder(index, f))
        PROVE  OthersStay(j) /\ UserStep(job'[j])
    BY <2>2, <2>3, <2>5 DEF UserStep
  <2>6. ASSUME NEW n \in Notes, NEW f \in Folders \cup {Root}, Commit(j, c, moveNote(index, n, f))
        PROVE  OthersStay(j) /\ UserStep(job'[j])
    BY <2>2, <2>3, <2>6 DEF UserStep
  <2>7. ASSUME Commit(j, c, index)
        PROVE  OthersStay(j) /\ UserStep(job'[j])
    BY <2>2, <2>3, <2>7 DEF UserStep
  <2> QED
    BY <1>0, <1>s, <2>4, <2>5, <2>6, <2>7
<1>3. ASSUME NEW n \in Notes, openNote(j, n) PROVE OthersStay(j) /\ UserStep(job'[j]) /\ job'[j].kind = "open"
  <2>1. /\ Put(j, Call("open", "open", n)) /\ index' = index /\ UNCHANGED bufferVars
        /\ isSaving' = isSaving /\ n # currentNoteId /\ n \in DOMAIN index.notes
    BY <1>3 DEF openNote, treeVars
  <2>2. OthersStay(j) /\ job'[j] = Call("open", "open", n)
    BY <2>1, PutEffect
  <2> QED
    BY <2>1, <2>2, CallEffect DEF UserStep
<1>4. ASSUME NEW n \in Notes, moveNoteToTrash(j, n) PROVE OthersStay(j) /\ UserStep(job'[j])
  <2> DEFINE c == Call("trash", "index", Nil)
             d == [c EXCEPT !.ids = {n}]
  <2>1. /\ Commit(j, d, trashNote(index, n)) /\ (UNCHANGED bufferVars \/ startNewBuffer)
        /\ isSaving' = isSaving
    BY <1>4 DEF moveNoteToTrash
  <2>2. c \in GoodFields /\ c.kind = "trash"
    BY <1>c, CallEffect DEF Kinds, Starts
  <2> HIDE DEF c
  <2>3. d \in GoodFields /\ d.kind = "trash" /\ d.ids = {n}
    BY <2>2 DEF GoodFields
  <2> HIDE DEF d
  <2>4. /\ OthersStay(j) /\ job'[j].kind = "trash" /\ job'[j].at = "index"
        /\ job'[j].reply \in {"none", "no"} /\ job'[j].prev = index
        /\ job'[j].ids = {n} /\ job'[j].body = trashNote(index, n) /\ index' = trashNote(index, n)
    BY <2>1, <2>3, CommitEffect DEF Keeps
  <2> QED
    BY <2>1, <2>4 DEF UserStep
<1>5. ASSUME NEW n \in Notes, restoreTrashedNote(j, n) PROVE OthersStay(j) /\ UserStep(job'[j])
  <2> DEFINE c == Call("restore", "flag", n)
             ids == {n}
  <2>1. Flag(j, c, ids, FALSE) /\ index' = index /\ UNCHANGED bufferVars /\ isSaving' = isSaving
    BY <1>5 DEF restoreTrashedNote, treeVars
  <2>2. c \in GoodFields /\ c.kind = "restore" /\ c.note = n
    BY <1>c, CallEffect DEF Kinds, Starts
  <2> HIDE DEF c
  <2>i. ids = {c.note}
    BY <2>2
  <2> HIDE DEF ids
  <2>3. /\ OthersStay(j) /\ Keeps(c, job'[j], {"at", "ids", "flag"})
        /\ job'[j].at = "flag" /\ job'[j].ids = ids /\ job'[j].flag = FALSE
        /\ job'[j].reply = "none"
    BY <2>1, <2>2, FlagEffect
  <2>4. job'[j].kind = "restore" /\ job'[j].note = c.note
    BY <2>2, <2>3 DEF Keeps
  <2> QED
    BY <2>1, <2>3, <2>4, <2>i DEF UserStep
<1>6. ASSUME NEW n \in Notes, deleteNoteForever(j, n) PROVE OthersStay(j) /\ UserStep(job'[j])
  <2>1. /\ Put(j, Call("delete", "delete", n)) /\ index' = index /\ UNCHANGED bufferVars
        /\ isSaving' = isSaving
    BY <1>6 DEF deleteNoteForever, treeVars
  <2>2. OthersStay(j) /\ job'[j] = Call("delete", "delete", n)
    BY <2>1, PutEffect
  <2> QED
    BY <2>1, <2>2, CallEffect DEF UserStep
<1>7. ASSUME NEW f \in Folders, deleteFolderToTrash(j, f) PROVE OthersStay(j) /\ UserStep(job'[j])
  <2> DEFINE c == Call("trash", "index", Nil)
             held == {n \in DOMAIN index.notes : index.notes[n].folder = f}
             active == {n \in DOMAIN index.notes : index.notes[n].folder = f /\ ~index.notes[n].trashed}
             d == [c EXCEPT !.ids = active]
  <2>1. Commit(j, d, deleteFolder(index, f)) /\ UNCHANGED bufferVars /\ isSaving' = isSaving
    BY <1>7 DEF deleteFolderToTrash
  <2>2. c \in GoodFields /\ c.kind = "trash"
    BY <1>c, CallEffect DEF Kinds, Starts
  <2>a. active \in SUBSET Notes /\ active \subseteq held
    BY FieldsClosed DEF IInv, IndexInv
  <2> HIDE DEF c, active
  <2>3. d \in GoodFields /\ d.kind = "trash" /\ d.ids = active
    BY <2>2, <2>a DEF GoodFields
  <2> HIDE DEF d
  <2>4. /\ OthersStay(j) /\ job'[j].kind = "trash" /\ job'[j].at = "index"
        /\ job'[j].reply \in {"none", "no"} /\ job'[j].prev = index
        /\ job'[j].ids = active /\ job'[j].body = deleteFolder(index, f)
        /\ index' = deleteFolder(index, f)
    BY <2>1, <2>3, CommitEffect DEF Keeps
  <2> QED
    BY <2>1, <2>4, <2>a DEF UserStep
<1> QED
  BY <1>0, <1>s, <1>1, <1>2, <1>3, <1>4, <1>5, <1>6, <1>7 DEF User

-----------------------------------------------------------------------------
(* The jobs that write, one at a time: so it is until writes have crossed. *)

WriteKinds == {"save", "edit", "trash", "restore", "delete"}

\* The awaits a job of each kind stands at.
Stands(r) ==
    \/ r.kind = "none" /\ r.at = "idle"
    \/ r.kind = "init" /\ r.at = "session"
    \/ r.kind = "load"
       /\ r.at \in {"getIndex", "getRows", "orphans", "getOrphan", "persist", "flag"}
    \/ r.kind = "save" /\ r.at \in {"encrypt", "create", "update", "updating", "index"}
    \/ r.kind = "open" /\ r.at = "open"
    \/ r.kind = "edit" /\ r.at = "index"
    \/ r.kind \in {"trash", "restore"} /\ r.at \in {"index", "flag"}
    \/ r.kind = "delete" /\ r.at \in {"delete", "index"}

\* Every job stands at an await of its kind.
StandsInv == \A j \in Jobs : Stands(job[j])

\* Nothing else is under way, but for notes that are being opened.
Alone(j) == \A k \in Jobs \ {j} : job[k].kind \in {"none", "open"}

\* No job that writes has been begun beside another, or before the end of a load.
Waited == crossed \cap {"writes", "early"} = {}

\* What writes is alone, and comes after a load; so is the start of the page, before it.
PhaseInv ==
    \A j \in Jobs :
        /\ Stands(job[j])
        /\ job[j].kind \in WriteKinds => vaultLoaded /\ Alone(j)
        /\ job[j].kind = "init" => ~vaultLoaded /\ masterKey = "none" /\ Alone(j)

\* What the history does not hold, it has not held.
LEMMA WaitedBefore == ASSUME [Next]_vars, Waited' PROVE Waited
BY CrossedGrows DEF Waited

\* What writes is begun alone, after a load.
LEMMA BegunAlone ==
    ASSUME Waited', NEW j \in Jobs, Written(j) \subseteq crossed'
    PROVE  vaultLoaded /\ Alone(j)
BY DEF Waited, Written, Alone

\* A job that goes on, or ends.
LEMMA PhaseGoesOn ==
    ASSUME PhaseInv, NEW j \in Jobs, OthersStay(j),
           job[j].at # "idle", Stands(job'[j]), job'[j].kind # "init",
           \/ job'[j].kind \in {job[j].kind, "none"}
           \/ job[j].kind = "init" /\ job'[j].kind = "load",
           vaultLoaded => vaultLoaded',
           job[j].kind = "open" => UNCHANGED <<vaultLoaded, masterKey>>
    PROVE  PhaseInv'
<1>o. \A k \in Jobs \ {j} : job'[k] = job[k]
  BY DEF OthersStay
<1>k. job[j].kind # "none"
  BY DEF PhaseInv, Stands
<1>1. CASE job[j].kind = "open"
  <2>1. job'[j].kind \in {"none", "open"}
    BY <1>1
  <2>2. \A k \in Jobs \ {j} : Alone(k) => Alone(k)'
    BY <1>o, <2>1 DEF Alone
  <2>3. job'[j].kind \notin WriteKinds /\ job'[j].kind # "init"
    BY <2>1 DEF WriteKinds
  <2>4. ASSUME NEW k \in Jobs \ {j}
        PROVE  /\ Stands(job'[k])
               /\ job'[k].kind \in WriteKinds => vaultLoaded' /\ Alone(k)'
               /\ job'[k].kind = "init" => ~vaultLoaded' /\ masterKey' = "none" /\ Alone(k)'
    BY <1>1, <1>o, <2>2 DEF PhaseInv
  <2> QED
    BY <2>3, <2>4 DEF PhaseInv
<1>2. CASE job[j].kind # "open"
  <2>1. ASSUME NEW k \in Jobs \ {j}
        PROVE  job'[k] = job[k] /\ job[k].kind \notin WriteKinds /\ job[k].kind # "init" /\ Stands(job[k])
    BY <1>2, <1>k, <1>o, <2>1 DEF PhaseInv, Alone
  <2>2. job'[j].kind \in WriteKinds => vaultLoaded' /\ Alone(j)'
    <3>1. job'[j].kind \in WriteKinds => job[j].kind \in WriteKinds
      BY DEF WriteKinds
    <3> QED
      BY <1>o, <3>1 DEF PhaseInv, Alone
  <2> QED
    BY <2>1, <2>2 DEF PhaseInv
<1> QED
  BY <1>1, <1>2

\* No job.
LEMMA IdleFields == Idle.kind = "none" /\ Idle.at = "idle" /\ Idle.reply = "none"
BY DEF Idle

\* The kinds of the jobs of the steps: of those of the server,
LEMMA ServedStands ==
    ASSUME NEW r, NEW s, Stands(r), Served(r, s)
    PROVE  Stands(s) /\ s.kind = r.kind /\ r.kind \notin {"none", "init"} /\ r.at # "idle"
BY DEF Stands, Served, Keeps, Gets, Posts,
       Refused, IndexSaved, RowCreated, RowRead, RowWritten, RowDeleted, RowsFlagged, Got

\* ... of those of a load,
LEMMA LoadStands ==
    ASSUME NEW r, NEW s, Stands(r), LoadStep(r, s)
    PROVE  /\ Stands(s) /\ r.at # "idle"
           /\ r.kind \in {"init", "load"} /\ s.kind \in {"load", "none"}
           /\ vaultLoaded => vaultLoaded'
<1>1. r.at # "idle" /\ r.kind \in {"init", "load"}
  BY DEF Stands, LoadStep
<1>2. vaultLoaded => vaultLoaded'
  BY DEF LoadStep
<1>3. Stands(s) /\ s.kind \in {"load", "none"}
  BY <1>1, IdleFields DEF Stands, LoadStep, Keeps
<1> QED
  BY <1>1, <1>2, <1>3

\* ... of those that go on,
LEMMA ContinueStands ==
    ASSUME NEW r, NEW s, Stands(r), ContinueStep(r, s)
    PROVE  /\ Stands(s) /\ r.at # "idle" /\ r.kind \notin {"none", "init"}
           /\ s.kind \in {r.kind, "none"}
BY IdleFields DEF Stands, ContinueStep, Commits, Keeps

\* ... and of those of the user.
LEMMA UserStands ==
    ASSUME NEW s, UserStep(s)
    PROVE  Stands(s) /\ s.kind \in WriteKinds \cup {"open"}
BY DEF Stands, UserStep, WriteKinds

\* A lock, or a sweep, touches only what steers the jobs.
LEMMA TouchedEffect ==
    ASSUME IInv, onLock \/ SweepDelete
    PROVE  \A k \in Jobs : Keeps(job[k], job'[k], {}) /\ job'[k].reply = job[k].reply
<1> TAKE k \in Jobs
<1>r. job[k] \in GoodFields
  BY JobFields
<1>1. CASE onLock
  <2> DEFINE s == [job[k] EXCEPT !.sameKey = @ /\ job[k].kind # "load", !.calm = FALSE]
  <2>1. job'[k] = s
    BY <1>1 DEF onLock
  <2>2. Keeps(job[k], s, {}) /\ s.reply = job[k].reply
    BY <1>r DEF Keeps, GoodFields
  <2> QED
    BY <2>1, <2>2
<1>2. CASE SweepDelete
  <2> DEFINE s == [job[k] EXCEPT !.calm = FALSE]
  <2>1. job'[k] = s
    BY <1>2 DEF SweepDelete
  <2>2. Keeps(job[k], s, {}) /\ s.reply = job[k].reply
    BY <1>r DEF Keeps, GoodFields
  <2> QED
    BY <2>1, <2>2
<1> QED
  BY <1>1, <1>2

\* A load that is begun.
LEMMA LoadBegun ==
    ASSUME IInv, NEW j \in Jobs, loadVault(j)
    PROVE  /\ OthersStay(j)
           /\ job'[j].kind = "load" /\ job'[j].at = "getIndex" /\ job'[j].reply = "none"
<1> DEFINE alone == \A k \in Jobs \ {j} : job[k].at = "idle"
           s == [Call("load", "getIndex", Nil) EXCEPT !.calm = alone]
<1>1. s.kind = "load" /\ s.at = "getIndex" /\ s.reply = "none"
  BY DEF Call, Idle
<1>2. Put(j, s)
  BY DEF loadVault
<1> HIDE DEF s
<1> QED
  BY <1>1, <1>2, PutEffect

\* A page that is opened anew.
LEMMA ReloadEffect ==
    ASSUME Reload
    PROVE  \E j \in Jobs : /\ job'[j].kind = "init" /\ job'[j].at = "session"
                           /\ \A k \in Jobs \ {j} : job'[k].kind = "none" /\ job'[k].at = "idle"
<1>1. PICK j \in Jobs : job' = [k \in Jobs |-> IF k = j THEN Call("init", "session", Nil) ELSE Idle]
  BY DEF Reload
<1>2. job'[j] = Call("init", "session", Nil) /\ \A k \in Jobs \ {j} : job'[k] = Idle
  BY <1>1
<1> QED
  BY <1>2, CallEffect DEF Idle

\* Every step keeps to it, until it crosses a write.
LEMMA PhaseKept ==
    ASSUME Waited', IInv, PhaseInv, [Next]_vars
    PROVE  PhaseInv'
<1>1. ASSUME NEW j \in Jobs, Serve(j)
      PROVE  PhaseInv'
  <2>1. OthersStay(j) /\ Served(job[j], job'[j]) /\ Stands(job[j])
        /\ UNCHANGED <<vaultLoaded, masterKey>>
    BY <1>1, ServeEffect DEF PhaseInv, Serve, keyVars
  <2>2. Stands(job'[j]) /\ job'[j].kind = job[j].kind /\ job[j].kind # "init" /\ job[j].at # "idle"
    BY <2>1, ServedStands
  <2> QED
    BY <2>1, <2>2, PhaseGoesOn
<1>2. ASSUME NEW j \in Jobs, Load(j)
      PROVE  PhaseInv'
  <2>1. OthersStay(j) /\ LoadStep(job[j], job'[j]) /\ Stands(job[j])
    BY <1>2, LoadEffect DEF PhaseInv
  <2>2. /\ Stands(job'[j]) /\ job[j].at # "idle"
        /\ job[j].kind \in {"init", "load"} /\ job'[j].kind \in {"load", "none"}
        /\ vaultLoaded => vaultLoaded'
    BY <2>1, LoadStands
  <2> QED
    BY <2>1, <2>2, PhaseGoesOn
<1>3. ASSUME NEW j \in Jobs, Continue(j)
      PROVE  PhaseInv'
  <2>1. OthersStay(j) /\ ContinueStep(job[j], job'[j]) /\ Stands(job[j]) /\ vaultLoaded' = vaultLoaded
    BY <1>3, ContinueEffect DEF PhaseInv
  <2>m. masterKey' = masterKey
    BY <1>3 DEF Continue, AfterOpen, persistNoteRow, AfterRow, AfterDelete, AfterFlag, AfterIndex, keyVars
  <2>2. /\ Stands(job'[j]) /\ job[j].at # "idle" /\ job[j].kind \notin {"none", "init"}
        /\ job'[j].kind \in {job[j].kind, "none"}
    BY <2>1, ContinueStands
  <2> QED
    BY <2>1, <2>2, <2>m, PhaseGoesOn
<1>4. ASSUME NEW j \in Jobs, User(j)
      PROVE  PhaseInv'
  <2>1. /\ OthersStay(j) /\ UserStep(job'[j]) /\ UNCHANGED <<vaultLoaded, masterKey>>
        /\ job[j].at = "idle" /\ (job'[j].kind # "open" => Written(j) \subseteq crossed')
    BY <1>4, UserEffect
  <2>2. Stands(job'[j]) /\ job'[j].kind \in WriteKinds \cup {"open"}
    BY <2>1, UserStands
  <2>o. \A k \in Jobs \ {j} : job'[k] = job[k]
    BY <2>1 DEF OthersStay
  <2>3. CASE job'[j].kind = "open"
    <3>1. \A k \in Jobs \ {j} : Alone(k) => Alone(k)'
      BY <2>3, <2>o DEF Alone
    <3>2. job'[j].kind \notin WriteKinds /\ job'[j].kind # "init"
      BY <2>3 DEF WriteKinds
    <3>3. ASSUME NEW k \in Jobs \ {j}
          PROVE  /\ Stands(job'[k])
                 /\ job'[k].kind \in WriteKinds => vaultLoaded' /\ Alone(k)'
                 /\ job'[k].kind = "init" => ~vaultLoaded' /\ masterKey' = "none" /\ Alone(k)'
      BY <2>1, <2>o, <3>1 DEF PhaseInv
    <3> QED
      BY <2>2, <3>2, <3>3 DEF PhaseInv
  <2>4. CASE job'[j].kind # "open"
    <3>1. vaultLoaded /\ Alone(j)
      BY <2>1, <2>4, BegunAlone
    <3>2. vaultLoaded' /\ Alone(j)'
      BY <2>1, <2>o, <3>1 DEF Alone
    <3>3. \A k \in Jobs \ {j} : /\ Stands(job'[k]) /\ job'[k].kind \notin WriteKinds
                                /\ job'[k].kind # "init"
      BY <2>o, <3>1 DEF Alone, PhaseInv, WriteKinds
    <3>4. job'[j].kind # "init"
      BY <2>2 DEF WriteKinds
    <3> QED
      BY <2>2, <3>2, <3>3, <3>4 DEF PhaseInv
  <2> QED
    BY <2>3, <2>4
<1>5. CASE UNCHANGED <<job, vaultLoaded, masterKey>>
  BY <1>5 DEF PhaseInv, Alone
<1>6. CASE onLock
  <2>1. masterKey = "held" /\ vaultLoaded' = vaultLoaded
    BY <1>6 DEF onLock
  <2>2. \A k \in Jobs : job'[k].kind = job[k].kind /\ job'[k].at = job[k].at
    BY <1>6, TouchedEffect DEF Keeps
  <2>3. \A k \in Jobs : job[k].kind # "init"
    BY <2>1 DEF PhaseInv
  <2> QED
    BY <2>1, <2>2, <2>3 DEF PhaseInv, Alone, Stands
<1>7. CASE onUnlock
  <2>0. masterKey = "dropped" /\ vaultLoaded' = vaultLoaded
    BY <1>7 DEF onUnlock
  <2>1. \A k \in Jobs : job[k].kind # "init"
    BY <2>0 DEF PhaseInv
  <2>2. CASE UNCHANGED job
    BY <2>0, <2>1, <2>2 DEF PhaseInv, Alone
  <2>3. ASSUME NEW j \in Jobs, ~vaultLoaded, loadVault(j)
        PROVE  PhaseInv'
    <3>1. /\ OthersStay(j)
          /\ job'[j].kind = "load" /\ job'[j].at = "getIndex"
      BY <2>3, LoadBegun
    <3>2. \A k \in Jobs : job[k].kind \notin WriteKinds
      BY <2>3 DEF PhaseInv
    <3> QED
      BY <2>1, <3>1, <3>2 DEF PhaseInv, OthersStay, Stands, WriteKinds
  <2> QED
    BY <1>7, <2>2, <2>3 DEF onUnlock
<1>8. CASE Reload
  <2>1. masterKey' = "none" /\ ~vaultLoaded'
    BY <1>8 DEF Reload
  <2>2. PICK j \in Jobs : /\ job'[j].kind = "init" /\ job'[j].at = "session"
                          /\ \A k \in Jobs \ {j} : job'[k].kind = "none" /\ job'[k].at = "idle"
    BY <1>8, ReloadEffect
  <2> QED
    BY <2>1, <2>2 DEF PhaseInv, Alone, Stands, WriteKinds
<1>9. CASE SweepDelete
  <2>1. UNCHANGED <<vaultLoaded, masterKey>>
    BY <1>9 DEF SweepDelete, keyVars
  <2>2. \A k \in Jobs : job'[k].kind = job[k].kind /\ job'[k].at = job[k].at
    BY <1>9, TouchedEffect DEF Keeps
  <2> QED
    BY <2>1, <2>2 DEF PhaseInv, Alone, Stands
<1>10. CASE Type \/ NewNote \/ SweepSelect \/ UNCHANGED vars
  BY <1>5, <1>10 DEF Type, NewNote, SweepSelect, keyVars, vars
<1> QED
  BY <1>1, <1>2, <1>3, <1>4, <1>6, <1>7, <1>8, <1>9, <1>10 DEF Next

-----------------------------------------------------------------------------
(* The saves: one at a time (isSaving), and only under ids that have been given out. *)

OneSave ==
    /\ \A j \in Jobs : job[j].kind = "save" => isSaving
    /\ \A j, k \in Jobs : job[j].kind = "save" /\ job[k].kind = "save" => j = k

\* A job that has seen the row of its note, be it to write it or to show it.
HasSeen(r) == r.at = "updating" \/ (r.at = "open" /\ r.reply = "ok")

\* Every row, also one that is about to be written back, stands under an id that will
\* not be given out again.
IdsInv == DOMAIN rows \subseteq used /\ \A j \in Jobs : HasSeen(job[j]) => job[j].note \in used

SaveInv == StandsInv /\ OneSave /\ IdsInv

\* A new row gets an id that no row has had, and no other request touches the ids.
LEMMA CreatedFresh ==
    ASSUME IInv, NEW j \in Jobs, Serve(j)
    PROVE  \/ UNCHANGED <<rows, used>>
           \/ used' = used /\ job[j].at # "create"
           \/ \E n \in Notes \ used :
                  /\ used' = used \cup {n} /\ DOMAIN rows' = DOMAIN rows \cup {n}
                  /\ \A m \in DOMAIN rows : rows'[m] = rows[m] \/ m = n
                  /\ job[j].at = "create" /\ job'[j].note = n
<1>1. CASE create_vault_note(j)
  <2> DEFINE r == job[j]
             text(n) == [own |-> IF r.text.own = Nil THEN n ELSE r.text.own, ver |-> r.text.ver]
             row(n) == [text |-> text(n), trashed_at |-> FALSE]
  <2>r. r \in GoodFields
    BY JobFields
  <2>1. job[j].at = "create"
    BY <1>1 DEF create_vault_note, MayAnswer
  <2>2. CASE Cardinality(DOMAIN rows) >= MaxRows
    <3>1. rows' = rows /\ used' = used
      BY <1>1, <2>2 DEF create_vault_note
    <3> QED
      BY <3>1
  <2>3. CASE ~(Cardinality(DOMAIN rows) >= MaxRows)
    <3>1. PICK n \in Notes \ used :
              /\ rows' = [m \in DOMAIN rows \cup {n} |-> IF m = n THEN row(n) ELSE rows[m]]
              /\ used' = used \cup {n}
              /\ Answer(j, [r EXCEPT !.note = n, !.text = text(n)])
      BY <1>1, <2>3 DEF create_vault_note
    <3> HIDE DEF row
    <3> DEFINE q == [r EXCEPT !.note = n, !.text = text(n)]
    <3>2. text(n) \in Text /\ q.note = n /\ q \in GoodFields
      BY <2>r DEF GoodFields, Text
    <3> HIDE DEF q
    <3>3. Answer(j, q)
      BY <3>1 DEF q
    <3>4. job'[j].note = n
      BY <3>2, <3>3, AnswerEffect DEF Keeps
    <3> QED
      BY <2>1, <3>1, <3>4
  <2> QED
    BY <2>2, <2>3
<1>2. CASE Refuse(j)
  BY <1>2 DEF Refuse, serverVars
<1>4. CASE ServeGet(j)
  BY <1>4 DEF ServeGet, serverVars
<1>5. CASE update_vault_note_get(j)
  BY <1>5 DEF update_vault_note_get, serverVars
<1>3. CASE ServeIndex(j) \/ update_vault_note_save(j) \/ delete_vault_note(j) \/ set_vault_notes_trashed(j)
  BY <1>3 DEF ServeIndex, update_vault_note_save, delete_vault_note, set_vault_notes_trashed, MayAnswer
<1> QED
  BY <1>1, <1>2, <1>3, <1>4, <1>5 DEF Serve

\* Only the server gives out ids, and only it and the sweep touch the rows.
LEMMA RowsUntouched ==
    ASSUME [Next]_vars, \A j \in Jobs : ~Serve(j), ~SweepDelete
    PROVE  rows' = rows /\ used' = used
<1>1. ASSUME NEW j \in Jobs, Load(j) PROVE rows' = rows /\ used' = used
  <2>1. initialize(j) \/ AfterGetIndex(j) \/ AfterGetRows(j) => UNCHANGED serverVars
    BY DEF initialize, AfterGetIndex, AfterGetRows
  <2>2. NextOrphan(j) \/ AfterGetOrphan(j) \/ OrphansDone(j) \/ AfterPersist(j) => UNCHANGED serverVars
    BY DEF NextOrphan, AfterGetOrphan, OrphansDone, AfterPersist
  <2> QED
    BY <1>1, <2>1, <2>2 DEF Load, serverVars
<1>2. ASSUME NEW j \in Jobs, Continue(j) PROVE rows' = rows /\ used' = used
  BY <1>2 DEF Continue, AfterOpen, persistNoteRow, AfterRow, AfterDelete, AfterFlag, AfterIndex, serverVars
<1>3. ASSUME NEW j \in Jobs, User(j) PROVE rows' = rows /\ used' = used
  BY <1>3 DEF User, saveNote, editIndex, openNote, moveNoteToTrash, restoreTrashedNote,
              deleteNoteForever, deleteFolderToTrash, serverVars
<1>4. CASE Type \/ NewNote \/ onLock \/ onUnlock \/ Reload \/ SweepSelect \/ UNCHANGED vars
  BY <1>4 DEF Type, NewNote, onLock, onUnlock, Reload, SweepSelect, vars, serverVars
<1> QED
  BY <1>1, <1>2, <1>3, <1>4 DEF Next

\* No row becomes another's, and none gets a text.
Fewer ==
    /\ DOMAIN rows' \subseteq DOMAIN rows
    /\ \A n \in DOMAIN rows' : rows'[n].text = rows[n].text

\* The rows that no request reaches keep their texts.
LEMMA SweepTakes ==
    ASSUME SweepDelete
    PROVE  Fewer /\ used' = used /\ UNCHANGED bufferVars /\ isSaving' = isSaving
<1>1. rows' = Restrict(rows, DOMAIN rows \ picked) /\ used' = used /\ UNCHANGED bufferVars /\ isSaving' = isSaving
  BY DEF SweepDelete
<1> QED
  BY <1>1 DEF Fewer, Restrict

\* A save that is over, or none, leaves the other saves what they are.
LEMMA SavesStay ==
    ASSUME OneSave, \A k \in Jobs : job'[k].kind = "save" => job[k].kind = "save",
           isSaving' = isSaving \/ \A k \in Jobs : job'[k].kind # "save"
    PROVE  OneSave'
BY DEF OneSave

\* Only the end of a save lets the next one begin.
LEMMA SavingEnds ==
    ASSUME IInv, NEW j \in Jobs, Continue(j)
    PROVE  \/ isSaving' = isSaving
           \/ /\ job[j].kind = "save" \/ job[j].at \in {"create", "update"}
              /\ job'[j] = Idle
<1>e. End(j) => job'[j] = Idle
  BY EndEffect
<1>1. CASE AfterOpen(j) \/ persistNoteRow(j) \/ AfterDelete(j) \/ AfterFlag(j)
  BY <1>1 DEF AfterOpen, persistNoteRow, AfterDelete, AfterFlag
<1>2. CASE AfterRow(j)
  BY <1>2, <1>e DEF AfterRow, At
<1>3. CASE AfterIndex(j)
  BY <1>3, <1>e DEF AfterIndex
<1> QED
  BY <1>1, <1>2, <1>3 DEF Continue

\* The requests keep to it: a row is made under a new id, and written back under its own.
LEMMA SaveServed ==
    ASSUME IInv, SaveInv, NEW j \in Jobs, Serve(j)
    PROVE  SaveInv'
<1> DEFINE r == job[j]
           s == job'[j]
<1>0. OthersStay(j) /\ Served(r, s) /\ Stands(r) /\ isSaving' = isSaving
  BY ServeEffect DEF SaveInv, StandsInv, Serve
<1>1. Stands(s) /\ s.kind = r.kind
  BY <1>0, ServedStands
<1>2. StandsInv'
  BY <1>0, <1>1 DEF SaveInv, StandsInv, OthersStay
<1>3. OneSave'
  <2>1. \A k \in Jobs : job'[k].kind = job[k].kind
    BY <1>0, <1>1 DEF OthersStay
  <2> QED
    BY <1>0, <2>1, SavesStay DEF SaveInv
<1>u. used \subseteq used' /\ (r.at # "create" => used' = used)
  BY CreatedFresh
<1>4. HasSeen(s) => s.note \in used
  <2>1. RowRead(r, s) => s.note \in used
    BY DEF RowRead, Keeps, SaveInv, IdsInv
  <2>2. Got(r, s) /\ r.at = "open" => s.note \in used
    BY DEF Got, Keeps, SaveInv, IdsInv
  <2>3. s.at = "updating" => RowRead(r, s) \/ (r.at = "updating" /\ s.note = r.note)
    <3>1. Got(r, s) => s.at = r.at /\ r.at # "updating"
      BY DEF Got, Keeps
    <3> QED
      BY <1>0, <3>1 DEF Served, Keeps, Refused, IndexSaved, RowCreated, RowWritten, RowDeleted, RowsFlagged
  <2>4. s.at = "open" /\ s.reply = "ok" => Got(r, s) /\ r.at = "open"
    <3>1. Got(r, s) => s.at = r.at
      BY DEF Got, Keeps
    <3> QED
      BY <1>0, <3>1 DEF Served, Keeps, Refused, IndexSaved, RowCreated, RowRead, RowWritten, RowDeleted, RowsFlagged
  <2> QED
    BY <2>1, <2>2, <2>3, <2>4 DEF HasSeen, SaveInv, IdsInv
<1>5. DOMAIN rows' \subseteq used'
  <2>1. CASE r.at = "create"
    BY <2>1, CreatedFresh DEF SaveInv, IdsInv
  <2>2. CASE RowWritten(r, s)
    <3>1. r.note \in used /\ DOMAIN rows' = DOMAIN rows \cup {r.note} /\ used' = used
      BY <1>u, <2>2 DEF RowWritten, SaveInv, IdsInv, HasSeen
    <3> QED
      BY <3>1 DEF SaveInv, IdsInv
  <2>3. CASE r.at # "create" /\ ~RowWritten(r, s)
    <3>1. RowDeleted(r, s) => DOMAIN rows' \subseteq DOMAIN rows
      BY DEF RowDeleted, Restrict
    <3>2. RowsFlagged(r, s) => DOMAIN rows' \subseteq DOMAIN rows
      BY DEF RowsFlagged
    <3>3. DOMAIN rows' \subseteq DOMAIN rows
      BY <1>0, <2>3, <3>1, <3>2 DEF Served, Refused, IndexSaved, RowCreated, RowRead, Got
    <3> QED
      BY <1>u, <3>3 DEF SaveInv, IdsInv
  <2> QED
    BY <2>1, <2>2, <2>3
<1>6. IdsInv'
  BY <1>0, <1>4, <1>5, <1>u DEF SaveInv, IdsInv, OthersStay
<1> QED
  BY <1>2, <1>3, <1>6 DEF SaveInv

\* Every step does, whatever it crosses.
LEMMA SaveKept ==
    ASSUME IInv, SaveInv, [Next]_vars
    PROVE  SaveInv'
<1>r. ASSUME rows' = rows, used' = used, StandsInv', OneSave',
             \A k \in Jobs : HasSeen(job'[k]) => HasSeen(job[k]) /\ job'[k].note = job[k].note
      PROVE  SaveInv'
  BY <1>r DEF SaveInv, IdsInv
<1>e. ~HasSeen(Idle) /\ Stands(Idle)
  BY IdleFields DEF HasSeen, Stands
<1>1. ASSUME NEW j \in Jobs, Serve(j) PROVE SaveInv'
  BY <1>1, SaveServed
<1>2. ASSUME NEW j \in Jobs, Load(j), rows' = rows, used' = used PROVE SaveInv'
  <2>1. OthersStay(j) /\ LoadStep(job[j], job'[j]) /\ Stands(job[j])
    BY <1>2, LoadEffect DEF SaveInv, StandsInv
  <2>2. Stands(job'[j]) /\ job'[j].kind \in {"load", "none"}
    BY <2>1, LoadStands
  <2>3. ~HasSeen(job'[j]) /\ job'[j].kind # "save"
    BY <2>2 DEF HasSeen, Stands
  <2>4. isSaving' = isSaving
    BY <1>2 DEF Load, initialize, AfterGetIndex, AfterGetRows, NextOrphan, AfterGetOrphan, OrphansDone, AfterPersist
  <2>5. StandsInv'
    BY <2>1, <2>2 DEF SaveInv, StandsInv, OthersStay
  <2>6. OneSave'
    BY <2>1, <2>3, <2>4, SavesStay DEF SaveInv, OthersStay
  <2> QED
    BY <1>2, <1>r, <2>1, <2>3, <2>5, <2>6 DEF OthersStay
<1>3. ASSUME NEW j \in Jobs, Continue(j), rows' = rows, used' = used PROVE SaveInv'
  <2>1. OthersStay(j) /\ ContinueStep(job[j], job'[j]) /\ Stands(job[j])
    BY <1>3, ContinueEffect DEF SaveInv, StandsInv
  <2>2. Stands(job'[j]) /\ job'[j].kind \in {job[j].kind, "none"}
    BY <2>1, ContinueStands
  <2>3. ~HasSeen(job'[j])
    BY <2>1, <1>e DEF HasSeen, ContinueStep, Commits, Keeps
  <2>4. StandsInv'
    BY <2>1, <2>2 DEF SaveInv, StandsInv, OthersStay
  <2>5. \A k \in Jobs : job'[k].kind = "save" => job[k].kind = "save"
    BY <2>1, <2>2 DEF OthersStay
  <2>6. isSaving' = isSaving \/ \A k \in Jobs : job'[k].kind # "save"
    <3>1. CASE isSaving' = isSaving
      BY <3>1
    <3>2. CASE (job[j].kind = "save" \/ job[j].at \in {"create", "update"}) /\ job'[j] = Idle
      <4>1. job[j].kind = "save"
        BY <2>1, <3>2 DEF Stands
      <4> QED
        BY <2>5, <3>2, <4>1, IdleFields DEF SaveInv, OneSave
    <3> QED
      BY <1>3, <3>1, <3>2, SavingEnds
  <2>7. OneSave'
    BY <2>5, <2>6, SavesStay DEF SaveInv
  <2> QED
    BY <1>3, <1>r, <2>1, <2>3, <2>4, <2>7 DEF OthersStay
<1>4. ASSUME NEW j \in Jobs, User(j), rows' = rows, used' = used PROVE SaveInv'
  <2>1. OthersStay(j) /\ UserStep(job'[j])
    BY <1>4, UserEffect
  <2>2. Stands(job'[j])
    BY <2>1, UserStands
  <2>3. ~HasSeen(job'[j])
    BY <2>1 DEF HasSeen, UserStep
  <2>4. StandsInv'
    BY <2>1, <2>2 DEF SaveInv, StandsInv, OthersStay
  <2>5. OneSave'
    <3>1. CASE job'[j].kind = "save"
      <4>1. ~isSaving /\ isSaving' = TRUE
        BY <2>1, <3>1 DEF UserStep
      <4>2. \A k \in Jobs \ {j} : job'[k].kind # "save"
        BY <2>1, <4>1 DEF SaveInv, OneSave, OthersStay
      <4> QED
        BY <4>1, <4>2 DEF OneSave
    <3>2. CASE job'[j].kind # "save"
      <4>1. isSaving' = isSaving
        BY <2>1, <3>2 DEF UserStep
      <4> QED
        BY <2>1, <3>2, <4>1, SavesStay DEF SaveInv, OthersStay
    <3> QED
      BY <3>1, <3>2
  <2> QED
    BY <1>4, <1>r, <2>1, <2>3, <2>4, <2>5 DEF OthersStay
<1>5. CASE (Type \/ NewNote \/ SweepSelect \/ UNCHANGED vars) /\ rows' = rows /\ used' = used
  <2>1. job' = job /\ isSaving' = isSaving
    BY <1>5 DEF Type, NewNote, SweepSelect, vars
  <2> QED
    BY <1>5, <1>r, <2>1 DEF SaveInv, StandsInv, OneSave
<1>6. CASE onLock \/ SweepDelete
  <2>1. \A k \in Jobs : Keeps(job[k], job'[k], {}) /\ job'[k].reply = job[k].reply
    BY <1>6, TouchedEffect
  <2>2. \A k \in Jobs : /\ job'[k].kind = job[k].kind /\ job'[k].at = job[k].at
                        /\ job'[k].note = job[k].note /\ job'[k].reply = job[k].reply
    BY <2>1 DEF Keeps
  <2>3. isSaving' = isSaving /\ DOMAIN rows' \subseteq DOMAIN rows /\ used' = used
    <3>1. onLock => isSaving' = isSaving /\ rows' = rows /\ used' = used
      BY DEF onLock, serverVars
    <3> QED
      BY <1>6, <3>1, SweepTakes DEF Fewer
  <2>4. StandsInv'
    BY <2>2 DEF SaveInv, StandsInv, Stands
  <2>5. OneSave'
    BY <2>2, <2>3, SavesStay DEF SaveInv
  <2>6. IdsInv'
    BY <2>2, <2>3 DEF SaveInv, IdsInv, HasSeen
  <2> QED
    BY <2>4, <2>5, <2>6 DEF SaveInv
<1>7. CASE onUnlock /\ rows' = rows /\ used' = used
  <2>0. isSaving' = isSaving
    BY <1>7 DEF onUnlock
  <2>1. CASE UNCHANGED job
    BY <1>7, <1>r, <2>0, <2>1 DEF SaveInv, StandsInv, OneSave
  <2>2. ASSUME NEW j \in Jobs, loadVault(j) PROVE SaveInv'
    <3>1. OthersStay(j) /\ job'[j].kind = "load" /\ job'[j].at = "getIndex" /\ job'[j].reply = "none"
      BY <2>2, LoadBegun
    <3>2. Stands(job'[j]) /\ ~HasSeen(job'[j])
      BY <3>1 DEF Stands, HasSeen
    <3>3. StandsInv'
      BY <3>1, <3>2 DEF SaveInv, StandsInv, OthersStay
    <3>4. OneSave'
      BY <2>0, <3>1, SavesStay DEF SaveInv, OthersStay
    <3> QED
      BY <1>7, <1>r, <3>1, <3>2, <3>3, <3>4 DEF OthersStay
  <2> QED
    BY <1>7, <2>1, <2>2 DEF onUnlock
<1>8. CASE Reload /\ rows' = rows /\ used' = used
  <2>1. PICK j \in Jobs : /\ job'[j].kind = "init" /\ job'[j].at = "session"
                          /\ \A k \in Jobs \ {j} : job'[k].kind = "none" /\ job'[k].at = "idle"
    BY <1>8, ReloadEffect
  <2>2. StandsInv' /\ OneSave' /\ \A k \in Jobs : ~HasSeen(job'[k])
    BY <2>1 DEF StandsInv, Stands, OneSave, HasSeen
  <2> QED
    BY <1>8, <1>r, <2>2
<1> QED
  BY <1>1, <1>2, <1>3, <1>4, <1>5, <1>6, <1>7, <1>8, RowsUntouched DEF Next

-----------------------------------------------------------------------------
(* The buffer, the rows, and what a save or an opening carries between them. *)

\* The rows are those of notes, and an empty buffer has none.
LEMMA NilHasNoRow ==
    ASSUME IInv
    PROVE  /\ DOMAIN rows \subseteq Notes /\ Nil \notin DOMAIN rows
           /\ Empty.own = Nil /\ Empty.ver = 0
           /\ value \in Text /\ lastSavedValue \in Text
           /\ value.ver \in Nat /\ lastSavedValue.ver \in Nat
<1>1. DOMAIN rows \subseteq Notes /\ value \in Text /\ lastSavedValue \in Text
  BY PartialFunctions DEF IInv, ServerInv, Rows, TabInv
<1> QED
  BY <1>1, VaultAssumption DEF Empty, Text

\* The versions of the texts are numbers.
LEMMA VersionsAreNumbers ==
    ASSUME IInv
    PROVE  /\ \A n \in DOMAIN rows : rows[n] \in Row /\ rows[n].text.ver \in Nat
           /\ \A j \in Jobs : job[j].text \in Text /\ job[j].text.ver \in Nat
<1>1. \A n \in DOMAIN rows : rows[n] \in Row
  BY PartialFunctions DEF IInv, ServerInv, Rows
<1>2. \A j \in Jobs : job[j].text \in Text
  BY JobFields DEF GoodFields
<1> QED
  BY <1>1, <1>2, VaultAssumption DEF Row, Text

\* A load leaves the rows, the index on the server and the buffer, or empties the buffer.
LEMMA LoadLeaves ==
    ASSUME NEW j \in Jobs, Load(j)
    PROVE  rows' = rows /\ saved' = saved /\ (UNCHANGED bufferVars \/ startNewBuffer)
<1>1. rows' = rows /\ saved' = saved
  BY DEF Load, initialize, AfterGetIndex, AfterGetRows, NextOrphan, AfterGetOrphan, OrphansDone,
         AfterPersist, serverVars
<1>2. Loaded(j) => UNCHANGED bufferVars \/ startNewBuffer
  BY DEF Loaded
<1>3. UNCHANGED bufferVars \/ startNewBuffer
  BY <1>2 DEF Load, initialize, AfterGetIndex, AfterGetRows, NextOrphan, AfterGetOrphan,
              OrphansDone, AfterPersist
<1> QED
  BY <1>1, <1>3

\* What a step does to buffer, rows and the jobs between them.  A job goes on without
\* any of them, is refused or ends, ...
Onward(r, s) ==
    \/ s.kind \notin {"save", "open"}
    \/ /\ s.kind = r.kind /\ s.note = r.note /\ s.text = r.text
       /\ s.at = r.at \/ (r.at = "update" /\ s.at = "updating")
       /\ s.reply = r.reply \/ s.reply \in {"no", "gone"} \/ r.at = "index"

\* ... while the rows get no text, and no save loses the buffer it has taken its text from;
Rests ==
    /\ Fewer
    /\ UNCHANGED bufferVars \/ (startNewBuffer /\ \A k \in Jobs : job'[k].kind # "save")
    /\ \A k \in Jobs : Onward(job[k], job'[k])

\* or job j is that of a save, ...
RowMade(r, s) ==
    /\ r.kind = "save" /\ r.at = "create" /\ r.reply = "none"
    /\ s.kind = "save" /\ s.at = "create" /\ s.reply \in {"ok", "no"}
    /\ s.note \in Notes \ used
    /\ s.text = [own |-> IF r.text.own = Nil THEN s.note ELSE r.text.own, ver |-> r.text.ver]
    /\ DOMAIN rows' = DOMAIN rows \cup {s.note} /\ rows'[s.note].text = s.text
    /\ \A m \in DOMAIN rows : m # s.note => rows'[m] = rows[m]
    /\ UNCHANGED bufferVars
RowKept(r, s) ==
    /\ r.kind = "save" /\ r.at = "updating"
    /\ s.kind = "save" /\ s.at = "update" /\ s.note = r.note /\ s.text = r.text
    /\ DOMAIN rows' = DOMAIN rows \cup {r.note} /\ rows'[r.note].text = r.text
    /\ \A m \in DOMAIN rows : m # r.note => rows'[m] = rows[m]
    /\ UNCHANGED bufferVars
Begun(r, s) ==
    /\ ~isSaving
    /\ s.kind = "save" /\ s.at = "encrypt" /\ s.reply = "none" /\ s.text = value
    /\ Reopened \subseteq crossed'
    /\ rows' = rows /\ UNCHANGED bufferVars
Chosen(r, s) ==
    /\ r.kind = "save" /\ r.at = "encrypt"
    /\ s.kind = "save" /\ s.at = (IF currentNoteId = Nil THEN "create" ELSE "update")
    /\ s.reply = "none" /\ s.note = currentNoteId /\ s.text = r.text
    /\ rows' = rows /\ UNCHANGED bufferVars
Made(r, s) ==
    /\ r.kind = "save" /\ r.at = "create" /\ r.reply = "ok" /\ r.note \in Notes
    /\ s.kind = "save" /\ s.at = "index" /\ s.note = r.note /\ s.text = r.text
    /\ currentNoteId' = r.note
    /\ value' = [value EXCEPT !.own = IF @ = Nil THEN r.note ELSE @]
    /\ rows' = rows /\ UNCHANGED <<lastSavedValue, isDirty>>
Indexed(r, s) ==
    /\ r.kind = "save" /\ r.at = "update" /\ r.reply = "ok"
    /\ s.kind = "save" /\ s.at = "index" /\ s.note = r.note /\ s.text = r.text
    /\ rows' = rows /\ UNCHANGED bufferVars
SaveDone(r, s) ==
    /\ r.kind = "save" /\ r.at = "index" /\ s = Idle
    /\ lastSavedValue' = r.text /\ isDirty' = FALSE
    /\ rows' = rows /\ UNCHANGED <<currentNoteId, value>>

\* ... or that of an opening,
Opening(r, s) ==
    /\ s.kind = "open" /\ s.at = "open" /\ s.reply = "none" /\ s.note # currentNoteId
    /\ rows' = rows /\ UNCHANGED bufferVars
TextGot(r, s) ==
    /\ r.kind = "open" /\ s.kind = "open" /\ s.note = r.note
    /\ r.note \in DOMAIN rows /\ s.text = rows[r.note].text
    /\ rows' = rows /\ UNCHANGED bufferVars
NoteOpened(r, s) ==
    /\ r.kind = "open" /\ r.reply = "ok" /\ s = Idle
    /\ \A k \in Jobs : job'[k].kind # "save"
    /\ currentNoteId' = r.note /\ value' = r.text /\ lastSavedValue' = r.text /\ isDirty' = FALSE
    /\ rows' = rows

\* ... or the user types.
Typed ==
    /\ value' = [value EXCEPT !.ver = @ + 1]
    /\ isDirty' = ~sameText(value', lastSavedValue)
    /\ isSaving => "typed" \in crossed'
    /\ UNCHANGED <<rows, job, currentNoteId, lastSavedValue>>

JobMoves(r, s) ==
    \/ RowMade(r, s) \/ RowKept(r, s) \/ Begun(r, s) \/ Chosen(r, s) \/ Made(r, s)
    \/ Indexed(r, s) \/ SaveDone(r, s) \/ Opening(r, s) \/ TextGot(r, s) \/ NoteOpened(r, s)

BufferStep ==
    Rests \/ Typed \/ \E j \in Jobs : OthersStay(j) /\ JobMoves(job[j], job'[j])

\* Rows as they are lose none.
LEMMA SameRows == ASSUME rows' = rows PROVE Fewer
BY DEF Fewer

\* A step that moves one job onward.
LEMMA RestsAt ==
    ASSUME NEW j \in Jobs, OthersStay(j), Fewer, Onward(job[j], job'[j]),
           UNCHANGED bufferVars \/ (startNewBuffer /\ \A k \in Jobs : job'[k].kind # "save")
    PROVE  BufferStep
<1>1. \A k \in Jobs : Onward(job[k], job'[k])
  BY DEF OthersStay, Onward
<1> QED
  BY <1>1 DEF Rests, BufferStep

\* A step of the jobs.
LEMMA StepsServed ==
    ASSUME IInv, SaveInv, NEW j \in Jobs, Serve(j)
    PROVE  BufferStep
<1> DEFINE r == job[j]
           s == job'[j]
<1>0. OthersStay(j) /\ Served(r, s) /\ Stands(r) /\ UNCHANGED bufferVars
  BY ServeEffect DEF SaveInv, StandsInv, Serve
<1>2. CASE Refused(r, s) \/ IndexSaved(r, s)
  <2>1. Keeps(r, s, {}) /\ rows' = rows /\ (s.reply \in {"no", "gone"} \/ r.at \in {"index", "persist"})
    BY <1>2 DEF Refused, IndexSaved
  <2>2. Onward(r, s)
    BY <1>0, <2>1 DEF Keeps, Onward, Stands
  <2> QED
    BY <1>0, <2>1, <2>2, SameRows, RestsAt
<1>3. CASE RowCreated(r, s)
  <2>1. /\ r.at = "create" /\ r.reply = "none"
        /\ Keeps(r, s, {"note", "text"}) /\ s.note \in Notes \ used /\ s.reply \in {"ok", "no"}
        /\ s.text = [own |-> IF r.text.own = Nil THEN s.note ELSE r.text.own, ver |-> r.text.ver]
        /\ rows' = [m \in DOMAIN rows \cup {s.note} |->
                        IF m = s.note THEN [text |-> s.text, trashed_at |-> FALSE] ELSE rows[m]]
    BY <1>0, <1>3 DEF RowCreated, Served
  <2>2. DOMAIN rows' = DOMAIN rows \cup {s.note} /\ rows'[s.note].text = s.text
        /\ \A m \in DOMAIN rows : m # s.note => rows'[m] = rows[m]
    BY <2>1
  <2>3. r.kind = "save" /\ s.kind = "save" /\ s.at = "create"
    BY <1>0, <2>1 DEF Stands, Keeps
  <2>4. RowMade(r, s)
    BY <1>0, <2>1, <2>2, <2>3 DEF RowMade
  <2> QED
    BY <1>0, <2>4 DEF BufferStep, JobMoves
<1>4. CASE RowRead(r, s)
  <2>1. rows' = rows /\ Onward(r, s)
    BY <1>0, <1>4 DEF RowRead, Keeps, Onward, Served
  <2> QED
    BY <1>0, <2>1, SameRows, RestsAt
<1>5. CASE RowWritten(r, s)
  <2>1. /\ Keeps(r, s, {"at"}) /\ s.at = "update" /\ r.at = "updating"
        /\ rows' = [m \in DOMAIN rows \cup {r.note} |->
                        IF m = r.note THEN [text |-> r.text, trashed_at |-> r.flag] ELSE rows[m]]
    BY <1>5 DEF RowWritten
  <2>2. DOMAIN rows' = DOMAIN rows \cup {r.note} /\ rows'[r.note].text = r.text
        /\ \A m \in DOMAIN rows : m # r.note => rows'[m] = rows[m]
    BY <2>1
  <2>3. RowKept(r, s)
    BY <1>0, <2>1, <2>2 DEF RowKept, Keeps, Stands
  <2> QED
    BY <1>0, <2>3 DEF BufferStep, JobMoves
<1>6. CASE RowDeleted(r, s) \/ RowsFlagged(r, s)
  <2>1. s.kind \notin {"save", "open"}
    BY <1>0, <1>6 DEF Stands, RowDeleted, RowsFlagged, Keeps
  <2>2. CASE RowDeleted(r, s)
    <3>1. Fewer
      BY <2>2 DEF RowDeleted, Fewer, Restrict
    <3> QED
      BY <1>0, <2>1, <3>1, RestsAt DEF Onward
  <2>3. CASE RowsFlagged(r, s)
    <3>1. \A n \in DOMAIN rows : [rows[n] EXCEPT !.trashed_at = r.flag].text = rows[n].text
      BY VersionsAreNumbers DEF Row
    <3>2. Fewer
      BY <2>3, <3>1 DEF RowsFlagged, Fewer
    <3> QED
      BY <1>0, <2>1, <3>2, RestsAt DEF Onward
  <2> QED
    BY <1>6, <2>2, <2>3
<1>7. CASE Got(r, s)
  <2>1. rows' = rows /\ s.kind = r.kind
    BY <1>7 DEF Got, Keeps
  <2>2. CASE r.at = "open"
    <3>1. TextGot(r, s)
      BY <1>0, <1>7, <2>1, <2>2 DEF Got, Keeps, TextGot, Stands
    <3> QED
      BY <1>0, <3>1 DEF BufferStep, JobMoves
  <2>3. CASE r.at # "open"
    <3>1. s.kind \notin {"save", "open"}
      BY <1>0, <1>7, <2>1, <2>3 DEF Got, Stands
    <3> QED
      BY <1>0, <2>1, <3>1, SameRows, RestsAt DEF Onward
  <2> QED
    BY <2>2, <2>3
<1> QED
  BY <1>0, <1>2, <1>3, <1>4, <1>5, <1>6, <1>7 DEF Served

\* While no save is under way, no job is one after a step that begins none.
LEMMA NoSave ==
    ASSUME SaveInv, ~isSaving, NEW j \in Jobs, OthersStay(j), job'[j].kind # "save"
    PROVE  \A k \in Jobs : job'[k].kind # "save"
BY DEF SaveInv, OneSave, OthersStay

\* A buffer that is replaced during a save is put down in the history.
LEMMA NotSwitched ==
    ASSUME "switched" \notin crossed', Cross(Switched), bufferVars' # bufferVars
    PROVE  ~isSaving
BY DEF Cross, Switched

\* The replies.
LEMMA StepsContinued ==
    ASSUME "switched" \notin crossed', IInv, SaveInv, NEW j \in Jobs, Continue(j)
    PROVE  BufferStep
<1> DEFINE r == job[j]
           s == job'[j]
<1>0. OthersStay(j) /\ ContinueStep(r, s) /\ Stands(r) /\ rows' = rows
  BY ContinueEffect DEF SaveInv, StandsInv
<1>1. r.at # "idle" /\ s.kind \in {r.kind, "none"}
  BY <1>0, ContinueStands
<1>f. Fewer
  BY <1>0, SameRows
<1>i. s = Idle => s.kind \notin {"save", "open"}
  BY IdleFields
<1>n. ASSUME ~isSaving, s.kind # "save" PROVE \A k \in Jobs : job'[k].kind # "save"
  BY <1>0, <1>n, NoSave
<1>s. ASSUME UNCHANGED bufferVars, s.kind \notin {"save", "open"} PROVE BufferStep
  BY <1>0, <1>f, <1>s, RestsAt DEF Onward
<1>e. ASSUME Cross(Switched), UNCHANGED bufferVars \/ startNewBuffer, s.kind \notin {"save", "open"}
      PROVE  BufferStep
  <2>1. CASE UNCHANGED bufferVars
    BY <1>e, <1>s, <2>1
  <2>2. CASE startNewBuffer /\ bufferVars' # bufferVars
    <3>1. ~isSaving
      BY <1>e, <2>2, NotSwitched
    <3> QED
      BY <1>0, <1>f, <1>e, <1>n, <2>2, <3>1, RestsAt DEF Onward
  <2> QED
    BY <1>e, <2>1, <2>2
<1>2. CASE AfterOpen(j)
  <2>1. r.at = "open" /\ r.kind = "open" /\ s = Idle /\ Cross(Switched)
    BY <1>0, <1>2, EndEffect DEF AfterOpen, At, Stands
  <2>2. CASE UNCHANGED bufferVars
    BY <1>i, <1>s, <2>1, <2>2
  <2>3. CASE bufferVars' # bufferVars
    <3>1. ~isSaving
      BY <2>1, <2>3, NotSwitched
    <3>2. /\ r.reply = "ok" /\ currentNoteId' = r.note /\ value' = r.text
          /\ lastSavedValue' = r.text /\ isDirty' = FALSE
      BY <1>2, <2>3 DEF AfterOpen
    <3>3. NoteOpened(r, s)
      BY <1>0, <1>i, <1>n, <2>1, <3>1, <3>2 DEF NoteOpened
    <3> QED
      BY <1>0, <3>3 DEF BufferStep, JobMoves
  <2> QED
    BY <2>2, <2>3
<1>3. CASE persistNoteRow(j)
  <2>1. /\ r.at = "encrypt"
        /\ Keeps(r, s, {"at", "note"}) /\ s.reply = "none" /\ s.note = currentNoteId
        /\ s.at = (IF currentNoteId = Nil THEN "create" ELSE "update")
        /\ UNCHANGED bufferVars
    BY <1>0, <1>3 DEF persistNoteRow, ContinueStep
  <2>2. Chosen(r, s)
    BY <1>0, <2>1 DEF Stands, Keeps, Chosen
  <2> QED
    BY <1>0, <2>2 DEF BufferStep, JobMoves
<1>4. CASE AfterRow(j)
  <2>0. r.at \in {"create", "update"} /\ r.kind = "save"
    BY <1>0, <1>4 DEF AfterRow, At, Stands
  <2>1. CASE s = Idle /\ UNCHANGED bufferVars
    BY <1>i, <1>s, <2>1
  <2>2. CASE /\ r.at = "create" /\ r.reply = "ok" /\ r.note \in Notes
             /\ Commits(r, s, addNote(index, r.note, FALSE))
             /\ currentNoteId' = r.note
             /\ value' = [value EXCEPT !.own = IF @ = Nil THEN r.note ELSE @]
             /\ UNCHANGED <<lastSavedValue, isDirty>>
    <3>1. s.kind = "save" /\ s.at = "index" /\ s.note = r.note /\ s.text = r.text
      BY <2>0, <2>2 DEF Commits, Keeps
    <3>2. Made(r, s)
      BY <1>0, <2>0, <2>2, <3>1 DEF Made
    <3> QED
      BY <1>0, <3>2 DEF BufferStep, JobMoves
  <2>3. CASE r.at = "update" /\ r.reply = "ok" /\ Commits(r, s, index) /\ UNCHANGED bufferVars
    <3>1. Indexed(r, s)
      BY <1>0, <2>0, <2>3 DEF Commits, Keeps, Indexed
    <3> QED
      BY <1>0, <3>1 DEF BufferStep, JobMoves
  <2> QED
    BY <1>0, <2>0, <2>1, <2>2, <2>3 DEF ContinueStep
<1>5. CASE AfterDelete(j)
  <2>1. r.at = "delete" /\ r.kind = "delete" /\ Cross(Switched)
    BY <1>0, <1>5 DEF AfterDelete, At, Stands
  <2>2. UNCHANGED bufferVars \/ startNewBuffer
    BY <1>5 DEF AfterDelete, CloseIfOpen
  <2> QED
    BY <1>1, <1>e, <2>1, <2>2
<1>6. CASE AfterFlag(j)
  <2>1. r.at = "flag" /\ UNCHANGED bufferVars
    BY <1>6 DEF AfterFlag, At
  <2>2. s.kind \notin {"save", "open"}
    BY <1>0, <1>1, <2>1 DEF Stands
  <2> QED
    BY <1>s, <2>1, <2>2
<1>7. CASE AfterIndex(j)
  <2>0. r.at = "index"
    BY <1>7 DEF AfterIndex, At
  <2>1. CASE r.kind = "save"
    <3>1. s = Idle
      BY <1>7, <2>1, EndEffect DEF AfterIndex
    <3>2. lastSavedValue' = r.text /\ isDirty' = FALSE /\ UNCHANGED <<currentNoteId, value>>
      BY <1>7, <2>1 DEF AfterIndex
    <3>3. SaveDone(r, s)
      BY <1>0, <2>0, <2>1, <3>1, <3>2 DEF SaveDone
    <3> QED
      BY <1>0, <3>3 DEF BufferStep, JobMoves
  <2>2. CASE r.kind = "delete"
    <3>1. Cross(Switched) /\ (UNCHANGED bufferVars \/ startNewBuffer)
      BY <1>7, <2>2 DEF AfterIndex, CloseIfOpen
    <3> QED
      BY <1>1, <1>e, <2>2, <3>1
  <2>3. CASE r.kind \notin {"save", "delete"}
    <3>1. UNCHANGED bufferVars
      BY <1>7, <2>3 DEF AfterIndex
    <3>2. s.kind \notin {"save", "open"}
      BY <1>0, <1>1, <2>0, <2>3 DEF Stands
    <3> QED
      BY <1>s, <3>1, <3>2
  <2> QED
    BY <2>1, <2>2, <2>3
<1> QED
  BY <1>2, <1>3, <1>4, <1>5, <1>6, <1>7 DEF Continue

\* A load empties the buffer, if at all, while no save is under way.
LEMMA StepsOfLoad ==
    ASSUME "switched" \notin crossed', IInv, SaveInv, NEW j \in Jobs, Load(j)
    PROVE  BufferStep
<1> DEFINE s == job'[j]
<1>0. OthersStay(j) /\ LoadStep(job[j], s) /\ Stands(job[j])
  BY LoadEffect DEF SaveInv, StandsInv
<1>1. s.kind \notin {"save", "open"}
  BY <1>0, LoadStands
<1>2. Fewer /\ (UNCHANGED bufferVars \/ startNewBuffer)
  BY LoadLeaves, SameRows
<1>3. UNCHANGED bufferVars \/ Cross(Switched)
  BY DEF Load, initialize, AfterGetIndex, AfterGetRows, NextOrphan, AfterGetOrphan, OrphansDone,
         AfterPersist
<1>4. CASE UNCHANGED bufferVars
  BY <1>0, <1>1, <1>2, <1>4, RestsAt DEF Onward
<1>5. CASE startNewBuffer /\ bufferVars' # bufferVars
  <2>1. ~isSaving
    BY <1>3, <1>5, NotSwitched
  <2>2. \A k \in Jobs : job'[k].kind # "save"
    BY <1>0, <1>1, <2>1, NoSave
  <2> QED
    BY <1>0, <1>1, <1>2, <1>5, <2>2, RestsAt DEF Onward
<1> QED
  BY <1>2, <1>4, <1>5

\* What the user starts.
LEMMA StepsOfUser ==
    ASSUME "switched" \notin crossed', IInv, SaveInv, NEW j \in Jobs, User(j)
    PROVE  BufferStep
<1> DEFINE s == job'[j]
<1>0. /\ OthersStay(j) /\ UserStep(s) /\ rows' = rows
      /\ (isSaving => bufferVars' = bufferVars)
  BY UserEffect
<1>1. CASE s.kind = "save"
  <2>1. Begun(job[j], s)
    BY <1>0, <1>1 DEF UserStep, Begun
  <2> QED
    BY <1>0, <2>1 DEF BufferStep, JobMoves
<1>2. CASE s.kind = "open"
  <2>1. Opening(job[j], s)
    BY <1>0, <1>2 DEF UserStep, Opening
  <2> QED
    BY <1>0, <2>1 DEF BufferStep, JobMoves
<1>3. CASE s.kind \notin {"save", "open"}
  <2>1. UNCHANGED bufferVars \/ startNewBuffer
    BY <1>0, <1>3 DEF UserStep
  <2>2. UNCHANGED bufferVars \/ (startNewBuffer /\ \A k \in Jobs : job'[k].kind # "save")
    BY <1>0, <1>3, <2>1, NoSave
  <2> QED
    BY <1>0, <1>3, <2>2, SameRows, RestsAt DEF Onward
<1> QED
  BY <1>1, <1>2, <1>3

\* All of them, as long as the buffer is not replaced under a save.
LEMMA BufferSteps ==
    ASSUME "switched" \notin crossed', IInv, SaveInv, [Next]_vars
    PROVE  BufferStep
<1>o. \A r : Onward(r, r)
  BY DEF Onward
<1>1. CASE Type
  <2>1. /\ value' = [value EXCEPT !.ver = @ + 1]
        /\ isDirty' = ~sameText(value', lastSavedValue)
        /\ UNCHANGED <<rows, job, currentNoteId, lastSavedValue>>
    BY <1>1 DEF Type, serverVars
  <2>2. isSaving => "typed" \in crossed'
    BY <1>1 DEF Type, Cross
  <2> QED
    BY <2>1, <2>2 DEF BufferStep, Typed
<1>2. CASE NewNote
  <2>1. rows' = rows /\ job' = job /\ startNewBuffer /\ Cross(Switched)
    BY <1>2 DEF NewNote, serverVars
  <2>2. CASE UNCHANGED bufferVars
    BY <1>o, <2>1, <2>2, SameRows DEF BufferStep, Rests
  <2>3. CASE bufferVars' # bufferVars
    <3>1. ~isSaving
      BY <2>1, <2>3, NotSwitched
    <3>2. \A k \in Jobs : job'[k].kind # "save"
      BY <2>1, <3>1 DEF SaveInv, OneSave
    <3> QED
      BY <1>o, <2>1, <3>2, SameRows DEF BufferStep, Rests
  <2> QED
    BY <2>2, <2>3
<1>3. CASE onLock \/ SweepDelete
  <2>1. Fewer /\ UNCHANGED bufferVars
    <3>1. onLock => rows' = rows /\ UNCHANGED bufferVars
      BY DEF onLock, serverVars
    <3> QED
      BY <1>3, <3>1, SweepTakes, SameRows
  <2>2. \A k \in Jobs : Onward(job[k], job'[k])
    BY <1>3, TouchedEffect DEF Onward, Keeps
  <2> QED
    BY <2>1, <2>2 DEF BufferStep, Rests
<1>4. CASE onUnlock
  <2>1. rows' = rows /\ UNCHANGED bufferVars
    BY <1>4 DEF onUnlock, serverVars
  <2>2. CASE UNCHANGED job
    BY <1>o, <2>1, <2>2, SameRows DEF BufferStep, Rests
  <2>3. ASSUME NEW j \in Jobs, loadVault(j) PROVE BufferStep
    BY <2>1, <2>3, LoadBegun, SameRows, RestsAt DEF Onward
  <2> QED
    BY <1>4, <2>2, <2>3 DEF onUnlock
<1>5. CASE Reload
  <2>1. rows' = rows /\ startNewBuffer
    BY <1>5 DEF Reload, serverVars
  <2>2. \A k \in Jobs : job'[k].kind \notin {"save", "open"}
    BY <1>5, ReloadEffect
  <2> QED
    BY <2>1, <2>2, SameRows DEF BufferStep, Rests, Onward
<1>6. CASE SweepSelect \/ UNCHANGED vars
  <2>1. rows' = rows /\ job' = job /\ UNCHANGED bufferVars
    BY <1>6 DEF SweepSelect, vars, serverVars
  <2> QED
    BY <1>o, <2>1, SameRows DEF BufferStep, Rests
<1> QED
  BY <1>1, <1>2, <1>3, <1>4, <1>5, <1>6, StepsServed, StepsContinued, StepsOfLoad, StepsOfUser DEF Next

\* Who owns what, as long as the buffer is not replaced under a save: a save carries a text
\* of the document the buffer shows, and writes it there, ...
SaveOwn(r) ==
    /\ r.at # "create" => r.text.own = currentNoteId
    /\ r.at \in {"update", "updating", "index"} => r.note = currentNoteId
    /\ r.at = "create" =>
        /\ currentNoteId = Nil
        /\ r.reply = "none" => r.text.own = Nil
        /\ r.reply = "ok" => r.text.own = r.note

\* ... and a note that is opened brings its own text.
OwnJob(r) ==
    /\ r.kind = "save" => SaveOwn(r)
    /\ r.kind = "open" /\ r.reply = "ok" => r.text.own = r.note

RowsOwn == \A n \in DOMAIN rows : rows[n].text.own = n

OwnInv == value.own = currentNoteId /\ RowsOwn /\ \A j \in Jobs : OwnJob(job[j])

\* The steps keep to it.
LEMMA OwnKept ==
    ASSUME IInv, SaveInv, OwnInv, BufferStep
    PROVE  OwnInv'
<1>i. ASSUME NEW r, r = Idle PROVE r.kind \notin {"save", "open"}
  BY <1>i, IdleFields
<1>u. ASSUME NEW j \in Jobs, OthersStay(j), UNCHANGED currentNoteId, value'.own = value.own,
             RowsOwn', OwnJob(job[j])'
      PROVE  OwnInv'
  <2>1. \A k \in Jobs \ {j} : OwnJob(job[k])'
    BY <1>u DEF OwnInv, OwnJob, SaveOwn, OthersStay
  <2> QED
    BY <1>u, <2>1 DEF OwnInv
<1>s. ASSUME NEW j \in Jobs, OthersStay(j), OwnJob(job[j])', RowsOwn', value'.own = currentNoteId',
             \A k \in Jobs \ {j} : job'[k].kind # "save"
      PROVE  OwnInv'
  <2>1. \A k \in Jobs \ {j} : OwnJob(job[k])'
    BY <1>s DEF OwnInv, OwnJob, OthersStay
  <2> QED
    BY <1>s, <2>1 DEF OwnInv
<1>r. rows' = rows => RowsOwn'
  BY DEF OwnInv, RowsOwn
<1>b. UNCHANGED bufferVars => UNCHANGED currentNoteId /\ value' = value
  BY DEF bufferVars
<1>1. CASE Rests
  <2>1. RowsOwn'
    BY <1>1 DEF Rests, Fewer, OwnInv, RowsOwn
  <2>o. ASSUME NEW k \in Jobs, job'[k].kind = "open", job'[k].reply = "ok"
        PROVE  job'[k].text.own = job'[k].note
    <3>1. /\ job[k].kind = "open" /\ job'[k].text = job[k].text /\ job'[k].note = job[k].note
          /\ job[k].reply = "ok" \/ job[k].at = "index"
      BY <1>1, <2>o DEF Rests, Onward
    <3> QED
      BY <3>1 DEF SaveInv, StandsInv, Stands, OwnInv, OwnJob
  <2>2. CASE UNCHANGED bufferVars
    <3>1. ASSUME NEW k \in Jobs PROVE OwnJob(job[k])'
      <4>1. ASSUME job'[k].kind = "save" PROVE SaveOwn(job[k])'
        <5>1. /\ job[k].kind = "save" /\ job'[k].text = job[k].text /\ job'[k].note = job[k].note
              /\ \/ job'[k].at = job[k].at
                 \/ job[k].at = "update" /\ job'[k].at = "updating"
              /\ job[k].at = "index" \/ job'[k].reply = job[k].reply \/ job'[k].reply \in {"no", "gone"}
          BY <1>1, <4>1 DEF Rests, Onward
        <5>2. SaveOwn(job[k])
          BY <5>1 DEF OwnInv, OwnJob
        <5> QED
          BY <1>b, <2>2, <5>1, <5>2 DEF SaveOwn
      <4> QED
        BY <2>o, <4>1 DEF OwnJob
    <3> QED
      BY <1>b, <2>1, <2>2, <3>1 DEF OwnInv
  <2>3. CASE startNewBuffer /\ \A k \in Jobs : job'[k].kind # "save"
    <3>1. \A k \in Jobs : OwnJob(job[k])'
      BY <2>3, <2>o DEF OwnJob
    <3>2. value'.own = currentNoteId'
      BY <2>3, NilHasNoRow DEF startNewBuffer
    <3> QED
      BY <2>1, <3>1, <3>2 DEF OwnInv
  <2> QED
    BY <1>1, <2>2, <2>3 DEF Rests
<1>2. CASE Typed
  <2>1. value'.own = value.own /\ UNCHANGED <<rows, job, currentNoteId>>
    BY <1>2, NilHasNoRow DEF Typed, Text
  <2> QED
    BY <2>1 DEF OwnInv, RowsOwn, OwnJob, SaveOwn
<1>3. ASSUME NEW j \in Jobs, OthersStay(j), JobMoves(job[j], job'[j])
      PROVE  OwnInv'
  <2> DEFINE r == job[j]
             s == job'[j]
  <2>0. OwnJob(r) /\ value.own = currentNoteId /\ RowsOwn
    BY DEF OwnInv
  <2>1. CASE RowMade(r, s)
    <3>1. r.text.own = Nil /\ s.text.own = s.note /\ currentNoteId = Nil
      BY <2>0, <2>1 DEF RowMade, OwnJob, SaveOwn
    <3>2. RowsOwn'
      BY <2>0, <2>1, <3>1 DEF RowMade, RowsOwn
    <3>3. OwnJob(job[j])'
      BY <1>b, <2>1, <3>1 DEF RowMade, OwnJob, SaveOwn
    <3> QED
      BY <1>3, <1>u, <1>b, <2>1, <3>2, <3>3 DEF RowMade
  <2>2. CASE RowKept(r, s)
    <3>1. r.text.own = r.note /\ r.note = currentNoteId
      BY <2>0, <2>2 DEF RowKept, OwnJob, SaveOwn
    <3>2. RowsOwn'
      BY <2>0, <2>2, <3>1 DEF RowKept, RowsOwn
    <3>3. OwnJob(job[j])'
      BY <1>b, <2>2, <3>1 DEF RowKept, OwnJob, SaveOwn
    <3> QED
      BY <1>3, <1>u, <1>b, <2>2, <3>2, <3>3 DEF RowKept
  <2>3. CASE Begun(r, s) \/ Opening(r, s)
    <3>1. OwnJob(job[j])' /\ rows' = rows /\ UNCHANGED bufferVars
      BY <1>b, <2>0, <2>3 DEF Begun, Opening, OwnJob, SaveOwn
    <3> QED
      BY <1>3, <1>u, <1>r, <1>b, <3>1
  <2>4. CASE Chosen(r, s)
    <3>1. OwnJob(job[j])'
      BY <1>b, <2>0, <2>4 DEF Chosen, OwnJob, SaveOwn
    <3> QED
      BY <1>3, <1>u, <1>r, <1>b, <2>4, <3>1 DEF Chosen
  <2>5. CASE Indexed(r, s)
    <3>1. OwnJob(job[j])'
      BY <1>b, <2>0, <2>5 DEF Indexed, OwnJob, SaveOwn
    <3> QED
      BY <1>3, <1>u, <1>r, <1>b, <2>5, <3>1 DEF Indexed
  <2>6. CASE SaveDone(r, s)
    <3>1. OwnJob(job[j])'
      BY <2>6, <1>i DEF SaveDone, OwnJob
    <3> QED
      BY <1>3, <1>u, <1>r, <2>6, <3>1 DEF SaveDone
  <2>7. CASE TextGot(r, s)
    <3>1. OwnJob(job[j])'
      BY <2>0, <2>7 DEF TextGot, OwnJob, RowsOwn
    <3> QED
      BY <1>3, <1>u, <1>r, <1>b, <2>7, <3>1 DEF TextGot
  <2>8. CASE NoteOpened(r, s)
    <3>1. OwnJob(job[j])' /\ value'.own = currentNoteId'
      BY <2>0, <2>8, <1>i DEF NoteOpened, OwnJob
    <3> QED
      BY <1>3, <1>s, <1>r, <2>8, <3>1 DEF NoteOpened
  <2>9. CASE Made(r, s)
    <3>1. r.text.own = r.note /\ value.own = Nil
      BY <2>0, <2>9 DEF Made, OwnJob, SaveOwn
    <3>2. value'.own = r.note
      BY <2>9, <3>1, NilHasNoRow DEF Made, Text
    <3>3. OwnJob(job[j])'
      BY <2>9, <3>1 DEF Made, OwnJob, SaveOwn
    <3>4. \A k \in Jobs \ {j} : job'[k].kind # "save"
      BY <1>3, <2>9 DEF Made, SaveInv, OneSave, OthersStay
    <3> QED
      BY <1>3, <1>s, <1>r, <2>9, <3>2, <3>3, <3>4 DEF Made
  <2> QED
    BY <1>3, <2>1, <2>2, <2>3, <2>4, <2>5, <2>6, <2>7, <2>8, <2>9 DEF JobMoves
<1> QED
  BY <1>1, <1>2, <1>3 DEF BufferStep

\* What is newer than what, as long as no note is saved either that is being opened anew:
\* the buffer is no older than the row of its note, nor is a save on its way to that row;
TextsGrow == \A n \in DOMAIN rows \cap DOMAIN rows' : rows[n].text.ver <= rows'[n].text.ver

\* the row of note n, if there is one, is no newer than version v;
Below(n, v) == n \in DOMAIN rows => rows[n].text.ver <= v

\* a save is on its way to the row of the open note, and no answer to opening it is to come, ...
SaveNew(r) ==
    /\ r.text.ver <= value.ver
    /\ r.at \in {"encrypt", "update", "updating"} =>
        /\ Below(currentNoteId, r.text.ver)
        /\ \A k \in Jobs : job[k].kind = "open" => job[k].note # currentNoteId
    /\ r.at = "create" /\ r.reply = "ok" => Below(r.note, r.text.ver)

\* ... and an answer that brings a text brings the newest.
NewJob(r) ==
    /\ r.kind = "save" => SaveNew(r)
    /\ r.kind = "open" /\ r.reply = "ok" => Below(r.note, r.text.ver)

NewInv == Below(currentNoteId, value.ver) /\ \A j \in Jobs : NewJob(job[j])

\* The steps keep to it, and put no older text over a newer one.
LEMMA NewKept ==
    ASSUME IInv, SaveInv, OwnInv, NewInv, BufferStep, "reopened" \notin crossed'
    PROVE  NewInv' /\ TextsGrow
<1>v. /\ \A n \in DOMAIN rows : rows[n].text.ver \in Nat
      /\ \A k \in Jobs : job[k].text.ver \in Nat
      /\ value.ver \in Nat /\ Nil \notin DOMAIN rows
  BY NilHasNoRow, VersionsAreNumbers
<1>b. UNCHANGED bufferVars => UNCHANGED <<currentNoteId, value>>
  BY DEF bufferVars
<1>f. Fewer => TextsGrow /\ \A n, v : Below(n, v) => Below(n, v)'
  BY <1>v DEF Fewer, TextsGrow, Below
<1>g. rows' = rows => Fewer
  BY SameRows
<1>1. CASE Rests
  <2>1. Fewer /\ TextsGrow /\ \A n, v : Below(n, v) => Below(n, v)'
    BY <1>1, <1>f DEF Rests
  <2>2. CASE UNCHANGED bufferVars
    <3>o. \A k \in Jobs : job'[k].kind = "open" => job[k].kind = "open" /\ job'[k].note = job[k].note
      BY <1>1 DEF Rests, Onward
    <3>1. ASSUME NEW k \in Jobs PROVE NewJob(job[k])'
      <4> DEFINE r == job[k]
                 s == job'[k]
      <4>1. NewJob(r) /\ Onward(r, s)
        BY <1>1 DEF Rests, NewInv
      <4>2. ASSUME s.kind = "save" PROVE SaveNew(job[k])'
        <5>1. /\ r.kind = "save" /\ s.text = r.text /\ s.note = r.note
              /\ s.at = r.at \/ (r.at = "update" /\ s.at = "updating")
              /\ s.at = "create" /\ s.reply = "ok" => r.reply = "ok"
          BY <4>1, <4>2 DEF Onward
        <5>2. SaveNew(r)
          BY <4>1, <5>1 DEF NewJob
        <5>3. /\ r.text.ver <= value.ver /\ UNCHANGED <<currentNoteId, value>>
              /\ s.at \in {"encrypt", "update", "updating"} => r.at \in {"encrypt", "update", "updating"}
              /\ s.at = "create" /\ s.reply = "ok" => r.at = "create" /\ r.reply = "ok"
          BY <1>b, <2>2, <5>1, <5>2 DEF SaveNew
        <5>4. \A n \in {currentNoteId, r.note} : Below(n, r.text.ver) =>
                  (n \in DOMAIN rows' => rows'[n].text.ver <= r.text.ver)
          BY <2>1 DEF Below, Fewer
        <5> QED
          BY <3>o, <5>1, <5>2, <5>3, <5>4 DEF SaveNew, Below
      <4>3. ASSUME s.kind = "open", s.reply = "ok" PROVE Below(job[k].note, job[k].text.ver)'
        <5>1. r.kind = "open" /\ s.text = r.text /\ s.note = r.note /\ (r.reply = "ok" \/ r.at = "index")
          BY <4>1, <4>3 DEF Onward
        <5>2. r.reply = "ok"
          BY <5>1 DEF SaveInv, StandsInv, Stands
        <5> QED
          BY <2>1, <4>1, <5>1, <5>2 DEF NewJob, Below
      <4> QED
        BY <4>2, <4>3 DEF NewJob
    <3>2. Below(currentNoteId, value.ver)'
      BY <1>b, <2>1, <2>2 DEF NewInv, Below
    <3> QED
      BY <2>1, <3>1, <3>2 DEF NewInv
  <2>3. CASE startNewBuffer /\ \A k \in Jobs : job'[k].kind # "save"
    <3>1. ASSUME NEW k \in Jobs PROVE NewJob(job[k])'
      <4> DEFINE r == job[k]
                 s == job'[k]
      <4>1. NewJob(r) /\ Onward(r, s)
        BY <1>1 DEF Rests, NewInv
      <4>3. ASSUME s.kind = "open", s.reply = "ok" PROVE Below(job[k].note, job[k].text.ver)'
        <5>1. r.kind = "open" /\ s.text = r.text /\ s.note = r.note /\ (r.reply = "ok" \/ r.at = "index")
          BY <4>1, <4>3 DEF Onward
        <5>2. r.reply = "ok"
          BY <5>1 DEF SaveInv, StandsInv, Stands
        <5> QED
          BY <2>1, <4>1, <5>1, <5>2 DEF NewJob, Below
      <4> QED
        BY <2>3, <4>3 DEF NewJob
    <3>2. Below(currentNoteId, value.ver)'
      BY <1>v, <2>1, <2>3 DEF startNewBuffer, Below, Fewer
    <3> QED
      BY <2>1, <3>1, <3>2 DEF NewInv
  <2> QED
    BY <1>1, <2>2, <2>3 DEF Rests
<1>2. CASE Typed
  <2>1. value'.ver = value.ver + 1 /\ UNCHANGED <<rows, job, currentNoteId>>
    BY <1>2, NilHasNoRow DEF Typed, Text
  <2>2. TextsGrow
    BY <1>f, <1>g, <2>1
  <2>3. Below(currentNoteId, value.ver)'
    BY <1>v, <2>1 DEF NewInv, Below
  <2>4. \A k \in Jobs : NewJob(job[k])'
    <3> TAKE k \in Jobs
    <3>1. NewJob(job[k]) /\ job'[k] = job[k]
      BY <2>1 DEF NewInv
    <3>2. SaveNew(job[k]) => SaveNew(job[k])'
      BY <1>v, <2>1 DEF SaveNew, Below
    <3> QED
      BY <2>1, <3>1, <3>2 DEF NewJob, Below
  <2> QED
    BY <2>2, <2>3, <2>4 DEF NewInv
<1>3. ASSUME NEW j \in Jobs, OthersStay(j), JobMoves(job[j], job'[j])
      PROVE  NewInv' /\ TextsGrow
  <2> DEFINE r == job[j]
             s == job'[j]
  <2>0. NewJob(r) /\ OwnJob(r) /\ Below(currentNoteId, value.ver) /\ value.own = currentNoteId
    BY DEF NewInv, OwnInv
  <2>o. \A k \in Jobs \ {j} : job'[k] = job[k] /\ NewJob(job[k])
    BY <1>3 DEF OthersStay, NewInv
  <2>n. ASSUME r.kind = "save" PROVE \A k \in Jobs \ {j} : job[k].kind # "save"
    BY <2>n DEF SaveInv, OneSave
  <2>k. ASSUME rows' = rows, NEW k \in Jobs \ {j}, job[k].kind # "save"
        PROVE  NewJob(job[k])'
    BY <2>o, <2>k DEF NewJob, Below
  <2>a. ASSUME rows' = rows, \A k \in Jobs \ {j} : job[k].kind # "save", NewJob(job[j])',
               Below(currentNoteId, value.ver)'
        PROVE  NewInv' /\ TextsGrow
    BY <1>f, <1>g, <2>a, <2>k DEF NewInv
  <2>c. ASSUME UNCHANGED bufferVars, rows' = rows PROVE Below(currentNoteId, value.ver)'
    BY <1>b, <2>0, <2>c DEF Below
  <2>1. CASE RowMade(r, s)
    <3>1. currentNoteId = Nil /\ s.text.ver = r.text.ver /\ r.text.ver <= value.ver /\ s.note \notin DOMAIN rows
      BY <2>0, <2>1 DEF RowMade, OwnJob, SaveOwn, NewJob, SaveNew, SaveInv, IdsInv
    <3>2. TextsGrow
      BY <1>v, <2>1, <3>1 DEF RowMade, TextsGrow
    <3>3. Below(currentNoteId, value.ver)'
      <4>1. s.note # Nil /\ UNCHANGED <<currentNoteId, value>>
        BY <1>b, <2>1, VaultAssumption DEF RowMade
      <4> QED
        BY <1>v, <2>1, <3>1, <4>1 DEF RowMade, Below
    <3>4. NewJob(job[j])'
      BY <1>b, <1>v, <2>1, <3>1 DEF RowMade, NewJob, SaveNew, Below
    <3>5. ASSUME NEW k \in Jobs \ {j} PROVE NewJob(job[k])'
      <4>1. job[k].kind # "save"
        BY <2>1, <2>n DEF RowMade
      <4>2. ASSUME job[k].kind = "open", job[k].reply = "ok" PROVE Below(job[k].note, job[k].text.ver)'
        <5>1. job[k].note \in used
          BY <4>2 DEF SaveInv, IdsInv, HasSeen, StandsInv, Stands
        <5>2. job[k].note # s.note
          BY <2>1, <5>1 DEF RowMade
        <5> QED
          BY <2>o, <2>1, <4>2, <5>2 DEF RowMade, NewJob, Below
      <4> QED
        BY <2>o, <4>1, <4>2 DEF NewJob
    <3> QED
      BY <3>2, <3>3, <3>4, <3>5 DEF NewInv
  <2>2. CASE RowKept(r, s)
    <3>1. /\ r.note = currentNoteId /\ r.text.ver <= value.ver
          /\ Below(r.note, r.text.ver)
          /\ \A k \in Jobs : job[k].kind = "open" => job[k].note # r.note
      BY <2>0, <2>2 DEF RowKept, OwnJob, SaveOwn, NewJob, SaveNew
    <3>2. TextsGrow
      BY <1>v, <2>2, <3>1 DEF RowKept, TextsGrow, Below
    <3>3. Below(currentNoteId, value.ver)' /\ Below(currentNoteId, r.text.ver)'
      BY <1>b, <1>v, <2>2, <3>1 DEF RowKept, Below
    <3>4. \A k \in Jobs : job'[k].kind = "open" => job'[k].note # r.note
      BY <2>2, <2>o, <3>1 DEF RowKept
    <3>5. NewJob(job[j])'
      BY <1>b, <2>2, <3>1, <3>3, <3>4 DEF RowKept, NewJob, SaveNew, Below
    <3>6. ASSUME NEW k \in Jobs \ {j} PROVE NewJob(job[k])'
      <4>1. job[k].kind # "save"
        BY <2>2, <2>n DEF RowKept
      <4>2. ASSUME job[k].kind = "open", job[k].reply = "ok" PROVE Below(job[k].note, job[k].text.ver)'
        BY <2>o, <2>2, <3>1, <4>2 DEF RowKept, NewJob, Below
      <4> QED
        BY <2>o, <4>1, <4>2 DEF NewJob
    <3> QED
      BY <3>2, <3>3, <3>5, <3>6 DEF NewInv
  <2>3. CASE Begun(r, s)
    <3>1. \A k \in Jobs : job[k].kind = "open" => job[k].note # currentNoteId
      BY <2>3 DEF Begun, Reopened
    <3>2. \A k \in Jobs : job'[k].kind = "open" => job'[k].note # currentNoteId
      BY <2>3, <2>o, <3>1 DEF Begun
    <3>3. NewJob(job[j])'
      BY <1>b, <1>v, <2>0, <2>3, <3>2 DEF Begun, NewJob, SaveNew, Below
    <3>4. \A k \in Jobs \ {j} : job[k].kind # "save"
      BY <2>3 DEF Begun, SaveInv, OneSave
    <3> QED
      BY <2>3, <2>a, <2>c, <3>3, <3>4 DEF Begun
  <2>4. CASE Chosen(r, s)
    <3>1. \A k \in Jobs : job'[k].kind = "open" => job[k].kind = "open" /\ job'[k].note = job[k].note
      BY <2>4, <2>o DEF Chosen
    <3>2. NewJob(job[j])'
      BY <1>b, <2>0, <2>4, <3>1 DEF Chosen, NewJob, SaveNew, Below
    <3> QED
      BY <2>4, <2>a, <2>c, <2>n, <3>2 DEF Chosen
  <2>5. CASE Indexed(r, s)
    <3>1. NewJob(job[j])'
      BY <1>b, <2>0, <2>5 DEF Indexed, NewJob, SaveNew
    <3> QED
      BY <2>5, <2>a, <2>c, <2>n, <3>1 DEF Indexed
  <2>6. CASE Made(r, s)
    <3>1. value'.ver = value.ver
      BY <2>6, NilHasNoRow DEF Made, Text
    <3>2. r.text.ver <= value.ver /\ Below(r.note, r.text.ver)
      BY <2>0, <2>6 DEF Made, NewJob, SaveNew
    <3>3. Below(currentNoteId, value.ver)'
      BY <1>v, <2>6, <3>1, <3>2 DEF Made, Below
    <3>4. NewJob(job[j])'
      BY <2>6, <3>1, <3>2 DEF Made, NewJob, SaveNew
    <3> QED
      BY <2>6, <2>a, <2>n, <3>3, <3>4 DEF Made
  <2>7. CASE SaveDone(r, s)
    <3>1. NewJob(job[j])'
      BY <2>7, IdleFields DEF SaveDone, NewJob
    <3>2. Below(currentNoteId, value.ver)'
      BY <2>0, <2>7 DEF SaveDone, Below
    <3> QED
      BY <2>7, <2>a, <2>n, <3>1, <3>2 DEF SaveDone
  <2>8. CASE NoteOpened(r, s)
    <3>1. Below(currentNoteId, value.ver)'
      BY <2>0, <2>8 DEF NoteOpened, NewJob, Below
    <3>2. NewJob(job[j])'
      BY <2>8, IdleFields DEF NoteOpened, NewJob
    <3>3. \A k \in Jobs \ {j} : job[k].kind # "save"
      BY <2>o, <2>8 DEF NoteOpened
    <3> QED
      BY <2>8, <2>a, <3>1, <3>2, <3>3 DEF NoteOpened
  <2>9. CASE Opening(r, s) \/ TextGot(r, s)
    <3>0. rows' = rows /\ UNCHANGED <<currentNoteId, value>> /\ s.kind = "open"
      BY <1>b, <2>9 DEF Opening, TextGot
    <3>1. Below(currentNoteId, value.ver)'
      BY <2>0, <3>0 DEF Below
    <3>2. NewJob(job[j])'
      BY <1>v, <2>9, <3>0 DEF Opening, TextGot, NewJob, Below
    <3>3. ASSUME NEW k \in Jobs \ {j} PROVE NewJob(job[k])'
      <4>1. ASSUME job[k].kind = "save" PROVE SaveNew(job[k])'
        <5>1. SaveNew(job[k]) /\ job'[k] = job[k]
          BY <2>o, <4>1 DEF NewJob
        <5>2. ASSUME \A i \in Jobs : job[i].kind = "open" => job[i].note # currentNoteId
              PROVE  \A i \in Jobs : job'[i].kind = "open" => job'[i].note # currentNoteId
          BY <2>o, <2>9, <5>2 DEF Opening, TextGot
        <5> QED
          BY <3>0, <5>1, <5>2 DEF SaveNew, Below
      <4> QED
        BY <2>o, <2>k, <3>0, <4>1 DEF NewJob
    <3> QED
      BY <1>f, <1>g, <3>0, <3>1, <3>2, <3>3 DEF NewInv
  <2> QED
    BY <1>3, <2>1, <2>2, <2>3, <2>4, <2>5, <2>6, <2>7, <2>8, <2>9 DEF JobMoves
<1> QED
  BY <1>1, <1>2, <1>3 DEF BufferStep

\* What is saved, as long as nobody types during a save either: the row holds the text of
\* the job, if it is still there;
Stored(r) == r.note \in DOMAIN rows => rows[r.note].text = r.text

\* a save carries what the buffer shows, ...
SaveClean(r) ==
    /\ r.at # "create" => r.text = value
    /\ r.at = "create" => /\ r.reply = "none" => r.text = value
                          /\ r.reply = "ok" => r.text = [own |-> r.note, ver |-> value.ver] /\ Stored(r)
    /\ r.at = "index" \/ (r.at = "update" /\ r.reply = "ok") => Stored(r)

\* ... and the answer to an opening what was saved.
CleanJob(r) ==
    /\ r.kind = "save" => SaveClean(r)
    /\ r.kind = "open" /\ r.reply = "ok" => Stored(r)

RowShown == ~isDirty /\ currentNoteId \in DOMAIN rows => rows[currentNoteId].text = value

CleanInv == lastSavedValue.ver <= value.ver /\ RowShown /\ \A j \in Jobs : CleanJob(job[j])

\* The steps keep to it.
LEMMA CleanKept ==
    ASSUME IInv, SaveInv, OwnInv, NewInv, CleanInv, BufferStep,
           crossed' \cap {"typed", "switched", "reopened"} = {}
    PROVE  CleanInv'
<1>v. /\ value.ver \in Nat /\ lastSavedValue.ver \in Nat /\ Nil \notin DOMAIN rows
      /\ \A k \in Jobs : job[k].text.ver \in Nat
  BY NilHasNoRow, VersionsAreNumbers
<1>b. UNCHANGED bufferVars => UNCHANGED <<currentNoteId, value, lastSavedValue, isDirty>>
  BY DEF bufferVars
<1>0. lastSavedValue.ver <= value.ver /\ RowShown
  BY DEF CleanInv
<1>1. CASE Rests
  <2>1. Fewer
    BY <1>1 DEF Rests
  <2>2. ASSUME NEW k \in Jobs,
               job'[k].kind = "save" => UNCHANGED <<currentNoteId, value>>
        PROVE  CleanJob(job[k])'
    <3> DEFINE r == job[k]
               s == job'[k]
    <3>1. CleanJob(r) /\ Onward(r, s) /\ Stands(r)
      BY <1>1 DEF Rests, CleanInv, SaveInv, StandsInv
    <3>2. CASE s.kind = "save"
      <4>1. /\ r.kind = "save" /\ s.text = r.text /\ s.note = r.note
            /\ s.at = r.at \/ (r.at = "update" /\ s.at = "updating")
            /\ s.reply = r.reply \/ s.reply \in {"no", "gone"} \/ r.at = "index"
        BY <3>1, <3>2 DEF Onward
      <4>2. Stored(r) => Stored(job[k])'
        BY <2>1, <4>1 DEF Stored, Fewer
      <4>3. SaveClean(r) /\ value' = value
        BY <2>2, <3>1, <3>2, <4>1 DEF CleanJob
      <4>4. s.text = value \/ r.at = "create"
        BY <4>1, <4>3 DEF SaveClean
      <4>5. CASE r.at = "create"
        <5>1. s.at = "create" /\ (s.reply = r.reply \/ s.reply \in {"no", "gone"})
          BY <4>1, <4>5
        <5> QED
          BY <3>2, <4>1, <4>2, <4>3, <4>5, <5>1 DEF SaveClean, CleanJob
      <4>6. CASE r.at # "create"
        BY <3>2, <4>1, <4>2, <4>3, <4>6 DEF SaveClean, CleanJob
      <4> QED
        BY <4>5, <4>6
    <3>3. CASE s.kind = "open" /\ s.reply = "ok"
      <4>1. r.kind = "open" /\ s.text = r.text /\ s.note = r.note /\ (r.reply = "ok" \/ r.at = "index")
        BY <3>1, <3>3 DEF Onward
      <4>2. Stored(r)
        BY <3>1, <4>1 DEF Stands, CleanJob
      <4> QED
        BY <2>1, <3>3, <4>1, <4>2 DEF CleanJob, Stored, Fewer
    <3> QED
      BY <3>2, <3>3 DEF CleanJob
  <2>3. CASE UNCHANGED bufferVars
    <3>1. lastSavedValue'.ver <= value'.ver /\ RowShown'
      BY <1>0, <1>b, <2>1, <2>3 DEF RowShown, Fewer
    <3> QED
      BY <1>b, <2>2, <2>3, <3>1 DEF CleanInv
  <2>4. CASE startNewBuffer /\ \A k \in Jobs : job'[k].kind # "save"
    <3>1. lastSavedValue'.ver <= value'.ver /\ RowShown'
      BY <1>v, <2>1, <2>4, NilHasNoRow DEF startNewBuffer, RowShown, Fewer
    <3> QED
      BY <2>2, <2>4, <3>1 DEF CleanInv
  <2> QED
    BY <1>1, <2>3, <2>4 DEF Rests
<1>2. CASE Typed
  <2>0. ~isSaving
    BY <1>2 DEF Typed
  <2>1. /\ value'.ver = value.ver + 1 /\ UNCHANGED <<rows, job, currentNoteId, lastSavedValue>>
        /\ isDirty' = ~sameText(value', lastSavedValue)
    BY <1>2, NilHasNoRow DEF Typed, Text
  <2>2. value'.ver > lastSavedValue.ver /\ lastSavedValue.ver <= value'.ver /\ value'.ver # 0
    BY <1>0, <1>v, <2>1
  <2>3. isDirty'
    <3>1. value' # lastSavedValue
      BY <1>v, <2>2
    <3>2. {value'.ver, lastSavedValue.ver} # {0}
      BY <2>2
    <3> QED
      BY <2>1, <3>1, <3>2 DEF sameText
  <2>4. \A k \in Jobs : CleanJob(job[k])'
    BY <2>0, <2>1 DEF CleanInv, CleanJob, Stored, SaveInv, OneSave
  <2> QED
    BY <2>1, <2>2, <2>3, <2>4 DEF CleanInv, RowShown
<1>3. ASSUME NEW j \in Jobs, OthersStay(j), JobMoves(job[j], job'[j])
      PROVE  CleanInv'
  <2> DEFINE r == job[j]
             s == job'[j]
  <2>0. CleanJob(r) /\ OwnJob(r) /\ NewJob(r) /\ value.own = currentNoteId
    BY DEF CleanInv, OwnInv, NewInv
  <2>o. \A k \in Jobs \ {j} : job'[k] = job[k] /\ CleanJob(job[k])
    BY <1>3 DEF OthersStay, CleanInv
  <2>n. ASSUME r.kind = "save" PROVE \A k \in Jobs \ {j} : job[k].kind # "save"
    BY <2>n DEF SaveInv, OneSave
  <2>k. ASSUME rows' = rows, NEW k \in Jobs \ {j}, job[k].kind # "save" \/ value' = value
        PROVE  CleanJob(job[k])'
    BY <2>o, <2>k DEF CleanJob, SaveClean, Stored
  <2>u. ASSUME rows' = rows, UNCHANGED bufferVars, CleanJob(job[j])'
        PROVE  CleanInv'
    BY <1>0, <1>b, <2>k, <2>u DEF CleanInv, RowShown
  <2>s. ASSUME rows' = rows, \A k \in Jobs \ {j} : job[k].kind # "save", CleanJob(job[j])',
               lastSavedValue'.ver <= value'.ver, RowShown'
        PROVE  CleanInv'
    BY <2>k, <2>s DEF CleanInv
  <2>1. CASE RowMade(r, s)
    <3>1. currentNoteId = Nil /\ r.text = value /\ value.own = Nil
      BY <2>0, <2>1 DEF RowMade, OwnJob, SaveOwn, CleanJob, SaveClean
    <3>2. s.text = [own |-> s.note, ver |-> value.ver]
      BY <2>1, <3>1 DEF RowMade
    <3>3. RowShown' /\ lastSavedValue'.ver <= value'.ver
      <4>1. s.note # Nil
        BY <2>1, VaultAssumption DEF RowMade
      <4> QED
        BY <1>0, <1>b, <1>v, <2>1, <3>1, <4>1 DEF RowMade, RowShown
    <3>4. CleanJob(job[j])'
      BY <1>b, <2>1, <3>1, <3>2 DEF RowMade, CleanJob, SaveClean, Stored
    <3>5. ASSUME NEW k \in Jobs \ {j} PROVE CleanJob(job[k])'
      <4>1. job[k].kind # "save"
        BY <2>1, <2>n DEF RowMade
      <4>2. ASSUME job[k].kind = "open", job[k].reply = "ok" PROVE Stored(job[k])'
        <5>1. job[k].note \in used
          BY <4>2 DEF SaveInv, IdsInv, HasSeen, StandsInv, Stands
        <5>2. job[k].note # s.note
          BY <2>1, <5>1 DEF RowMade
        <5> QED
          BY <2>o, <2>1, <4>2, <5>2 DEF RowMade, CleanJob, Stored
      <4> QED
        BY <2>o, <4>1, <4>2 DEF CleanJob
    <3> QED
      BY <3>3, <3>4, <3>5 DEF CleanInv
  <2>2. CASE RowKept(r, s)
    <3>1. /\ r.note = currentNoteId /\ r.text = value
          /\ \A k \in Jobs : job[k].kind = "open" => job[k].note # r.note
      BY <2>0, <2>2 DEF RowKept, OwnJob, SaveOwn, NewJob, SaveNew, CleanJob, SaveClean
    <3>2. RowShown' /\ lastSavedValue'.ver <= value'.ver
      BY <1>0, <1>b, <2>2, <3>1 DEF RowKept, RowShown
    <3>3. CleanJob(job[j])'
      BY <1>b, <2>2, <3>1 DEF RowKept, CleanJob, SaveClean, Stored
    <3>4. ASSUME NEW k \in Jobs \ {j} PROVE CleanJob(job[k])'
      <4>1. job[k].kind # "save"
        BY <2>2, <2>n DEF RowKept
      <4>2. ASSUME job[k].kind = "open", job[k].reply = "ok" PROVE Stored(job[k])'
        BY <2>o, <2>2, <3>1, <4>2 DEF RowKept, CleanJob, Stored
      <4> QED
        BY <2>o, <4>1, <4>2 DEF CleanJob
    <3> QED
      BY <3>2, <3>3, <3>4 DEF CleanInv
  <2>3. CASE Begun(r, s) \/ Opening(r, s)
    <3>1. CleanJob(job[j])' /\ rows' = rows /\ UNCHANGED bufferVars
      BY <1>b, <2>3 DEF Begun, Opening, CleanJob, SaveClean
    <3> QED
      BY <2>u, <3>1
  <2>4. CASE Chosen(r, s)
    <3>1. CleanJob(job[j])'
      BY <1>b, <2>0, <2>4 DEF Chosen, CleanJob, SaveClean
    <3> QED
      BY <2>u, <2>4, <3>1 DEF Chosen
  <2>5. CASE Indexed(r, s)
    <3>1. CleanJob(job[j])'
      BY <1>b, <2>0, <2>5 DEF Indexed, CleanJob, SaveClean, Stored
    <3> QED
      BY <2>u, <2>5, <3>1 DEF Indexed
  <2>6. CASE TextGot(r, s)
    <3>1. CleanJob(job[j])'
      BY <2>6 DEF TextGot, CleanJob, Stored
    <3> QED
      BY <2>u, <2>6, <3>1 DEF TextGot
  <2>7. CASE Made(r, s)
    <3>1. r.text = [own |-> r.note, ver |-> value.ver] /\ Stored(r) /\ value.own = Nil
      BY <2>0, <2>7 DEF Made, CleanJob, SaveClean, OwnJob, SaveOwn
    <3>2. value' = [own |-> r.note, ver |-> value.ver]
      BY <2>7, <3>1, NilHasNoRow DEF Made, Text
    <3>3. lastSavedValue'.ver <= value'.ver /\ RowShown'
      BY <1>0, <2>7, <3>1, <3>2 DEF Made, RowShown, Stored
    <3>4. CleanJob(job[j])'
      BY <2>7, <3>1, <3>2 DEF Made, CleanJob, SaveClean, Stored
    <3> QED
      BY <2>7, <2>n, <2>s, <3>3, <3>4 DEF Made
  <2>8. CASE SaveDone(r, s)
    <3>1. r.text = value /\ r.note = currentNoteId /\ Stored(r)
      BY <2>0, <2>8 DEF SaveDone, CleanJob, SaveClean, OwnJob, SaveOwn
    <3>2. lastSavedValue'.ver <= value'.ver /\ RowShown'
      BY <1>v, <2>8, <3>1 DEF SaveDone, RowShown, Stored
    <3>3. CleanJob(job[j])'
      BY <2>8, IdleFields DEF SaveDone, CleanJob
    <3> QED
      BY <2>8, <2>n, <2>s, <3>2, <3>3 DEF SaveDone
  <2>9. CASE NoteOpened(r, s)
    <3>1. lastSavedValue'.ver <= value'.ver /\ RowShown'
      BY <1>v, <2>0, <2>9 DEF NoteOpened, CleanJob, RowShown, Stored
    <3>2. CleanJob(job[j])' /\ \A k \in Jobs \ {j} : job[k].kind # "save"
      BY <2>o, <2>9, IdleFields DEF NoteOpened, CleanJob
    <3> QED
      BY <2>9, <2>s, <3>1, <3>2 DEF NoteOpened
  <2> QED
    BY <1>3, <2>1, <2>2, <2>3, <2>4, <2>5, <2>6, <2>7, <2>8, <2>9 DEF JobMoves
<1> QED
  BY <1>1, <1>2, <1>3 DEF BufferStep

\* The three, each for as long as the history leaves it.
BufferInv ==
    /\ SaveInv
    /\ "switched" \notin crossed => OwnInv
    /\ crossed \cap {"switched", "reopened"} = {} => NewInv
    /\ crossed \cap {"typed", "switched", "reopened"} = {} => CleanInv

\* A save may change the text of a row, but to no older one; unless the note it saves was being
\* opened anew, or another took its place in the buffer (persistNoteRow, openNote).
TextNeverOlder == [][crossed' \cap {"switched", "reopened"} = {} => TextsGrow]_rows

\* Every step keeps to them.
LEMMA BufferKept ==
    ASSUME IInv, BufferInv, [Next]_vars
    PROVE  BufferInv' /\ (crossed' \cap {"switched", "reopened"} = {} => TextsGrow)
<1>0. SaveInv /\ SaveInv' /\ crossed \subseteq crossed'
  BY SaveKept, CrossedGrows DEF BufferInv
<1>1. ASSUME "switched" \notin crossed' PROVE OwnInv' /\ OwnInv /\ BufferStep
  <2>1. OwnInv /\ BufferStep
    BY <1>0, <1>1, BufferSteps DEF BufferInv
  <2> QED
    BY <1>0, <2>1, OwnKept
<1>2. ASSUME crossed' \cap {"switched", "reopened"} = {} PROVE NewInv' /\ TextsGrow /\ NewInv
  <2>1. OwnInv /\ BufferStep /\ NewInv
    BY <1>0, <1>1, <1>2 DEF BufferInv
  <2> QED
    BY <1>0, <1>2, <2>1, NewKept
<1>3. ASSUME crossed' \cap {"typed", "switched", "reopened"} = {} PROVE CleanInv'
  <2>1. OwnInv /\ BufferStep /\ NewInv /\ CleanInv
    BY <1>0, <1>1, <1>2, <1>3 DEF BufferInv
  <2> QED
    BY <1>0, <1>3, <2>1, CleanKept
<1> QED
  BY <1>0, <1>1, <1>2, <1>3 DEF BufferInv

\* The one job of a page that has just been opened.
LEMMA InitJobs ==
    ASSUME Init
    PROVE  \E j \in Jobs : /\ job[j].kind = "init" /\ job[j].at = "session"
                           /\ \A k \in Jobs \ {j} : job[k].kind = "none" /\ job[k].at = "idle"
<1>1. PICK j \in Jobs : job = [k \in Jobs |-> IF k = j THEN Call("init", "session", Nil) ELSE Idle]
  BY DEF Init, Opened
<1> QED
  BY <1>1, CallEffect, IdleFields

\* They hold of that page, over an empty vault.
LEMMA InitBuffer == ASSUME Init PROVE BufferInv
<1>1. \A k \in Jobs : /\ job[k].kind \notin {"save", "open"} /\ Stands(job[k]) /\ ~HasSeen(job[k])
  BY InitJobs DEF Stands, HasSeen
<1>2. DOMAIN rows = {} /\ used = {} /\ value = Empty /\ lastSavedValue = Empty /\ currentNoteId = Nil
  BY DEF Init, Opened
<1>3. SaveInv
  BY <1>1, <1>2 DEF SaveInv, StandsInv, OneSave, IdsInv
<1>4. OwnInv /\ NewInv /\ CleanInv
  BY <1>1, <1>2 DEF OwnInv, RowsOwn, OwnJob, NewInv, Below, NewJob, CleanInv, RowShown, CleanJob, Empty
<1> QED
  BY <1>3, <1>4 DEF BufferInv

\* The invariants, of every behaviour.
LEMMA BufferAlways == Spec => [](IInv /\ BufferInv)
<1>1. Init => IInv /\ BufferInv
  BY InitIInv, InitBuffer
<1>2. IInv /\ BufferInv /\ [Next]_vars => IInv' /\ BufferInv'
  BY StepIInv, BufferKept
<1> QED
  BY <1>1, <1>2, PTL DEF Spec

\* A row of the vault never holds a text that was typed into another note, unless the buffer
\* was replaced under a save (saveNote, persistNoteRow, openNote): whatever else is begun
\* beside it, refused or lost, locked, reloaded or swept in between.
THEOREM VaultRowHoldsItsNote == Spec => []RowHoldsItsNote
<1>1. BufferInv => RowHoldsItsNote
  BY DEF BufferInv, OwnInv, RowsOwn, RowHoldsItsNote
<1> QED
  BY <1>1, BufferAlways, PTL

\* While the tab would discard the buffer without asking (confirmDiscard), the row of the
\* open note holds what the buffer shows, unless somebody typed during a save, the buffer was
\* replaced under it, or the note was saved while it was being opened anew.
THEOREM VaultCleanMeansSaved == Spec => []CleanMeansSaved
<1>1. BufferInv => CleanMeansSaved
  BY DEF BufferInv, CleanInv, RowShown, CleanMeansSaved
<1> QED
  BY <1>1, BufferAlways, PTL

\* No save puts an older text of a note over a newer one, unless the buffer was replaced under
\* a save or a note saved while it was being opened anew: whatever is refused or lost, locked,
\* reloaded or swept before it and between its requests, and though its text is taken long
\* before it is written (saveNote, persistNoteRow, update_vault_note).
THEOREM VaultTextNeverOlder == Spec => TextNeverOlder
<1>1. IInv /\ BufferInv /\ [Next]_vars
          => [crossed' \cap {"switched", "reopened"} = {} => TextsGrow]_rows
  BY BufferKept
<1> QED
  BY <1>1, BufferAlways, PTL DEF Spec, TextNeverOlder

-----------------------------------------------------------------------------
(* The Trash flags: what an index X says of the rows, where D is the set of   *)
(* the rows, F those that are flagged, and P those the index on the server has *)
(* in Trash and that are not flagged yet.                                      *)

ActiveIn(X) == IF X \in {Unset, Unreadable} THEN {} ELSE {n \in DOMAIN X.notes : ~X.notes[n].trashed}
TrashIn(X) == IF X \in {Unset, Unreadable} THEN {} ELSE {n \in DOMAIN X.notes : X.notes[n].trashed}

Pending == (TrashIn(saved) \cap DOMAIN rows) \ Flagged

\* No note that X shows as active is flagged.
Vouched(X, F) == ActiveIn(X) \cap F = {}

\* ... and what X has in Trash is flagged, or on the server in Trash as well.
Faithful(X, D, F, P) == Vouched(X, F) /\ TrashIn(X) \cap D \subseteq F \cup P

\* ... and the other way round.
Whole(X, D, F, P) == Faithful(X, D, F, P) /\ P \subseteq TrashIn(X)

\* The index and what it tells of each note, operation by operation.
LEMMA IndexParts ==
    ASSUME NEW X \in Closed
    PROVE  /\ ActiveIn(X) = {n \in DOMAIN X.notes : ~X.notes[n].trashed}
           /\ TrashIn(X) = {n \in DOMAIN X.notes : X.notes[n].trashed}
           /\ ActiveIn(X) \cup TrashIn(X) = DOMAIN X.notes
           /\ ActiveIn(X) \cap TrashIn(X) = {}
<1>1. X \notin {Unset, Unreadable}
  BY VaultAssumption DEF Closed
<1> QED
  BY <1>1 DEF ActiveIn, TrashIn

\* Nothing is both.
LEMMA PartsApart == ASSUME NEW X PROVE ActiveIn(X) \cap TrashIn(X) = {}
BY DEF ActiveIn, TrashIn

\* The first index of a page shows nothing.
LEMMA PartsOfEmpty == ActiveIn(createEmpty) = {} /\ TrashIn(createEmpty) = {}
BY IndexParts, EmptyGood DEF createEmpty

\* The notes of an index whose map is replaced.
LEMMA NotesReplaced ==
    ASSUME NEW X \in Closed, NEW m
    PROVE  [X EXCEPT !.notes = m].notes = m
BY FieldsClosed

\* A new folder leaves each note active, or in Trash, as it was.
LEMMA PartsOfFolder ==
    ASSUME NEW X \in Closed, NEW f \in Folders
    PROVE  addFolder(X, f) \in Closed /\ ActiveIn(addFolder(X, f)) = ActiveIn(X)
<1>1. addFolder(X, f) \in Closed
  BY IndexOperations
<1>2. addFolder(X, f).notes = X.notes
  BY FieldsClosed DEF addFolder
<1> QED
  BY <1>1, <1>2, IndexParts

\* ... so does a move, wherever it goes.
LEMMA PartsOfMove ==
    ASSUME NEW X \in Closed, NEW n, NEW f
    PROVE  moveNote(X, n, f) \in Closed /\ ActiveIn(moveNote(X, n, f)) = ActiveIn(X)
<1> DEFINE to == folderOrRoot(X, f)
           m == [k \in DOMAIN X.notes |-> IF k \in {n} THEN [X.notes[k] EXCEPT !.folder = to] ELSE X.notes[k]]
<1>1. moveNote(X, n, f) \in Closed
  BY IndexOperations
<1>2. moveNote(X, n, f) = [X EXCEPT !.notes = m]
  BY DEF moveNote, EditNotes
<1>3. DOMAIN m = DOMAIN X.notes /\ \A k \in DOMAIN m : m[k].trashed = X.notes[k].trashed
  BY FieldsClosed DEF Entry
<1> HIDE DEF m
<1>4. moveNote(X, n, f).notes = m
  BY <1>2, NotesReplaced
<1> QED
  BY <1>1, <1>3, <1>4, IndexParts

\* What is put in Trash is active no longer.
LEMMA PartsOfTrash ==
    ASSUME NEW X \in Closed, NEW n
    PROVE  trashNote(X, n) \in Closed /\ ActiveIn(trashNote(X, n)) = ActiveIn(X) \ {n}
<1> DEFINE m == [k \in DOMAIN X.notes |-> IF k \in {n} THEN [X.notes[k] EXCEPT !.trashed = TRUE] ELSE X.notes[k]]
<1>1. trashNote(X, n) \in Closed
  BY IndexOperations
<1>2. trashNote(X, n) = [X EXCEPT !.notes = m]
  BY DEF trashNote, EditNotes
<1>3. /\ DOMAIN m = DOMAIN X.notes
      /\ n \in DOMAIN m => m[n].trashed
      /\ \A k \in DOMAIN m : k # n => m[k] = X.notes[k]
  BY FieldsClosed DEF Entry
<1> HIDE DEF m
<1>4. trashNote(X, n).notes = m
  BY <1>2, NotesReplaced
<1> QED
  BY <1>1, <1>3, <1>4, IndexParts

\* A folder that is deleted leaves nothing active that was in it.
LEMMA PartsOfDeleted ==
    ASSUME NEW X \in Closed, NEW f
    PROVE  /\ deleteFolder(X, f) \in Closed
           /\ ActiveIn(deleteFolder(X, f)) = ActiveIn(X) \ {n \in DOMAIN X.notes : X.notes[n].folder = f}
<1> DEFINE held == {k \in DOMAIN X.notes : X.notes[k].folder = f}
           m == [k \in DOMAIN X.notes |-> IF k \in held THEN [folder |-> Root, trashed |-> TRUE] ELSE X.notes[k]]
<1>1. deleteFolder(X, f) \in Closed
  BY IndexOperations
<1>2. deleteFolder(X, f) = [[X EXCEPT !.notes = m] EXCEPT !.folders = @ \ {f}]
  BY DEF deleteFolder, EditNotes
<1>3. /\ DOMAIN m = DOMAIN X.notes
      /\ \A k \in DOMAIN m : m[k].trashed = IF k \in held THEN TRUE ELSE X.notes[k].trashed
  OBVIOUS
<1> HIDE DEF m
<1>4. deleteFolder(X, f).notes = m
  BY <1>2, FieldsClosed
<1> HIDE DEF held
<1>5. ActiveIn(deleteFolder(X, f)) = ActiveIn(X) \ held
  BY <1>1, <1>3, <1>4, IndexParts
<1> QED
  BY <1>1, <1>5 DEF held

\* A note restored becomes active, and no other.
LEMMA PartsOfRestored ==
    ASSUME NEW X \in Closed, NEW n
    PROVE  restoreNote(X, n) \in Closed /\ ActiveIn(restoreNote(X, n)) \subseteq ActiveIn(X) \cup {n}
<1> DEFINE m == [k \in DOMAIN X.notes |-> IF k \in {n} THEN [folder |-> folderOrRoot(X, X.notes[k].folder), trashed |-> FALSE]
                                          ELSE X.notes[k]]
<1>1. restoreNote(X, n) \in Closed
  BY IndexOperations
<1>2. restoreNote(X, n) = [X EXCEPT !.notes = m]
  BY DEF restoreNote, EditNotes
<1>3. DOMAIN m = DOMAIN X.notes /\ \A k \in DOMAIN m : k # n => m[k] = X.notes[k]
  OBVIOUS
<1> HIDE DEF m
<1>4. restoreNote(X, n).notes = m
  BY <1>2, NotesReplaced
<1> QED
  BY <1>1, <1>3, <1>4, IndexParts

\* A note added is what it was added as.
LEMMA PartsOfAdded ==
    ASSUME NEW X \in Closed, NEW n \in Notes, NEW t \in BOOLEAN
    PROVE  /\ addNote(X, n, t) \in Closed
           /\ ActiveIn(addNote(X, n, t)) = IF t THEN ActiveIn(X) \ {n} ELSE ActiveIn(X) \cup {n}
           /\ TrashIn(addNote(X, n, t)) = IF t THEN TrashIn(X) \cup {n} ELSE TrashIn(X) \ {n}
<1> DEFINE m == [k \in DOMAIN X.notes \cup {n} |-> IF k = n THEN [folder |-> Root, trashed |-> t] ELSE X.notes[k]]
<1>1. addNote(X, n, t) \in Closed
  BY IndexOperations
<1>2. addNote(X, n, t) = [X EXCEPT !.notes = m]
  BY DEF addNote
<1>3. /\ DOMAIN m = DOMAIN X.notes \cup {n}
      /\ m[n].trashed = t /\ \A k \in DOMAIN X.notes : k # n => m[k] = X.notes[k]
  OBVIOUS
<1> HIDE DEF m
<1>4. addNote(X, n, t).notes = m
  BY <1>2, NotesReplaced
<1>5. /\ ActiveIn(addNote(X, n, t)) = {k \in DOMAIN m : ~m[k].trashed}
      /\ TrashIn(addNote(X, n, t)) = {k \in DOMAIN m : m[k].trashed}
  BY <1>1, <1>4, IndexParts
<1>6. CASE t
  BY <1>1, <1>3, <1>5, <1>6, IndexParts
<1>7. CASE ~t
  BY <1>1, <1>3, <1>5, <1>7, IndexParts
<1> QED
  BY <1>6, <1>7

\* A note removed makes none active.
LEMMA PartsOfRemoved ==
    ASSUME NEW X \in Closed, NEW n
    PROVE  removeNote(X, n) \in Closed /\ ActiveIn(removeNote(X, n)) \subseteq ActiveIn(X)
<1> DEFINE m == Restrict(X.notes, DOMAIN X.notes \ {n})
<1>1. removeNote(X, n) \in Closed
  BY IndexOperations
<1>2. removeNote(X, n) = [X EXCEPT !.notes = m]
  BY DEF removeNote
<1>3. DOMAIN m = DOMAIN X.notes \ {n} /\ \A k \in DOMAIN m : m[k] = X.notes[k]
  BY DEF Restrict
<1> HIDE DEF m
<1>4. removeNote(X, n).notes = m
  BY <1>2, NotesReplaced
<1> QED
  BY <1>1, <1>3, <1>4, IndexParts

\* Membership as a value.
LEMMA TrueOrFalse == ASSUME NEW b \in BOOLEAN PROVE ((b # TRUE) <=> ~b) /\ ((b # FALSE) <=> b)
OBVIOUS

\* ... and that of a set's members.
LEMMA MemberOrNot ==
    ASSUME NEW k, NEW R
    PROVE  (((k \in R) # TRUE) <=> k \notin R) /\ (((k \in R) # FALSE) <=> k \in R)
<1>1. (k \in R) \in BOOLEAN
  OBVIOUS
<1> QED
  BY <1>1, TrueOrFalse

\* What a load makes of an index: the rows there are, those it does not know, and the
\* flags that must change.
LEMMA PartsOfLoaded ==
    ASSUME NEW X \in Closed, NEW R
    PROVE  /\ reconcile(X, R) \in Closed
           /\ ActiveIn(reconcile(X, R)) = ActiveIn(X) \cap R
           /\ TrashIn(reconcile(X, R)) = TrashIn(X) \cap R
           /\ orphanIds(X, R) \cap TrashIn(X) = {}
           /\ trashFlagDrift(X, R, TRUE) = TrashIn(X) \ R
           /\ trashFlagDrift(X, R, FALSE) = ActiveIn(X) \cap R
<1> DEFINE m == Restrict(X.notes, DOMAIN X.notes \cap R)
<1>1. reconcile(X, R) \in Closed
  BY IndexOperations
<1>2. reconcile(X, R) = [X EXCEPT !.notes = m]
  BY DEF reconcile
<1>3. DOMAIN m = DOMAIN X.notes \cap R /\ \A k \in DOMAIN m : m[k] = X.notes[k]
  BY DEF Restrict
<1> HIDE DEF m
<1>4. reconcile(X, R).notes = m
  BY <1>2, NotesReplaced
<1>5. /\ ActiveIn(reconcile(X, R)) = {k \in DOMAIN m : ~m[k].trashed}
      /\ TrashIn(reconcile(X, R)) = {k \in DOMAIN m : m[k].trashed}
  BY <1>1, <1>4, IndexParts
<1>6. /\ ActiveIn(reconcile(X, R)) = ActiveIn(X) \cap R
      /\ TrashIn(reconcile(X, R)) = TrashIn(X) \cap R
  BY <1>3, <1>5, IndexParts
<1>7. orphanIds(X, R) \cap TrashIn(X) = {}
  BY IndexParts DEF orphanIds
<1>8. ASSUME NEW k \in DOMAIN X.notes
      PROVE  /\ (X.notes[k].trashed = TRUE) <=> X.notes[k].trashed
             /\ (X.notes[k].trashed = FALSE) <=> ~X.notes[k].trashed
             /\ ((k \in R) # TRUE) <=> k \notin R
             /\ ((k \in R) # FALSE) <=> k \in R
  <2>1. X.notes[k].trashed \in BOOLEAN
    BY FieldsClosed DEF Entry
  <2>2. /\ (X.notes[k].trashed = TRUE) <=> X.notes[k].trashed
        /\ (X.notes[k].trashed = FALSE) <=> ~X.notes[k].trashed
    BY <2>1
  <2>3. (((k \in R) # TRUE) <=> k \notin R) /\ (((k \in R) # FALSE) <=> k \in R)
    BY MemberOrNot
  <2> QED
    BY <2>2, <2>3
<1>9. trashFlagDrift(X, R, TRUE) = TrashIn(X) \ R
  <2>1. trashFlagDrift(X, R, TRUE) = {k \in DOMAIN X.notes : X.notes[k].trashed /\ k \notin R}
    BY <1>8 DEF trashFlagDrift
  <2> QED
    BY <2>1, IndexParts
<1>10. trashFlagDrift(X, R, FALSE) = ActiveIn(X) \cap R
  <2>1. trashFlagDrift(X, R, FALSE) = {k \in DOMAIN X.notes : ~X.notes[k].trashed /\ k \in R}
    BY <1>8 DEF trashFlagDrift
  <2> QED
    BY <2>1, IndexParts
<1> QED
  BY <1>1, <1>6, <1>7, <1>9, <1>10

\* Rows go, or are flagged as the index on the server has them; nothing else.
Settles(D, F, P, D1, F1, P1) ==
    /\ D1 \subseteq D
    /\ F \cap D1 \subseteq F1 /\ P1 \subseteq P
    /\ F1 \cup P1 = (F \cup P) \cap D1

\* What a job of the user's stands for, the index of the tab being X and the saved one Y.
UserOK(r, X, Y, F) ==
    /\ r.kind = "save" /\ r.at = "create" /\ r.reply = "ok" => r.note \notin F
    /\ r.kind = "save" /\ r.at = "updating" /\ r.flag =>
           r.note \notin ActiveIn(X) \cup ActiveIn(Y)
    /\ r.at = "index" =>
        /\ X = r.body /\ Vouched(r.prev, F)
        /\ r.reply = "ok" => Y = r.body
        /\ r.kind = "trash" => r.ids \cap ActiveIn(r.body) = {}
    /\ r.kind = "trash" /\ r.at = "flag" =>
           r.flag = TRUE /\ r.ids \cap (ActiveIn(X) \cup ActiveIn(Y)) = {}
    /\ r.kind = "restore" /\ r.at = "flag" =>
           r.flag = FALSE /\ r.ids = {r.note} /\ (r.reply = "ok" => r.note \notin F)

\* What a load stands for.
LoadOK(r, X, D, F, P) ==
    /\ r.at # "getIndex" => Whole(X, D, F, P)
    /\ (r.at = "getIndex" /\ r.reply = "ok") \/ r.at = "persist" => Whole(r.body, D, F, P)
    /\ r.at = "getRows" /\ r.reply = "ok" => D \subseteq r.listed
    /\ (r.at = "getRows" /\ r.reply = "ok") \/ r.at \in {"orphans", "getOrphan", "persist"} =>
           r.flagged \cap D \subseteq F
    /\ r.at \in {"orphans", "getOrphan"} => r.ids \cap P = {}
    /\ r.at = "orphans" => r.reply = "none"
    /\ r.at = "getOrphan" =>
        /\ r.note \notin P
        /\ r.reply = "ok" /\ r.note \in D => (r.flag <=> r.note \in F)
    /\ r.at = "flag" /\ r.flag = TRUE => r.ids \cap D \subseteq P \cup F /\ r.listed \cap D = {}
    /\ r.at = "flag" /\ r.flag = FALSE => r.ids \cap D = {}

\* The page has not been loaded yet, or a load still runs.
Loading == ~vaultLoaded \/ \E j \in Jobs : job[j].kind \in {"init", "load"}

\* No index vouches for a flagged note; what a load holds is faithful to the server.
FlagInv ==
    /\ Vouched(index, Flagged) /\ Vouched(saved, Flagged)
    /\ \A j \in Jobs : job[j].kind \in WriteKinds => UserOK(job[j], index, saved, Flagged)
    /\ Loading =>
        /\ Faithful(index, DOMAIN rows, Flagged, Pending)
        /\ \A j \in Jobs :
               job[j].kind = "load" => LoadOK(job[j], index, DOMAIN rows, Flagged, Pending)

\* What stood for all of it still does.
LEMMA WholeStays ==
    ASSUME NEW X, NEW D, NEW F, NEW P, NEW D1, NEW F1, NEW P1,
           Settles(D, F, P, D1, F1, P1), Whole(X, D, F, P)
    PROVE  Whole(X, D1, F1, P1)
BY PartsApart DEF Settles, Whole, Faithful, Vouched

\* ... and so does a load that is not concerned.
LEMMA LoadStays ==
    ASSUME NEW r, NEW s, NEW X, NEW X1, NEW D, NEW F, NEW P, NEW D1, NEW F1, NEW P1,
           Keeps(r, s, {}), s.reply = r.reply,
           Settles(D, F, P, D1, F1, P1), LoadOK(r, X, D, F, P),
           Whole(X, D, F, P) => Whole(X1, D1, F1, P1)
    PROVE  LoadOK(s, X1, D1, F1, P1)
<1>1. /\ s.at = r.at /\ s.note = r.note /\ s.ids = r.ids /\ s.flag = r.flag /\ s.body = r.body
      /\ s.listed = r.listed /\ s.flagged = r.flagged /\ s.reply = r.reply
  BY DEF Keeps
<1>2. Whole(r.body, D, F, P) => Whole(r.body, D1, F1, P1)
  BY WholeStays
<1>3. /\ s.at # "getIndex" => Whole(X1, D1, F1, P1)
      /\ (s.at = "getIndex" /\ s.reply = "ok") \/ s.at = "persist" => Whole(s.body, D1, F1, P1)
  BY <1>1, <1>2 DEF LoadOK
<1>4. /\ s.at = "getRows" /\ s.reply = "ok" => D1 \subseteq s.listed
      /\ (s.at = "getRows" /\ s.reply = "ok") \/ s.at \in {"orphans", "getOrphan", "persist"} =>
             s.flagged \cap D1 \subseteq F1
      /\ s.at \in {"orphans", "getOrphan"} => s.ids \cap P1 = {}
      /\ s.at = "orphans" => s.reply = "none"
  BY <1>1 DEF LoadOK, Settles
<1>5. s.at = "getOrphan" =>
        /\ s.note \notin P1
        /\ s.reply = "ok" /\ s.note \in D1 => (s.flag <=> s.note \in F1)
  BY <1>1 DEF LoadOK, Settles
<1>6. /\ s.at = "flag" /\ s.flag = TRUE => s.ids \cap D1 \subseteq P1 \cup F1 /\ s.listed \cap D1 = {}
      /\ s.at = "flag" /\ s.flag = FALSE => s.ids \cap D1 = {}
  BY <1>1 DEF LoadOK, Settles
<1> QED
  BY <1>3, <1>4, <1>5, <1>6 DEF LoadOK

\* A step of a load, or while there are only loads.
LEMMA FlagsWhileLoading ==
    ASSUME FlagInv, Loading,
           \A k \in Jobs : job'[k].kind \notin WriteKinds,
           Settles(DOMAIN rows, Flagged, Pending, DOMAIN rows', Flagged', Pending'),
           Vouched(saved', Flagged'),
           Faithful(index', DOMAIN rows', Flagged', Pending'),
           Whole(index, DOMAIN rows, Flagged, Pending)
               => Whole(index', DOMAIN rows', Flagged', Pending'),
           \A k \in Jobs : job'[k].kind = "load" =>
               \/ Keeps(job[k], job'[k], {}) /\ job'[k].reply = job[k].reply
               \/ LoadOK(job'[k], index', DOMAIN rows', Flagged', Pending')
    PROVE  FlagInv'
<1>1. ASSUME NEW k \in Jobs, job'[k].kind = "load"
      PROVE  LoadOK(job'[k], index', DOMAIN rows', Flagged', Pending')
  <2>1. CASE LoadOK(job'[k], index', DOMAIN rows', Flagged', Pending')
    BY <2>1
  <2>2. CASE Keeps(job[k], job'[k], {}) /\ job'[k].reply = job[k].reply
    <3>1. job[k].kind = "load"
      BY <1>1, <2>2 DEF Keeps
    <3>2. LoadOK(job[k], index, DOMAIN rows, Flagged, Pending)
      BY <3>1 DEF FlagInv
    <3> QED
      BY <2>2, <3>2, LoadStays
  <2> QED
    BY <1>1, <2>1, <2>2
<1>2. Vouched(index', Flagged')
  BY DEF Faithful
<1> QED
  BY <1>1, <1>2 DEF FlagInv

\* A step of the user, after the load.
LEMMA FlagsOfUser ==
    ASSUME NEW j \in Jobs,
           \A k \in Jobs \ {j} : job'[k].kind \in {"none", "open"},
           job'[j].kind \in WriteKinds \cup {"none"}, vaultLoaded',
           Vouched(index', Flagged'), Vouched(saved', Flagged'),
           job'[j].kind \in WriteKinds => UserOK(job'[j], index', saved', Flagged')
    PROVE  FlagInv'
<1>1. ~Loading'
  BY DEF Loading, WriteKinds
<1>2. \A k \in Jobs : job'[k].kind \in WriteKinds => UserOK(job'[k], index', saved', Flagged')
  BY DEF WriteKinds
<1> QED
  BY <1>1, <1>2 DEF FlagInv

\* The rows and the index on the server, as the steps change them.
LEMMA RowsStay ==
    ASSUME rows' = rows, saved' = saved
    PROVE  /\ Flagged' = Flagged /\ Pending' = Pending /\ DOMAIN rows' = DOMAIN rows
           /\ Settles(DOMAIN rows, Flagged, Pending, DOMAIN rows', Flagged', Pending')
<1>1. Flagged' = Flagged /\ Pending' = Pending /\ DOMAIN rows' = DOMAIN rows
  BY DEF Flagged, Pending
<1>2. Flagged \subseteq DOMAIN rows /\ Pending \subseteq DOMAIN rows
  BY DEF Flagged, Pending
<1> QED
  BY <1>1, <1>2 DEF Settles

\* Rows go.
LEMMA RowsGo ==
    ASSUME NEW S, rows' = Restrict(rows, DOMAIN rows \ S), saved' = saved
    PROVE  /\ Flagged' \subseteq Flagged
           /\ Settles(DOMAIN rows, Flagged, Pending, DOMAIN rows', Flagged', Pending')
<1>1. DOMAIN rows' = DOMAIN rows \ S /\ \A n \in DOMAIN rows' : rows'[n] = rows[n]
  BY DEF Restrict
<1>2. Flagged' = Flagged \cap DOMAIN rows'
  BY <1>1 DEF Flagged
<1>3. Pending' = Pending \cap DOMAIN rows'
  BY <1>1, <1>2 DEF Pending
<1> QED
  BY <1>1, <1>2, <1>3 DEF Settles

\* Rows are flagged, or are flagged no longer.
LEMMA RowsMarked ==
    ASSUME IInv, NEW ids, NEW v \in BOOLEAN, saved' = saved,
           rows' = [n \in DOMAIN rows |-> IF n \in ids THEN [rows[n] EXCEPT !.trashed_at = v] ELSE rows[n]]
    PROVE  /\ DOMAIN rows' = DOMAIN rows
           /\ Flagged' = (IF v THEN Flagged \cup (ids \cap DOMAIN rows) ELSE Flagged \ ids)
           /\ v => Pending' = Pending \ ids
<1>1. \A n \in DOMAIN rows : rows[n] \in Row
  BY PartialFunctions DEF IInv, ServerInv, Rows
<1>2. DOMAIN rows' = DOMAIN rows
  OBVIOUS
<1>3. ASSUME NEW n \in DOMAIN rows
      PROVE  rows'[n].trashed_at <=> IF n \in ids THEN v ELSE rows[n].trashed_at
  <2>1. CASE n \in ids
    <3>1. rows'[n] = [rows[n] EXCEPT !.trashed_at = v]
      BY <2>1
    <3>2. rows'[n].trashed_at = v
      BY <1>1, <3>1 DEF Row
    <3> QED
      BY <2>1, <3>2
  <2>2. CASE n \notin ids
    BY <2>2
  <2> QED
    BY <2>1, <2>2
<1>4. Flagged' = {n \in DOMAIN rows : rows'[n].trashed_at} /\ Flagged = {n \in DOMAIN rows : rows[n].trashed_at}
  BY <1>2 DEF Flagged
<1>5. CASE v
  <2>1. Flagged' = Flagged \cup (ids \cap DOMAIN rows)
    BY <1>3, <1>4, <1>5
  <2> QED
    BY <1>2, <1>5, <2>1 DEF Pending
<1>6. CASE ~v
  BY <1>2, <1>3, <1>4, <1>6
<1> QED
  BY <1>5, <1>6

\* A row is created, or written whole.
LEMMA RowMarked ==
    ASSUME NEW n, NEW t, NEW v \in BOOLEAN,
           rows' = [m \in DOMAIN rows \cup {n} |-> IF m = n THEN [text |-> t, trashed_at |-> v] ELSE rows[m]]
    PROVE  Flagged' = (IF v THEN Flagged \cup {n} ELSE Flagged \ {n})
<1>1. /\ DOMAIN rows' = DOMAIN rows \cup {n}
      /\ rows'[n].trashed_at = v /\ \A m \in DOMAIN rows : m # n => rows'[m] = rows[m]
  OBVIOUS
<1>2. Flagged' = {m \in DOMAIN rows \cup {n} : rows'[m].trashed_at}
  BY <1>1 DEF Flagged
<1> QED
  BY <1>1, <1>2 DEF Flagged

\* What is beside a job that writes: only notes that are being opened.
LEMMA UserAlone ==
    ASSUME PhaseInv, NEW j \in Jobs, job[j].kind \in WriteKinds
    PROVE  vaultLoaded /\ \A k \in Jobs \ {j} : job[k].kind \in {"none", "open"}
BY DEF PhaseInv, Alone

\* ... and beside a load, or the start of a page, nothing that writes.
LEMMA NoWriteBeside ==
    ASSUME PhaseInv, NEW j \in Jobs, OthersStay(j), job[j].kind \notin {"none", "open"}
    PROVE  \A k \in Jobs \ {j} : job'[k].kind \notin WriteKinds
BY DEF PhaseInv, Alone, OthersStay

\* Opening a note, from the request to the answer, leaves all but the buffer as it is.
LEMMA OpenLeaves ==
    ASSUME IInv, NEW j \in Jobs, Stands(job[j]),
           \/ job[j].kind = "open" /\ (Serve(j) \/ Continue(j))
           \/ job'[j].kind = "open" /\ User(j)
    PROVE  /\ OthersStay(j) /\ {job[j].kind, job'[j].kind} \subseteq {"none", "open"}
           /\ UNCHANGED <<rows, saved, picked, index, vaultLoaded, masterKey, readOnly>>
<1>1. CASE job[j].kind = "open" /\ Serve(j)
  <2>1. OthersStay(j) /\ Served(job[j], job'[j]) /\ job[j].at = "open"
    BY <1>1, ServeEffect DEF Stands
  <2>2. UNCHANGED <<rows, saved>> /\ job'[j].kind = "open"
    BY <1>1, <2>1 DEF Served, Refused, IndexSaved, RowCreated, RowRead, RowWritten, RowDeleted,
                      RowsFlagged, Got, Keeps
  <2>3. UNCHANGED <<picked, index, vaultLoaded, masterKey, readOnly>>
    BY <1>1 DEF Serve, Refuse, ServeIndex, create_vault_note, update_vault_note_get,
                update_vault_note_save, delete_vault_note, set_vault_notes_trashed, ServeGet,
                serverVars, treeVars, keyVars
  <2> QED
    BY <1>1, <2>1, <2>2, <2>3
<1>2. CASE job[j].kind = "open" /\ Continue(j)
  <2>1. /\ OthersStay(j) /\ ContinueStep(job[j], job'[j]) /\ job[j].at = "open"
        /\ UNCHANGED <<rows, saved, vaultLoaded>>
    BY <1>2, ContinueEffect DEF Stands
  <2>2. job'[j].kind \in {"none", "open"} /\ index' = index
    BY <1>2, <2>1, ContinueStands DEF ContinueStep
  <2>3. UNCHANGED <<picked, masterKey, readOnly>>
    BY <1>2 DEF Continue, AfterOpen, persistNoteRow, AfterRow, AfterDelete, AfterFlag, AfterIndex,
                serverVars, keyVars
  <2> QED
    BY <1>2, <2>1, <2>2, <2>3
<1>3. CASE job'[j].kind = "open" /\ User(j)
  <2>1. /\ OthersStay(j) /\ UserStep(job'[j]) /\ job[j].at = "idle"
        /\ UNCHANGED <<rows, saved, vaultLoaded, masterKey>>
    BY <1>3, UserEffect
  <2>2. index' = index /\ job[j].kind = "none"
    BY <1>3, <2>1 DEF UserStep, Stands
  <2>3. UNCHANGED <<picked, readOnly>>
    BY <1>3 DEF User, saveNote, editIndex, openNote, moveNoteToTrash, restoreTrashedNote,
                deleteNoteForever, deleteFolderToTrash, serverVars, keyVars
  <2> QED
    BY <1>3, <2>1, <2>2, <2>3
<1> QED
  BY <1>1, <1>2, <1>3

\* Anything else the user begins, before writes have crossed, is begun alone and after a load.
LEMMA BegunWriting ==
    ASSUME Waited', IInv, PhaseInv, NEW j \in Jobs, User(j), job'[j].kind # "open"
    PROVE  /\ OthersStay(j) /\ UserStep(job'[j]) /\ job'[j].kind \in WriteKinds
           /\ vaultLoaded /\ UNCHANGED <<rows, saved, vaultLoaded>>
           /\ \A k \in Jobs \ {j} : job'[k].kind \in {"none", "open"}
<1>1. /\ OthersStay(j) /\ UserStep(job'[j]) /\ UNCHANGED <<rows, saved, vaultLoaded>>
      /\ Written(j) \subseteq crossed'
  BY UserEffect
<1>2. vaultLoaded /\ Alone(j)
  BY <1>1, BegunAlone
<1>3. job'[j].kind \in WriteKinds
  BY <1>1, UserStands
<1> QED
  BY <1>1, <1>2, <1>3 DEF Alone, OthersStay

\* The requests of a load.
LEMMA FlagsServedLoad ==
    ASSUME IInv, PhaseInv, FlagInv, NEW j \in Jobs, Serve(j), job[j].kind = "load"
    PROVE  FlagInv'
<1> DEFINE r == job[j]
           s == job'[j]
           D == DOMAIN rows
<1>0. OthersStay(j) /\ Served(r, s) /\ Stands(r) /\ index' = index /\ vaultLoaded' = vaultLoaded
  BY ServeEffect DEF PhaseInv, Serve, treeVars
<1>1. r.at # "idle" /\ s.kind = "load" /\ r.reply = "none"
  BY <1>0, ServedStands DEF Served
<1>2. Loading /\ Faithful(index, D, Flagged, Pending) /\ LoadOK(r, index, D, Flagged, Pending)
  BY DEF Loading, FlagInv
<1>3. \A k \in Jobs : job'[k].kind \notin WriteKinds
  <2>1. \A k \in Jobs \ {j} : job'[k].kind \notin WriteKinds
    BY <1>0, <1>1, NoWriteBeside
  <2> QED
    BY <1>1, <2>1 DEF WriteKinds
<1>4. \A k \in Jobs \ {j} : Keeps(job[k], job'[k], {}) /\ job'[k].reply = job[k].reply
  BY <1>0 DEF OthersStay, Keeps
<1>v. Vouched(index, Flagged) /\ Vouched(saved, Flagged)
  BY DEF FlagInv
<1>p. Pending \subseteq TrashIn(saved) /\ Flagged \subseteq D /\ Pending \subseteq D
  BY DEF Pending, Flagged
<1>f. ASSUME Settles(D, Flagged, Pending, D', Flagged', Pending'),
             Vouched(saved', Flagged'),
             Faithful(index, D', Flagged', Pending'),
             LoadOK(job'[j], index', D', Flagged', Pending')
      PROVE  FlagInv'
  <2>1. Whole(index, D, Flagged, Pending) => Whole(index', D', Flagged', Pending')
    BY <1>0, <1>f, WholeStays
  <2> QED
    BY <1>0, <1>2, <1>3, <1>4, <1>f, <2>1, FlagsWhileLoading
<1>s. rows' = rows /\ saved' = saved =>
         /\ D' = D /\ Flagged' = Flagged /\ Pending' = Pending
         /\ Settles(D, Flagged, Pending, D', Flagged', Pending')
  BY RowsStay
<1>q. ASSUME rows' = rows, saved' = saved, LoadOK(s, index, D, Flagged, Pending)
      PROVE  FlagInv'
  BY <1>0, <1>2, <1>f, <1>q, <1>s, <1>v
<1>5. CASE Refused(r, s)
  <2>1. /\ s.at = r.at /\ s.note = r.note /\ s.ids = r.ids /\ s.flag = r.flag /\ s.body = r.body
        /\ s.listed = r.listed /\ s.flagged = r.flagged /\ s.reply # "ok" /\ r.at # "orphans"
    BY <1>5 DEF Refused, Keeps, Gets, Posts
  <2>2. LoadOK(s, index, D, Flagged, Pending)
    BY <1>2, <2>1 DEF LoadOK
  <2> QED
    BY <1>5, <1>q, <2>2 DEF Refused
<1>6. CASE IndexSaved(r, s)
  <2>1. r.at = "persist" /\ Keeps(r, s, {}) /\ saved' = r.body /\ rows' = rows
    BY <1>0, <1>6 DEF IndexSaved, Stands
  <2>2. Whole(r.body, D, Flagged, Pending) /\ Whole(index, D, Flagged, Pending)
    BY <1>2, <2>1 DEF LoadOK
  <2>3. D' = D /\ Flagged' = Flagged
    BY <2>1 DEF Flagged
  <2>4. Pending' = (TrashIn(r.body) \cap D) \ Flagged
    BY <2>1, <2>3 DEF Pending
  <2>5. Pending' = Pending
    <3>1. Pending \cap Flagged = {}
      BY DEF Pending
    <3> QED
      BY <1>p, <2>2, <2>4, <3>1 DEF Whole, Faithful
  <2>6. Settles(D, Flagged, Pending, D', Flagged', Pending')
    BY <1>p, <2>3, <2>5 DEF Settles
  <2>7. Vouched(saved', Flagged')
    BY <2>1, <2>2, <2>3 DEF Whole, Faithful
  <2>8. LoadOK(s, index, D, Flagged, Pending)
    <3>1. /\ s.at = "persist" /\ s.note = r.note /\ s.ids = r.ids /\ s.flag = r.flag
          /\ s.body = r.body /\ s.listed = r.listed /\ s.flagged = r.flagged
      BY <2>1 DEF Keeps
    <3> QED
      BY <1>2, <2>1, <3>1 DEF LoadOK
  <2> QED
    BY <1>0, <1>2, <1>f, <2>3, <2>5, <2>6, <2>7, <2>8
<1>7. CASE RowsFlagged(r, s)
  <2>1. /\ r.at = "flag" /\ Keeps(r, s, {}) /\ saved' = saved
        /\ rows' = [n \in DOMAIN rows |->
                       IF n \in r.ids THEN [rows[n] EXCEPT !.trashed_at = r.flag] ELSE rows[n]]
    BY <1>7 DEF RowsFlagged
  <2>f. r.flag \in BOOLEAN
    BY JobFields DEF GoodFields
  <2>2. Whole(index, D, Flagged, Pending)
    BY <1>2, <2>1 DEF LoadOK
  <2>3. /\ D' = D
        /\ Flagged' = (IF r.flag THEN Flagged \cup (r.ids \cap D) ELSE Flagged \ r.ids)
        /\ r.flag => Pending' = Pending \ r.ids
    <3> DEFINE ids == r.ids
               v == r.flag
    <3>1. /\ v \in BOOLEAN /\ saved' = saved
          /\ rows' = [n \in DOMAIN rows |->
                         IF n \in ids THEN [rows[n] EXCEPT !.trashed_at = v] ELSE rows[n]]
      BY <2>1, <2>f
    <3> HIDE DEF ids, v
    <3>2. /\ DOMAIN rows' = DOMAIN rows
          /\ Flagged' = (IF v THEN Flagged \cup (ids \cap DOMAIN rows) ELSE Flagged \ ids)
          /\ v => Pending' = Pending \ ids
      BY <3>1, RowsMarked
    <3> QED
      BY <3>2 DEF ids, v
  <2>k. /\ s.at = r.at /\ s.ids = r.ids /\ s.flag = r.flag /\ s.listed = r.listed
    BY <2>1 DEF Keeps
  <2>4. CASE r.flag
    <3>1. r.flag = TRUE
      BY <2>4, <2>f
    <3>2. r.ids \cap D \subseteq Pending \cup Flagged /\ r.listed \cap D = {}
      BY <1>2, <2>1, <3>1 DEF LoadOK
    <3>3. Flagged' = Flagged \cup (r.ids \cap D) /\ Pending' = Pending \ r.ids
      BY <2>3, <2>4
    <3>4. Settles(D, Flagged, Pending, D', Flagged', Pending')
      BY <1>p, <2>3, <3>2, <3>3 DEF Settles
    <3>5. Whole(index, D', Flagged', Pending')
      BY <2>2, <3>4, WholeStays
    <3>6. Vouched(saved', Flagged')
      BY <1>p, <1>v, <2>1, <3>2, <3>3, PartsApart DEF Vouched
    <3>7. LoadOK(job'[j], index', D', Flagged', Pending')
      BY <1>0, <2>1, <2>3, <2>k, <3>1, <3>2, <3>3, <3>5 DEF LoadOK
    <3> QED
      BY <1>f, <3>4, <3>5, <3>6, <3>7 DEF Whole
  <2>5. CASE ~r.flag
    <3>1. r.flag = FALSE
      BY <2>5, <2>f
    <3>2. r.ids \cap D = {}
      BY <1>2, <2>1, <3>1 DEF LoadOK
    <3>3. Flagged' = Flagged
      BY <1>p, <2>3, <2>5, <3>2
    <3>4. Pending' = Pending
      BY <2>1, <2>3, <3>3 DEF Pending
    <3>5. Settles(D, Flagged, Pending, D', Flagged', Pending')
      BY <1>p, <2>3, <3>3, <3>4 DEF Settles
    <3>6. LoadOK(job'[j], index', D', Flagged', Pending')
      BY <1>0, <2>1, <2>2, <2>3, <2>k, <3>1, <3>2, <3>3, <3>4 DEF LoadOK
    <3> QED
      BY <1>2, <1>f, <1>v, <2>1, <2>3, <3>3, <3>4, <3>5, <3>6
  <2> QED
    BY <2>4, <2>5
<1>8. CASE Got(r, s)
  <2>1. s.reply = "ok" /\ rows' = rows /\ saved' = saved
    BY <1>8 DEF Got
  <2>2. CASE r.at = "getIndex" /\ Keeps(r, s, {"body"}) /\ s.body = saved
    <3>1. Whole(saved, D, Flagged, Pending)
      BY <1>p, <1>v DEF Whole, Faithful, Pending
    <3>2. s.at = "getIndex"
      BY <2>2 DEF Keeps
    <3>3. LoadOK(s, index, D, Flagged, Pending)
      BY <2>2, <3>1, <3>2 DEF LoadOK
    <3> QED
      BY <1>q, <2>1, <3>3
  <2>3. CASE r.at = "getRows" /\ s.listed = DOMAIN rows /\ s.flagged = Flagged /\ s.at = r.at
    <3>1. LoadOK(s, index, D, Flagged, Pending)
      BY <1>2, <2>3 DEF LoadOK
    <3> QED
      BY <1>q, <2>1, <3>1
  <2>4. CASE /\ r.at = "getOrphan" /\ Keeps(r, s, {"flag"})
             /\ r.note \in DOMAIN rows /\ s.flag = rows[r.note].trashed_at
    <3>1. s.at = "getOrphan" /\ s.note = r.note /\ s.ids = r.ids /\ s.flagged = r.flagged
      BY <2>4 DEF Keeps
    <3>2. s.flag <=> s.note \in Flagged
      BY <2>4, <3>1 DEF Flagged
    <3>3. LoadOK(s, index, D, Flagged, Pending)
      BY <1>2, <2>4, <3>1, <3>2 DEF LoadOK
    <3> QED
      BY <1>q, <2>1, <3>3
  <2> QED
    BY <1>0, <1>8, <2>2, <2>3, <2>4 DEF Got, Stands
<1>9. ~RowCreated(r, s) /\ ~RowRead(r, s) /\ ~RowWritten(r, s) /\ ~RowDeleted(r, s)
  BY <1>0 DEF Stands, RowCreated, RowRead, RowWritten, RowDeleted
<1> QED
  BY <1>0, <1>5, <1>6, <1>7, <1>8, <1>9 DEF Served

\* The requests of a job that writes.
LEMMA FlagsServedUser ==
    ASSUME IInv, PhaseInv, FlagInv, NEW j \in Jobs, Serve(j), job[j].kind \in WriteKinds
    PROVE  FlagInv'
<1> DEFINE r == job[j]
           s == job'[j]
<1>0. OthersStay(j) /\ Served(r, s) /\ Stands(r) /\ index' = index /\ vaultLoaded' = vaultLoaded
  BY ServeEffect DEF PhaseInv, Serve, treeVars
<1>1. r.at # "idle" /\ s.kind = r.kind /\ r.reply = "none"
  BY <1>0, ServedStands DEF Served
<1>v. Vouched(index, Flagged) /\ Vouched(saved, Flagged) /\ UserOK(r, index, saved, Flagged)
  BY DEF FlagInv
<1>j. r \in GoodFields
  BY JobFields
<1>f. ASSUME Vouched(index, Flagged'), Vouched(saved', Flagged'),
             UserOK(job'[j], index, saved', Flagged')
      PROVE  FlagInv'
  <2>1. vaultLoaded' /\ \A k \in Jobs \ {j} : job'[k].kind \in {"none", "open"}
    BY <1>0, UserAlone DEF OthersStay
  <2> QED
    BY <1>0, <1>1, <1>f, <2>1, FlagsOfUser
<1>s. rows' = rows => Flagged' = Flagged
  BY DEF Flagged
<1>g. Flagged' \subseteq Flagged =>
         /\ Vouched(index, Flagged') /\ Vouched(saved, Flagged')
         /\ Vouched(r.prev, Flagged) => Vouched(r.prev, Flagged')
  BY <1>v DEF Vouched
<1>2. CASE Refused(r, s)
  <2>1. /\ s.at = r.at /\ s.note = r.note /\ s.ids = r.ids /\ s.flag = r.flag /\ s.body = r.body
        /\ s.prev = r.prev /\ s.reply # "ok" /\ rows' = rows /\ saved' = saved
    BY <1>2 DEF Refused, Keeps
  <2>2. UserOK(job'[j], index, saved', Flagged')
    BY <1>1, <1>s, <1>v, <2>1 DEF UserOK
  <2> QED
    BY <1>f, <1>s, <1>v, <2>1, <2>2
<1>3. CASE IndexSaved(r, s)
  <2>1. r.at = "index" /\ Keeps(r, s, {}) /\ saved' = r.body /\ rows' = rows
    BY <1>0, <1>3 DEF IndexSaved, Stands, WriteKinds
  <2>2. /\ s.at = r.at /\ s.ids = r.ids /\ s.body = r.body /\ s.prev = r.prev
    BY <2>1 DEF Keeps
  <2>3. index = r.body /\ Vouched(saved', Flagged')
    BY <1>s, <1>v, <2>1 DEF UserOK
  <2>4. UserOK(job'[j], index, saved', Flagged')
    BY <1>1, <1>s, <1>v, <2>1, <2>2, <2>3 DEF UserOK
  <2> QED
    BY <1>f, <1>s, <1>v, <2>1, <2>3, <2>4
<1>4. CASE RowCreated(r, s)
  <2>1. /\ r.at = "create" /\ Keeps(r, s, {"note", "text"}) /\ saved' = saved
        /\ rows' = [m \in DOMAIN rows \cup {s.note} |->
                        IF m = s.note THEN [text |-> s.text, trashed_at |-> FALSE] ELSE rows[m]]
    BY <1>4 DEF RowCreated
  <2>2. Flagged' = Flagged \ {s.note}
    BY <2>1, RowMarked
  <2>3. s.at = "create" /\ s.kind = "save"
    BY <1>0, <2>1 DEF Keeps, Stands
  <2>4. UserOK(job'[j], index, saved', Flagged')
    BY <2>2, <2>3 DEF UserOK
  <2> QED
    BY <1>f, <1>g, <2>1, <2>2, <2>4
<1>5. CASE RowRead(r, s)
  <2>1. /\ r.at = "update" /\ r.note \in DOMAIN rows
        /\ Keeps(r, s, {"at", "flag"}) /\ s.at = "updating"
        /\ s.flag = rows[r.note].trashed_at /\ rows' = rows /\ saved' = saved
    BY <1>5 DEF RowRead
  <2>2. s.kind = "save" /\ s.note = r.note
    BY <1>0, <2>1 DEF Keeps, Stands
  <2>3. s.flag => s.note \in Flagged
    BY <2>1, <2>2 DEF Flagged
  <2>4. UserOK(job'[j], index, saved', Flagged')
    BY <1>v, <2>1, <2>2, <2>3 DEF UserOK, Vouched
  <2> QED
    BY <1>f, <1>s, <1>v, <2>1, <2>4
<1>6. CASE RowWritten(r, s)
  <2>1. /\ r.at = "updating" /\ Keeps(r, s, {"at"}) /\ s.at = "update" /\ saved' = saved
        /\ rows' = [m \in DOMAIN rows \cup {r.note} |->
                        IF m = r.note THEN [text |-> r.text, trashed_at |-> r.flag] ELSE rows[m]]
    BY <1>6 DEF RowWritten
  <2>2. r.kind = "save" /\ r.flag \in BOOLEAN
    BY <1>0, <1>j, <2>1 DEF Stands, GoodFields
  <2>3. Flagged' = (IF r.flag THEN Flagged \cup {r.note} ELSE Flagged \ {r.note})
    BY <2>1, <2>2, RowMarked
  <2>4. Vouched(index, Flagged') /\ Vouched(saved, Flagged')
    <3>1. CASE r.flag
      <4>1. r.note \notin ActiveIn(index) \cup ActiveIn(saved)
        BY <1>v, <2>1, <2>2, <3>1 DEF UserOK
      <4> QED
        BY <1>v, <2>3, <3>1, <4>1 DEF Vouched
    <3>2. CASE ~r.flag
      BY <1>v, <2>3, <3>2 DEF Vouched
    <3> QED
      BY <3>1, <3>2
  <2>5. UserOK(job'[j], index, saved', Flagged')
    BY <1>1, <2>1, <2>2 DEF UserOK
  <2> QED
    BY <1>f, <2>1, <2>4, <2>5
<1>7. CASE RowDeleted(r, s)
  <2>1. /\ r.at = "delete" /\ Keeps(r, s, {}) /\ saved' = saved
        /\ rows' = Restrict(rows, DOMAIN rows \ {r.note})
    BY <1>7 DEF RowDeleted
  <2>2. Flagged' \subseteq Flagged
    BY <2>1, RowsGo
  <2>3. s.at = "delete"
    BY <2>1 DEF Keeps
  <2>4. UserOK(job'[j], index, saved', Flagged')
    BY <2>3 DEF UserOK
  <2> QED
    BY <1>f, <1>g, <2>1, <2>2, <2>4
<1>8. CASE RowsFlagged(r, s)
  <2>1. /\ r.at = "flag" /\ Keeps(r, s, {}) /\ saved' = saved
        /\ rows' = [n \in DOMAIN rows |->
                       IF n \in r.ids THEN [rows[n] EXCEPT !.trashed_at = r.flag] ELSE rows[n]]
    BY <1>8 DEF RowsFlagged
  <2>f. r.flag \in BOOLEAN
    BY <1>j DEF GoodFields
  <2>2. /\ DOMAIN rows' = DOMAIN rows
        /\ Flagged' = (IF r.flag THEN Flagged \cup (r.ids \cap DOMAIN rows) ELSE Flagged \ r.ids)
        /\ r.flag => Pending' = Pending \ r.ids
    <3> DEFINE ids == r.ids
               v == r.flag
    <3>1. /\ v \in BOOLEAN /\ saved' = saved
          /\ rows' = [n \in DOMAIN rows |->
                         IF n \in ids THEN [rows[n] EXCEPT !.trashed_at = v] ELSE rows[n]]
      BY <2>1, <2>f
    <3> HIDE DEF ids, v
    <3>2. /\ DOMAIN rows' = DOMAIN rows
          /\ Flagged' = (IF v THEN Flagged \cup (ids \cap DOMAIN rows) ELSE Flagged \ ids)
          /\ v => Pending' = Pending \ ids
      BY <3>1, RowsMarked
    <3> QED
      BY <3>2 DEF ids, v
  <2>3. /\ s.at = "flag" /\ s.note = r.note /\ s.ids = r.ids /\ s.flag = r.flag
    BY <2>1 DEF Keeps
  <2>4. CASE r.kind = "trash"
    <3>1. r.flag = TRUE /\ r.ids \cap (ActiveIn(index) \cup ActiveIn(saved)) = {}
      BY <1>v, <2>1, <2>4 DEF UserOK
    <3>2. Flagged' = Flagged \cup (r.ids \cap DOMAIN rows)
      BY <2>2, <3>1
    <3>3. Vouched(index, Flagged') /\ Vouched(saved, Flagged')
      BY <1>v, <3>1, <3>2 DEF Vouched
    <3>4. UserOK(job'[j], index, saved', Flagged')
      BY <1>1, <2>1, <2>3, <2>4, <3>1 DEF UserOK
    <3> QED
      BY <1>f, <2>1, <3>3, <3>4
  <2>5. CASE r.kind = "restore"
    <3>1. r.flag = FALSE /\ r.ids = {r.note}
      BY <1>v, <2>1, <2>5 DEF UserOK
    <3>2. Flagged' = Flagged \ {r.note}
      BY <2>2, <3>1
    <3>3. UserOK(job'[j], index, saved', Flagged')
      BY <1>1, <2>1, <2>3, <2>5, <3>1, <3>2 DEF UserOK
    <3> QED
      BY <1>f, <1>g, <2>1, <3>2, <3>3
  <2> QED
    BY <1>0, <2>1, <2>4, <2>5 DEF Stands, WriteKinds
<1>9. ~Got(r, s)
  BY <1>0 DEF Got, Stands, WriteKinds
<1> QED
  BY <1>0, <1>2, <1>3, <1>4, <1>5, <1>6, <1>7, <1>8, <1>9 DEF Served

\* What the user starts that writes.
LEMMA FlagsStarted ==
    ASSUME Waited', IInv, PhaseInv, FlagInv, NEW j \in Jobs, User(j), job'[j].kind # "open"
    PROVE  FlagInv'
<1> DEFINE s == job'[j]
<1>0. /\ OthersStay(j) /\ UserStep(s) /\ s.kind \in WriteKinds
      /\ vaultLoaded /\ UNCHANGED <<rows, saved, vaultLoaded>>
      /\ \A k \in Jobs \ {j} : job'[k].kind \in {"none", "open"}
  BY BegunWriting
<1>1. s.kind \in WriteKinds
  BY <1>0
<1>v. Vouched(index, Flagged) /\ Vouched(saved, Flagged)
  BY DEF FlagInv
<1>s. Flagged' = Flagged
  BY <1>0 DEF Flagged
<1>x. index \in Closed
  BY DEF IInv, IndexInv
<1>f. ASSUME Vouched(index', Flagged), UserOK(job'[j], index', saved', Flagged')
      PROVE  FlagInv'
  BY <1>0, <1>1, <1>f, <1>s, <1>v, FlagsOfUser
<1>2. CASE /\ index' = index
           /\ \/ s.at \in {"encrypt", "delete"}
              \/ /\ s.kind = "restore" /\ s.at = "flag" /\ s.reply = "none"
                 /\ s.ids = {s.note} /\ s.flag = FALSE
  <2>1. UserOK(job'[j], index', saved', Flagged')
    BY <1>2 DEF UserOK
  <2> QED
    BY <1>2, <1>f, <1>v, <2>1
<1>c. ASSUME s.at = "index", s.reply \in {"none", "no"}, s.prev = index, index' = s.body,
             ActiveIn(s.body) \subseteq ActiveIn(index),
             s.kind = "trash" => s.ids \cap ActiveIn(s.body) = {}
      PROVE  FlagInv'
  <2>1. Vouched(index', Flagged) /\ Vouched(s.prev, Flagged)
    BY <1>c, <1>v DEF Vouched
  <2>2. UserOK(job'[j], index', saved', Flagged')
    BY <1>c, <1>s, <2>1 DEF UserOK
  <2> QED
    BY <1>f, <2>1, <2>2
<1>3. CASE /\ s.kind = "edit" /\ s.at = "index" /\ s.reply \in {"none", "no"} /\ s.prev = index
           /\ \/ \E f \in Folders : s.body = addFolder(index, f)
              \/ \E n \in Notes, f \in Folders \cup {Root} : s.body = moveNote(index, n, f)
              \/ s.body = index
           /\ index' = s.body
  <2>1. ActiveIn(s.body) \subseteq ActiveIn(index)
    BY <1>3, <1>x, PartsOfFolder, PartsOfMove
  <2> QED
    BY <1>3, <1>c, <2>1
<1>4. CASE /\ s.kind = "trash" /\ s.at = "index" /\ s.reply \in {"none", "no"} /\ s.prev = index
           /\ \E n \in Notes : s.ids = {n} /\ s.body = trashNote(index, n)
           /\ index' = s.body
  <2>1. PICK n \in Notes : s.ids = {n} /\ s.body = trashNote(index, n)
    BY <1>4
  <2>2. ActiveIn(s.body) = ActiveIn(index) \ {n}
    BY <1>x, <2>1, PartsOfTrash
  <2>3. s.ids \cap ActiveIn(s.body) = {} /\ ActiveIn(s.body) \subseteq ActiveIn(index)
    BY <2>1, <2>2
  <2> QED
    BY <1>4, <1>c, <2>3
<1>5. CASE /\ s.kind = "trash" /\ s.at = "index" /\ s.reply \in {"none", "no"} /\ s.prev = index
           /\ \E f \in Folders :
                  /\ s.ids \subseteq {n \in DOMAIN index.notes : index.notes[n].folder = f}
                  /\ s.body = deleteFolder(index, f)
           /\ index' = s.body
  <2>1. PICK f \in Folders : /\ s.ids \subseteq {n \in DOMAIN index.notes : index.notes[n].folder = f}
                             /\ s.body = deleteFolder(index, f)
    BY <1>5
  <2> DEFINE held == {n \in DOMAIN index.notes : index.notes[n].folder = f}
  <2>2. ActiveIn(s.body) = ActiveIn(index) \ held /\ s.ids \subseteq held
    BY <1>x, <2>1, PartsOfDeleted
  <2> HIDE DEF held
  <2>3. s.ids \cap ActiveIn(s.body) = {} /\ ActiveIn(s.body) \subseteq ActiveIn(index)
    BY <2>2
  <2> QED
    BY <1>5, <1>c, <2>3
<1> QED
  BY <1>0, <1>2, <1>3, <1>4, <1>5 DEF UserStep, WriteKinds

\* A row a load recovers keeps an index whole, and a faithful one faithful.
LEMMA AddedWhole ==
    ASSUME NEW X \in Closed, NEW n \in Notes, NEW t \in BOOLEAN, NEW D, NEW F, NEW P,
           F \subseteq D, n \notin P, n \in D => (t <=> n \in F)
    PROVE  /\ Faithful(X, D, F, P) => Faithful(addNote(X, n, t), D, F, P)
           /\ Whole(X, D, F, P) => Whole(addNote(X, n, t), D, F, P)
<1>1. CASE t
  <2>1. /\ ActiveIn(addNote(X, n, t)) = ActiveIn(X) \ {n}
        /\ TrashIn(addNote(X, n, t)) = TrashIn(X) \cup {n}
    BY <1>1, PartsOfAdded
  <2> QED
    BY <1>1, <2>1 DEF Whole, Faithful, Vouched
<1>2. CASE ~t
  <2>1. /\ ActiveIn(addNote(X, n, t)) = ActiveIn(X) \cup {n}
        /\ TrashIn(addNote(X, n, t)) = TrashIn(X) \ {n}
    BY <1>2, PartsOfAdded
  <2> QED
    BY <1>2, <2>1 DEF Whole, Faithful, Vouched
<1> QED
  BY <1>1, <1>2

\* ... and so does leaving out what has no row.
LEMMA ReconciledWhole ==
    ASSUME NEW X \in Closed, NEW R, NEW D, NEW F, NEW P, D \subseteq R, P \subseteq D
    PROVE  /\ Faithful(X, D, F, P) => Faithful(reconcile(X, R), D, F, P)
           /\ Whole(X, D, F, P) => Whole(reconcile(X, R), D, F, P)
<1>1. /\ ActiveIn(reconcile(X, R)) = ActiveIn(X) \cap R
      /\ TrashIn(reconcile(X, R)) = TrashIn(X) \cap R
  BY PartsOfLoaded
<1> QED
  BY <1>1 DEF Whole, Faithful, Vouched

\* The replies a load waits for.
LEMMA FlagsLoaded ==
    ASSUME IInv, PhaseInv, FlagInv, NEW j \in Jobs, Load(j)
    PROVE  FlagInv'
<1> DEFINE r == job[j]
           s == job'[j]
           D == DOMAIN rows
<1>0. OthersStay(j) /\ LoadStep(r, s) /\ Stands(r) /\ rows' = rows /\ saved' = saved
  BY LoadEffect, LoadLeaves DEF PhaseInv
<1>1. r.at # "idle" /\ r.kind \in {"init", "load"} /\ s.kind \in {"load", "none"}
  BY <1>0, LoadStands
<1>2. Loading /\ Faithful(index, D, Flagged, Pending)
  BY <1>1 DEF Loading, FlagInv
<1>3. r.at # "session" => r.kind = "load" /\ LoadOK(r, index, D, Flagged, Pending)
  <2>1. r.at # "session" => r.kind = "load"
    BY <1>0, <1>1 DEF Stands
  <2>2. r.kind = "load" => LoadOK(r, index, D, Flagged, Pending)
    BY <1>2 DEF FlagInv
  <2> QED
    BY <2>1, <2>2
<1>4. \A k \in Jobs : job'[k].kind \notin WriteKinds
  <2>1. \A k \in Jobs \ {j} : job'[k].kind \notin WriteKinds
    BY <1>0, <1>1, NoWriteBeside
  <2> QED
    BY <1>1, <2>1 DEF WriteKinds
<1>5. \A k \in Jobs \ {j} : Keeps(job[k], job'[k], {}) /\ job'[k].reply = job[k].reply
  BY <1>0 DEF OthersStay, Keeps
<1>v. Vouched(index, Flagged) /\ Vouched(saved, Flagged)
  BY DEF FlagInv
<1>p. Pending \subseteq TrashIn(saved) /\ Flagged \subseteq D /\ Pending \subseteq D
  BY DEF Pending, Flagged
<1>s. /\ D' = D /\ Flagged' = Flagged /\ Pending' = Pending
      /\ Settles(D, Flagged, Pending, D', Flagged', Pending')
  BY <1>0, RowsStay
<1>f. ASSUME Faithful(index', D, Flagged, Pending),
             Whole(index, D, Flagged, Pending) => Whole(index', D, Flagged, Pending),
             s.kind = "load" => LoadOK(s, index', D, Flagged, Pending)
      PROVE  FlagInv'
  BY <1>0, <1>2, <1>4, <1>5, <1>f, <1>s, <1>v, FlagsWhileLoading
<1>q. ASSUME index' = index, s.kind = "load" => LoadOK(s, index, D, Flagged, Pending)
      PROVE  FlagInv'
  BY <1>2, <1>f, <1>q
<1>x. index \in Closed /\ r \in GoodFields
  BY JobFields DEF IInv, IndexInv
<1>6. CASE s = Idle /\ index' = index
  BY <1>6, <1>q, IdleFields
<1>7. CASE /\ r.at = "session" /\ s.at = "getIndex" /\ s.reply = "none" /\ index' = index
  <2>1. LoadOK(s, index, D, Flagged, Pending)
    BY <1>7 DEF LoadOK
  <2> QED
    BY <1>7, <1>q, <2>1
<1>8. CASE /\ r.at = "getIndex" /\ r.reply = "ok" /\ r.body # Unreadable
           /\ s.at = "getRows" /\ s.reply = "none"
           /\ index' = (IF r.body = Unset THEN index ELSE r.body)
  <2>1. Whole(r.body, D, Flagged, Pending)
    BY <1>3, <1>8 DEF LoadOK
  <2>2. Whole(index', D, Flagged, Pending)
    <3>1. CASE r.body = Unset
      <4>1. Pending = {}
        BY <2>1, <3>1 DEF Whole, TrashIn
      <4> QED
        BY <1>2, <1>8, <3>1, <4>1 DEF Whole
    <3>2. CASE r.body # Unset
      BY <1>8, <2>1, <3>2
    <3> QED
      BY <3>1, <3>2
  <2>3. LoadOK(s, index', D, Flagged, Pending)
    BY <1>8, <2>2 DEF LoadOK
  <2> QED
    BY <1>f, <2>2, <2>3 DEF Whole
<1>9. CASE /\ r.at = "getRows" /\ r.reply = "ok"
           /\ Keeps(r, s, {"at", "ids", "listed"}) /\ s.at = "orphans" /\ s.reply = "none"
           /\ s.ids = orphanIds(index, r.listed)
           /\ index' = reconcile(index, r.listed)
  <2>1. /\ Whole(index, D, Flagged, Pending) /\ D \subseteq r.listed
        /\ r.flagged \cap D \subseteq Flagged
    BY <1>3, <1>9 DEF LoadOK
  <2>2. Whole(index', D, Flagged, Pending)
    BY <1>9, <1>p, <1>x, <2>1, ReconciledWhole
  <2>3. s.ids \cap TrashIn(index) = {}
    BY <1>9, <1>x, PartsOfLoaded
  <2>4. s.ids \cap Pending = {} /\ s.flagged = r.flagged
    BY <1>9, <2>1, <2>3 DEF Whole, Keeps
  <2>5. LoadOK(s, index', D, Flagged, Pending)
    BY <1>9, <2>1, <2>2, <2>4 DEF LoadOK
  <2> QED
    BY <1>f, <2>2, <2>5 DEF Whole
<1>10. CASE /\ r.at = "orphans"
            /\ Keeps(r, s, {"at", "ids", "note"}) /\ s.at = "getOrphan" /\ s.reply = r.reply
            /\ s.note \in r.ids /\ s.ids = r.ids \ {s.note}
            /\ index' = index
  <2>1. s.flagged = r.flagged
    BY <1>10 DEF Keeps
  <2>2. LoadOK(s, index, D, Flagged, Pending)
    BY <1>3, <1>10, <2>1 DEF LoadOK
  <2> QED
    BY <1>10, <1>q, <2>2
<1>11. CASE /\ r.at = "getOrphan"
            /\ Keeps(r, s, {"at", "note", "flag"}) /\ s.at = "orphans" /\ s.reply = "none"
            /\ \/ index' = index
               \/ r.reply = "ok" /\ r.note \in Notes /\ index' = addNote(index, r.note, r.flag)
  <2>1. /\ Whole(index, D, Flagged, Pending) /\ r.note \notin Pending /\ r.ids \cap Pending = {}
        /\ r.flagged \cap D \subseteq Flagged
        /\ r.reply = "ok" /\ r.note \in D => (r.flag <=> r.note \in Flagged)
    BY <1>3, <1>11 DEF LoadOK
  <2>2. r.flag \in BOOLEAN
    BY <1>x DEF GoodFields
  <2>3. Whole(index', D, Flagged, Pending)
    BY <1>11, <1>p, <1>x, <2>1, <2>2, AddedWhole
  <2>4. s.flagged = r.flagged /\ s.ids = r.ids
    BY <1>11 DEF Keeps
  <2>5. LoadOK(s, index', D, Flagged, Pending)
    BY <1>11, <2>1, <2>3, <2>4 DEF LoadOK
  <2> QED
    BY <1>f, <2>3, <2>5 DEF Whole
<1>12. CASE /\ r.at = "orphans"
            /\ Keeps(r, s, {"at", "body"}) /\ s.at = "persist" /\ s.body = index
            /\ index' = index
  <2>1. s.flagged = r.flagged
    BY <1>12 DEF Keeps
  <2>2. LoadOK(s, index, D, Flagged, Pending)
    BY <1>3, <1>12, <2>1 DEF LoadOK
  <2> QED
    BY <1>12, <1>q, <2>2
<1>13. CASE /\ r.at \in {"orphans", "persist"} /\ s.at = "flag" /\ index' = index
            /\ \/ /\ s.flag = TRUE /\ s.ids = trashFlagDrift(index, r.flagged, TRUE)
                  /\ s.listed \subseteq trashFlagDrift(index, r.flagged, FALSE)
               \/ s.flag = FALSE /\ s.ids = trashFlagDrift(index, r.flagged, FALSE)
  <2>1. Whole(index, D, Flagged, Pending) /\ r.flagged \cap D \subseteq Flagged
    BY <1>3, <1>13 DEF LoadOK
  <2>2. /\ trashFlagDrift(index, r.flagged, TRUE) = TrashIn(index) \ r.flagged
        /\ trashFlagDrift(index, r.flagged, FALSE) = ActiveIn(index) \cap r.flagged
    BY <1>x, PartsOfLoaded
  <2>3. trashFlagDrift(index, r.flagged, TRUE) \cap D \subseteq Pending \cup Flagged
    BY <2>1, <2>2 DEF Whole, Faithful
  <2>4. trashFlagDrift(index, r.flagged, FALSE) \cap D = {}
    BY <2>1, <2>2 DEF Whole, Faithful, Vouched
  <2>5. LoadOK(s, index, D, Flagged, Pending)
    BY <1>13, <2>1, <2>3, <2>4 DEF LoadOK
  <2> QED
    BY <1>13, <1>q, <2>5
<1> QED
  BY <1>0, <1>6, <1>7, <1>8, <1>9, <1>10, <1>11, <1>12, <1>13 DEF LoadStep

\* The replies a load's repairs of the flags wait for.
LEMMA FlagsContinuedLoad ==
    ASSUME IInv, PhaseInv, FlagInv, NEW j \in Jobs, Continue(j), job[j].kind = "load"
    PROVE  FlagInv'
<1> DEFINE r == job[j]
           s == job'[j]
           D == DOMAIN rows
<1>0. OthersStay(j) /\ ContinueStep(r, s) /\ Stands(r) /\ rows' = rows /\ saved' = saved
  BY ContinueEffect DEF PhaseInv
<1>1. r.at # "idle" /\ s.kind \in {"load", "none"}
  BY <1>0, ContinueStands
<1>2. Loading /\ Faithful(index, D, Flagged, Pending) /\ LoadOK(r, index, D, Flagged, Pending)
  BY DEF Loading, FlagInv
<1>3. \A k \in Jobs : job'[k].kind \notin WriteKinds
  <2>1. \A k \in Jobs \ {j} : job'[k].kind \notin WriteKinds
    BY <1>0, <1>1, NoWriteBeside
  <2> QED
    BY <1>1, <2>1 DEF WriteKinds
<1>4. \A k \in Jobs \ {j} : Keeps(job[k], job'[k], {}) /\ job'[k].reply = job[k].reply
  BY <1>0 DEF OthersStay, Keeps
<1>5. /\ D' = D /\ Flagged' = Flagged /\ Pending' = Pending
      /\ Settles(D, Flagged, Pending, D', Flagged', Pending')
  BY <1>0, RowsStay
<1>6. \/ s = Idle /\ index' = index
      \/ /\ r.at = "flag" /\ r.flag
         /\ Keeps(r, s, {"ids", "flag"}) /\ s.ids = r.listed /\ s.flag = FALSE
         /\ index' = index
  <2>1. r.at \notin {"open", "encrypt", "create", "update", "delete", "index"}
    BY <1>0 DEF Stands
  <2> QED
    BY <1>0, <2>1 DEF ContinueStep
<1>7. s.kind = "load" => LoadOK(s, index, D, Flagged, Pending)
  <2>1. CASE s = Idle
    BY <2>1, IdleFields
  <2>2. CASE /\ r.at = "flag" /\ r.flag
             /\ Keeps(r, s, {"ids", "flag"}) /\ s.ids = r.listed /\ s.flag = FALSE
    <3>1. r.flag = TRUE /\ s.at = "flag"
      BY <2>2, JobFields DEF GoodFields, Keeps
    <3> QED
      BY <1>2, <2>2, <3>1 DEF LoadOK
  <2> QED
    BY <1>6, <2>1, <2>2
<1>8. Vouched(saved', Flagged')
  BY <1>0, <1>5 DEF FlagInv
<1> QED
  BY <1>2, <1>3, <1>4, <1>5, <1>6, <1>7, <1>8, FlagsWhileLoading

\* The replies the user waits for.
LEMMA FlagsContinuedUser ==
    ASSUME IInv, PhaseInv, FlagInv, NEW j \in Jobs, Continue(j), job[j].kind \in WriteKinds
    PROVE  FlagInv'
<1> DEFINE r == job[j]
           s == job'[j]
<1>0. /\ OthersStay(j) /\ ContinueStep(r, s) /\ Stands(r)
      /\ rows' = rows /\ saved' = saved /\ vaultLoaded' = vaultLoaded
  BY ContinueEffect DEF PhaseInv
<1>1. s.kind \in {r.kind, "none"}
  BY <1>0, ContinueStands
<1>v. Vouched(index, Flagged) /\ Vouched(saved, Flagged) /\ UserOK(r, index, saved, Flagged)
  BY DEF FlagInv
<1>s. Flagged' = Flagged
  BY <1>0 DEF Flagged
<1>x. index \in Closed
  BY DEF IInv, IndexInv
<1>f. ASSUME Vouched(index', Flagged),
             s.kind \in WriteKinds => UserOK(s, index', saved, Flagged)
      PROVE  FlagInv'
  <2>1. vaultLoaded' /\ \A k \in Jobs \ {j} : job'[k].kind \in {"none", "open"}
    BY <1>0, UserAlone DEF OthersStay
  <2>2. s.kind \in WriteKinds \cup {"none"}
    BY <1>1
  <2> QED
    BY <1>0, <1>f, <1>s, <1>v, <2>1, <2>2, FlagsOfUser
<1>i. ASSUME s = Idle, Vouched(index', Flagged)
      PROVE  FlagInv'
  BY <1>i, <1>f, IdleFields DEF WriteKinds
<1>c. ASSUME NEW new, Commits(r, s, new), r.kind # "trash", Vouched(new, Flagged)
      PROVE  FlagInv'
  <2>1. /\ s.kind = r.kind /\ s.at = "index" /\ s.body = new /\ s.prev = index
        /\ s.reply # "ok" /\ index' = new
    BY <1>c DEF Commits, Keeps
  <2>2. UserOK(s, index', saved, Flagged)
    BY <1>c, <1>v, <2>1 DEF UserOK
  <2> QED
    BY <1>c, <1>f, <2>1, <2>2
<1>2. CASE s = Idle /\ index' = index
  BY <1>2, <1>i, <1>v
<1>3. CASE /\ r.at = "encrypt" /\ s.at \in {"create", "update"} /\ s.reply = "none"
           /\ index' = index
  <2>1. UserOK(s, index', saved, Flagged)
    BY <1>3 DEF UserOK
  <2> QED
    BY <1>3, <1>f, <1>v, <2>1
<1>4. CASE /\ r.at = "create" /\ r.reply = "ok" /\ r.note \in Notes
           /\ Commits(r, s, addNote(index, r.note, FALSE))
  <2>1. r.kind = "save" /\ r.note \notin Flagged
    BY <1>0, <1>4, <1>v DEF Stands, WriteKinds, UserOK
  <2>2. ActiveIn(addNote(index, r.note, FALSE)) = ActiveIn(index) \cup {r.note}
    BY <1>4, <1>x, PartsOfAdded
  <2>3. Vouched(addNote(index, r.note, FALSE), Flagged)
    BY <1>v, <2>1, <2>2 DEF Vouched
  <2> QED
    BY <1>4, <1>c, <2>1, <2>3
<1>5. CASE r.at = "update" /\ Commits(r, s, index)
  BY <1>0, <1>5, <1>c, <1>v DEF Stands
<1>6. CASE r.at = "delete" /\ Commits(r, s, removeNote(index, r.note))
  <2>1. Vouched(removeNote(index, r.note), Flagged)
    BY <1>v, <1>x, PartsOfRemoved DEF Vouched
  <2> QED
    BY <1>0, <1>6, <1>c, <2>1 DEF Stands
<1>7. CASE /\ r.at = "flag" /\ r.kind = "restore" /\ r.reply = "ok"
           /\ Commits(r, s, restoreNote(index, r.note))
  <2>1. r.note \notin Flagged
    BY <1>7, <1>v DEF UserOK
  <2>2. ActiveIn(restoreNote(index, r.note)) \subseteq ActiveIn(index) \cup {r.note}
    BY <1>x, PartsOfRestored
  <2>3. Vouched(restoreNote(index, r.note), Flagged)
    BY <1>v, <2>1, <2>2 DEF Vouched
  <2> QED
    BY <1>7, <1>c, <2>3
<1>8. CASE /\ r.at = "index"
           /\ index' = (IF r.reply = "ok" THEN index ELSE r.prev)
           /\ \/ s = Idle
              \/ /\ r.kind = "trash" /\ r.reply = "ok"
                 /\ Keeps(r, s, {"at", "flag"}) /\ s.at = "flag" /\ s.flag = TRUE
  <2>1. Vouched(index', Flagged)
    BY <1>8, <1>v DEF UserOK
  <2>2. CASE s = Idle
    BY <1>i, <2>1, <2>2
  <2>3. CASE /\ r.kind = "trash" /\ r.reply = "ok"
             /\ Keeps(r, s, {"at", "flag"}) /\ s.at = "flag" /\ s.flag = TRUE
    <3>1. /\ index = r.body /\ saved = r.body /\ r.ids \cap ActiveIn(r.body) = {}
          /\ index' = index
      BY <1>8, <1>v, <2>3 DEF UserOK
    <3>2. s.kind = "trash" /\ s.ids = r.ids
      BY <2>3 DEF Keeps
    <3>3. UserOK(s, index', saved, Flagged)
      BY <2>3, <3>1, <3>2 DEF UserOK
    <3> QED
      BY <1>f, <2>1, <3>3
  <2> QED
    BY <1>8, <2>2, <2>3
<1>9. r.kind # "load"
  BY DEF WriteKinds
<1> QED
  BY <1>0, <1>2, <1>3, <1>4, <1>5, <1>6, <1>7, <1>8, <1>9 DEF ContinueStep

\* Where the jobs stay, but for what steers them and for the notes being opened, and rows
\* only go.
LEMMA FlagsTouched ==
    ASSUME FlagInv, Flagged' \subseteq Flagged,
           Settles(DOMAIN rows, Flagged, Pending, DOMAIN rows', Flagged', Pending'),
           UNCHANGED <<saved, index, vaultLoaded>>,
           \A k \in Jobs : \/ Keeps(job[k], job'[k], {}) /\ job'[k].reply = job[k].reply
                           \/ {job[k].kind, job'[k].kind} \subseteq {"none", "open"}
    PROVE  FlagInv'
<1>0. \A k \in Jobs : job'[k].kind \in WriteKinds \cup {"init", "load"} =>
          Keeps(job[k], job'[k], {}) /\ job'[k].reply = job[k].reply
  BY DEF WriteKinds
<1>1. Vouched(index', Flagged') /\ Vouched(saved', Flagged')
  BY DEF FlagInv, Vouched
<1>2. ASSUME NEW k \in Jobs, job'[k].kind \in WriteKinds
      PROVE  UserOK(job'[k], index', saved', Flagged')
  <2> DEFINE r == job[k]
             s == job'[k]
  <2>1. /\ s.kind = r.kind /\ s.at = r.at /\ s.reply = r.reply /\ s.note = r.note
        /\ s.ids = r.ids /\ s.flag = r.flag /\ s.body = r.body /\ s.prev = r.prev
    BY <1>0, <1>2 DEF Keeps
  <2>2. UserOK(r, index, saved, Flagged)
    BY <1>2, <2>1 DEF FlagInv
  <2>3. Vouched(r.prev, Flagged) => Vouched(r.prev, Flagged')
    BY DEF Vouched
  <2> HIDE DEF r, s
  <2>4. UserOK(s, index, saved, Flagged')
    BY <2>1, <2>2, <2>3 DEF UserOK
  <2> QED
    BY <2>4 DEF s
<1>3. ASSUME Loading'
      PROVE  /\ Faithful(index', DOMAIN rows', Flagged', Pending')
             /\ \A k \in Jobs : job'[k].kind = "load" =>
                    LoadOK(job'[k], index', DOMAIN rows', Flagged', Pending')
  <2>1. Loading
    BY <1>0, <1>3 DEF Loading, Keeps
  <2>2. Faithful(index, DOMAIN rows, Flagged, Pending)
    BY <2>1 DEF FlagInv
  <2>3. Faithful(index', DOMAIN rows', Flagged', Pending')
    BY <1>1, <2>2 DEF Faithful, Settles
  <2>4. Whole(index, DOMAIN rows, Flagged, Pending)
            => Whole(index', DOMAIN rows', Flagged', Pending')
    BY WholeStays
  <2>5. ASSUME NEW k \in Jobs, job'[k].kind = "load"
        PROVE  LoadOK(job'[k], index', DOMAIN rows', Flagged', Pending')
    <3>1. job[k].kind = "load" /\ Keeps(job[k], job'[k], {}) /\ job'[k].reply = job[k].reply
      BY <1>0, <2>5 DEF Keeps
    <3>2. LoadOK(job[k], index, DOMAIN rows, Flagged, Pending)
      BY <2>1, <3>1 DEF FlagInv
    <3> QED
      BY <2>4, <3>1, <3>2, LoadStays
  <2> QED
    BY <2>3, <2>5
<1> QED
  BY <1>1, <1>2, <1>3 DEF FlagInv

\* A note being opened is none of it.
LEMMA FlagsOpening ==
    ASSUME FlagInv, NEW j \in Jobs, OthersStay(j),
           {job[j].kind, job'[j].kind} \subseteq {"none", "open"},
           UNCHANGED <<rows, saved, index, vaultLoaded>>
    PROVE  FlagInv'
<1>1. \A k \in Jobs \ {j} : Keeps(job[k], job'[k], {}) /\ job'[k].reply = job[k].reply
  BY DEF Keeps, OthersStay
<1>2. /\ Flagged' = Flagged
      /\ Settles(DOMAIN rows, Flagged, Pending, DOMAIN rows', Flagged', Pending')
  BY RowsStay
<1> QED
  BY <1>1, <1>2, FlagsTouched

\* Every step keeps to it, until writes have crossed.
LEMMA FlagsKept ==
    ASSUME Waited', IInv, PhaseInv, FlagInv, [Next]_vars
    PROVE  FlagInv'
<1>1. ASSUME NEW j \in Jobs, Serve(j) PROVE FlagInv'
  <2>0. Stands(job[j])
    BY DEF PhaseInv
  <2>1. job[j].kind \in WriteKinds \cup {"load", "open"}
    <3>1. Stands(job[j]) /\ Served(job[j], job'[j])
      BY <1>1, ServeEffect DEF PhaseInv
    <3>2. job[j].kind \notin {"none", "init"}
      BY <3>1, ServedStands
    <3> QED
      BY <3>1, <3>2 DEF Stands, WriteKinds
  <2>2. job[j].kind = "open" => FlagInv'
    BY <1>1, <2>0, OpenLeaves, FlagsOpening
  <2> QED
    BY <1>1, <2>1, <2>2, FlagsServedLoad, FlagsServedUser
<1>2. ASSUME NEW j \in Jobs, Load(j) PROVE FlagInv'
  BY <1>2, FlagsLoaded
<1>3. ASSUME NEW j \in Jobs, Continue(j) PROVE FlagInv'
  <2>0. Stands(job[j])
    BY DEF PhaseInv
  <2>1. job[j].kind \in WriteKinds \cup {"load", "open"}
    <3>1. Stands(job[j]) /\ ContinueStep(job[j], job'[j])
      BY <1>3, ContinueEffect DEF PhaseInv
    <3>2. job[j].kind \notin {"none", "init"}
      BY <3>1, ContinueStands
    <3> QED
      BY <3>1, <3>2 DEF Stands, WriteKinds
  <2>2. job[j].kind = "open" => FlagInv'
    BY <1>3, <2>0, OpenLeaves, FlagsOpening
  <2> QED
    BY <1>3, <2>1, <2>2, FlagsContinuedLoad, FlagsContinuedUser
<1>4. ASSUME NEW j \in Jobs, User(j) PROVE FlagInv'
  <2>1. Stands(job[j])
    BY DEF PhaseInv
  <2>2. job'[j].kind = "open" => FlagInv'
    BY <1>4, <2>1, OpenLeaves, FlagsOpening
  <2> QED
    BY <1>4, <2>2, FlagsStarted
<1>k. \A k \in Jobs : Keeps(job[k], job[k], {})
  BY DEF Keeps
<1>5. CASE UNCHANGED <<rows, saved, index, vaultLoaded, job>>
  BY <1>5, <1>k, RowsStay, FlagsTouched
<1>6. CASE onLock
  <2>1. UNCHANGED <<rows, saved, index, vaultLoaded>>
    BY <1>6 DEF onLock, serverVars, treeVars
  <2> QED
    BY <1>6, <2>1, TouchedEffect, RowsStay, FlagsTouched
<1>7. CASE onUnlock
  <2>0. UNCHANGED <<rows, saved, index, vaultLoaded>>
    BY <1>7 DEF onUnlock, serverVars, treeVars
  <2>1. CASE UNCHANGED job
    BY <1>5, <2>0, <2>1
  <2>2. ASSUME NEW j \in Jobs, ~vaultLoaded, loadVault(j)
        PROVE  FlagInv'
    <3>1. /\ OthersStay(j)
          /\ job'[j].kind = "load" /\ job'[j].at = "getIndex" /\ job'[j].reply = "none"
      BY <2>2, LoadBegun
    <3>2. Loading
      BY <2>2 DEF Loading
    <3>3. \A k \in Jobs : job'[k].kind \notin WriteKinds
      BY <2>2, <3>1 DEF PhaseInv, OthersStay, WriteKinds
    <3>4. LoadOK(job'[j], index', DOMAIN rows', Flagged', Pending')
      BY <3>1 DEF LoadOK
    <3>5. \A k \in Jobs \ {j} : Keeps(job[k], job'[k], {}) /\ job'[k].reply = job[k].reply
      BY <3>1 DEF OthersStay, Keeps
    <3>6. /\ Flagged' = Flagged /\ Pending' = Pending /\ DOMAIN rows' = DOMAIN rows
          /\ Settles(DOMAIN rows, Flagged, Pending, DOMAIN rows', Flagged', Pending')
      BY <2>0, RowsStay
    <3>7. /\ Vouched(saved, Flagged) /\ Faithful(index, DOMAIN rows, Flagged, Pending)
      BY <3>2 DEF FlagInv
    <3> QED
      BY <2>0, <3>2, <3>3, <3>4, <3>5, <3>6, <3>7, FlagsWhileLoading
  <2> QED
    BY <1>7, <2>1, <2>2 DEF onUnlock
<1>8. CASE Reload
  <2>1. rows' = rows /\ saved' = saved /\ index' = createEmpty
    BY <1>8 DEF Reload, serverVars
  <2>2. \A k \in Jobs : job'[k].kind \in {"init", "none"}
    BY <1>8, ReloadEffect
  <2>3. Vouched(index', Flagged') /\ Faithful(index', DOMAIN rows', Flagged', Pending')
    BY <2>1, PartsOfEmpty DEF Vouched, Faithful
  <2>4. Vouched(saved', Flagged')
    BY <2>1, RowsStay DEF FlagInv
  <2> QED
    BY <2>2, <2>3, <2>4 DEF FlagInv, WriteKinds
<1>9. CASE SweepDelete
  <2>1. rows' = Restrict(rows, DOMAIN rows \ picked) /\ UNCHANGED <<saved, index, vaultLoaded>>
    BY <1>9 DEF SweepDelete, treeVars
  <2> QED
    BY <1>9, <2>1, TouchedEffect, RowsGo, FlagsTouched
<1>10. CASE Type \/ NewNote \/ SweepSelect \/ UNCHANGED vars
  BY <1>5, <1>10 DEF Type, NewNote, SweepSelect, serverVars, treeVars, vars
<1> QED
  BY <1>1, <1>2, <1>3, <1>4, <1>6, <1>7, <1>8, <1>9, <1>10 DEF Next

\* It holds of a page that has just been opened over an empty vault.
LEMMA InitFlags == ASSUME Init PROVE FlagInv
<1> USE DEF Init, Opened
<1>1. \A k \in Jobs : job[k].kind \in {"init", "none"}
  BY CallEffect, IdleFields
<1>2. Vouched(index, Flagged) /\ Faithful(index, DOMAIN rows, Flagged, Pending)
  BY PartsOfEmpty DEF Vouched, Faithful
<1>3. Vouched(saved, Flagged)
  BY DEF Vouched, ActiveIn
<1> QED
  BY <1>1, <1>2, <1>3 DEF FlagInv, WriteKinds

\* ... and so does what is alone.
LEMMA InitPhase == ASSUME Init PROVE PhaseInv
<1>1. PICK j \in Jobs : /\ job[j].kind = "init" /\ job[j].at = "session"
                        /\ \A k \in Jobs \ {j} : job[k].kind = "none" /\ job[k].at = "idle"
  BY InitJobs
<1>2. ~vaultLoaded /\ masterKey = "none"
  BY DEF Init, Opened
<1> QED
  BY <1>1, <1>2 DEF PhaseInv, Stands, Alone, WriteKinds

\* A note the saved index shows as active has no deletion flag on its row, so that no
\* sweep takes a note the user can see (moveNoteToTrash, restoreTrashedNote,
\* trashFlagDrift), until two changes have crossed, or one the load: whatever is refused
\* or lost, locked, reloaded or swept in between, whatever is typed or opened meanwhile,
\* and however many loads repair the flags at once.
THEOREM VaultActiveNeverFlagged == Spec => []ActiveNeverFlagged
<1> DEFINE FInv == IInv /\ (Waited => PhaseInv /\ FlagInv)
<1>1. Init => FInv
  BY InitIInv, InitPhase, InitFlags
<1>2. FInv /\ [Next]_vars => FInv'
  <2> SUFFICES ASSUME FInv, [Next]_vars, Waited' PROVE PhaseInv' /\ FlagInv'
    BY StepIInv
  <2> QED
    BY WaitedBefore, PhaseKept, FlagsKept
<1>3. FInv => ActiveNeverFlagged
  <2> SUFFICES ASSUME FlagInv, saved \notin {Unset, Unreadable},
                      NEW n \in DOMAIN saved.notes \cap DOMAIN rows, ~saved.notes[n].trashed
               PROVE  ~rows[n].trashed_at
    BY DEF ActiveNeverFlagged, Waited
  <2>1. n \in ActiveIn(saved)
    BY DEF ActiveIn
  <2> QED
    BY <2>1 DEF FlagInv, Vouched, Flagged
<1> HIDE DEF FInv
<1> QED
  BY <1>1, <1>2, <1>3, PTL DEF Spec

-----------------------------------------------------------------------------
(* An index that cannot be read. *)

\* Only a readable index is on its way to the server; while the one there is not, no
\* load comes further than to be told of it.
UnreadableInv ==
    /\ \A j \in Jobs : job[j].at \in {"index", "persist"} => job[j].body # Unreadable
    /\ saved = Unreadable =>
        /\ ~vaultLoaded
        /\ \A j \in Jobs : job[j].kind = "load" =>
               job[j].at = "getIndex" /\ (job[j].reply = "ok" => job[j].body = Unreadable)

\* What writes was begun after a load: so it is until a write comes before one.
LoadedFirst == \A j \in Jobs : job[j].kind \in WriteKinds => vaultLoaded

\* No index the tab holds is unreadable.
LEMMA ReadableHere == ASSUME IInv PROVE index # Unreadable
BY VaultAssumption DEF IInv, IndexInv, Closed

\* Of the requests, only one that saves the index changes it, and not into that.
LEMMA UnreadableServed ==
    ASSUME IInv, StandsInv, LoadedFirst, UnreadableInv, NEW j \in Jobs, Serve(j),
           job[j].kind # "open"
    PROVE  UnreadableInv' /\ (saved = Unreadable => saved' = Unreadable)
<1> DEFINE r == job[j]
           s == job'[j]
<1>0. OthersStay(j) /\ Served(r, s) /\ Stands(r) /\ vaultLoaded' = vaultLoaded
  BY ServeEffect DEF StandsInv, Serve
<1>1. s.kind = r.kind /\ (r.kind \in WriteKinds => vaultLoaded)
  BY <1>0, ServedStands DEF LoadedFirst
<1>2. s.at \in {"index", "persist"} => s.at = r.at /\ s.body = r.body
  BY <1>0 DEF Served, Keeps, Refused, IndexSaved, RowCreated, RowRead, RowWritten, RowDeleted,
              RowsFlagged, Got
<1>3. saved' = saved \/ IndexSaved(r, s)
  BY <1>0 DEF Served, Refused, RowCreated, RowRead, RowWritten, RowDeleted, RowsFlagged, Got
<1>4. IndexSaved(r, s) => saved' # Unreadable
  BY DEF IndexSaved, UnreadableInv
<1>5. ASSUME saved = Unreadable
      PROVE  /\ saved' = saved
             /\ s.kind = "load" => s.at = "getIndex" /\ (s.reply = "ok" => s.body = Unreadable)
  <2>1. r.kind = "load" /\ r.at = "getIndex"
    <3>1. r.kind \notin {"none", "init"} /\ r.kind \notin WriteKinds
      BY <1>0, <1>1, <1>5, ServedStands DEF UnreadableInv
    <3>2. r.kind = "load"
      BY <1>0, <3>1 DEF Stands, WriteKinds
    <3> QED
      BY <1>5, <3>2 DEF UnreadableInv
  <2>2. Refused(r, s) \/ Got(r, s)
    BY <1>0, <2>1 DEF Served, IndexSaved, RowCreated, RowRead, RowWritten, RowDeleted, RowsFlagged
  <2>3. CASE Refused(r, s)
    BY <2>1, <2>3 DEF Refused, Keeps
  <2>4. CASE Got(r, s)
    BY <1>5, <2>1, <2>4 DEF Got, Keeps
  <2> QED
    BY <2>2, <2>3, <2>4
<1> QED
  BY <1>0, <1>2, <1>3, <1>4, <1>5 DEF UnreadableInv, OthersStay

\* A job that goes on or ends, a note that is opened, and a load begun.
LEMMA LoadedGoesOn ==
    ASSUME LoadedFirst, NEW j \in Jobs, OthersStay(j), vaultLoaded => vaultLoaded',
           job'[j].kind \in {job[j].kind, "none", "open", "load"} \/ vaultLoaded'
    PROVE  LoadedFirst'
BY DEF LoadedFirst, OthersStay, WriteKinds

\* A note being opened is none of it.
LEMMA UnreadableOpening ==
    ASSUME UnreadableInv, StandsInv, StandsInv', NEW j \in Jobs, OthersStay(j),
           {job[j].kind, job'[j].kind} \subseteq {"none", "open"},
           UNCHANGED <<saved, vaultLoaded>>
    PROVE  UnreadableInv'
<1>1. job'[j].at \in {"idle", "open"} /\ job'[j].kind # "load"
  BY DEF StandsInv, Stands
<1> QED
  BY <1>1 DEF UnreadableInv, OthersStay

\* Where the jobs stay, but for what steers them.
LEMMA UnreadableTouched ==
    ASSUME UnreadableInv, saved' = saved, vaultLoaded' = vaultLoaded,
           \A k \in Jobs : Keeps(job[k], job'[k], {}) /\ job'[k].reply = job[k].reply
    PROVE  UnreadableInv'
BY DEF UnreadableInv, Keeps

\* Every step keeps to both, until a write is begun before the load is through.
LEMMA LoadedStep ==
    ASSUME "early" \notin crossed', IInv, StandsInv, LoadedFirst, [Next]_vars
    PROVE  LoadedFirst'
<1>1. ASSUME NEW j \in Jobs, Serve(j) PROVE LoadedFirst'
  <2>1. OthersStay(j) /\ job'[j].kind = job[j].kind /\ vaultLoaded' = vaultLoaded
    BY <1>1, ServeEffect, ServedStands DEF StandsInv, Serve
  <2> QED
    BY <2>1, LoadedGoesOn
<1>2. ASSUME NEW j \in Jobs, Load(j) PROVE LoadedFirst'
  <2>1. OthersStay(j) /\ job'[j].kind \in {"load", "none"} /\ (vaultLoaded => vaultLoaded')
    BY <1>2, LoadEffect, LoadStands DEF StandsInv
  <2> QED
    BY <2>1, LoadedGoesOn
<1>3. ASSUME NEW j \in Jobs, Continue(j) PROVE LoadedFirst'
  <2>1. OthersStay(j) /\ job'[j].kind \in {job[j].kind, "none"} /\ vaultLoaded' = vaultLoaded
    BY <1>3, ContinueEffect, ContinueStands DEF StandsInv
  <2> QED
    BY <2>1, LoadedGoesOn
<1>4. ASSUME NEW j \in Jobs, User(j) PROVE LoadedFirst'
  <2>1. /\ OthersStay(j) /\ vaultLoaded' = vaultLoaded
        /\ job'[j].kind # "open" => Written(j) \subseteq crossed'
    BY <1>4, UserEffect
  <2>2. job'[j].kind = "open" \/ vaultLoaded
    BY <2>1 DEF Written
  <2> QED
    BY <2>1, <2>2, LoadedGoesOn
<1>5. CASE UNCHANGED <<vaultLoaded, job>>
  BY <1>5 DEF LoadedFirst
<1>6. CASE onLock \/ SweepDelete
  <2>1. vaultLoaded' = vaultLoaded /\ \A k \in Jobs : job'[k].kind = job[k].kind
    BY <1>6, TouchedEffect DEF onLock, SweepDelete, Keeps
  <2> QED
    BY <2>1 DEF LoadedFirst
<1>7. CASE onUnlock
  <2>1. vaultLoaded' = vaultLoaded
    BY <1>7 DEF onUnlock
  <2>2. ASSUME NEW j \in Jobs, loadVault(j) PROVE LoadedFirst'
    BY <2>1, <2>2, LoadBegun, LoadedGoesOn
  <2> QED
    BY <1>5, <1>7, <2>1, <2>2 DEF onUnlock
<1>8. CASE Reload
  BY <1>8, ReloadEffect DEF LoadedFirst, WriteKinds
<1>9. CASE Type \/ NewNote \/ SweepSelect \/ UNCHANGED vars
  BY <1>5, <1>9 DEF Type, NewNote, SweepSelect, vars
<1> QED
  BY <1>1, <1>2, <1>3, <1>4, <1>6, <1>7, <1>8, <1>9 DEF Next

\* ... no load comes further than to be told, and nothing is written over that index.
LEMMA UnreadableStep ==
    ASSUME "early" \notin crossed', IInv, StandsInv, StandsInv', LoadedFirst, UnreadableInv,
           [Next]_vars
    PROVE  UnreadableInv' /\ (saved = Unreadable => saved' = Unreadable)
<1>i. index' # Unreadable
  <2>1. IInv'
    BY StepIInv
  <2> QED
    BY <2>1, VaultAssumption DEF IInv, IndexInv, Closed
<1>k. \A k \in Jobs : Keeps(job[k], job[k], {})
  BY DEF Keeps
<1>1. ASSUME NEW j \in Jobs, Serve(j)
      PROVE  UnreadableInv' /\ (saved = Unreadable => saved' = Unreadable)
  <2>1. CASE job[j].kind = "open"
    BY <1>1, <2>1, OpenLeaves, UnreadableOpening DEF StandsInv
  <2> QED
    BY <1>1, <2>1, UnreadableServed
<1>2. ASSUME NEW j \in Jobs, Load(j)
      PROVE  UnreadableInv' /\ saved' = saved
  <2> DEFINE r == job[j]
             s == job'[j]
  <2>1. OthersStay(j) /\ LoadStep(r, s) /\ Stands(r) /\ saved' = saved
    BY <1>2, LoadEffect, LoadLeaves DEF StandsInv
  <2>2. s.at \in {"index", "persist"} => s.body # Unreadable
    <3>1. s.at \in {"index", "persist"} => s.body = index
      BY <2>1, IdleFields DEF LoadStep
    <3> QED
      BY <3>1, ReadableHere
  <2>3. ASSUME saved = Unreadable
        PROVE  /\ ~vaultLoaded'
               /\ s.kind = "load" => s.at = "getIndex" /\ (s.reply = "ok" => s.body = Unreadable)
    <3>1. r.at \in {"session", "getIndex"} /\ ~(r.at = "getIndex" /\ r.reply = "ok" /\ r.body # Unreadable)
      <4>1. r.kind \in {"init", "load"}
        BY <2>1, LoadStands
      <4> QED
        BY <2>1, <2>3, <4>1 DEF Stands, UnreadableInv
    <3>2. s = Idle \/ (s.at = "getIndex" /\ s.reply = "none")
      BY <2>1, <3>1 DEF LoadStep
    <3>3. vaultLoaded' = vaultLoaded
      BY <2>1, <3>1 DEF LoadStep
    <3> QED
      BY <2>3, <3>2, <3>3, IdleFields DEF UnreadableInv
  <2> QED
    BY <2>1, <2>2, <2>3 DEF UnreadableInv, OthersStay
<1>3. ASSUME NEW j \in Jobs, Continue(j)
      PROVE  UnreadableInv' /\ saved' = saved
  <2> DEFINE r == job[j]
             s == job'[j]
  <2>1. /\ OthersStay(j) /\ ContinueStep(r, s) /\ Stands(r)
        /\ saved' = saved /\ vaultLoaded' = vaultLoaded
    BY <1>3, ContinueEffect DEF StandsInv
  <2>o. CASE r.kind = "open"
    BY <1>3, <2>1, <2>o, OpenLeaves, UnreadableOpening
  <2>2. s.at = "index" => s.body = index'
    BY <2>1, IdleFields DEF ContinueStep, Commits, Keeps
  <2>3. s.at # "persist"
    BY <2>1, ContinueStands, IdleFields DEF ContinueStep, Commits, Keeps, Stands
  <2>4. r.kind # "open" => saved # Unreadable
    <3>1. r.kind \notin {"none", "init"}
      BY <2>1, ContinueStands
    <3>2. r.kind = "load" => r.at # "getIndex"
      BY <2>1 DEF ContinueStep
    <3>3. r.kind \in WriteKinds => vaultLoaded
      BY DEF LoadedFirst
    <3> QED
      BY <2>1, <3>1, <3>2, <3>3 DEF Stands, WriteKinds, UnreadableInv
  <2> QED
    BY <1>i, <2>1, <2>2, <2>3, <2>4, <2>o DEF UnreadableInv, OthersStay
<1>4. ASSUME NEW j \in Jobs, User(j)
      PROVE  UnreadableInv' /\ saved' = saved
  <2>1. /\ OthersStay(j) /\ UserStep(job'[j]) /\ UNCHANGED <<saved, vaultLoaded>>
        /\ job'[j].kind # "open" => Written(j) \subseteq crossed'
    BY <1>4, UserEffect
  <2>o. CASE job'[j].kind = "open"
    BY <1>4, <2>1, <2>o, OpenLeaves, UnreadableOpening DEF StandsInv
  <2>2. job'[j].at # "persist" /\ (job'[j].at = "index" => job'[j].body = index')
    BY <2>1 DEF UserStep
  <2>3. CASE job'[j].kind # "open"
    <3>1. vaultLoaded
      BY <2>1, <2>3 DEF Written
    <3> QED
      BY <1>i, <2>1, <2>2, <3>1 DEF UnreadableInv, OthersStay
  <2> QED
    BY <2>1, <2>3, <2>o
<1>5. CASE UNCHANGED <<saved, vaultLoaded, job>>
  BY <1>5, <1>k, UnreadableTouched
<1>6. CASE onLock \/ SweepDelete
  <2>1. UNCHANGED <<saved, vaultLoaded>>
    BY <1>6 DEF onLock, SweepDelete, serverVars
  <2> QED
    BY <1>6, <2>1, TouchedEffect, UnreadableTouched
<1>7. CASE onUnlock
  <2>0. UNCHANGED <<saved, vaultLoaded>>
    BY <1>7 DEF onUnlock, serverVars
  <2>1. CASE UNCHANGED job
    BY <1>5, <2>0, <2>1
  <2>2. ASSUME NEW j \in Jobs, loadVault(j)
        PROVE  UnreadableInv' /\ saved' = saved
    <3>1. /\ OthersStay(j)
          /\ job'[j].kind = "load" /\ job'[j].at = "getIndex" /\ job'[j].reply = "none"
      BY <2>2, LoadBegun
    <3> QED
      BY <2>0, <3>1 DEF UnreadableInv, OthersStay
  <2> QED
    BY <1>7, <2>1, <2>2 DEF onUnlock
<1>8. CASE Reload
  <2>1. saved' = saved /\ ~vaultLoaded'
    BY <1>8 DEF Reload, serverVars
  <2>2. \A k \in Jobs : job'[k].kind # "load" /\ job'[k].at \notin {"index", "persist"}
    BY <1>8, ReloadEffect
  <2> QED
    BY <2>1, <2>2 DEF UnreadableInv
<1>9. CASE Type \/ NewNote \/ SweepSelect \/ UNCHANGED vars
  BY <1>5, <1>9 DEF Type, NewNote, SweepSelect, serverVars, vars
<1> QED
  BY <1>1, <1>2, <1>3, <1>4, <1>6, <1>7, <1>8, <1>9 DEF Next

\* A page that has just been opened writes nothing, and has loaded nothing.
LEMMA InitUnreadable == ASSUME Init PROVE LoadedFirst /\ UnreadableInv
<1>1. \A k \in Jobs : job[k].kind \in {"init", "none"} /\ job[k].at \in {"session", "idle"}
  BY InitJobs
<1> QED
  BY <1>1 DEF Init, Opened, LoadedFirst, UnreadableInv, WriteKinds

\* UnreadableKept, for a user who changes nothing before the load is through.
UnreadableKeptFromEarly ==
    [][saved = Unreadable /\ "early" \notin crossed' => saved' = Unreadable]_saved

\* What writes over an index this build cannot read is always a change the user has begun
\* before a load was through: without one, no step of the page does, whatever is refused or
\* lost, locked or reloaded, and however changes cross (loadVault, disableVault).
THEOREM VaultUnreadableKept == Spec => UnreadableKeptFromEarly
<1> DEFINE UInv == /\ IInv /\ BufferInv
                   /\ "early" \notin crossed => LoadedFirst /\ UnreadableInv
<1>1. Init => UInv
  BY InitIInv, InitBuffer, InitUnreadable
<1>2. ASSUME UInv, [Next]_vars
      PROVE  /\ UInv'
             /\ saved = Unreadable /\ "early" \notin crossed' => saved' = Unreadable
  <2>1. IInv' /\ BufferInv' /\ crossed \subseteq crossed'
    BY <1>2, StepIInv, BufferKept, CrossedGrows
  <2>2. StandsInv /\ StandsInv'
    BY <1>2, <2>1 DEF BufferInv, SaveInv
  <2>3. ASSUME "early" \notin crossed'
        PROVE  /\ LoadedFirst' /\ UnreadableInv'
               /\ saved = Unreadable => saved' = Unreadable
    BY <1>2, <2>1, <2>2, <2>3, LoadedStep, UnreadableStep
  <2> QED
    BY <2>1, <2>3
<1>3. UInv /\ [Next]_vars
          => [saved = Unreadable /\ "early" \notin crossed' => saved' = Unreadable]_saved
  BY <1>2
<1>4. UInv /\ [Next]_vars => UInv'
  BY <1>2
<1> HIDE DEF UInv
<1> QED
  BY <1>1, <1>3, <1>4, PTL DEF Spec, UnreadableKeptFromEarly

-----------------------------------------------------------------------------
(* A load that nothing disturbs: first what steers it, step by step. *)

\* s goes on as r did: it is calm only if r was.
GoesOn(r, s) == s.sameKey = r.sameKey /\ s.changed = r.changed /\ (s.calm => r.calm)

\* A request answered steers nothing, and only an answer that arrives leaves a job calm.
LEMMA ServeSteers ==
    ASSUME IInv, NEW j \in Jobs, Serve(j), job[j].kind = "load"
    PROVE  GoesOn(job[j], job'[j]) /\ (job'[j].calm => job'[j].reply # "no" /\ job'[j].reply # "gone")
<1> DEFINE r == job[j]
           Good(s) == GoesOn(r, s) /\ (s.calm => s.reply # "no" /\ s.reply # "gone")
<1>r. r \in GoodFields
  BY JobFields
<1>ans. ASSUME NEW q \in GoodFields, Answer(j, q), GoesOn(r, q)
        PROVE  Good(job'[j])
  <2>1. PICK reply \in {"ok", "no"} :
            Put(j, [q EXCEPT !.reply = reply, !.calm = q.calm /\ reply = "ok"])
    BY <1>ans DEF Answer
  <2> DEFINE s == [q EXCEPT !.reply = reply, !.calm = q.calm /\ reply = "ok"]
  <2>2. /\ s.sameKey = q.sameKey /\ s.changed = q.changed
        /\ s.calm = (q.calm /\ reply = "ok") /\ s.reply = reply
    BY DEF GoodFields
  <2> HIDE DEF s
  <2>3. job'[j] = s
    BY <2>1, PutEffect DEF s
  <2> QED
    BY <1>ans, <2>2, <2>3 DEF GoesOn
<1>no. ASSUME NEW reply, Put(j, [r EXCEPT !.reply = reply, !.calm = FALSE])
       PROVE  Good(job'[j])
  <2> DEFINE s == [r EXCEPT !.reply = reply, !.calm = FALSE]
  <2>1. s.sameKey = r.sameKey /\ s.changed = r.changed /\ s.calm = FALSE
    BY <1>r DEF GoodFields
  <2>2. Put(j, s)
    BY <1>no
  <2> HIDE DEF s
  <2>3. job'[j] = s
    BY <2>2, PutEffect
  <2> QED
    BY <2>1, <2>3 DEF GoesOn
<1>deny. Deny(j) => Good(job'[j])
  BY <1>no DEF Deny
<1>self. GoesOn(r, r)
  BY DEF GoesOn
<1>1. CASE Refuse(j)
  BY <1>1, <1>no DEF Refuse
<1>2. CASE ServeIndex(j) \/ delete_vault_note(j) \/ set_vault_notes_trashed(j)
  <2>1. Answer(j, r)
    BY <1>2 DEF ServeIndex, delete_vault_note, set_vault_notes_trashed
  <2> QED
    BY <1>r, <1>ans, <1>self, <2>1
<1>3. CASE create_vault_note(j) /\ ~Deny(j)
  <2>1. PICK n \in Notes, text \in Text :
            Answer(j, [r EXCEPT !.note = n, !.text = text])
    <3>1. PICK n \in Notes : Answer(j, [r EXCEPT !.note = n,
              !.text = [own |-> IF r.text.own = Nil THEN n ELSE r.text.own, ver |-> r.text.ver]])
      BY <1>3 DEF create_vault_note
    <3>2. [own |-> IF r.text.own = Nil THEN n ELSE r.text.own, ver |-> r.text.ver] \in Text
      BY <1>r DEF GoodFields, Text
    <3> QED
      BY <3>1, <3>2
  <2> DEFINE q == [r EXCEPT !.note = n, !.text = text]
  <2>2. q \in GoodFields /\ GoesOn(r, q)
    BY <1>r, <2>1 DEF GoodFields, GoesOn
  <2>3. Answer(j, q)
    BY <2>1
  <2> HIDE DEF q
  <2> QED
    BY <1>ans, <2>2, <2>3
<1>4. CASE update_vault_note_get(j) /\ ~Deny(j)
  <2> DEFINE s == [r EXCEPT !.at = "updating", !.flag = rows[r.note].trashed_at]
  <2>1. Put(j, s) /\ r.reply = "none"
    BY <1>4 DEF update_vault_note_get, MayAnswer
  <2>2. GoesOn(r, s) /\ s.reply = r.reply
    BY <1>r DEF GoodFields, GoesOn
  <2> HIDE DEF s
  <2>3. job'[j] = s
    BY <2>1, PutEffect
  <2> QED
    BY <2>1, <2>2, <2>3
<1>5. CASE update_vault_note_save(j)
  <2> DEFINE q == [r EXCEPT !.at = "update"]
  <2>1. q \in GoodFields /\ GoesOn(r, q)
    BY <1>r DEF GoodFields, GoesOn, Posts
  <2>2. Answer(j, q)
    BY <1>5 DEF update_vault_note_save
  <2> HIDE DEF q
  <2> QED
    BY <1>ans, <2>1, <2>2
<1>6. CASE ServeGet(j) /\ ~Deny(j)
  <2>got. ASSUME NEW s, Put(j, s), GoesOn(r, s), s.reply = "ok"
          PROVE  Good(job'[j])
    BY <2>got, PutEffect
  <2>1. CASE Put(j, [r EXCEPT !.reply = "ok", !.body = saved])
    <3> DEFINE s == [r EXCEPT !.reply = "ok", !.body = saved]
    <3>1. GoesOn(r, s) /\ s.reply = "ok"
      BY <1>r DEF GoodFields, GoesOn
    <3> QED
      BY <2>1, <2>got, <3>1
  <2>2. CASE Put(j, [r EXCEPT !.reply = "ok", !.listed = DOMAIN rows, !.flagged = Flagged])
    <3> DEFINE s == [r EXCEPT !.reply = "ok", !.listed = DOMAIN rows, !.flagged = Flagged]
    <3>1. GoesOn(r, s) /\ s.reply = "ok"
      BY <1>r DEF GoodFields, GoesOn
    <3> QED
      BY <2>2, <2>got, <3>1
  <2>3. CASE Put(j, [r EXCEPT !.reply = "ok", !.flag = rows[r.note].trashed_at])
    <3> DEFINE s == [r EXCEPT !.reply = "ok", !.flag = rows[r.note].trashed_at]
    <3>1. GoesOn(r, s) /\ s.reply = "ok"
      BY <1>r DEF GoodFields, GoesOn
    <3> QED
      BY <2>3, <2>got, <3>1
  <2>4. CASE Put(j, [r EXCEPT !.reply = "ok", !.text = rows[r.note].text])
    <3> DEFINE s == [r EXCEPT !.reply = "ok", !.text = rows[r.note].text]
    <3>1. GoesOn(r, s) /\ s.reply = "ok"
      BY <1>r DEF GoodFields, GoesOn
    <3> QED
      BY <2>4, <2>got, <3>1
  <2> QED
    BY <1>6, <2>1, <2>2, <2>3, <2>4 DEF ServeGet
<1> QED
  BY <1>deny, <1>1, <1>2, <1>3, <1>4, <1>5, <1>6 DEF Serve

\* What steers a load from one await to the next.
LoadSteered(r, s) ==
    /\ s.sameKey = r.sameKey /\ (s.calm => r.calm)
    /\ r.at \in {"getIndex", "getRows"} => r.sameKey
    /\ r.at = "getRows" => s.changed = (DOMAIN index.notes \ r.listed # {})
    /\ r.at = "orphans" /\ s.at = "getOrphan" => s.changed = r.changed
    /\ r.at = "getOrphan" =>
        IF r.reply = "ok"
        THEN r.sameKey /\ s.changed = TRUE /\ index' = addNote(index, r.note, r.flag)
        ELSE r.reply = "no" /\ s.changed = r.changed /\ index' = index
    /\ r.at = "orphans" /\ s.at = "persist" => r.ids = {} /\ r.changed /\ (s.calm => s.reply = "none")

\* With what a load leaves its list: the flags that differ, if it may write.
LoadLeft(r, s) ==
    /\ r.at = "orphans" => r.ids = {} /\ ~r.changed
    /\ r.at = "persist" => r.reply # "none"
    /\ s # Idle => s.sameKey = r.sameKey /\ (s.calm => r.calm)
    /\ ~readOnly =>
        \/ s.at = "flag" /\ s.flag = TRUE /\ s.ids = trashFlagDrift(index, r.flagged, TRUE)
        \/ (s.at = "flag" \/ s = Idle) /\ s.flag = FALSE /\ trashFlagDrift(index, r.flagged, TRUE) = {}

\* A load begun is calm if it is alone.
LEMMA BeginSteers ==
    ASSUME IInv, PhaseInv, NEW j \in Jobs, loadVault(j)
    PROVE  job'[j].sameKey /\ (job'[j].calm => Alone(j))
<1> DEFINE alone == \A k \in Jobs \ {j} : job[k].at = "idle"
           s == [Call("load", "getIndex", Nil) EXCEPT !.calm = alone]
<1>1. s.sameKey = TRUE /\ s.calm = alone
  BY DEF Call, Idle
<1>2. Put(j, s)
  BY DEF loadVault
<1> HIDE DEF s
<1>3. job'[j] = s
  BY <1>2, PutEffect
<1>4. alone => Alone(j)
  BY DEF Alone, PhaseInv, Stands
<1> QED
  BY <1>1, <1>3, <1>4

\* setTrashed begun by a load.
LEMMA FlagSteers ==
    ASSUME IInv, NEW j \in Jobs, NEW q \in GoodFields, NEW ids, NEW flag, Flag(j, q, ids, flag)
    PROVE  GoesOn(q, job'[j])
<1> DEFINE s == [q EXCEPT !.at = "flag", !.reply = "none", !.ids = ids, !.flag = flag]
<1>1. GoesOn(q, s)
  BY DEF GoodFields, GoesOn
<1>2. Put(j, s)
  BY DEF Flag
<1> HIDE DEF s
<1> QED
  BY <1>1, <1>2, PutEffect

\* The end of a load's list.
LEMMA LoadedSteers ==
    ASSUME IInv, NEW j \in Jobs, Loaded(j),
           job[j].at = "orphans" => job[j].ids = {} /\ ~job[j].changed,
           job[j].at = "persist" => job[j].reply # "none"
    PROVE  LoadLeft(job[j], job'[j])
<1> DEFINE r == job[j]
           Drift(v) == IF readOnly THEN {} ELSE trashFlagDrift(index, job[j].flagged, v)
<1>r. r \in GoodFields
  BY JobFields
<1>d. Drift(FALSE) \in SUBSET Notes
  BY FieldsClosed DEF trashFlagDrift, IInv, IndexInv
<1>0. ~readOnly => Drift(TRUE) = trashFlagDrift(index, r.flagged, TRUE)
  OBVIOUS
<1>4. \/ Flag(j, [r EXCEPT !.listed = Drift(FALSE)], Drift(TRUE), TRUE)
      \/ Drift(TRUE) = {} /\ Flag(j, [r EXCEPT !.listed = {}], Drift(FALSE), FALSE)
      \/ Drift(TRUE) = {} /\ End(j)
  BY DEF Loaded
<1> HIDE DEF Drift
<1>q. ASSUME NEW D \in SUBSET Notes
      PROVE  /\ [r EXCEPT !.listed = D] \in GoodFields
             /\ GoesOn(r, [r EXCEPT !.listed = D])
  BY <1>r DEF GoodFields, GoesOn
<1>1. CASE Flag(j, [r EXCEPT !.listed = Drift(FALSE)], Drift(TRUE), TRUE)
  <2> DEFINE q == [r EXCEPT !.listed = Drift(FALSE)]
  <2>1. q \in GoodFields /\ GoesOn(r, q)
    BY <1>d, <1>q
  <2>f. Flag(j, q, Drift(TRUE), TRUE)
    BY <1>1
  <2> HIDE DEF q
  <2>2. /\ OthersStay(j)
        /\ Keeps(q, job'[j], {"at", "ids", "flag"})
        /\ job'[j].at = "flag" /\ job'[j].ids = Drift(TRUE) /\ job'[j].flag = TRUE
        /\ job'[j].reply = "none"
    BY <2>1, <2>f, FlagEffect
  <2>3. GoesOn(q, job'[j])
    BY <2>1, <2>f, FlagSteers
  <2> QED
    BY <1>0, <2>1, <2>2, <2>3 DEF GoesOn, LoadLeft
<1>2. CASE Drift(TRUE) = {} /\ Flag(j, [r EXCEPT !.listed = {}], Drift(FALSE), FALSE)
  <2> DEFINE q == [r EXCEPT !.listed = {}]
  <2>1. q \in GoodFields /\ GoesOn(r, q) /\ Flag(j, q, Drift(FALSE), FALSE)
    BY <1>q, <1>2
  <2> HIDE DEF q
  <2>2. job'[j].at = "flag" /\ job'[j].flag = FALSE /\ GoesOn(q, job'[j])
    BY <2>1, FlagEffect, FlagSteers
  <2> QED
    BY <1>0, <1>2, <2>1, <2>2 DEF GoesOn, LoadLeft
<1>3. CASE Drift(TRUE) = {} /\ End(j)
  <2>1. job'[j] = Idle /\ Idle.flag = FALSE
    BY <1>3, EndEffect DEF Idle
  <2> QED
    BY <1>0, <1>3, <2>1 DEF LoadLeft
<1> QED
  BY <1>1, <1>2, <1>3, <1>4

\* What steers a load, step by step.
LEMMA LoadSteers ==
    ASSUME IInv, NEW j \in Jobs, Load(j), job[j].kind = "load", Stands(job[j])
    PROVE  /\ masterKey' = masterKey
           /\ \/ job'[j] = Idle /\ job[j].at \in {"getIndex", "getRows", "getOrphan"}
              \/ UNCHANGED readOnly /\ LoadSteered(job[j], job'[j])
                 /\ job[j].at \notin {"persist", "flag"} /\ job'[j].at \notin {"flag", "idle"}
                 /\ (job[j].at = "getIndex" => job'[j].at = "getRows")
                 /\ (job[j].at = "getRows" => job'[j].at = "orphans")
              \/ UNCHANGED readOnly /\ LoadLeft(job[j], job'[j]) /\ job[j].at \in {"orphans", "persist"}
<1> DEFINE r == job[j]
<1>r. r \in GoodFields /\ r.kind = "load" /\ r.at # "session"
  BY JobFields DEF Stands
<1>put. ASSUME NEW s, Put(j, s) PROVE job'[j] = s
  BY <1>put, PutEffect
<1>end. End(j) => job'[j] = Idle
  BY EndEffect
<1>1. CASE initialize(j)
  BY <1>r, <1>1 DEF initialize
<1>2. CASE AfterGetIndex(j)
  <2> DEFINE s == [r EXCEPT !.at = "getRows", !.reply = "none", !.body = Unset]
  <2>0. r.at = "getIndex" /\ masterKey' = masterKey
    BY <1>2 DEF AfterGetIndex, At, disableVault, keyVars
  <2>1. CASE End(j)
    BY <1>end, <2>0, <2>1
  <2>2. CASE Put(j, s) /\ UNCHANGED readOnly /\ r.sameKey
    <3>1. s.sameKey = r.sameKey /\ s.calm = r.calm /\ s.at = "getRows"
      BY <1>r DEF GoodFields
    <3> HIDE DEF s
    <3>2. job'[j] = s
      BY <1>put, <2>2
    <3> QED
      BY <2>0, <2>2, <3>1, <3>2 DEF LoadSteered
  <2> QED
    BY <1>2, <2>1, <2>2 DEF AfterGetIndex, keyVars
<1>3. CASE AfterGetRows(j)
  <2> DEFINE ids == orphanIds(index, r.listed)
             moved == DOMAIN index.notes \ r.listed # {}
             s == [r EXCEPT !.at = "orphans", !.reply = "none", !.listed = {}, !.ids = ids, !.changed = moved]
  <2>0. r.at = "getRows" /\ masterKey' = masterKey
    BY <1>3 DEF AfterGetRows, At, disableVault, keyVars
  <2>1. CASE End(j)
    BY <1>end, <2>0, <2>1
  <2>2. CASE Put(j, s) /\ UNCHANGED readOnly /\ r.sameKey
    <3>1. s.sameKey = r.sameKey /\ s.calm = r.calm /\ s.changed = moved /\ s.at = "orphans"
      BY <1>r DEF GoodFields
    <3> HIDE DEF s
    <3>2. job'[j] = s
      BY <1>put, <2>2
    <3> QED
      BY <2>0, <2>2, <3>1, <3>2 DEF LoadSteered
  <2> QED
    BY <1>3, <2>1, <2>2 DEF AfterGetRows, keyVars
<1>4. CASE NextOrphan(j)
  <2>1. PICK n \in r.ids : Put(j, [r EXCEPT !.at = "getOrphan", !.note = n, !.ids = @ \ {n}])
    BY <1>4 DEF NextOrphan
  <2> DEFINE s == [r EXCEPT !.at = "getOrphan", !.note = n, !.ids = @ \ {n}]
  <2>2. s.sameKey = r.sameKey /\ s.calm = r.calm /\ s.changed = r.changed /\ s.at = "getOrphan"
    BY <1>r DEF GoodFields
  <2>p. Put(j, s)
    BY <2>1
  <2> HIDE DEF s
  <2>3. job'[j] = s
    BY <1>put, <2>p
  <2> QED
    BY <1>4, <2>2, <2>3 DEF LoadSteered, NextOrphan, keyVars
<1>5. CASE AfterGetOrphan(j)
  <2> DEFINE on == [r EXCEPT !.at = "orphans", !.reply = "none", !.note = Nil, !.flag = FALSE]
             s == [on EXCEPT !.changed = TRUE]
  <2>0. r.at = "getOrphan" /\ masterKey' = masterKey
    BY <1>5 DEF AfterGetOrphan, At, disableVault, keyVars
  <2>1. CASE End(j)
    BY <1>end, <2>0, <2>1
  <2>2. CASE r.reply = "no" /\ Put(j, on) /\ UNCHANGED <<readOnly, index>>
    <3>1. on.sameKey = r.sameKey /\ on.calm = r.calm /\ on.changed = r.changed /\ on.at = "orphans"
      BY <1>r DEF GoodFields
    <3> HIDE DEF on
    <3>2. job'[j] = on
      BY <1>put, <2>2
    <3> QED
      BY <2>0, <2>2, <3>1, <3>2 DEF LoadSteered
  <2>3. CASE /\ r.reply = "ok" /\ r.sameKey /\ Put(j, s) /\ UNCHANGED readOnly
             /\ index' = addNote(index, r.note, r.flag)
    <3>1. s.sameKey = r.sameKey /\ s.calm = r.calm /\ s.changed = TRUE /\ s.at = "orphans"
      BY <1>r DEF GoodFields
    <3> HIDE DEF s
    <3>2. job'[j] = s
      BY <1>put, <2>3
    <3> QED
      BY <2>0, <2>3, <3>1, <3>2 DEF LoadSteered
  <2> QED
    BY <1>5, <2>1, <2>2, <2>3 DEF AfterGetOrphan, keyVars
<1>6. CASE OrphansDone(j)
  <2>0. r.at = "orphans" /\ r.ids = {} /\ UNCHANGED <<masterKey, readOnly>>
    BY <1>6 DEF OrphansDone, keyVars
  <2>1. CASE r.changed
    <3> DEFINE q == [r EXCEPT !.at = "persist", !.changed = FALSE]
               s == [q EXCEPT !.body = index, !.reply = IF CanPersist THEN "none" ELSE "no",
                              !.calm = @ /\ CanPersist]
    <3>1. q.sameKey = r.sameKey /\ q.calm = r.calm /\ q.at = "persist" /\ q \in GoodFields
      BY <1>r DEF GoodFields, Posts
    <3>2. Put(j, s)
      BY <1>6, <2>1 DEF OrphansDone, Persist
    <3> HIDE DEF q
    <3>3. /\ s.sameKey = q.sameKey /\ (s.calm => q.calm) /\ s.at = q.at
          /\ s.calm => s.reply = "none"
      BY <3>1 DEF GoodFields
    <3> HIDE DEF s
    <3>4. job'[j] = s
      BY <1>put, <3>2
    <3> QED
      BY <2>0, <2>1, <3>1, <3>3, <3>4 DEF LoadSteered
  <2>2. CASE ~r.changed
    <3>1. Loaded(j)
      BY <1>6, <2>2 DEF OrphansDone
    <3> QED
      BY <2>0, <2>2, <3>1, LoadedSteers
  <2> QED
    BY <2>1, <2>2
<1>7. CASE AfterPersist(j)
  <2>1. r.at = "persist" /\ r.reply # "none" /\ Loaded(j) /\ UNCHANGED <<masterKey, readOnly>>
    BY <1>7 DEF AfterPersist, At, keyVars
  <2> QED
    BY <2>1, LoadedSteers
<1> QED
  BY <1>1, <1>2, <1>3, <1>4, <1>5, <1>6, <1>7 DEF Load

\* What steers a job that has got its reply.
LEMMA ContinueSteers ==
    ASSUME IInv, NEW j \in Jobs, Continue(j), job[j].kind = "load", Stands(job[j])
    PROVE  /\ job[j].at = "flag" /\ job[j].reply # "none"
           /\ job'[j] = Idle \/ GoesOn(job[j], job'[j])
<1>1. AfterFlag(j)
  BY DEF Continue, Stands, AfterOpen, persistNoteRow, AfterRow, AfterDelete, AfterIndex, At
<1>2. job[j].at = "flag" /\ job[j].reply # "none"
  BY <1>1 DEF AfterFlag, At
<1>3. End(j) \/ Flag(j, job[j], job[j].listed, FALSE)
  BY <1>1 DEF AfterFlag
<1>4. job[j] \in GoodFields
  BY JobFields
<1> QED
  BY <1>2, <1>3, <1>4, EndEffect, FlagSteers

\* A lock, or a sweep, leaves no job calm; after a lock no load has its key.
LEMMA TouchedSteers ==
    ASSUME IInv, onLock \/ SweepDelete, NEW k \in Jobs
    PROVE  /\ ~job'[k].calm
           /\ job'[k].sameKey => job[k].sameKey
           /\ onLock /\ job[k].kind = "load" => ~job'[k].sameKey
<1>r. job[k] \in GoodFields
  BY JobFields
<1>1. CASE onLock
  <2> DEFINE s == [job[k] EXCEPT !.sameKey = @ /\ job[k].kind # "load", !.calm = FALSE]
  <2>1. job'[k] = s
    BY <1>1 DEF onLock
  <2>2. s.calm = FALSE /\ s.sameKey = (job[k].sameKey /\ job[k].kind # "load")
    BY <1>r DEF GoodFields
  <2> HIDE DEF s
  <2> QED
    BY <2>1, <2>2
<1>2. CASE ~onLock /\ SweepDelete
  <2> DEFINE s == [job[k] EXCEPT !.calm = FALSE]
  <2>1. job'[k] = s
    BY <1>2 DEF SweepDelete
  <2>2. s.calm = FALSE /\ s.sameKey = job[k].sameKey
    BY <1>r DEF GoodFields
  <2> HIDE DEF s
  <2>3. ~job'[k].calm /\ job'[k].sameKey = job[k].sameKey
    BY <2>1, <2>2
  <2> QED
    BY <1>2, <2>3
<1> QED
  BY <1>1, <1>2

\* A job that, before any index is saved, flags no row.
Plain(r) ==
    /\ r.at = "updating" => r.flag = FALSE
    /\ r.kind = "trash" => r.at # "flag"

\* Until an index is saved nothing is in Trash, and nothing is about to be; and what is
\* about to be saved is an index.
UnsavedInv ==
    /\ \A j \in Jobs : job[j].at \in {"index", "persist"} => job[j].body # Unset
    /\ saved = Unset =>
        /\ Flagged = {} /\ picked = {}
        /\ \A j \in Jobs : Plain(job[j])

\* The requests: none flags a row before there is an index that has it in Trash.
LEMMA UnsavedServed ==
    ASSUME IInv, PhaseInv, FlagInv, UnsavedInv, NEW j \in Jobs, Serve(j)
    PROVE  UnsavedInv' /\ (saved' = Unset => saved = Unset)
<1> DEFINE r == job[j]
           s == job'[j]
<1>0. OthersStay(j) /\ Served(r, s) /\ Stands(r)
  BY ServeEffect DEF PhaseInv
<1>1. s.kind = r.kind /\ r.reply = "none" /\ Stands(s)
  BY <1>0, ServedStands DEF Served
<1>p. saved = saved' \/ IndexSaved(r, s)
  BY <1>0 DEF Served, Refused, RowCreated, RowRead, RowWritten, RowDeleted, RowsFlagged, Got
<1>i. IndexSaved(r, s) => saved' # Unset
  BY DEF IndexSaved, UnsavedInv
<1>2. s.at \in {"index", "persist"} => s.body # Unset
  <2>1. s.at \in {"index", "persist"} => s.at = r.at /\ s.body = r.body
    BY <1>0 DEF Served, Keeps, Refused, IndexSaved, RowCreated, RowRead, RowWritten, RowDeleted,
                RowsFlagged, Got
  <2> QED
    BY <2>1 DEF UnsavedInv
<1>3. \A k \in Jobs : job'[k].at \in {"index", "persist"} => job'[k].body # Unset
  BY <1>0, <1>2 DEF OthersStay, UnsavedInv
<1>4. picked' = picked
  BY DEF Serve, Refuse, ServeIndex, create_vault_note, update_vault_note_get, update_vault_note_save,
         delete_vault_note, set_vault_notes_trashed, ServeGet, serverVars
<1>5. ASSUME saved' = Unset
      PROVE  saved = Unset /\ Flagged' = {} /\ Plain(s)
  <2>0. saved = Unset /\ Flagged = {} /\ Plain(r) /\ ~IndexSaved(r, s)
    BY <1>p, <1>i, <1>5 DEF UnsavedInv
  <2>1. CASE Refused(r, s) \/ Got(r, s)
    <3>1. rows' = rows /\ s.at = r.at /\ s.at # "updating"
      BY <2>1 DEF Refused, Got, Keeps, Gets, Posts
    <3> QED
      BY <1>1, <2>0, <3>1 DEF Flagged, Plain
  <2>2. CASE RowCreated(r, s)
    <3>1. Flagged' \subseteq Flagged
      BY <2>2 DEF RowCreated, Flagged
    <3>2. s.at = "create"
      BY <2>2 DEF RowCreated, Keeps
    <3> QED
      BY <2>0, <3>1, <3>2 DEF Plain
  <2>3. CASE RowRead(r, s)
    <3>1. rows' = rows /\ s.flag = rows[r.note].trashed_at /\ s.at = "updating" /\ r.note \in DOMAIN rows
      BY <2>3 DEF RowRead
    <3>2. rows[r.note].trashed_at \in BOOLEAN
      BY <3>1, PartialFunctions DEF IInv, ServerInv, Rows, Row
    <3>3. s.flag = FALSE
      BY <2>0, <3>1, <3>2 DEF Flagged
    <3> QED
      BY <1>1, <2>0, <3>1, <3>3 DEF Flagged, Plain
  <2>4. CASE RowWritten(r, s)
    <3>1. r.flag = FALSE
      BY <2>0, <2>4 DEF RowWritten, Plain
    <3>2. Flagged' \subseteq Flagged
      BY <2>4, <3>1 DEF RowWritten, Flagged
    <3>3. s.at = "update"
      BY <2>4 DEF RowWritten
    <3> QED
      BY <2>0, <3>2, <3>3 DEF Plain
  <2>5. CASE RowDeleted(r, s)
    <3>1. Flagged' \subseteq Flagged
      BY <2>5 DEF RowDeleted, Restrict, Flagged
    <3>2. s.at = "delete"
      BY <2>5 DEF RowDeleted, Keeps
    <3> QED
      BY <2>0, <3>1, <3>2 DEF Plain
  <2>6. CASE RowsFlagged(r, s)
    <3>1. r.at = "flag" /\ s.at = "flag" /\ r.kind \in {"load", "restore"}
      BY <1>0, <2>0, <2>6 DEF RowsFlagged, Keeps, Stands, Plain
    <3>2. r.flag \in BOOLEAN
      BY JobFields DEF GoodFields
    <3>3. r.flag => r.ids \cap DOMAIN rows = {}
      <4>1. CASE r.kind = "restore"
        <5>1. UserOK(r, index, saved, Flagged)
          BY <4>1 DEF FlagInv, WriteKinds
        <5> QED
          BY <3>1, <4>1, <5>1 DEF UserOK
      <4>2. CASE r.kind = "load"
        <5>1. LoadOK(r, index, DOMAIN rows, Flagged, Pending)
          BY <4>2 DEF FlagInv, Loading
        <5>2. Pending = {}
          BY <2>0 DEF Pending, TrashIn
        <5>3. r.flag = TRUE => r.ids \cap DOMAIN rows \subseteq Pending \cup Flagged
          BY <3>1, <5>1 DEF LoadOK
        <5> QED
          BY <2>0, <3>2, <5>2, <5>3
      <4> QED
        BY <3>1, <4>1, <4>2
    <3>4. \A n \in DOMAIN rows : rows[n] \in Row
      BY PartialFunctions DEF IInv, ServerInv, Rows
    <3>5. /\ DOMAIN rows' = DOMAIN rows
          /\ \A n \in DOMAIN rows : rows'[n].trashed_at = IF n \in r.ids THEN r.flag ELSE rows[n].trashed_at
      BY <2>6, <3>4 DEF RowsFlagged, Row
    <3>6. Flagged' \subseteq Flagged
      BY <3>3, <3>5 DEF Flagged
    <3>7. Plain(s)
      BY <1>1, <3>1 DEF Plain
    <3> QED
      BY <2>0, <3>6, <3>7
  <2> QED
    BY <1>0, <2>0, <2>1, <2>2, <2>3, <2>4, <2>5, <2>6 DEF Served
<1>6. saved' = Unset => \A k \in Jobs : Plain(job'[k])
  BY <1>0, <1>5 DEF OthersStay, UnsavedInv
<1> QED
  BY <1>3, <1>4, <1>5, <1>6 DEF UnsavedInv

\* Where the jobs stay, but for what steers them, and rows only go.
LEMMA UnsavedTouched ==
    ASSUME UnsavedInv, saved' = saved, Flagged' \subseteq Flagged,
           saved = Unset => picked' = {},
           \A k \in Jobs : Keeps(job[k], job'[k], {})
    PROVE  UnsavedInv'
BY DEF UnsavedInv, Keeps, Plain

\* Every step keeps to it, until writes have crossed.
LEMMA UnsavedStep ==
    ASSUME IInv, PhaseInv, FlagInv, UnsavedInv, [Next]_vars
    PROVE  UnsavedInv' /\ (saved' = Unset => saved = Unset)
<1>i. index # Unset /\ index' # Unset
  <2>1. IInv'
    BY StepIInv
  <2> QED
    BY <2>1, VaultAssumption DEF IInv, IndexInv, Closed
<1>k. \A k \in Jobs : Keeps(job[k], job[k], {})
  BY DEF Keeps
<1>j. ASSUME NEW j \in Jobs, OthersStay(j), saved' = saved, rows' = rows, picked' = picked,
             job'[j].at \in {"index", "persist"} => job'[j].body # Unset,
             saved = Unset => Plain(job'[j])
      PROVE  UnsavedInv'
  <2>1. Flagged' = Flagged
    BY <1>j DEF Flagged
  <2> QED
    BY <1>j, <2>1 DEF UnsavedInv, OthersStay
<1>1. ASSUME NEW j \in Jobs, Serve(j)
      PROVE  UnsavedInv' /\ (saved' = Unset => saved = Unset)
  BY <1>1, UnsavedServed
<1>2. ASSUME NEW j \in Jobs, Load(j)
      PROVE  UnsavedInv' /\ saved' = saved
  <2>1. OthersStay(j) /\ LoadStep(job[j], job'[j]) /\ Stands(job[j]) /\ saved' = saved /\ rows' = rows
    BY <1>2, LoadEffect, LoadLeaves DEF PhaseInv
  <2>2. picked' = picked
    BY <1>2 DEF Load, initialize, AfterGetIndex, AfterGetRows, NextOrphan, AfterGetOrphan, OrphansDone,
                AfterPersist, serverVars
  <2>3. job'[j].at \in {"index", "persist"} => job'[j].body = index
    BY <2>1, IdleFields DEF LoadStep
  <2>4. Plain(job'[j])
    BY <2>1, LoadStands DEF Plain, Stands
  <2> QED
    BY <1>i, <1>j, <2>1, <2>2, <2>3, <2>4
<1>3. ASSUME NEW j \in Jobs, Continue(j)
      PROVE  UnsavedInv' /\ saved' = saved
  <2> DEFINE r == job[j]
             s == job'[j]
  <2>1. OthersStay(j) /\ ContinueStep(r, s) /\ Stands(r) /\ saved' = saved /\ rows' = rows
    BY <1>3, ContinueEffect DEF PhaseInv
  <2>2. picked' = picked
    BY <1>3 DEF Continue, AfterOpen, persistNoteRow, AfterRow, AfterDelete, AfterFlag, AfterIndex, serverVars
  <2>3. Stands(s) /\ s.kind \in {r.kind, "none"}
    BY <2>1, ContinueStands
  <2>4. s.at \in {"index", "persist"} => s.body = index'
    <3>1. s.at = "index" => s.body = index'
      BY <2>1, IdleFields DEF ContinueStep, Commits, Keeps
    <3>2. s.at # "persist"
      BY <2>1, IdleFields DEF ContinueStep, Commits, Keeps, Stands
    <3> QED
      BY <3>1, <3>2
  <2>5. s.at # "updating"
    BY <2>1, IdleFields DEF ContinueStep, Commits, Keeps, Stands
  <2>6. ASSUME saved = Unset, s.kind = "trash" PROVE s.at # "flag"
    <3>1. r.kind = "trash" /\ UserOK(r, index, saved, Flagged)
      BY <2>3, <2>6 DEF FlagInv, WriteKinds
    <3>2. r.at # "flag"
      BY <2>6, <3>1 DEF UnsavedInv, Plain
    <3>3. r.at = "index" => r.reply # "ok"
      BY <2>6, <3>1 DEF UserOK, UnsavedInv
    <3>4. r.at = "index"
      BY <2>1, <3>1, <3>2 DEF Stands
    <3>5. s = Idle
      BY <2>1, <3>3, <3>4 DEF ContinueStep
    <3> QED
      BY <3>5, IdleFields
  <2>7. saved = Unset => Plain(s)
    BY <2>5, <2>6 DEF Plain
  <2> QED
    BY <1>i, <1>j, <2>1, <2>2, <2>4, <2>7
<1>4. ASSUME NEW j \in Jobs, User(j)
      PROVE  UnsavedInv' /\ saved' = saved
  <2>1. OthersStay(j) /\ UserStep(job'[j]) /\ saved' = saved /\ rows' = rows
    BY <1>4, UserEffect
  <2>2. picked' = picked
    BY <1>4 DEF User, saveNote, editIndex, openNote, moveNoteToTrash, restoreTrashedNote,
                deleteNoteForever, deleteFolderToTrash, serverVars
  <2>3. job'[j].at \in {"index", "persist"} => job'[j].body = index'
    BY <2>1 DEF UserStep
  <2>4. Plain(job'[j])
    BY <2>1 DEF UserStep, Plain
  <2> QED
    BY <1>i, <1>j, <2>1, <2>2, <2>3, <2>4
<1>5. CASE UNCHANGED <<rows, saved, picked, job>>
  <2>1. Flagged' = Flagged
    BY <1>5 DEF Flagged
  <2> QED
    BY <1>5, <1>k, <2>1, UnsavedTouched DEF UnsavedInv
<1>6. CASE onLock
  <2>1. UNCHANGED <<rows, saved, picked>>
    BY <1>6 DEF onLock, serverVars
  <2>2. Flagged' = Flagged
    BY <2>1 DEF Flagged
  <2> QED
    BY <1>6, <2>1, <2>2, TouchedEffect, UnsavedTouched DEF UnsavedInv
<1>7. CASE SweepDelete
  <2>1. saved' = saved /\ picked' = {}
    BY <1>7 DEF SweepDelete
  <2>2. Flagged' \subseteq Flagged
    BY <1>7 DEF SweepDelete, Restrict, Flagged
  <2> QED
    BY <1>7, <2>1, <2>2, TouchedEffect, UnsavedTouched
<1>8. CASE SweepSelect
  <2>1. UNCHANGED <<rows, saved, job>> /\ Flagged' = Flagged
    BY <1>8 DEF SweepSelect, Flagged
  <2>2. Flagged # {}
    BY <1>8 DEF SweepSelect
  <2>3. saved # Unset
    BY <2>2 DEF UnsavedInv
  <2> QED
    BY <1>k, <2>1, <2>3, UnsavedTouched
<1>9. CASE onUnlock
  <2>0. UNCHANGED <<rows, saved, picked>>
    BY <1>9 DEF onUnlock, serverVars
  <2>1. CASE UNCHANGED job
    BY <1>5, <2>0, <2>1
  <2>2. ASSUME NEW j \in Jobs, loadVault(j)
        PROVE  UnsavedInv' /\ saved' = saved
    <3>1. /\ OthersStay(j)
          /\ job'[j].kind = "load" /\ job'[j].at = "getIndex"
      BY <2>2, LoadBegun
    <3> QED
      BY <1>j, <2>0, <3>1 DEF Plain
  <2> QED
    BY <1>9, <2>0, <2>1, <2>2 DEF onUnlock
<1>10. CASE Reload
  <2>1. UNCHANGED <<rows, saved, picked>>
    BY <1>10 DEF Reload, serverVars
  <2>2. Flagged' = Flagged
    BY <2>1 DEF Flagged
  <2>3. \A k \in Jobs : job'[k].kind # "trash" /\ job'[k].at \notin {"index", "persist", "updating"}
    BY <1>10, ReloadEffect
  <2> QED
    BY <2>1, <2>2, <2>3 DEF UnsavedInv, Plain
<1>11. CASE Type \/ NewNote \/ UNCHANGED vars
  BY <1>5, <1>11 DEF Type, NewNote, serverVars, vars
<1> QED
  BY <1>1, <1>2, <1>3, <1>4, <1>6, <1>7, <1>8, <1>9, <1>10, <1>11 DEF Next

\* A page that has just been opened may write, and at most one load has the key it
\* began with: the key the tab holds.
KeyInv ==
    \A j \in Jobs :
        /\ job[j].kind = "init" => ~readOnly
        /\ job[j].kind = "load" /\ job[j].sameKey =>
               masterKey = "held" /\ \A k \in Jobs \ {j} : job[k].kind = "load" => ~job[k].sameKey

\* What a job of the user's does leaves no load and no start of a page.
LEMMA NoLoad ==
    ASSUME \A k \in Jobs : job'[k].kind \notin {"init", "load"}
    PROVE  KeyInv'
BY DEF KeyInv

\* A job of the user's that goes on, or ends: still no load.
LEMMA UserGoesOn ==
    ASSUME PhaseInv, NEW j \in Jobs, OthersStay(j), job[j].kind \in WriteKinds,
           job'[j].kind \in {job[j].kind, "none"}
    PROVE  \A k \in Jobs : job'[k].kind \notin {"init", "load"}
<1>1. \A k \in Jobs \ {j} : job'[k].kind \in {"none", "open"}
  BY UserAlone DEF OthersStay
<1>2. job'[j].kind \notin {"init", "load"}
  BY DEF WriteKinds
<1> QED
  BY <1>1, <1>2

\* A load that goes on, or ends.
LEMMA KeyGoesOn ==
    ASSUME KeyInv, PhaseInv, NEW j \in Jobs, OthersStay(j), job[j].kind = "load",
           job'[j].kind \in {"load", "none"},
           job'[j].kind = "load" => job'[j].sameKey = job[j].sameKey,
           masterKey' = masterKey
    PROVE  KeyInv'
<1>1. job[j].at # "idle"
  BY DEF PhaseInv, Stands
<1>2. \A k \in Jobs : job[k].kind # "init" /\ job'[k].kind # "init"
  BY <1>1 DEF PhaseInv, Alone, OthersStay
<1> QED
  BY <1>2 DEF KeyInv, OthersStay

\* A note being opened is none of it.
LEMMA KeyOpening ==
    ASSUME KeyInv, NEW j \in Jobs, OthersStay(j),
           {job[j].kind, job'[j].kind} \subseteq {"none", "open"},
           UNCHANGED <<masterKey, readOnly>>
    PROVE  KeyInv'
BY DEF KeyInv, OthersStay

\* Every step keeps to it, until writes have crossed.
LEMMA KeyStep ==
    ASSUME Waited', IInv, PhaseInv, KeyInv, [Next]_vars
    PROVE  KeyInv'
<1>1. ASSUME NEW j \in Jobs, Serve(j) PROVE KeyInv'
  <2>1. OthersStay(j) /\ Served(job[j], job'[j]) /\ Stands(job[j]) /\ masterKey' = masterKey
    BY <1>1, ServeEffect DEF PhaseInv, Serve, keyVars
  <2>2. job'[j].kind = job[j].kind /\ job[j].kind \notin {"none", "init"}
    BY <2>1, ServedStands
  <2>3. CASE job[j].kind = "load"
    BY <1>1, <2>1, <2>2, <2>3, ServeSteers, KeyGoesOn DEF GoesOn
  <2>4. CASE job[j].kind \in WriteKinds
    BY <2>1, <2>2, <2>4, UserGoesOn, NoLoad
  <2>5. CASE job[j].kind = "open"
    BY <1>1, <2>1, <2>5, OpenLeaves, KeyOpening
  <2> QED
    BY <2>1, <2>2, <2>3, <2>4, <2>5 DEF Stands, WriteKinds
<1>2. ASSUME NEW j \in Jobs, Load(j) PROVE KeyInv'
  <2>1. OthersStay(j) /\ LoadStep(job[j], job'[j]) /\ Stands(job[j])
    BY <1>2, LoadEffect DEF PhaseInv
  <2>2. job[j].kind \in {"init", "load"} /\ job'[j].kind \in {"load", "none"}
    BY <2>1, LoadStands
  <2>3. CASE job[j].kind = "load"
    <3>1. masterKey' = masterKey
      BY <1>2, <2>1, <2>3, LoadSteers
    <3>2. job'[j].kind = "load" => job'[j].sameKey = job[j].sameKey
      BY <1>2, <2>1, <2>3, LoadSteers, IdleFields DEF LoadSteered, LoadLeft
    <3> QED
      BY <2>1, <2>2, <2>3, <3>1, <3>2, KeyGoesOn
  <2>4. CASE job[j].kind = "init"
    <3>1. \A k \in Jobs \ {j} : job'[k].kind \in {"none", "open"}
      BY <2>1, <2>4 DEF PhaseInv, Alone, OthersStay
    <3>2. initialize(j)
      BY <1>2, <2>1, <2>4 DEF Stands, Load, AfterGetIndex, AfterGetRows, NextOrphan, AfterGetOrphan,
                              OrphansDone, AfterPersist, At
    <3>3. masterKey' = "held" \/ job'[j] = Idle
      BY <3>2, EndEffect DEF initialize
    <3> QED
      BY <2>2, <3>1, <3>3, IdleFields DEF KeyInv
  <2> QED
    BY <2>2, <2>3, <2>4
<1>3. ASSUME NEW j \in Jobs, Continue(j) PROVE KeyInv'
  <2>1. OthersStay(j) /\ ContinueStep(job[j], job'[j]) /\ Stands(job[j])
    BY <1>3, ContinueEffect DEF PhaseInv
  <2>2. job'[j].kind \in {job[j].kind, "none"} /\ job[j].kind \notin {"none", "init"}
    BY <2>1, ContinueStands
  <2>3. CASE job[j].kind = "load"
    <3>1. job'[j].kind = "load" => job'[j].sameKey = job[j].sameKey
      BY <1>3, <2>1, <2>3, ContinueSteers, IdleFields DEF GoesOn
    <3>2. masterKey' = masterKey
      BY <1>3 DEF Continue, AfterOpen, persistNoteRow, AfterRow, AfterDelete, AfterFlag, AfterIndex, keyVars
    <3> QED
      BY <2>1, <2>2, <2>3, <3>1, <3>2, KeyGoesOn
  <2>4. CASE job[j].kind \in WriteKinds
    BY <2>1, <2>2, <2>4, UserGoesOn, NoLoad
  <2>5. CASE job[j].kind = "open"
    BY <1>3, <2>1, <2>5, OpenLeaves, KeyOpening
  <2> QED
    BY <2>1, <2>2, <2>3, <2>4, <2>5 DEF Stands, WriteKinds
<1>4. ASSUME NEW j \in Jobs, User(j) PROVE KeyInv'
  <2>1. CASE job'[j].kind = "open"
    BY <1>4, <2>1, OpenLeaves, KeyOpening DEF PhaseInv
  <2>2. CASE job'[j].kind # "open"
    <3>1. /\ job'[j].kind \in WriteKinds
          /\ \A k \in Jobs \ {j} : job'[k].kind \in {"none", "open"}
      BY <1>4, <2>2, BegunWriting
    <3> QED
      BY <3>1, NoLoad DEF WriteKinds
  <2> QED
    BY <2>1, <2>2
<1>5. CASE UNCHANGED <<masterKey, readOnly, job>>
  BY <1>5 DEF KeyInv
<1>6. CASE onLock
  <2>1. \A k \in Jobs : job'[k].kind = job[k].kind
    BY <1>6, TouchedEffect DEF Keeps
  <2>2. \A k \in Jobs : job'[k].kind = "load" => ~job'[k].sameKey
    BY <1>6, <2>1, TouchedSteers
  <2>3. \A k \in Jobs : job[k].kind # "init"
    BY <1>6 DEF PhaseInv, onLock
  <2> QED
    BY <2>1, <2>2, <2>3 DEF KeyInv
<1>7. CASE SweepDelete
  <2>1. UNCHANGED <<masterKey, readOnly>>
    BY <1>7 DEF SweepDelete, keyVars
  <2>2. \A k \in Jobs : job'[k].kind = job[k].kind /\ (job'[k].sameKey => job[k].sameKey)
    BY <1>7, TouchedEffect, TouchedSteers DEF Keeps
  <2> QED
    BY <2>1, <2>2 DEF KeyInv
<1>8. CASE onUnlock
  <2>0. masterKey = "dropped" /\ masterKey' = "held"
    BY <1>8 DEF onUnlock
  <2>1. \A k \in Jobs : job[k].kind # "init" /\ (job[k].kind = "load" => ~job[k].sameKey)
    BY <2>0 DEF PhaseInv, KeyInv
  <2>2. CASE UNCHANGED job
    BY <2>1, <2>2 DEF KeyInv
  <2>3. ASSUME NEW j \in Jobs, loadVault(j) PROVE KeyInv'
    <3>1. OthersStay(j) /\ job'[j].kind = "load"
      BY <2>3, LoadBegun
    <3> QED
      BY <2>0, <2>1, <3>1 DEF KeyInv, OthersStay
  <2> QED
    BY <1>8, <2>2, <2>3 DEF onUnlock
<1>9. CASE Reload
  <2>1. readOnly' = FALSE
    BY <1>9 DEF Reload
  <2>2. \A k \in Jobs : job'[k].kind # "load"
    BY <1>9, ReloadEffect
  <2> QED
    BY <2>1, <2>2 DEF KeyInv
<1>10. CASE Type \/ NewNote \/ SweepSelect \/ UNCHANGED vars
  BY <1>5, <1>10 DEF Type, NewNote, SweepSelect, keyVars, vars
<1> QED
  BY <1>1, <1>2, <1>3, <1>4, <1>6, <1>7, <1>8, <1>9, <1>10 DEF Next

\* The notes an index names.
Known(X) == ActiveIn(X) \cup TrashIn(X)

\* A load that has its key asks for rows there are and the index lacks, each once.
OwnList(r, X, D) ==
    /\ r.at = "getIndex" /\ r.reply = "ok" => r.body = Unset
    /\ r.at = "getRows" /\ r.reply = "ok" => r.listed = D
    /\ r.at \in {"orphans", "getOrphan"} => r.ids \subseteq D \ Known(X)
    /\ r.at = "getOrphan" => r.note \notin r.ids

\* A load about to save the index, or waiting for that.
Saving(r) == r.kind = "load" /\ (r.at = "persist" \/ (r.at = "orphans" /\ r.ids = {}))

\* An index in which some row is missing, unless it names none at all.
Short(X, D) == Known(X) = {} \/ ~(D \subseteq Known(X))

\* While a page that has no index on the server loads, its own lacks a row until a load
\* has them all, which will then save it.
FirstInv ==
    ~vaultLoaded /\ saved = Unset =>
        /\ \A j \in Jobs :
               job[j].kind = "load" /\ job[j].sameKey => OwnList(job[j], index, DOMAIN rows)
        /\ Short(index, DOMAIN rows) \/ \E j \in Jobs : Saving(job[j])

\* A load's step, while no index is saved.
LEMMA FirstGoesOn ==
    ASSUME FirstInv, KeyInv, NEW j \in Jobs, OthersStay(j),
           ~vaultLoaded' /\ saved' = Unset =>
               /\ ~vaultLoaded /\ saved = Unset /\ DOMAIN rows' = DOMAIN rows
               /\ index' = index \/ (job[j].kind = "load" /\ job[j].sameKey)
               /\ job'[j].kind = "load" /\ job'[j].sameKey =>
                      OwnList(job'[j], index', DOMAIN rows)
               /\ Saving(job[j]) => Saving(job'[j])
               /\ Short(index, DOMAIN rows) => Short(index', DOMAIN rows) \/ Saving(job'[j])
    PROVE  FirstInv'
<1> SUFFICES ASSUME ~vaultLoaded', saved' = Unset
             PROVE  /\ \A k \in Jobs : job'[k].kind = "load" /\ job'[k].sameKey =>
                           OwnList(job'[k], index', DOMAIN rows)
                    /\ Short(index', DOMAIN rows) \/ \E k \in Jobs : Saving(job'[k])
  BY DEF FirstInv
<1>1. \A k \in Jobs \ {j} : job'[k].kind = "load" /\ job'[k].sameKey =>
          OwnList(job'[k], index', DOMAIN rows)
  BY DEF FirstInv, KeyInv, OthersStay
<1>2. Short(index', DOMAIN rows) \/ \E k \in Jobs : Saving(job'[k])
  BY DEF FirstInv, OthersStay
<1> QED
  BY <1>1, <1>2

\* What an index names once a row is added to it, or those without a row are left out.
LEMMA KnownOf ==
    ASSUME NEW X \in Closed
    PROVE  /\ Known(X) = DOMAIN X.notes
           /\ \A R : Known(reconcile(X, R)) = Known(X) \cap R
           /\ \A R : orphanIds(X, R) = R \ Known(X)
           /\ \A n \in Notes, t \in BOOLEAN : Known(addNote(X, n, t)) = Known(X) \cup {n}
<1>1. Known(X) = DOMAIN X.notes
  BY IndexParts DEF Known
<1>2. ASSUME NEW R PROVE Known(reconcile(X, R)) = Known(X) \cap R
  <2>1. /\ ActiveIn(reconcile(X, R)) = ActiveIn(X) \cap R
        /\ TrashIn(reconcile(X, R)) = TrashIn(X) \cap R
    BY PartsOfLoaded
  <2> QED
    BY <2>1 DEF Known
<1>3. ASSUME NEW R PROVE orphanIds(X, R) = R \ Known(X)
  BY <1>1 DEF orphanIds
<1>4. ASSUME NEW n \in Notes, NEW t \in BOOLEAN PROVE Known(addNote(X, n, t)) = Known(X) \cup {n}
  BY PartsOfAdded DEF Known
<1> QED
  BY <1>1, <1>2, <1>3, <1>4

\* The requests of a load.
LEMMA FirstServed ==
    ASSUME IInv, PhaseInv, UnsavedInv, KeyInv, FirstInv, NEW j \in Jobs, Serve(j),
           job[j].kind # "open"
    PROVE  FirstInv'
<1> DEFINE r == job[j]
           s == job'[j]
<1>0. OthersStay(j) /\ Served(r, s) /\ Stands(r) /\ index' = index /\ vaultLoaded' = vaultLoaded
  BY ServeEffect DEF PhaseInv, Serve, treeVars
<1>1. s.kind = r.kind /\ r.reply = "none" /\ r.kind \notin {"none", "init"}
  BY <1>0, ServedStands DEF Served
<1>2. ASSUME ~vaultLoaded', saved' = Unset
      PROVE  /\ ~vaultLoaded /\ saved = Unset /\ DOMAIN rows' = DOMAIN rows
             /\ s.kind = "load" /\ s.sameKey => OwnList(s, index, DOMAIN rows)
             /\ Saving(r) => Saving(s)
  <2>1. r.kind = "load"
    BY <1>0, <1>1, <1>2 DEF PhaseInv, Stands, WriteKinds
  <2>2. r.sameKey = s.sameKey
    BY <2>1, ServeSteers DEF GoesOn
  <2>3. ~IndexSaved(r, s)
    BY <1>2 DEF IndexSaved, UnsavedInv
  <2>4. Refused(r, s) \/ RowsFlagged(r, s) \/ Got(r, s)
    BY <1>0, <2>1, <2>3 DEF Served, Stands, RowCreated, RowRead, RowWritten, RowDeleted
  <2>5. saved' = saved /\ DOMAIN rows' = DOMAIN rows /\ s.at = r.at
    BY <2>4 DEF Refused, RowsFlagged, Got, Keeps
  <2>6. r.sameKey => OwnList(r, index, DOMAIN rows)
    BY <1>0, <1>2, <2>1, <2>5 DEF FirstInv
  <2>7. r.sameKey => OwnList(s, index, DOMAIN rows)
    <3>1. CASE Refused(r, s) \/ RowsFlagged(r, s)
      <4>1. s.at = r.at /\ s.ids = r.ids /\ s.note = r.note
        BY <3>1 DEF Refused, RowsFlagged, Keeps
      <4>2. s.at \in {"getIndex", "getRows"} => s.reply # "ok"
        BY <3>1, <4>1 DEF Refused, RowsFlagged
      <4> QED
        BY <2>6, <4>1, <4>2 DEF OwnList
    <3>2. CASE Got(r, s)
      BY <1>2, <2>5, <2>6, <3>2 DEF Got, Keeps, OwnList
    <3> QED
      BY <2>4, <3>1, <3>2
  <2>8. Saving(r) => Saving(s)
    <3>1. r.at # "orphans" /\ (r.at = "persist" => s.at = "persist")
      BY <2>4, <2>5 DEF Refused, RowsFlagged, Got, Gets, Posts
    <3> QED
      BY <1>1, <3>1 DEF Saving
  <2> QED
    BY <1>0, <1>2, <2>1, <2>2, <2>5, <2>7, <2>8
<1> QED
  BY <1>0, <1>2, FirstGoesOn

\* The steps of a load.
LEMMA FirstLoaded ==
    ASSUME IInv, PhaseInv, KeyInv, FirstInv, NEW j \in Jobs, Load(j)
    PROVE  FirstInv'
<1> DEFINE r == job[j]
           s == job'[j]
           D == DOMAIN rows
<1>0. OthersStay(j) /\ LoadStep(r, s) /\ Stands(r) /\ rows' = rows /\ saved' = saved
  BY LoadEffect, LoadLeaves DEF PhaseInv
<1>1. /\ r.kind \in {"init", "load"} /\ s.kind \in {"load", "none"}
      /\ vaultLoaded => vaultLoaded'
  BY <1>0, LoadStands
<1>c. index \in Closed /\ r \in GoodFields /\ HasNote(r)
  BY JobFields DEF IInv, IndexInv
<1>2. ASSUME ~vaultLoaded', saved' = Unset
      PROVE  /\ index' = index \/ (r.kind = "load" /\ r.sameKey)
             /\ s.kind = "load" /\ s.sameKey => OwnList(s, index', D)
             /\ Saving(r) => Saving(s)
             /\ Short(index, D) => Short(index', D) \/ Saving(s)
  <2>0. ~vaultLoaded /\ saved = Unset
    BY <1>0, <1>1, <1>2
  <2>1. CASE s = Idle
    <3>1. r.at \in {"session", "getIndex", "getRows", "getOrphan"} /\ index' = index
      BY <1>0, <1>2, <2>1, IdleFields DEF LoadStep
    <3> QED
      BY <2>1, <3>1, IdleFields DEF Saving
  <2>2. CASE r.at = "session" /\ s # Idle
    <3>1. s.at = "getIndex" /\ s.reply = "none" /\ index' = index
      BY <1>0, <2>2 DEF LoadStep
    <3> QED
      BY <2>2, <3>1 DEF OwnList, Saving
  <2>3. CASE r.at # "session" /\ s # Idle
    <3>1. r.kind = "load"
      BY <1>0, <1>1, <2>3 DEF Stands
    <3>2. \/ LoadSteered(r, s) /\ r.at \notin {"persist", "flag"}
          \/ LoadLeft(r, s) /\ r.at \in {"orphans", "persist"}
      BY <1>0, <2>3, <3>1, LoadSteers
    <3>3. s.sameKey = r.sameKey
      BY <2>3, <3>2 DEF LoadSteered, LoadLeft
    <3>4. r.sameKey => OwnList(r, index, D)
      BY <2>0, <3>1 DEF FirstInv
    <3>5. CASE r.at = "getIndex"
      <4>1. /\ s.at = "getRows" /\ s.reply = "none" /\ r.sameKey /\ r.reply = "ok"
            /\ index' = (IF r.body = Unset THEN index ELSE r.body)
        BY <1>0, <2>3, <3>2, <3>5 DEF LoadStep, LoadSteered
      <4>2. index' = index
        BY <3>4, <3>5, <4>1 DEF OwnList
      <4> QED
        BY <3>5, <4>1, <4>2 DEF OwnList, Saving
    <3>6. CASE r.at = "getRows"
      <4>1. /\ s.at = "orphans" /\ r.sameKey /\ r.reply = "ok"
            /\ s.ids = orphanIds(index, r.listed) /\ index' = reconcile(index, r.listed)
        BY <1>0, <2>3, <3>2, <3>6 DEF LoadStep, LoadSteered
      <4>2. r.listed = D
        BY <3>4, <3>6, <4>1 DEF OwnList
      <4>3. s.ids = D \ Known(index) /\ Known(index') = Known(index) \cap D
        BY <1>c, <4>1, <4>2, KnownOf
      <4> QED
        BY <3>1, <3>6, <4>1, <4>3 DEF OwnList, Saving, Short
    <3>7. CASE r.at = "orphans"
      <4>1. CASE s.at = "getOrphan"
        <5>1. s.note \in r.ids /\ s.ids = r.ids \ {s.note} /\ index' = index
          BY <1>0, <2>3, <3>7, <4>1 DEF LoadStep
        <5> QED
          BY <3>3, <3>4, <3>7, <4>1, <5>1 DEF OwnList, Saving
      <4>2. CASE s.at # "getOrphan"
        <5>1. s.at = "persist" /\ s.kind = "load" /\ index' = index
          BY <1>0, <1>1, <1>2, <2>3, <3>7, <4>2, <3>1 DEF LoadStep, Keeps
        <5> QED
          BY <5>1 DEF OwnList, Saving
      <4> QED
        BY <4>1, <4>2
    <3>8. CASE r.at = "getOrphan"
      <4>1. s.at = "orphans" /\ s.ids = r.ids /\ s.kind = "load" /\ s.reply = "none"
        BY <1>0, <2>3, <3>1, <3>8 DEF LoadStep, Keeps
      <4>2. LoadSteered(r, s)
        BY <3>2, <3>8
      <4>3. CASE r.reply # "ok"
        <5>1. index' = index
          BY <3>8, <4>2, <4>3 DEF LoadSteered
        <5> QED
          BY <3>3, <3>4, <3>8, <4>1, <5>1 DEF OwnList, Saving
      <4>4. CASE r.reply = "ok"
        <5>1. r.sameKey /\ index' = addNote(index, r.note, r.flag)
          BY <3>8, <4>2, <4>4 DEF LoadSteered
        <5>2. r.note \in Notes /\ r.flag \in BOOLEAN
          BY <1>c, <3>8 DEF HasNote, GoodFields
        <5>3. Known(index') = Known(index) \cup {r.note}
          BY <1>c, <5>1, <5>2, KnownOf
        <5>4. r.ids \subseteq D \ Known(index) /\ r.note \notin r.ids
          BY <3>4, <3>8, <5>1 DEF OwnList
        <5>5. OwnList(s, index', D)
          BY <4>1, <5>3, <5>4 DEF OwnList
        <5>6. D \subseteq Known(index') => Saving(s)
          BY <4>1, <5>3, <5>4 DEF Saving
        <5> QED
          BY <3>1, <3>8, <5>1, <5>5, <5>6 DEF Saving, Short
      <4> QED
        BY <4>3, <4>4
    <3>9. CASE r.at \in {"persist", "flag"}
      <4>1. vaultLoaded'
        BY <1>0, <3>9 DEF LoadStep
      <4> QED
        BY <1>2, <4>1
    <3> QED
      BY <1>0, <2>3, <3>1, <3>5, <3>6, <3>7, <3>8, <3>9 DEF Stands
  <2> QED
    BY <2>1, <2>2, <2>3
<1> QED
  BY <1>0, <1>1, <1>2, FirstGoesOn

\* The jobs stay as they are, but for what steers them.
LEMMA FirstTouched ==
    ASSUME FirstInv, UNCHANGED <<saved, index, vaultLoaded>>,
           saved = Unset => DOMAIN rows' = DOMAIN rows,
           \A k \in Jobs : /\ Keeps(job[k], job'[k], {}) /\ job'[k].reply = job[k].reply
                           /\ job'[k].sameKey => job[k].sameKey
    PROVE  FirstInv'
<1> SUFFICES ASSUME ~vaultLoaded, saved = Unset
             PROVE  /\ \A k \in Jobs : job'[k].kind = "load" /\ job'[k].sameKey =>
                           OwnList(job'[k], index, DOMAIN rows)
                    /\ Short(index, DOMAIN rows) \/ \E k \in Jobs : Saving(job'[k])
  BY DEF FirstInv
<1>1. ASSUME NEW k \in Jobs, job'[k].kind = "load", job'[k].sameKey
      PROVE  OwnList(job'[k], index, DOMAIN rows)
  <2>1. OwnList(job[k], index, DOMAIN rows)
    BY <1>1 DEF Keeps, FirstInv
  <2>2. /\ job'[k].at = job[k].at /\ job'[k].reply = job[k].reply /\ job'[k].note = job[k].note
        /\ job'[k].ids = job[k].ids /\ job'[k].body = job[k].body /\ job'[k].listed = job[k].listed
    BY DEF Keeps
  <2> QED
    BY <2>1, <2>2 DEF OwnList
<1>2. \A k \in Jobs : Saving(job[k]) => Saving(job'[k])
  BY DEF Keeps, Saving
<1> QED
  BY <1>1, <1>2 DEF FirstInv

\* A note being opened is none of it.
LEMMA FirstOpening ==
    ASSUME FirstInv, KeyInv, NEW j \in Jobs, OthersStay(j),
           {job[j].kind, job'[j].kind} \subseteq {"none", "open"},
           UNCHANGED <<rows, saved, index, vaultLoaded>>
    PROVE  FirstInv'
<1>1. ~Saving(job[j]) /\ job'[j].kind # "load"
  BY DEF Saving
<1> QED
  BY <1>1, FirstGoesOn

\* Every step keeps to it, until writes have crossed.
LEMMA FirstStep ==
    ASSUME Waited', IInv, PhaseInv, FlagInv, UnsavedInv, KeyInv, FirstInv, [Next]_vars
    PROVE  FirstInv'
<1>k. \A k \in Jobs : Keeps(job[k], job[k], {})
  BY DEF Keeps
<1>1. ASSUME NEW j \in Jobs, Serve(j) PROVE FirstInv'
  <2>1. CASE job[j].kind = "open"
    BY <1>1, <2>1, OpenLeaves, FirstOpening DEF PhaseInv
  <2> QED
    BY <1>1, <2>1, FirstServed
<1>2. ASSUME NEW j \in Jobs, Load(j) PROVE FirstInv'
  BY <1>2, FirstLoaded
<1>3. ASSUME NEW j \in Jobs, Continue(j) PROVE FirstInv'
  <2> DEFINE r == job[j]
             s == job'[j]
  <2>1. /\ OthersStay(j) /\ ContinueStep(r, s) /\ Stands(r)
        /\ UNCHANGED <<rows, saved, vaultLoaded>>
    BY <1>3, ContinueEffect DEF PhaseInv
  <2>o. CASE r.kind = "open"
    BY <1>3, <2>1, <2>o, OpenLeaves, FirstOpening
  <2>2. ASSUME ~vaultLoaded, r.kind # "open"
        PROVE  /\ index' = index
               /\ s.kind = "load" => OwnList(s, index, DOMAIN rows)
               /\ ~Saving(r)
    <3>1. r.kind = "load"
      BY <2>1, <2>2, ContinueStands DEF PhaseInv, Stands, WriteKinds
    <3>2. r.at = "flag" /\ index' = index
      BY <1>3, <2>1, <3>1, ContinueSteers DEF ContinueStep
    <3>3. s = Idle \/ s.at = "flag"
      BY <2>1, <3>1, <3>2 DEF ContinueStep, Keeps
    <3> QED
      BY <3>2, <3>3, IdleFields DEF OwnList, Saving
  <2> QED
    BY <2>1, <2>2, <2>o, FirstGoesOn
<1>4. ASSUME NEW j \in Jobs, User(j) PROVE FirstInv'
  <2>1. CASE job'[j].kind = "open"
    BY <1>4, <2>1, OpenLeaves, FirstOpening DEF PhaseInv
  <2>2. CASE job'[j].kind # "open"
    BY <1>4, <2>2, BegunWriting DEF FirstInv
  <2> QED
    BY <2>1, <2>2
<1>5. CASE UNCHANGED <<rows, saved, index, vaultLoaded, job>>
  BY <1>5, <1>k, FirstTouched
<1>6. CASE onLock \/ SweepDelete
  <2>1. UNCHANGED <<saved, index, vaultLoaded>>
    BY <1>6 DEF onLock, SweepDelete, serverVars, treeVars
  <2>2. saved = Unset => rows' = rows
    BY <1>6 DEF onLock, SweepDelete, serverVars, UnsavedInv
  <2> QED
    BY <1>6, <2>1, <2>2, TouchedEffect, TouchedSteers, FirstTouched
<1>7. CASE onUnlock
  <2>0. UNCHANGED <<rows, saved, index, vaultLoaded>>
    BY <1>7 DEF onUnlock, serverVars, treeVars
  <2>1. CASE UNCHANGED job
    BY <1>5, <2>0, <2>1
  <2>2. ASSUME NEW j \in Jobs, job[j].at = "idle", loadVault(j) PROVE FirstInv'
    <3>1. /\ OthersStay(j)
          /\ job'[j].kind = "load" /\ job'[j].at = "getIndex" /\ job'[j].reply = "none"
      BY <2>2, LoadBegun
    <3>2. OwnList(job'[j], index, DOMAIN rows) /\ ~Saving(job[j])
      BY <2>2, <3>1 DEF OwnList, Saving
    <3> QED
      BY <2>0, <3>1, <3>2, FirstGoesOn
  <2> QED
    BY <1>7, <2>1, <2>2 DEF onUnlock
<1>8. CASE Reload
  <2>1. index' = createEmpty
    BY <1>8 DEF Reload
  <2>2. Known(index') = {}
    BY <2>1, PartsOfEmpty DEF Known
  <2>3. \A k \in Jobs : job'[k].kind # "load"
    BY <1>8, ReloadEffect
  <2> QED
    BY <2>2, <2>3 DEF FirstInv, Short
<1>9. CASE Type \/ NewNote \/ SweepSelect \/ UNCHANGED vars
  BY <1>5, <1>9 DEF Type, NewNote, SweepSelect, serverVars, treeVars, vars
<1> QED
  BY <1>1, <1>2, <1>3, <1>4, <1>6, <1>7, <1>8, <1>9 DEF Next

\* The rows a load has yet to put into the index.
Left(r) == IF r.at = "getOrphan" THEN r.ids \cup {r.note} ELSE r.ids

\* What an undisturbed load has got so far, the index of the tab being X and the saved
\* one Y, over the rows D of which F are flagged: each answer is still true, what the
\* index lacks is still to be asked for, and an index that differs will be saved.
CalmOK(r, X, Y, D, F) ==
    /\ r.sameKey /\ r.reply \in {"none", "ok"}
    /\ r.at = "getIndex" /\ r.reply = "ok" => r.body = Y
    /\ r.at = "getRows" =>
        /\ Y = Unset \/ X = Y
        /\ r.reply = "ok" => r.listed = D /\ r.flagged = F
    /\ r.at \in {"orphans", "getOrphan"} =>
        /\ r.flagged = F /\ Known(X) \subseteq D /\ Left(r) = D \ Known(X)
        /\ r.changed \/ X = Y \/ (Y = Unset /\ (Known(X) = {} \/ Left(r) # {}))
    /\ r.at = "getOrphan" => r.note \notin r.ids
    /\ r.at = "persist" =>
        /\ r.flagged = F /\ r.body = X /\ Known(X) = D
        /\ r.reply = "ok" => Y = X
    /\ r.at = "flag" =>
        /\ Known(Y) = D
        /\ IF r.flag /\ r.reply = "none" THEN TrashIn(Y) \ F \subseteq r.ids ELSE TrashIn(Y) \subseteq F

\* An undisturbed load is alone, may write, and has loaded nothing before it repairs flags.
Calm(j) ==
    /\ Alone(j) /\ ~readOnly
    /\ job[j].at # "flag" => ~vaultLoaded
    /\ CalmOK(job[j], index, saved, DOMAIN rows, Flagged)

CalmInv == \A j \in Jobs : job[j].kind = "load" /\ job[j].calm => Calm(j)

\* It is enough to look at the job of a step.
LEMMA CalmGoesOn ==
    ASSUME CalmInv, NEW j \in Jobs, OthersStay(j), job[j].kind \notin {"none", "open"},
           job'[j].kind = "load" /\ job'[j].calm =>
               /\ Alone(j) /\ ~readOnly'
               /\ job'[j].at # "flag" => ~vaultLoaded'
               /\ CalmOK(job'[j], index', saved', DOMAIN rows', Flagged')
    PROVE  CalmInv'
<1>1. job'[j].kind = "load" /\ job'[j].calm => Calm(j)'
  BY DEF Calm, Alone, OthersStay
<1>2. \A k \in Jobs \ {j} : ~(job'[k].kind = "load" /\ job'[k].calm)
  BY DEF CalmInv, Calm, Alone, OthersStay
<1> QED
  BY <1>1, <1>2 DEF CalmInv

\* A note being opened is none of it.
LEMMA CalmOpening ==
    ASSUME CalmInv, NEW j \in Jobs, OthersStay(j),
           {job[j].kind, job'[j].kind} \subseteq {"none", "open"},
           UNCHANGED <<rows, saved, index, vaultLoaded, readOnly>>
    PROVE  CalmInv'
<1>1. ASSUME NEW k \in Jobs, job'[k].kind = "load", job'[k].calm
      PROVE  Calm(k)'
  <2>1. k # j /\ job'[k] = job[k]
    BY <1>1 DEF OthersStay
  <2>2. Calm(k)
    BY <1>1, <2>1 DEF CalmInv
  <2>3. Alone(k)'
    BY <2>2 DEF Calm, Alone, OthersStay
  <2> QED
    BY <2>1, <2>2, <2>3 DEF Calm, Flagged
<1> QED
  BY <1>1 DEF CalmInv

\* The requests.
LEMMA CalmServed ==
    ASSUME IInv, PhaseInv, FlagInv, CalmInv, NEW j \in Jobs, Serve(j), job[j].kind # "open"
    PROVE  CalmInv'
<1> DEFINE r == job[j]
           s == job'[j]
           D == DOMAIN rows
           F == Flagged
<1>0. /\ OthersStay(j) /\ Served(r, s) /\ Stands(r)
      /\ index' = index /\ vaultLoaded' = vaultLoaded /\ readOnly' = readOnly
  BY ServeEffect DEF PhaseInv, Serve, treeVars, keyVars
<1>1. s.kind = r.kind /\ r.reply = "none" /\ r.kind \notin {"none", "open"}
  BY <1>0, ServedStands DEF Served
<1>2. ASSUME s.kind = "load", s.calm
      PROVE  /\ Alone(j) /\ ~readOnly'
             /\ s.at # "flag" => ~vaultLoaded'
             /\ CalmOK(s, index', saved', DOMAIN rows', Flagged')
  <2>1. r.kind = "load" /\ s.reply # "no" /\ s.reply # "gone" /\ GoesOn(r, s)
    BY <1>1, <1>2, ServeSteers
  <2>2. r.calm /\ Calm(j) /\ s.sameKey = r.sameKey /\ s.changed = r.changed
    BY <1>2, <2>1 DEF GoesOn, CalmInv
  <2>c. CalmOK(r, index, saved, D, F)
    BY <2>2 DEF Calm
  <2>3. \/ r.at = "persist" /\ IndexSaved(r, s)
        \/ r.at = "flag" /\ RowsFlagged(r, s)
        \/ Got(r, s)
    BY <1>0, <2>1 DEF Served, Stands, Refused, IndexSaved, RowCreated, RowRead, RowWritten,
                      RowDeleted, RowsFlagged
  <2>4. s.at = r.at /\ s.reply = "ok"
    BY <2>1, <2>3 DEF IndexSaved, RowsFlagged, Got, Keeps
  <2>5. CalmOK(s, index, saved', DOMAIN rows', Flagged')
    <3>1. CASE r.at = "persist" /\ IndexSaved(r, s)
      <4>1. rows' = rows /\ saved' = r.body /\ Flagged' = F /\ s.flagged = r.flagged /\ s.body = r.body
        BY <3>1 DEF IndexSaved, Keeps, Flagged
      <4> QED
        BY <2>2, <2>4, <2>c, <3>1, <4>1 DEF CalmOK
    <3>2. CASE r.at = "flag" /\ RowsFlagged(r, s)
      <4>1. /\ saved' = saved /\ s.ids = r.ids /\ s.flag = r.flag
            /\ rows' = [n \in DOMAIN rows |->
                            IF n \in r.ids THEN [rows[n] EXCEPT !.trashed_at = r.flag] ELSE rows[n]]
        BY <3>2 DEF RowsFlagged, Keeps
      <4>2. r.flag \in BOOLEAN
        BY JobFields DEF GoodFields
      <4>3. DOMAIN rows' = D /\ Flagged' = IF r.flag THEN F \cup (r.ids \cap D) ELSE F \ r.ids
        BY <4>1, <4>2, RowsMarked
      <4>4. Known(saved) = D
        BY <2>c, <3>2 DEF CalmOK
      <4>5. TrashIn(saved) \subseteq Flagged'
        <5>1. CASE r.flag
          <6>1. TrashIn(saved) \ F \subseteq r.ids
            BY <1>1, <2>c, <3>2, <5>1 DEF CalmOK
          <6> QED
            BY <4>3, <4>4, <5>1, <6>1 DEF Known
        <5>2. CASE ~r.flag
          <6>1. LoadOK(r, index, D, F, Pending)
            BY <2>1 DEF FlagInv, Loading
          <6>2. r.ids \cap D = {}
            BY <3>2, <4>2, <5>2, <6>1 DEF LoadOK
          <6>3. TrashIn(saved) \subseteq F
            BY <2>c, <3>2, <5>2 DEF CalmOK
          <6> QED
            BY <4>3, <4>4, <5>2, <6>2, <6>3 DEF Known
        <5> QED
          BY <5>1, <5>2
      <4> QED
        BY <2>2, <2>4, <2>c, <3>2, <4>1, <4>3, <4>4, <4>5 DEF CalmOK
    <3>3. CASE Got(r, s)
      <4>1. rows' = rows /\ saved' = saved /\ Flagged' = F
        BY <3>3 DEF Got, Flagged
      <4>2. CASE r.at = "getIndex"
        <5>1. s.body = saved
          BY <3>3, <4>2 DEF Got
        <5> QED
          BY <2>2, <2>4, <2>c, <4>1, <4>2, <5>1 DEF CalmOK
      <4>3. CASE r.at = "getRows"
        <5>1. s.listed = D /\ s.flagged = F
          BY <3>3, <4>3 DEF Got
        <5> QED
          BY <2>2, <2>4, <2>c, <4>1, <4>3, <5>1 DEF CalmOK
      <4>4. CASE r.at = "getOrphan"
        <5>1. s.ids = r.ids /\ s.note = r.note /\ s.flagged = r.flagged
          BY <3>3, <4>4 DEF Got, Keeps
        <5>2. Left(s) = Left(r)
          BY <2>4, <5>1 DEF Left
        <5> QED
          BY <2>2, <2>4, <2>c, <4>1, <4>4, <5>1, <5>2 DEF CalmOK
      <4> QED
        BY <1>0, <2>1, <3>3, <4>2, <4>3, <4>4 DEF Got, Stands
    <3> QED
      BY <2>3, <3>1, <3>2, <3>3
  <2> QED
    BY <1>0, <2>2, <2>4, <2>5 DEF Calm
<1> QED
  BY <1>0, <1>1, <1>2, CalmGoesOn

\* Where the index on the server has just the rows, and in Trash just those flagged.
LEMMA AgreeFrom ==
    ASSUME IInv, saved # Unreadable, Known(saved) = DOMAIN rows,
           TrashIn(saved) \subseteq Flagged, Vouched(saved, Flagged)
    PROVE  Agree
<1>1. CASE saved = Unset
  <2>1. DOMAIN rows = {}
    BY <1>1 DEF Known, ActiveIn, TrashIn
  <2>2. DOMAIN createEmpty.notes = {}
    BY DEF createEmpty
  <2> QED
    BY <1>1, <2>1, <2>2, VaultAssumption DEF Agree
<1>2. CASE saved # Unset
  <2>1. saved \in Closed
    BY <1>2 DEF IInv, ServerInv
  <2>2. /\ ActiveIn(saved) = {n \in DOMAIN saved.notes : ~saved.notes[n].trashed}
        /\ TrashIn(saved) = {n \in DOMAIN saved.notes : saved.notes[n].trashed}
        /\ Known(saved) = DOMAIN saved.notes
    BY <2>1, IndexParts DEF Known
  <2>3. ASSUME NEW n \in DOMAIN rows
        PROVE  saved.notes[n].trashed = (n \in Flagged)
    <3>1. saved.notes[n].trashed \in BOOLEAN
      BY <2>1, <2>2, FieldsClosed DEF Entry
    <3>2. saved.notes[n].trashed <=> n \in Flagged
      BY <2>2 DEF Vouched
    <3> QED
      BY <3>1, <3>2
  <2> QED
    BY <1>2, <2>2, <2>3 DEF Agree
<1> QED
  BY <1>1, <1>2

\* Leaving out nothing leaves an index as it is.
LEMMA ReconciledSame ==
    ASSUME NEW X \in Closed, NEW R, DOMAIN X.notes \subseteq R
    PROVE  reconcile(X, R) = X
<1>1. DOMAIN X.notes \cap R = DOMAIN X.notes
  OBVIOUS
<1>2. X.notes = [n \in DOMAIN X.notes |-> X.notes[n]] /\ X = [folders |-> X.folders, notes |-> X.notes]
  BY PartialFunctions DEF Closed, VaultIndexData
<1>3. Restrict(X.notes, DOMAIN X.notes \cap R) = X.notes
  BY <1>1, <1>2 DEF Restrict
<1> QED
  BY <1>2, <1>3 DEF reconcile

\* If the load of j was undisturbed and is over, then it has left agreement behind.
Arrived(j) ==
    job[j].kind = "load" /\ job[j].calm /\ job'[j].kind = "none" /\ vaultLoaded' => Agree'

\* The steps of an undisturbed load, and what it has when it has all rows.
LEMMA CalmLoaded ==
    ASSUME IInv, PhaseInv, FlagInv, UnreadableInv, KeyInv, FirstInv, CalmInv, NEW j \in Jobs, Load(j)
    PROVE  CalmInv' /\ Arrived(j)
<1> DEFINE r == job[j]
           s == job'[j]
           D == DOMAIN rows
           F == Flagged
<1>0. OthersStay(j) /\ LoadStep(r, s) /\ Stands(r) /\ rows' = rows /\ saved' = saved
  BY LoadEffect, LoadLeaves DEF PhaseInv
<1>1. r.kind \in {"init", "load"} /\ s.kind \in {"load", "none"} /\ r.at # "idle"
  BY <1>0, LoadStands
<1>c. index \in Closed /\ r \in GoodFields /\ HasNote(r)
  BY JobFields DEF IInv, IndexInv
<1>f. Flagged' = F /\ DOMAIN rows' = D
  BY <1>0 DEF Flagged
<1>goes. ASSUME s.kind = "load" /\ s.calm =>
                    /\ Alone(j) /\ ~readOnly'
                    /\ s.at # "flag" => ~vaultLoaded'
                    /\ CalmOK(s, index', saved, D, F)
         PROVE  CalmInv'
  BY <1>0, <1>1, <1>f, <1>goes, CalmGoesOn
<1>2. CASE r.kind = "init"
  <2>1. r.at = "session"
    BY <1>0, <1>2 DEF Stands
  <2>2. CASE s = Idle
    BY <1>2, <1>goes, <2>2, IdleFields DEF Arrived
  <2>3. CASE s # Idle
    <3>1. s.at = "getIndex" /\ s.reply = "none" /\ vaultLoaded' = vaultLoaded
      BY <1>0, <2>1, <2>3 DEF LoadStep
    <3>2. initialize(j)
      BY <2>1 DEF Load, AfterGetIndex, AfterGetRows, NextOrphan, AfterGetOrphan,
                  OrphansDone, AfterPersist, At
    <3>3. loadVault(j) /\ readOnly' = readOnly
      BY <2>3, <3>2, EndEffect DEF initialize
    <3>4. s.sameKey /\ (s.calm => Alone(j))
      BY <3>3, BeginSteers
    <3>5. ~readOnly /\ ~vaultLoaded
      BY <1>2 DEF KeyInv, PhaseInv
    <3>6. CalmOK(s, index', saved, D, F)
      BY <3>1, <3>4 DEF CalmOK
    <3> QED
      BY <1>2, <1>goes, <3>1, <3>3, <3>4, <3>5, <3>6 DEF Arrived
  <2> QED
    BY <2>2, <2>3
<1>3. CASE r.kind = "load" /\ ~r.calm
  <2>1. s.kind = "load" => ~s.calm
    BY <1>0, <1>3, LoadSteers, IdleFields DEF LoadSteered, LoadLeft
  <2> QED
    BY <1>3, <1>goes, <2>1 DEF Arrived
<1>4. CASE r.kind = "load" /\ r.calm
  <2>1. Calm(j) /\ r.at # "session" /\ r.sameKey
    BY <1>0, <1>4 DEF CalmInv, Calm, CalmOK, Stands
  <2>c. CalmOK(r, index, saved, D, F) /\ (r.at # "flag" => ~vaultLoaded)
    BY <2>1 DEF Calm
  <2>2. CASE s = Idle /\ r.at \in {"getIndex", "getRows", "getOrphan"}
    <3>1. ~vaultLoaded'
      BY <1>0, <2>c, <2>2 DEF LoadStep
    <3> QED
      BY <1>goes, <2>2, <3>1, IdleFields DEF Arrived
  <2>3. CASE /\ UNCHANGED readOnly /\ LoadSteered(r, s)
             /\ r.at \notin {"persist", "flag"} /\ s.at \notin {"flag", "idle"}
             /\ (r.at = "getIndex" => s.at = "getRows") /\ (r.at = "getRows" => s.at = "orphans")
    <3>1. s.kind = "load" /\ s # Idle
      BY <1>0, <1>1, <2>3, LoadStands, IdleFields DEF Stands
    <3>2. r.at \in {"getIndex", "getRows", "orphans", "getOrphan"} /\ s.sameKey = r.sameKey
      BY <1>0, <1>4, <2>3 DEF Stands, LoadSteered
    <3>3. vaultLoaded' = vaultLoaded
      BY <1>0, <2>3, <3>1 DEF LoadStep
    <3>4. ASSUME s.calm PROVE CalmOK(s, index', saved, D, F)
      <4>1. CASE r.at = "getIndex"
        <5>1. /\ s.at = "getRows" /\ s.reply = "none" /\ r.reply = "ok"
              /\ index' = (IF r.body = Unset THEN index ELSE r.body)
          BY <1>0, <2>3, <3>1, <4>1 DEF LoadStep
        <5>2. r.body = saved
          BY <2>c, <4>1, <5>1 DEF CalmOK
        <5> QED
          BY <2>1, <3>2, <5>1, <5>2 DEF CalmOK
      <4>2. CASE r.at = "getRows"
        <5>1. /\ s.at = "orphans" /\ s.reply = "none" /\ r.reply = "ok"
              /\ s.ids = orphanIds(index, r.listed) /\ index' = reconcile(index, r.listed)
              /\ s.flagged = r.flagged
          BY <1>0, <2>3, <3>1, <4>2 DEF LoadStep, Keeps
        <5>2. r.listed = D /\ r.flagged = F /\ (saved = Unset \/ index = saved)
          BY <2>c, <4>2, <5>1 DEF CalmOK
        <5>3. s.ids = D \ Known(index) /\ Known(index') = Known(index) \cap D
          BY <1>c, <5>1, <5>2, KnownOf
        <5>4. Left(s) = D \ Known(index')
          BY <5>1, <5>3 DEF Left
        <5>5. ASSUME ~s.changed
              PROVE  index' = saved \/ (saved = Unset /\ (Known(index') = {} \/ Left(s) # {}))
          <6>1. DOMAIN index.notes \subseteq D
            BY <2>3, <4>2, <5>2, <5>5 DEF LoadSteered
          <6>2. index' = index
            BY <1>c, <5>1, <5>2, <6>1, ReconciledSame
          <6>3. ASSUME saved = Unset PROVE Known(index) = {} \/ Left(s) # {}
            <7>1. \A k \in Jobs : ~Saving(job[k])
              <8>1. ~Saving(r)
                BY <4>2 DEF Saving
              <8>2. \A k \in Jobs \ {j} : ~Saving(job[k])
                BY <2>1 DEF Calm, Alone, Saving
              <8> QED
                BY <8>1, <8>2
            <7>2. Short(index, D)
              BY <2>c, <4>2, <6>3, <7>1 DEF FirstInv
            <7> QED
              BY <5>4, <6>2, <7>2 DEF Short
          <6> QED
            BY <5>2, <6>2, <6>3
        <5> QED
          BY <2>1, <3>2, <5>1, <5>2, <5>3, <5>4, <5>5 DEF CalmOK
      <4>3. CASE r.at = "orphans" /\ s.at = "getOrphan"
        <5>1. /\ s.note \in r.ids /\ s.ids = r.ids \ {s.note} /\ index' = index
              /\ s.flagged = r.flagged /\ s.reply = r.reply
          BY <1>0, <3>1, <4>3 DEF LoadStep, Keeps
        <5>2. Left(s) = Left(r) /\ s.changed = r.changed
          BY <2>3, <4>3, <5>1 DEF Left, LoadSteered
        <5> QED
          BY <2>1, <2>c, <3>2, <4>3, <5>1, <5>2 DEF CalmOK
      <4>4. CASE r.at = "orphans" /\ s.at # "getOrphan"
        <5>1. s.at = "persist" /\ s.body = index /\ index' = index /\ s.flagged = r.flagged
          BY <1>0, <2>3, <3>1, <4>4 DEF LoadStep, Keeps
        <5>2. r.ids = {} /\ s.reply = "none"
          BY <2>3, <3>4, <4>4, <5>1 DEF LoadSteered
        <5>3. Known(index) = D
          BY <2>c, <4>4, <5>2 DEF CalmOK, Left
        <5> QED
          BY <2>1, <2>c, <3>2, <4>4, <5>1, <5>2, <5>3 DEF CalmOK
      <4>5. CASE r.at = "getOrphan"
        <5>1. s.at = "orphans" /\ s.reply = "none" /\ s.ids = r.ids /\ s.flagged = r.flagged
          BY <1>0, <2>3, <3>1, <4>5 DEF LoadStep, Keeps
        <5>2. r.reply \in {"none", "ok"}
          BY <2>c DEF CalmOK
        <5>3. s.changed = TRUE /\ index' = addNote(index, r.note, r.flag)
          BY <2>3, <4>5, <5>2 DEF LoadSteered
        <5>4. r.note \in Notes /\ r.flag \in BOOLEAN
          BY <1>c, <4>5 DEF HasNote, GoodFields
        <5>5. Known(index') = Known(index) \cup {r.note}
          BY <1>c, <5>3, <5>4, KnownOf
        <5>6. /\ r.flagged = F /\ Known(index) \subseteq D /\ r.note \notin r.ids
              /\ r.ids \cup {r.note} = D \ Known(index)
          BY <2>c, <4>5 DEF CalmOK, Left
        <5>7. Known(index') \subseteq D /\ Left(s) = D \ Known(index')
          BY <5>1, <5>5, <5>6 DEF Left
        <5> QED
          BY <2>1, <3>2, <5>1, <5>3, <5>6, <5>7 DEF CalmOK
      <4> QED
        BY <3>2, <4>1, <4>2, <4>3, <4>4, <4>5
    <3> QED
      BY <1>goes, <2>1, <2>3, <2>c, <3>1, <3>2, <3>3, <3>4 DEF Calm, Arrived
  <2>4. CASE UNCHANGED readOnly /\ LoadLeft(r, s) /\ r.at \in {"orphans", "persist"}
    <3>1. /\ Known(index) = D /\ r.flagged = F
          /\ index = saved \/ (saved = Unset /\ Known(index) = {})
      <4>1. CASE r.at = "orphans"
        <5>1. r.ids = {} /\ ~r.changed
          BY <2>4, <4>1 DEF LoadLeft
        <5> QED
          BY <2>c, <4>1, <5>1 DEF CalmOK, Left
      <4>2. CASE r.at = "persist"
        <5>1. r.reply = "ok"
          BY <2>4, <2>c, <4>2 DEF LoadLeft, CalmOK
        <5> QED
          BY <2>c, <4>2, <5>1 DEF CalmOK
      <4> QED
        BY <2>4, <4>1, <4>2
    <3>2. Known(saved) = D /\ TrashIn(saved) \subseteq TrashIn(index)
      BY <3>1 DEF Known, ActiveIn, TrashIn
    <3>3. trashFlagDrift(index, r.flagged, TRUE) = TrashIn(index) \ F
      BY <1>c, <3>1, PartsOfLoaded
    <3>4. \/ s.at = "flag" /\ s.flag = TRUE /\ s.ids = TrashIn(index) \ F
          \/ (s.at = "flag" \/ s = Idle) /\ s.flag = FALSE /\ TrashIn(index) \subseteq F
      BY <2>1, <2>4, <3>3 DEF LoadLeft, Calm
    <3>5. CASE s = Idle
      <4>1. TrashIn(saved) \subseteq F
        BY <3>2, <3>4, <3>5, IdleFields
      <4>2. saved # Unreadable /\ Vouched(saved, F)
        BY <1>4, <2>4 DEF UnreadableInv, FlagInv
      <4>3. Agree
        BY <3>2, <4>1, <4>2, AgreeFrom
      <4>4. Agree'
        BY <1>0, <4>3 DEF Agree, Flagged
      <4> QED
        BY <1>goes, <3>5, <4>4, IdleFields DEF Arrived
    <3>6. CASE s # Idle
      <4>1. s.kind = "load" /\ s.at = "flag" /\ s.reply = "none"
        BY <1>0, <1>4, <2>4, <3>4, <3>6 DEF LoadStep, Keeps
      <4>2. s.sameKey
        BY <2>1, <2>4, <3>6 DEF LoadLeft
      <4>3. IF s.flag /\ s.reply = "none" THEN TrashIn(saved) \ F \subseteq s.ids ELSE TrashIn(saved) \subseteq F
        <5>1. CASE s.flag = TRUE /\ s.ids = TrashIn(index) \ F
          BY <3>2, <4>1, <5>1
        <5>2. CASE s.flag = FALSE /\ TrashIn(index) \subseteq F
          BY <3>2, <5>2
        <5> QED
          BY <3>4, <5>1, <5>2
      <4>4. CalmOK(s, index', saved, D, F)
        BY <3>2, <4>1, <4>2, <4>3 DEF CalmOK
      <4> QED
        BY <1>goes, <2>1, <2>4, <4>1, <4>4 DEF Calm, Arrived
    <3> QED
      BY <3>5, <3>6
  <2> QED
    BY <1>0, <1>4, <2>2, <2>3, <2>4, LoadSteers
<1> QED
  BY <1>1, <1>2, <1>3, <1>4

\* No load: nothing to keep to.
LEMMA NoCalm ==
    ASSUME \A k \in Jobs : ~(job'[k].kind = "load" /\ job'[k].calm)
    PROVE  CalmInv'
BY DEF CalmInv

\* The flags repaired by an undisturbed load, and what it leaves.
LEMMA CalmContinued ==
    ASSUME IInv, PhaseInv, FlagInv, UnreadableInv, CalmInv, NEW j \in Jobs, Continue(j),
           job[j].kind # "open"
    PROVE  CalmInv' /\ Arrived(j)
<1> DEFINE r == job[j]
           s == job'[j]
           D == DOMAIN rows
           F == Flagged
<1>0. /\ OthersStay(j) /\ ContinueStep(r, s) /\ Stands(r)
      /\ rows' = rows /\ saved' = saved /\ vaultLoaded' = vaultLoaded
  BY ContinueEffect DEF PhaseInv
<1>1. r.at # "idle" /\ r.kind \notin {"none", "init"} /\ s.kind \in {r.kind, "none"}
  BY <1>0, ContinueStands
<1>2. readOnly' = readOnly
  BY DEF Continue, AfterOpen, persistNoteRow, AfterRow, AfterDelete, AfterFlag, AfterIndex, keyVars
<1>3. CASE r.kind \in WriteKinds
  <2>1. \A k \in Jobs : job'[k].kind \notin {"init", "load"}
    BY <1>0, <1>1, <1>3, UserGoesOn
  <2> QED
    BY <1>3, <2>1, NoCalm DEF Arrived, WriteKinds
<1>4. CASE r.kind = "load"
  <2>1. r.at = "flag" /\ r.reply # "none" /\ (s = Idle \/ GoesOn(r, s))
    BY <1>0, <1>4, ContinueSteers
  <2>2. ASSUME r.calm
        PROVE  Calm(j) /\ r.sameKey /\ Known(saved) = D /\ TrashIn(saved) \subseteq F
    BY <1>4, <2>1, <2>2 DEF CalmInv, Calm, CalmOK
  <2>3. CASE s = Idle
    <3>1. ASSUME r.calm PROVE Agree'
      <4>1. saved # Unreadable /\ Vouched(saved, F)
        BY <1>4, <2>1 DEF UnreadableInv, FlagInv
      <4>2. Agree
        BY <2>2, <3>1, <4>1, AgreeFrom
      <4> QED
        BY <1>0, <4>2 DEF Agree, Flagged
    <3>2. CalmInv'
      BY <1>0, <1>4, <2>3, IdleFields, CalmGoesOn
    <3> QED
      BY <3>1, <3>2 DEF Arrived
  <2>4. CASE s # Idle
    <3>1. /\ s.at = "flag" /\ s.reply = "none" /\ s.flag = FALSE /\ s.kind = "load"
          /\ index' = index
      BY <1>0, <1>4, <2>1, <2>4 DEF ContinueStep, Keeps
    <3>2. ASSUME s.calm
          PROVE  /\ Alone(j) /\ ~readOnly'
                 /\ CalmOK(s, index', saved', DOMAIN rows', Flagged')
      <4>1. r.calm /\ s.sameKey = r.sameKey
        BY <2>1, <2>4, <3>2 DEF GoesOn
      <4>2. Flagged' = F
        BY <1>0 DEF Flagged
      <4>3. CalmOK(s, index', saved', DOMAIN rows', Flagged')
        BY <1>0, <2>2, <3>1, <4>1, <4>2 DEF CalmOK
      <4> QED
        BY <1>2, <2>2, <4>1, <4>3 DEF Calm
    <3>3. CalmInv'
      BY <1>0, <1>4, <3>1, <3>2, CalmGoesOn
    <3> QED
      BY <3>1, <3>3 DEF Arrived
  <2> QED
    BY <2>3, <2>4
<1> QED
  BY <1>0, <1>1, <1>3, <1>4 DEF Stands, WriteKinds

\* A load that did not take the step is not over by it.
LEMMA OthersArrive ==
    ASSUME NEW j \in Jobs, OthersStay(j), Arrived(j)
    PROVE  \A k \in Jobs : Arrived(k)
BY DEF OthersStay, Arrived

\* Every step keeps to it, and ends an undisturbed load in agreement, until writes have crossed.
LEMMA CalmStep ==
    ASSUME Waited', IInv, PhaseInv, FlagInv, UnreadableInv, KeyInv, FirstInv, CalmInv, [Next]_vars
    PROVE  CalmInv' /\ \A j \in Jobs : Arrived(j)
<1> DEFINE Kept == CalmInv' /\ \A k \in Jobs : Arrived(k)
<1>s. \A k \in Jobs : Stands(job[k])
  BY DEF PhaseInv
<1>1. ASSUME NEW j \in Jobs, Serve(j) PROVE Kept
  <2>1. OthersStay(j) /\ Served(job[j], job'[j]) /\ Stands(job[j])
    BY <1>1, ServeEffect DEF PhaseInv
  <2>2. Arrived(j)
    BY <2>1, ServedStands DEF Arrived
  <2>3. CASE job[j].kind = "open"
    BY <1>1, <1>s, <2>2, <2>3, OpenLeaves, CalmOpening, OthersArrive
  <2> QED
    BY <1>1, <2>1, <2>2, <2>3, CalmServed, OthersArrive
<1>2. ASSUME NEW j \in Jobs, Load(j) PROVE Kept
  <2>1. OthersStay(j)
    BY <1>2, LoadEffect
  <2> QED
    BY <1>2, <2>1, CalmLoaded, OthersArrive
<1>3. ASSUME NEW j \in Jobs, Continue(j) PROVE Kept
  <2>1. OthersStay(j)
    BY <1>3, ContinueEffect
  <2>2. CASE job[j].kind = "open"
    <3>1. Arrived(j)
      BY <2>2 DEF Arrived
    <3> QED
      BY <1>3, <1>s, <2>2, <3>1, OpenLeaves, CalmOpening, OthersArrive
  <2> QED
    BY <1>3, <2>1, <2>2, CalmContinued, OthersArrive
<1>4. ASSUME NEW j \in Jobs, User(j) PROVE Kept
  <2>1. CASE job'[j].kind = "open"
    <3>1. OthersStay(j) /\ CalmInv' /\ job[j].kind # "load"
      BY <1>4, <1>s, <2>1, OpenLeaves, CalmOpening
    <3>2. Arrived(j)
      BY <3>1 DEF Arrived
    <3> QED
      BY <3>1, <3>2, OthersArrive
  <2>2. CASE job'[j].kind # "open"
    <3>1. /\ OthersStay(j) /\ job'[j].kind \in WriteKinds
          /\ \A k \in Jobs \ {j} : job'[k].kind \in {"none", "open"}
      BY <1>4, <2>2, BegunWriting
    <3>2. \A k \in Jobs : job'[k].kind # "load"
      BY <3>1 DEF WriteKinds
    <3>3. job[j].kind # "load"
      BY <1>4, <1>s, UserEffect DEF Stands
    <3>4. Arrived(j)
      BY <3>3 DEF Arrived
    <3> QED
      BY <3>1, <3>2, <3>4, NoCalm, OthersArrive
  <2> QED
    BY <2>1, <2>2
<1>5. CASE UNCHANGED <<rows, saved, index, vaultLoaded, readOnly, job>>
  BY <1>5 DEF CalmInv, Calm, Alone, Flagged, Arrived
<1>6. CASE onLock \/ SweepDelete
  <2>1. \A k \in Jobs : ~job'[k].calm /\ job'[k].kind = job[k].kind
    BY <1>6, TouchedEffect, TouchedSteers DEF Keeps
  <2> QED
    BY <2>1, NoCalm DEF Arrived
<1>7. CASE onUnlock
  <2>0. /\ masterKey = "dropped" /\ readOnly' = permanentReadOnly
        /\ UNCHANGED <<rows, saved, index, vaultLoaded>>
    BY <1>7 DEF onUnlock, serverVars, treeVars
  <2>1. \A k \in Jobs : ~(job[k].kind = "load" /\ job[k].calm)
    BY <2>0 DEF CalmInv, Calm, CalmOK, KeyInv
  <2>2. CASE UNCHANGED job
    BY <2>1, <2>2, NoCalm DEF Arrived
  <2>3. ASSUME NEW j \in Jobs, job[j].at = "idle", loadVault(j), ~vaultLoaded, ~permanentReadOnly
        PROVE  Kept
    <3>1. /\ OthersStay(j)
          /\ job'[j].kind = "load" /\ job'[j].at = "getIndex" /\ job'[j].reply = "none"
      BY <2>3, LoadBegun
    <3>2. job'[j].sameKey /\ (job'[j].calm => Alone(j))
      BY <2>3, BeginSteers
    <3>3. CalmOK(job'[j], index', saved', DOMAIN rows', Flagged')
      BY <3>1, <3>2 DEF CalmOK
    <3>4. job'[j].calm => Calm(j)'
      BY <2>0, <2>3, <3>1, <3>2, <3>3 DEF Calm, Alone, OthersStay
    <3>5. CalmInv'
      BY <2>1, <3>1, <3>4 DEF CalmInv, OthersStay
    <3>6. Arrived(j)
      BY <3>1 DEF Arrived
    <3> QED
      BY <3>1, <3>5, <3>6, OthersArrive
  <2> QED
    BY <1>7, <2>2, <2>3 DEF onUnlock
<1>8. CASE Reload
  <2>1. ~vaultLoaded'
    BY <1>8 DEF Reload
  <2>2. \A k \in Jobs : job'[k].kind # "load"
    BY <1>8, ReloadEffect
  <2> QED
    BY <2>1, <2>2, NoCalm DEF Arrived
<1>9. CASE Type \/ NewNote \/ SweepSelect \/ UNCHANGED vars
  BY <1>5, <1>9 DEF Type, NewNote, SweepSelect, serverVars, keyVars, treeVars, vars
<1> QED
  BY <1>1, <1>2, <1>3, <1>4, <1>6, <1>7, <1>8, <1>9 DEF Next

\* A page that has just been opened over an empty vault.
LEMMA InitCalm == ASSUME Init PROVE UnsavedInv /\ KeyInv /\ FirstInv /\ CalmInv
<1>1. \A k \in Jobs : job[k].kind \in {"init", "none"} /\ job[k].at \in {"session", "idle"}
  BY InitJobs
<1>2. KeyInv /\ CalmInv
  BY <1>1 DEF Init, Opened, KeyInv, CalmInv
<1>3. UnsavedInv
  BY <1>1 DEF Init, UnsavedInv, Plain, Flagged
<1>4. Known(index) = {}
  BY PartsOfEmpty DEF Init, Opened, Known
<1>5. FirstInv
  BY <1>1, <1>4 DEF FirstInv, Short
<1> QED
  BY <1>2, <1>3, <1>5

\* All of it, for as long as no writes have crossed.
SettleInv == /\ PhaseInv /\ FlagInv /\ UnreadableInv
             /\ UnsavedInv /\ KeyInv /\ FirstInv /\ CalmInv

\* Every step keeps to it.
LEMMA SettleStep ==
    ASSUME Waited', IInv, SettleInv, [Next]_vars
    PROVE  SettleInv' /\ \A j \in Jobs : Arrived(j)
<1> USE DEF SettleInv
<1>1. PhaseInv' /\ FlagInv'
  BY PhaseKept, FlagsKept
<1>2. UnreadableInv'
  <2>1. StandsInv /\ StandsInv' /\ LoadedFirst
    BY <1>1 DEF PhaseInv, StandsInv, LoadedFirst
  <2>2. "early" \notin crossed'
    BY DEF Waited
  <2> QED
    BY <2>1, <2>2, UnreadableStep
<1>3. UnsavedInv' /\ KeyInv' /\ FirstInv'
  BY UnsavedStep, KeyStep, FirstStep
<1>4. CalmInv' /\ \A j \in Jobs : Arrived(j)
  BY CalmStep
<1> QED
  BY <1>1, <1>2, <1>3, <1>4

\* A load that nothing disturbed leaves the index on the server naming exactly the rows
\* there are, each with its flag, whatever it found (loadVault, recoverOrphanRows,
\* trashFlagDrift): entries without a row, rows no index names, flags of an interrupted
\* trash or restore, no index at all; until two changes have crossed, or one the load.
THEOREM VaultLoadSettles == Spec => LoadSettles
<1> DEFINE SInv == IInv /\ (Waited => SettleInv)
<1>1. Init => SInv
  BY InitIInv, InitPhase, InitFlags, InitUnreadable, InitCalm DEF SettleInv
<1>2. SInv /\ [Next]_vars => SInv'
  BY StepIInv, WaitedBefore, SettleStep
<1>3. ASSUME SInv, [Next]_vars
      PROVE  [crossed' \cap {"writes", "early"} = {} =>
                \A j \in Jobs :
                    job[j].kind = "load" /\ job[j].calm /\ job'[j].kind = "none" /\ vaultLoaded'
                        => Agree']_vars
  <2>1. ASSUME Waited' PROVE \A j \in Jobs : Arrived(j)
    BY <1>3, <2>1, WaitedBefore, SettleStep
  <2>2. crossed' \cap {"writes", "early"} = {} => \A j \in Jobs : Arrived(j)
    BY <2>1 DEF Waited
  <2> QED
    BY <2>2 DEF Arrived
<1>4. SInv /\ [Next]_vars =>
          [crossed' \cap {"writes", "early"} = {} =>
              \A j \in Jobs :
                  job[j].kind = "load" /\ job[j].calm /\ job'[j].kind = "none" /\ vaultLoaded'
                      => Agree']_vars
  BY <1>3
<1> HIDE DEF SInv
<1> QED
  BY <1>1, <1>2, <1>4, PTL DEF Spec, LoadSettles
=============================================================================
