----------------------------- MODULE VaultIndex -----------------------------
(***************************************************************************)
(* The operations of the note vault's index (static/note/js/vault-index.js)*)
(* on the value they work on: the folders, and for each indexed note the   *)
(* folder it is in and whether it is in Trash.  Names, sort order and time *)
(* stamps are left out, so a rename, a reordering and touchNote are the    *)
(* identity here.  The code keeps entries in an array; two entries of one  *)
(* id, which addNote would allow, are one entry here.                      *)
(***************************************************************************)
EXTENDS Functions

CONSTANTS
    Notes,    \* the ids a server row can get
    Folders,  \* the ids a folder can get
    Root      \* folderId null

ASSUME IndexAssumption == Root \notin Folders

Entry == [folder : Folders \cup {Root}, trashed : BOOLEAN]
VaultIndexData == [folders : SUBSET Folders, notes : UNION {[S -> Entry] : S \in SUBSET Notes}]

createEmpty == [folders |-> {}, notes |-> [n \in {} |-> Root]]

folderOrRoot(index, f) == IF f \in index.folders THEN f ELSE Root

\* index with each note of its map that is in S replaced by New of its entry.
EditNotes(index, S, New(_)) ==
    [index EXCEPT !.notes = [n \in DOMAIN @ |-> IF n \in S THEN New(@[n]) ELSE @[n]]]

addFolder(index, f) == [index EXCEPT !.folders = @ \cup {f}]

deleteFolder(index, f) ==
    LET held == {n \in DOMAIN index.notes : index.notes[n].folder = f}
        Emptied == EditNotes(index, held, LAMBDA e : [folder |-> Root, trashed |-> TRUE])
    IN  [Emptied EXCEPT !.folders = @ \ {f}]

\* Mutant: the folder a caller does not pass is left undefined.
addNote_NoFolder(index, n, trashed) ==
    [index EXCEPT !.notes = [m \in DOMAIN @ \cup {n} |-> IF m = n THEN [trashed |-> trashed] ELSE @[m]]]

\* folderId is not passed by either caller: a note is added at the root.
addNote(index, n, trashed) ==
    [index EXCEPT !.notes =
        [m \in DOMAIN @ \cup {n} |-> IF m = n THEN [folder |-> Root, trashed |-> trashed] ELSE @[m]]]

\* Mutant: the folder is not looked up.
moveNote_Unchecked(index, n, f) ==
    EditNotes(index, {n}, LAMBDA e : [e EXCEPT !.folder = f])

moveNote(index, n, f) ==
    EditNotes(index, {n}, LAMBDA e : [e EXCEPT !.folder = folderOrRoot(index, f)])

trashNote(index, n) == EditNotes(index, {n}, LAMBDA e : [e EXCEPT !.trashed = TRUE])

restoreNote(index, n) ==
    EditNotes(index, {n}, LAMBDA e : [folder |-> folderOrRoot(index, e.folder), trashed |-> FALSE])

removeNote(index, n) == [index EXCEPT !.notes = Restrict(@, DOMAIN @ \ {n})]

\* reconcile: what is left of the index, and the rows it does not know.
reconcile(index, rowIds) == [index EXCEPT !.notes = Restrict(@, DOMAIN @ \cap rowIds)]
orphanIds(index, rowIds) == rowIds \ DOMAIN index.notes

\* Mutant: only restores are repaired.
trashFlagDrift_RestoreOnly(index, flagged, v) ==
    {n \in DOMAIN index.notes : ~v /\ ~index.notes[n].trashed /\ n \in flagged}

\* trashFlagDrift: the ids whose Trash flag on the server must become v.
trashFlagDrift(index, flagged, v) ==
    {n \in DOMAIN index.notes : index.notes[n].trashed = v /\ (n \in flagged) # v}

\* A note is at the root or in a folder of the index.
FoldersExist(index) ==
    \A n \in DOMAIN index.notes : index.notes[n].folder \in index.folders \cup {Root}
=============================================================================
