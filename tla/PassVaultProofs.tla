-------------------------- MODULE PassVaultProofs ---------------------------
(***************************************************************************)
(* PassVault, proved for every set of shares and tags and every bound: its *)
(* safety invariants, that no save drops the key of a live share, and that *)
(* the sweep spares the live rows and nears its end.                       *)
(***************************************************************************)
EXTENDS PassVault, FiniteSetTheorems, TLAPS

-----------------------------------------------------------------------------
(* The inductive invariant *)

\* What each handler is, by the await it stands at.
HandlerInv ==
    \A h \in Handlers :
        LET r == handler[h]
        IN  /\ r.at = "idle" => r = Idle
            /\ r.at = "import" => r.reply = "none"
            /\ r.at \in {"import", "fetch"} => r.key \in 1 .. MaxLocks + 1
            /\ r.epoch <= lockEpoch
            /\ r.at = "save" => /\ r.body \in Lists
                                /\ r.epoch = lockEpoch => masterKey # 0
            /\ r.at = "revoke" =>
                  \E s \in Shares : /\ r.share = {s}
                                    /\ r.reply = "ok" => row[s] = "gone"

\* One save at a time, and isPersisting says so.
SaveInv ==
    /\ \A h \in Handlers :
          handler[h].at = "save" =>
              /\ isPersisting
              /\ \A g \in Handlers : handler[g].at = "save" => g = h
    /\ isPersisting => \E h \in Handlers : handler[h].at = "save"

\* What is listed anywhere was created.
Made == {s \in Shares : row[s] # "none"}
MadeInv ==
    /\ DOMAIN userShares \subseteq Made
    /\ DOMAIN Stored \subseteq Made
    /\ \A h \in Handlers :
        /\ handler[h].share \subseteq Made
        /\ handler[h].body \in Lists => DOMAIN handler[h].body \subseteq Made
        /\ DOMAIN handler[h].prev \subseteq Made

\* The order the page counts on, as long as nothing has disturbed it.
OrderInv ==
    ~disturbed =>
        /\ \A h \in Handlers :
              handler[h].at = "fetch" =>
                  /\ ~loaded
                  /\ \A g \in Handlers : g = h \/ handler[g].at \in {"idle", "import"}
                  /\ handler[h].reply = "ok" /\ handler[h].key = masterKey =>
                         handler[h].body = blob
        /\ \A h \in Handlers :
              /\ handler[h].at \in {"create", "revoke"} => loaded \/ masterKey = 0
              /\ handler[h].at = "save" => loaded \/ handler[h].epoch # lockEpoch
        /\ loaded => \A h, g \in Handlers :
              {handler[h].at, handler[g].at} \subseteq {"create", "revoke", "save"} => g = h
        /\ ~loaded => userShares = EmptyList
        /\ ~loaded /\ masterKey # 0 =>
              \/ disabled
              \/ \E h \in Handlers : handler[h].at = "fetch" /\ handler[h].key = masterKey

\* A page in that order shows what is stored, or has a save under way that
\* will make it so.
QuietInv ==
    loaded /\ ~disturbed =>
        /\ (\A h \in Handlers : handler[h].at # "save") => userShares = Stored
        /\ \A h \in Handlers :
              handler[h].at = "save" =>
                  /\ handler[h].epoch = lockEpoch
                  /\ handler[h].reply # "ok" => handler[h].prev = Stored
                  /\ handler[h].reply \in {"none", "ok"} => userShares = handler[h].body
                  /\ handler[h].reply = "ok" => handler[h].body = Stored

\* A save under way drops nothing but what is gone.
KeepInv ==
    ~disturbed =>
        \A h \in Handlers :
            handler[h].at = "save" /\ handler[h].reply = "none" =>
                \A s \in DOMAIN Stored \ DOMAIN handler[h].body : row[s] = "gone"

\* The inductive invariant: the types and what the parts above say together.
IInv ==
    /\ TypeOK
    /\ HandlerInv
    /\ LockedShowsNothing
    /\ SaveInv
    /\ MadeInv
    /\ OrderInv
    /\ QuietInv
    /\ KeepInv

-----------------------------------------------------------------------------
(* Lists of shares *)

\* The partial functions from D to R, by their domain and values.
LEMMA PartialFunctions ==
    ASSUME NEW D, NEW R, NEW f
    PROVE  f \in UNION {[S -> R] : S \in SUBSET D}
               <=> /\ f = [x \in DOMAIN f |-> f[x]]
                   /\ DOMAIN f \subseteq D
                   /\ \A x \in DOMAIN f : f[x] \in R
<1>1. ASSUME f \in UNION {[S -> R] : S \in SUBSET D}
      PROVE  /\ f = [x \in DOMAIN f |-> f[x]]
             /\ DOMAIN f \subseteq D
             /\ \A x \in DOMAIN f : f[x] \in R
  <2>1. PICK S \in SUBSET D : f \in [S -> R]
    BY <1>1
  <2> QED
    BY <2>1
<1>2. ASSUME f = [x \in DOMAIN f |-> f[x]],
             DOMAIN f \subseteq D,
             \A x \in DOMAIN f : f[x] \in R
      PROVE  f \in UNION {[S -> R] : S \in SUBSET D}
  <2>1. f \in [DOMAIN f -> R]
    BY <1>2
  <2> QED
    BY <1>2, <2>1
<1> QED
  BY <1>1, <1>2

\* The empty list is a list.
LEMMA EmptyListed == EmptyList \in Lists /\ DOMAIN EmptyList = {}
<1>1. EmptyList \in [{} -> SUBSET Tags]
  BY DEF EmptyList
<1> QED
  BY <1>1 DEF Lists

\* Listing a share that was created, whatever tags it has.
LEMMA Listed ==
    ASSUME NEW L, L = [s \in DOMAIN L |-> L[s]], DOMAIN L \subseteq Shares,
           \A s \in DOMAIN L : L[s] \in SUBSET Tags
    PROVE  L \in Lists
<1>1. L \in [DOMAIN L -> SUBSET Tags]
  OBVIOUS
<1> QED
  BY <1>1 DEF Lists

\* What a list is.
LEMMA ListParts ==
    ASSUME NEW L \in Lists
    PROVE  /\ L = [s \in DOMAIN L |-> L[s]]
           /\ DOMAIN L \subseteq Shares
           /\ \A s \in DOMAIN L : L[s] \in SUBSET Tags
<1>1. PICK S \in SUBSET Shares : L \in [S -> SUBSET Tags]
  BY DEF Lists
<1> QED
  BY <1>1

\* What the stored blob lists is a list.
LEMMA StoredListed ==
    ASSUME blob \in Lists \cup {NoBlob}
    PROVE  Stored \in Lists
BY EmptyListed DEF Stored

-----------------------------------------------------------------------------
(* Handlers *)

\* h stands at another await, or its request is answered; no other handler moves.
Moves(h, at, reply, share, key, epoch, body, prev) ==
    /\ handler' \in [Handlers -> Handler]
    /\ handler'[h].at = at /\ handler'[h].reply = reply
    /\ handler'[h].share = share
    /\ handler'[h].key = key /\ handler'[h].epoch = epoch
    /\ handler'[h].body = body /\ handler'[h].prev = prev
    /\ \A g \in Handlers : g # h => handler'[g] = handler[g]

\* The fields of a handler have their types.
LEMMA Fields ==
    ASSUME TypeOK, NEW h \in Handlers
    PROVE  /\ handler[h].at \in {"idle", "import", "fetch", "create", "revoke", "save"}
           /\ handler[h].reply \in {"none", "ok", "no", "gone"}
           /\ handler[h].share \in SUBSET Shares
           /\ handler[h].key \in Nat /\ handler[h].epoch \in Nat
           /\ handler[h].body \in Lists \cup {NoBlob}
           /\ handler[h].prev \in Lists
BY DEF TypeOK, Handler

\* The fields of a handler that is idle.
LEMMA IdleFields ==
    /\ Idle \in Handler
    /\ Idle.at = "idle" /\ Idle.reply = "none" /\ Idle.share = {} /\ Idle.key = 0
    /\ Idle.epoch = 0 /\ Idle.body = NoBlob /\ Idle.prev = EmptyList
BY EmptyListed DEF Idle, Handler

\* A handler is put at another await.
LEMMA PutMoves ==
    ASSUME handler \in [Handlers -> Handler], NEW h \in Handlers, NEW r \in Handler, Put(h, r)
    PROVE  /\ Moves(h, r.at, r.reply, r.share, r.key, r.epoch, r.body, r.prev)
           /\ handler'[h] = r
BY DEF Put, Moves

\* An answer changes nothing but the reply.
LEMMA AnswerMoves ==
    ASSUME handler \in [Handlers -> Handler], NEW h \in Handlers,
           NEW reply \in {"none", "ok", "no", "gone"}, Answer(h, reply)
    PROVE  Moves(h, handler[h].at, reply, handler[h].share, handler[h].key,
                 handler[h].epoch, handler[h].body, handler[h].prev)
BY DEF Answer, Put, Moves, Handler

\* A handler that is through is idle.
LEMMA IdleMoves ==
    ASSUME handler \in [Handlers -> Handler], NEW h \in Handlers, Put(h, Idle)
    PROVE  /\ Moves(h, "idle", "none", {}, 0, 0, NoBlob, EmptyList)
           /\ handler'[h] = Idle
BY IdleFields DEF Put, Moves

\* Rows come to be and go, and do not come back.
RowsGrow ==
    /\ ShareTypeOK'
    /\ \A s \in Shares : /\ row[s] # "none" => row'[s] # "none"
                         /\ row[s] = "gone" => row'[s] = "gone"

\* The handlers of a page that is being opened: a load, and nothing else.
Opened(f) ==
    /\ f \in [Handlers -> Handler]
    /\ f[1].at = "fetch" /\ f[1].reply = "none" /\ f[1].share = {} /\ f[1].key = 1
    /\ f[1].epoch = 0 /\ f[1].body = NoBlob /\ f[1].prev = EmptyList
    /\ 1 \in Handlers
    /\ \A h \in Handlers : h # 1 => f[h] = Idle

\* That is how Init and Reload leave them.
LEMMA OpenedFields ==
    Opened([h \in Handlers |-> IF h = 1 THEN [Call("load", "fetch") EXCEPT !.key = 1] ELSE Idle])
<1> DEFINE r == [Call("load", "fetch") EXCEPT !.key = 1]
<1>1. /\ r \in Handler /\ r.at = "fetch" /\ r.reply = "none" /\ r.share = {} /\ r.key = 1
      /\ r.epoch = 0 /\ r.body = NoBlob /\ r.prev = EmptyList
  BY EmptyListed DEF Call, Idle, Handler
<1>2. 1 \in Handlers
  BY PassAssumption DEF Handlers
<1> DEFINE f == [h \in Handlers |-> IF h = 1 THEN r ELSE Idle]
<1> HIDE DEF r
<1>3. f \in [Handlers -> Handler]
  BY <1>1, IdleFields
<1>4. f[1] = r /\ \A h \in Handlers : h # 1 => f[h] = Idle
  BY <1>2
<1> HIDE DEF f
<1>5. Opened(f)
  BY <1>1, <1>2, <1>3, <1>4 DEF Opened
<1> QED
  BY <1>5 DEF f, r

\* A load's request.
LEMMA VaultDataViewKeeps ==
    ASSUME NEW h \in Handlers, IInv, VaultDataView(h)
    PROVE  IInv'
<1> USE PassAssumption DEF IInv
<1>1. PICK r \in {"ok", "no", "gone"}, b \in {handler[h].body, blob} :
        /\ Moves(h, "fetch", r, handler[h].share, handler[h].key,
                 handler[h].epoch, b, handler[h].prev)
        /\ r = "ok" => b = blob
  <2>1. CASE Put(h, [handler[h] EXCEPT !.reply = "ok", !.body = blob])
    <3> DEFINE r == [handler[h] EXCEPT !.reply = "ok", !.body = blob]
    <3>1. /\ r \in Handler /\ r.at = handler[h].at /\ r.reply = "ok" /\ r.body = blob
          /\ r.share = handler[h].share /\ r.key = handler[h].key
          /\ r.epoch = handler[h].epoch /\ r.prev = handler[h].prev
      BY DEF TypeOK, Handler
    <3>2. handler[h].at = "fetch" /\ Put(h, r)
      BY <2>1 DEF VaultDataView, Waits
    <3> HIDE DEF r
    <3> QED
      BY <3>1, <3>2, PutMoves DEF TypeOK
  <2>2. CASE \E r \in {"no", "gone"} : Answer(h, r)
    BY <2>2, AnswerMoves DEF VaultDataView, Waits, TypeOK
  <2> QED
    BY <2>1, <2>2 DEF VaultDataView
<1>2. /\ handler[h].at = "fetch"
      /\ UNCHANGED <<shareVars, blob, pageVars, loaded, disturbed>>
  BY DEF VaultDataView, Waits
<1>3. Stored' = Stored /\ Made' = Made
  BY <1>2 DEF Stored, Made, shareVars
<1> USE <1>1, <1>2, <1>3 DEF Moves, pageVars, shareVars
<1>4. TypeOK'
  BY DEF TypeOK, ShareTypeOK
<1>5. HandlerInv'
  BY DEF HandlerInv
<1>6. LockedShowsNothing'
  BY DEF LockedShowsNothing
<1>7. SaveInv'
  BY DEF SaveInv
<1>8. MadeInv'
  BY DEF MadeInv, Stored
<1>9. OrderInv'
  BY DEF OrderInv
<1>10. QuietInv'
  BY DEF QuietInv
<1>11. KeepInv'
  BY DEF KeepInv
<1> QED
  BY <1>4, <1>5, <1>6, <1>7, <1>8, <1>9, <1>10, <1>11

\* A save's request.
LEMMA SaveVaultDataKeeps ==
    ASSUME NEW h \in Handlers, IInv, SaveVaultData(h)
    PROVE  IInv'
<1> USE PassAssumption DEF IInv
<1>1. PICK r \in {"ok", "no"} :
        /\ Moves(h, "save", r, handler[h].share, handler[h].key,
                 handler[h].epoch, handler[h].body, handler[h].prev)
        /\ r = "ok" => blob' = handler[h].body /\ UNCHANGED disturbed
        /\ blob' = handler[h].body \/ UNCHANGED <<blob, disturbed>>
        /\ r = "no" => disturbed' \/ UNCHANGED <<blob, disturbed>>
  BY AnswerMoves DEF SaveVaultData, Waits, TypeOK, Disturb
<1>2. /\ handler[h].at = "save" /\ handler[h].reply = "none"
      /\ disturbed => disturbed' /\ disturbed' \in BOOLEAN
      /\ UNCHANGED <<shareVars, pageVars, loaded>>
  BY DEF SaveVaultData, Waits, Disturb, TypeOK
<1>3. /\ Made' = Made
      /\ blob' = handler[h].body => Stored' = handler[h].body
      /\ blob' = blob => Stored' = Stored
      /\ handler[h].body \in Lists
  BY <1>2 DEF Stored, Made, shareVars, HandlerInv
<1> USE <1>1, <1>2, <1>3 DEF Moves, pageVars, shareVars
<1>4. TypeOK'
  BY DEF TypeOK, ShareTypeOK
<1>5. HandlerInv'
  BY DEF HandlerInv
<1>6. LockedShowsNothing'
  BY DEF LockedShowsNothing
<1>7. SaveInv'
  BY DEF SaveInv
<1>8. MadeInv'
  BY DEF MadeInv
<1>9. OrderInv'
  BY DEF OrderInv
<1>10. QuietInv'
  BY DEF QuietInv, SaveInv
<1>11. KeepInv'
  BY DEF KeepInv, SaveInv
<1> QED
  BY <1>4, <1>5, <1>6, <1>7, <1>8, <1>9, <1>10, <1>11

\* The answer to a save.
LEMMA SaveAnsweredKeeps ==
    ASSUME NEW h \in Handlers, IInv, SaveAnswered(h)
    PROVE  IInv'
<1> USE PassAssumption, EmptyListed DEF IInv
<1>1. /\ Moves(h, "idle", "none", {}, 0, 0, NoBlob, EmptyList)
      /\ handler'[h] = Idle
  BY IdleMoves DEF SaveAnswered, TypeOK
<1>2. /\ handler[h].at = "save" /\ handler[h].reply # "none"
      /\ isPersisting' = FALSE
      /\ userShares' = IF handler[h].reply # "ok" /\ handler[h].epoch = lockEpoch
                       THEN handler[h].prev ELSE userShares
      /\ UNCHANGED <<shareVars, blob, locked, masterKey, inert, disabled, lockEpoch, loaded, disturbed>>
  BY DEF SaveAnswered, Back
<1>3. Stored' = Stored /\ Made' = Made /\ handler[h].prev \in Lists
  BY <1>2, Fields DEF Stored, Made, shareVars
<1> USE <1>1, <1>2, <1>3 DEF Moves, pageVars, shareVars
<1>4. TypeOK'
  BY DEF TypeOK, ShareTypeOK
<1>5. HandlerInv'
  BY IdleFields DEF HandlerInv, TypeOK
<1>6. LockedShowsNothing'
  BY DEF LockedShowsNothing, HandlerInv
<1>7. SaveInv'
  BY DEF SaveInv
<1>8. MadeInv'
  BY DEF MadeInv
<1>9. OrderInv'
  BY DEF OrderInv, HandlerInv
<1>10. QuietInv'
  BY DEF QuietInv, OrderInv, SaveInv
<1>11. KeepInv'
  BY DEF KeepInv
<1> QED
  BY <1>4, <1>5, <1>6, <1>7, <1>8, <1>9, <1>10, <1>11

\* The answer to a load.
LEMMA LoadAnsweredKeeps ==
    ASSUME NEW h \in Handlers, IInv, LoadAnswered(h)
    PROVE  IInv'
<1> USE PassAssumption, EmptyListed DEF IInv
<1>1. /\ Moves(h, "idle", "none", {}, 0, 0, NoBlob, EmptyList)
      /\ handler'[h] = Idle
  BY IdleMoves DEF LoadAnswered, TypeOK
<1>2. /\ handler[h].at = "fetch" /\ handler[h].reply # "none"
      /\ UNCHANGED <<shareVars, blob, locked, masterKey, inert, isPersisting, lockEpoch>>
      /\ LoadDropped(h) \/ LoadRefused(h) \/ LoadFailed(h) \/ LoadTaken(h) \/ Undecryptable(h)
  BY DEF LoadAnswered, Back
<1>3. /\ Stored' = Stored /\ Made' = Made /\ Stored \in Lists
      /\ handler[h].key # 0 /\ handler[h].body \in Lists \cup {NoBlob}
  BY <1>2, Fields, StoredListed DEF Stored, Made, shareVars, HandlerInv, TypeOK
<1> USE <1>1, <1>2, <1>3 DEF Moves, pageVars, shareVars, LoadDropped, LoadRefused, LoadFailed,
        LoadTaken, Undecryptable, Disturb, disableVault
<1>4. TypeOK'
  BY DEF TypeOK, ShareTypeOK
<1>5. HandlerInv'
  BY IdleFields DEF HandlerInv, TypeOK
<1>6. LockedShowsNothing'
  BY DEF LockedShowsNothing
<1>7. SaveInv'
  BY DEF SaveInv
<1>8. MadeInv'
  BY DEF MadeInv
<1>a. /\ LoadTaken(h) => /\ loaded'
                         /\ ~disturbed' => /\ ~disturbed
                                           /\ \A g \in Handlers : g # h => handler[g] = Idle
      /\ LoadRefused(h) \/ Undecryptable(h) => disturbed'
      /\ LoadDropped(h) \/ LoadFailed(h) =>
            UNCHANGED <<userShares, loaded, disturbed>>
  <2>1. LoadTaken(h) => loaded' /\ disturbed' = (disturbed \/ Busy # {h})
    OBVIOUS
  <2>2. Busy = {h} => \A g \in Handlers : g # h => handler[g] = Idle
    BY DEF Busy
  <2>3. LoadRefused(h) \/ Undecryptable(h) => disturbed' = TRUE
    OBVIOUS
  <2> QED
    BY <2>1, <2>2, <2>3 DEF TypeOK
<1>9. OrderInv'
  <2>1. CASE LoadDropped(h)
    BY <2>1 DEF OrderInv
  <2>2. CASE LoadFailed(h)
    BY <2>2 DEF OrderInv
  <2>3. CASE LoadTaken(h)
    BY <2>3, <1>a, IdleFields DEF OrderInv
  <2> QED
    BY <2>1, <2>2, <2>3, <1>a DEF OrderInv
<1>10. QuietInv'
  <2>1. CASE LoadTaken(h) /\ ~disturbed'
    <3>1. userShares' = Stored
      BY <2>1, <1>a DEF OrderInv, Stored
    <3>2. \A g \in Handlers : handler'[g] = Idle
      BY <2>1, <1>a
    <3> QED
      BY <3>1, <3>2, IdleFields DEF QuietInv
  <2>2. CASE LoadDropped(h) \/ LoadFailed(h)
    <3>1. UNCHANGED <<loaded, disturbed>>
      BY <2>2, <1>a
    <3>2. ~disturbed => ~loaded
      BY DEF OrderInv
    <3> QED
      BY <3>1, <3>2 DEF QuietInv
  <2> QED
    BY <2>1, <2>2, <1>a DEF QuietInv
<1>11. KeepInv'
  <2>1. disturbed => disturbed'
    BY <1>a, <1>2
  <2> QED
    BY <2>1 DEF KeepInv
<1> QED
  BY <1>4, <1>5, <1>6, <1>7, <1>8, <1>9, <1>10, <1>11

\* A change of the list that is committed: by a handler whose request came back, or
\* by one that starts on a page that lists something.
LEMMA CommitKeeps ==
    ASSUME NEW h \in Handlers, NEW list \in Lists, IInv, commitShareChange(h, list),
           DOMAIN list \subseteq Made,
           \A s \in DOMAIN userShares \ DOMAIN list : row[s] = "gone",
           UNCHANGED <<shareVars, blob, locked, masterKey, inert, disabled, lockEpoch, loaded>>,
           disturbed' \in BOOLEAN,
           \/ handler[h].at \in {"create", "revoke"} /\ disturbed' = disturbed
           \/ /\ handler[h].at = "idle" /\ userShares # EmptyList
              /\ ~disturbed' => ~disturbed /\ \A g \in Handlers : handler[g] = Idle
    PROVE  IInv'
<1> USE PassAssumption, EmptyListed DEF IInv
<1>1. Stored' = Stored /\ Made' = Made
  BY DEF Stored, Made, shareVars
<1> USE <1>1 DEF shareVars, pageVars
<1>a. ~disturbed' => /\ ~disturbed
                     /\ loaded \/ masterKey = 0
                     /\ loaded => \A g \in Handlers : handler[g].at # "save"
  BY IdleFields DEF OrderInv
<1>2. CASE masterKey = 0 \/ isPersisting
  <2>1. /\ Moves(h, "idle", "none", {}, 0, 0, NoBlob, EmptyList)
        /\ handler'[h] = Idle
        /\ UNCHANGED isPersisting
        /\ userShares' = IF masterKey = 0 THEN userShares ELSE list
        /\ handler[h].at # "save"
    BY <1>2, IdleMoves DEF commitShareChange, persistUserShares, TypeOK
  <2>2. ~disturbed' => masterKey = 0
    BY <1>2, <1>a DEF SaveInv
  <2> USE <2>1, <2>2, <1>a, IdleFields DEF Moves
  <2>3. TypeOK'
    BY DEF TypeOK, ShareTypeOK
  <2>4. HandlerInv'
    BY DEF HandlerInv, TypeOK
  <2>5. LockedShowsNothing'
    BY DEF LockedShowsNothing
  <2>6. SaveInv'
    BY DEF SaveInv
  <2>7. MadeInv'
    BY DEF MadeInv
  <2>8. OrderInv'
    BY DEF OrderInv
  <2>9. QuietInv'
    BY DEF QuietInv
  <2>10. KeepInv'
    BY DEF KeepInv
  <2> QED
    BY <2>3, <2>4, <2>5, <2>6, <2>7, <2>8, <2>9, <2>10

<1>3. CASE masterKey # 0 /\ ~isPersisting
  <2> DEFINE r == [handler[h] EXCEPT !.at = "save", !.reply = "none", !.body = list,
                                     !.prev = userShares, !.epoch = lockEpoch]
  <2>0. /\ r \in Handler /\ r.at = "save" /\ r.reply = "none" /\ r.body = list
        /\ r.prev = userShares /\ r.epoch = lockEpoch
        /\ r.share = handler[h].share /\ r.key = handler[h].key
    <3>1. /\ handler[h] \in Handler /\ lockEpoch \in Nat
          /\ list \in Lists /\ userShares \in Lists
      BY DEF TypeOK
    <3> QED
      BY <3>1 DEF Handler
  <2>a. Put(h, r) /\ userShares' = list /\ isPersisting' = TRUE
    BY <1>3 DEF commitShareChange, persistUserShares
  <2> HIDE DEF r
  <2>1. Moves(h, "save", "none", handler[h].share, handler[h].key, lockEpoch, list, userShares)
    BY <2>0, <2>a, PutMoves DEF TypeOK
  <2>2. /\ \A g \in Handlers : handler[g].at # "save"
        /\ ~disturbed' => loaded /\ userShares = Stored
    BY <1>3, <1>a DEF SaveInv, QuietInv
  <2> USE <1>3, <1>a, <2>1, <2>2, <2>a DEF Moves
  <2>3. TypeOK'
    BY DEF TypeOK, ShareTypeOK
  <2>4. HandlerInv'
    BY DEF HandlerInv, TypeOK
  <2>5. LockedShowsNothing'
    BY DEF LockedShowsNothing
  <2>6. SaveInv'
    BY DEF SaveInv
  <2>7. MadeInv'
    BY DEF MadeInv
  <2>8. OrderInv'
    BY DEF OrderInv
  <2>9. QuietInv'
    BY DEF QuietInv
  <2>10. KeepInv'
    BY DEF KeepInv
  <2> QED
    BY <2>3, <2>4, <2>5, <2>6, <2>7, <2>8, <2>9, <2>10
<1> QED
  BY <1>2, <1>3 DEF TypeOK

\* A request that failed leaves nothing to do.
LEMMA NoMore ==
    ASSUME NEW h \in Handlers, IInv, handler[h].at \in {"create", "revoke"},
           Moves(h, "idle", "none", {}, 0, 0, NoBlob, EmptyList), handler'[h] = Idle,
           UNCHANGED <<userShares, isPersisting>>,
           UNCHANGED <<shareVars, blob, locked, masterKey, inert, disabled, lockEpoch, loaded, disturbed>>
    PROVE  IInv'
<1> USE PassAssumption, EmptyListed DEF IInv
<1>1. Stored' = Stored /\ Made' = Made
  BY DEF Stored, Made, shareVars
<1> USE <1>1, IdleFields DEF Moves, shareVars
<1>2. TypeOK'
  BY DEF TypeOK, ShareTypeOK
<1>3. HandlerInv'
  BY DEF HandlerInv, TypeOK
<1>4. LockedShowsNothing'
  BY DEF LockedShowsNothing
<1>5. SaveInv'
  BY DEF SaveInv
<1>6. MadeInv'
  BY DEF MadeInv
<1>7. OrderInv'
  BY DEF OrderInv
<1>8. QuietInv'
  BY DEF QuietInv
<1>9. KeepInv'
  BY DEF KeepInv
<1> QED
  BY <1>2, <1>3, <1>4, <1>5, <1>6, <1>7, <1>8, <1>9

\* The row of a new share, and the answer to it.
LEMMA CreateShareViewKeeps ==
    ASSUME NEW h \in Handlers, IInv, CreateShareView(h)
    PROVE  IInv'
<1> USE PassAssumption, EmptyListed DEF IInv
<1>1. PICK r \in {"ok", "no"}, share \in SUBSET Shares :
        /\ Moves(h, "create", r, share, handler[h].key,
                 handler[h].epoch, handler[h].body, handler[h].prev)
        /\ share = handler[h].share \/ \E s \in Shares : create_share(s) /\ share = {s}
  <2>0. handler[h].at = "create" /\ handler[h].share \in SUBSET Shares
    BY Fields DEF CreateShareView, Waits
  <2>1. ASSUME NEW s \in Shares, create_share(s),
               Put(h, [handler[h] EXCEPT !.reply = "ok", !.share = {s}])
        PROVE  Moves(h, "create", "ok", {s}, handler[h].key,
                     handler[h].epoch, handler[h].body, handler[h].prev)
    <3> DEFINE r == [handler[h] EXCEPT !.reply = "ok", !.share = {s}]
    <3>1. /\ r \in Handler /\ r.at = handler[h].at /\ r.reply = "ok" /\ r.share = {s}
          /\ r.body = handler[h].body /\ r.key = handler[h].key
          /\ r.epoch = handler[h].epoch /\ r.prev = handler[h].prev
      BY DEF TypeOK, Handler
    <3>2. Put(h, r)
      BY <2>1
    <3> HIDE DEF r
    <3> QED
      BY <2>0, <3>1, <3>2, PutMoves DEF TypeOK, Moves
  <2>2. CASE \E s \in Shares : /\ create_share(s)
                               /\ Put(h, [handler[h] EXCEPT !.reply = "ok", !.share = {s}])
    BY <2>1, <2>2
  <2>3. CASE Answer(h, "no")
    BY <2>0, <2>3, AnswerMoves DEF TypeOK
  <2> QED
    BY <2>2, <2>3 DEF CreateShareView
<1>2. /\ handler[h].at = "create"
      /\ UNCHANGED <<sweep, blob, pageVars, loaded, disturbed>>
  BY DEF CreateShareView, Waits
<1>3. RowsGrow
  BY <1>2 DEF CreateShareView, RowsGrow, create_share, Become, TypeOK, ShareTypeOK
<1>4. /\ Stored' = Stored /\ Made \subseteq Made'
      /\ share \subseteq Made'
  <2>1. \A s \in Shares : create_share(s) => row'[s] = "live"
    BY DEF create_share, Become
  <2> QED
    BY <1>1, <1>2, <1>3, <2>1 DEF Stored, Made, RowsGrow, MadeInv
<1> USE <1>1, <1>2, <1>3, <1>4 DEF Moves, pageVars, RowsGrow
<1>5. TypeOK'
  BY DEF TypeOK, ShareTypeOK
<1>6. HandlerInv'
  BY DEF HandlerInv
<1>7. LockedShowsNothing'
  BY DEF LockedShowsNothing
<1>8. SaveInv'
  BY DEF SaveInv
<1>9. MadeInv'
  BY DEF MadeInv
<1>10. OrderInv'
  BY DEF OrderInv
<1>11. QuietInv'
  BY DEF QuietInv
<1>12. KeepInv'
  BY DEF KeepInv, MadeInv, Made
<1> QED
  BY <1>5, <1>6, <1>7, <1>8, <1>9, <1>10, <1>11, <1>12

\* The end of a new share, and the answer to it.
LEMMA DeleteShareViewKeeps ==
    ASSUME NEW h \in Handlers, IInv, DeleteShareView(h)
    PROVE  IInv'
<1> USE PassAssumption, EmptyListed DEF IInv
<1>1. PICK r \in {"ok", "no"} :
        /\ Moves(h, "revoke", r, handler[h].share, handler[h].key,
                 handler[h].epoch, handler[h].body, handler[h].prev)
        /\ \/ \E s \in handler[h].share : delete_user_share(s)
           \/ r = "no" /\ row' = row
  BY AnswerMoves DEF DeleteShareView, Waits, TypeOK
<1>2. /\ handler[h].at = "revoke"
      /\ UNCHANGED <<sweep, blob, pageVars, loaded, disturbed>>
  BY DEF DeleteShareView, Waits
<1>3. PICK s \in Shares : handler[h].share = {s} /\ row[s] # "none"
  BY <1>2 DEF HandlerInv, MadeInv, Made
<1>4. RowsGrow /\ (r = "ok" => row'[s] = "gone")
  BY <1>1, <1>2, <1>3 DEF RowsGrow, delete_user_share, Become, Rows, TypeOK, ShareTypeOK
<1>5. Stored' = Stored /\ Made \subseteq Made'
  BY <1>2, <1>4 DEF Stored, Made, RowsGrow
<1> USE <1>1, <1>2, <1>3, <1>4, <1>5 DEF Moves, pageVars, RowsGrow
<1>6. TypeOK'
  BY DEF TypeOK, ShareTypeOK
<1>7. HandlerInv'
  BY DEF HandlerInv
<1>8. LockedShowsNothing'
  BY DEF LockedShowsNothing
<1>9. SaveInv'
  BY DEF SaveInv
<1>10. MadeInv'
  BY DEF MadeInv
<1>11. OrderInv'
  BY DEF OrderInv
<1>12. QuietInv'
  BY DEF QuietInv
<1>13. KeepInv'
  BY DEF KeepInv, MadeInv, Made
<1> QED
  BY <1>6, <1>7, <1>8, <1>9, <1>10, <1>11, <1>12, <1>13

\* The answer to a new share: it is listed.
LEMMA ShareCreatedKeeps ==
    ASSUME NEW h \in Handlers, IInv, ShareCreated(h)
    PROVE  IInv'
<1> USE PassAssumption, EmptyListed DEF IInv
<1> DEFINE list == [s \in DOMAIN userShares \cup handler[h].share |->
                      IF s \in DOMAIN userShares THEN userShares[s] ELSE {}]
<1>1. /\ handler[h].at = "create"
      /\ UNCHANGED <<shareVars, blob, locked, masterKey, inert, disabled, lockEpoch, loaded, disturbed>>
  BY DEF ShareCreated, Back
<1>2. CASE handler[h].reply = "ok"
  <2>1. /\ userShares \in Lists /\ handler[h].share \subseteq Shares
        /\ handler[h].share \subseteq Made /\ DOMAIN userShares \subseteq Made
    BY Fields DEF TypeOK, MadeInv
  <2>2. list \in Lists /\ DOMAIN list = DOMAIN userShares \cup handler[h].share
    BY <2>1, ListParts, Listed
  <2>3. commitShareChange(h, list)
    BY <1>2 DEF ShareCreated
  <2> HIDE DEF list
  <2> QED
    BY <1>1, <2>1, <2>2, <2>3, CommitKeeps DEF TypeOK
<1>3. CASE handler[h].reply # "ok"
  <2>1. /\ Moves(h, "idle", "none", {}, 0, 0, NoBlob, EmptyList)
        /\ handler'[h] = Idle
        /\ UNCHANGED <<userShares, isPersisting>>
    BY <1>3, IdleMoves DEF ShareCreated, TypeOK
  <2> QED
    BY <1>1, <2>1, NoMore
<1> QED
  BY <1>2, <1>3

\* The answer to a revocation: the share is listed no more.
LEMMA ShareRevokedKeeps ==
    ASSUME NEW h \in Handlers, IInv, ShareRevoked(h)
    PROVE  IInv'
<1> USE PassAssumption, EmptyListed DEF IInv
<1> DEFINE list == [s \in DOMAIN userShares \ handler[h].share |-> userShares[s]]
<1>1. /\ handler[h].at = "revoke"
      /\ UNCHANGED <<shareVars, blob, locked, masterKey, inert, disabled, lockEpoch, loaded, disturbed>>
  BY DEF ShareRevoked, Back
<1>2. CASE handler[h].reply = "ok"
  <2>1. /\ userShares \in Lists /\ DOMAIN userShares \subseteq Made
        /\ \A s \in handler[h].share : row[s] = "gone"
    BY <1>1, <1>2 DEF TypeOK, MadeInv, HandlerInv
  <2>2. list \in Lists /\ DOMAIN list = DOMAIN userShares \ handler[h].share
    BY <2>1, ListParts, Listed
  <2>3. commitShareChange(h, list)
    BY <1>2 DEF ShareRevoked
  <2> HIDE DEF list
  <2> QED
    BY <1>1, <2>1, <2>2, <2>3, CommitKeeps DEF TypeOK
<1>3. CASE handler[h].reply # "ok"
  <2>1. /\ Moves(h, "idle", "none", {}, 0, 0, NoBlob, EmptyList)
        /\ handler'[h] = Idle
        /\ UNCHANGED <<userShares, isPersisting>>
    BY <1>3, IdleMoves DEF ShareRevoked, TypeOK
  <2> QED
    BY <1>1, <2>1, NoMore
<1> QED
  BY <1>2, <1>3

\* What the user's next step finds, unless something disturbs it.
LEMMA StartFinds ==
    ASSUME NEW h \in Handlers, IInv, Starts(h)
    PROVE  /\ handler[h] = Idle /\ disturbed' \in BOOLEAN
           /\ ~disturbed' => /\ ~disturbed
                             /\ \A g \in Handlers : handler[g] = Idle
BY DEF Starts, Free, Disturb, Busy, IInv, TypeOK

\* A tag is set or removed.
LEMMA TagClickKeeps ==
    ASSUME NEW h \in Handlers, NEW s \in Shares, NEW t \in Tags, IInv, TagClick(h, s, t)
    PROVE  IInv'
<1>1. PICK list \in {addTagToShare(s, t), removeTagFromShare(s, t)} : commitShareChange(h, list)
  BY DEF TagClick
<1>2. /\ s \in DOMAIN userShares /\ userShares \in Lists /\ DOMAIN userShares \subseteq Made
      /\ UNCHANGED <<shareVars, blob, locked, masterKey, inert, disabled, lockEpoch, loaded>>
  BY DEF TagClick, IInv, TypeOK, MadeInv
<1>3. list \in Lists /\ DOMAIN list = DOMAIN userShares
  <2>1. ASSUME NEW S \in SUBSET Tags
        PROVE  /\ [userShares EXCEPT ![s] = S] \in Lists
               /\ DOMAIN [userShares EXCEPT ![s] = S] = DOMAIN userShares
    BY <1>2, ListParts, Listed
  <2>2. userShares[s] \in SUBSET Tags
    BY <1>2, ListParts
  <2> QED
    BY <1>2, <2>1, <2>2 DEF addTagToShare, removeTagFromShare
<1>4. userShares # EmptyList
  BY <1>2, EmptyListed
<1> QED
  BY <1>1, <1>2, <1>3, <1>4, StartFinds, IdleFields, CommitKeeps DEF TagClick

\* A new share is asked for.
LEMMA InlineFormSubmitKeeps ==
    ASSUME NEW h \in Handlers, IInv, handleInlineFormSubmit(h)
    PROVE  IInv'
<1> USE PassAssumption, EmptyListed DEF IInv
<1>1. Moves(h, "create", "none", {}, 0, 0, NoBlob, EmptyList)
  <2> DEFINE r == Call("create", "create")
  <2>1. /\ r \in Handler /\ r.at = "create" /\ r.reply = "none" /\ r.share = {} /\ r.key = 0
        /\ r.epoch = 0 /\ r.body = NoBlob /\ r.prev = EmptyList
    BY DEF Call, Idle, Handler
  <2>2. Put(h, r)
    BY DEF handleInlineFormSubmit
  <2> HIDE DEF r
  <2> QED
    BY <2>1, <2>2, PutMoves DEF TypeOK, Moves
<1>2. /\ UNCHANGED <<shareVars, blob, pageVars, loaded>>
      /\ masterKey # 0 /\ ~disabled /\ Starts(h)
  BY DEF handleInlineFormSubmit
<1>3. Stored' = Stored /\ Made' = Made
  BY <1>2 DEF Stored, Made, shareVars
<1>4. ~disturbed' => loaded
  BY <1>2, StartFinds, IdleFields DEF OrderInv
<1> USE <1>1, <1>2, <1>3, <1>4, StartFinds, IdleFields DEF Moves, pageVars, shareVars
<1>5. TypeOK'
  BY DEF TypeOK, ShareTypeOK
<1>6. HandlerInv'
  BY DEF HandlerInv, TypeOK
<1>7. LockedShowsNothing'
  BY DEF LockedShowsNothing
<1>8. SaveInv'
  BY DEF SaveInv
<1>9. MadeInv'
  BY DEF MadeInv
<1>10. OrderInv'
  BY DEF OrderInv
<1>11. QuietInv'
  BY DEF QuietInv
<1>12. KeepInv'
  BY DEF KeepInv
<1> QED
  BY <1>5, <1>6, <1>7, <1>8, <1>9, <1>10, <1>11, <1>12

\* A share is to be revoked.
LEMMA RemoveClickKeeps ==
    ASSUME NEW h \in Handlers, NEW s \in Shares, IInv, handleRemoveClick(h, s)
    PROVE  IInv'
<1> USE PassAssumption, EmptyListed DEF IInv
<1>1. Moves(h, "revoke", "none", {s}, 0, 0, NoBlob, EmptyList)
  <2> DEFINE r == [Call("remove", "revoke") EXCEPT !.share = {s}]
  <2>1. /\ r \in Handler /\ r.at = "revoke" /\ r.reply = "none" /\ r.share = {s} /\ r.key = 0
        /\ r.epoch = 0 /\ r.body = NoBlob /\ r.prev = EmptyList
    BY DEF Call, Idle, Handler
  <2>2. Put(h, r)
    BY DEF handleRemoveClick
  <2> HIDE DEF r
  <2> QED
    BY <2>1, <2>2, PutMoves DEF TypeOK, Moves
<1>2. /\ UNCHANGED <<shareVars, blob, pageVars, loaded>>
      /\ s \in DOMAIN userShares /\ Starts(h)
  BY DEF handleRemoveClick
<1>3. Stored' = Stored /\ Made' = Made /\ s \in Made
  BY <1>2 DEF Stored, Made, shareVars, MadeInv
<1>4. ~disturbed' => loaded
  BY <1>2, StartFinds DEF OrderInv
<1> USE <1>1, <1>2, <1>3, <1>4, StartFinds, IdleFields DEF Moves, pageVars, shareVars
<1>5. TypeOK'
  BY DEF TypeOK, ShareTypeOK
<1>6. HandlerInv'
  BY DEF HandlerInv, TypeOK
<1>7. LockedShowsNothing'
  BY DEF LockedShowsNothing
<1>8. SaveInv'
  BY DEF SaveInv
<1>9. MadeInv'
  BY DEF MadeInv
<1>10. OrderInv'
  BY DEF OrderInv
<1>11. QuietInv'
  BY DEF QuietInv
<1>12. KeepInv'
  BY DEF KeepInv
<1> QED
  BY <1>5, <1>6, <1>7, <1>8, <1>9, <1>10, <1>11, <1>12

\* The session hands the page a key.
LEMMA OnUnlockKeeps ==
    ASSUME NEW h \in Handlers, IInv, onUnlock(h)
    PROVE  IInv'
<1> USE PassAssumption, EmptyListed DEF IInv
<1>1. Moves(h, "import", "none", {}, lockEpoch + 1, 0, NoBlob, EmptyList)
  <2> DEFINE r == [Call("recover", "import") EXCEPT !.key = lockEpoch + 1]
  <2>1. /\ r \in Handler /\ r.at = "import" /\ r.reply = "none" /\ r.share = {}
        /\ r.key = lockEpoch + 1 /\ r.epoch = 0 /\ r.body = NoBlob /\ r.prev = EmptyList
    <3>1. lockEpoch + 1 \in Nat
      BY DEF TypeOK
    <3> QED
      BY <3>1 DEF Call, Idle, Handler
  <2>2. Put(h, r)
    BY DEF onUnlock
  <2> HIDE DEF r
  <2> QED
    BY <2>1, <2>2, PutMoves DEF TypeOK, Moves
<1>2. /\ handler[h] = Idle /\ locked' = FALSE
      /\ UNCHANGED <<shareVars, blob, masterKey, inert, disabled, userShares, isPersisting,
                     lockEpoch, loaded, disturbed>>
  BY DEF onUnlock, Free
<1>3. Stored' = Stored /\ Made' = Made
  BY <1>2 DEF Stored, Made, shareVars
<1> USE <1>1, <1>2, <1>3, IdleFields DEF Moves, pageVars, shareVars
<1>4. TypeOK'
  BY DEF TypeOK, ShareTypeOK
<1>5. HandlerInv'
  BY DEF HandlerInv, TypeOK
<1>6. LockedShowsNothing'
  BY DEF LockedShowsNothing
<1>7. SaveInv'
  BY DEF SaveInv
<1>8. MadeInv'
  BY DEF MadeInv
<1>9. OrderInv'
  BY DEF OrderInv
<1>10. QuietInv'
  BY DEF QuietInv
<1>11. KeepInv'
  BY DEF KeepInv
<1> QED
  BY <1>4, <1>5, <1>6, <1>7, <1>8, <1>9, <1>10, <1>11

\* The key is imported.
LEMMA KeyImportedKeeps ==
    ASSUME NEW h \in Handlers, IInv, KeyImported(h)
    PROVE  IInv'
<1> USE PassAssumption, EmptyListed DEF IInv
<1>1. Moves(h, "fetch", "none", handler[h].share, handler[h].key,
            handler[h].epoch, handler[h].body, handler[h].prev)
  <2> DEFINE r == [handler[h] EXCEPT !.at = "fetch"]
  <2>1. /\ r \in Handler /\ r.at = "fetch" /\ r.reply = handler[h].reply
        /\ r.body = handler[h].body /\ r.key = handler[h].key /\ r.share = handler[h].share
        /\ r.epoch = handler[h].epoch /\ r.prev = handler[h].prev
    BY DEF TypeOK, Handler
  <2>2. Put(h, r) /\ handler[h].reply = "none"
    BY DEF KeyImported, HandlerInv
  <2> HIDE DEF r
  <2> QED
    BY <2>1, <2>2, PutMoves DEF TypeOK, Moves
<1>2. /\ handler[h].at = "import"
      /\ masterKey' = handler[h].key /\ inert' = FALSE /\ loaded' = FALSE
      /\ handler[h].key \in 1 .. MaxLocks + 1
      /\ UNCHANGED <<shareVars, blob, locked, disabled, userShares, isPersisting, lockEpoch>>
      /\ masterKey' \in 0 .. MaxLocks + 1 /\ lockEpoch' \in 0 .. MaxLocks
  BY DEF KeyImported, HandlerInv, TypeOK
<1>3. /\ disturbed' \in BOOLEAN
      /\ ~disturbed' => /\ masterKey = 0
                        /\ \A g \in Handlers : g # h => handler[g] = Idle
  BY DEF KeyImported, Busy
<1>4. Stored' = Stored /\ Made' = Made
  BY <1>2 DEF Stored, Made, shareVars
<1> USE <1>1, <1>2, <1>3, <1>4, IdleFields DEF Moves, pageVars, shareVars
<1>5. TypeOK'
  BY DEF TypeOK, ShareTypeOK
<1>6. HandlerInv'
  BY DEF HandlerInv, TypeOK
<1>7. LockedShowsNothing'
  BY DEF LockedShowsNothing
<1>8. SaveInv'
  BY DEF SaveInv
<1>9. MadeInv'
  BY DEF MadeInv
<1>10. OrderInv'
  BY DEF OrderInv, LockedShowsNothing
<1>11. QuietInv'
  BY DEF QuietInv
<1>12. KeepInv'
  BY DEF KeepInv
<1> QED
  BY <1>5, <1>6, <1>7, <1>8, <1>9, <1>10, <1>11, <1>12

\* The page is locked.
LEMMA OnLockKeeps ==
    ASSUME IInv, onLock
    PROVE  IInv'
<1> USE PassAssumption, EmptyListed DEF IInv
<1>1. /\ lockEpoch < MaxLocks /\ lockEpoch' = lockEpoch + 1
      /\ locked' = TRUE /\ inert' = TRUE /\ masterKey' = 0
      /\ userShares' = EmptyList /\ loaded' = FALSE
      /\ UNCHANGED <<shareVars, blob, disabled, isPersisting, handler, disturbed>>
  BY DEF onLock
<1>2. /\ Stored' = Stored /\ Made' = Made
      /\ \A h \in Handlers : handler[h].epoch \in Nat /\ handler[h].epoch <= lockEpoch
      /\ lockEpoch \in 0 .. MaxLocks
      /\ masterKey' \in 0 .. MaxLocks + 1 /\ lockEpoch' \in 0 .. MaxLocks
  BY <1>1, Fields DEF Stored, Made, shareVars, HandlerInv, TypeOK
<1>3. \A h \in Handlers : handler[h].at = "fetch" => handler[h].key # 0
  BY DEF HandlerInv
<1> USE <1>1, <1>2, <1>3 DEF shareVars
<1>4. TypeOK'
  BY DEF TypeOK, ShareTypeOK
<1>5. HandlerInv'
  BY DEF HandlerInv
<1>6. LockedShowsNothing'
  BY DEF LockedShowsNothing
<1>7. SaveInv'
  BY DEF SaveInv
<1>8. MadeInv'
  BY DEF MadeInv
<1>9. OrderInv'
  BY DEF OrderInv
<1>10. QuietInv'
  BY DEF QuietInv
<1>11. KeepInv'
  BY DEF KeepInv
<1> QED
  BY <1>4, <1>5, <1>6, <1>7, <1>8, <1>9, <1>10, <1>11

\* The page is opened, for the first time or anew.
LEMMA ReloadKeeps ==
    ASSUME IInv, Reload
    PROVE  IInv'
<1> USE PassAssumption, EmptyListed DEF IInv
<1>1. /\ locked' = FALSE /\ inert' = FALSE /\ disabled' = FALSE /\ masterKey' = 1
      /\ userShares' = EmptyList /\ isPersisting' = FALSE /\ lockEpoch' = 0
      /\ loaded' = FALSE /\ disturbed' = FALSE
      /\ UNCHANGED <<shareVars, blob>>
  BY DEF Reload
<1>2. Opened(handler')
  BY OpenedFields DEF Reload
<1>3. /\ Stored' = Stored /\ Made' = Made
      /\ masterKey' \in 0 .. MaxLocks + 1 /\ lockEpoch' \in 0 .. MaxLocks
  BY <1>1 DEF Stored, Made, shareVars
<1> USE <1>1, <1>2, <1>3, IdleFields DEF shareVars, Opened
<1>4. TypeOK'
  BY DEF TypeOK, ShareTypeOK
<1>5. HandlerInv'
  BY DEF HandlerInv
<1>6. LockedShowsNothing'
  BY DEF LockedShowsNothing
<1>7. SaveInv'
  BY DEF SaveInv
<1>8. MadeInv'
  BY DEF MadeInv
<1>9. OrderInv'
  BY DEF OrderInv
<1>10. QuietInv'
  BY DEF QuietInv
<1>11. KeepInv'
  BY DEF KeepInv
<1> QED
  BY <1>4, <1>5, <1>6, <1>7, <1>8, <1>9, <1>10, <1>11

\* What happens to the rows meanwhile.
LEMMA ServerKeeps ==
    ASSUME IInv, Server
    PROVE  IInv'
<1> USE PassAssumption DEF IInv
<1>1. UNCHANGED <<blob, pageVars, handler, loaded, disturbed>>
  BY DEF Server
<1>2. RowsGrow
  <2> USE DEF RowsGrow, ShareTypeOK, TypeOK, Become
  <2>1. ASSUME NEW s \in Shares, expires_at(s) \/ RetrieveShare(s) \/ delete_share(s)
        PROVE  RowsGrow
    BY <2>1 DEF expires_at, RetrieveShare, delete_share, Rows
  <2>2. CASE delete_expired
    BY <2>2 DEF delete_expired, expired_shares
  <2>3. CASE SweepEnds
    BY <2>3 DEF SweepEnds
  <2>4. ASSUME NEW S \in SUBSET Shares, DeleteBatch(S)
        PROVE  RowsGrow
    BY <2>4 DEF DeleteBatch, Rows
  <2> QED
    BY <2>1, <2>2, <2>3, <2>4 DEF Server, ShareNext, SweepStep
<1>3. Stored' = Stored /\ Made \subseteq Made'
  BY <1>1, <1>2 DEF Stored, Made, RowsGrow
<1> USE <1>1, <1>2, <1>3 DEF pageVars, RowsGrow
<1>4. TypeOK'
  BY DEF TypeOK, ShareTypeOK
<1>5. HandlerInv'
  BY DEF HandlerInv
<1>6. LockedShowsNothing'
  BY DEF LockedShowsNothing
<1>7. SaveInv'
  BY DEF SaveInv
<1>8. MadeInv'
  BY DEF MadeInv
<1>9. OrderInv'
  BY DEF OrderInv
<1>10. QuietInv'
  BY DEF QuietInv
<1>11. KeepInv'
  BY DEF KeepInv, MadeInv, Made
<1> QED
  BY <1>4, <1>5, <1>6, <1>7, <1>8, <1>9, <1>10, <1>11

\* Nothing happens.
LEMMA StutterKeeps ==
    ASSUME IInv, UNCHANGED vars
    PROVE  IInv'
<1>1. Stored' = Stored /\ Made' = Made
  BY DEF vars, shareVars, Stored, Made
<1> QED
  BY <1>1 DEF IInv, vars, pageVars, shareVars, TypeOK, ShareTypeOK, HandlerInv, LockedShowsNothing,
              SaveInv, MadeInv, OrderInv, QuietInv, KeepInv

\* The first page.
LEMMA InitKeeps ==
    ASSUME Init
    PROVE  IInv
<1> USE PassAssumption, EmptyListed DEF IInv
<1>1. Opened(handler)
  BY OpenedFields DEF Init
<1>2. Stored = EmptyList
  BY DEF Init, Stored
<1>3. /\ row = [s \in Shares |-> "none"] /\ sweep = {} /\ blob = NoBlob
      /\ locked = FALSE /\ inert = FALSE /\ disabled = FALSE /\ masterKey = 1
      /\ userShares = EmptyList /\ isPersisting = FALSE /\ lockEpoch = 0
      /\ loaded = FALSE /\ disturbed = FALSE
      /\ masterKey \in 0 .. MaxLocks + 1 /\ lockEpoch \in 0 .. MaxLocks
  BY DEF Init, ShareInit
<1> USE <1>1, <1>2, <1>3, IdleFields DEF Opened
<1>13. TypeOK
  BY DEF TypeOK, ShareTypeOK
<1>4. HandlerInv
  BY DEF HandlerInv
<1>5. LockedShowsNothing
  BY DEF LockedShowsNothing
<1>6. SaveInv
  BY DEF SaveInv
<1>7. MadeInv
  BY DEF MadeInv
<1>8. OrderInv
  BY DEF OrderInv
<1>9. QuietInv
  BY DEF QuietInv
<1>10. KeepInv
  BY DEF KeepInv
<1> QED
  BY <1>13, <1>4, <1>5, <1>6, <1>7, <1>8, <1>9, <1>10

-----------------------------------------------------------------------------
(* The theorems *)

\* Every step keeps the invariant.
LEMMA StepKeeps ==
    ASSUME IInv, [Next]_vars
    PROVE  IInv'
<1>1. ASSUME NEW h \in Handlers, Runs(h)
      PROVE  IInv'
  BY <1>1, KeyImportedKeeps, VaultDataViewKeeps, LoadAnsweredKeeps, CreateShareViewKeeps,
     ShareCreatedKeeps, DeleteShareViewKeeps, ShareRevokedKeeps, SaveVaultDataKeeps,
     SaveAnsweredKeeps DEF Runs
<1>2. ASSUME NEW h \in Handlers, User(h)
      PROVE  IInv'
  BY <1>2, InlineFormSubmitKeeps, RemoveClickKeeps, TagClickKeeps, OnUnlockKeeps DEF User
<1> QED
  BY <1>1, <1>2, OnLockKeeps, ReloadKeeps, ServerKeeps, StutterKeeps DEF Next

\* The inductive invariant of the password vault.
THEOREM PassInvariant == Spec => []IInv
<1>1. Init => IInv
  BY InitKeeps
<1>2. IInv /\ [Next]_vars => IInv'
  BY StepKeeps
<1> QED
  BY <1>1, <1>2, PTL DEF Spec

\* Every variable of the page, its handlers and the rows has its type.
THEOREM PassTypeOK == Spec => []TypeOK
<1>1. IInv => TypeOK
  BY DEF IInv
<1> QED
  BY <1>1, PassInvariant, PTL

\* A page without a key lists nothing, whatever answers come late
\* (passwd/js/vault.js:444, 554, 932-938).
THEOREM PassLockedShowsNothing == Spec => []LockedShowsNothing
<1>1. IInv => LockedShowsNothing
  BY DEF IInv
<1> QED
  BY <1>1, PassInvariant, PTL

\* One save of the blob is under way at a time, and isPersisting says whether
\* (passwd/js/vault.js:492-539).
THEOREM PassOneSaveAtATime == Spec => []OneSaveAtATime
<1>1. IInv => OneSaveAtATime
  <2> SUFFICES ASSUME IInv PROVE OneSaveAtATime
    OBVIOUS
  <2>1. CASE isPersisting
    <3>1. PICK h \in Handlers : {g \in Handlers : handler[g].at = "save"} = {h}
      BY <2>1 DEF IInv, SaveInv
    <3> QED
      BY <2>1, <3>1, FS_Singleton DEF OneSaveAtATime
  <2>2. CASE ~isPersisting
    <3>1. {g \in Handlers : handler[g].at = "save"} = {}
      BY <2>2 DEF IInv, SaveInv
    <3> QED
      BY <2>2, <3>1, FS_EmptySet DEF OneSaveAtATime
  <2> QED
    BY <2>1, <2>2
<1> QED
  BY <1>1, PassInvariant, PTL

\* An undisturbed page with nothing under way shows what is stored
\* (passwd/js/vault.js:541-558).
THEOREM PassQuietMeansStored == Spec => []QuietMeansStored
<1>1. IInv => QuietMeansStored
  BY IdleFields DEF IInv, QuietInv, QuietMeansStored, Busy
<1> QED
  BY <1>1, PassInvariant, PTL

\* A save drops the key of no share that can still be opened
\* (passwd/js/vault.js:440-460, 705-718).
THEOREM PassKeysOfLiveSharesKept == Spec => KeysOfLiveSharesKept
<1> DEFINE Kept == disturbed \/ \A s \in DOMAIN Stored \ DOMAIN Stored' : row[s] \notin {"live", "expired"}
<1>1. IInv /\ [Next]_vars => [Kept]_vars
  <2> SUFFICES ASSUME IInv, Next, ~disturbed
               PROVE  \A s \in DOMAIN Stored \ DOMAIN Stored' : row[s] \notin {"live", "expired"}
    OBVIOUS
  <2>1. CASE UNCHANGED blob
    BY <2>1 DEF Stored
  <2>2. ASSUME NEW h \in Handlers, SaveVaultData(h), blob' # blob
        PROVE  \A s \in DOMAIN Stored \ DOMAIN Stored' : row[s] = "gone"
    <3>1. /\ handler[h].at = "save" /\ handler[h].reply = "none"
          /\ blob' = handler[h].body /\ handler[h].body \in Lists
      BY <2>2 DEF SaveVaultData, Waits, IInv, HandlerInv
    <3>2. Stored' = handler[h].body
      BY <3>1, PassAssumption DEF Stored
    <3> QED
      BY <3>1, <3>2 DEF IInv, KeepInv
  <2>3. \/ UNCHANGED blob
        \/ \E h \in Handlers : SaveVaultData(h)
    BY DEF Next, onLock, Reload, Server, Runs, User, KeyImported, VaultDataView, LoadAnswered,
           CreateShareView, ShareCreated, DeleteShareView, ShareRevoked, SaveAnswered,
           handleInlineFormSubmit, handleRemoveClick, TagClick, onUnlock
  <2> QED
    BY <2>1, <2>2, <2>3
<1> QED
  BY <1>1, PassInvariant, PTL DEF Spec, KeysOfLiveSharesKept

-----------------------------------------------------------------------------
(* The rows and their sweep *)

\* What the page's requests and the server do to the rows, and nothing else does.
TableNext ==
    \/ ShareNext
    \/ \E s \in Shares : (create_share(s) \/ delete_user_share(s)) /\ UNCHANGED sweep

\* No step of the page touches the rows but by an operation of the table.
LEMMA TableStep ==
    ASSUME IInv, [Next]_vars
    PROVE  [TableNext]_shareVars
<1>1. CASE Server
  BY <1>1 DEF Server, TableNext
<1>2. ASSUME NEW h \in Handlers, CreateShareView(h)
      PROVE  [TableNext]_shareVars
  BY <1>2 DEF CreateShareView, TableNext, shareVars
<1>3. ASSUME NEW h \in Handlers, DeleteShareView(h)
      PROVE  [TableNext]_shareVars
  <2>1. handler[h].share \in SUBSET Shares
    BY DEF IInv, TypeOK, Handler
  <2> QED
    BY <1>3, <2>1 DEF DeleteShareView, TableNext, shareVars
<1>4. \/ Server \/ UNCHANGED shareVars
      \/ \E h \in Handlers : CreateShareView(h) \/ DeleteShareView(h)
  BY DEF Next, vars, onLock, Reload, Runs, User, KeyImported, VaultDataView, LoadAnswered,
         ShareCreated, ShareRevoked, SaveVaultData, SaveAnswered, handleInlineFormSubmit,
         handleRemoveClick, TagClick, onUnlock
<1> QED
  BY <1>1, <1>2, <1>3, <1>4

\* A sweep is after rows that were expired when it began, and are or are gone by now.
SweepInv == \A s \in sweep : row[s] \in {"expired", "gone"}

FiniteInv == IsFiniteSet(Made)

\* A row is created, expires and is deleted, in this order.
Age(state) ==
    CASE state = "none" -> 0
      [] state = "live" -> 1
      [] state = "expired" -> 2
      [] OTHER -> 3

\* What an operation of the table does to the rows, to the sweep and to what has
\* been created.
LEMMA TableEffect ==
    ASSUME ShareTypeOK, SweepInv, FiniteInv, TableNext
    PROVE  /\ \A s \in Shares : Age(row[s]) <= Age(row'[s])
           /\ sweep' # sweep => \A s \in Shares : row[s] = "live" => row'[s] = "live"
           /\ sweep # {} => sweep' \subseteq sweep
           /\ SweepInv'
           /\ FiniteInv'
<1>1. /\ row \in [Shares -> {"none", "live", "expired", "gone"}] /\ sweep \subseteq Shares
      /\ \A s \in Shares : row[s] \in {"none", "live", "expired", "gone"}
  BY DEF ShareTypeOK
<1>2. ASSUME NEW S \in SUBSET Shares, S \subseteq Rows, Become(S, "gone")
      PROVE  /\ \A s \in Shares : Age(row[s]) <= Age(row'[s])
             /\ \A s \in Shares : row'[s] = IF s \in S THEN "gone" ELSE row[s]
             /\ Made' = Made
  BY <1>1, <1>2 DEF Become, Age, Made, Rows
<1>3. CASE \E s \in Shares : create_share(s) /\ UNCHANGED sweep
  <2>1. PICK s \in Shares : create_share(s) /\ UNCHANGED sweep
    BY <1>3
  <2>2. \A t \in Shares : row'[t] = IF t = s THEN "live" ELSE row[t]
    BY <1>1, <2>1 DEF create_share, Become
  <2>3. row[s] = "none"
    BY <2>1 DEF create_share
  <2>4. Made' = Made \cup {s}
    BY <2>2 DEF Made
  <2>5. IsFiniteSet(Made')
    BY <2>4, FS_AddElement DEF FiniteInv
  <2> QED
    BY <1>1, <2>1, <2>2, <2>3, <2>5 DEF Age, SweepInv, FiniteInv
<1>4. CASE \E s \in Shares : expires_at(s)
  <2>1. PICK s \in Shares : expires_at(s)
    BY <1>4
  <2>2. \A t \in Shares : row'[t] = IF t = s THEN "expired" ELSE row[t]
    BY <1>1, <2>1 DEF expires_at, Become
  <2>3. row[s] = "live" /\ UNCHANGED sweep
    BY <2>1 DEF expires_at
  <2>4. Made' = Made
    BY <2>2, <2>3 DEF Made
  <2> QED
    BY <1>1, <2>2, <2>3, <2>4 DEF Age, SweepInv, FiniteInv
<1>5. ASSUME NEW S \in SUBSET Shares, S \subseteq Rows, Become(S, "gone"), UNCHANGED sweep
      PROVE  /\ \A s \in Shares : Age(row[s]) <= Age(row'[s])
             /\ SweepInv' /\ IsFiniteSet(Made')
  BY <1>1, <1>2, <1>5 DEF SweepInv, FiniteInv
<1>6. ASSUME NEW s \in Shares,
             RetrieveShare(s) \/ delete_share(s) \/ (delete_user_share(s) /\ UNCHANGED sweep)
      PROVE  \E S \in SUBSET Shares : S \subseteq Rows /\ Become(S, "gone") /\ UNCHANGED sweep
  <2>1. \/ {s} \subseteq Rows /\ Become({s}, "gone") /\ UNCHANGED sweep
        \/ {s} \cap Rows \subseteq Rows /\ Become({s} \cap Rows, "gone") /\ UNCHANGED sweep
    BY <1>6 DEF RetrieveShare, delete_share, delete_user_share, Rows
  <2> QED
    BY <2>1
<1>7. CASE delete_expired
  BY <1>1, <1>7 DEF delete_expired, expired_shares, SweepInv, Made, Age, FiniteInv
<1>8. CASE SweepEnds
  BY <1>1, <1>8 DEF SweepEnds, SweepInv, Made, Age, FiniteInv
<1>9. CASE \E S \in SUBSET Shares : DeleteBatch(S)
  <2>1. PICK S \in SUBSET Shares : DeleteBatch(S)
    BY <1>9
  <2>2. S \subseteq sweep /\ S \subseteq Rows /\ Become(S, "gone") /\ sweep' = sweep \ S
    BY <2>1 DEF DeleteBatch
  <2>3. /\ \A s \in Shares : Age(row[s]) <= Age(row'[s])
        /\ \A s \in Shares : row'[s] = IF s \in S THEN "gone" ELSE row[s]
        /\ Made' = Made
    BY <1>2, <2>2
  <2> QED
    BY <1>1, <2>2, <2>3 DEF SweepInv, FiniteInv
<1> QED
  BY <1>3, <1>4, <1>5, <1>6, <1>7, <1>8, <1>9 DEF TableNext, ShareNext, SweepStep, FiniteInv

\* From state to state: there are finitely many rows at any time, and a sweep is
\* after no live one.
LEMMA SweepInvariant == Spec => [](IInv /\ SweepInv /\ FiniteInv)
<1>1. Init => SweepInv /\ FiniteInv
  <2> SUFFICES ASSUME Init PROVE SweepInv /\ FiniteInv
    OBVIOUS
  <2>1. Made = {} /\ sweep = {}
    BY DEF Init, ShareInit, Made
  <2> QED
    BY <2>1, FS_EmptySet DEF SweepInv, FiniteInv
<1>2. ASSUME IInv, SweepInv, FiniteInv, [Next]_vars
      PROVE  SweepInv' /\ FiniteInv'
  <2>1. CASE TableNext
    BY <1>2, <2>1, TableEffect DEF IInv, TypeOK
  <2>2. CASE UNCHANGED shareVars
    BY <1>2, <2>2 DEF shareVars, SweepInv, FiniteInv, Made
  <2> QED
    BY <1>2, <2>1, <2>2, TableStep
<1> QED
  BY <1>1, <1>2, PassInvariant, PTL DEF Spec

\* The rows of the shares are changed by the operations of the table alone, and
\* only forward: whatever is late or answered twice, no row comes back once it is
\* deleted, and none that has expired is live again (passwd/services.py:38-150).
THEOREM PassRowsGoForward == Spec => [][\A s \in Shares : Age(row[s]) <= Age(row'[s])]_row
<1>1. ASSUME IInv /\ SweepInv /\ FiniteInv, [Next]_vars
      PROVE  [\A s \in Shares : Age(row[s]) <= Age(row'[s])]_row
  BY <1>1, TableStep, TableEffect DEF IInv, TypeOK, shareVars
<1> QED
  BY <1>1, SweepInvariant, PTL DEF Spec

\* No step of a sweep, from the cutoff to its last batch, takes a share that can
\* still be opened, however long the sweep runs and whatever is created and
\* deleted beside it (passwd/services.py:80-131).
THEOREM PassSweepSparesTheLive ==
    Spec => [][\A s \in Shares : row[s] = "live" => row'[s] = "live"]_sweep
<1>1. ASSUME IInv /\ SweepInv /\ FiniteInv, [Next]_vars
      PROVE  [\A s \in Shares : row[s] = "live" => row'[s] = "live"]_sweep
  BY <1>1, TableStep, TableEffect DEF IInv, TypeOK, shareVars
<1> QED
  BY <1>1, SweepInvariant, PTL DEF Spec

\* A sweep is after a finite number of rows, and each of its steps leaves fewer:
\* what expires while it runs waits for the next one, so that it ends
\* (passwd/services.py:97-131).
THEOREM PassSweepNearsItsEnd ==
    Spec => [][sweep # {} => /\ Cardinality(sweep) \in Nat /\ Cardinality(sweep') \in Nat
                             /\ Cardinality(sweep') < Cardinality(sweep)]_sweep
<1>1. ASSUME IInv /\ SweepInv /\ FiniteInv, [Next]_vars
      PROVE  [sweep # {} => /\ Cardinality(sweep) \in Nat /\ Cardinality(sweep') \in Nat
                            /\ Cardinality(sweep') < Cardinality(sweep)]_sweep
  <2> SUFFICES ASSUME sweep # {}, sweep' # sweep
               PROVE  /\ Cardinality(sweep) \in Nat /\ Cardinality(sweep') \in Nat
                      /\ Cardinality(sweep') < Cardinality(sweep)
    OBVIOUS
  <2>1. sweep' \subseteq sweep
    BY <1>1, TableStep, TableEffect DEF IInv, TypeOK, shareVars
  <2>2. IsFiniteSet(sweep)
    <3>1. sweep \subseteq Made
      BY <1>1 DEF SweepInv, Made, IInv, TypeOK, ShareTypeOK
    <3> QED
      BY <1>1, <3>1, FS_Subset DEF FiniteInv
  <2>3. IsFiniteSet(sweep') /\ Cardinality(sweep') <= Cardinality(sweep)
        /\ Cardinality(sweep') # Cardinality(sweep)
    BY <2>1, <2>2, FS_Subset
  <2>4. Cardinality(sweep) \in Nat /\ Cardinality(sweep') \in Nat
    BY <2>2, <2>3, FS_CardinalityType
  <2> QED
    BY <2>3, <2>4
<1> QED
  BY <1>1, SweepInvariant, PTL DEF Spec
=============================================================================
