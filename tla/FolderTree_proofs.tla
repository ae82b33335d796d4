-------------------------- MODULE FolderTree_proofs --------------------------
(***************************************************************************)
(* Proofs about FolderTree: rows refer to rows there are, checks made      *)
(* before a write hold after it, a deleted folder is empty, and a public   *)
(* request gets what the owners published.                                 *)
(***************************************************************************)
EXTENDS FolderTree, FiniteSetTheorems, TLAPS

-----------------------------------------------------------------------------
(* The inductive invariant Shape.  It adds to TypeOK what a request found  *)
(* out by its guard and its next statement relies on: rows never go away   *)
(* and never change their owner, so it stays true however long it takes.   *)

Holds(u, g) == IsFolder(g) /\ folders[g].owner = u

CallOK(p) ==
  LET c == at[p] IN
  /\ pc[p] = "create" =>
       /\ c.op \in {"create", "api", "import", "again"} /\ c.user \in User
       /\ c.to = None \/ Holds(c.user, c.to)
       /\ c.op = "api" => c.to = None
  /\ pc[p] = "parent" =>
       Holds(c.user, c.folder) /\ (c.to = None \/ Holds(c.user, c.to))
  /\ pc[p] \in {"rename", "flag", "sync", "drop", "empty", "walk", "list"} =>
       IsFolder(c.folder)
  /\ pc[p] \in {"list", "copy", "insert"} => c.user \in User
  /\ pc[p] = "list" => c.op = "import" /\ c.to = None
  /\ pc[p] = "inherit" => c.user \in User /\ c.op = "session" /\ IsFolder(c.folder)
  /\ pc[p] = "insert" /\ c.op = "session" /\ c.on => IsFolder(c.folder)
  /\ pc[p] \in {"mark", "refile", "erase", "walk", "served", "refused"} =>
       IsFile(c.file)
  /\ pc[p] = "refile" => c.to = None \/ IsFolder(c.to)
  /\ pc[p] = "grant" =>
       /\ c.user \in User /\ c.to \in User
       /\ IF c.file = None THEN Holds(c.user, c.folder)
          ELSE IsFile(c.file) /\ files[c.file].owner = c.user

ShareOK(s) ==
  IF s.res[1] = "folder" THEN IsFolder(s.res[2]) ELSE IsFile(s.res[2])

RowOK == /\ \A g \in FolderIds : IsFolder(g) /\ folders[g].made =>
              folders[g].named /\ folders[g].parent = None
         /\ \A d \in FileIds : IsFile(d) /\ files[d].why = "folder" =>
              files[d].folder # None

Shape == /\ TypeOK /\ Owned /\ RowOK
         /\ \A p \in Proc : CallOK(p)
         /\ \A s \in shares : ShareOK(s)

(* The folders made for API uploads of u, and the requests about to make   *)
(* one.                                                                    *)
Made(u) == {g \in FolderIds : OwnFolder(u, g) /\ folders[g].made}
Making(u) ==
  {p \in Proc : pc[p] = "create" /\ at[p].op = "api" /\ at[p].user = u}
MadeInv ==
  \A u \in User :
    Cardinality(Made(u)) + Cardinality(Making(u)) <= Cardinality(Proc)

(* What a walk has found out, unless the tree changed under it: its folder *)
(* is the n-th one above the file (Climbed), as it is on every way up that *)
(* goes so far, and none below it is public (Passed).                      *)
Climbed(d, n, g) ==
  \E way \in [0..n -> FolderIds] :
    /\ way[0] = files[d].folder /\ way[n] = g
    /\ \A k \in 0..(n - 1) :
         LiveFolder(way[k]) /\ folders[way[k]].parent = way[k + 1]
Passed(d, n, g) ==
  \A m \in 0..(WalkDepth - 1) : \A way \in Above(files[d].folder, m) :
    /\ n <= m => way[n] = g
    /\ \A k \in 0..m : k < n => ~folders[way[k]].public

WalkOK(p) ==
  pc[p] = "walk" =>
    LET d == at[p].file
        n == at[p].n
    IN  /\ n < WalkDepth
        /\ ~watch[p].moved =>
             LiveFile(d) /\ files[d].folder # None /\ Climbed(d, n, at[p].folder)
        /\ ~watch[p].changed =>
             /\ ~files[d].public /\ files[d].folder # None
             /\ Passed(d, n, at[p].folder)

Verdict(p) ==
  /\ Is(p, "served") => watch[p].open \/ watch[p].moved
  /\ Is(p, "refused") => watch[p].shut \/ watch[p].changed

WalkInv == \A p \in Proc : WalkOK(p) /\ Verdict(p)

TreeOK ==
  /\ folders \in [FolderIds -> FolderRow \cup {NoRow}]
  /\ files \in [FileIds -> FileRow \cup {NoRow}]
  /\ \A g \in FolderIds : IsFolder(g) =>
       folders[g].parent = None \/ Holds(folders[g].owner, folders[g].parent)
  /\ \A d \in FileIds : IsFile(d) => files[d].folder = None \/ IsFolder(files[d].folder)
  /\ RowOK

SharesOK ==
  \A s \in shares :
    /\ s \in [id : Nat, res : Resource, owner : User, to : User]
    /\ ShareOK(s)
    /\ s.owner = IF s.res[1] = "folder" THEN folders[s.res[2]].owner
                 ELSE files[s.res[2]].owner

Refs(p) ==
  /\ at[p].folder = None \/ IsFolder(at[p].folder)
  /\ at[p].file = None \/ IsFile(at[p].file)
  /\ \A d \in at[p].list : IsFile(d)

Grows ==
  /\ \A g \in FolderIds : IsFolder(g) =>
       IsFolder(g)' /\ folders'[g].owner = folders[g].owner
  /\ \A d \in FileIds : IsFile(d) =>
       IsFile(d)' /\ files'[d].owner = files[d].owner

WatchRow == [open : BOOLEAN, shut : BOOLEAN, moved : BOOLEAN, changed : BOOLEAN]

LEMMA Parts ==
  Shape <=> /\ TreeOK /\ SharesOK
            /\ watch \in [Proc -> WatchRow] /\ {requests, faults, crashes} \subseteq Nat
            /\ pc \in [Proc -> PC] /\ at \in [Proc -> CallRow]
            /\ \A p \in Proc : Refs(p) /\ CallOK(p)
<1>1. ASSUME NEW g \in FolderIds, TypeOK, IsFolder(g)
      PROVE  folders[g].parent \in FolderIds \cup {None} /\ None \notin FolderIds
  BY <1>1, TreeBounds DEF TypeOK, IsFolder, FolderRow, FolderIds
<1>2. ASSUME NEW g \in FolderIds, TreeOK, IsFolder(g)
      PROVE  folders[g].parent \in FolderIds \cup {None} /\ None \notin FolderIds
  BY <1>2, TreeBounds DEF TreeOK, IsFolder, FolderRow, FolderIds
<1>. QED
  BY <1>1, <1>2 DEF Shape, TypeOK, Owned, TreeOK, SharesOK, Refs, WatchRow, Holds

LEMMA Primed ==
  Shape' <=> /\ TreeOK' /\ SharesOK'
             /\ watch' \in [Proc -> WatchRow] /\ {requests', faults', crashes'} \subseteq Nat
             /\ pc' \in [Proc -> PC] /\ at' \in [Proc -> CallRow]
             /\ \A p \in Proc : Refs(p)' /\ CallOK(p)'
<1>1. ASSUME NEW g \in FolderIds, TypeOK', IsFolder(g)'
      PROVE  folders'[g].parent \in FolderIds \cup {None} /\ None \notin FolderIds
  BY <1>1, TreeBounds DEF TypeOK, IsFolder, FolderRow, FolderIds
<1>2. ASSUME NEW g \in FolderIds, TreeOK', IsFolder(g)'
      PROVE  folders'[g].parent \in FolderIds \cup {None} /\ None \notin FolderIds
  BY <1>2, TreeBounds DEF TreeOK, IsFolder, FolderRow, FolderIds
<1>. QED
  BY <1>1, <1>2 DEF Shape, TypeOK, Owned, TreeOK, SharesOK, Refs, WatchRow, Holds

LEMMA WatchType ==
  ASSUME Shape, Watch
  PROVE  watch' \in [Proc -> WatchRow]
BY DEF Shape, TypeOK, Watch, WatchRow, NoWatch

LEMMA NoCallType == NoCall \in CallRow
BY TreeBounds DEF NoCall, CallRow, FolderIds, FileIds

LEMMA Calls ==
  ASSUME NEW op \in {"none", "create", "api", "import", "again", "move", "rename", "share",
                     "delete", "session", "public", "grant", "revoke"},
         NEW u \in User \cup {None}, NEW g \in FolderIds \cup {None},
         NEW d \in FileIds \cup {None}
  PROVE  /\ Call(op, u, g, d) \in CallRow
         /\ Call(op, u, g, d).op = op /\ Call(op, u, g, d).user = u
         /\ Call(op, u, g, d).folder = g /\ Call(op, u, g, d).file = d
         /\ Call(op, u, g, d).to = None /\ Call(op, u, g, d).on = FALSE
         /\ Call(op, u, g, d).list = {} /\ Call(op, u, g, d).n = 0
BY ZenonT(60), NoCallType DEF Call, NoCall, CallRow

LEMMA Moves ==
  ASSUME Shape, NEW p \in Proc, NEW l \in PC, NEW c \in CallRow, Go(p, l, c)
  PROVE  /\ pc' \in [Proc -> PC] /\ at' \in [Proc -> CallRow]
         /\ pc'[p] = l /\ at'[p] = c
         /\ \A q \in Proc \ {p} : pc'[q] = pc[q] /\ at'[q] = at[q]
BY DEF Shape, TypeOK, Go

(* What a request relies on is not taken away by another.                  *)
LEMMA CallStays ==
  ASSUME Shape, Grows, NEW p \in Proc, pc'[p] = pc[p], at'[p] = at[p]
  PROVE  Refs(p)' /\ CallOK(p)'
<1>1. Refs(p) /\ CallOK(p) /\ at[p] \in CallRow
  BY Parts
<1>2. \A g \in FolderIds \cup {None} : IsFolder(g) =>
        IsFolder(g)' /\ folders'[g].owner = folders[g].owner
  BY DEF Grows, IsFolder
<1>3. \A d \in FileIds \cup {None} : IsFile(d) =>
        IsFile(d)' /\ files'[d].owner = files[d].owner
  BY DEF Grows, IsFile
<1>4. \A u, g : Holds(u, g) => Holds(u, g)'
  BY DEF Holds, Grows, IsFolder
<1>5. Refs(p)'
  BY <1>1, <1>2, <1>3 DEF Refs, CallRow
<1>. QED
  BY <1>1, <1>2, <1>3, <1>4, <1>5 DEF CallOK, CallRow, IsFolder, IsFile

LEMMA SharesStay ==
  ASSUME Shape, Grows, shares' \subseteq shares
  PROVE  SharesOK'
<1>1. SharesOK
  BY Parts
<1>. QED
  BY <1>1 DEF SharesOK, ShareOK, Grows, IsFolder, IsFile

(* A step of request p is well if what it writes is.                       *)
LEMMA StepShape ==
  ASSUME Shape, Watch, Grows, TreeOK', SharesOK',
         {requests', faults', crashes'} \subseteq Nat,
         NEW p \in Proc, NEW l \in PC, NEW c \in CallRow, Go(p, l, c),
         Refs(p)', CallOK(p)'
  PROVE  Shape'
BY Moves, CallStays, WatchType, Primed

LEMMA Same ==
  ASSUME Shape, UNCHANGED tree
  PROVE  TreeOK' /\ Grows
<1>1. TreeOK
  BY Parts
<1>. QED
  BY <1>1 DEF tree, TreeOK, Grows, IsFolder, IsFile, Holds, RowOK

(* A request arrives with a call that is well.                             *)
LEMMA ArriveShape ==
  ASSUME Shape, Watch, UNCHANGED <<tree, shares>>, {faults', crashes'} \subseteq Nat,
         NEW p \in Proc, NEW l \in PC, NEW c \in CallRow, Arrives(p, l, c),
         Refs(p)', CallOK(p)'
  PROVE  Shape'
<1>1. TreeOK' /\ Grows
  BY Same
<1>2. SharesOK'
  BY <1>1, SharesStay
<1>3. requests' \in Nat
  BY DEF Arrives, Shape, TypeOK
<1>. QED
  BY <1>1, <1>2, <1>3, StepShape DEF Arrives

LEMMA CreateFolderShape ==
  ASSUME Shape, NEW p \in Proc, CreateFolder(p)
  PROVE  Shape'
<1>1. PICK u \in User, g \in FolderIds \cup {None}, named \in BOOLEAN :
             /\ g = None \/ OwnFolder(u, g)
             /\ Arrives(p, "create",
                        [Call("create", u, None, None) EXCEPT !.to = g, !.on = named])
  BY DEF CreateFolder
<1>. DEFINE l == "create"
            c == [Call("create", u, None, None) EXCEPT !.to = g, !.on = named]
<1>2. TreeOK /\ None \notin FolderIds \cup FileIds
  BY Parts, TreeBounds DEF FolderIds, FileIds
<1>3. l \in PC /\ c \in CallRow
  BY <1>1, <1>2 DEF Call, NoCall, PC, CallRow
<1>4. /\ c.op = "create" /\ c.user = u /\ c.folder = None /\ c.file = None
      /\ c.to = g /\ c.on = named /\ c.list = {} /\ c.n = 0
  BY DEF Call, NoCall
<1>5. Arrives(p, l, c)
  BY <1>1
<1>6. /\ Watch /\ UNCHANGED <<tree, shares>> /\ {faults', crashes'} \subseteq Nat
  BY Parts DEF CreateFolder, Keep
<1>. HIDE DEF l, c
<1>7. pc'[p] = l /\ at'[p] = c
  BY <1>3, <1>5, Moves DEF Arrives
<1>8. \A x : IsFolder(x)' = IsFolder(x) /\ IsFile(x)' = IsFile(x)
  BY <1>6 DEF tree, IsFolder, IsFile
<1>9. Refs(p)'
  BY <1>1, <1>2, <1>4, <1>7, <1>8 DEF Refs, OwnFolder, OwnFile, LiveFolder, LiveFile, FindByIDPublic, TreeOK
<1>10. CallOK(p)'
  BY <1>1, <1>2, <1>4, <1>6, <1>7, <1>8
  DEF l, CallOK, Holds, OwnFolder, OwnFile, LiveFolder, LiveFile, FindByIDPublic, tree, TreeOK
<1>. QED
  BY <1>3, <1>5, <1>6, <1>9, <1>10, ArriveShape

LEMMA MoveFolderShape ==
  ASSUME Shape, NEW p \in Proc, MoveFolder(p)
  PROVE  Shape'
<1>1. PICK u \in User, g \in FolderIds, t \in FolderIds \cup {None} :
             /\ OwnFolder(u, g) /\ (t = None \/ OwnFolder(u, t))
             /\ Arrives(p, "parent",
                        [Call("move", u, g, None) EXCEPT !.to = t])
  BY DEF MoveFolder
<1>. DEFINE l == "parent"
            c == [Call("move", u, g, None) EXCEPT !.to = t]
<1>2. TreeOK /\ None \notin FolderIds \cup FileIds
  BY Parts, TreeBounds DEF FolderIds, FileIds
<1>3. l \in PC /\ c \in CallRow
  BY <1>1, <1>2 DEF Call, NoCall, PC, CallRow
<1>4. /\ c.op = "move" /\ c.user = u /\ c.folder = g /\ c.file = None
      /\ c.to = t /\ c.on = FALSE /\ c.list = {} /\ c.n = 0
  BY DEF Call, NoCall
<1>5. Arrives(p, l, c)
  BY <1>1
<1>6. /\ Watch /\ UNCHANGED <<tree, shares>> /\ {faults', crashes'} \subseteq Nat
  BY Parts DEF MoveFolder, Keep
<1>. HIDE DEF l, c
<1>7. pc'[p] = l /\ at'[p] = c
  BY <1>3, <1>5, Moves DEF Arrives
<1>8. \A x : IsFolder(x)' = IsFolder(x) /\ IsFile(x)' = IsFile(x)
  BY <1>6 DEF tree, IsFolder, IsFile
<1>9. Refs(p)'
  BY <1>1, <1>2, <1>4, <1>7, <1>8 DEF Refs, OwnFolder, OwnFile, LiveFolder, LiveFile, FindByIDPublic, TreeOK
<1>10. CallOK(p)'
  BY <1>1, <1>2, <1>4, <1>6, <1>7, <1>8
  DEF l, CallOK, Holds, OwnFolder, OwnFile, LiveFolder, LiveFile, FindByIDPublic, tree, TreeOK
<1>. QED
  BY <1>3, <1>5, <1>6, <1>9, <1>10, ArriveShape

LEMMA RenameFolderShape ==
  ASSUME Shape, NEW p \in Proc, RenameFolder(p)
  PROVE  Shape'
<1>1. PICK u \in User, g \in FolderIds, named \in BOOLEAN :
             /\ OwnFolder(u, g)
             /\ Arrives(p, "rename",
                        [Call("rename", u, g, None) EXCEPT !.on = named])
  BY DEF RenameFolder
<1>. DEFINE l == "rename"
            c == [Call("rename", u, g, None) EXCEPT !.on = named]
<1>2. TreeOK /\ None \notin FolderIds \cup FileIds
  BY Parts, TreeBounds DEF FolderIds, FileIds
<1>3. l \in PC /\ c \in CallRow
  BY <1>1, <1>2 DEF Call, NoCall, PC, CallRow
<1>4. /\ c.op = "rename" /\ c.user = u /\ c.folder = g /\ c.file = None
      /\ c.to = None /\ c.on = named /\ c.list = {} /\ c.n = 0
  BY DEF Call, NoCall
<1>5. Arrives(p, l, c)
  BY <1>1
<1>6. /\ Watch /\ UNCHANGED <<tree, shares>> /\ {faults', crashes'} \subseteq Nat
  BY Parts DEF RenameFolder, Keep
<1>. HIDE DEF l, c
<1>7. pc'[p] = l /\ at'[p] = c
  BY <1>3, <1>5, Moves DEF Arrives
<1>8. \A x : IsFolder(x)' = IsFolder(x) /\ IsFile(x)' = IsFile(x)
  BY <1>6 DEF tree, IsFolder, IsFile
<1>9. Refs(p)'
  BY <1>1, <1>2, <1>4, <1>7, <1>8 DEF Refs, OwnFolder, OwnFile, LiveFolder, LiveFile, FindByIDPublic, TreeOK
<1>10. CallOK(p)'
  BY <1>1, <1>2, <1>4, <1>6, <1>7, <1>8
  DEF l, CallOK, Holds, OwnFolder, OwnFile, LiveFolder, LiveFile, FindByIDPublic, tree, TreeOK
<1>. QED
  BY <1>3, <1>5, <1>6, <1>9, <1>10, ArriveShape

LEMMA ToggleFolderShape ==
  ASSUME Shape, NEW p \in Proc, ToggleFolder(p)
  PROVE  Shape'
<1>1. PICK u \in User, g \in FolderIds, on \in BOOLEAN :
             /\ OwnFolder(u, g)
             /\ Arrives(p, "flag",
                        [Call("share", u, g, None) EXCEPT !.on = on])
  BY DEF ToggleFolder
<1>. DEFINE l == "flag"
            c == [Call("share", u, g, None) EXCEPT !.on = on]
<1>2. TreeOK /\ None \notin FolderIds \cup FileIds
  BY Parts, TreeBounds DEF FolderIds, FileIds
<1>3. l \in PC /\ c \in CallRow
  BY <1>1, <1>2 DEF Call, NoCall, PC, CallRow
<1>4. /\ c.op = "share" /\ c.user = u /\ c.folder = g /\ c.file = None
      /\ c.to = None /\ c.on = on /\ c.list = {} /\ c.n = 0
  BY DEF Call, NoCall
<1>5. Arrives(p, l, c)
  BY <1>1
<1>6. /\ Watch /\ UNCHANGED <<tree, shares>> /\ {faults', crashes'} \subseteq Nat
  BY Parts DEF ToggleFolder, Keep
<1>. HIDE DEF l, c
<1>7. pc'[p] = l /\ at'[p] = c
  BY <1>3, <1>5, Moves DEF Arrives
<1>8. \A x : IsFolder(x)' = IsFolder(x) /\ IsFile(x)' = IsFile(x)
  BY <1>6 DEF tree, IsFolder, IsFile
<1>9. Refs(p)'
  BY <1>1, <1>2, <1>4, <1>7, <1>8 DEF Refs, OwnFolder, OwnFile, LiveFolder, LiveFile, FindByIDPublic, TreeOK
<1>10. CallOK(p)'
  BY <1>1, <1>2, <1>4, <1>6, <1>7, <1>8
  DEF l, CallOK, Holds, OwnFolder, OwnFile, LiveFolder, LiveFile, FindByIDPublic, tree, TreeOK
<1>. QED
  BY <1>3, <1>5, <1>6, <1>9, <1>10, ArriveShape

LEMMA DeleteFolderShape ==
  ASSUME Shape, NEW p \in Proc, DeleteFolder(p)
  PROVE  Shape'
<1>1. PICK u \in User, g \in FolderIds :
             /\ OwnFolder(u, g)
             /\ Arrives(p, "drop",
                        Call("delete", u, g, None))
  BY DEF DeleteFolder
<1>. DEFINE l == "drop"
            c == Call("delete", u, g, None)
<1>2. TreeOK /\ None \notin FolderIds \cup FileIds
  BY Parts, TreeBounds DEF FolderIds, FileIds
<1>3. l \in PC /\ c \in CallRow
  BY <1>1, <1>2 DEF Call, NoCall, PC, CallRow
<1>4. /\ c.op = "delete" /\ c.user = u /\ c.folder = g /\ c.file = None
      /\ c.to = None /\ c.on = FALSE /\ c.list = {} /\ c.n = 0
  BY DEF Call, NoCall
<1>5. Arrives(p, l, c)
  BY <1>1
<1>6. /\ Watch /\ UNCHANGED <<tree, shares>> /\ {faults', crashes'} \subseteq Nat
  BY Parts DEF DeleteFolder, Keep
<1>. HIDE DEF l, c
<1>7. pc'[p] = l /\ at'[p] = c
  BY <1>3, <1>5, Moves DEF Arrives
<1>8. \A x : IsFolder(x)' = IsFolder(x) /\ IsFile(x)' = IsFile(x)
  BY <1>6 DEF tree, IsFolder, IsFile
<1>9. Refs(p)'
  BY <1>1, <1>2, <1>4, <1>7, <1>8 DEF Refs, OwnFolder, OwnFile, LiveFolder, LiveFile, FindByIDPublic, TreeOK
<1>10. CallOK(p)'
  BY <1>1, <1>2, <1>4, <1>6, <1>7, <1>8
  DEF l, CallOK, Holds, OwnFolder, OwnFile, LiveFolder, LiveFile, FindByIDPublic, tree, TreeOK
<1>. QED
  BY <1>3, <1>5, <1>6, <1>9, <1>10, ArriveShape

LEMMA CreateUploadSessionShape ==
  ASSUME Shape, NEW p \in Proc, CreateUploadSession(p)
  PROVE  Shape'
<1>1. PICK u \in User, g \in {k \in FolderIds : IsFolder(k)} \cup {None} :
             /\ Arrives(p, IF g = None THEN "insert" ELSE "inherit",
                        Call("session", u, g, None))
  BY DEF CreateUploadSession
<1>. DEFINE l == IF g = None THEN "insert" ELSE "inherit"
            c == Call("session", u, g, None)
<1>2. TreeOK /\ None \notin FolderIds \cup FileIds
  BY Parts, TreeBounds DEF FolderIds, FileIds
<1>3. l \in PC /\ c \in CallRow
  BY <1>1, <1>2 DEF Call, NoCall, PC, CallRow
<1>4. /\ c.op = "session" /\ c.user = u /\ c.folder = g /\ c.file = None
      /\ c.to = None /\ c.on = FALSE /\ c.list = {} /\ c.n = 0
  BY DEF Call, NoCall
<1>5. Arrives(p, l, c)
  BY <1>1
<1>6. /\ Watch /\ UNCHANGED <<tree, shares>> /\ {faults', crashes'} \subseteq Nat
  BY Parts DEF CreateUploadSession, Keep
<1>. HIDE DEF l, c
<1>7. pc'[p] = l /\ at'[p] = c
  BY <1>3, <1>5, Moves DEF Arrives
<1>8. \A x : IsFolder(x)' = IsFolder(x) /\ IsFile(x)' = IsFile(x)
  BY <1>6 DEF tree, IsFolder, IsFile
<1>9. Refs(p)'
  BY <1>1, <1>2, <1>4, <1>7, <1>8 DEF Refs, OwnFolder, OwnFile, LiveFolder, LiveFile, FindByIDPublic, TreeOK
<1>10. CallOK(p)'
  BY <1>1, <1>2, <1>4, <1>6, <1>7, <1>8
  DEF l, CallOK, Holds, OwnFolder, OwnFile, LiveFolder, LiveFile, FindByIDPublic, tree, TreeOK
<1>. QED
  BY <1>3, <1>5, <1>6, <1>9, <1>10, ArriveShape

LEMMA ToggleFileShape ==
  ASSUME Shape, NEW p \in Proc, ToggleFile(p)
  PROVE  Shape'
<1>1. PICK u \in User, d \in FileIds, on \in BOOLEAN :
             /\ OwnFile(u, d)
             /\ Arrives(p, "mark",
                        [Call("share", u, None, d) EXCEPT !.on = on])
  BY DEF ToggleFile
<1>. DEFINE l == "mark"
            c == [Call("share", u, None, d) EXCEPT !.on = on]
<1>2. TreeOK /\ None \notin FolderIds \cup FileIds
  BY Parts, TreeBounds DEF FolderIds, FileIds
<1>3. l \in PC /\ c \in CallRow
  BY <1>1, <1>2 DEF Call, NoCall, PC, CallRow
<1>4. /\ c.op = "share" /\ c.user = u /\ c.folder = None /\ c.file = d
      /\ c.to = None /\ c.on = on /\ c.list = {} /\ c.n = 0
  BY DEF Call, NoCall
<1>5. Arrives(p, l, c)
  BY <1>1
<1>6. /\ Watch /\ UNCHANGED <<tree, shares>> /\ {faults', crashes'} \subseteq Nat
  BY Parts DEF ToggleFile, Keep
<1>. HIDE DEF l, c
<1>7. pc'[p] = l /\ at'[p] = c
  BY <1>3, <1>5, Moves DEF Arrives
<1>8. \A x : IsFolder(x)' = IsFolder(x) /\ IsFile(x)' = IsFile(x)
  BY <1>6 DEF tree, IsFolder, IsFile
<1>9. Refs(p)'
  BY <1>1, <1>2, <1>4, <1>7, <1>8 DEF Refs, OwnFolder, OwnFile, LiveFolder, LiveFile, FindByIDPublic, TreeOK
<1>10. CallOK(p)'
  BY <1>1, <1>2, <1>4, <1>6, <1>7, <1>8
  DEF l, CallOK, Holds, OwnFolder, OwnFile, LiveFolder, LiveFile, FindByIDPublic, tree, TreeOK
<1>. QED
  BY <1>3, <1>5, <1>6, <1>9, <1>10, ArriveShape

LEMMA MoveFileShape ==
  ASSUME Shape, NEW p \in Proc, MoveFile(p)
  PROVE  Shape'
<1>1. PICK u \in User, d \in FileIds, g \in {k \in FolderIds : IsFolder(k)} \cup {None} :
             /\ OwnFile(u, d)
             /\ Arrives(p, "refile",
                        [Call("move", u, None, d) EXCEPT !.to = g])
  BY DEF MoveFile
<1>. DEFINE l == "refile"
            c == [Call("move", u, None, d) EXCEPT !.to = g]
<1>2. TreeOK /\ None \notin FolderIds \cup FileIds
  BY Parts, TreeBounds DEF FolderIds, FileIds
<1>3. l \in PC /\ c \in CallRow
  BY <1>1, <1>2 DEF Call, NoCall, PC, CallRow
<1>4. /\ c.op = "move" /\ c.user = u /\ c.folder = None /\ c.file = d
      /\ c.to = g /\ c.on = FALSE /\ c.list = {} /\ c.n = 0
  BY DEF Call, NoCall
<1>5. Arrives(p, l, c)
  BY <1>1
<1>6. /\ Watch /\ UNCHANGED <<tree, shares>> /\ {faults', crashes'} \subseteq Nat
  BY Parts DEF MoveFile, Keep
<1>. HIDE DEF l, c
<1>7. pc'[p] = l /\ at'[p] = c
  BY <1>3, <1>5, Moves DEF Arrives
<1>8. \A x : IsFolder(x)' = IsFolder(x) /\ IsFile(x)' = IsFile(x)
  BY <1>6 DEF tree, IsFolder, IsFile
<1>9. Refs(p)'
  BY <1>1, <1>2, <1>4, <1>7, <1>8 DEF Refs, OwnFolder, OwnFile, LiveFolder, LiveFile, FindByIDPublic, TreeOK
<1>10. CallOK(p)'
  BY <1>1, <1>2, <1>4, <1>6, <1>7, <1>8
  DEF l, CallOK, Holds, OwnFolder, OwnFile, LiveFolder, LiveFile, FindByIDPublic, tree, TreeOK
<1>. QED
  BY <1>3, <1>5, <1>6, <1>9, <1>10, ArriveShape

LEMMA DeleteFileShape ==
  ASSUME Shape, NEW p \in Proc, DeleteFile(p)
  PROVE  Shape'
<1>1. PICK u \in User, d \in FileIds :
             /\ OwnFile(u, d)
             /\ Arrives(p, "erase",
                        Call("delete", u, None, d))
  BY DEF DeleteFile
<1>. DEFINE l == "erase"
            c == Call("delete", u, None, d)
<1>2. TreeOK /\ None \notin FolderIds \cup FileIds
  BY Parts, TreeBounds DEF FolderIds, FileIds
<1>3. l \in PC /\ c \in CallRow
  BY <1>1, <1>2 DEF Call, NoCall, PC, CallRow
<1>4. /\ c.op = "delete" /\ c.user = u /\ c.folder = None /\ c.file = d
      /\ c.to = None /\ c.on = FALSE /\ c.list = {} /\ c.n = 0
  BY DEF Call, NoCall
<1>5. Arrives(p, l, c)
  BY <1>1
<1>6. /\ Watch /\ UNCHANGED <<tree, shares>> /\ {faults', crashes'} \subseteq Nat
  BY Parts DEF DeleteFile, Keep
<1>. HIDE DEF l, c
<1>7. pc'[p] = l /\ at'[p] = c
  BY <1>3, <1>5, Moves DEF Arrives
<1>8. \A x : IsFolder(x)' = IsFolder(x) /\ IsFile(x)' = IsFile(x)
  BY <1>6 DEF tree, IsFolder, IsFile
<1>9. Refs(p)'
  BY <1>1, <1>2, <1>4, <1>7, <1>8 DEF Refs, OwnFolder, OwnFile, LiveFolder, LiveFile, FindByIDPublic, TreeOK
<1>10. CallOK(p)'
  BY <1>1, <1>2, <1>4, <1>6, <1>7, <1>8
  DEF l, CallOK, Holds, OwnFolder, OwnFile, LiveFolder, LiveFile, FindByIDPublic, tree, TreeOK
<1>. QED
  BY <1>3, <1>5, <1>6, <1>9, <1>10, ArriveShape

LEMMA DownloadPublicShape ==
  ASSUME Shape, NEW p \in Proc, DownloadPublic(p)
  PROVE  Shape'
<1>1. PICK d \in FileIds :
             /\ LiveFile(d) /\ files[d].status = "READY"
             /\ Arrives(p, IF files[d].public THEN "served" ELSE IF files[d].folder = None THEN "refused" ELSE "walk",
                        Call("public", None, files[d].folder, d))
  BY DEF DownloadPublic
<1>. DEFINE l == IF files[d].public THEN "served" ELSE IF files[d].folder = None THEN "refused" ELSE "walk"
            c == Call("public", None, files[d].folder, d)
<1>2. TreeOK /\ None \notin FolderIds \cup FileIds
  BY Parts, TreeBounds DEF FolderIds, FileIds
<1>3. l \in PC /\ c \in CallRow
  BY <1>1, <1>2 DEF Call, NoCall, PC, CallRow, TreeOK, LiveFile, IsFile, FileRow
<1>4. /\ c.op = "public" /\ c.user = None /\ c.folder = files[d].folder /\ c.file = d
      /\ c.to = None /\ c.on = FALSE /\ c.list = {} /\ c.n = 0
  BY DEF Call, NoCall
<1>5. Arrives(p, l, c)
  BY <1>1
<1>6. /\ Watch /\ UNCHANGED <<tree, shares>> /\ {faults', crashes'} \subseteq Nat
  BY Parts DEF DownloadPublic, Keep
<1>. HIDE DEF l, c
<1>7. pc'[p] = l /\ at'[p] = c
  BY <1>3, <1>5, Moves DEF Arrives
<1>8. \A x : IsFolder(x)' = IsFolder(x) /\ IsFile(x)' = IsFile(x)
  BY <1>6 DEF tree, IsFolder, IsFile
<1>9. Refs(p)'
  BY <1>1, <1>2, <1>4, <1>7, <1>8 DEF Refs, OwnFolder, OwnFile, LiveFolder, LiveFile, FindByIDPublic, TreeOK
<1>10. CallOK(p)'
  BY <1>1, <1>2, <1>4, <1>6, <1>7, <1>8
  DEF l, CallOK, Holds, OwnFolder, OwnFile, LiveFolder, LiveFile, FindByIDPublic, tree, TreeOK
<1>. QED
  BY <1>3, <1>5, <1>6, <1>9, <1>10, ArriveShape

LEMMA SavePublicFolderToVaultShape ==
  ASSUME Shape, NEW p \in Proc, SavePublicFolderToVault(p)
  PROVE  Shape'
<1>1. PICK u \in User, g \in FolderIds :
             /\ FindByIDPublic(g)
             /\ Arrives(p, "list",
                        [Call("import", u, g, None) EXCEPT !.on = folders[g].named])
  BY DEF SavePublicFolderToVault
<1>. DEFINE l == "list"
            c == [Call("import", u, g, None) EXCEPT !.on = folders[g].named]
<1>2. TreeOK /\ None \notin FolderIds \cup FileIds
  BY Parts, TreeBounds DEF FolderIds, FileIds
<1>3. l \in PC /\ c \in CallRow
  BY <1>1, <1>2 DEF Call, NoCall, PC, CallRow, TreeOK, FindByIDPublic, LiveFolder, IsFolder, FolderRow
<1>4. /\ c.op = "import" /\ c.user = u /\ c.folder = g /\ c.file = None
      /\ c.to = None /\ c.on = folders[g].named /\ c.list = {} /\ c.n = 0
  BY DEF Call, NoCall
<1>5. Arrives(p, l, c)
  BY <1>1
<1>6. /\ Watch /\ UNCHANGED <<tree, shares>> /\ {faults', crashes'} \subseteq Nat
  BY Parts DEF SavePublicFolderToVault, Keep
<1>. HIDE DEF l, c
<1>7. pc'[p] = l /\ at'[p] = c
  BY <1>3, <1>5, Moves DEF Arrives
<1>8. \A x : IsFolder(x)' = IsFolder(x) /\ IsFile(x)' = IsFile(x)
  BY <1>6 DEF tree, IsFolder, IsFile
<1>9. Refs(p)'
  BY <1>1, <1>2, <1>4, <1>7, <1>8 DEF Refs, OwnFolder, OwnFile, LiveFolder, LiveFile, FindByIDPublic, TreeOK
<1>10. CallOK(p)'
  BY <1>1, <1>2, <1>4, <1>6, <1>7, <1>8
  DEF l, CallOK, Holds, OwnFolder, OwnFile, LiveFolder, LiveFile, FindByIDPublic, tree, TreeOK
<1>. QED
  BY <1>3, <1>5, <1>6, <1>9, <1>10, ArriveShape

LEMMA GetOrCreateFolderShape ==
  ASSUME Shape, NEW p \in Proc, GetOrCreateFolder(p)
  PROVE  Shape'
<1>1. PICK u \in User, on \in BOOLEAN, g \in FolderIds \cup {None}, l \in {"insert", "create"} :
        /\ Arrives(p, l, [[Call("api", u, None, None) EXCEPT !.on = on] EXCEPT !.folder = g])
        /\ g = None \/ IsFolder(g)
        /\ faults' = faults \/ Fault
  <2>1. \A u, on : [[Call("api", u, None, None) EXCEPT !.on = on] EXCEPT !.folder = None]
                     = [Call("api", u, None, None) EXCEPT !.on = on]
    BY DEF Call, NoCall
  <2>. QED
    BY <2>1 DEF GetOrCreateFolder, FindByName, OwnFolder, LiveFolder
<1>. DEFINE c == [[Call("api", u, None, None) EXCEPT !.on = on] EXCEPT !.folder = g]
<1>2. TreeOK /\ None \notin FolderIds \cup FileIds
  BY Parts, TreeBounds DEF FolderIds, FileIds
<1>3. l \in PC /\ c \in CallRow
  BY <1>1, <1>2 DEF Call, NoCall, PC, CallRow
<1>4. /\ c.op = "api" /\ c.user = u /\ c.folder = g /\ c.file = None
      /\ c.to = None /\ c.on = on /\ c.list = {} /\ c.n = 0
  BY DEF Call, NoCall
<1>5. Arrives(p, l, c)
  BY <1>1
<1>6. /\ Watch /\ UNCHANGED <<tree, shares>> /\ {faults', crashes'} \subseteq Nat
  <2>1. {faults, crashes} \subseteq Nat
    BY Parts
  <2>2. Watch /\ UNCHANGED <<tree, shares, crashes>>
    BY DEF GetOrCreateFolder, Keep
  <2>. QED
    BY <1>1, <2>1, <2>2 DEF Fault
<1>. HIDE DEF c
<1>7. pc'[p] = l /\ at'[p] = c
  BY <1>3, <1>5, Moves DEF Arrives
<1>8. \A x : IsFolder(x)' = IsFolder(x) /\ IsFile(x)' = IsFile(x)
  BY <1>6 DEF tree, IsFolder, IsFile
<1>9. Refs(p)'
  BY <1>1, <1>2, <1>4, <1>7, <1>8 DEF Refs
<1>10. CallOK(p)'
  BY <1>1, <1>2, <1>4, <1>6, <1>7, <1>8 DEF CallOK
<1>. QED
  BY <1>3, <1>5, <1>6, <1>9, <1>10, ArriveShape

LEMMA GrantShareShape ==
  ASSUME Shape, NEW p \in Proc, GrantShare(p)
  PROVE  Shape'
<1>1. PICK u \in User, to \in User, g \in FolderIds \cup {None}, d \in FileIds \cup {None} :
        /\ Arrives(p, "grant", [Call("grant", u, g, d) EXCEPT !.to = to])
        /\ \/ OwnFolder(u, g) /\ d = None
           \/ OwnFile(u, d) /\ g = None
  <2>1. PICK u \in User, to \in User :
          \/ \E g \in FolderIds :
               OwnFolder(u, g) /\ Arrives(p, "grant", [Call("grant", u, g, None) EXCEPT !.to = to])
          \/ \E d \in FileIds :
               OwnFile(u, d) /\ Arrives(p, "grant", [Call("grant", u, None, d) EXCEPT !.to = to])
    BY DEF GrantShare
  <2>. QED
    BY <2>1
<1>. DEFINE c == [Call("grant", u, g, d) EXCEPT !.to = to]
<1>2. TreeOK /\ None \notin FolderIds \cup FileIds
  BY Parts, TreeBounds DEF FolderIds, FileIds
<1>3. "grant" \in PC /\ c \in CallRow
  BY <1>1, <1>2 DEF Call, NoCall, PC, CallRow
<1>4. /\ c.op = "grant" /\ c.user = u /\ c.folder = g /\ c.file = d
      /\ c.to = to /\ c.list = {}
  BY DEF Call, NoCall
<1>5. Arrives(p, "grant", c)
  BY <1>1
<1>6. /\ Watch /\ UNCHANGED <<tree, shares>> /\ {faults', crashes'} \subseteq Nat
  BY Parts DEF GrantShare, Keep
<1>. HIDE DEF c
<1>7. pc'[p] = "grant" /\ at'[p] = c
  BY <1>3, <1>5, Moves DEF Arrives
<1>8. \A x : IsFolder(x)' = IsFolder(x) /\ IsFile(x)' = IsFile(x)
  BY <1>6 DEF tree, IsFolder, IsFile
<1>9. Refs(p)'
  BY <1>1, <1>2, <1>4, <1>7, <1>8 DEF Refs, OwnFolder, OwnFile, LiveFolder, LiveFile
<1>10. CallOK(p)'
  BY <1>1, <1>2, <1>4, <1>6, <1>7, <1>8
  DEF CallOK, Holds, OwnFolder, OwnFile, LiveFolder, LiveFile, tree, IsFile
<1>. QED
  BY <1>3, <1>5, <1>6, <1>9, <1>10, ArriveShape

LEMMA RevokeShareShape ==
  ASSUME Shape, NEW p \in Proc, RevokeShare(p)
  PROVE  Shape'
<1>1. PICK s \in shares :
        Arrives(p, "revoke", [Call("revoke", s.owner, None, None) EXCEPT !.n = s.id])
  BY DEF RevokeShare
<1>. DEFINE c == [Call("revoke", s.owner, None, None) EXCEPT !.n = s.id]
<1>2. SharesOK
  BY Parts
<1>3. "revoke" \in PC /\ c \in CallRow
  BY <1>2 DEF Call, NoCall, PC, CallRow, SharesOK
<1>4. c.folder = None /\ c.file = None /\ c.list = {}
  BY DEF Call, NoCall
<1>5. Arrives(p, "revoke", c)
  BY <1>1
<1>6. /\ Watch /\ UNCHANGED <<tree, shares>> /\ {faults', crashes'} \subseteq Nat
  BY Parts DEF RevokeShare, Keep
<1>. HIDE DEF c
<1>7. pc'[p] = "revoke" /\ at'[p] = c
  BY <1>3, <1>5, Moves DEF Arrives
<1>8. Refs(p)' /\ CallOK(p)'
  BY <1>4, <1>7 DEF Refs, CallOK
<1>. QED
  BY <1>3, <1>5, <1>6, <1>8, ArriveShape

(* Writing one folder's row, new or not.                                   *)
LEMMA FolderWrite ==
  ASSUME Shape, UNCHANGED files, NEW g \in FolderIds, NEW r \in FolderRow,
         IsFolder(g) => r.owner = folders[g].owner,
         r.parent = None \/ Holds(r.owner, r.parent),
         r.made => r.named /\ r.parent = None,
         folders' = [folders EXCEPT ![g] = r]
  PROVE  TreeOK' /\ Grows /\ IsFolder(g)' /\ folders'[g] = r
<1>1. TreeOK /\ NoRow \notin FolderRow
  BY Parts, StartAssumption
<1>2. folders' \in [FolderIds -> FolderRow \cup {NoRow}]
  BY <1>1 DEF TreeOK
<1>3. /\ folders'[g] = r /\ IsFolder(g)'
      /\ \A k \in FolderIds \ {g} : folders'[k] = folders[k] /\ IsFolder(k)' = IsFolder(k)
  BY <1>1 DEF TreeOK, IsFolder
<1>4. Grows
  BY <1>3 DEF Grows, IsFile
<1>5. \A u, k : Holds(u, k) => Holds(u, k)'
  BY <1>4 DEF Grows, Holds, IsFolder
<1>6. ASSUME NEW k \in FolderIds, IsFolder(k)'
      PROVE  /\ folders'[k].parent = None \/ Holds(folders[k].owner, folders[k].parent)'
             /\ folders'[k].made => folders'[k].named /\ folders'[k].parent = None
  <2>1. CASE k = g
    BY <2>1, <1>3, <1>5
  <2>2. CASE k # g
    BY <2>2, <1>1, <1>3, <1>5, <1>6 DEF TreeOK, RowOK
  <2>. QED
    BY <2>1, <2>2
<1>7. ASSUME NEW d \in FileIds, IsFile(d)'
      PROVE  /\ files'[d].folder = None \/ IsFolder(files[d].folder)'
             /\ files'[d].why = "folder" => files'[d].folder # None
  BY <1>1, <1>4, <1>7 DEF Grows, TreeOK, RowOK, IsFile, IsFolder
<1>8. files' \in [FileIds -> FileRow \cup {NoRow}]
  BY <1>1 DEF TreeOK
<1>. QED
  BY <1>2, <1>3, <1>4, <1>6, <1>7, <1>8 DEF TreeOK, RowOK

(* Writing the rows of files.                                              *)
LEMMA FilesWrite ==
  ASSUME Shape, UNCHANGED folders, files' \in [FileIds -> FileRow \cup {NoRow}],
         \A d \in FileIds : IsFile(d) => IsFile(d)' /\ files'[d].owner = files[d].owner,
         \A d \in FileIds : IsFile(d)' =>
           /\ files'[d].folder = None \/ IsFolder(files'[d].folder)
           /\ files'[d].why = "folder" => files'[d].folder # None
  PROVE  TreeOK' /\ Grows
<1>1. TreeOK
  BY Parts
<1>2. \A k : IsFolder(k)' = IsFolder(k)
  BY DEF IsFolder
<1>. QED
  BY <1>1, <1>2 DEF TreeOK, RowOK, Grows, Holds

LEMMA DoneShape ==
  ASSUME Shape, Watch, Grows, TreeOK', SharesOK',
         {requests', faults', crashes'} \subseteq Nat,
         NEW p \in Proc, Done(p)
  PROVE  Shape'
<1>1. pc'[p] = "idle" /\ at'[p] = NoCall
  BY NoCallType, Moves DEF Done, PC
<1>2. Refs(p)' /\ CallOK(p)'
  BY <1>1 DEF Refs, CallOK, NoCall
<1>. QED
  BY <1>2, NoCallType, StepShape DEF Done, PC

(* What every step of a request leaves alone, as Keep and Fault say it.    *)
LEMMA FaultType ==
  ASSUME Shape, faults' = faults \/ Fault
  PROVE  faults' \in Nat
<1>1. faults \in Nat
  BY Parts
<1>. QED
  BY <1>1 DEF Fault

LEMMA NewFolderType ==
  ASSUME FolderRoom
  PROVE  NewFolder \in FolderIds /\ ~IsFolder(NewFolder)
BY DEF FolderRoom, NewFolder, IsFolder

LEMMA NewFileType ==
  ASSUME FileRoom
  PROVE  NewFile \in FileIds /\ ~IsFile(NewFile)
BY DEF FileRoom, NewFile, IsFile

(* A step that leaves the rows alone and goes to l.                        *)
LEMMA QuietShape ==
  ASSUME Shape, Watch, UNCHANGED <<tree, shares, requests, crashes>>,
         faults' = faults \/ Fault,
         NEW p \in Proc, NEW l \in PC, NEW c \in CallRow, Go(p, l, c),
         Refs(p)', CallOK(p)'
  PROVE  Shape'
<1>1. /\ TreeOK' /\ Grows /\ SharesOK' /\ faults' \in Nat
  BY Same, SharesStay, FaultType
<1>2. {requests, crashes} \subseteq Nat
  BY Parts
<1>. QED
  BY <1>1, <1>2, StepShape

LEMMA GiveUpShape ==
  ASSUME Shape, Watch, UNCHANGED <<tree, shares, requests, crashes>>,
         faults' = faults \/ Fault, NEW p \in Proc, Done(p)
  PROVE  Shape'
<1>1. TreeOK' /\ Grows /\ SharesOK' /\ faults' \in Nat
  BY Same, SharesStay, FaultType
<1>2. {requests, crashes} \subseteq Nat
  BY Parts
<1>. QED
  BY <1>1, <1>2, DoneShape

LEMMA CreateShape ==
  ASSUME Shape, NEW p \in Proc, Create(p)
  PROVE  Shape'
<1>. DEFINE c == at[p]
<1>1. /\ Watch /\ UNCHANGED <<files, shares, requests, crashes>>
  BY DEF Create, Keep
<1>2. c \in CallRow /\ Refs(p) /\ CallOK(p) /\ None \notin FolderIds \cup FileIds
  BY Parts, TreeBounds DEF FolderIds, FileIds
<1>3. /\ c.op \in {"create", "api", "import", "again"} /\ c.user \in User
      /\ c.to = None \/ Holds(c.user, c.to)
      /\ c.op = "api" => c.to = None
  BY <1>2 DEF Create, Is, CallOK
<1>4. {requests', crashes'} \subseteq Nat
  BY <1>1, Parts
<1>5. CASE UNCHANGED faults /\ FolderRoom
           /\ folders' = [folders EXCEPT ![NewFolder] =
               [owner |-> c.user, parent |-> c.to, named |-> c.on \/ c.op = "api", public |-> FALSE,
                live |-> TRUE, made |-> c.op = "api", unsynced |-> FALSE]]
           /\ IF c.op = "api" THEN Go(p, "insert", [c EXCEPT !.folder = NewFolder])
              ELSE IF c.list # {} THEN Go(p, "copy", [c EXCEPT !.folder = NewFolder])
              ELSE Done(p)
  <2>. DEFINE r == [owner |-> c.user, parent |-> c.to, named |-> c.on \/ c.op = "api",
                    public |-> FALSE, live |-> TRUE, made |-> c.op = "api", unsynced |-> FALSE]
  <2>1. PICK g \in FolderIds : g = NewFolder /\ ~IsFolder(g)
    BY <1>5, NewFolderType
  <2>2. r \in FolderRow
    BY <1>2, <1>3 DEF FolderRow, CallRow, Holds, IsFolder
  <2>3. /\ r.parent = None \/ Holds(r.owner, r.parent)
        /\ r.made => r.named /\ r.parent = None
    BY <1>3
  <2>4. folders' = [folders EXCEPT ![g] = r]
    BY <1>5, <2>1
  <2>5. /\ Watch /\ UNCHANGED files /\ UNCHANGED shares /\ faults' \in Nat
    BY <1>1, <1>5, FaultType
  <2>. DEFINE n == [c EXCEPT !.folder = NewFolder]
  <2>6. n \in CallRow /\ n.folder = g /\ n.op = c.op /\ n.user = c.user
        /\ n.file = c.file /\ n.list = c.list
    BY <2>1, <1>2 DEF CallRow
  <2>. HIDE DEF r, n
  <2>7. TreeOK' /\ Grows /\ IsFolder(g)'
    BY <2>1, <2>2, <2>3, <2>4, <2>5, FolderWrite
  <2>8. SharesOK'
    BY <2>5, <2>7, SharesStay
  <2>9. CASE Done(p)
    BY <2>5, <2>7, <2>8, <2>9, <1>4, DoneShape
  <2>10. ASSUME NEW l \in {"insert", "copy"}, Go(p, l, n), l = "insert" => c.op = "api"
         PROVE  Shape'
    <3>1. pc'[p] = l /\ at'[p] = n
      BY <2>6, <2>10, Moves DEF PC
    <3>2. \A d : IsFile(d)' = IsFile(d)
      BY <2>5 DEF IsFile
    <3>3. \A k : k = g => IsFolder(k)'
      BY <2>7
    <3>4. Refs(p)' /\ CallOK(p)'
      BY <3>1, <3>2, <3>3, <2>6, <2>10, <1>2, <1>3 DEF Refs, CallOK
    <3>. QED
      BY <2>5, <2>6, <2>7, <2>8, <2>10, <3>4, <1>4, StepShape DEF PC
  <2>. QED
    BY <1>5, <2>9, <2>10 DEF n
<1>6. CASE Fault /\ UNCHANGED folders
           /\ CASE c.op = "api"    -> Step(p, "insert")
                [] c.op = "import" -> Go(p, "create", [c EXCEPT !.op = "again", !.on = FALSE])
                [] OTHER           -> Done(p)
  <2>1. UNCHANGED <<tree, shares, requests, crashes>>
    BY <1>1, <1>6 DEF tree
  <2>2. \A x : IsFile(x)' = IsFile(x) /\ IsFolder(x)' = IsFolder(x)
    BY <2>1 DEF tree, IsFile, IsFolder
  <2>3. CASE Done(p)
    BY <2>1, <2>3, <1>1, <1>6, GiveUpShape
  <2>4. ASSUME c.op = "api", Go(p, "insert", c)
        PROVE  Shape'
    <3>1. pc'[p] = "insert" /\ at'[p] = c
      BY <2>4, <1>2, Moves DEF PC
    <3>2. Refs(p)' /\ CallOK(p)'
      BY <3>1, <2>2, <2>4, <1>2, <1>3 DEF Refs, CallOK
    <3>. QED
      BY <2>1, <2>4, <3>2, <1>1, <1>2, <1>6, QuietShape DEF PC
  <2>5. ASSUME c.op = "import", Go(p, "create", [c EXCEPT !.op = "again", !.on = FALSE])
        PROVE  Shape'
    <3>. DEFINE n == [c EXCEPT !.op = "again", !.on = FALSE]
    <3>1. n \in CallRow /\ n.op = "again" /\ n.user = c.user /\ n.to = c.to
          /\ n.folder = c.folder /\ n.file = c.file /\ n.list = c.list
      BY <1>2 DEF CallRow
    <3>. HIDE DEF n
    <3>2. pc'[p] = "create" /\ at'[p] = n
      BY <2>5, <3>1, Moves DEF PC, n
    <3>3. Refs(p)' /\ CallOK(p)'
      BY <3>1, <3>2, <2>1, <2>2, <1>2, <1>3 DEF Refs, CallOK, Holds, tree
    <3>. QED
      BY <2>1, <2>5, <3>1, <3>3, <1>1, <1>6, QuietShape DEF PC, n
  <2>. QED
    BY <1>6, <2>3, <2>4, <2>5 DEF Step
<1>. QED
  BY <1>5, <1>6 DEF Create

(* A statement that sets columns of one folder and ends the request.       *)
LEMMA FolderDone ==
  ASSUME Shape, Watch, UNCHANGED <<files, shares, requests, crashes>>,
         faults' = faults \/ Fault, NEW p \in Proc, NEW g \in FolderIds, IsFolder(g),
         NEW r \in FolderRow, r.owner = folders[g].owner,
         r.parent = None \/ Holds(r.owner, r.parent),
         r.made => r.named /\ r.parent = None,
         folders' = [folders EXCEPT ![g] = r],
         NEW l \in {"idle", "sync", "empty"}, (Step(p, l) /\ at[p].folder = g) \/ Done(p)
  PROVE  Shape'
<1>1. UNCHANGED files /\ shares' \subseteq shares /\ faults' \in Nat
      /\ {requests', crashes'} \subseteq Nat
  <2>1. faults' \in Nat
    BY FaultType
  <2>2. {requests, crashes} \subseteq Nat
    BY Parts
  <2>. QED
    BY <2>1, <2>2
<1>2. TreeOK' /\ Grows /\ IsFolder(g)'
  BY <1>1, FolderWrite
<1>3. SharesOK'
  BY <1>1, <1>2, SharesStay
<1>4. CASE Done(p)
  BY <1>1, <1>2, <1>3, <1>4, DoneShape
<1>5. CASE Step(p, l) /\ at[p].folder = g
  <2>1. at[p] \in CallRow /\ Refs(p) /\ l \in PC
    BY Parts DEF PC
  <2>2. pc'[p] = l /\ at'[p] = at[p]
    BY <1>5, <2>1, Moves DEF Step
  <2>3. \A d : IsFile(d) => IsFile(d)'
    BY <1>1 DEF IsFile
  <2>4. Refs(p)'
    BY <1>2, <1>5, <2>1, <2>2, <2>3 DEF Refs
  <2>5. CallOK(p)'
    BY <1>2, <1>5, <2>2 DEF CallOK
  <2>. QED
    BY <1>1, <1>2, <1>3, <1>5, <2>1, <2>4, <2>5, StepShape DEF Step
<1>. QED
  BY <1>4, <1>5

LEMMA UpdateParentShape ==
  ASSUME Shape, NEW p \in Proc, UpdateParent(p)
  PROVE  Shape'
<1>. DEFINE g == at[p].folder
            r == [folders[g] EXCEPT !.parent = at[p].to, !.made = FALSE]
<1>1. /\ Watch /\ UNCHANGED <<files, shares, requests, crashes>> /\ Done(p)
      /\ faults' = faults \/ Fault
  BY DEF UpdateParent, Keep
<1>2. TreeOK /\ CallOK(p) /\ pc[p] = "parent"
  BY Parts DEF UpdateParent, Is
<1>3. CASE UNCHANGED folders
  BY <1>1, <1>3, GiveUpShape DEF tree
<1>4. CASE folders' = [folders EXCEPT ![g].parent = at[p].to, ![g].made = FALSE]
  <2>1. g \in FolderIds /\ IsFolder(g) /\ folders[g] \in FolderRow
    BY <1>2 DEF CallOK, Holds, IsFolder, TreeOK
  <2>2. at[p].to = None \/ Holds(folders[g].owner, at[p].to)
    BY <1>2 DEF CallOK, Holds
  <2>3. r \in FolderRow /\ r.owner = folders[g].owner /\ r.parent = at[p].to /\ r.made = FALSE
    BY <2>1, <2>2 DEF FolderRow, Holds, IsFolder
  <2>4. folders' = [folders EXCEPT ![g] = r]
    BY <1>2, <1>4, <2>1 DEF TreeOK, FolderRow
  <2>. HIDE DEF r, g
  <2>. QED
    BY <1>1, <2>1, <2>2, <2>3, <2>4, FolderDone
<1>. QED
  BY <1>3, <1>4 DEF UpdateParent

LEMMA RenameShape ==
  ASSUME Shape, NEW p \in Proc, Rename(p)
  PROVE  Shape'
<1>. DEFINE g == at[p].folder
            r == [folders[g] EXCEPT !.named = at[p].on, !.made = FALSE]
<1>1. /\ Watch /\ UNCHANGED <<files, shares, requests, crashes>> /\ Done(p)
      /\ faults' = faults \/ Fault
  BY DEF Rename, Keep
<1>2. TreeOK /\ CallOK(p) /\ Refs(p) /\ pc[p] = "rename" /\ at[p].on \in BOOLEAN
  BY Parts DEF Rename, Is, CallRow
<1>3. CASE UNCHANGED folders
  BY <1>1, <1>3, GiveUpShape DEF tree
<1>4. CASE folders' = [folders EXCEPT ![g].named = at[p].on, ![g].made = FALSE]
  <2>1. g \in FolderIds /\ IsFolder(g) /\ folders[g] \in FolderRow
    BY <1>2 DEF CallOK, IsFolder, TreeOK
  <2>2. folders[g].parent = None \/ Holds(folders[g].owner, folders[g].parent)
    BY <1>2, <2>1 DEF TreeOK
  <2>3. r \in FolderRow /\ r.owner = folders[g].owner /\ r.parent = folders[g].parent /\ r.made = FALSE
    BY <1>2, <2>1 DEF FolderRow
  <2>4. folders' = [folders EXCEPT ![g] = r]
    BY <1>2, <1>4, <2>1 DEF TreeOK, FolderRow
  <2>. HIDE DEF r, g
  <2>. QED
    BY <1>1, <2>1, <2>2, <2>3, <2>4, FolderDone
<1>. QED
  BY <1>3, <1>4 DEF Rename

LEMMA UpdatePublicStatusShape ==
  ASSUME Shape, NEW p \in Proc, UpdatePublicStatus(p)
  PROVE  Shape'
<1>. DEFINE g == at[p].folder
            r == [folders[g] EXCEPT !.public = at[p].on, !.unsynced = TRUE]
<1>1. /\ Watch /\ UNCHANGED <<files, shares, requests, crashes>>
      /\ faults' = faults \/ Fault
  BY DEF UpdatePublicStatus, Keep
<1>2. TreeOK /\ CallOK(p) /\ Refs(p) /\ pc[p] = "flag" /\ at[p] \in CallRow
  BY Parts DEF UpdatePublicStatus, Is
<1>3. CASE UNCHANGED folders /\ Done(p)
  BY <1>1, <1>3, GiveUpShape DEF tree
<1>4. CASE UNCHANGED folders /\ Step(p, "sync")
  <2>1. pc'[p] = "sync" /\ at'[p] = at[p]
    BY <1>2, <1>4, Moves DEF Step, PC
  <2>2. \A x : IsFile(x)' = IsFile(x) /\ IsFolder(x)' = IsFolder(x)
    BY <1>1, <1>4 DEF IsFile, IsFolder
  <2>3. Refs(p)' /\ CallOK(p)'
    BY <1>2, <2>1, <2>2 DEF Refs, CallOK
  <2>. QED
    BY <1>1, <1>2, <1>4, <2>3, QuietShape DEF Step, PC, tree
<1>5. CASE folders' = [folders EXCEPT ![g].public = at[p].on, ![g].unsynced = TRUE] /\ Step(p, "sync")
  <2>1. g \in FolderIds /\ IsFolder(g) /\ folders[g] \in FolderRow
    BY <1>2 DEF CallOK, IsFolder, TreeOK
  <2>2. /\ folders[g].parent = None \/ Holds(folders[g].owner, folders[g].parent)
        /\ folders[g].made => folders[g].named /\ folders[g].parent = None
    BY <1>2, <2>1 DEF TreeOK, RowOK
  <2>3. r \in FolderRow /\ r.owner = folders[g].owner /\ r.parent = folders[g].parent
        /\ r.made = folders[g].made /\ r.named = folders[g].named
    BY <1>2, <2>1 DEF FolderRow, CallRow
  <2>4. folders' = [folders EXCEPT ![g] = r]
    BY <1>2, <1>5, <2>1 DEF TreeOK, FolderRow
  <2>. HIDE DEF r
  <2>. QED
    BY <1>1, <1>5, <2>1, <2>2, <2>3, <2>4, FolderDone
<1>. QED
  BY <1>3, <1>4, <1>5 DEF UpdatePublicStatus

LEMMA DropShape ==
  ASSUME Shape, NEW p \in Proc, Drop(p)
  PROVE  Shape'
<1>. DEFINE g == at[p].folder
            r == [folders[g] EXCEPT !.live = FALSE]
<1>1. /\ Watch /\ UNCHANGED <<files, shares, requests, crashes>>
      /\ faults' = faults \/ Fault
  BY DEF Drop, Keep
<1>2. TreeOK /\ CallOK(p) /\ Refs(p) /\ pc[p] = "drop"
  BY Parts DEF Drop, Is
<1>3. CASE UNCHANGED folders /\ Done(p)
  BY <1>1, <1>3, GiveUpShape DEF tree
<1>4. CASE folders' = [folders EXCEPT ![g].live = FALSE] /\ Step(p, "empty")
  <2>1. g \in FolderIds /\ IsFolder(g) /\ folders[g] \in FolderRow
    BY <1>2 DEF CallOK, IsFolder, TreeOK
  <2>2. /\ folders[g].parent = None \/ Holds(folders[g].owner, folders[g].parent)
        /\ folders[g].made => folders[g].named /\ folders[g].parent = None
    BY <1>2, <2>1 DEF TreeOK, RowOK
  <2>3. r \in FolderRow /\ r.owner = folders[g].owner /\ r.parent = folders[g].parent
        /\ r.made = folders[g].made /\ r.named = folders[g].named
    BY <2>1 DEF FolderRow
  <2>4. folders' = [folders EXCEPT ![g] = r]
    BY <1>2, <1>4, <2>1 DEF TreeOK, FolderRow
  <2>. HIDE DEF r
  <2>. QED
    BY <1>1, <1>4, <2>1, <2>2, <2>3, <2>4, FolderDone
<1>. QED
  BY <1>3, <1>4 DEF Drop, Dropped

(* Statements that change rows of files and nothing else.                  *)
LEMMA FilesDone ==
  ASSUME Shape, Watch, UNCHANGED <<folders, shares, requests, crashes>>,
         faults' = faults \/ Fault, NEW p \in Proc, Done(p),
         files' \in [FileIds -> FileRow \cup {NoRow}],
         \A d \in FileIds : IsFile(d) => IsFile(d)' /\ files'[d].owner = files[d].owner,
         \A d \in FileIds : IsFile(d)' =>
           /\ files'[d].folder = None \/ IsFolder(files'[d].folder)
           /\ files'[d].why = "folder" => files'[d].folder # None
  PROVE  Shape'
<1>1. TreeOK' /\ Grows
  BY FilesWrite
<1>2. SharesOK'
  BY <1>1, SharesStay
<1>3. {requests, crashes} \subseteq Nat /\ faults' \in Nat
  BY Parts, FaultType
<1>. QED
  BY <1>1, <1>2, <1>3, DoneShape

LEMMA SyncShape ==
  ASSUME Shape, NEW p \in Proc, Sync(p)
  PROVE  Shape'
<1>. DEFINE g == at[p].folder
            r == [folders[g] EXCEPT !.unsynced = FALSE]
<1>1. /\ Watch /\ UNCHANGED <<shares, requests, crashes>>
      /\ (faults' = faults \/ Fault) /\ Done(p)
  BY DEF Sync, Keep
<1>2. TreeOK /\ CallOK(p) /\ Refs(p) /\ pc[p] = "sync" /\ at[p].on \in BOOLEAN
      /\ NoRow \notin FileRow \cup FolderRow /\ None \notin FolderIds
  BY Parts, StartAssumption, TreeBounds DEF Sync, Is, CallRow, FolderIds
<1>3. CASE UNCHANGED tree
  BY <1>1, <1>3, GiveUpShape
<1>4. CASE files' = Synced(g, at[p].on) /\ folders' = [folders EXCEPT ![g].unsynced = FALSE]
  <2>1. g \in FolderIds /\ IsFolder(g) /\ folders[g] \in FolderRow
    BY <1>2 DEF CallOK, IsFolder, TreeOK
  <2>2. r \in FolderRow /\ r.owner = folders[g].owner /\ r.parent = folders[g].parent
        /\ r.made = folders[g].made /\ r.named = folders[g].named
    BY <2>1 DEF FolderRow
  <2>3. folders' = [folders EXCEPT ![g] = r]
    BY <1>2, <1>4, <2>1 DEF TreeOK, FolderRow
  <2>. HIDE DEF r
  <2>4. /\ folders' \in [FolderIds -> FolderRow \cup {NoRow}]
        /\ \A k \in FolderIds :
             /\ IsFolder(k)' = IsFolder(k)
             /\ IsFolder(k) => /\ folders'[k].owner = folders[k].owner
                               /\ folders'[k].parent = folders[k].parent
                               /\ folders'[k].made = folders[k].made
                               /\ folders'[k].named = folders[k].named
    BY <1>2, <2>1, <2>2, <2>3 DEF TreeOK, IsFolder
  <2>5. \A k : IsFolder(k)' = IsFolder(k)
    BY <2>4 DEF IsFolder
  <2>6. Because(g, at[p].on) \in {"no", "folder", "stray"}
    BY DEF Because
  <2>7. ASSUME NEW d \in FileIds
        PROVE  /\ files'[d] \in FileRow \cup {NoRow}
               /\ IsFile(d)' = IsFile(d)
               /\ IsFile(d) => /\ files'[d].owner = files[d].owner
                               /\ files'[d].folder = files[d].folder
                               /\ files'[d].why = files[d].why \/ files[d].folder = g
    <3>1. CASE LiveFile(d) /\ files[d].folder = g
      <4>1. files[d] \in FileRow
        BY <3>1, <1>2 DEF TreeOK, LiveFile, IsFile
      <4>2. files'[d] = [files[d] EXCEPT !.public = at[p].on, !.why = Because(g, at[p].on)]
        BY <3>1, <1>4 DEF Synced
      <4>. HIDE DEF g
      <4>3. /\ files'[d] \in FileRow /\ files'[d].owner = files[d].owner
            /\ files'[d].folder = files[d].folder
        BY <4>1, <4>2, <2>6, <1>2 DEF FileRow
      <4>. QED
        BY <3>1, <4>1, <4>3, <1>2 DEF IsFile
    <3>2. CASE ~(LiveFile(d) /\ files[d].folder = g)
      BY <3>2, <1>2, <1>4 DEF Synced, IsFile, TreeOK
    <3>. QED
      BY <3>1, <3>2
  <2>8. files' \in [FileIds -> FileRow \cup {NoRow}]
    BY <2>7, <1>4 DEF Synced
  <2>9. Grows
    BY <2>4, <2>7 DEF Grows
  <2>10. TreeOK'
    BY <1>2, <2>1, <2>4, <2>5, <2>7, <2>8 DEF TreeOK, RowOK, Holds, IsFolder
  <2>11. SharesOK' /\ {requests, crashes} \subseteq Nat /\ faults' \in Nat
    BY <1>1, <2>9, SharesStay, Parts, FaultType
  <2>. QED
    BY <1>1, <2>9, <2>10, <2>11, DoneShape
<1>. QED
  BY <1>3, <1>4 DEF Sync

LEMMA EmptyShape ==
  ASSUME Shape, NEW p \in Proc, Empty(p)
  PROVE  Shape'
<1>1. /\ Watch /\ UNCHANGED <<folders, shares, requests, crashes>>
      /\ (faults' = faults \/ Fault) /\ Done(p)
  BY DEF Empty, Keep
<1>2. TreeOK /\ NoRow \notin FileRow
  BY Parts, StartAssumption
<1>3. PICK b \in BOOLEAN : files' = Left(at[p].folder, b)
  BY DEF Empty, Emptied
<1>4. ASSUME NEW d \in FileIds
      PROVE  /\ files'[d] \in FileRow \cup {NoRow}
             /\ IsFile(d)' = IsFile(d)
             /\ IsFile(d) => /\ files'[d].owner = files[d].owner
                             /\ files'[d].folder = files[d].folder
                             /\ files'[d].why = files[d].why
  BY <1>2, <1>3 DEF Left, IsFile, LiveFile, TreeOK, FileRow
<1>5. files' \in [FileIds -> FileRow \cup {NoRow}]
  BY <1>3, <1>4 DEF Left
<1>. QED
  BY <1>1, <1>2, <1>4, <1>5, FilesDone DEF TreeOK, RowOK

LEMMA InheritShape ==
  ASSUME Shape, NEW p \in Proc, Inherit(p)
  PROVE  Shape'
<1>1. /\ Watch /\ UNCHANGED <<tree, shares, requests, crashes>>
      /\ faults' = faults \/ Fault
  BY DEF Inherit, Keep
<1>2. TreeOK /\ CallOK(p) /\ Refs(p) /\ pc[p] = "inherit" /\ at[p] \in CallRow
  BY Parts DEF Inherit, Is
<1>3. PICK b \in BOOLEAN : Go(p, "insert", [at[p] EXCEPT !.on = b])
  <2>1. at[p] = [at[p] EXCEPT !.on = at[p].on] /\ at[p].on \in BOOLEAN
    BY <1>2 DEF CallRow
  <2>2. (LiveFolder(at[p].folder) /\ folders[at[p].folder].public) \in BOOLEAN
    OBVIOUS
  <2>. QED
    BY <2>1, <2>2 DEF Inherit, Step
<1>. DEFINE n == [at[p] EXCEPT !.on = b]
<1>4. n \in CallRow /\ n.folder = at[p].folder /\ n.op = at[p].op /\ n.user = at[p].user
      /\ n.file = at[p].file /\ n.list = at[p].list
  BY <1>2 DEF CallRow
<1>5. \A x : IsFile(x)' = IsFile(x) /\ IsFolder(x)' = IsFolder(x)
  BY <1>1 DEF IsFile, IsFolder, tree
<1>. HIDE DEF n
<1>6. pc'[p] = "insert" /\ at'[p] = n
  BY <1>3, <1>4, Moves DEF PC, n
<1>7. Refs(p)' /\ CallOK(p)'
  BY <1>2, <1>4, <1>5, <1>6 DEF Refs, CallOK
<1>. QED
  BY <1>1, <1>3, <1>4, <1>7, QuietShape DEF PC, n

LEMMA InsertShape ==
  ASSUME Shape, NEW p \in Proc, Insert(p)
  PROVE  Shape'
<1>. DEFINE c == at[p]
            on == c.op = "session" /\ c.on
            r == [owner |-> c.user, folder |-> c.folder, public |-> on, live |-> TRUE,
                  status |-> IF c.op = "api" THEN "PENDING_SCAN" ELSE "UPLOADING",
                  why |-> IF on THEN Because(c.folder, on) ELSE "no", astray |-> Deleted(c.folder)]
<1>1. /\ Watch /\ UNCHANGED <<folders, shares, requests, crashes>>
      /\ faults' = faults \/ Fault
  BY DEF Insert, Keep
<1>2. TreeOK /\ CallOK(p) /\ Refs(p) /\ pc[p] = "insert" /\ c \in CallRow
      /\ NoRow \notin FileRow /\ None \notin FolderIds \cup FileIds
  BY Parts, StartAssumption, TreeBounds DEF Insert, Is, FolderIds, FileIds
<1>3. CASE UNCHANGED files /\ Done(p)
  BY <1>1, <1>3, GiveUpShape DEF tree
<1>4. CASE /\ FileRoom
           /\ files' = [files EXCEPT ![NewFile] = r]
           /\ IF c.op = "api" /\ c.on THEN Go(p, "mark", [c EXCEPT !.file = NewFile]) ELSE Done(p)
  <2>1. PICK d \in FileIds : d = NewFile /\ ~IsFile(d)
    BY <1>4, NewFileType
  <2>2. Because(c.folder, on) \in {"no", "folder", "stray"}
    BY DEF Because
  <2>3. c.user \in User /\ c.folder \in FolderIds \cup {None}
        /\ (c.folder = None \/ IsFolder(c.folder)) /\ (on => c.folder # None)
    BY <1>2 DEF CallOK, Refs, CallRow, IsFolder
  <2>4. r.owner = c.user /\ r.folder = c.folder
        /\ (r.why = "folder" => r.folder # None)
    BY <2>3
  <2>5. r \in FileRow
    <3>1. on \in BOOLEAN /\ Deleted(c.folder) \in BOOLEAN
      BY DEF Deleted
    <3>. HIDE DEF on
    <3>. QED
      BY <2>2, <2>3, <3>1 DEF FileRow
  <2>. DEFINE n == [c EXCEPT !.file = NewFile]
  <2>6. n \in CallRow /\ n.file = d /\ n.op = c.op /\ n.user = c.user
        /\ n.folder = c.folder /\ n.list = c.list /\ n.to = c.to
    BY <2>1, <1>2 DEF CallRow
  <2>7. files' = [files EXCEPT ![d] = r]
    BY <1>4, <2>1
  <2>. HIDE DEF r, n, on
  <2>8. /\ files' \in [FileIds -> FileRow \cup {NoRow}] /\ IsFile(d)'
        /\ \A k \in FileIds \ {d} : files'[k] = files[k] /\ IsFile(k)' = IsFile(k)
        /\ files'[d] = r
    BY <1>2, <2>5, <2>7 DEF TreeOK, IsFile
  <2>9. TreeOK' /\ Grows
    <3>1. \A k \in FileIds : IsFile(k) => IsFile(k)' /\ files'[k].owner = files[k].owner
      BY <2>1, <2>8
    <3>2. ASSUME NEW k \in FileIds, IsFile(k)'
          PROVE  /\ files'[k].folder = None \/ IsFolder(files'[k].folder)
                 /\ files'[k].why = "folder" => files'[k].folder # None
      <4>1. CASE k = d
        BY <4>1, <2>3, <2>4, <2>8
      <4>2. CASE k # d
        BY <4>2, <3>2, <2>8, <1>2 DEF TreeOK, RowOK
      <4>. QED
        BY <4>1, <4>2
    <3>. QED
      BY <1>1, <2>8, <3>1, <3>2, FilesWrite
  <2>10. SharesOK' /\ {requests', crashes'} \subseteq Nat /\ faults' \in Nat
    BY <1>1, <2>9, SharesStay, Parts, FaultType
  <2>11. CASE Done(p)
    BY <1>1, <2>9, <2>10, <2>11, DoneShape
  <2>12. ASSUME c.op = "api", Go(p, "mark", n)
         PROVE  Shape'
    <3>1. pc'[p] = "mark" /\ at'[p] = n
      BY <2>6, <2>12, Moves DEF PC
    <3>2. \A k : IsFolder(k)' = IsFolder(k)
      BY <1>1 DEF IsFolder
    <3>3. \A k \in FileIds : IsFile(k) => IsFile(k)'
      BY <2>9 DEF Grows
    <3>4. Refs(p)' /\ CallOK(p)'
      BY <3>1, <3>2, <3>3, <2>6, <2>8, <1>2 DEF Refs, CallOK, CallRow
    <3>. QED
      BY <1>1, <2>6, <2>9, <2>10, <2>12, <3>4, StepShape DEF PC
  <2>. QED
    BY <1>4, <2>11, <2>12 DEF n
<1>. QED
  BY <1>1, <1>3, <1>4 DEF Insert

LEMMA WriteFileShape ==
  ASSUME Shape, NEW p \in Proc, WriteFile(p)
  PROVE  Shape'
<1>. DEFINE d == at[p].file
            r == Written(pc[p], at[p], files[d])
<1>1. /\ Watch /\ UNCHANGED <<folders, shares, requests, crashes>>
      /\ (faults' = faults \/ Fault) /\ Done(p)
  BY DEF WriteFile, Keep
<1>2. TreeOK /\ CallOK(p) /\ at[p] \in CallRow /\ pc[p] \in {"mark", "refile", "erase"}
      /\ NoRow \notin FileRow
  BY Parts, StartAssumption DEF WriteFile
<1>3. CASE UNCHANGED files
  BY <1>1, <1>3, GiveUpShape DEF tree
<1>4. CASE files' = [files EXCEPT ![d] = Written(pc[p], at[p], @)]
  <2>1. d \in FileIds /\ IsFile(d) /\ files[d] \in FileRow
    BY <1>2 DEF CallOK, IsFile, TreeOK
  <2>2. files[d].why = "folder" => files[d].folder # None
    BY <1>2, <2>1 DEF TreeOK, RowOK
  <2>3. files[d].folder = None \/ IsFolder(files[d].folder)
    BY <1>2, <2>1 DEF TreeOK
  <2>4. /\ r \in FileRow /\ r.owner = files[d].owner
        /\ r.folder = None \/ IsFolder(r.folder)
        /\ r.why = "folder" => r.folder # None
    <3>1. CASE pc[p] = "mark"
      <4>1. r = [files[d] EXCEPT !.public = at[p].on, !.why = IF at[p].on THEN "own" ELSE "no"]
        BY <3>1 DEF Written
      <4>. HIDE DEF r, d
      <4>. QED
        BY <4>1, <1>2, <2>1, <2>2, <2>3 DEF FileRow, CallRow
    <3>2. CASE pc[p] = "refile"
      <4>1. r = [files[d] EXCEPT !.folder = at[p].to, !.astray = Deleted(at[p].to),
                                 !.why = IF files[d].why = "folder" THEN "stray" ELSE files[d].why]
        BY <3>2 DEF Written
      <4>2. Deleted(at[p].to) \in BOOLEAN
        BY DEF Deleted
      <4>3. at[p].to = None \/ IsFolder(at[p].to)
        BY <3>2, <1>2 DEF CallOK
      <4>. HIDE DEF r, d
      <4>. QED
        BY <4>1, <4>2, <4>3, <2>1 DEF FileRow, IsFolder
    <3>3. CASE pc[p] = "erase"
      <4>1. r = [files[d] EXCEPT !.live = FALSE]
        BY <3>3 DEF Written
      <4>. HIDE DEF r, d
      <4>. QED
        BY <4>1, <2>1, <2>2, <2>3 DEF FileRow
    <3>. QED
      BY <1>2, <3>1, <3>2, <3>3
  <2>5. files' = [files EXCEPT ![d] = r]
    BY <1>4
  <2>. HIDE DEF r, d
  <2>6. files' \in [FileIds -> FileRow \cup {NoRow}]
    BY <1>2, <2>1, <2>4, <2>5 DEF TreeOK
  <2>7. \A k \in FileIds : files'[k] = IF k = d THEN r ELSE files[k]
    BY <1>2, <2>5 DEF TreeOK
  <2>. QED
    BY <1>1, <1>2, <2>1, <2>4, <2>6, <2>7, FilesDone DEF TreeOK, RowOK, IsFile
<1>. QED
  BY <1>3, <1>4 DEF WriteFile

LEMMA WalkShape ==
  ASSUME Shape, NEW p \in Proc, Walk(p)
  PROVE  Shape'
<1>. DEFINE g == at[p].folder
<1>1. /\ Watch /\ UNCHANGED <<tree, shares, requests, crashes>>
      /\ faults' = faults \/ Fault
  BY DEF Walk, Keep
<1>2. TreeOK /\ CallOK(p) /\ Refs(p) /\ pc[p] = "walk" /\ at[p] \in CallRow
  BY Parts DEF Walk, Is
<1>3. \A x : IsFile(x)' = IsFile(x) /\ IsFolder(x)' = IsFolder(x)
  BY <1>1 DEF IsFile, IsFolder, tree
<1>4. CASE Done(p)
  BY <1>1, <1>4, GiveUpShape
<1>5. ASSUME NEW l \in {"served", "refused"}, Step(p, l)
      PROVE  Shape'
  <2>1. pc'[p] = l /\ at'[p] = at[p]
    BY <1>2, <1>5, Moves DEF Step, PC
  <2>2. Refs(p)' /\ CallOK(p)'
    BY <1>2, <1>3, <2>1 DEF Refs, CallOK
  <2>. QED
    BY <1>1, <1>2, <1>5, <2>2, QuietShape DEF Step, PC
<1>6. ASSUME folders[g].parent # None,
             Go(p, "walk", [at[p] EXCEPT !.folder = folders[g].parent, !.n = at[p].n + 1])
      PROVE  Shape'
  <2>. DEFINE n == [at[p] EXCEPT !.folder = folders[g].parent, !.n = at[p].n + 1]
  <2>1. g \in FolderIds /\ IsFolder(g)
    BY <1>2 DEF CallOK, IsFolder
  <2>2. folders[g].parent \in FolderIds /\ IsFolder(folders[g].parent)
    BY <1>2, <1>6, <2>1 DEF TreeOK, Holds, IsFolder
  <2>3. n \in CallRow /\ n.folder = folders[g].parent /\ n.file = at[p].file
        /\ n.list = at[p].list
    <3>1. ASSUME NEW up \in FolderIds
          PROVE  /\ [at[p] EXCEPT !.folder = up, !.n = at[p].n + 1] \in CallRow
                 /\ [at[p] EXCEPT !.folder = up, !.n = at[p].n + 1].folder = up
                 /\ [at[p] EXCEPT !.folder = up, !.n = at[p].n + 1].file = at[p].file
                 /\ [at[p] EXCEPT !.folder = up, !.n = at[p].n + 1].list = at[p].list
      <4>1. at[p].n + 1 \in Nat
        BY <1>2 DEF CallRow
      <4>. QED
        BY <1>2, <4>1 DEF CallRow
    <3>. QED
      BY <2>2, <3>1
  <2>. HIDE DEF n, g
  <2>4. pc'[p] = "walk" /\ at'[p] = n
    BY <1>6, <2>3, Moves DEF PC, n
  <2>5. Refs(p)' /\ CallOK(p)'
    BY <1>2, <1>3, <2>2, <2>3, <2>4 DEF Refs, CallOK
  <2>. QED
    BY <1>1, <1>6, <2>3, <2>5, QuietShape DEF PC, n
<1>. QED
  BY <1>4, <1>5, <1>6 DEF Walk

LEMMA AnswerShape ==
  ASSUME Shape, NEW p \in Proc, Answer(p)
  PROVE  Shape'
BY GiveUpShape DEF Answer, Keep

LEMMA ListShape ==
  ASSUME Shape, NEW p \in Proc, List(p)
  PROVE  Shape'
<1>. DEFINE fs == ListPublicFilesByFolderID(at[p].folder)
<1>1. /\ Watch /\ UNCHANGED <<tree, shares, requests, crashes>>
      /\ faults' = faults \/ Fault
  BY DEF List, Keep
<1>2. CASE Done(p)
  BY <1>1, <1>2, GiveUpShape
<1>3. CASE Go(p, "create", [at[p] EXCEPT !.folder = None, !.list = fs])
  <2>. DEFINE n == [at[p] EXCEPT !.folder = None, !.list = fs]
  <2>1. CallOK(p) /\ Refs(p) /\ pc[p] = "list" /\ at[p] \in CallRow
    BY Parts DEF List, Is
  <2>2. fs \subseteq FileIds /\ \A d \in fs : IsFile(d)
    BY DEF ListPublicFilesByFolderID, LiveFile
  <2>. HIDE DEF fs
  <2>3. n \in CallRow /\ n.folder = None /\ n.file = at[p].file
        /\ n.list = fs /\ n.to = at[p].to /\ n.user = at[p].user /\ n.op = at[p].op
    BY <2>1, <2>2 DEF CallRow
  <2>4. \A x : IsFile(x)' = IsFile(x) /\ IsFolder(x)' = IsFolder(x)
    BY <1>1 DEF IsFile, IsFolder, tree
  <2>. HIDE DEF n
  <2>5. pc'[p] = "create" /\ at'[p] = n
    BY <1>3, <2>3, Moves DEF PC, n
  <2>6. Refs(p)' /\ CallOK(p)'
    BY <2>1, <2>2, <2>3, <2>4, <2>5 DEF Refs, CallOK
  <2>. QED
    BY <1>1, <1>3, <2>3, <2>6, QuietShape DEF PC, n
<1>. QED
  BY <1>2, <1>3 DEF List

LEMMA CopyShape ==
  ASSUME Shape, NEW p \in Proc, Copy(p)
  PROVE  Shape'
<1>. DEFINE c == at[p]
<1>1. /\ Watch /\ UNCHANGED <<folders, shares, requests, crashes>>
      /\ faults' = faults \/ Fault
  BY DEF Copy, Keep
<1>2. TreeOK /\ CallOK(p) /\ Refs(p) /\ pc[p] = "copy" /\ c \in CallRow
      /\ NoRow \notin FileRow /\ None \notin FolderIds \cup FileIds
  BY Parts, StartAssumption, TreeBounds DEF Copy, Is, FolderIds, FileIds
<1>3. PICK x \in c.list :
        /\ \/ /\ FileRoom
              /\ files' = [files EXCEPT ![NewFile] =
                   [owner |-> at[p].user, folder |-> at[p].folder, status |-> "READY", public |-> FALSE,
                    live |-> TRUE, why |-> "no", astray |-> Deleted(at[p].folder)]]
           \/ UNCHANGED files
        /\ IF at[p].list = {x} THEN Done(p) ELSE Go(p, "copy", [at[p] EXCEPT !.list = @ \ {x}])
  BY DEF Copy
<1>4. TreeOK' /\ Grows
  <2>1. CASE UNCHANGED files
    BY <1>1, <2>1, Same DEF tree
  <2>2. CASE FileRoom /\ ~UNCHANGED files
    <3>1. PICK d \in FileIds : d = NewFile /\ ~IsFile(d)
      BY <2>2, NewFileType
    <3>. DEFINE r == [owner |-> at[p].user, folder |-> at[p].folder, status |-> "READY",
                      public |-> FALSE, live |-> TRUE, why |-> "no",
                      astray |-> Deleted(at[p].folder)]
    <3>2. files' = [files EXCEPT ![d] = r]
      BY <1>3, <2>2, <3>1
    <3>3. Deleted(at[p].folder) \in BOOLEAN /\ c.user \in User
          /\ c.folder \in FolderIds \cup {None} /\ (c.folder = None \/ IsFolder(c.folder))
      BY <1>2 DEF Deleted, CallOK, Refs, CallRow, IsFolder
    <3>4. r \in FileRow /\ r.folder = c.folder /\ r.why = "no"
      BY <3>3 DEF FileRow
    <3>. HIDE DEF r
    <3>5. /\ files' \in [FileIds -> FileRow \cup {NoRow}] /\ IsFile(d)'
          /\ \A k \in FileIds \ {d} : files'[k] = files[k] /\ IsFile(k)' = IsFile(k)
          /\ files'[d] = r
      BY <1>2, <3>2, <3>4 DEF TreeOK, IsFile
    <3>6. \A k \in FileIds : IsFile(k) => IsFile(k)' /\ files'[k].owner = files[k].owner
      BY <3>1, <3>5
    <3>7. ASSUME NEW k \in FileIds, IsFile(k)'
          PROVE  /\ files'[k].folder = None \/ IsFolder(files'[k].folder)
                 /\ files'[k].why = "folder" => files'[k].folder # None
      <4>1. CASE k = d
        BY <4>1, <3>3, <3>4, <3>5
      <4>2. CASE k # d
        BY <4>2, <3>7, <3>5, <1>2 DEF TreeOK, RowOK
      <4>. QED
        BY <4>1, <4>2
    <3>. QED
      BY <1>1, <3>5, <3>6, <3>7, FilesWrite
  <2>. QED
    BY <1>3, <2>1, <2>2
<1>5. SharesOK' /\ {requests', crashes'} \subseteq Nat /\ faults' \in Nat
  BY <1>1, <1>4, SharesStay, Parts, FaultType
<1>6. CASE Done(p)
  BY <1>1, <1>4, <1>5, <1>6, DoneShape
<1>7. CASE Go(p, "copy", [c EXCEPT !.list = @ \ {x}])
  <2>. DEFINE n == [c EXCEPT !.list = @ \ {x}]
  <2>1. n \in CallRow /\ n.user = c.user /\ n.folder = c.folder /\ n.file = c.file
        /\ n.list \subseteq c.list
    BY <1>2 DEF CallRow
  <2>. HIDE DEF n
  <2>2. pc'[p] = "copy" /\ at'[p] = n
    BY <1>7, <2>1, Moves DEF PC, n
  <2>3. /\ \A k : IsFolder(k)' = IsFolder(k)
        /\ \A k \in FileIds : IsFile(k) => IsFile(k)'
    BY <1>1, <1>4 DEF IsFolder, Grows
  <2>4. Refs(p)' /\ CallOK(p)'
    BY <1>2, <2>1, <2>2, <2>3 DEF Refs, CallOK, CallRow
  <2>. QED
    BY <1>1, <1>4, <1>5, <1>7, <2>1, <2>4, StepShape DEF PC, n
<1>. QED
  BY <1>3, <1>6, <1>7

LEMMA CreateShareShape ==
  ASSUME Shape, NEW p \in Proc, CreateShare(p)
  PROVE  Shape'
<1>. DEFINE c == at[p]
            res == IF c.file = None THEN <<"folder", c.folder>> ELSE <<"file", c.file>>
            s == [id |-> requests, res |-> res, owner |-> c.user, to |-> c.to]
<1>1. /\ Watch /\ UNCHANGED <<tree, requests, crashes>> /\ Done(p)
      /\ faults' = faults \/ Fault
  BY DEF CreateShare, Keep
<1>2. CallOK(p) /\ pc[p] = "grant" /\ SharesOK /\ {requests, crashes} \subseteq Nat
  BY Parts DEF CreateShare, Is
<1>3. TreeOK' /\ Grows /\ faults' \in Nat
  BY <1>1, Same, FaultType
<1>4. /\ c.user \in User /\ c.to \in User
      /\ IF c.file = None THEN Holds(c.user, c.folder)
         ELSE IsFile(c.file) /\ files[c.file].owner = c.user
  BY <1>2 DEF CallOK
<1>5. /\ s \in [id : Nat, res : Resource, owner : User, to : User]
      /\ ShareOK(s)
      /\ s.owner = IF s.res[1] = "folder" THEN folders[s.res[2]].owner
                   ELSE files[s.res[2]].owner
  <2>1. CASE c.file = None
    <3>1. res = <<"folder", c.folder>> /\ c.folder \in FolderIds /\ IsFolder(c.folder)
          /\ folders[c.folder].owner = c.user
      BY <2>1, <1>4 DEF Holds, IsFolder
    <3>2. res \in Resource /\ res[1] = "folder" /\ res[2] = c.folder
      BY <3>1 DEF Resource
    <3>3. s \in [id : Nat, res : Resource, owner : User, to : User] /\ s.res = res /\ s.owner = c.user
      BY <3>2, <1>2, <1>4
    <3>. QED
      BY <3>1, <3>2, <3>3 DEF ShareOK
  <2>2. CASE c.file # None
    <3>1. res = <<"file", c.file>> /\ c.file \in FileIds /\ IsFile(c.file)
          /\ files[c.file].owner = c.user
      BY <2>2, <1>4 DEF IsFile
    <3>2. res \in Resource /\ res[1] = "file" /\ res[2] = c.file
      BY <3>1 DEF Resource
    <3>3. s \in [id : Nat, res : Resource, owner : User, to : User] /\ s.res = res /\ s.owner = c.user
      BY <3>2, <1>2, <1>4
    <3>. QED
      BY <3>1, <3>2, <3>3 DEF ShareOK
  <2>. QED
    BY <2>1, <2>2
<1>6. shares' \subseteq shares \/ shares' = shares \cup {s}
  BY DEF CreateShare
<1>7. SharesOK'
  <2>1. CASE shares' \subseteq shares
    BY <2>1, <1>3, SharesStay
  <2>2. CASE shares' = shares \cup {s}
    <3>. HIDE DEF s
    <3>. QED
      BY <2>2, <1>1, <1>2, <1>5 DEF SharesOK, ShareOK, IsFolder, IsFile, tree
  <2>. QED
    BY <1>6, <2>1, <2>2
<1>. QED
  BY <1>1, <1>2, <1>3, <1>7, DoneShape

LEMMA RevokeShape ==
  ASSUME Shape, NEW p \in Proc, Revoke(p)
  PROVE  Shape'
<1>1. /\ Watch /\ UNCHANGED <<tree, requests, crashes>> /\ Done(p)
      /\ (faults' = faults \/ Fault) /\ shares' \subseteq shares
  BY DEF Revoke, Keep
<1>2. TreeOK' /\ Grows /\ faults' \in Nat /\ SharesOK' /\ {requests, crashes} \subseteq Nat
  BY <1>1, Same, FaultType, SharesStay, Parts
<1>. QED
  BY <1>1, <1>2, DoneShape

LEMMA ScannedShape ==
  ASSUME Shape, NEW d \in FileIds, Scanned(d)
  PROVE  Shape'
<1>1. PICK to \in {"PENDING_SCAN", "READY", "BLOCKED"} :
        files' = [files EXCEPT ![d].status = to]
  BY DEF Scanned
<1>2. /\ Watch /\ UNCHANGED <<folders, shares, pc, at, faults, crashes>>
      /\ requests' = requests + 1 /\ IsFile(d)
  BY DEF Scanned, Keep
<1>3. TreeOK /\ NoRow \notin FileRow /\ {requests, faults, crashes} \subseteq Nat
  BY Parts, StartAssumption
<1>4. files[d] \in FileRow
  BY <1>2, <1>3 DEF TreeOK, IsFile
<1>. DEFINE r == [files[d] EXCEPT !.status = to]
<1>5. /\ r \in FileRow /\ r.owner = files[d].owner
      /\ r.folder = files[d].folder /\ r.why = files[d].why
  BY <1>4 DEF FileRow
<1>6. files' = [files EXCEPT ![d] = r]
  BY <1>1, <1>3 DEF TreeOK
<1>. HIDE DEF r
<1>7. files' \in [FileIds -> FileRow \cup {NoRow}]
  BY <1>3, <1>5, <1>6 DEF TreeOK
<1>8. \A k \in FileIds : files'[k] = IF k = d THEN r ELSE files[k]
  BY <1>3, <1>6 DEF TreeOK
<1>9. TreeOK' /\ Grows
  BY <1>2, <1>3, <1>5, <1>7, <1>8, FilesWrite DEF TreeOK, RowOK, IsFile
<1>10. SharesOK'
  BY <1>2, <1>9, SharesStay
<1>11. \A p \in Proc : Refs(p)' /\ CallOK(p)'
  BY <1>2, <1>9, CallStays
<1>. QED
  BY <1>2, <1>3, <1>9, <1>10, <1>11, WatchType, Parts, Primed

LEMMA CrashShape ==
  ASSUME Shape, Crash
  PROVE  Shape'
<1>1. /\ Watch /\ UNCHANGED <<folders, shares, requests, faults>> /\ crashes' = crashes + 1
      /\ pc' = [p \in Proc |-> "idle"] /\ at' = [p \in Proc |-> NoCall]
  BY DEF Crash, Keep
<1>2. TreeOK /\ NoRow \notin FileRow /\ {requests, faults, crashes} \subseteq Nat
  BY Parts, StartAssumption
<1>3. ASSUME NEW d \in FileIds
      PROVE  /\ files'[d] \in FileRow \cup {NoRow}
             /\ IsFile(d)' = IsFile(d)
             /\ IsFile(d) => /\ files'[d].owner = files[d].owner
                             /\ files'[d].folder = files[d].folder
                             /\ files'[d].why = files[d].why
  BY <1>2 DEF Crash, IsFile, LiveFile, TreeOK, FileRow
<1>4. files' \in [FileIds -> FileRow \cup {NoRow}]
  BY <1>3 DEF Crash
<1>5. TreeOK' /\ Grows
  BY <1>1, <1>2, <1>3, <1>4, FilesWrite DEF TreeOK, RowOK
<1>6. SharesOK'
  BY <1>1, <1>5, SharesStay
<1>7. pc' \in [Proc -> PC] /\ at' \in [Proc -> CallRow]
  BY <1>1, NoCallType DEF PC
<1>8. \A p \in Proc : Refs(p)' /\ CallOK(p)'
  BY <1>1 DEF Refs, CallOK, NoCall
<1>. QED
  BY <1>1, <1>2, <1>5, <1>6, <1>7, <1>8, WatchType, Primed

LEMMA InitShape == Init => Shape
<1>. SUFFICES ASSUME Init
              PROVE  Shape
  OBVIOUS
<1>1. PICK s \in Start :
        /\ folders = [g \in FolderIds |-> IF g \in DOMAIN s.folders THEN s.folders[g] ELSE NoRow]
        /\ files = [d \in FileIds |-> IF d \in DOMAIN s.files THEN s.files[d] ELSE NoRow]
  BY DEF Init
<1>2. /\ shares = {} /\ pc = [p \in Proc |-> "idle"] /\ at = [p \in Proc |-> NoCall]
      /\ watch = [p \in Proc |-> NoWatch]
      /\ requests = 0 /\ faults = 0 /\ crashes = 0
  BY DEF Init
<1>3. Reached(s) /\ NoRow \notin FolderRow \cup FileRow
  BY StartAssumption
<1>4. PICK m \in 0..MaxFolders : s.folders \in [1..m -> FolderRow]
  BY <1>3 DEF Reached
<1>5. PICK n \in 0..MaxFiles : s.files \in [1..n -> FileRow]
  BY <1>3 DEF Reached
<1>6. /\ DOMAIN s.folders \subseteq FolderIds
      /\ \A g \in FolderIds : IsFolder(g) <=> g \in DOMAIN s.folders
      /\ \A g \in DOMAIN s.folders : folders[g] = s.folders[g] /\ folders[g] \in FolderRow
  BY <1>1, <1>3, <1>4, TreeBounds DEF FolderIds, IsFolder
<1>7. /\ DOMAIN s.files \subseteq FileIds
      /\ \A d \in FileIds : IsFile(d) <=> d \in DOMAIN s.files
      /\ \A d \in DOMAIN s.files : files[d] = s.files[d] /\ files[d] \in FileRow
  BY <1>1, <1>3, <1>5, TreeBounds DEF FileIds, IsFile
<1>8. folders \in [FolderIds -> FolderRow \cup {NoRow}] /\ files \in [FileIds -> FileRow \cup {NoRow}]
  BY <1>1, <1>6, <1>7
<1>9. ASSUME NEW g \in FolderIds, IsFolder(g)
      PROVE  /\ folders[g].parent = None \/ Holds(folders[g].owner, folders[g].parent)
             /\ ~folders[g].made
  BY <1>3, <1>6, <1>9 DEF Reached, Holds
<1>10. ASSUME NEW d \in FileIds, IsFile(d)
       PROVE  /\ files[d].folder = None \/ IsFolder(files[d].folder)
              /\ files[d].why = "folder" => files[d].folder # None
  <2>1. None \notin FolderIds
    BY TreeBounds DEF FolderIds
  <2>. QED
    BY <1>3, <1>6, <1>7, <1>10, <2>1 DEF Reached
<1>11. TreeOK
  BY <1>8, <1>9, <1>10 DEF TreeOK, RowOK
<1>12. /\ SharesOK /\ watch \in [Proc -> WatchRow] /\ pc \in [Proc -> PC]
       /\ at \in [Proc -> CallRow] /\ {requests, faults, crashes} \subseteq Nat
  BY <1>2, NoCallType DEF SharesOK, WatchRow, NoWatch, PC
<1>13. \A p \in Proc : Refs(p) /\ CallOK(p)
  BY <1>2 DEF Refs, CallOK, NoCall
<1>. QED
  BY <1>11, <1>12, <1>13, Parts

LEMMA StutterShape ==
  ASSUME Shape, UNCHANGED vars
  PROVE  Shape'
BY Parts, Primed, Same, SharesStay, CallStays DEF vars, tree

LEMMA NextShape ==
  ASSUME Shape, [Next]_vars
  PROVE  Shape'
<1>1. ASSUME NEW p \in Proc, Request(p)
      PROVE  Shape'
  BY <1>1, CreateFolderShape, GetOrCreateFolderShape, MoveFolderShape, RenameFolderShape,
     ToggleFolderShape, DeleteFolderShape, CreateUploadSessionShape, ToggleFileShape,
     MoveFileShape, DeleteFileShape, DownloadPublicShape, SavePublicFolderToVaultShape,
     GrantShareShape, RevokeShareShape
  DEF Request
<1>2. ASSUME NEW p \in Proc, Continue(p)
      PROVE  Shape'
  BY <1>2, CreateShape, UpdateParentShape, RenameShape, UpdatePublicStatusShape, SyncShape,
     DropShape, EmptyShape, InheritShape, InsertShape, WriteFileShape, WalkShape,
     AnswerShape, ListShape, CopyShape, CreateShareShape, RevokeShape
  DEF Continue
<1>. QED
  BY <1>1, <1>2, ScannedShape, CrashShape, StutterShape DEF Next, Background

(* Every variable keeps its type, and every row refers to a row there is.  *)
THEOREM TypeCorrect == Spec => []TypeOK
<1>1. Shape => TypeOK
  BY DEF Shape
<1>. QED
  BY <1>1, InitShape, NextShape, PTL DEF Spec

-----------------------------------------------------------------------------
(* One folder per race: those who are about to make a folder all looked    *)
(* before the first of them did.                                           *)

LEMMA GoMoves ==
  ASSUME Shape, NEW p \in Proc, NEW l, NEW c, Go(p, l, c)
  PROVE  /\ pc'[p] = l /\ at'[p] = c
         /\ \A q \in Proc \ {p} : pc'[q] = pc[q] /\ at'[q] = at[q]
BY Parts DEF Go

Others(p) == \A q \in Proc \ {p} : pc'[q] = pc[q] /\ at'[q] = at[q]

LEMMA RequestStep ==
  ASSUME Shape, NEW p \in Proc, Request(p)
  PROVE  /\ UNCHANGED tree /\ pc[p] = "idle" /\ Others(p) /\ Watch
         /\ pc'[p] = "create" /\ at'[p].op = "api" => FindByName(at'[p].user) = {}
         /\ pc'[p] \in {"walk", "served", "refused"} => DownloadPublic(p)
<1>1. ASSUME CreateFolder(p)
      PROVE  /\ UNCHANGED tree /\ pc[p] = "idle" /\ Others(p) /\ Watch
             /\ pc'[p] = "create" /\ at'[p].op = "create"
  <2>1. PICK u \in User, g \in FolderIds \cup {None}, named \in BOOLEAN :
          Go(p, "create", [Call("create", u, None, None) EXCEPT !.to = g, !.on = named])
    BY <1>1 DEF CreateFolder, Arrives
  <2>2. pc'[p] = "create" /\ at'[p] = [Call("create", u, None, None) EXCEPT !.to = g, !.on = named]
        /\ Others(p)
    BY <2>1, GoMoves DEF Others
  <2>. QED
    BY <1>1, <2>2 DEF CreateFolder, Keep, Ready, Is, Call, NoCall
<1>2. ASSUME GetOrCreateFolder(p)
      PROVE  /\ UNCHANGED tree /\ pc[p] = "idle" /\ Others(p) /\ Watch
             /\ pc'[p] = "create" /\ at'[p].op = "api" => FindByName(at'[p].user) = {}
             /\ pc'[p] \in {"create", "insert"}
  <2>1. PICK u \in User, on \in BOOLEAN :
          LET c == [Call("api", u, None, None) EXCEPT !.on = on]
          IN  \/ \E g \in FindByName(u) : Go(p, "insert", [c EXCEPT !.folder = g])
              \/ FindByName(u) = {} /\ Go(p, "create", c)
              \/ Go(p, "insert", c)
    BY <1>2 DEF GetOrCreateFolder, Arrives
  <2>. DEFINE c == [Call("api", u, None, None) EXCEPT !.on = on]
  <2>2. UNCHANGED tree /\ pc[p] = "idle" /\ Watch
    BY <1>2 DEF GetOrCreateFolder, Keep, Ready, Is
  <2>3. c.user = u
    BY DEF Call, NoCall
  <2>4. CASE FindByName(u) = {} /\ Go(p, "create", c)
    <3>1. pc'[p] = "create" /\ at'[p] = c /\ Others(p)
      BY <2>4, GoMoves DEF Others
    <3>. QED
      BY <3>1, <2>2, <2>3, <2>4
  <2>5. ASSUME NEW x, Go(p, "insert", x)
        PROVE  pc'[p] = "insert" /\ Others(p)
    BY <2>5, GoMoves DEF Others
  <2>. QED
    BY <2>1, <2>2, <2>4, <2>5
<1>3. ASSUME MoveFolder(p)
      PROVE  UNCHANGED tree /\ pc[p] = "idle" /\ Others(p) /\ Watch /\ pc'[p] = "parent"
  <2>1. PICK c : Go(p, "parent", c)
    BY <1>3 DEF MoveFolder, Arrives
  <2>2. pc'[p] = "parent" /\ Others(p)
    BY <2>1, GoMoves DEF Others
  <2>. QED
    BY <1>3, <2>2 DEF MoveFolder, Keep, Ready, Is
<1>4. ASSUME RenameFolder(p)
      PROVE  UNCHANGED tree /\ pc[p] = "idle" /\ Others(p) /\ Watch /\ pc'[p] = "rename"
  <2>1. PICK c : Go(p, "rename", c)
    BY <1>4 DEF RenameFolder, Arrives
  <2>2. pc'[p] = "rename" /\ Others(p)
    BY <2>1, GoMoves DEF Others
  <2>. QED
    BY <1>4, <2>2 DEF RenameFolder, Keep, Ready, Is
<1>5. ASSUME ToggleFolder(p)
      PROVE  UNCHANGED tree /\ pc[p] = "idle" /\ Others(p) /\ Watch /\ pc'[p] = "flag"
  <2>1. PICK c : Go(p, "flag", c)
    BY <1>5 DEF ToggleFolder, Arrives
  <2>2. pc'[p] = "flag" /\ Others(p)
    BY <2>1, GoMoves DEF Others
  <2>. QED
    BY <1>5, <2>2 DEF ToggleFolder, Keep, Ready, Is
<1>6. ASSUME DeleteFolder(p)
      PROVE  UNCHANGED tree /\ pc[p] = "idle" /\ Others(p) /\ Watch /\ pc'[p] = "drop"
  <2>1. PICK c : Go(p, "drop", c)
    BY <1>6 DEF DeleteFolder, Arrives
  <2>2. pc'[p] = "drop" /\ Others(p)
    BY <2>1, GoMoves DEF Others
  <2>. QED
    BY <1>6, <2>2 DEF DeleteFolder, Keep, Ready, Is
<1>7. ASSUME CreateUploadSession(p)
      PROVE  UNCHANGED tree /\ pc[p] = "idle" /\ Others(p) /\ Watch /\ pc'[p] \in {"insert", "inherit"}
  <2>1. PICK l, c : l \in {"insert", "inherit"} /\ Go(p, l, c)
    BY <1>7 DEF CreateUploadSession, Arrives
  <2>2. pc'[p] \in {"insert", "inherit"} /\ Others(p)
    BY <2>1, GoMoves DEF Others
  <2>. QED
    BY <1>7, <2>2 DEF CreateUploadSession, Keep, Ready, Is
<1>8. ASSUME ToggleFile(p)
      PROVE  UNCHANGED tree /\ pc[p] = "idle" /\ Others(p) /\ Watch /\ pc'[p] = "mark"
  <2>1. PICK c : Go(p, "mark", c)
    BY <1>8 DEF ToggleFile, Arrives
  <2>2. pc'[p] = "mark" /\ Others(p)
    BY <2>1, GoMoves DEF Others
  <2>. QED
    BY <1>8, <2>2 DEF ToggleFile, Keep, Ready, Is
<1>9. ASSUME MoveFile(p)
      PROVE  UNCHANGED tree /\ pc[p] = "idle" /\ Others(p) /\ Watch /\ pc'[p] = "refile"
  <2>1. PICK c : Go(p, "refile", c)
    BY <1>9 DEF MoveFile, Arrives
  <2>2. pc'[p] = "refile" /\ Others(p)
    BY <2>1, GoMoves DEF Others
  <2>. QED
    BY <1>9, <2>2 DEF MoveFile, Keep, Ready, Is
<1>10. ASSUME DeleteFile(p)
      PROVE  UNCHANGED tree /\ pc[p] = "idle" /\ Others(p) /\ Watch /\ pc'[p] = "erase"
  <2>1. PICK c : Go(p, "erase", c)
    BY <1>10 DEF DeleteFile, Arrives
  <2>2. pc'[p] = "erase" /\ Others(p)
    BY <2>1, GoMoves DEF Others
  <2>. QED
    BY <1>10, <2>2 DEF DeleteFile, Keep, Ready, Is
<1>11. ASSUME SavePublicFolderToVault(p)
      PROVE  UNCHANGED tree /\ pc[p] = "idle" /\ Others(p) /\ Watch /\ pc'[p] = "list"
  <2>1. PICK c : Go(p, "list", c)
    BY <1>11 DEF SavePublicFolderToVault, Arrives
  <2>2. pc'[p] = "list" /\ Others(p)
    BY <2>1, GoMoves DEF Others
  <2>. QED
    BY <1>11, <2>2 DEF SavePublicFolderToVault, Keep, Ready, Is
<1>12. ASSUME GrantShare(p)
      PROVE  UNCHANGED tree /\ pc[p] = "idle" /\ Others(p) /\ Watch /\ pc'[p] = "grant"
  <2>1. PICK c : Go(p, "grant", c)
    BY <1>12 DEF GrantShare, Arrives
  <2>2. pc'[p] = "grant" /\ Others(p)
    BY <2>1, GoMoves DEF Others
  <2>. QED
    BY <1>12, <2>2 DEF GrantShare, Keep, Ready, Is
<1>13. ASSUME RevokeShare(p)
      PROVE  UNCHANGED tree /\ pc[p] = "idle" /\ Others(p) /\ Watch /\ pc'[p] = "revoke"
  <2>1. PICK c : Go(p, "revoke", c)
    BY <1>13 DEF RevokeShare, Arrives
  <2>2. pc'[p] = "revoke" /\ Others(p)
    BY <2>1, GoMoves DEF Others
  <2>. QED
    BY <1>13, <2>2 DEF RevokeShare, Keep, Ready, Is
<1>14. ASSUME DownloadPublic(p)
      PROVE  UNCHANGED tree /\ pc[p] = "idle" /\ Others(p) /\ Watch /\ pc'[p] # "create"
  <2>1. PICK l, c : l \in {"served", "refused", "walk"} /\ Go(p, l, c)
    BY <1>14 DEF DownloadPublic, Arrives
  <2>2. pc'[p] # "create" /\ Others(p)
    BY <2>1, GoMoves DEF Others
  <2>. QED
    BY <1>14, <2>2 DEF DownloadPublic, Keep, Ready, Is
<1>. QED
  BY <1>1, <1>2, <1>3, <1>4, <1>5, <1>6, <1>7, <1>8, <1>9, <1>10, <1>11, <1>12, <1>13, <1>14 DEF Request

(* The statements that change neither folder nor file.                     *)
Quiet(p) ==
  \/ Inherit(p) \/ Walk(p) \/ Answer(p) \/ List(p) \/ CreateShare(p) \/ Revoke(p)

LEMMA QuietStep ==
  ASSUME Shape, NEW p \in Proc, Quiet(p)
  PROVE  /\ UNCHANGED tree /\ Others(p) /\ Watch
         /\ pc[p] \in {"inherit", "walk", "served", "refused", "list", "grant", "revoke"}
         /\ ~(pc'[p] = "create" /\ at'[p].op = "api")
         /\ pc'[p] \in {"walk", "served", "refused"} => Walk(p)
<1>1. at[p] \in CallRow /\ CallOK(p)
  BY Parts
<1>2. ASSUME Done(p)
      PROVE  pc'[p] = "idle" /\ Others(p)
  BY <1>2, GoMoves DEF Done, Others
<1>3. ASSUME Inherit(p)
      PROVE  pc'[p] = "insert" /\ Others(p)
  <2>1. PICK c : Go(p, "insert", c)
    BY <1>3 DEF Inherit, Step
  <2>. QED
    BY <2>1, GoMoves DEF Others
<1>4. ASSUME Walk(p)
      PROVE  pc'[p] # "create" /\ Others(p)
  <2>1. PICK l, c : l \in {"served", "refused", "walk", "idle"} /\ Go(p, l, c)
    BY <1>4 DEF Walk, Step, Done
  <2>. QED
    BY <2>1, GoMoves DEF Others
<1>5. ASSUME List(p), ~Done(p)
      PROVE  pc'[p] = "create" /\ at'[p].op = "import" /\ Others(p)
  <2>1. Go(p, "create", [at[p] EXCEPT !.folder = None,
                           !.list = ListPublicFilesByFolderID(at[p].folder)])
    BY <1>5 DEF List
  <2>2. pc'[p] = "create" /\ Others(p)
        /\ at'[p] = [at[p] EXCEPT !.folder = None,
                       !.list = ListPublicFilesByFolderID(at[p].folder)]
    BY <2>1, GoMoves DEF Others
  <2>3. at[p].op = "import"
    BY <1>1, <1>5 DEF CallOK, List, Is
  <2>. QED
    BY <1>1, <2>2, <2>3 DEF CallRow
<1>6. Answer(p) \/ CreateShare(p) \/ Revoke(p) => Done(p)
  BY DEF Answer, CreateShare, Revoke
<1>7. UNCHANGED tree /\ Watch
  BY DEF Quiet, Inherit, Walk, Answer, List, CreateShare, Revoke, Keep
<1>8. pc[p] \in {"inherit", "walk", "served", "refused", "list", "grant", "revoke"}
  BY DEF Quiet, Inherit, Walk, Answer, List, CreateShare, Revoke, Is
<1>. QED
  BY <1>2, <1>3, <1>4, <1>5, <1>6, <1>7, <1>8 DEF Quiet

LEMMA Finite ==
  ASSUME NEW u
  PROVE  /\ IsFiniteSet(Made(u)) /\ Cardinality(Made(u)) \in Nat
         /\ IsFiniteSet(Making(u)) /\ Cardinality(Making(u)) \in Nat
         /\ Cardinality(Making(u)) <= Cardinality(Proc) /\ Cardinality(Proc) \in Nat
<1>1. IsFiniteSet(FolderIds)
  BY FS_Interval, TreeBounds DEF FolderIds
<1>2. Made(u) \subseteq FolderIds /\ Making(u) \subseteq Proc
  BY DEF Made, Making
<1>. QED
  BY <1>1, <1>2, FS_Subset, FS_CardinalityType, TreeBounds

LEMMA MadeSteady ==
  ASSUME MadeInv, \A u \in User : Making(u)' \subseteq Making(u) /\ Made(u)' \subseteq Made(u)
  PROVE  MadeInv'
<1>. SUFFICES ASSUME NEW u \in User
              PROVE  Cardinality(Made(u)') + Cardinality(Making(u)') <= Cardinality(Proc)
  BY DEF MadeInv
<1>1. /\ Cardinality(Made(u)') <= Cardinality(Made(u))
      /\ Cardinality(Making(u)') <= Cardinality(Making(u))
      /\ Cardinality(Made(u)') \in Nat /\ Cardinality(Making(u)') \in Nat
  BY Finite, FS_Subset, FS_CardinalityType
<1>. QED
  BY <1>1, Finite DEF MadeInv

LEMMA SameMade ==
  ASSUME UNCHANGED folders, NEW u
  PROVE  Made(u)' = Made(u)
BY DEF Made, OwnFolder, LiveFolder, IsFolder

(* Requests that do not set out to make a folder.                          *)
LEMMA NoneMaking ==
  ASSUME NEW p \in Proc, Others(p), ~(pc'[p] = "create" /\ at'[p].op = "api"), NEW u
  PROVE  Making(u)' \subseteq Making(u)
BY DEF Making, Others

LEMMA RequestMade ==
  ASSUME Shape, Shape', MadeInv, NEW p \in Proc, Request(p)
  PROVE  MadeInv'
<1>1. /\ UNCHANGED folders /\ Others(p)
      /\ pc'[p] = "create" /\ at'[p].op = "api" => FindByName(at'[p].user) = {}
  BY RequestStep DEF tree
<1>. SUFFICES ASSUME NEW u \in User
              PROVE  Cardinality(Made(u)') + Cardinality(Making(u)') <= Cardinality(Proc)
  BY DEF MadeInv
<1>2. Made(u)' = Made(u)
  BY <1>1, SameMade
<1>3. CASE pc'[p] = "create" /\ at'[p].op = "api" /\ at'[p].user = u
  <2>1. FindByName(u) = {}
    BY <1>1, <1>3
  <2>2. Made(u) \subseteq FindByName(u)
    BY DEF Made, FindByName, Shape, RowOK, OwnFolder, LiveFolder
  <2>3. Cardinality(Made(u)') = 0
    BY <1>2, <2>1, <2>2, FS_EmptySet
  <2>4. Making(u)' \subseteq Proc
    BY DEF Making
  <2>5. Cardinality(Making(u)') <= Cardinality(Proc) /\ Cardinality(Making(u)') \in Nat
    BY <2>4, FS_Subset, FS_CardinalityType, TreeBounds
  <2>. QED
    BY <2>3, <2>5
<1>4. CASE ~(pc'[p] = "create" /\ at'[p].op = "api" /\ at'[p].user = u)
  <2>1. Making(u)' \subseteq Making(u)
    BY <1>1, <1>4 DEF Making, Others
  <2>2. Cardinality(Making(u)') <= Cardinality(Making(u)) /\ Cardinality(Making(u)') \in Nat
    BY <2>1, Finite, FS_Subset, FS_CardinalityType
  <2>. QED
    BY <1>2, <2>2, Finite DEF MadeInv
<1>. QED
  BY <1>3, <1>4

LEMMA FilesMade ==
  ASSUME Shape, MadeInv, UNCHANGED folders, NEW p \in Proc, Others(p),
         ~(pc'[p] = "create" /\ at'[p].op = "api")
  PROVE  MadeInv'
BY SameMade, NoneMaking, MadeSteady

LEMMA DoneStep ==
  ASSUME Shape, NEW p \in Proc, Done(p)
  PROVE  pc'[p] = "idle" /\ Others(p)
BY GoMoves DEF Done, Others

LEMMA CreateMade ==
  ASSUME Shape, MadeInv, NEW p \in Proc, Create(p)
  PROVE  MadeInv'
<1>. DEFINE c == at[p]
<1>1. CallOK(p) /\ c \in CallRow /\ TreeOK /\ pc[p] = "create" /\ NoRow \notin FolderRow
  BY Parts, StartAssumption DEF Create, Is
<1>2. Others(p) /\ ~(pc'[p] = "create" /\ at'[p].op = "api")
  <2>1. CASE \E l \in {"insert", "copy", "idle"} : \E x : Go(p, l, x)
    BY <2>1, GoMoves DEF Others
  <2>2. CASE Go(p, "create", [c EXCEPT !.op = "again", !.on = FALSE])
    <3>1. at'[p] = [c EXCEPT !.op = "again", !.on = FALSE] /\ Others(p)
      BY <2>2, GoMoves DEF Others
    <3>. QED
      BY <3>1, <1>1 DEF CallRow
  <2>3. Create(p)
    OBVIOUS
  <2>4. \/ \E l \in {"insert", "copy", "idle"} : \E x : Go(p, l, x)
        \/ Go(p, "create", [c EXCEPT !.op = "again", !.on = FALSE])
    BY ONLY <2>3, <1>1 DEF Create, Step, Done, CallOK
  <2>. QED
    BY <2>1, <2>2, <2>4
<1>3. CASE UNCHANGED folders
  BY <1>2, <1>3, FilesMade
<1>4. CASE /\ FolderRoom
           /\ folders' = [folders EXCEPT ![NewFolder] =
               [owner |-> c.user, parent |-> c.to, named |-> c.on \/ c.op = "api", public |-> FALSE,
                live |-> TRUE, made |-> c.op = "api", unsynced |-> FALSE]]
  <2>1. PICK g \in FolderIds : g = NewFolder /\ ~IsFolder(g)
    BY <1>4, NewFolderType
  <2>2. /\ folders'[g].owner = c.user /\ folders'[g].made = (c.op = "api")
        /\ \A k \in FolderIds \ {g} : folders'[k] = folders[k]
    BY <1>1, <1>4, <2>1 DEF TreeOK
  <2>. SUFFICES ASSUME NEW u \in User
                PROVE  Cardinality(Made(u)') + Cardinality(Making(u)') <= Cardinality(Proc)
    BY DEF MadeInv
  <2>3. CASE c.op = "api" /\ c.user = u
    <3>1. Made(u)' \subseteq Made(u) \cup {g} /\ g \notin Made(u)
      BY <2>1, <2>2 DEF Made, OwnFolder, LiveFolder, IsFolder
    <3>2. Making(u)' \subseteq Making(u) \ {p} /\ p \in Making(u)
      BY <1>1, <1>2, <2>3 DEF Making, Others
    <3>3. Cardinality(Made(u)') <= Cardinality(Made(u)) + 1 /\ Cardinality(Made(u)') \in Nat
      <4>1. IsFiniteSet(Made(u) \cup {g}) /\ Cardinality(Made(u) \cup {g}) = Cardinality(Made(u)) + 1
        BY <3>1, Finite, FS_AddElement
      <4>. QED
        BY <3>1, <4>1, FS_Subset, FS_CardinalityType
    <3>4. Cardinality(Making(u)') <= Cardinality(Making(u)) - 1 /\ Cardinality(Making(u)') \in Nat
      <4>1. IsFiniteSet(Making(u) \ {p})
            /\ Cardinality(Making(u) \ {p}) = Cardinality(Making(u)) - 1
        BY <3>2, Finite, FS_RemoveElement
      <4>. QED
        BY <3>2, <4>1, FS_Subset, FS_CardinalityType
    <3>. QED
      BY <3>3, <3>4, Finite DEF MadeInv
  <2>4. CASE ~(c.op = "api" /\ c.user = u)
    <3>1. Made(u)' \subseteq Made(u)
      BY <2>1, <2>2, <2>4 DEF Made, OwnFolder, LiveFolder, IsFolder
    <3>2. Making(u)' \subseteq Making(u)
      BY <1>2, NoneMaking
    <3>3. /\ Cardinality(Made(u)') <= Cardinality(Made(u))
          /\ Cardinality(Making(u)') <= Cardinality(Making(u))
          /\ Cardinality(Made(u)') \in Nat /\ Cardinality(Making(u)') \in Nat
      BY <3>1, <3>2, Finite, FS_Subset, FS_CardinalityType
    <3>. QED
      BY <3>3, Finite DEF MadeInv
  <2>. QED
    BY <2>3, <2>4
<1>. QED
  BY <1>3, <1>4 DEF Create

(* A statement that neither makes nor revives a folder.                    *)
LEMMA RowMade ==
  ASSUME Shape, MadeInv, NEW p \in Proc, Others(p),
         ~(pc'[p] = "create" /\ at'[p].op = "api"),
         NEW g, \A k \in FolderIds \ {g} : folders'[k] = folders[k],
         g \in FolderIds => /\ IsFolder(g) /\ folders'[g].owner = folders[g].owner
                            /\ folders'[g].live => folders[g].live
                            /\ folders'[g].made => folders[g].made
  PROVE  MadeInv'
<1>1. \A u \in User : Made(u)' \subseteq Made(u)
  BY DEF Made, OwnFolder, LiveFolder, IsFolder
<1>. QED
  BY <1>1, NoneMaking, MadeSteady

LEMMA FolderMade ==
  ASSUME Shape, MadeInv, NEW p \in Proc,
         UpdateParent(p) \/ Rename(p) \/ UpdatePublicStatus(p) \/ Sync(p) \/ Drop(p)
  PROVE  MadeInv'
<1>. DEFINE g == at[p].folder
<1>1. TreeOK /\ CallOK(p)
  BY Parts
<1>2. g \in FolderIds /\ IsFolder(g) /\ folders[g] \in FolderRow
  BY <1>1 DEF CallOK, UpdateParent, Rename, UpdatePublicStatus, Sync, Drop, Is, Holds,
     IsFolder, TreeOK
<1>3. Others(p) /\ ~(pc'[p] = "create" /\ at'[p].op = "api")
  <2>1. \E l \in {"idle", "sync", "empty"} : \E x : Go(p, l, x)
    BY DEF UpdateParent, Rename, UpdatePublicStatus, Sync, Drop, Done, Step
  <2>. QED
    BY <2>1, GoMoves DEF Others
<1>4. /\ \A k \in FolderIds \ {g} : folders'[k] = folders[k]
      /\ folders'[g].owner = folders[g].owner
      /\ folders'[g].live => folders[g].live
      /\ folders'[g].made => folders[g].made
  <2>1. CASE UNCHANGED folders
    BY <2>1
  <2>2. CASE folders' = [folders EXCEPT ![g].parent = at[p].to, ![g].made = FALSE]
    BY <2>2, <1>1, <1>2 DEF TreeOK, FolderRow
  <2>3. CASE folders' = [folders EXCEPT ![g].named = at[p].on, ![g].made = FALSE]
    BY <2>3, <1>1, <1>2 DEF TreeOK, FolderRow
  <2>4. CASE folders' = [folders EXCEPT ![g].public = at[p].on, ![g].unsynced = TRUE]
    BY <2>4, <1>1, <1>2 DEF TreeOK, FolderRow
  <2>5. CASE folders' = [folders EXCEPT ![g].unsynced = FALSE]
    BY <2>5, <1>1, <1>2 DEF TreeOK, FolderRow
  <2>6. CASE folders' = [folders EXCEPT ![g].live = FALSE]
    BY <2>6, <1>1, <1>2 DEF TreeOK, FolderRow
  <2>. QED
    BY <2>1, <2>2, <2>3, <2>4, <2>5, <2>6
    DEF UpdateParent, Rename, UpdatePublicStatus, Sync, Drop, Dropped, tree
<1>. HIDE DEF g
<1>. QED
  BY <1>2, <1>3, <1>4, RowMade

LEMMA FileMade ==
  ASSUME Shape, MadeInv, NEW p \in Proc, Insert(p) \/ WriteFile(p) \/ Copy(p) \/ Empty(p)
  PROVE  MadeInv'
<1>1. UNCHANGED folders
  BY DEF Insert, WriteFile, Copy, Empty, Keep
<1>2. Others(p) /\ ~(pc'[p] = "create" /\ at'[p].op = "api")
  <2>1. \E l \in {"idle", "mark", "copy"} : \E x : Go(p, l, x)
    BY DEF Insert, WriteFile, Copy, Empty, Done
  <2>. QED
    BY <2>1, GoMoves DEF Others
<1>. QED
  BY <1>1, <1>2, FilesMade

LEMMA NextMade ==
  ASSUME Shape, Shape', MadeInv, [Next]_vars
  PROVE  MadeInv'
<1>1. ASSUME NEW p \in Proc, Quiet(p)
      PROVE  MadeInv'
  BY <1>1, QuietStep, FilesMade DEF tree
<1>2. ASSUME NEW p \in Proc, Continue(p)
      PROVE  MadeInv'
  BY <1>1, <1>2, CreateMade, FolderMade, FileMade DEF Continue, Quiet
<1>3. ASSUME Background
      PROVE  MadeInv'
  <2>1. UNCHANGED folders /\ \A u : Making(u)' \subseteq Making(u)
    BY <1>3 DEF Background, Scanned, Crash, Keep, Making
  <2>. QED
    BY <2>1, SameMade, MadeSteady
<1>4. ASSUME UNCHANGED vars
      PROVE  MadeInv'
  <2>1. UNCHANGED folders /\ \A u : Making(u)' \subseteq Making(u)
    BY <1>4 DEF vars, Making
  <2>. QED
    BY <2>1, SameMade, MadeSteady
<1>. QED
  BY <1>2, <1>3, <1>4, RequestMade DEF Next

(* What was checked before a write still holds after it.                   *)
THEOREM ChecksAreKept == Spec => []ChecksHold
<1>1. Init => MadeInv
  <2>. SUFFICES ASSUME Init, NEW u \in User
                PROVE  Cardinality(Made(u)) + Cardinality(Making(u)) <= Cardinality(Proc)
    BY DEF MadeInv
  <2>1. PICK s \in Start :
          folders = [g \in FolderIds |-> IF g \in DOMAIN s.folders THEN s.folders[g] ELSE NoRow]
    BY DEF Init
  <2>2. \A g \in DOMAIN s.folders : ~s.folders[g].made
    BY StartAssumption DEF Reached
  <2>3. Made(u) = {}
    BY <2>1, <2>2 DEF Made, OwnFolder, LiveFolder, IsFolder
  <2>4. Cardinality(Made(u)) = 0
    BY <2>3, FS_EmptySet
  <2>. QED
    BY <2>4, Finite
<1>2. Shape /\ MadeInv => ChecksHold
  <2>. SUFFICES ASSUME Shape, MadeInv, NEW u \in User
                PROVE  Cardinality(Made(u)) <= Cardinality(Proc)
    BY DEF ChecksHold, Shape, OneNamedPerRace, Made
  <2>. QED
    BY Finite DEF MadeInv
<1>3. Shape /\ MadeInv /\ [Next]_vars => Shape' /\ MadeInv'
  BY NextShape, NextMade
<1>. QED
  BY <1>1, <1>2, <1>3, InitShape, PTL DEF Spec

-----------------------------------------------------------------------------
(* A deleted folder is empty.                                              *)

Covered(g) == \E p \in Proc : Is(p, "empty") /\ at[p].folder = g

(* A step after which each live file was live, where it is, and covered if *)
(* it was, or is known to be astray.                                       *)
LEMMA EmptiedSteady ==
  ASSUME Shape, DeletedIsEmptied,
         \A d \in FileIds : LiveFile(d)' /\ ~files'[d].astray =>
            LiveFile(d) /\ ~files[d].astray /\ files'[d].folder = files[d].folder,
         \A g \in FolderIds : IsFolder(g) => (folders'[g].live = folders[g].live),
         \A q \in Proc : Is(q, "empty") => Is(q, "empty")' /\ at'[q].folder = at[q].folder
  PROVE  DeletedIsEmptied'
<1>1. TreeOK
  BY Parts
<1>. SUFFICES ASSUME NEW d \in FileIds, LiveFile(d)', Deleted(files[d].folder)', ~files'[d].astray
              PROVE  \E q \in Proc : Is(q, "empty")' /\ at'[q].folder = files'[d].folder
  BY DEF DeletedIsEmptied
<1>2. /\ LiveFile(d) /\ ~files[d].astray /\ files'[d].folder = files[d].folder
      /\ files[d].folder # None /\ IsFolder(files[d].folder)
  BY <1>1 DEF Deleted, TreeOK, LiveFile
<1>3. Deleted(files[d].folder)
  BY <1>2 DEF Deleted, IsFolder
<1>. QED
  BY <1>2, <1>3 DEF DeletedIsEmptied

LEMMA SameEmptied ==
  ASSUME Shape, DeletedIsEmptied, UNCHANGED tree, NEW p \in Proc, Others(p), pc[p] # "empty"
  PROVE  DeletedIsEmptied'
<1>1. \A d \in FileIds : LiveFile(d)' = LiveFile(d) /\ files'[d] = files[d]
  BY DEF tree, LiveFile, IsFile
<1>2. \A q \in Proc : Is(q, "empty") => Is(q, "empty")' /\ at'[q].folder = at[q].folder
  BY DEF Others, Is
<1>. QED
  BY <1>1, <1>2, EmptiedSteady DEF tree

LEMMA CreateEmptied ==
  ASSUME Shape, DeletedIsEmptied, NEW p \in Proc, Create(p)
  PROVE  DeletedIsEmptied'
<1>1. UNCHANGED files /\ pc[p] = "create" /\ TreeOK
  BY Parts DEF Create, Keep, Is
<1>2. Others(p)
  <2>1. \E l, x : Go(p, l, x)
    <3>1. Create(p)
      OBVIOUS
    <3>. QED
      BY ONLY <3>1 DEF Create, Step, Done
  <2>. QED
    BY <2>1, GoMoves DEF Others
<1>3. \A g \in FolderIds : IsFolder(g) => folders'[g].live = folders[g].live
  <2>1. CASE UNCHANGED folders
    BY <2>1
  <2>2. CASE FolderRoom /\ \E r : folders' = [folders EXCEPT ![NewFolder] = r]
    BY <2>2, <1>1, NewFolderType DEF TreeOK
  <2>. QED
    BY <2>1, <2>2 DEF Create
<1>4. \A d \in FileIds : LiveFile(d)' = LiveFile(d) /\ files'[d] = files[d]
  BY <1>1 DEF LiveFile, IsFile
<1>5. \A q \in Proc : Is(q, "empty") => Is(q, "empty")' /\ at'[q].folder = at[q].folder
  BY <1>1, <1>2 DEF Others, Is
<1>. QED
  BY <1>3, <1>4, <1>5, EmptiedSteady

LEMMA ColumnsEmptied ==
  ASSUME Shape, DeletedIsEmptied, NEW p \in Proc, UpdateParent(p) \/ Rename(p) \/ UpdatePublicStatus(p)
  PROVE  DeletedIsEmptied'
<1>1. UNCHANGED files /\ pc[p] # "empty" /\ TreeOK
  BY Parts DEF UpdateParent, Rename, UpdatePublicStatus, Keep, Is
<1>2. Others(p)
  <2>1. \E l, x : Go(p, l, x)
    BY DEF UpdateParent, Rename, UpdatePublicStatus, Step, Done
  <2>. QED
    BY <2>1, GoMoves DEF Others
<1>3. \A g \in FolderIds : IsFolder(g) => folders'[g].live = folders[g].live
  <2>. DEFINE k == at[p].folder
  <2>1. CASE UNCHANGED folders
    BY <2>1
  <2>2. CASE folders' = [folders EXCEPT ![k].parent = at[p].to, ![k].made = FALSE]
    BY <2>2, <1>1 DEF TreeOK, FolderRow, IsFolder
  <2>3. CASE folders' = [folders EXCEPT ![k].named = at[p].on, ![k].made = FALSE]
    BY <2>3, <1>1 DEF TreeOK, FolderRow, IsFolder
  <2>4. CASE folders' = [folders EXCEPT ![k].public = at[p].on, ![k].unsynced = TRUE]
    BY <2>4, <1>1 DEF TreeOK, FolderRow, IsFolder
  <2>. QED
    BY <2>1, <2>2, <2>3, <2>4 DEF UpdateParent, Rename, UpdatePublicStatus
<1>4. \A d \in FileIds : LiveFile(d)' = LiveFile(d) /\ files'[d] = files[d]
  BY <1>1 DEF LiveFile, IsFile
<1>5. \A q \in Proc : Is(q, "empty") => Is(q, "empty")' /\ at'[q].folder = at[q].folder
  BY <1>1, <1>2 DEF Others, Is
<1>. QED
  BY <1>3, <1>4, <1>5, EmptiedSteady

LEMMA SyncEmptied ==
  ASSUME Shape, DeletedIsEmptied, NEW p \in Proc, Sync(p)
  PROVE  DeletedIsEmptied'
<1>1. pc[p] # "empty" /\ TreeOK /\ NoRow \notin FileRow /\ Others(p)
  BY Parts, StartAssumption, DoneStep DEF Sync, Is
<1>2. CASE UNCHANGED tree
  BY <1>1, <1>2, SameEmptied
<1>3. CASE /\ files' = Synced(at[p].folder, at[p].on)
           /\ folders' = [folders EXCEPT ![at[p].folder].unsynced = FALSE]
  <2>1. \A g \in FolderIds : IsFolder(g) => folders'[g].live = folders[g].live
    BY <1>1, <1>3 DEF TreeOK, FolderRow, IsFolder
  <2>2. ASSUME NEW d \in FileIds, LiveFile(d)'
        PROVE  LiveFile(d) /\ files'[d].astray = files[d].astray /\ files'[d].folder = files[d].folder
    <3>1. CASE LiveFile(d) /\ files[d].folder = at[p].folder
      <4>1. files[d] \in FileRow
        BY <3>1, <1>1 DEF TreeOK, LiveFile, IsFile
      <4>2. files'[d] = [files[d] EXCEPT !.public = at[p].on, !.why = Because(at[p].folder, at[p].on)]
        BY <3>1, <1>3 DEF Synced
      <4>. QED
        BY <3>1, <4>1, <4>2 DEF FileRow
    <3>2. CASE ~(LiveFile(d) /\ files[d].folder = at[p].folder)
      BY <3>2, <2>2, <1>3 DEF Synced, LiveFile, IsFile
    <3>. QED
      BY <3>1, <3>2
  <2>3. \A q \in Proc : Is(q, "empty") => Is(q, "empty")' /\ at'[q].folder = at[q].folder
    BY <1>1 DEF Others, Is
  <2>. QED
    BY <2>1, <2>2, <2>3, EmptiedSteady
<1>. QED
  BY <1>2, <1>3 DEF Sync

(* The folder goes first, and its request is there to empty it.            *)
LEMMA DropEmptied ==
  ASSUME Shape, DeletedIsEmptied, NEW p \in Proc, Drop(p)
  PROVE  DeletedIsEmptied'
<1>1. pc[p] = "drop" /\ TreeOK /\ UNCHANGED files
  BY Parts DEF Drop, Is, Keep
<1>2. CASE UNCHANGED folders /\ Done(p)
  BY <1>1, <1>2, DoneStep, SameEmptied DEF tree
<1>3. CASE folders' = Dropped(at[p].folder) /\ Step(p, "empty")
  <2>1. pc'[p] = "empty" /\ at'[p] = at[p] /\ Others(p)
    BY <1>3, GoMoves DEF Step, Others
  <2>2. \A g \in FolderIds : IsFolder(g) /\ g # at[p].folder => folders'[g] = folders[g]
    BY <1>1, <1>3 DEF Dropped, TreeOK
  <2>. SUFFICES ASSUME NEW d \in FileIds, LiveFile(d)', Deleted(files[d].folder)', ~files'[d].astray
                PROVE  \E q \in Proc : Is(q, "empty")' /\ at'[q].folder = files'[d].folder
    BY DEF DeletedIsEmptied
  <2>3. /\ LiveFile(d) /\ ~files[d].astray /\ files'[d] = files[d]
        /\ files[d].folder # None /\ files[d].folder \in FolderIds /\ IsFolder(files[d].folder)
    BY <1>1 DEF Deleted, TreeOK, LiveFile, IsFile, IsFolder
  <2>4. CASE files[d].folder = at[p].folder
    BY <2>1, <2>3, <2>4 DEF Is
  <2>5. CASE files[d].folder # at[p].folder
    <3>1. Deleted(files[d].folder)
      BY <2>2, <2>3, <2>5 DEF Deleted
    <3>2. PICK q \in Proc : Is(q, "empty") /\ at[q].folder = files[d].folder
      BY <2>3, <3>1 DEF DeletedIsEmptied
    <3>3. Is(q, "empty")' /\ at'[q].folder = files'[d].folder
      BY <2>1, <2>3, <3>2, <1>1 DEF Others, Is
    <3>. QED
      BY <3>3
  <2>. QED
    BY <2>4, <2>5
<1>. QED
  BY <1>2, <1>3 DEF Drop

LEMMA EmptyEmptied ==
  ASSUME Shape, DeletedIsEmptied, NEW p \in Proc, Empty(p)
  PROVE  DeletedIsEmptied'
<1>1. Others(p) /\ TreeOK /\ UNCHANGED folders
  BY Parts, DoneStep DEF Empty, Keep
<1>2. PICK b \in BOOLEAN : files' = Left(at[p].folder, b)
  BY DEF Empty, Emptied
<1>. SUFFICES ASSUME NEW d \in FileIds, LiveFile(d)', Deleted(files[d].folder)', ~files'[d].astray
              PROVE  \E q \in Proc : Is(q, "empty")' /\ at'[q].folder = files'[d].folder
  BY DEF DeletedIsEmptied
<1>3. CASE LiveFile(d) /\ files[d].folder = at[p].folder
  <2>1. files[d] \in FileRow
    BY <1>1, <1>3 DEF TreeOK, LiveFile, IsFile
  <2>2. files'[d] = [files[d] EXCEPT !.live = b, !.astray = b]
    BY <1>2, <1>3 DEF Left
  <2>. QED
    BY <2>1, <2>2 DEF LiveFile, FileRow
<1>4. CASE ~(LiveFile(d) /\ files[d].folder = at[p].folder)
  <2>1. files'[d] = files[d]
    BY <1>2, <1>4 DEF Left
  <2>2. LiveFile(d) /\ ~files[d].astray /\ Deleted(files[d].folder)
    BY <1>1, <2>1 DEF LiveFile, IsFile, Deleted
  <2>3. PICK q \in Proc : Is(q, "empty") /\ at[q].folder = files[d].folder
    BY <2>2 DEF DeletedIsEmptied
  <2>4. Is(q, "empty")' /\ at'[q].folder = files'[d].folder
    BY <1>1, <1>4, <2>1, <2>2, <2>3 DEF Others, Is
  <2>. QED
    BY <2>4
<1>. QED
  BY <1>3, <1>4

(* A row written anew is astray if its folder is gone.                     *)
LEMMA PutEmptied ==
  ASSUME Shape, DeletedIsEmptied, NEW p \in Proc, Others(p), pc[p] # "empty", UNCHANGED folders,
         \A d \in FileIds : LiveFile(d)' =>
           \/ files'[d].astray = Deleted(files'[d].folder)
           \/ /\ LiveFile(d) /\ files'[d].astray = files[d].astray
              /\ files'[d].folder = files[d].folder
  PROVE  DeletedIsEmptied'
<1>. SUFFICES ASSUME NEW d \in FileIds, LiveFile(d)', Deleted(files[d].folder)', ~files'[d].astray
              PROVE  \E q \in Proc : Is(q, "empty")' /\ at'[q].folder = files'[d].folder
  BY DEF DeletedIsEmptied
<1>1. Deleted(files'[d].folder)
  BY DEF Deleted
<1>2. /\ LiveFile(d) /\ files'[d].astray = files[d].astray
      /\ files'[d].folder = files[d].folder
  BY <1>1
<1>3. PICK q \in Proc : Is(q, "empty") /\ at[q].folder = files[d].folder
  BY <1>1, <1>2 DEF DeletedIsEmptied
<1>4. Is(q, "empty")' /\ at'[q].folder = files'[d].folder
  BY <1>2, <1>3 DEF Others, Is
<1>. QED
  BY <1>4

(* What the statements about files write.                                  *)
LEMMA InsertRow ==
  ASSUME Shape, NEW p \in Proc, Insert(p)
  PROVE  /\ UNCHANGED folders /\ Others(p) /\ pc[p] # "empty"
         /\ \A d \in FileIds : LiveFile(d)' =>
              \/ LiveFile(d) /\ files'[d] = files[d]
              \/ /\ files'[d].folder = at[p].folder
                 /\ files'[d].astray = Deleted(at[p].folder)
                 /\ files'[d].why = "folder" =>
                      IsFolder(at[p].folder) /\ folders[at[p].folder].public
<1>1. TreeOK /\ CallOK(p) /\ pc[p] = "insert"
  BY Parts DEF Insert, Is
<1>2. UNCHANGED folders
  BY DEF Insert, Keep
<1>3. Others(p)
  <2>1. \E l, x : Go(p, l, x)
    BY DEF Insert, Done
  <2>. QED
    BY <2>1, GoMoves DEF Others
<1>4. CASE UNCHANGED files
  BY <1>1, <1>2, <1>3, <1>4 DEF LiveFile, IsFile
<1>5. CASE FileRoom /\ ~UNCHANGED files
  <2>. DEFINE c == at[p]
              on == c.op = "session" /\ c.on
              r == [owner |-> c.user, folder |-> c.folder, public |-> on, live |-> TRUE,
                    status |-> IF c.op = "api" THEN "PENDING_SCAN" ELSE "UPLOADING",
                    why |-> IF on THEN Because(c.folder, on) ELSE "no", astray |-> Deleted(c.folder)]
  <2>1. PICK n \in FileIds : n = NewFile
    BY <1>5, NewFileType
  <2>2. files' = [files EXCEPT ![n] = r]
    BY <1>5, <2>1 DEF Insert
  <2>3. r.folder = c.folder /\ r.astray = Deleted(c.folder)
        /\ r.why = IF on THEN Because(c.folder, on) ELSE "no"
    OBVIOUS
  <2>4. r.why = "folder" => IsFolder(c.folder) /\ folders[c.folder].public
    BY <2>3, <1>1 DEF CallOK, Because
  <2>. HIDE DEF r
  <2>5. \A d \in FileIds : files'[d] = IF d = n THEN r ELSE files[d]
    BY <1>1, <2>2 DEF TreeOK
  <2>6. \A d \in FileIds : d # n /\ LiveFile(d)' => LiveFile(d) /\ files'[d] = files[d]
    BY <2>5 DEF LiveFile, IsFile
  <2>. QED
    BY <1>1, <1>2, <1>3, <2>3, <2>4, <2>5, <2>6
<1>. QED
  BY <1>4, <1>5 DEF Insert

LEMMA CopyRow ==
  ASSUME Shape, NEW p \in Proc, Copy(p)
  PROVE  /\ UNCHANGED folders /\ Others(p) /\ pc[p] # "empty"
         /\ \A d \in FileIds : LiveFile(d)' =>
              \/ LiveFile(d) /\ files'[d] = files[d]
              \/ /\ files'[d].folder = at[p].folder
                 /\ files'[d].astray = Deleted(at[p].folder)
                 /\ files'[d].why = "no"
<1>1. TreeOK /\ pc[p] = "copy" /\ UNCHANGED folders
  BY Parts DEF Copy, Is, Keep
<1>2. Others(p)
  <2>1. \E l, x : Go(p, l, x)
    BY DEF Copy, Done
  <2>. QED
    BY <2>1, GoMoves DEF Others
<1>3. CASE UNCHANGED files
  BY <1>1, <1>2, <1>3 DEF LiveFile, IsFile
<1>4. CASE FileRoom /\ ~UNCHANGED files
  <2>. DEFINE r == [owner |-> at[p].user, folder |-> at[p].folder, status |-> "READY",
                    public |-> FALSE, live |-> TRUE, why |-> "no",
                    astray |-> Deleted(at[p].folder)]
  <2>1. PICK n \in FileIds : n = NewFile
    BY <1>4, NewFileType
  <2>2. files' = [files EXCEPT ![n] = r]
    BY <1>4, <2>1 DEF Copy
  <2>3. r.folder = at[p].folder /\ r.astray = Deleted(at[p].folder) /\ r.why = "no"
    OBVIOUS
  <2>. HIDE DEF r
  <2>4. \A d \in FileIds : files'[d] = IF d = n THEN r ELSE files[d]
    BY <1>1, <2>2 DEF TreeOK
  <2>5. \A d \in FileIds : d # n /\ LiveFile(d)' => LiveFile(d) /\ files'[d] = files[d]
    BY <2>4 DEF LiveFile, IsFile
  <2>. QED
    BY <1>1, <1>2, <2>3, <2>4, <2>5
<1>. QED
  BY <1>3, <1>4 DEF Copy

LEMMA WriteRow ==
  ASSUME Shape, NEW p \in Proc, WriteFile(p)
  PROVE  /\ UNCHANGED folders /\ Others(p) /\ pc[p] # "empty"
         /\ \A d \in FileIds : LiveFile(d)' =>
              /\ LiveFile(d)
              /\ \/ files'[d].folder = files[d].folder /\ files'[d].astray = files[d].astray
                 \/ files'[d].astray = Deleted(files'[d].folder)
              /\ files'[d].why = "folder" =>
                   /\ files'[d].folder = files[d].folder /\ files'[d].public = files[d].public
                   /\ files[d].why = "folder"
<1>1. /\ TreeOK /\ CallOK(p) /\ pc[p] \in {"mark", "refile", "erase"}
      /\ UNCHANGED folders /\ Others(p) /\ NoRow \notin FileRow
  BY Parts, DoneStep, StartAssumption DEF WriteFile, Keep
<1>2. CASE UNCHANGED files
  BY <1>1, <1>2 DEF LiveFile, IsFile
<1>3. CASE files' = [files EXCEPT ![at[p].file] = Written(pc[p], at[p], @)]
  <2>1. PICK n \in FileIds : n = at[p].file /\ IsFile(n) /\ files[n] \in FileRow
    BY <1>1 DEF CallOK, IsFile, TreeOK
  <2>. DEFINE r == Written(pc[p], at[p], files[n])
  <2>2. \A d \in FileIds : files'[d] = IF d = n THEN r ELSE files[d]
    BY <1>1, <1>3, <2>1 DEF TreeOK
  <2>3. /\ r.live => files[n].live
        /\ \/ r.folder = files[n].folder /\ r.astray = files[n].astray
           \/ r.astray = Deleted(r.folder)
        /\ r.why = "folder" => /\ r.folder = files[n].folder /\ r.public = files[n].public
                               /\ files[n].why = "folder"
    <3>1. CASE pc[p] = "mark"
      <4>1. r = [files[n] EXCEPT !.public = at[p].on, !.why = IF at[p].on THEN "own" ELSE "no"]
        BY <3>1 DEF Written
      <4>. HIDE DEF r
      <4>. QED
        BY <4>1, <2>1 DEF FileRow
    <3>2. CASE pc[p] = "refile"
      <4>1. r = [files[n] EXCEPT !.folder = at[p].to, !.astray = Deleted(at[p].to),
                                 !.why = IF files[n].why = "folder" THEN "stray" ELSE files[n].why]
        BY <3>2 DEF Written
      <4>2. r.folder = at[p].to /\ r.astray = Deleted(at[p].to) /\ r.live = files[n].live
            /\ r.why # "folder"
        BY <4>1, <2>1 DEF FileRow
      <4>. HIDE DEF r
      <4>. QED
        BY <4>2
    <3>3. CASE pc[p] = "erase"
      <4>1. r = [files[n] EXCEPT !.live = FALSE]
        BY <3>3 DEF Written
      <4>. HIDE DEF r
      <4>. QED
        BY <4>1, <2>1 DEF FileRow
    <3>. QED
      BY <1>1, <3>1, <3>2, <3>3
  <2>. HIDE DEF r
  <2>4. \A d \in FileIds : d # n /\ LiveFile(d)' => LiveFile(d) /\ files'[d] = files[d]
    BY <2>2 DEF LiveFile, IsFile
  <2>5. LiveFile(n)' => LiveFile(n)
    BY <2>1, <2>2, <2>3 DEF LiveFile, IsFile
  <2>6. \A d \in FileIds : LiveFile(d)' =>
              /\ LiveFile(d)
              /\ \/ files'[d].folder = files[d].folder /\ files'[d].astray = files[d].astray
                 \/ files'[d].astray = Deleted(files'[d].folder)
              /\ files'[d].why = "folder" =>
                   /\ files'[d].folder = files[d].folder /\ files'[d].public = files[d].public
                   /\ files[d].why = "folder"
    BY <2>2, <2>3, <2>4, <2>5
  <2>. QED
    BY <1>1, <2>6
<1>. QED
  BY <1>2, <1>3 DEF WriteFile

LEMMA ScannedRow ==
  ASSUME Shape, NEW n \in FileIds, Scanned(n)
  PROVE  /\ UNCHANGED <<folders, pc, at>>
         /\ \A d \in FileIds : LiveFile(d)' =>
              /\ LiveFile(d) /\ files'[d].folder = files[d].folder
              /\ files'[d].astray = files[d].astray /\ files'[d].why = files[d].why
              /\ files'[d].public = files[d].public
<1>1. PICK to \in {"PENDING_SCAN", "READY", "BLOCKED"} :
        files' = [files EXCEPT ![n].status = to]
  BY DEF Scanned
<1>2. /\ UNCHANGED <<folders, pc, at>> /\ TreeOK /\ IsFile(n) /\ files[n] \in FileRow
  BY Parts DEF Scanned, Keep, TreeOK, IsFile
<1>. QED
  BY <1>1, <1>2 DEF TreeOK, LiveFile, IsFile, FileRow

LEMMA CrashRow ==
  ASSUME Shape, Crash
  PROVE  /\ UNCHANGED folders
         /\ \A d \in FileIds : LiveFile(d)' =>
              /\ LiveFile(d) /\ files'[d].folder = files[d].folder
              /\ files[d].astray \/ Covered(files[d].folder) => files'[d].astray
              /\ files'[d].public = files[d].public /\ files'[d].why = files[d].why
<1>1. TreeOK /\ UNCHANGED folders
  BY Parts DEF Crash, Keep
<1>. SUFFICES ASSUME NEW d \in FileIds, LiveFile(d)'
              PROVE  /\ LiveFile(d) /\ files'[d].folder = files[d].folder
                     /\ files[d].astray \/ Covered(files[d].folder) => files'[d].astray
                     /\ files'[d].public = files[d].public /\ files'[d].why = files[d].why
  BY <1>1
<1>2. CASE LiveFile(d) /\ Covered(files[d].folder)
  <2>1. files'[d] = [files[d] EXCEPT !.astray = TRUE] /\ files[d] \in FileRow
    BY <1>1, <1>2 DEF Crash, TreeOK, LiveFile, IsFile, Covered
  <2>. QED
    BY <1>2, <2>1 DEF FileRow
<1>3. CASE ~(LiveFile(d) /\ Covered(files[d].folder))
  <2>1. files'[d] = files[d]
    BY <1>3 DEF Crash, Covered
  <2>. QED
    BY <1>3, <2>1 DEF LiveFile, IsFile
<1>. QED
  BY <1>2, <1>3

LEMMA NextEmptied ==
  ASSUME Shape, DeletedIsEmptied, [Next]_vars
  PROVE  DeletedIsEmptied'
<1>1. ASSUME NEW p \in Proc, Request(p)
      PROVE  DeletedIsEmptied'
  BY <1>1, RequestStep, SameEmptied
<1>2. ASSUME NEW p \in Proc, Quiet(p)
      PROVE  DeletedIsEmptied'
  BY <1>2, QuietStep, SameEmptied
<1>3. ASSUME NEW p \in Proc, Insert(p)
      PROVE  DeletedIsEmptied'
  BY <1>3, InsertRow, PutEmptied
<1>4. ASSUME NEW p \in Proc, Copy(p)
      PROVE  DeletedIsEmptied'
  BY <1>4, CopyRow, PutEmptied
<1>5. ASSUME NEW p \in Proc, WriteFile(p)
      PROVE  DeletedIsEmptied'
  BY <1>5, WriteRow, PutEmptied
<1>6. ASSUME NEW d \in FileIds, Scanned(d)
      PROVE  DeletedIsEmptied'
  BY <1>6, ScannedRow, EmptiedSteady DEF Is
<1>7. ASSUME Crash
      PROVE  DeletedIsEmptied'
  <2>. SUFFICES ASSUME NEW d \in FileIds, LiveFile(d)', Deleted(files[d].folder)'
                PROVE  files'[d].astray
    BY DEF DeletedIsEmptied
  <2>1. LiveFile(d) /\ Deleted(files[d].folder)
        /\ (files[d].astray \/ Covered(files[d].folder) => files'[d].astray)
    BY <1>7, CrashRow DEF Deleted
  <2>. QED
    BY <2>1 DEF DeletedIsEmptied, Covered
<1>8. ASSUME UNCHANGED vars
      PROVE  DeletedIsEmptied'
  BY <1>8 DEF vars, DeletedIsEmptied, LiveFile, IsFile, Deleted, Is
<1>9. ASSUME NEW p \in Proc, Continue(p)
      PROVE  DeletedIsEmptied'
  BY <1>2, <1>3, <1>4, <1>5, <1>9, CreateEmptied, ColumnsEmptied, SyncEmptied,
     DropEmptied, EmptyEmptied
  DEF Continue, Quiet
<1>. QED
  BY <1>1, <1>6, <1>7, <1>8, <1>9 DEF Next, Background

(* A deleted folder holds no live file but those put there by a race.      *)
THEOREM DeletedStaysEmpty == Spec => []DeletedIsEmptied
<1>1. Init => DeletedIsEmptied
  <2>. SUFFICES ASSUME Init, NEW d \in FileIds, LiveFile(d), Deleted(files[d].folder)
                PROVE  files[d].astray
    BY DEF DeletedIsEmptied
  <2>1. PICK s \in Start :
          /\ folders = [g \in FolderIds |-> IF g \in DOMAIN s.folders THEN s.folders[g] ELSE NoRow]
          /\ files = [f \in FileIds |-> IF f \in DOMAIN s.files THEN s.files[f] ELSE NoRow]
    BY DEF Init
  <2>2. Reached(s)
    BY StartAssumption
  <2>3. DOMAIN s.folders \subseteq FolderIds
    BY <2>2, TreeBounds DEF Reached, FolderIds
  <2>4. d \in DOMAIN s.files /\ files[d] = s.files[d]
    BY <2>1 DEF LiveFile, IsFile
  <2>5. files[d].folder \in DOMAIN s.folders /\ (files[d].live => files[d].astray \/ s.folders[files[d].folder].live)
    BY <2>2, <2>4 DEF Reached, Deleted
  <2>6. folders[files[d].folder] = s.folders[files[d].folder]
    BY <2>1, <2>3, <2>5
  <2>. QED
    BY <2>5, <2>6 DEF LiveFile, Deleted
<1>2. Shape /\ DeletedIsEmptied /\ [Next]_vars => Shape' /\ DeletedIsEmptied'
  BY NextShape, NextEmptied
<1>. QED
  BY <1>1, <1>2, InitShape, PTL DEF Spec

-----------------------------------------------------------------------------
(* A folder made private takes its files along.                            *)

LEMMA HiddenSteady ==
  ASSUME Shape, UnsharedIsHidden,
         \A d \in FileIds : LiveFile(d)' /\ files'[d].public /\ files'[d].why = "folder" =>
           \/ /\ LiveFile(d) /\ files[d].public /\ files[d].why = "folder"
              /\ files'[d].folder = files[d].folder
           \/ folders'[files'[d].folder].public,
         \A g \in FolderIds : IsFolder(g) /\ (folders[g].public \/ folders[g].unsynced) =>
           folders'[g].public \/ folders'[g].unsynced
  PROVE  UnsharedIsHidden'
<1>1. TreeOK
  BY Parts
<1>. SUFFICES ASSUME NEW d \in FileIds, LiveFile(d)', files'[d].public, files'[d].why = "folder"
              PROVE  folders'[files'[d].folder].public \/ folders'[files'[d].folder].unsynced
  BY DEF UnsharedIsHidden
<1>2. CASE /\ LiveFile(d) /\ files[d].public /\ files[d].why = "folder"
           /\ files'[d].folder = files[d].folder
  <2>1. IsFolder(files[d].folder) /\ files[d].folder \in FolderIds
    BY <1>1, <1>2 DEF TreeOK, RowOK, LiveFile, IsFolder
  <2>. QED
    BY <1>2, <2>1 DEF UnsharedIsHidden
<1>. QED
  BY <1>2

LEMMA SameHidden ==
  ASSUME UnsharedIsHidden, UNCHANGED tree
  PROVE  UnsharedIsHidden'
BY DEF UnsharedIsHidden, tree, LiveFile, IsFile

LEMMA FoldersHidden ==
  ASSUME Shape, UnsharedIsHidden, NEW p \in Proc,
         Create(p) \/ UpdateParent(p) \/ Rename(p) \/ UpdatePublicStatus(p) \/ Drop(p)
  PROVE  UnsharedIsHidden'
<1>1. UNCHANGED files /\ TreeOK
  BY Parts DEF Create, UpdateParent, Rename, UpdatePublicStatus, Drop, Keep
<1>2. \A d \in FileIds : LiveFile(d)' = LiveFile(d) /\ files'[d] = files[d]
  BY <1>1 DEF LiveFile, IsFile
<1>3. \A g \in FolderIds : IsFolder(g) /\ (folders[g].public \/ folders[g].unsynced) =>
        folders'[g].public \/ folders'[g].unsynced
  <2>. DEFINE k == at[p].folder
  <2>1. CASE UNCHANGED folders
    BY <2>1
  <2>2. CASE folders' = [folders EXCEPT ![k].parent = at[p].to, ![k].made = FALSE]
    BY <2>2, <1>1 DEF TreeOK, FolderRow, IsFolder
  <2>3. CASE folders' = [folders EXCEPT ![k].named = at[p].on, ![k].made = FALSE]
    BY <2>3, <1>1 DEF TreeOK, FolderRow, IsFolder
  <2>4. CASE folders' = [folders EXCEPT ![k].public = at[p].on, ![k].unsynced = TRUE]
    BY <2>4, <1>1 DEF TreeOK, FolderRow, IsFolder
  <2>5. CASE folders' = [folders EXCEPT ![k].live = FALSE]
    BY <2>5, <1>1 DEF TreeOK, FolderRow, IsFolder
  <2>6. CASE FolderRoom /\ \E r : folders' = [folders EXCEPT ![NewFolder] = r]
    BY <2>6, <1>1, NewFolderType DEF TreeOK
  <2>. QED
    BY <2>1, <2>2, <2>3, <2>4, <2>5, <2>6
    DEF Create, UpdateParent, Rename, UpdatePublicStatus, Drop, Dropped
<1>. QED
  BY <1>2, <1>3, HiddenSteady

LEMMA SyncHidden ==
  ASSUME Shape, UnsharedIsHidden, NEW p \in Proc, Sync(p)
  PROVE  UnsharedIsHidden'
<1>. DEFINE g == at[p].folder
            on == at[p].on
<1>1. TreeOK
  BY Parts
<1>2. CASE UNCHANGED tree
  BY <1>2, SameHidden
<1>3. CASE files' = Synced(g, on) /\ folders' = [folders EXCEPT ![g].unsynced = FALSE]
  <2>1. \A k \in FolderIds : IsFolder(k) =>
          /\ folders'[k].public = folders[k].public
          /\ k # g => folders'[k].unsynced = folders[k].unsynced
    BY <1>1, <1>3 DEF TreeOK, FolderRow, IsFolder
  <2>. SUFFICES ASSUME NEW d \in FileIds, LiveFile(d)', files'[d].public, files'[d].why = "folder"
                PROVE  folders'[files'[d].folder].public \/ folders'[files'[d].folder].unsynced
    BY DEF UnsharedIsHidden
  <2>2. CASE LiveFile(d) /\ files[d].folder = g
    <3>1. files[d] \in FileRow /\ (g = None \/ IsFolder(g))
      BY <1>1, <2>2 DEF TreeOK, LiveFile, IsFile
    <3>2. files'[d] = [files[d] EXCEPT !.public = on, !.why = Because(g, on)]
      BY <1>3, <2>2 DEF Synced
    <3>3. files'[d].folder = g /\ files'[d].public = on /\ files'[d].why = Because(g, on)
      BY <2>2, <3>1, <3>2 DEF FileRow
    <3>4. folders[g].public /\ g # None
      <4>1. folders[g].public
        BY <3>3 DEF Because
      <4>2. files'[d].folder # None
        <5>1. pc[p] = "sync" /\ CallOK(p)
          BY Parts DEF Sync, Is
        <5>2. IsFolder(g) /\ None \notin FolderIds
          BY <5>1, TreeBounds DEF CallOK, FolderIds
        <5>. QED
          BY <3>3, <5>2 DEF IsFolder
      <4>. QED
        BY <3>3, <4>1, <4>2
    <3>. QED
      BY <2>1, <3>1, <3>3, <3>4 DEF IsFolder
  <2>3. CASE ~(LiveFile(d) /\ files[d].folder = g)
    <3>1. files'[d] = files[d]
      BY <1>3, <2>3 DEF Synced
    <3>2. LiveFile(d) /\ files[d].folder # g
      BY <2>3, <3>1 DEF LiveFile, IsFile
    <3>3. IsFolder(files[d].folder) /\ files[d].folder \in FolderIds
      BY <1>1, <3>1, <3>2 DEF TreeOK, RowOK, LiveFile, IsFolder
    <3>. QED
      BY <2>1, <3>1, <3>2, <3>3 DEF UnsharedIsHidden
  <2>. QED
    BY <2>2, <2>3
<1>. QED
  BY <1>2, <1>3 DEF Sync

LEMMA EmptyHidden ==
  ASSUME Shape, UnsharedIsHidden, NEW p \in Proc, Empty(p)
  PROVE  UnsharedIsHidden'
<1>1. UNCHANGED folders /\ TreeOK
  BY Parts DEF Empty, Keep
<1>2. PICK b \in BOOLEAN : files' = Left(at[p].folder, b)
  BY DEF Empty, Emptied
<1>3. \A d \in FileIds : LiveFile(d)' =>
        /\ LiveFile(d) /\ files'[d].public = files[d].public /\ files'[d].why = files[d].why
        /\ files'[d].folder = files[d].folder
  BY <1>1, <1>2 DEF Left, LiveFile, IsFile, TreeOK, FileRow
<1>. QED
  BY <1>1, <1>3, HiddenSteady

LEMMA NextHidden ==
  ASSUME Shape, UnsharedIsHidden, [Next]_vars
  PROVE  UnsharedIsHidden'
<1>1. ASSUME NEW p \in Proc, Request(p)
      PROVE  UnsharedIsHidden'
  BY <1>1, RequestStep, SameHidden
<1>2. ASSUME NEW p \in Proc, Quiet(p)
      PROVE  UnsharedIsHidden'
  BY <1>2, QuietStep, SameHidden
<1>3. ASSUME NEW p \in Proc, Insert(p)
      PROVE  UnsharedIsHidden'
  BY <1>3, InsertRow, HiddenSteady
<1>4. ASSUME NEW p \in Proc, Copy(p)
      PROVE  UnsharedIsHidden'
  BY <1>4, CopyRow, HiddenSteady
<1>5. ASSUME NEW p \in Proc, WriteFile(p)
      PROVE  UnsharedIsHidden'
  BY <1>5, WriteRow, HiddenSteady
<1>6. ASSUME NEW d \in FileIds, Scanned(d)
      PROVE  UnsharedIsHidden'
  BY <1>6, ScannedRow, HiddenSteady
<1>7. ASSUME Crash
      PROVE  UnsharedIsHidden'
  BY <1>7, CrashRow, HiddenSteady
<1>8. ASSUME UNCHANGED vars
      PROVE  UnsharedIsHidden'
  BY <1>8, SameHidden DEF vars, tree
<1>9. ASSUME NEW p \in Proc, Continue(p)
      PROVE  UnsharedIsHidden'
  BY <1>2, <1>3, <1>4, <1>5, <1>9, FoldersHidden, SyncHidden, EmptyHidden
  DEF Continue, Quiet
<1>. QED
  BY <1>1, <1>6, <1>7, <1>8, <1>9 DEF Next, Background

-----------------------------------------------------------------------------
(* The verdict of a walk.                                                  *)

Answering == {"walk", "served", "refused"}

LEMMA WatchStep ==
  ASSUME Shape, Watch, NEW p \in Proc, pc'[p] \in Answering
  PROVE  /\ watch'[p].open = (watch[p].open \/ at'[p].file \in Shown')
         /\ watch'[p].shut = (watch[p].shut \/ at'[p].file \notin Shown')
         /\ watch'[p].moved = (watch[p].moved \/ (pc[p] = "walk" /\ Links' # Links))
         /\ watch'[p].changed = (watch[p].changed \/ (pc[p] = "walk" /\ tree' # tree))
BY DEF Watch, Answering

(* While no link changes, neither does what the walk has climbed.          *)
LEMMA SameLinks ==
  ASSUME Links' = Links
  PROVE  /\ \A g \in FolderIds : LiveFolder(g) =>
              LiveFolder(g)' /\ folders'[g].parent = folders[g].parent
         /\ \A d \in FileIds : LiveFile(d) =>
              LiveFile(d)' /\ files'[d].folder = files[d].folder
<1>. DEFINE F == [g \in FolderIds |-> IF IsFolder(g) THEN <<folders[g].parent, folders[g].live>> ELSE <<>>]
            D == [d \in FileIds |-> IF IsFile(d) THEN <<files[d].folder, files[d].live>> ELSE <<>>]
<1>1. F' = F /\ D' = D
  BY DEF Links
<1>2. ASSUME NEW a, NEW b
      PROVE  <<a, b>> # <<>>
  OBVIOUS
<1>3. ASSUME NEW g \in FolderIds, LiveFolder(g)
      PROVE  LiveFolder(g)' /\ folders'[g].parent = folders[g].parent
  <2>1. F'[g] = <<folders[g].parent, folders[g].live>>
    BY <1>1, <1>3 DEF LiveFolder
  <2>2. F'[g] = IF IsFolder(g)' THEN <<folders'[g].parent, folders'[g].live>> ELSE <<>>
    OBVIOUS
  <2>. HIDE DEF F
  <2>3. IsFolder(g)'
    BY <1>2, <2>1, <2>2
  <2>4. <<folders'[g].parent, folders'[g].live>> = <<folders[g].parent, folders[g].live>>
    BY <2>1, <2>2, <2>3
  <2>5. folders'[g].parent = folders[g].parent /\ folders'[g].live = folders[g].live
    BY <2>4
  <2>. QED
    BY <1>3, <2>3, <2>5 DEF LiveFolder
<1>4. ASSUME NEW d \in FileIds, LiveFile(d)
      PROVE  LiveFile(d)' /\ files'[d].folder = files[d].folder
  <2>1. D'[d] = <<files[d].folder, files[d].live>>
    BY <1>1, <1>4 DEF LiveFile
  <2>2. D'[d] = IF IsFile(d)' THEN <<files'[d].folder, files'[d].live>> ELSE <<>>
    OBVIOUS
  <2>. HIDE DEF D
  <2>3. IsFile(d)'
    BY <1>2, <2>1, <2>2
  <2>4. <<files'[d].folder, files'[d].live>> = <<files[d].folder, files[d].live>>
    BY <2>1, <2>2, <2>3
  <2>5. files'[d].folder = files[d].folder /\ files'[d].live = files[d].live
    BY <2>4
  <2>. QED
    BY <1>4, <2>3, <2>5 DEF LiveFile
<1>. QED
  BY <1>3, <1>4

LEMMA SameClimbed ==
  ASSUME Links' = Links, NEW d \in FileIds, NEW n \in Nat, NEW g, LiveFile(d), Climbed(d, n, g)
  PROVE  Climbed(d, n, g)'
<1>1. PICK way \in [0..n -> FolderIds] :
        /\ way[0] = files[d].folder /\ way[n] = g
        /\ \A k \in 0..(n - 1) : LiveFolder(way[k]) /\ folders[way[k]].parent = way[k + 1]
  BY DEF Climbed
<1>2. way[0] = files'[d].folder
  BY <1>1, SameLinks
<1>3. ASSUME NEW k \in 0..(n - 1)
      PROVE  LiveFolder(way[k])' /\ folders'[way[k]].parent = way[k + 1]
  <2>1. way[k] \in FolderIds
    BY <1>1
  <2>. QED
    BY <1>1, <2>1, SameLinks
<1>. QED
  BY <1>1, <1>2, <1>3 DEF Climbed

LEMMA SameTree ==
  ASSUME UNCHANGED tree
  PROVE  /\ \A g, n : Above(g, n)' = Above(g, n)
         /\ \A d, n, g : Passed(d, n, g)' <=> Passed(d, n, g)
         /\ \A d, n, g : Climbed(d, n, g)' <=> Climbed(d, n, g)
         /\ \A d : (Reachable(d)' <=> Reachable(d)) /\ (d \in Shown' <=> d \in Shown)
<1>1. \A g, n : Above(g, n)' = Above(g, n)
  BY DEF tree, Above, LiveFolder, IsFolder
<1>2. \A d, n, g : Passed(d, n, g)' <=> Passed(d, n, g)
  BY <1>1 DEF tree, Passed
<1>3. \A d, n, g : Climbed(d, n, g)' <=> Climbed(d, n, g)
  BY DEF tree, Climbed, LiveFolder, IsFolder
<1>4. \A d : Reachable(d)' <=> Reachable(d)
  BY <1>1 DEF tree, Reachable, SharedWithin, LiveFile, IsFile
<1>. QED
  BY <1>1, <1>2, <1>3, <1>4 DEF Shown

(* What others do does not spoil the walk of p.                            *)
LEMMA WalkStays ==
  ASSUME Shape, Watch, NEW p \in Proc, pc'[p] = pc[p], at'[p] = at[p], WalkOK(p), Verdict(p)
  PROVE  WalkOK(p)' /\ Verdict(p)'
<1>1. CASE pc[p] = "walk"
  <2>1. CallOK(p) /\ at[p] \in CallRow
    BY Parts
  <2>2. PICK d, n, g : d \in FileIds /\ n \in Nat /\ d = at[p].file /\ n = at[p].n /\ g = at[p].folder
    BY <1>1, <2>1 DEF CallOK, CallRow, IsFile
  <2>3. n < WalkDepth
    BY <1>1, <2>2 DEF WalkOK
  <2>4. ~watch'[p].moved => LiveFile(d)' /\ files'[d].folder # None /\ Climbed(d, n, g)'
    <3>. SUFFICES ASSUME ~watch'[p].moved
                  PROVE  LiveFile(d)' /\ files'[d].folder # None /\ Climbed(d, n, g)'
      OBVIOUS
    <3>1. ~watch[p].moved /\ Links' = Links
      BY <1>1, WatchStep DEF Answering
    <3>2. LiveFile(d) /\ files[d].folder # None /\ Climbed(d, n, g)
      BY <1>1, <2>2, <3>1 DEF WalkOK
    <3>. QED
      BY <3>1, <3>2, <2>2, SameLinks, SameClimbed
  <2>5. ~watch'[p].changed => ~files'[d].public /\ files'[d].folder # None /\ Passed(d, n, g)'
    <3>. SUFFICES ASSUME ~watch'[p].changed
                  PROVE  ~files'[d].public /\ files'[d].folder # None /\ Passed(d, n, g)'
      OBVIOUS
    <3>1. ~watch[p].changed /\ UNCHANGED tree
      BY <1>1, WatchStep DEF Answering
    <3>2. ~files[d].public /\ files[d].folder # None /\ Passed(d, n, g)
      BY <1>1, <2>2, <3>1 DEF WalkOK
    <3>. QED
      BY <3>1, <3>2, SameTree DEF tree
  <2>6. at'[p].file = d /\ at'[p].n = n /\ at'[p].folder = g
    BY <2>2
  <2>. QED
    BY <1>1, <2>3, <2>4, <2>5, <2>6 DEF WalkOK, Verdict, Is
<1>2. CASE pc[p] \in {"served", "refused"}
  BY <1>2, WatchStep DEF WalkOK, Verdict, Is, Answering
<1>3. CASE pc[p] \notin Answering
  BY <1>3 DEF WalkOK, Verdict, Is, Answering
<1>. QED
  BY <1>1, <1>2, <1>3 DEF Answering

LEMMA DownloadPublicWalk ==
  ASSUME Shape, NEW p \in Proc, DownloadPublic(p)
  PROVE  WalkOK(p)' /\ Verdict(p)'
<1>1. PICK d \in FileIds :
        /\ LiveFile(d)
        /\ Go(p, IF files[d].public THEN "served"
                 ELSE IF files[d].folder = None THEN "refused" ELSE "walk",
              Call("public", None, files[d].folder, d))
  BY DEF DownloadPublic, Arrives
<1>2. /\ pc'[p] = IF files[d].public THEN "served"
                  ELSE IF files[d].folder = None THEN "refused" ELSE "walk"
      /\ at'[p] = Call("public", None, files[d].folder, d)
  BY <1>1, GoMoves
<1>3. at'[p].file = d /\ at'[p].folder = files[d].folder /\ at'[p].n = 0
  BY <1>2 DEF Call, NoCall
<1>4. UNCHANGED tree /\ Watch /\ TreeOK
  BY Parts DEF DownloadPublic, Keep
<1>5. CASE files[d].public
  <2>1. d \in Shown'
    BY <1>1, <1>4, <1>5, SameTree DEF Shown, Reachable
  <2>. QED
    BY <1>2, <1>3, <1>4, <1>5, <2>1, WatchStep DEF WalkOK, Verdict, Is, Answering
<1>6. CASE ~files[d].public /\ files[d].folder = None
  <2>1. d \notin Shown'
    BY <1>4, <1>6, SameTree DEF Shown, Reachable
  <2>. QED
    BY <1>2, <1>3, <1>4, <1>6, <2>1, WatchStep DEF WalkOK, Verdict, Is, Answering
<1>7. CASE ~files[d].public /\ files[d].folder # None
  <2>1. PICK g \in FolderIds : g = files[d].folder
    BY <1>1, <1>4, <1>7 DEF TreeOK, LiveFile, IsFolder
  <2>2. Climbed(d, 0, g)
    <3>. DEFINE way == [k \in 0..0 |-> g]
    <3>1. way \in [0..0 -> FolderIds] /\ way[0] = g
      OBVIOUS
    <3>2. 0..(0 - 1) = {}
      OBVIOUS
    <3>. HIDE DEF way
    <3>. QED
      BY <2>1, <3>1, <3>2 DEF Climbed
  <2>3. Passed(d, 0, g)
    BY <2>1 DEF Passed, Above
  <2>4. Climbed(d, 0, g)' /\ Passed(d, 0, g)'
    BY <1>4, <2>2, <2>3, SameTree
  <2>5. LiveFile(d)' /\ files'[d] = files[d]
    BY <1>1, <1>4 DEF tree, LiveFile, IsFile
  <2>6. pc'[p] = "walk" /\ at'[p].file = d /\ at'[p].n = 0 /\ at'[p].folder = g
    BY <1>2, <1>3, <1>7, <2>1
  <2>. QED
    BY <1>7, <2>4, <2>5, <2>6, TreeBounds DEF WalkOK, Verdict, Is
<1>. QED
  BY <1>5, <1>6, <1>7

LEMMA WalkWalk ==
  ASSUME Shape, NEW p \in Proc, Walk(p), WalkOK(p)
  PROVE  WalkOK(p)' /\ Verdict(p)'
<1>1. /\ UNCHANGED tree /\ Watch /\ TreeOK /\ CallOK(p) /\ pc[p] = "walk" /\ at[p] \in CallRow
      /\ None \notin FolderIds
  BY Parts, TreeBounds DEF Walk, Is, Keep, FolderIds
<1>2. PICK d \in FileIds, n \in Nat, g \in FolderIds :
        d = at[p].file /\ n = at[p].n /\ g = at[p].folder /\ IsFolder(g)
  BY <1>1 DEF CallOK, CallRow, IsFile, IsFolder
<1>3. /\ n < WalkDepth
      /\ ~watch[p].moved => LiveFile(d) /\ files[d].folder # None /\ Climbed(d, n, g)
      /\ ~watch[p].changed => ~files[d].public /\ files[d].folder # None /\ Passed(d, n, g)
  BY <1>1, <1>2 DEF WalkOK
<1>4. ASSUME NEW l \in {"served", "refused"}, Step(p, l)
      PROVE  pc'[p] = l /\ at'[p].file = d
  BY <1>2, <1>4, GoMoves DEF Step
<1>5. CASE LiveFolder(g) /\ folders[g].public /\ Step(p, "served")
  <2>1. pc'[p] = "served" /\ at'[p].file = d
    BY <1>4, <1>5
  <2>2. ASSUME ~watch'[p].moved
        PROVE  d \in Shown
    <3>1. LiveFile(d) /\ files[d].folder # None /\ Climbed(d, n, g)
      BY <1>1, <1>3, <2>1, <2>2, WatchStep DEF Answering
    <3>2. PICK way \in [0..n -> FolderIds] :
            /\ way[0] = files[d].folder /\ way[n] = g
            /\ \A k \in 0..(n - 1) : LiveFolder(way[k]) /\ folders[way[k]].parent = way[k + 1]
      BY <3>1 DEF Climbed
    <3>3. \A k \in 0..n : k = n \/ k \in 0..(n - 1)
      OBVIOUS
    <3>4. way \in Above(files[d].folder, n)
      BY <1>5, <3>2, <3>3 DEF Above
    <3>5. n \in 0..(WalkDepth - 1)
      BY <1>3, TreeBounds
    <3>6. SharedWithin(files[d].folder, WalkDepth)
      BY <1>5, <3>2, <3>4, <3>5 DEF SharedWithin
    <3>. QED
      BY <3>1, <3>6 DEF Shown, Reachable
  <2>3. watch'[p].open \/ watch'[p].moved
    BY <1>1, <2>1, <2>2, SameTree, WatchStep DEF Answering
  <2>. QED
    BY <2>1, <2>3 DEF WalkOK, Verdict, Is
<1>6. CASE /\ Step(p, "refused")
           /\ ~(LiveFolder(g) /\ folders[g].parent # None /\ n + 1 < WalkDepth)
           /\ ~(LiveFolder(g) /\ folders[g].public)
  <2>1. pc'[p] = "refused" /\ at'[p].file = d
    BY <1>4, <1>6
  <2>2. ASSUME ~watch'[p].changed
        PROVE  d \notin Shown
    <3>1. ~files[d].public /\ files[d].folder # None /\ Passed(d, n, g)
      BY <1>1, <1>3, <2>1, <2>2, WatchStep DEF Answering
    <3>2. ASSUME NEW m \in 0..(WalkDepth - 1), NEW way \in Above(files[d].folder, m),
                 folders[way[m]].public
          PROVE  FALSE
      <4>1. m \in Nat /\ n <= m
        <5>1. m \in Nat /\ m \in 0..m /\ (m < n => ~folders[way[m]].public)
          BY <3>1, TreeBounds DEF Passed
        <5>. QED
          BY <3>2, <5>1
      <4>2. way[n] = g
        BY <3>1, <4>1 DEF Passed
      <4>3. /\ way \in [0..m -> FolderIds] /\ n \in 0..m
            /\ LiveFolder(g)
            /\ n < m => folders[g].parent = way[n + 1] /\ way[n + 1] \in FolderIds
        BY <4>1, <4>2 DEF Above
      <4>4. CASE m = n
        BY <1>6, <3>2, <4>2, <4>3, <4>4
      <4>5. CASE n < m
        <5>1. n + 1 < WalkDepth
          BY <4>1, <4>5, TreeBounds
        <5>. QED
          BY <1>1, <1>6, <4>3, <4>5, <5>1
      <4>. QED
        BY <4>1, <4>4, <4>5
    <3>. QED
      BY <3>1, <3>2 DEF Shown, Reachable, SharedWithin
  <2>3. watch'[p].shut \/ watch'[p].changed
    BY <1>1, <2>1, <2>2, SameTree, WatchStep DEF Answering
  <2>. QED
    BY <2>1, <2>3 DEF WalkOK, Verdict, Is
<1>7. CASE /\ LiveFolder(g) /\ folders[g].parent # None /\ n + 1 < WalkDepth
           /\ ~folders[g].public
           /\ Go(p, "walk", [at[p] EXCEPT !.folder = folders[g].parent, !.n = at[p].n + 1])
  <2>1. PICK up \in FolderIds : up = folders[g].parent
    BY <1>1, <1>2, <1>7 DEF TreeOK, Holds, IsFolder
  <2>2. pc'[p] = "walk" /\ at'[p] = [at[p] EXCEPT !.folder = folders[g].parent, !.n = at[p].n + 1]
    BY <1>7, GoMoves
  <2>3. at'[p].file = d /\ at'[p].folder = up /\ at'[p].n = n + 1
    BY <1>1, <1>2, <2>1, <2>2 DEF CallRow
  <2>4. ASSUME ~watch'[p].moved
        PROVE  LiveFile(d)' /\ files'[d].folder # None /\ Climbed(d, n + 1, up)'
    <3>1. LiveFile(d) /\ files[d].folder # None /\ Climbed(d, n, g)
      BY <1>1, <1>3, <2>2, <2>4, WatchStep DEF Answering
    <3>2. PICK way \in [0..n -> FolderIds] :
            /\ way[0] = files[d].folder /\ way[n] = g
            /\ \A k \in 0..(n - 1) : LiveFolder(way[k]) /\ folders[way[k]].parent = way[k + 1]
      BY <3>1 DEF Climbed
    <3>. DEFINE far == [k \in 0..(n + 1) |-> IF k = n + 1 THEN up ELSE way[k]]
    <3>3. /\ far \in [0..(n + 1) -> FolderIds]
          /\ far[0] = files[d].folder /\ far[n + 1] = up
          /\ \A k \in 0..n : far[k] = way[k]
      <4>1. \A k \in 0..(n + 1) : k # n + 1 => k \in 0..n
        OBVIOUS
      <4>. QED
        BY <3>2, <4>1
    <3>. HIDE DEF far
    <3>4. ASSUME NEW k \in 0..n
          PROVE  LiveFolder(far[k]) /\ folders[far[k]].parent = far[k + 1]
      <4>1. CASE k = n
        BY <1>7, <2>1, <3>2, <3>3, <4>1
      <4>2. CASE k \in 0..(n - 1)
        <5>1. k + 1 \in 0..n
          BY <4>2
        <5>. QED
          BY <3>2, <3>3, <4>2, <5>1
      <4>. QED
        BY <4>1, <4>2
    <3>5. Climbed(d, n + 1, up)
      <4>1. (n + 1) - 1 = n
        OBVIOUS
      <4>. QED
        BY <3>3, <3>4, <4>1 DEF Climbed
    <3>6. Climbed(d, n + 1, up)'
      BY <1>1, <3>5, SameTree
    <3>. QED
      BY <1>1, <3>1, <3>6 DEF tree, LiveFile, IsFile
  <2>5. ASSUME ~watch'[p].changed
        PROVE  ~files'[d].public /\ files'[d].folder # None /\ Passed(d, n + 1, up)'
    <3>1. ~files[d].public /\ files[d].folder # None /\ Passed(d, n, g)
      BY <1>1, <1>3, <2>2, <2>5, WatchStep DEF Answering
    <3>2. ASSUME NEW m \in 0..(WalkDepth - 1), NEW way \in Above(files[d].folder, m)
          PROVE  /\ n + 1 <= m => way[n + 1] = up
                 /\ \A k \in 0..m : k < n + 1 => ~folders[way[k]].public
      <4>1. /\ n <= m => way[n] = g
            /\ \A k \in 0..m : k < n => ~folders[way[k]].public
        BY <3>1 DEF Passed
      <4>2. m \in Nat
        BY TreeBounds
      <4>3. ASSUME n + 1 <= m
            PROVE  way[n + 1] = up
        <5>1. n \in 0..(m - 1) /\ n <= m
          BY <4>2, <4>3
        <5>. QED
          BY <2>1, <4>1, <5>1 DEF Above
      <4>4. ASSUME NEW k \in 0..m, k < n + 1
            PROVE  ~folders[way[k]].public
        <5>1. k = n \/ k < n
          BY <4>4
        <5>2. CASE k = n
          BY <1>7, <4>1, <4>2, <5>2
        <5>. QED
          BY <4>1, <5>1, <5>2
      <4>. QED
        BY <4>3, <4>4
    <3>3. Passed(d, n + 1, up)
      BY <3>2 DEF Passed
    <3>4. Passed(d, n + 1, up)'
      BY <1>1, <3>3, SameTree
    <3>. QED
      BY <1>1, <3>1, <3>4 DEF tree
  <2>. QED
    BY <1>7, <2>2, <2>3, <2>4, <2>5 DEF WalkOK, Verdict, Is
<1>8. CASE Done(p)
  BY <1>8, DoneStep DEF WalkOK, Verdict, Is
<1>9. Walk(p)
  OBVIOUS
<1>10. \/ LiveFolder(g) /\ folders[g].public /\ Step(p, "served")
       \/ /\ LiveFolder(g) /\ folders[g].parent # None /\ n + 1 < WalkDepth
          /\ ~folders[g].public
          /\ Go(p, "walk", [at[p] EXCEPT !.folder = folders[g].parent, !.n = at[p].n + 1])
       \/ /\ Step(p, "refused")
          /\ ~(LiveFolder(g) /\ folders[g].parent # None /\ n + 1 < WalkDepth)
          /\ ~(LiveFolder(g) /\ folders[g].public)
       \/ Done(p)
  BY ONLY <1>2, <1>9 DEF Walk, Seen
<1>. QED
  BY <1>5, <1>6, <1>7, <1>8, <1>10

LEMMA NextWalk ==
  ASSUME Shape, WalkInv, [Next]_vars, NEW q \in Proc
  PROVE  WalkOK(q)' /\ Verdict(q)'
<1>0. \A p \in Proc : WalkOK(p) /\ Verdict(p)
  BY DEF WalkInv
<1>1. ASSUME NEW p \in Proc, Others(p), Watch, p # q
      PROVE  WalkOK(q)' /\ Verdict(q)'
  BY <1>0, <1>1, WalkStays DEF Others
<1>2. ASSUME pc'[q] \notin Answering
      PROVE  WalkOK(q)' /\ Verdict(q)'
  BY <1>2 DEF WalkOK, Verdict, Is, Answering
<1>3. ASSUME NEW p \in Proc, Request(p)
      PROVE  WalkOK(q)' /\ Verdict(q)'
  BY <1>1, <1>2, <1>3, RequestStep, DownloadPublicWalk DEF Answering
<1>4. ASSUME NEW p \in Proc, Quiet(p)
      PROVE  WalkOK(q)' /\ Verdict(q)'
  BY <1>0, <1>1, <1>2, <1>4, QuietStep, WalkWalk DEF Answering
<1>5. ASSUME NEW p \in Proc, \/ Create(p) \/ UpdateParent(p) \/ Rename(p) \/ UpdatePublicStatus(p)
                             \/ Sync(p) \/ Drop(p) \/ Empty(p) \/ Insert(p) \/ WriteFile(p) \/ Copy(p)
      PROVE  WalkOK(q)' /\ Verdict(q)'
  <2>1. Watch
    BY <1>5 DEF Create, UpdateParent, Rename, UpdatePublicStatus, Sync, Drop, Empty, Insert,
       WriteFile, Copy, Keep
  <2>2. \E l \in PC \ Answering : \E c : Go(p, l, c)
    <3>1. CASE Create(p)
      <4>1. \E l \in {"insert", "copy", "create", "idle"} : \E c : Go(p, l, c)
        BY ONLY <3>1 DEF Create, Step, Done
      <4>. QED
        BY <4>1 DEF PC, Answering
    <3>2. CASE ~Create(p)
      <4>1. \E l \in {"idle", "sync", "empty", "mark", "copy"} : \E c : Go(p, l, c)
        BY <1>5, <3>2 DEF UpdateParent, Rename, UpdatePublicStatus, Sync, Drop, Empty, Insert,
           WriteFile, Copy, Step, Done
      <4>. QED
        BY <4>1 DEF PC, Answering
    <3>. QED
      BY <3>1, <3>2
  <2>3. Others(p) /\ pc'[p] \notin Answering
    BY <2>2, GoMoves DEF Others
  <2>. QED
    BY <1>1, <1>2, <2>1, <2>3
<1>6. ASSUME NEW p \in Proc, Continue(p)
      PROVE  WalkOK(q)' /\ Verdict(q)'
  BY <1>4, <1>5, <1>6 DEF Continue, Quiet
<1>7. ASSUME NEW d \in FileIds, Scanned(d)
      PROVE  WalkOK(q)' /\ Verdict(q)'
  BY <1>0, <1>7, WalkStays DEF Scanned, Keep
<1>8. ASSUME Crash
      PROVE  WalkOK(q)' /\ Verdict(q)'
  BY <1>2, <1>8 DEF Crash, Answering
<1>9. ASSUME UNCHANGED vars
      PROVE  WalkOK(q)' /\ Verdict(q)'
  <2>1. UNCHANGED <<tree, pc, at, watch>>
    BY <1>9 DEF vars, tree
  <2>2. WalkOK(q) /\ Verdict(q)
    BY <1>0
  <2>3. pc'[q] = pc[q] /\ at'[q] = at[q] /\ watch'[q] = watch[q]
    BY <2>1
  <2>4. WalkOK(q)'
    <3>1. PICK d, n, g : d = at[q].file /\ n = at[q].n /\ g = at[q].folder
      OBVIOUS
    <3>2. /\ Passed(d, n, g)' <=> Passed(d, n, g)
          /\ Climbed(d, n, g)' <=> Climbed(d, n, g)
      BY <2>1, SameTree
    <3>3. files'[d] = files[d] /\ LiveFile(d)' = LiveFile(d)
      BY <2>1 DEF tree, LiveFile, IsFile
    <3>4. at'[q].file = d /\ at'[q].n = n /\ at'[q].folder = g
      BY <2>3, <3>1
    <3>. QED
      BY <2>2, <2>3, <3>1, <3>2, <3>3, <3>4 DEF WalkOK
  <2>. QED
    BY <2>2, <2>3, <2>4 DEF Verdict, Is
<1>. QED
  BY <1>3, <1>6, <1>7, <1>8, <1>9 DEF Next, Background

(* What a stranger can reach is what the owners have published.            *)
THEOREM PublicStaysMeant == Spec => []PublicIsMeant
<1>1. Init => UnsharedIsHidden /\ WalkInv
  <2>. SUFFICES ASSUME Init
                PROVE  UnsharedIsHidden /\ WalkInv
    OBVIOUS
  <2>1. UnsharedIsHidden
    <3>. SUFFICES ASSUME NEW d \in FileIds, LiveFile(d), files[d].public, files[d].why = "folder"
                  PROVE  folders[files[d].folder].public \/ folders[files[d].folder].unsynced
      BY DEF UnsharedIsHidden
    <3>1. PICK s \in Start :
            /\ folders = [g \in FolderIds |-> IF g \in DOMAIN s.folders THEN s.folders[g] ELSE NoRow]
            /\ files = [f \in FileIds |-> IF f \in DOMAIN s.files THEN s.files[f] ELSE NoRow]
      BY DEF Init
    <3>2. Reached(s)
      BY StartAssumption
    <3>3. DOMAIN s.folders \subseteq FolderIds
      BY <3>2, TreeBounds DEF Reached, FolderIds
    <3>4. d \in DOMAIN s.files /\ files[d] = s.files[d]
      BY <3>1 DEF LiveFile, IsFile
    <3>5. files[d].folder \in DOMAIN s.folders
          /\ (files[d].live => s.folders[files[d].folder].public \/ s.folders[files[d].folder].unsynced)
      BY <3>2, <3>4 DEF Reached
    <3>6. folders[files[d].folder] = s.folders[files[d].folder]
      BY <3>1, <3>3, <3>5
    <3>. QED
      BY <3>5, <3>6 DEF LiveFile
  <2>. QED
    BY <2>1 DEF Init, WalkInv, WalkOK, Verdict, Is
<1>2. Shape /\ UnsharedIsHidden /\ WalkInv /\ [Next]_vars
        => Shape' /\ UnsharedIsHidden' /\ WalkInv'
  BY NextShape, NextHidden, NextWalk DEF WalkInv
<1>3. UnsharedIsHidden /\ WalkInv => PublicIsMeant
  BY DEF PublicIsMeant, VerdictIsRight, WalkInv, Verdict
<1>. QED
  BY <1>1, <1>2, <1>3, InitShape, PTL DEF Spec
=============================================================================
