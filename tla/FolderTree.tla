------------------------------ MODULE FolderTree ------------------------------
(***************************************************************************)
(* Folders, the files in them, public links and named shares               *)
(* (folder_service.go, share_service.go, the file operations of            *)
(* file_service.go that place, publish and serve a file, their             *)
(* repositories and handlers).                                             *)
(*                                                                         *)
(* A process of Proc is one request; every statement of the database is a  *)
(* step of its own.  How a file is scanned is FileLifecycle.tla: here it   *)
(* only becomes READY or BLOCKED.  Names, sizes and permissions are left   *)
(* out, except that a folder may have the name API uploads go to.          *)
(***************************************************************************)
EXTENDS Integers, FiniteSets

CONSTANTS User,       \* owners
          None,       \* parent_id or folder_id IS NULL
          NoRow,      \* no row yet
          Start,      \* [folders, files] a run may start from, sequences of rows
          MaxFolders, \* rows there may be in a run
          MaxFiles,
          WalkDepth,  \* folders isAccessiblePublicly reads (5)
          ListDepth,  \* folders the recursive query of FindByIDPublic reads (10)
          Proc,       \* requests that may run at the same time
          MaxEvents   \* bound on requests, changes of a status, failed statements and crashes together

ASSUME TreeBounds ==
    /\ {MaxFolders, MaxFiles, WalkDepth, ListDepth} \subseteq Nat \ {0}
    /\ MaxEvents \in Nat /\ WalkDepth <= ListDepth
    /\ IsFiniteSet(Proc) /\ Start # {}
    /\ None \notin Nat

VARIABLES
    folders,    \* 1..MaxFolders -> row or NoRow
    files,      \* 1..MaxFiles -> row or NoRow
    shares,     \* rows of the table shares
    pc, at,     \* the requests
    watch,      \* history: what was true at some moment of a public request
    requests, faults, crashes

vars == <<folders, files, shares, pc, at, watch, requests, faults, crashes>>

tree == <<folders, files>>

FolderIds == 1..MaxFolders
FileIds   == 1..MaxFiles

PC == {"idle", "create", "parent", "rename", "flag", "sync", "drop", "empty", "inherit", "insert",
       "mark", "refile", "erase", "walk", "served", "refused", "list", "copy", "grant", "revoke"}

CallRow == [op : {"none", "create", "api", "import", "again", "move", "rename", "share", "delete",
                  "session", "public", "grant", "revoke"},
            user : User \cup {None}, folder : FolderIds \cup {None}, file : FileIds \cup {None},
            to : FolderIds \cup User \cup {None}, on : BOOLEAN, list : SUBSET FileIds, n : Nat]

NoCall  == [op |-> "none", user |-> None, folder |-> None, file |-> None, to |-> None,
            on |-> FALSE, list |-> {}, n |-> 0]
NoWatch == [open |-> FALSE, shut |-> FALSE, moved |-> FALSE, changed |-> FALSE]

\* named: it has the name API uploads go to.  History: made by GetOrCreateFolder and
\* neither moved nor renamed since; unsynced: its files did not follow its flag.
FolderRow == [owner : User, parent : FolderIds \cup {None}, named : BOOLEAN, public : BOOLEAN,
              live : BOOLEAN, made : BOOLEAN, unsynced : BOOLEAN]

\* History: why it is public ("own" link, because the "folder" is, or "stray": it left the
\* folder, or its folder changed while the file did); astray: put into a folder that
\* was deleted, or left behind by one.
FileRow == [owner : User, folder : FolderIds \cup {None},
            status : {"UPLOADING", "PENDING_SCAN", "READY", "BLOCKED"}, public : BOOLEAN,
            live : BOOLEAN, why : {"no", "own", "folder", "stray"}, astray : BOOLEAN]

\* A run starts from a tree the operations reach: what lies in a folder refers to it, a
\* folder has the owner of the one it lies in, no live file is in a deleted folder or
\* public because of a private one by anything but the races the history names.
Reached(s) ==
    /\ \E m \in 0..MaxFolders : s.folders \in [1..m -> FolderRow]
    /\ \E m \in 0..MaxFiles : s.files \in [1..m -> FileRow]
    /\ \A g \in DOMAIN s.folders :
         /\ ~s.folders[g].made
         /\ \/ s.folders[g].parent = None
            \/ /\ s.folders[g].parent \in DOMAIN s.folders
               /\ s.folders[s.folders[g].parent].owner = s.folders[g].owner
    /\ \A d \in DOMAIN s.files :
         LET f == s.files[d] IN
         \/ f.folder = None /\ f.why # "folder"
         \/ /\ f.folder \in DOMAIN s.folders
            /\ f.live => f.astray \/ s.folders[f.folder].live
            /\ f.live /\ f.public /\ f.why = "folder" =>
                 s.folders[f.folder].public \/ s.folders[f.folder].unsynced

ASSUME StartAssumption == /\ \A s \in Start : Reached(s)
                          /\ NoRow \notin FolderRow \cup FileRow

Resource == ({"folder"} \X FolderIds) \cup ({"file"} \X FileIds)

IsFolder(g) == g \in FolderIds /\ folders[g] # NoRow
IsFile(d)   == d \in FileIds /\ files[d] # NoRow
\* FindByID: deleted_at IS NULL
LiveFolder(g) == IsFolder(g) /\ folders[g].live
LiveFile(d)   == IsFile(d) /\ files[d].live

\* Folders and files refer to rows there are (foreign keys), processes to rows there were.
TypeOK ==
    /\ folders \in [FolderIds -> FolderRow \cup {NoRow}]
    /\ files \in [FileIds -> FileRow \cup {NoRow}]
    /\ \A g \in FolderIds : IsFolder(g) => folders[g].parent = None \/ IsFolder(folders[g].parent)
    /\ \A d \in FileIds : IsFile(d) => files[d].folder = None \/ IsFolder(files[d].folder)
    /\ shares \subseteq [id : Nat, res : Resource, owner : User, to : User]
    /\ watch \in [Proc -> [open : BOOLEAN, shut : BOOLEAN, moved : BOOLEAN, changed : BOOLEAN]]
    /\ pc \in [Proc -> PC] /\ at \in [Proc -> CallRow]
    /\ \A p \in Proc :
         /\ at[p].folder = None \/ IsFolder(at[p].folder)
         /\ at[p].file = None \/ IsFile(at[p].file)
         /\ \A d \in at[p].list : IsFile(d)
    /\ {requests, faults, crashes} \subseteq Nat

Init ==
    /\ \E s \in Start :
         /\ folders = [g \in FolderIds |-> IF g \in DOMAIN s.folders THEN s.folders[g] ELSE NoRow]
         /\ files = [d \in FileIds |-> IF d \in DOMAIN s.files THEN s.files[d] ELSE NoRow]
    /\ shares = {}
    /\ pc = [p \in Proc |-> "idle"] /\ at = [p \in Proc |-> NoCall]
    /\ watch = [p \in Proc |-> NoWatch]
    /\ requests = 0 /\ faults = 0 /\ crashes = 0

-------------------------------------------------------------------------------
Is(p, l)    == pc[p] = l
Go(p, l, c) == pc' = [pc EXCEPT ![p] = l] /\ at' = [at EXCEPT ![p] = c]
Step(p, l)  == Go(p, l, at[p])
Done(p)     == Go(p, "idle", NoCall)

\* The bound of the model.
MayHappen == requests + faults + crashes < MaxEvents

\* A statement fails.
Fault == MayHappen /\ faults' = faults + 1

\* p may take one request more, which starts with call c at l.
Ready(p) == Is(p, "idle") /\ MayHappen
Arrives(p, l, c) == requests' = requests + 1 /\ Go(p, l, c)

Call(op, u, g, d) == [NoCall EXCEPT !.op = op, !.user = u, !.folder = g, !.file = d]

\* Mutant of OwnFolder: whose folder it is is not compared
AnyFolder(u, g) == LiveFolder(g)

\* The folder is there and belongs to the caller.
OwnFolder(u, g) == LiveFolder(g) /\ folders[g].owner = u

OwnFile(u, d) == LiveFile(d) /\ files[d].owner = u

NewFolder == CHOOSE g \in FolderIds : folders[g] = NoRow
NewFile   == CHOOSE d \in FileIds : files[d] = NoRow
FolderRoom == \E g \in FolderIds : folders[g] = NoRow
FileRoom   == \E d \in FileIds : files[d] = NoRow

\* A file gets the flag on because of its folder g: a stray one if g has another flag now.
Because(g, on) == IF ~on THEN "no" ELSE IF folders[g].public THEN "folder" ELSE "stray"

Deleted(g) == g # None /\ ~folders[g].live

-------------------------------------------------------------------------------
\* What a public link shows.

\* The ways a query climbs from folder g to the n-th folder above it: it stops at a
\* deleted one.
Above(g, n) ==
    {way \in [0..n -> FolderIds] :
       /\ way[0] = g
       /\ \A k \in 0..n : LiveFolder(way[k])
       /\ \A k \in 0..(n - 1) : folders[way[k]].parent = way[k + 1]}

SharedWithin(g, depth) ==
    \E n \in 0..(depth - 1) : \E way \in Above(g, n) : folders[way[n]].public

\* FindByIDPublic
FindByIDPublic(g) == LiveFolder(g) /\ SharedWithin(g, ListDepth)

\* What isAccessiblePublicly finds out, if nothing changes while it reads.
Reachable(d) ==
    LiveFile(d) /\ (files[d].public \/ (files[d].folder # None /\ SharedWithin(files[d].folder, WalkDepth)))

ListPublicFilesByFolderID(g) ==
    {d \in FileIds : LiveFile(d) /\ files[d].folder = g /\ files[d].status \in {"READY", "PENDING_SCAN"}}

Shown == {d \in FileIds : Reachable(d)}
Links == <<[g \in FolderIds |-> IF IsFolder(g) THEN <<folders[g].parent, folders[g].live>> ELSE <<>>],
           [d \in FileIds |-> IF IsFile(d) THEN <<files[d].folder, files[d].live>> ELSE <<>>]>>

\* History of a public request: its file could be reached at some moment, could not, the
\* tree changed, anything did.
Watch ==
    watch' = [p \in Proc |->
      IF pc'[p] \notin {"walk", "served", "refused"} THEN NoWatch
      ELSE [open    |-> watch[p].open \/ at'[p].file \in Shown',
            shut    |-> watch[p].shut \/ at'[p].file \notin Shown',
            moved   |-> watch[p].moved \/ (pc[p] = "walk" /\ Links' # Links),
            changed |-> watch[p].changed \/ (pc[p] = "walk" /\ tree' # tree)]]

\* What a step leaves as it is, and the history of the public requests.
Keep(v) == UNCHANGED v /\ Watch

-------------------------------------------------------------------------------
\* Folders.

\* CreateFolder: the parent is there and belongs to the caller.
CreateFolder(p) ==
    /\ Ready(p)
    /\ \E u \in User, g \in FolderIds \cup {None}, named \in BOOLEAN :
         /\ g = None \/ OwnFolder(u, g)
         /\ Arrives(p, "create", [Call("create", u, None, None) EXCEPT !.to = g, !.on = named])
    /\ Keep(<<tree, shares, faults, crashes>>)

\* The folders of u at the root that have the name API uploads go to
FindByName(u) == {g \in FolderIds : OwnFolder(u, g) /\ folders[g].named /\ folders[g].parent = None}

\* GetOrCreateFolder of an upload with an API key: the first folder of that name, or a new
\* one, or none if the query fails; on is the visibility the client asks for.
GetOrCreateFolder(p) ==
    /\ Ready(p)
    /\ \E u \in User, on \in BOOLEAN :
         LET c == [Call("api", u, None, None) EXCEPT !.on = on]
         IN  \/ \E g \in FindByName(u) : Arrives(p, "insert", [c EXCEPT !.folder = g]) /\ UNCHANGED faults
             \/ FindByName(u) = {} /\ Arrives(p, "create", c) /\ UNCHANGED faults
             \/ Arrives(p, "insert", c) /\ Fault
    /\ Keep(<<tree, shares, crashes>>)

\* The insert of CreateFolder, which a copy of a folder tries twice and an upload with an
\* API key goes on without.
Create(p) ==
    /\ Is(p, "create")
    /\ LET c == at[p] IN
       \/ /\ FolderRoom
          /\ folders' = [folders EXCEPT ![NewFolder] =
               [owner |-> c.user, parent |-> c.to, named |-> c.on \/ c.op = "api", public |-> FALSE,
                live |-> TRUE, made |-> c.op = "api", unsynced |-> FALSE]]
          /\ IF c.op = "api" THEN Go(p, "insert", [c EXCEPT !.folder = NewFolder])
             ELSE IF c.list # {} THEN Go(p, "copy", [c EXCEPT !.folder = NewFolder])
             ELSE Done(p)
          /\ UNCHANGED faults
       \/ /\ Fault
          /\ CASE c.op = "api"    -> Step(p, "insert")
               [] c.op = "import" -> Go(p, "create", [c EXCEPT !.op = "again", !.on = FALSE])
               [] OTHER           -> Done(p)
          /\ UNCHANGED folders
    /\ Keep(<<files, shares, requests, crashes>>)

\* MoveFolder refuses only the folder itself as its parent.
MoveFolder(p) ==
    /\ Ready(p)
    /\ \E u \in User, g \in FolderIds, t \in FolderIds \cup {None} :
         /\ OwnFolder(u, g) /\ t # g /\ (t = None \/ OwnFolder(u, t))
         /\ Arrives(p, "parent", [Call("move", u, g, None) EXCEPT !.to = t])
    /\ Keep(<<tree, shares, faults, crashes>>)

UpdateParent(p) ==
    /\ Is(p, "parent")
    /\ \/ /\ folders' = [folders EXCEPT ![at[p].folder].parent = at[p].to, ![at[p].folder].made = FALSE]
          /\ UNCHANGED faults
       \/ Fault /\ UNCHANGED folders
    /\ Done(p)
    /\ Keep(<<files, shares, requests, crashes>>)

RenameFolder(p) ==
    /\ Ready(p)
    /\ \E u \in User, g \in FolderIds, named \in BOOLEAN :
         /\ OwnFolder(u, g)
         /\ Arrives(p, "rename", [Call("rename", u, g, None) EXCEPT !.on = named])
    /\ Keep(<<tree, shares, faults, crashes>>)

Rename(p) ==
    /\ Is(p, "rename")
    /\ \/ /\ folders' = [folders EXCEPT ![at[p].folder].named = at[p].on, ![at[p].folder].made = FALSE]
          /\ UNCHANGED faults
       \/ Fault /\ UNCHANGED folders
    /\ Done(p)
    /\ Keep(<<files, shares, requests, crashes>>)

\* ToggleShareStatus: the folder, then the files that are in it.
ToggleFolder(p) ==
    /\ Ready(p)
    /\ \E u \in User, g \in FolderIds, on \in BOOLEAN :
         /\ OwnFolder(u, g)
         /\ Arrives(p, "flag", [Call("share", u, g, None) EXCEPT !.on = on])
    /\ Keep(<<tree, shares, faults, crashes>>)

UpdatePublicStatus(p) ==
    /\ Is(p, "flag")
    /\ LET g == at[p].folder IN
       \/ /\ folders' = IF LiveFolder(g)
                        THEN [folders EXCEPT ![g].public = at[p].on, ![g].unsynced = TRUE]
                        ELSE folders
          /\ Step(p, "sync")
          /\ UNCHANGED faults
       \/ Fault /\ Done(p) /\ UNCHANGED folders
    /\ Keep(<<files, shares, requests, crashes>>)

\* Mutant of Synced: the files follow only when the folder is published
SyncedOnlyOn(g, on) ==
    [d \in FileIds |-> IF on /\ LiveFile(d) /\ files[d].folder = g
                       THEN [files[d] EXCEPT !.public = on, !.why = Because(g, on)] ELSE files[d]]

\* UpdatePublicStatusByFolderID
Synced(g, on) ==
    [d \in FileIds |-> IF LiveFile(d) /\ files[d].folder = g
                       THEN [files[d] EXCEPT !.public = on, !.why = Because(g, on)] ELSE files[d]]

\* Its error is ignored.
Sync(p) ==
    /\ Is(p, "sync")
    /\ LET g == at[p].folder IN
       \/ /\ files' = Synced(g, at[p].on)
          /\ folders' = [folders EXCEPT ![g].unsynced = FALSE]
          /\ UNCHANGED faults
       \/ Fault /\ UNCHANGED tree
    /\ Done(p)
    /\ Keep(<<shares, requests, crashes>>)

\* DeleteFolder, and SoftDelete: the folder, then the files in it, whoever owns them;
\* folders in it stay.
DeleteFolder(p) ==
    /\ Ready(p)
    /\ \E u \in User, g \in FolderIds :
         OwnFolder(u, g) /\ Arrives(p, "drop", Call("delete", u, g, None))
    /\ Keep(<<tree, shares, faults, crashes>>)

\* Mutant of Dropped: the row is removed
DroppedRow(g) == [folders EXCEPT ![g] = NoRow]

Dropped(g) == [folders EXCEPT ![g].live = FALSE]

Drop(p) ==
    /\ Is(p, "drop")
    /\ \/ /\ folders' = Dropped(at[p].folder)
          /\ Step(p, "empty")
          /\ UNCHANGED faults
       \/ Fault /\ Done(p) /\ UNCHANGED folders
    /\ Keep(<<files, shares, requests, crashes>>)

\* The files of g, deleted or left behind.
Left(g, behind) ==
    [d \in FileIds |-> IF LiveFile(d) /\ files[d].folder = g
                       THEN [files[d] EXCEPT !.live = behind, !.astray = behind] ELSE files[d]]

\* Mutant of Emptied: only the files of the owner are deleted
EmptiedOfOwn(g) ==
    [d \in FileIds |-> IF LiveFile(d) /\ files[d].owner = folders[g].owner
                       THEN Left(g, FALSE)[d] ELSE files[d]]

Emptied(g) == Left(g, FALSE)

Empty(p) ==
    /\ Is(p, "empty")
    /\ \/ files' = Emptied(at[p].folder) /\ UNCHANGED faults
       \/ files' = Left(at[p].folder, TRUE) /\ Fault
    /\ Done(p)
    /\ Keep(<<folders, shares, requests, crashes>>)

-------------------------------------------------------------------------------
\* Files.

\* CreateUploadSession: the folder may be anybody's, or deleted; a new file is as public
\* as the folder was when it was read.
CreateUploadSession(p) ==
    /\ Ready(p)
    /\ \E u \in User, g \in {k \in FolderIds : IsFolder(k)} \cup {None} :
         Arrives(p, IF g = None THEN "insert" ELSE "inherit", Call("session", u, g, None))
    /\ Keep(<<tree, shares, faults, crashes>>)

Inherit(p) ==
    /\ Is(p, "inherit")
    /\ LET g == at[p].folder IN
       \/ Go(p, "insert", [at[p] EXCEPT !.on = LiveFolder(g) /\ folders[g].public]) /\ UNCHANGED faults
       \/ Step(p, "insert") /\ Fault
    /\ Keep(<<tree, shares, requests, crashes>>)

\* The new row; an upload with an API key is complete, and may be published next.
Insert(p) ==
    /\ Is(p, "insert")
    /\ LET c == at[p]
           on == c.op = "session" /\ c.on
       IN
       \/ /\ FileRoom
          /\ files' = [files EXCEPT ![NewFile] =
               [owner |-> c.user, folder |-> c.folder, public |-> on, live |-> TRUE,
                status |-> IF c.op = "api" THEN "PENDING_SCAN" ELSE "UPLOADING",
                why |-> IF on THEN Because(c.folder, on) ELSE "no", astray |-> Deleted(c.folder)]]
          /\ IF c.op = "api" /\ c.on THEN Go(p, "mark", [c EXCEPT !.file = NewFile]) ELSE Done(p)
          /\ UNCHANGED faults
       \/ Fault /\ Done(p) /\ UNCHANGED files
    /\ Keep(<<folders, shares, requests, crashes>>)

ToggleFile(p) ==
    /\ Ready(p)
    /\ \E u \in User, d \in FileIds, on \in BOOLEAN :
         OwnFile(u, d) /\ Arrives(p, "mark", [Call("share", u, None, d) EXCEPT !.on = on])
    /\ Keep(<<tree, shares, faults, crashes>>)

\* MoveFile does not look at the folder it moves to.
MoveFile(p) ==
    /\ Ready(p)
    /\ \E u \in User, d \in FileIds, g \in {k \in FolderIds : IsFolder(k)} \cup {None} :
         OwnFile(u, d) /\ Arrives(p, "refile", [Call("move", u, None, d) EXCEPT !.to = g])
    /\ Keep(<<tree, shares, faults, crashes>>)

DeleteFile(p) ==
    /\ Ready(p)
    /\ \E u \in User, d \in FileIds :
         OwnFile(u, d) /\ Arrives(p, "erase", Call("delete", u, None, d))
    /\ Keep(<<tree, shares, faults, crashes>>)

\* The row of a file after the statement at l of call c.
Written(l, c, f) ==
    CASE l = "mark"   -> [f EXCEPT !.public = c.on, !.why = IF c.on THEN "own" ELSE "no"]
      [] l = "refile" -> [f EXCEPT !.folder = c.to, !.astray = Deleted(c.to),
                                   !.why = IF f.why = "folder" THEN "stray" ELSE f.why]
      [] l = "erase"  -> [f EXCEPT !.live = FALSE]

\* UpdatePublicStatus, MoveFile and SoftDelete of a file, deleted or not
WriteFile(p) ==
    /\ pc[p] \in {"mark", "refile", "erase"}
    /\ LET d == at[p].file IN
       \/ files' = [files EXCEPT ![d] = Written(pc[p], at[p], @)] /\ UNCHANGED faults
       \/ Fault /\ UNCHANGED files
    /\ Done(p)
    /\ Keep(<<folders, shares, requests, crashes>>)

\* CompleteUpload and the scan (FileLifecycle.tla), at any time
Scanned(d) ==
    /\ IsFile(d) /\ MayHappen /\ requests' = requests + 1
    /\ \E to \in {"PENDING_SCAN", "READY", "BLOCKED"} :
         /\ files[d].status = IF to = "PENDING_SCAN" THEN "UPLOADING" ELSE "PENDING_SCAN"
         /\ files[d].status = "UPLOADING" => LiveFile(d)
         /\ files' = [files EXCEPT ![d].status = to]
    /\ Keep(<<folders, shares, pc, at, faults, crashes>>)

-------------------------------------------------------------------------------
\* Public links.

\* DownloadPublic, ServeRaw, GetPublicMetadata and GetPublicThumbnailURL of a READY file:
\* its own flag, then its folders one after the other.
DownloadPublic(p) ==
    /\ Ready(p)
    /\ \E d \in FileIds :
         /\ LiveFile(d) /\ files[d].status = "READY"
         /\ Arrives(p, IF files[d].public THEN "served" ELSE IF files[d].folder = None THEN "refused" ELSE "walk",
                    Call("public", None, files[d].folder, d))
    /\ Keep(<<tree, shares, faults, crashes>>)

\* FindByID of the folder the walk has come to
Seen(g) == LiveFolder(g)

\* isAccessiblePublicly: an error ends the walk.
Walk(p) ==
    /\ Is(p, "walk")
    /\ LET g == at[p].folder
           up == folders[g].parent
           more == Seen(g) /\ up # None /\ at[p].n + 1 < WalkDepth
       IN
       \/ Seen(g) /\ folders[g].public /\ Step(p, "served") /\ UNCHANGED faults
       \/ more /\ ~folders[g].public /\ UNCHANGED faults
          /\ Go(p, "walk", [at[p] EXCEPT !.folder = up, !.n = at[p].n + 1])
       \/ ~more /\ ~(Seen(g) /\ folders[g].public) /\ Step(p, "refused") /\ UNCHANGED faults
       \/ Fault /\ Done(p)
    /\ Keep(<<tree, shares, requests, crashes>>)

Answer(p) ==
    /\ pc[p] \in {"served", "refused"}
    /\ Done(p)
    /\ Keep(<<tree, shares, requests, faults, crashes>>)

\* SavePublicFolderToVault: the public folder, its files, a folder of the caller, then one
\* row per file, with the object of the original.
SavePublicFolderToVault(p) ==
    /\ Ready(p)
    /\ \E u \in User, g \in FolderIds :
         /\ FindByIDPublic(g)
         /\ Arrives(p, "list", [Call("import", u, g, None) EXCEPT !.on = folders[g].named])
    /\ Keep(<<tree, shares, faults, crashes>>)

List(p) ==
    /\ Is(p, "list")
    /\ \/ /\ Go(p, "create", [at[p] EXCEPT !.folder = None,
                                !.list = ListPublicFilesByFolderID(at[p].folder)])
          /\ UNCHANGED faults
       \/ Fault /\ Done(p)
    /\ Keep(<<tree, shares, requests, crashes>>)

\* The copy is READY whatever the original is; a row that is refused is left out.
Copy(p) ==
    /\ Is(p, "copy")
    /\ \E d \in at[p].list :
         /\ \/ /\ FileRoom
               /\ files' = [files EXCEPT ![NewFile] =
                    [owner |-> at[p].user, folder |-> at[p].folder, status |-> "READY", public |-> FALSE,
                     live |-> TRUE, why |-> "no", astray |-> Deleted(at[p].folder)]]
               /\ UNCHANGED faults
            \/ Fault /\ UNCHANGED files
         /\ IF at[p].list = {d} THEN Done(p) ELSE Go(p, "copy", [at[p] EXCEPT !.list = @ \ {d}])
    /\ Keep(<<folders, shares, requests, crashes>>)

-------------------------------------------------------------------------------
\* Named shares.

GrantShare(p) ==
    /\ Ready(p)
    /\ \E u, to \in User :
         /\ to # u
         /\ \/ \E g \in FolderIds :
                 OwnFolder(u, g) /\ Arrives(p, "grant", [Call("grant", u, g, None) EXCEPT !.to = to])
            \/ \E d \in FileIds :
                 OwnFile(u, d) /\ Arrives(p, "grant", [Call("grant", u, None, d) EXCEPT !.to = to])
    /\ Keep(<<tree, shares, faults, crashes>>)

\* One row per resource and address: a second grant updates it.
CreateShare(p) ==
    /\ Is(p, "grant")
    /\ LET c   == at[p]
           res == IF c.file = None THEN <<"folder", c.folder>> ELSE <<"file", c.file>>
       IN
       \/ /\ shares' = IF \E s \in shares : s.res = res /\ s.to = c.to THEN shares
                       ELSE shares \cup {[id |-> requests, res |-> res, owner |-> c.user, to |-> c.to]}
          /\ UNCHANGED faults
       \/ Fault /\ UNCHANGED shares
    /\ Done(p)
    /\ Keep(<<tree, requests, crashes>>)

RevokeShare(p) ==
    /\ Ready(p)
    /\ \E s \in shares : Arrives(p, "revoke", [Call("revoke", s.owner, None, None) EXCEPT !.n = s.id])
    /\ Keep(<<tree, shares, faults, crashes>>)

Revoke(p) ==
    /\ Is(p, "revoke")
    /\ \/ /\ shares' = {s \in shares : ~(s.id = at[p].n /\ s.owner = at[p].user)}
          /\ UNCHANGED faults
       \/ Fault /\ UNCHANGED shares
    /\ Done(p)
    /\ Keep(<<tree, requests, crashes>>)

-------------------------------------------------------------------------------
\* The scheduler and the server.

\* Every request is gone.
Crash ==
    /\ MayHappen /\ crashes' = crashes + 1
    /\ \E p \in Proc : ~Is(p, "idle")
    /\ pc' = [p \in Proc |-> "idle"] /\ at' = [p \in Proc |-> NoCall]
    /\ files' = [d \in FileIds |->
         IF LiveFile(d) /\ \E p \in Proc : Is(p, "empty") /\ at[p].folder = files[d].folder
         THEN [files[d] EXCEPT !.astray = TRUE] ELSE files[d]]
    /\ Keep(<<folders, shares, requests, faults>>)

Request(p) ==
    \/ CreateFolder(p) \/ GetOrCreateFolder(p) \/ MoveFolder(p) \/ RenameFolder(p) \/ ToggleFolder(p)
    \/ DeleteFolder(p) \/ CreateUploadSession(p) \/ ToggleFile(p) \/ MoveFile(p) \/ DeleteFile(p)
    \/ DownloadPublic(p) \/ SavePublicFolderToVault(p) \/ GrantShare(p) \/ RevokeShare(p)

Continue(p) ==
    \/ Create(p) \/ UpdateParent(p) \/ Rename(p) \/ UpdatePublicStatus(p) \/ Sync(p) \/ Drop(p) \/ Empty(p)
    \/ Inherit(p) \/ Insert(p) \/ WriteFile(p) \/ Walk(p) \/ Answer(p) \/ List(p) \/ Copy(p)
    \/ CreateShare(p) \/ Revoke(p)

Background ==
    \/ \E d \in FileIds : Scanned(d)
    \/ Crash

Next ==
    \/ \E p \in Proc : Request(p) \/ Continue(p)
    \/ Background

Spec == Init /\ [][Next]_vars

-------------------------------------------------------------------------------
\* Properties.

\* A folder lies in a folder of the same owner, and only the owner of a folder or file has
\* shared it: between the check of CreateFolder, MoveFolder or GrantShare and its
\* write nothing makes the check wrong.
Owned ==
    /\ \A g \in FolderIds : IsFolder(g) /\ folders[g].parent # None =>
         folders[folders[g].parent].owner = folders[g].owner
    /\ \A s \in shares :
         s.owner = IF s.res[1] = "folder" THEN folders[s.res[2]].owner ELSE files[s.res[2]].owner

\* A folder that was deleted holds no live file, save one that was put there afterwards
\* (nothing checks the folder of MoveFile or of an upload) or that SoftDelete, two
\* statements without a transaction, has yet to reach or was kept from.
DeletedIsEmptied ==
    \A d \in FileIds : LiveFile(d) /\ Deleted(files[d].folder) =>
        \/ files[d].astray
        \/ \E p \in Proc : Is(p, "empty") /\ at[p].folder = files[d].folder

\* Once ToggleShareStatus has made a folder private, no file is public because of it, save
\* one that was moved or whose upload or whose own toggle ran at the same time, and save
\* the second UPDATE failed, whose error is ignored.
UnsharedIsHidden ==
    \A d \in FileIds : LiveFile(d) /\ files[d].public /\ files[d].why = "folder" =>
        folders[files[d].folder].public \/ folders[files[d].folder].unsynced

\* isAccessiblePublicly reads the folders above a file one at a time.  It lets a request
\* pass only if the file could be reached at one moment of it, unless somebody moved or
\* deleted a part of the tree meanwhile, and refuses only if there was a moment when it
\* could not, unless something changed.
VerdictIsRight ==
    \A p \in Proc :
        /\ Is(p, "served") => watch[p].open \/ watch[p].moved
        /\ Is(p, "refused") => watch[p].shut \/ watch[p].changed

\* GetOrCreateFolder looks and inserts in two statements: requests that overlap may each
\* make the folder, later ones find it, so there are at most as many as can overlap.
OneNamedPerRace ==
    \A u \in User :
        Cardinality({g \in FolderIds : OwnFolder(u, g) /\ folders[g].made}) <= Cardinality(Proc)

\* What was checked before a write still holds after it.
ChecksHold == Owned /\ OneNamedPerRace

\* What a stranger can reach is what the owners have published.
PublicIsMeant == UnsharedIsHidden /\ VerdictIsRight
===============================================================================
