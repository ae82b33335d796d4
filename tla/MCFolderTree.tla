----------------------------- MODULE MCFolderTree -----------------------------
(* Instances of FolderTree: a folder in a folder, private or published.     *)
EXTENDS FolderTree, TLC

CONSTANTS ann, bob

Folder == [owner |-> ann, parent |-> None, named |-> FALSE, public |-> FALSE, live |-> TRUE,
           made |-> FALSE, unsynced |-> FALSE]
File   == [owner |-> ann, folder |-> 2, status |-> "READY", public |-> FALSE,
           live |-> TRUE, why |-> "no", astray |-> FALSE]

MCStart ==
    {[folders |-> <<>>, files |-> <<>>],
     [folders |-> <<Folder, [Folder EXCEPT !.parent = 1]>>, files |-> <<File>>],
     [folders |-> <<[Folder EXCEPT !.public = TRUE], [Folder EXCEPT !.parent = 1], [Folder EXCEPT !.parent = 2]>>,
      files |-> <<[File EXCEPT !.folder = 3]>>],
     [folders |-> <<[Folder EXCEPT !.public = TRUE], [Folder EXCEPT !.owner = bob]>>,
      files |-> <<[File EXCEPT !.folder = 1, !.status = "PENDING_SCAN", !.public = TRUE, !.why = "folder"]>>]}

Symmetry == Permutations(Proc)
===============================================================================
