--------------------------- MODULE SnapshotSources ---------------------------
(***************************************************************************)
(* From a Git archive to a snapshot.  The exporters of deploy/ filter the  *)
(* archive in place, bottom up; app/core/snapshot.py and, for the gateway  *)
(* repository, app/gateway_repo/snapshot.py then scan what is left and     *)
(* refuse it if anything is there that their policy does not admit.  A     *)
(* tree is a set of entries [path, kind]; a path is a sequence of names,   *)
(* <<>> the content root.  "hardlink" is a file linked from outside the    *)
(* tree, "large" and "binary" are files that no snapshot may have.  The    *)
(* contents, and with them the digest, are left out, and the bound on the  *)
(* bytes with the bound on the files.                                      *)
(***************************************************************************)
EXTENDS TaskSources

CONSTANTS RootFiles, RootDirs,                  \* APPROVED_ROOT_FILES, -_DIRECTORIES
          GatewayRootFiles, GatewayRootDirs,    \* those of the gateway repository
          Hidden,               \* names that start with a dot
          Suffixed,             \* names with an allowed suffix ...
          Yaml,                 \* ... and among them .yaml and .yml
          Excluded,             \* EXCLUDED_FILES
          Vendored,             \* the directory of EXCLUDED_PREFIXES
          MaxFiles              \* MAX_SNAPSHOT_FILES

\* The approved roots are admitted by name, and none of them is or has excluded files.
ASSUME RootsAssumption ==
    /\ (RootFiles \cup RootDirs) \cap Hidden = {}
    /\ \A f \in RootFiles : <<f>> \notin Excluded
    /\ Vendored \in Seq(STRING) \ {<<>>} /\ \A d \in RootDirs : Vendored # <<d>>

Kind(kinds, tree) == {e \in tree : e.kind \in kinds}
Paths(tree) == {e.path : e \in tree}
Children(tree, d) == {e \in tree : e.path # <<>> /\ Front(e.path) = d}

IsAdmitted(p) ==
    /\ \A i \in DOMAIN p : p[i] \notin Hidden
    /\ p \notin Excluded /\ ~IsStrictPrefix(Vendored, p)
    /\ IF Len(p) = 1 THEN p[1] \in RootFiles
                     ELSE p[1] \in RootDirs /\ Last(p) \in Suffixed

IsGatewayAdmitted(p) ==
    IF Len(p) = 1 THEN p[1] \in GatewayRootFiles
    ELSE /\ p[1] \in GatewayRootDirs
         /\ \A i \in 2..Len(p) : p[i] \notin Hidden
         /\ IF p[1] = ".github"
            THEN Len(p) > 2 /\ p[2] = "workflows" /\ Last(p) \in Yaml
            ELSE Last(p) \in Suffixed

\* What no archive may have, and what no admitted file may be.
Unsafe == {"symlink", "special"}
Unfit  == {"large", "binary"}

------------------------------------------------------------------------------

\* Without the directories in d that are empty by now, save the approved roots.
Swept(tree, d, roots) ==
    tree \ {e \in Children(tree, d) :
               /\ e.kind = "dir" /\ Children(tree, e.path) = {}
               /\ Len(e.path) > 1 \/ Last(e.path) \notin roots}

HasRoots(tree, files, dirs, fileKinds) ==
    /\ \A f \in files : \E e \in tree : e.path = <<f>> /\ e.kind \in fileKinds
    /\ \A d \in dirs : [path |-> <<d>>, kind |-> "dir"] \in tree

\* os.walk with topdown=False: every directory after those in it.
BottomUp(tree) ==
    LET dirs == SetToSeq({<<>>} \cup Paths(Kind({"dir"}, tree)))
    IN  Sorted(dirs, [i \in DOMAIN dirs |-> -Len(dirs[i])])

\* Mutant of WalkOrder: every directory before those in it.
WalkOrder_TopDown(tree) == Reverse(BottomUp(tree))

WalkOrder(tree) == BottomUp(tree)

\* _filter_export in one directory, d: the files first.  What s.tree is when it has
\* raised does not matter.
Visit(s, d) ==
    LET files == {e \in Children(s.tree, d) : e.kind # "dir"}
        kept  == {e \in files : IsAdmitted(e.path)}
    IN  IF s.raised \/ Kind(Unfit, kept) # {} THEN [s EXCEPT !.raised = TRUE]
        ELSE [s EXCEPT !.tree = Swept(@ \ (files \ kept), d, RootDirs)]

Filtered(tree) ==
    LET end == FoldLeft(Visit, [tree |-> tree, raised |-> FALSE], WalkOrder(tree)) IN
    [end EXCEPT !.raised = \/ @ \/ Kind(Unsafe \cup {"hardlink"}, tree) # {}
                           \/ ~HasRoots(end.tree, RootFiles, RootDirs, {"file"})]

\* The gateway's looks for links and special files on its way, and for hard links
\* only among the files that it keeps.
GatewayVisit(s, d) ==
    LET files == {e \in Children(s.tree, d) : e.kind # "dir"}
        kept  == {e \in files : IsGatewayAdmitted(e.path)}
    IN  IF \/ s.raised
           \/ Kind(Unsafe, files) # {} \/ Kind(Unfit \cup {"hardlink"}, kept) # {}
        THEN [s EXCEPT !.raised = TRUE]
        ELSE [s EXCEPT !.tree = Swept(@ \ (files \ kept), d, GatewayRootDirs)]

GatewayFiltered(tree) ==
    LET end == FoldLeft(GatewayVisit, [tree |-> tree, raised |-> FALSE], WalkOrder(tree))
    IN  [end EXCEPT !.raised =
            @ \/ ~HasRoots(end.tree, GatewayRootFiles, GatewayRootDirs, {"file"})]

------------------------------------------------------------------------------

\* _scan_directory, which meets every entry and stops at the first that is bad.
Scannable(e) ==
    /\ Last(e.path) \notin Hidden
    /\ IF e.kind = "dir"
       THEN (Len(e.path) = 1 => e.path[1] \in RootDirs) /\ e.path # Vendored
       ELSE e.kind = "file" /\ IsAdmitted(e.path)

GatewayScannable(e) ==
    IF e.kind = "dir" THEN Len(e.path) = 1 => e.path[1] \in GatewayRootDirs
    ELSE e.kind = "file" /\ IsGatewayAdmitted(e.path)

\* What both inventories require of the files they found.
Countable(files) == files # {} /\ Cardinality(files) <= MaxFiles

Inventory(tree) ==
    LET files == Paths({e \in tree : e.kind # "dir"}) IN
    IF /\ HasRoots(tree, RootFiles, RootDirs, {"file", "large", "binary"})
       /\ \A e \in tree : Scannable(e)
       /\ Countable(files)
    THEN files ELSE Refused

GatewayInventory(tree) ==
    LET files == Paths({e \in tree : e.kind # "dir"}) IN
    IF /\ HasRoots(tree, GatewayRootFiles, GatewayRootDirs, {"file", "large", "binary"})
       /\ \A e \in tree : GatewayScannable(e)
       /\ Countable(files)
    THEN files ELSE Refused

\* A snapshot holds the files of its manifest.
Validates(tree, manifest) == Inventory(tree) # Refused /\ Inventory(tree) = manifest

GatewayValidates(tree, manifest) ==
    GatewayInventory(tree) # Refused /\ GatewayInventory(tree) = manifest

\* The manifest written, if the export ends well.
Export(tree) ==
    LET end == Filtered(tree) IN
    IF ~end.raised /\ Validates(end.tree, Inventory(end.tree))
    THEN Inventory(end.tree) ELSE Refused

GatewayExport(tree) ==
    LET end == GatewayFiltered(tree) IN
    IF ~end.raised /\ GatewayValidates(end.tree, GatewayInventory(end.tree))
    THEN GatewayInventory(end.tree) ELSE Refused

\* Given an archive with the approved roots, all that an export may refuse it for is
\* a link or a special file, a file it would have to keep and may not, and too many
\* files; and the snapshot has the admitted files, all of them.
ExportMeaning(tree) ==
    LET kept == {e \in tree : e.kind # "dir" /\ IsAdmitted(e.path)} IN
    IF /\ Kind(Unsafe \cup {"hardlink"}, tree) = {} /\ Kind(Unfit, kept) = {}
       /\ HasRoots(tree, RootFiles, RootDirs, {"file"}) /\ Countable(kept)
    THEN Paths(kept) ELSE Refused

GatewayExportMeaning(tree) ==
    LET kept == {e \in tree : e.kind # "dir" /\ IsGatewayAdmitted(e.path)} IN
    IF /\ Kind(Unsafe, tree) = {} /\ Kind(Unfit \cup {"hardlink"}, kept) = {}
       /\ HasRoots(tree, GatewayRootFiles, GatewayRootDirs, {"file"}) /\ Countable(kept)
    THEN Paths(kept) ELSE Refused

==============================================================================
