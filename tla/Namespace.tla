------------------------------ MODULE Namespace ------------------------------
(***************************************************************************)
(* What the callers of the file system see of its names: a tree of files   *)
(* and directories, each named by its path, and the working directory.     *)
(* One name comes or goes at a time, and a directory stays as long as it   *)
(* has names in it.                                                        *)
(***************************************************************************)
EXTENDS SequencesExt

VARIABLES
    tree,       \* the paths, sequences of names, each with "dir" or "file"
    cwd         \* the path of the working directory

vars == <<tree, cwd>>

Root == << >>

Init == tree = {<<Root, "dir">>} /\ cwd = Root

Paths == {node[1] : node \in tree}

Make(path, kind) ==
    /\ path \notin Paths
    /\ <<Front(path), "dir">> \in tree
    /\ tree' = tree \cup {<<path, kind>>}
    /\ UNCHANGED cwd

Drop(path, kind) ==
    /\ \A p \in Paths : p # path => ~IsPrefix(path, p)
    /\ tree' = tree \ {<<path, kind>>}
    /\ UNCHANGED cwd

Enter == <<cwd', "dir">> \in tree /\ UNCHANGED tree

Next ==
    \/ \E node \in tree' \ tree : Make(node[1], node[2])
    \/ \E node \in tree \ tree' : Drop(node[1], node[2])
    \/ Enter

Spec == Init /\ [][Next]_vars
=============================================================================
