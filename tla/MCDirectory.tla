---------------------------- MODULE MCDirectory ----------------------------
(* Two names and three inodes.  Blocks are so few that they run out. *)
EXTENDS Directory

\* All paths of two names, and what a caller may add to them
MCPath == BoundedSeq(Name, 2)
          \cup {<<".">>, <<"a", ".">>, <<"..", "b">>, <<"a", "..", "b">>}

Calls(more, directs) ==
    {[calls |-> {"mkdir", "create"} \cup more, direct |-> d] : d \in directs}

\* With two direct blocks one of them is given back, with one there is a table.
MCLoads == Calls({"unlink", "chdir"}, {2}) \cup Calls({"unlink", "stream"}, {2})
           \cup Calls({"unlink", "power"}, {1, 2}) \cup Calls({"rmdir", "power"}, {1})

MCRmdir == Calls({"rmdir"}, {2})
=============================================================================
