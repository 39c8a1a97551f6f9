----------------------------- MODULE MCFatTree ------------------------------
(* Small instances of FatTree: who announces what, in which calls. *)
EXTENDS FatTree

CONSTANTS alice, bob, carol, scan, recv1, recv2, recv3

ann(path, dir, stamp, owner) ==
    [path |-> path, dir |-> dir, stamp |-> stamp, owner |-> owner, del |-> FALSE]

removal(path, stamp, owner) ==
    [path |-> path, dir |-> FALSE, stamp |-> stamp, owner |-> owner, del |-> TRUE]

\* Two levels: a directory with two files in it, and a file beside it.
FlatPaths == {<<"d">>, <<"d", "x">>, <<"d", "y">>, <<"f">>}

\* alice scanned at time 2; bob's list is older and sorted, carol's is newer,
\* unsorted and leaves the directory out.
FlatLocal == <<ann(<<"d">>, TRUE, 2, alice), ann(<<"d", "x">>, FALSE, 2, alice),
               ann(<<"f">>, FALSE, 2, alice)>>
FlatBob   == <<ann(<<"d">>, TRUE, 1, bob), ann(<<"d", "x">>, FALSE, 1, bob),
               ann(<<"d", "y">>, FALSE, 1, bob)>>
FlatCarol == <<ann(<<"d", "y">>, FALSE, 3, carol), ann(<<"f">>, FALSE, 3, carol),
               ann(<<"d", "x">>, FALSE, 3, carol)>>
\* bob again after a restart: the directory is empty now.
FlatEmptyDir == <<ann(<<"d">>, TRUE, 3, bob)>>
FlatLists == {FlatLocal, FlatBob, FlatCarol, FlatEmptyDir}

\* A level more, so that a change deep down has two directories above it to
\* recalculate; nobody announces the directory "d/e", which the lists of bob
\* and the older one of carol create on the fly, and carol's newer list has a
\* file of that name.
MorePaths == FlatPaths \cup {<<"d", "e">>, <<"d", "e", "z">>, <<"d", "e", "w">>}

DeepBob   == <<ann(<<"d", "e", "z">>, FALSE, 3, bob), ann(<<"d", "e", "w">>, FALSE, 3, bob),
               ann(<<"d", "x">>, FALSE, 3, bob)>>
DeepOld   == <<ann(<<"d", "e", "z">>, FALSE, 1, carol), ann(<<"d", "x">>, FALSE, 1, carol)>>
DeepCarol == <<ann(<<"d">>, TRUE, 4, carol), ann(<<"d", "e">>, FALSE, 4, carol)>>

\* Removal announcements, of a top level file and of one inside a directory.
RemovalBob  == <<removal(<<"f">>, 3, bob), ann(<<"d", "y">>, FALSE, 3, bob)>>
RemovalDeep == <<removal(<<"d", "x">>, 4, carol)>>

MoreLists        == FlatLists \cup {DeepBob, DeepOld, DeepCarol, RemovalBob}
DeepRemovalLists == {FlatLocal, FlatBob, RemovalDeep}
============================================================================
