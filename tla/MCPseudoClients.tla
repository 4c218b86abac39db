-------------------------- MODULE MCPseudoClients --------------------------
(* Small instances of PseudoClients and PseudoClaims for TLC *)
EXTENDS PseudoClaims

A == << "a" >>
B == << "b" >>

\* two or three names in one directory
FlatPaths == {A, B}
Flat3     == {A, B, << "d" >>}

\* two directories that can each hold a file x, so that renaming one moves x
NestedPaths == {A, B, << "a", "x" >>, << "b", "x" >>}

\* a file that was there before pseudo, so that no row speaks of it
OneFile == {A}

\* all clients work on all paths
OwnAll   == [c \in Clients |-> Paths]
\* client 1 works on a, client 2 on the rest
OwnApart == [c \in Clients |-> IF c = 1 THEN {A} ELSE Paths \ {A}]
\* client 2 works on a only, client 1 also renames it
OwnMixed == [c \in Clients |-> IF c = 1 THEN Paths ELSE {A}]
=============================================================================
