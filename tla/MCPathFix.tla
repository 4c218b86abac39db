----------------------------- MODULE MCPathFix -----------------------------
(* A small instance of PathFix for TLC *)
EXTENDS PathFix

Dir  == [kind |-> "dir",  abs |-> FALSE, to |-> << >>]
File == [kind |-> "file", abs |-> FALSE, to |-> << >>]
Link(abs, to) == [kind |-> "link", abs |-> abs, to |-> to]

\* b at the top, a/a and a/b: a directory, or a link down, to the neighbour,
\* upwards, to an entry of the root, or round in a circle; a/a may be a file and
\* a/b may be missing
TopB == {Dir, Link(FALSE, << "a" >>), Link(TRUE, << "a", ".", "a" >>),
         Link(TRUE, << "a", ".", "a", ".", "a", ".", "a" >>)}
SubA == {Dir, File, Link(FALSE, << "b" >>)}
SubB == {Dir, Link(FALSE, << "..", "b" >>), Link(TRUE, << "a" >>)}

SmallFilesystems ==
    {(<< >> :> Dir) @@ (<< "a" >> :> Dir) @@ f @@ (<< "a", "a" >> :> g) @@ h :
       f \in {<< "b" >> :> n : n \in TopB},
       g \in SubA,
       h \in {<< "a", "b" >> :> n : n \in SubB} \cup {<< >>}}

Request(abs, elems, slash) == [abs |-> abs, elems |-> elems, slash |-> slash]
SmallRequests ==
    {Request(TRUE, << >>, TRUE), Request(TRUE, << "a" >>, FALSE),
     Request(TRUE, << "b" >>, TRUE), Request(TRUE, << "a", "b" >>, TRUE),
     Request(FALSE, << "b" >>, FALSE), Request(FALSE, << "a" >>, TRUE),
     Request(FALSE, << "..", "a", "b" >>, FALSE), Request(FALSE, << "a", "..", "..", "b" >>, FALSE)}
=============================================================================
