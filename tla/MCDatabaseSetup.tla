-------------------------- MODULE MCDatabaseSetup --------------------------
(* A small instance of DatabaseSetup for TLC *)
EXTENDS DatabaseSetup

\* version 2: files can be marked, and the attributes, if the release had any,
\* belong to a row of files; a file with two names has an attribute twice when
\* it was set under both.  One without the table of attributes cannot be
\* migrated: make_tables() creates the new one, and migration 4 reads the old.
Marked ==
    [Empty EXCEPT !.files = "new", !.migrations = TRUE, !.versions = {0, 1, 2},
                  !.indexes = {<< "migration__version", "migrations" >>}]
WithAttributes(k) ==
    [Marked EXCEPT !.xattrs = "old", !.attrs = [a \in Attributes |-> k]]
\* version 1: no row can be marked
Unmarked == [WithAttributes(1) EXCEPT !.files = "old", !.versions = {0, 1}]
\* "version -1": the release of wrlinux 3.0, without a table of migrations
Unversioned == [Empty EXCEPT !.files = "old", !.unversioned = TRUE]

MCDatabases ==
    {Empty, Marked, WithAttributes(0), WithAttributes(1), WithAttributes(2),
     Unmarked, Unversioned, Fresh}
=============================================================================
