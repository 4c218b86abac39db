------------------------------ MODULE PathFix ------------------------------
(***************************************************************************)
(* Canonical paths and the emulated chroot.                                *)
(*                                                                         *)
(* Every path a program passes to a wrapped call goes through base_path()  *)
(* and pseudo_fix_path(): the base (working directory, directory of a      *)
(* descriptor, or chroot directory) is extended element by element, "."    *)
(* and ".." are applied, and symbolic links are replaced by their targets. *)
(* The underlying call and the database only see the result.               *)
(*                                                                         *)
(* A path is the sequence of its elements; a trailing slash is an empty    *)
(* last element, so "/" is << "" >>, and the empty string (and "/" where   *)
(* the code turns its length into 0) is << >>.  One step of the walk is    *)
(* one call of pseudo_append_element(); frames is the stack of the calls   *)
(* of pseudo_append_elements() in progress, each with the elements it has  *)
(* still to append, so that its depth is link_recursion + 1.               *)
(***************************************************************************)
EXTENDS SequencesExt, Naturals

CONSTANTS Names,              \* names of files
          Filesystems,        \* file systems to start from
          Requests,           \* paths the program passes
          MaxLinkRecursion,   \* PSEUDO_MAX_LINK_RECURSION
          MaxLinks,           \* symbolic links the kernel follows in one walk
          MaxLen,             \* pseudo_path_max(), in elements
          MaxCalls            \* calls the program makes

Elements == Names \cup {"", ".", ".."}
Path     == Seq(Elements)

\* a file: kind, and for a symbolic link where it points
Node == [kind : {"dir", "file", "link"}, abs : BOOLEAN, to : Path]

\* files have names, and a file is in a directory, all the way up to the root
IsTree(f) ==
    /\ DOMAIN f \subseteq Seq(Names) /\ << >> \in DOMAIN f /\ f[<< >>].kind = "dir"
    /\ \A q \in DOMAIN f : /\ f[q] \in Node
                           /\ \A n \in 0 .. Len(q) - 1 :
                                 SubSeq(q, 1, n) \in DOMAIN f /\ f[SubSeq(q, 1, n)].kind = "dir"

ASSUME PathAssumption ==
    /\ Names \cap {"", ".", ".."} = {}
    /\ MaxLinkRecursion \in Nat /\ MaxLinks \in Nat /\ MaxLen \in Nat /\ MaxCalls \in Nat
    /\ \A f \in Filesystems : IsTree(f)
    /\ \A r \in Requests : /\ r \in [abs : BOOLEAN, elems : Path, slash : BOOLEAN]
                           /\ r.abs \/ r.elems # << >>

VARIABLES fs,        \* the files, by canonical path
          cwd,       \* pseudo_cwd
          chroot,    \* pseudo_chroot; << >> for none
          dirfd,     \* fd_paths[] of the one directory the program keeps open
          fddir,     \* that directory, as the kernel knows it
          call,      \* the call in progress
          newpath,   \* the path built so far
          root,      \* length of its part that cannot be backed over
          mode,      \* st_mode of newpath, as far as it is known
          frames,    \* calls of pseudo_append_elements
          pc, calls

walk == << call, newpath, root, mode, frames >>
vars == << fs, cwd, chroot, dirfd, fddir, walk, pc, calls >>
-----------------------------------------------------------------------------
(* The kernel, external: path lookup in a file system f *)

\* a walk: where it is, the elements it has still to take, whether it follows a
\* link at the end, how many links it may follow, and where its root is
Walks == [dir : Path, todo : Path, follow : BOOLEAN, links : Nat, top : Path]

Here(w)     == Append(w.dir, Head(w.todo))
InDir(f, w) == w.dir \in DOMAIN f /\ f[w.dir].kind = "dir"
Missing(f, w) == Head(w.todo) \in Names /\ Here(w) \notin DOMAIN f
Follows(f, w) ==
    /\ Head(w.todo) \in Names /\ Here(w) \in DOMAIN f /\ f[Here(w)].kind = "link"
    /\ Len(w.todo) > 1 \/ w.follow

Ended(f, w) ==
    w.todo = << >> \/ ~InDir(f, w) \/ Missing(f, w) \/ (Follows(f, w) /\ w.links = 0)

\* the canonical path it has led to, or none; its last element need not exist
Outcome(f, w) ==
    CASE w.todo = << >> -> {w.dir}
      [] Len(w.todo) = 1 /\ InDir(f, w) /\ Missing(f, w) -> {Here(w)}
      [] OTHER -> {}

Moved(w, dir, todo, links) == [w EXCEPT !.dir = dir, !.todo = todo, !.links = links]

Onward(f, w) ==
    CASE Head(w.todo) \in {"", "."} -> Moved(w, w.dir, Tail(w.todo), w.links)
      [] Head(w.todo) = ".." ->
            Moved(w, IF w.dir \in {w.top, << >>} THEN w.dir ELSE Front(w.dir),
                  Tail(w.todo), w.links)
      [] Follows(f, w) ->
            Moved(w, IF f[Here(w)].abs THEN w.top ELSE w.dir,
                  f[Here(w)].to \o Tail(w.todo), w.links - 1)
      [] OTHER -> Moved(w, Here(w), Tail(w.todo), w.links)

Kernel(f) ==
    LET end[w \in Walks] == IF Ended(f, w) THEN Outcome(f, w) ELSE end[Onward(f, w)]
    IN  end

LookupWithin(links, top, dir, path, follow) ==
    Kernel(fs)[[dir |-> dir, todo |-> path, follow |-> follow, links |-> links, top |-> top]]

Lookup(top, dir, path, follow) == LookupWithin(MaxLinks, top, dir, path, follow)

\* the file a path from the real root names, if there is one
Found(path) == Lookup(<< >>, << >>, path, FALSE) \cap DOMAIN fs
FileAt(path) == fs[CHOOSE q \in Found(path) : TRUE]

\* what lstat() says of it
Lstat(path) == IF Found(path) = {} THEN "none" ELSE FileAt(path).kind
-----------------------------------------------------------------------------
\* a base of length 1 is "/" and counts as empty
Base(path) == IF path = << "" >> THEN << >> ELSE path

\* pseudo_client_op() takes one trailing slash off the path it is given
StripSlash_Not(path) == path

StripSlash(path) == IF Len(path) > 1 /\ Last(path) = "" THEN Front(path) ELSE path

Below(top, path) == IsPrefix(top, path)

\* base_path(): what the request is relative to, and how much of that is fixed
BasePath(c) ==
    IF c.req.abs THEN chroot
    ELSE IF c.at = "fd" THEN Base(dirfd) ELSE Base(cwd)

MinLen(c) ==
    IF c.req.abs \/ Below(chroot, BasePath(c)) THEN Len(chroot) ELSE 0

\* the path as the program gave it, and whether there is room for it and its base
Given(c) == IF c.req.slash THEN Append(c.req.elems, "") ELSE c.req.elems
Fits(c)  == Len(BasePath(c)) + Len(Given(c)) < MaxLen

NoCall == [op |-> "none", req |-> [abs |-> TRUE, elems |-> << >>, slash |-> FALSE],
           at |-> "cwd", nofollow |-> FALSE]

Init ==
    /\ fs \in Filesystems
    /\ cwd = << >> /\ chroot = << >> /\ dirfd = << >> /\ fddir = << >>
    /\ call = NoCall /\ newpath = << >> /\ root = 0 /\ mode = "none" /\ frames = << >>
    /\ pc = "idle" /\ calls = 0

\* chdir() and chroot() follow links and are relative to the working directory
CallShapes ==
    [op : {"chdir", "chroot"}, req : Requests, at : {"cwd"}, nofollow : {FALSE}]
      \cup [op : {"open"}, req : Requests, at : {"cwd", "fd"}, nofollow : BOOLEAN]

\* pseudo_root_path() and the beginning of pseudo_fix_path()
pseudo_root_path ==
    /\ pc = "idle" /\ calls < MaxCalls
    /\ \E c \in CallShapes :
          /\ Fits(c)
          /\ call' = c
          /\ root' = MinLen(c)
          /\ newpath' = BasePath(c)
          /\ mode' = IF Len(BasePath(c)) > MinLen(c) THEN Lstat(BasePath(c)) ELSE "dir"
          /\ frames' = << [todo |-> c.req.elems, leave |-> c.nofollow /\ ~c.req.slash] >>
    /\ pc' = "walk"
    /\ calls' = calls + 1
    /\ UNCHANGED << fs, cwd, chroot, dirfd, fddir >>

\* A path that is too long together with its base is handed on as it is, without
\* the chroot directory.  (A relative one would become a relative pseudo_chroot,
\* which is not in the model.)
HandOn ==
    /\ pc = "idle" /\ calls < MaxCalls
    /\ \E c \in CallShapes :
          /\ ~Fits(c) /\ (c.op = "chroot" => c.req.abs)
          /\ call' = c /\ newpath' = Given(c)
    /\ pc' = "handed"
    /\ calls' = calls + 1
    /\ UNCHANGED << fs, cwd, chroot, dirfd, fddir, root, mode, frames >>
-----------------------------------------------------------------------------
Top      == Last(frames)
Element  == Head(Top.todo)
Advanced == Append(Front(frames), [Top EXCEPT !.todo = Tail(@)])
Walking  == pc = "walk" /\ frames # << >> /\ Top.todo # << >>
Fixed    == UNCHANGED << fs, cwd, chroot, dirfd, fddir, call, root, pc, calls >>

\* "" and "." in a directory
SkipElement ==
    /\ Walking /\ mode = "dir" /\ Element \in {"", "."}
    /\ frames' = Advanced
    /\ Fixed /\ UNCHANGED << newpath, mode >>

BackUp_NoFloor ==
    /\ Walking /\ mode = "dir" /\ Element = ".."
    /\ newpath' = IF Len(newpath) > 0 THEN Front(newpath) ELSE newpath
    /\ frames' = Advanced
    /\ Fixed /\ UNCHANGED mode

\* ".." in a directory
BackUp ==
    /\ Walking /\ mode = "dir" /\ Element = ".."
    /\ newpath' = IF Len(newpath) > root THEN Front(newpath) ELSE newpath
    /\ frames' = Advanced
    /\ Fixed /\ UNCHANGED mode

\* an element that is appended: a name, or anything below what is no directory
Appends == Walking /\ (mode = "dir" => Element \in Names)

\* it is a link that is replaced by its target
IsLink ==
    /\ mode = "dir" /\ ~(Top.leave /\ Len(Top.todo) = 1)
    /\ Lstat(Append(newpath, Element)) = "link"
    /\ Len(frames) <= MaxLinkRecursion

TooLong_OffByOne == Len(newpath) >= MaxLen

\* there has to be room for a slash and the end of the string after the element
TooLong == Len(newpath) + 1 >= MaxLen

AppendElement ==
    /\ Appends /\ ~TooLong /\ ~IsLink
    /\ newpath' = Append(newpath, Element)
    /\ mode' = Lstat(newpath')
    /\ frames' = Advanced
    /\ Fixed

ExpandLink_NotCounted ==
    /\ Appends /\ ~TooLong /\ IsLink
    /\ LET l == FileAt(Append(newpath, Element))
       IN  /\ newpath' = IF l.abs THEN SubSeq(newpath, 1, root) ELSE newpath
           /\ frames' = [frames EXCEPT ![Len(frames)] =
                             [todo |-> l.to \o Tail(@.todo), leave |-> FALSE]]
    /\ mode' = "dir"
    /\ Fixed

\* an absolute target starts at the root, a relative one where the link was
ExpandLink ==
    /\ Appends /\ ~TooLong /\ IsLink
    /\ LET l == FileAt(Append(newpath, Element))
       IN  /\ newpath' = IF l.abs THEN SubSeq(newpath, 1, root) ELSE newpath
           /\ frames' = Append(Advanced, [todo |-> l.to, leave |-> FALSE])
    /\ mode' = "dir"
    /\ Fixed

\* the buffer is full: every pseudo_append_elements() in progress fails
OverflowPath ==
    /\ Appends /\ TooLong
    /\ pc' = "failed" /\ frames' = << >>
    /\ UNCHANGED << fs, cwd, chroot, dirfd, fddir, call, newpath, root, mode, calls >>

\* the target of a link is used up
ReturnElements ==
    /\ pc = "walk" /\ Len(frames) > 1 /\ Top.todo = << >>
    /\ frames' = Front(frames)
    /\ Fixed /\ UNCHANGED << newpath, mode >>

\* the end of pseudo_fix_path()
FixPathDone ==
    /\ pc = "walk" /\ Len(frames) = 1 /\ Top.todo = << >>
    /\ newpath' = IF Len(newpath) = root \/ call.req.slash THEN Append(newpath, "") ELSE newpath
    /\ pc' = "done" /\ frames' = << >>
    /\ UNCHANGED << fs, cwd, chroot, dirfd, fddir, call, root, mode, calls >>
-----------------------------------------------------------------------------
\* the underlying call is made, and the client notes what it has to
Return == pc' = "idle" /\ call' = NoCall /\ newpath' = << >> /\ root' = 0 /\ mode' = "none"

\* Where the underlying call starts: the path that was built is absolute, one
\* that was handed on may be relative.
From ==
    IF pc = "done" \/ call.req.abs THEN << >> ELSE IF call.at = "fd" THEN fddir ELSE cwd

\* the directory it reaches, if it does; the kernel refuses what is too long
Reached == {q \in Lookup(<< >>, From, newpath, ~call.nofollow) :
                /\ q \in DOMAIN fs /\ fs[q].kind = "dir"
                /\ pc = "handed" => Len(newpath) < MaxLen}

\* pseudo_cwd is what getcwd() says after the call
chdir ==
    /\ pc \in {"done", "handed"} /\ call.op = "chdir"
    /\ cwd' = IF Reached = {} THEN cwd ELSE CHOOSE q \in Reached : TRUE
    /\ Return /\ UNCHANGED << fs, chroot, dirfd, fddir, frames, calls >>

pseudo_client_chroot ==
    /\ pc \in {"done", "handed"} /\ call.op = "chroot"
    /\ chroot' = Base(StripSlash(newpath))
    /\ Return /\ UNCHANGED << fs, cwd, dirfd, fddir, frames, calls >>

\* a directory that is opened may be kept open, unless its path was handed on as
\* a relative one
open ==
    /\ pc \in {"done", "handed"} /\ call.op = "open"
    /\ \/ UNCHANGED << dirfd, fddir >>
       \/ /\ Reached # {} /\ (pc = "handed" => call.req.abs)
          /\ dirfd' = StripSlash(newpath)
          /\ fddir' = CHOOSE q \in Reached : TRUE
    /\ Return /\ UNCHANGED << fs, cwd, chroot, frames, calls >>

\* without a path the call fails
Refused ==
    /\ pc = "failed"
    /\ Return /\ UNCHANGED << fs, cwd, chroot, dirfd, fddir, frames, calls >>

\* fchdir(): the working directory becomes the kept one, by the name getcwd() has
\* for it
fchdir ==
    /\ pc = "idle" /\ calls < MaxCalls /\ calls' = calls + 1
    /\ cwd' = fddir
    /\ UNCHANGED << fs, chroot, dirfd, fddir, walk, pc >>

Walk == \/ SkipElement \/ BackUp \/ AppendElement \/ ExpandLink \/ OverflowPath
        \/ ReturnElements \/ FixPathDone

Finish == chdir \/ pseudo_client_chroot \/ open \/ Refused

Next == pseudo_root_path \/ HandOn \/ Walk \/ Finish \/ fchdir

\* a call that was made goes on: nothing in it waits for another process
Spec == Init /\ [][Next]_vars /\ WF_vars(Walk \/ Finish)
-----------------------------------------------------------------------------
\* The variables have their types, and a path that is built fits the buffer it is
\* built in, the slash that is added at the end included.
TypeOK ==
    /\ fs \in Filesystems
    /\ cwd \in Path /\ chroot \in Path /\ dirfd \in Path /\ fddir \in Path
    /\ call \in CallShapes \cup {NoCall}
    /\ newpath \in Path /\ root \in Nat
    /\ pc # "handed" => Len(newpath) <= MaxLen
    /\ mode \in {"none", "dir", "file", "link"}
    /\ frames \in Seq([todo : Path, leave : BOOLEAN])
    /\ pc \in {"idle", "walk", "failed", "done", "handed"}
    /\ calls \in 0..MaxCalls

\* Whatever the path and the links it meets, the walk never backs out of the
\* chroot directory: what an absolute path, or one relative to a directory below
\* it, is turned into keeps it as a prefix (pseudo_append_element, base_path).
\* Only a path that does not fit the buffer together with its base does not: it is
\* handed on as it is (pseudo_util.c:824), and leads out of the directory.
StaysBelowRoot ==
    pc \in {"walk", "done", "handed"} =>
        /\ (call.req.abs \/ Below(chroot, BasePath(call))) /\ Fits(call) =>
              Below(chroot, newpath)
        /\ Len(frames) <= MaxLinkRecursion + 1

\* the call starts in the chroot directory, and the kernel could have done so too
Comparable ==
    /\ chroot \in DOMAIN fs /\ fs[chroot].kind = "dir"
    /\ Below(chroot, BasePath(call))

\* what the kernel, with the chroot directory as its root, finds for the request
\* if it meets no more links than pseudo expands
Wanted ==
    LookupWithin(MaxLinkRecursion, chroot, BasePath(call), Given(call), ~call.nofollow)

\* "path resolution equivalent to what would normally happen when canonicalizing
\* a path using real chroot" (doc/chroot:17), for links as they are stored: the
\* path that goes to the underlying call and to the database is the canonical path
\* of the file that the kernel, with the chroot directory as its root, finds for
\* the request.  It need not be where the way leads over more than
\* PSEUDO_MAX_LINK_RECURSION links, and where the request does not fit the buffer
\* together with its base.  The other half of that sentence, about links that are
\* made in a chroot, is not kept by the code and no part of this.
AgreesWithKernel ==
    pc \in {"done", "handed"} /\ Comparable /\ Fits(call) =>
        \A q \in Wanted : Base(StripSlash(newpath)) = q

\* Every walk ends, also in a file system full of circular links
\* (PSEUDO_MAX_LINK_RECURSION).
WalkEnds == pc = "walk" ~> pc = "idle"
=============================================================================
