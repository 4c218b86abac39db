--------------------------- MODULE PathFix_proof ---------------------------
(***************************************************************************)
(* Theorems about PathFix, for every file system, every request and every  *)
(* bound.  The walk never leaves the chroot directory because the part of  *)
(* newpath up to root is never changed: ".." stops there, an absolute link *)
(* goes back to it, and everything else appends.                           *)
(*                                                                         *)
(* The result is the kernel's because the kernel, set down where the walk  *)
(* is and given what the walk has still to take, finds at every step what  *)
(* it finds for the request (Tracks).  The kernel's lookup is a recursive  *)
(* function, so it has to be shown that it exists (TailRecursion), and     *)
(* that it gives a canonical path back is shown by induction on its length *)
(* (SetInduction).  That a walk ends needs fairness and is checked by TLC  *)
(* only.                                                                   *)
(***************************************************************************)
EXTENDS PathFix, WellFoundedInduction, TLAPS

\* The request starts in the chroot directory or below it.
Inside == call.req.abs \/ Below(chroot, BasePath(call))

\* What is fixed is there, and inside the chroot directory it is that directory.
Rooted ==
    /\ root <= Len(newpath)
    /\ pc \notin {"idle", "handed"} /\ Inside =>
          root = Len(chroot) /\ Below(chroot, newpath)

\* There is room for a slash at the end, until it is there, and the calls of
\* pseudo_append_elements() in progress are as many as links may be nested; a path
\* is handed on only where there is no room for it.
Bounded ==
    /\ pc = "walk" => /\ Len(newpath) < MaxLen
                      /\ frames # << >> /\ Len(frames) <= MaxLinkRecursion + 1
    /\ pc # "walk" => frames = << >>
    /\ pc = "handed" => ~Fits(call)
    /\ pc = "idle" => newpath = << >> /\ root = 0

IInv == TypeOK /\ Rooted /\ Bounded
-----------------------------------------------------------------------------
\* The bounds are numbers.
LEMMA BoundsType == MaxLinkRecursion \in Nat /\ MaxLen \in Nat /\ MaxCalls \in Nat
BY PathAssumption

\* A prefix, element by element.
LEMMA PrefixElements ==
    ASSUME NEW s \in Path, NEW t \in Path
    PROVE  Below(s, t) <=> Len(s) <= Len(t) /\ \A i \in 1..Len(s) : s[i] = t[i]
<1>1. Below(s, t) => Len(s) <= Len(t) /\ \A i \in 1..Len(s) : s[i] = t[i]
  <2>1. SUFFICES ASSUME Len(s) <= Len(t), SubSeq(s, 1, Len(s)) = SubSeq(t, 1, Len(s)),
                        NEW i \in 1..Len(s)
                 PROVE  s[i] = t[i]
    BY DEF Below, IsPrefix
  <2>2. SubSeq(s, 1, Len(s))[i] = s[i] /\ SubSeq(t, 1, Len(s))[i] = t[i]
    BY <2>1 DEF Path
  <2> QED BY <2>1, <2>2
<1>2. ASSUME Len(s) <= Len(t), \A i \in 1..Len(s) : s[i] = t[i]
      PROVE  Below(s, t)
  <2>1. SubSeq(s, 1, Len(s)) = SubSeq(t, 1, Len(s))
    BY <1>2 DEF Path
  <2> QED BY <1>2, <2>1 DEF Below, IsPrefix
<1> QED BY <1>1, <1>2

\* Appending gives a path.
LEMMA AppendType ==
    ASSUME NEW t \in Path, NEW e \in Elements
    PROVE  Append(t, e) \in Path /\ Len(Append(t, e)) = Len(t) + 1
BY DEF Path

\* Appending keeps a prefix.
LEMMA AppendPrefix ==
    ASSUME NEW s \in Path, NEW t \in Path, NEW e \in Elements, Below(s, t)
    PROVE  Append(t, e) \in Path /\ Len(Append(t, e)) = Len(t) + 1 /\ Below(s, Append(t, e))
<1>1. Append(t, e) \in Path /\ Len(Append(t, e)) = Len(t) + 1
  BY DEF Path
<1>2. \A i \in 1..Len(t) : Append(t, e)[i] = t[i]
  BY DEF Path
<1>3. Len(s) <= Len(t) /\ \A i \in 1..Len(s) : s[i] = t[i]
  BY PrefixElements
<1>4. Len(s) \in Nat /\ Len(t) \in Nat
  BY DEF Path
<1>5. \A i \in 1..Len(s) : s[i] = Append(t, e)[i]
  BY <1>2, <1>3, <1>4
<1>6. Len(s) <= Len(Append(t, e))
  BY <1>1, <1>3, <1>4
<1>7. Below(s, Append(t, e))
  BY <1>1, <1>5, <1>6, PrefixElements
<1> QED BY <1>1, <1>7

\* Cutting off what is beyond a prefix keeps it.
LEMMA CutPrefix ==
    ASSUME NEW s \in Path, NEW t \in Path, NEW n \in Nat, n <= Len(t)
    PROVE  /\ SubSeq(t, 1, n) \in Path /\ Len(SubSeq(t, 1, n)) = n
           /\ Below(s, t) /\ Len(s) <= n => Below(s, SubSeq(t, 1, n))
<1>1. SubSeq(t, 1, n) \in Path /\ Len(SubSeq(t, 1, n)) = n
  BY DEF Path
<1>2. \A i \in 1..n : SubSeq(t, 1, n)[i] = t[i]
  BY DEF Path
<1>3. ASSUME Below(s, t), Len(s) <= n PROVE Below(s, SubSeq(t, 1, n))
  <2>1. \A i \in 1..Len(s) : s[i] = t[i]
    BY <1>3, PrefixElements
  <2>2. Len(s) \in Nat
    BY DEF Path
  <2>3. \A i \in 1..Len(s) : s[i] = SubSeq(t, 1, n)[i]
    BY <1>2, <1>3, <2>1, <2>2
  <2> QED BY <1>1, <1>3, <2>3, PrefixElements
<1> QED BY <1>1, <1>3

\* The same for all but the last element.
LEMMA FrontPrefix ==
    ASSUME NEW s \in Path, NEW t \in Path, Len(t) > 0
    PROVE  /\ Front(t) \in Path /\ Len(Front(t)) = Len(t) - 1
           /\ Below(s, t) /\ Len(s) < Len(t) => Below(s, Front(t))
<1> DEFINE n == Len(t) - 1
<1>1. n \in Nat /\ n <= Len(t) /\ Len(s) \in Nat /\ Len(t) \in Nat
  BY DEF Path
<1>2. Front(t) = SubSeq(t, 1, n)
  BY DEF Front
<1> HIDE DEF n
<1>3. /\ Front(t) \in Path /\ Len(Front(t)) = n
      /\ Below(s, t) /\ Len(s) <= n => Below(s, Front(t))
  BY <1>1, <1>2, CutPrefix
<1> QED BY <1>1, <1>3 DEF n

\* A path with its trailing slash taken off is a path.
LEMMA BaseStripType ==
    ASSUME NEW t \in Path
    PROVE  /\ Base(t) \in Path /\ Len(Base(t)) <= Len(t)
           /\ StripSlash(t) \in Path /\ Len(StripSlash(t)) <= Len(t)
<1>1. << >> \in Path /\ Len(<< >>) = 0 /\ Len(t) \in Nat
  BY DEF Path
<1>2. Len(t) > 1 => Front(t) \in Path /\ Len(Front(t)) = Len(t) - 1
  BY <1>1, FrontPrefix
<1>3. Base(t) = << >> \/ Base(t) = t
  BY DEF Base
<1>4. \/ StripSlash(t) = t
      \/ Len(t) > 1 /\ StripSlash(t) = Front(t)
  BY DEF StripSlash
<1>5. Len(t) > 1 => Front(t) \in Path /\ Len(Front(t)) <= Len(t)
  BY <1>1, <1>2 DEF Path
<1>6. \A b : b = << >> \/ b = t => b \in Path /\ Len(b) <= Len(t)
  BY <1>1
<1>7. \A b : b = t \/ (Len(t) > 1 /\ b = Front(t)) => b \in Path /\ Len(b) <= Len(t)
  BY <1>1, <1>5
<1>8. Base(t) \in Path /\ Len(Base(t)) <= Len(t)
  BY <1>3, <1>6, Zenon
<1>9. StripSlash(t) \in Path /\ Len(StripSlash(t)) <= Len(t)
  BY <1>4, <1>7, Zenon
<1> QED BY <1>8, <1>9

\* A sequence of names is a path.
LEMMA PathType ==
    ASSUME NEW q \in Seq(Names)
    PROVE  /\ q \in Path /\ << >> \in Path /\ Len(q) \in Nat
           /\ \A i \in 1 .. Len(q) : q[i] \in Names
<1>1. Len(q) \in Nat /\ DOMAIN q = 1 .. Len(q) /\ \A i \in 1 .. Len(q) : q[i] \in Names
  OBVIOUS
<1>2. \A i \in 1 .. Len(q) : q[i] \in Elements
  BY <1>1, Zenon DEF Elements
<1>3. q \in Seq(Elements)
  BY <1>1, <1>2
<1> QED BY <1>1, <1>3 DEF Path

\* What is known of a file system.
LEMMA TreeFacts ==
    ASSUME NEW f \in Filesystems
    PROVE  /\ DOMAIN f \subseteq Seq(Names) /\ DOMAIN f \subseteq Path
           /\ << >> \in DOMAIN f /\ f[<< >>].kind = "dir"
           /\ \A q \in DOMAIN f : f[q] \in Node
           /\ \A q \in DOMAIN f : \A n \in 0 .. Len(q) - 1 :
                 SubSeq(q, 1, n) \in DOMAIN f /\ f[SubSeq(q, 1, n)].kind = "dir"
<1>1. IsTree(f)
  BY PathAssumption
<1> QED BY <1>1, PathType DEF IsTree

\* lstat() answers with a kind of file.
LEMMA LstatType ==
    ASSUME TypeOK, NEW path
    PROVE  /\ Lstat(path) \in {"none", "dir", "file", "link"}
           /\ Lstat(path) # "none" => FileAt(path) \in Node
<1>1. ASSUME Found(path) # {} PROVE FileAt(path) \in Node
  <2>1. (CHOOSE q \in Found(path) : TRUE) \in DOMAIN fs
    BY <1>1 DEF Found
  <2> QED BY <2>1, TreeFacts DEF FileAt, TypeOK
<1>2. CASE Found(path) = {}
  BY <1>2 DEF Lstat
<1>3. CASE Found(path) # {}
  BY <1>1, <1>3 DEF Lstat, Node
<1> QED BY <1>2, <1>3
-----------------------------------------------------------------------------
\* The base of a call is a path, and what is fixed of it is there.
LEMMA BaseType ==
    ASSUME TypeOK, NEW c, c.req.abs \in BOOLEAN
    PROVE  /\ BasePath(c) \in Path
           /\ MinLen(c) \in Nat /\ MinLen(c) <= Len(BasePath(c))
           /\ c.req.abs \/ Below(chroot, BasePath(c)) =>
                 MinLen(c) = Len(chroot) /\ Below(chroot, BasePath(c))
<1>1. chroot \in Path /\ Len(chroot) \in Nat /\ cwd \in Path /\ dirfd \in Path
  BY DEF TypeOK, Path
<1>2. Base(cwd) \in Path /\ Base(dirfd) \in Path
  BY <1>1, BaseStripType
<1>3. BasePath(c) \in Path
  BY <1>1, <1>2 DEF BasePath
<1>4. c.req.abs => Below(chroot, BasePath(c))
  <2>1. Below(chroot, chroot)
    BY <1>1, PrefixElements
  <2> QED BY <2>1 DEF BasePath
<1>5. Below(chroot, BasePath(c)) => Len(chroot) <= Len(BasePath(c))
  BY <1>1, <1>3, PrefixElements
<1>6. Len(BasePath(c)) \in Nat
  BY <1>3 DEF Path
<1>7. \/ MinLen(c) = Len(chroot) /\ Below(chroot, BasePath(c))
      \/ MinLen(c) = 0 /\ ~(c.req.abs \/ Below(chroot, BasePath(c)))
  BY <1>4 DEF MinLen
<1> QED BY <1>1, <1>3, <1>4, <1>5, <1>6, <1>7

\* The path as it was given is a path.
LEMMA GivenType ==
    ASSUME NEW c, c.req.elems \in Path
    PROVE  Given(c) \in Path
<1>1. Append(c.req.elems, "") \in Path
  <2>1. "" \in Elements
    BY DEF Elements
  <2> QED BY <2>1, AppendType
<1> QED BY <1>1 DEF Given

\* A sequence without its last element.
LEMMA FrontType ==
    ASSUME NEW T, NEW t \in Seq(T), t # << >>
    PROVE  Front(t) \in Seq(T) /\ Len(Front(t)) = Len(t) - 1
<1> DEFINE n == Len(t) - 1
<1>1. n \in Nat /\ n <= Len(t)
  OBVIOUS
<1> HIDE DEF n
<1>2. SubSeq(t, 1, n) \in Seq(T) /\ Len(SubSeq(t, 1, n)) = n
  BY <1>1
<1> QED BY <1>2 DEF Front, n

\* What the walk works on: the first of the elements that are left.
LEMMA WalkType ==
    ASSUME IInv, pc = "walk", Top.todo # << >>
    PROVE  /\ Element \in Elements
           /\ Advanced \in Seq([todo : Path, leave : BOOLEAN])
           /\ Len(Advanced) = Len(frames)
<1> DEFINE F == [todo : Path, leave : BOOLEAN]
<1>1. frames \in Seq(F) /\ frames # << >>
  BY DEF IInv, TypeOK, Bounded
<1> HIDE DEF F
<1>2. Len(frames) \in 1..Len(frames)
  BY <1>1
<1>3. Top \in F
  BY <1>1, <1>2 DEF Top, Last
<1>4. Top.todo \in Path /\ Top.leave \in BOOLEAN
  BY <1>3 DEF F
<1>5. Element \in Elements /\ Tail(Top.todo) \in Path
  BY <1>4 DEF Element, Path
<1>6. [Top EXCEPT !.todo = Tail(@)] \in F
  BY <1>3, <1>5 DEF F
<1>7. Front(frames) \in Seq(F) /\ Len(Front(frames)) = Len(frames) - 1
  BY <1>1, FrontType
<1>8. Advanced \in Seq(F) /\ Len(Advanced) = Len(frames)
  BY <1>1, <1>6, <1>7 DEF Advanced
<1> QED BY <1>5, <1>8 DEF F

\* The invariant holds at the start.
LEMMA InitInv == Init => IInv
<1> SUFFICES ASSUME Init PROVE IInv
  OBVIOUS
<1>1. << >> \in Path /\ Len(<< >>) = 0
  BY DEF Path
<1>2. TypeOK
  BY <1>1, BoundsType DEF Init, TypeOK
<1>3. Rooted
  BY <1>1 DEF Init, Rooted
<1>4. Bounded
  BY DEF Init, Bounded
<1> QED BY <1>2, <1>3, <1>4 DEF IInv

\* Starting a call.
LEMMA StartInv == IInv /\ pseudo_root_path => IInv'
<1> SUFFICES ASSUME IInv, pseudo_root_path PROVE IInv'
  OBVIOUS
<1> USE DEF IInv
<1>1. PICK c \in CallShapes :
         /\ Fits(c)
         /\ call' = c /\ root' = MinLen(c) /\ newpath' = BasePath(c)
         /\ mode' = IF Len(BasePath(c)) > MinLen(c) THEN Lstat(BasePath(c)) ELSE "dir"
         /\ frames' = << [todo |-> c.req.elems, leave |-> c.nofollow /\ ~c.req.slash] >>
  BY DEF pseudo_root_path
<1>2. c.req \in Requests /\ c.nofollow \in BOOLEAN
  BY DEF CallShapes
<1>3. c.req.abs \in BOOLEAN /\ c.req.elems \in Path /\ c.req.slash \in BOOLEAN
  BY <1>2, PathAssumption
<1>4. /\ BasePath(c) \in Path
      /\ MinLen(c) \in Nat /\ MinLen(c) <= Len(BasePath(c))
      /\ c.req.abs \/ Below(chroot, BasePath(c)) =>
            MinLen(c) = Len(chroot) /\ Below(chroot, BasePath(c))
  BY <1>3, BaseType
<1>5. Len(BasePath(c)) \in Nat /\ Len(Given(c)) \in Nat /\ MaxLen \in Nat
  BY <1>3, <1>4, BoundsType, GivenType DEF Path
<1>6. Len(newpath') < MaxLen
  BY <1>1, <1>5 DEF Fits
<1>7. frames' \in Seq([todo : Path, leave : BOOLEAN]) /\ Len(frames') = 1
  BY <1>1, <1>2, <1>3
<1>8. mode' \in {"none", "dir", "file", "link"}
  BY <1>1, LstatType
<1>9. calls' \in 0..MaxCalls
  BY BoundsType DEF pseudo_root_path, TypeOK
<1>10. Len(newpath') <= MaxLen
  BY <1>1, <1>4, <1>5, <1>6
<1>11. TypeOK'
  BY <1>1, <1>4, <1>7, <1>8, <1>9, <1>10 DEF TypeOK, pseudo_root_path
<1>12. Rooted'
  <2>1. BasePath(c)' = BasePath(c) /\ UNCHANGED << chroot, cwd, dirfd >>
    BY DEF pseudo_root_path, BasePath
  <2>2. Inside' => c.req.abs \/ Below(chroot, BasePath(c))
    BY <1>1, <2>1 DEF Inside
  <2> QED BY <1>1, <1>4, <2>1, <2>2 DEF Rooted
<1>13. Bounded'
  <2>1. frames' # << >> /\ Len(frames') <= MaxLinkRecursion + 1
    BY <1>7, BoundsType
  <2> QED BY <1>6, <2>1 DEF Bounded, pseudo_root_path
<1> QED BY <1>11, <1>12, <1>13

\* A path that is handed on.
LEMMA HandOnInv == IInv /\ HandOn => IInv'
<1> SUFFICES ASSUME IInv, HandOn PROVE IInv'
  OBVIOUS
<1>1. PICK c \in CallShapes : ~Fits(c) /\ call' = c /\ newpath' = Given(c)
  BY DEF HandOn
<1>2. /\ pc = "idle" /\ pc' = "handed" /\ calls' = calls + 1 /\ calls < MaxCalls
      /\ UNCHANGED << fs, cwd, chroot, dirfd, fddir, root, mode, frames >>
  BY DEF HandOn
<1>3. newpath' \in Path /\ Len(newpath') \in Nat
  <2>1. c.req.elems \in Path
    <3>1. c.req \in Requests
      BY DEF CallShapes
    <3> QED BY <3>1, PathAssumption
  <2>2. newpath' \in Path
    BY <1>1, <2>1, GivenType
  <2> QED BY <2>2 DEF Path
<1>4. calls' \in 0..MaxCalls
  BY <1>2, BoundsType DEF IInv, TypeOK
<1>5. TypeOK'
  BY <1>1, <1>2, <1>3, <1>4 DEF IInv, TypeOK
<1>6. Rooted'
  <2>1. root' = 0
    BY <1>2 DEF IInv, Bounded
  <2> QED BY <1>2, <1>3, <2>1 DEF Rooted
<1>7. Bounded'
  <2>1. Fits(c)' = Fits(c)
    BY <1>2 DEF Fits, BasePath
  <2>2. frames' = << >>
    BY <1>2 DEF IInv, Bounded
  <2> QED BY <1>1, <1>2, <2>1, <2>2 DEF Bounded
<1> QED BY <1>5, <1>6, <1>7 DEF IInv

\* What is common to the steps of a walk: it is enough that the new path keeps
\* the part that is fixed.
LEMMA WalkInv ==
    ASSUME IInv, pc = "walk", UNCHANGED << fs, cwd, chroot, dirfd, fddir, call, root, calls >>,
           newpath' \in Path, Len(newpath') <= MaxLen,
           root <= Len(newpath'),
           Inside => Below(chroot, newpath'),
           mode' \in {"none", "dir", "file", "link"},
           frames' \in Seq([todo : Path, leave : BOOLEAN]),
           \/ /\ pc' = "walk" /\ Len(newpath') < MaxLen
              /\ frames' # << >> /\ Len(frames') <= MaxLinkRecursion + 1
           \/ pc' \in {"done", "failed"} /\ frames' = << >>
    PROVE  IInv'
<1>1. TypeOK'
  BY DEF IInv, TypeOK
<1>2. Rooted'
  <2>1. Inside' = Inside
    BY DEF Inside, BasePath
  <2>2. Inside => root = Len(chroot)
    BY DEF IInv, Rooted
  <2> QED BY <2>1, <2>2 DEF Rooted
<1>3. Bounded'
  BY DEF Bounded
<1> QED BY <1>1, <1>2, <1>3 DEF IInv

\* Every step of a walk keeps the invariant.
LEMMA WalkStep == IInv /\ Walk => IInv'
<1> SUFFICES ASSUME IInv, Walk PROVE IInv'
  OBVIOUS
<1> DEFINE F == [todo : Path, leave : BOOLEAN]
<1>1. /\ pc = "walk"
      /\ newpath \in Path /\ chroot \in Path /\ frames \in Seq(F) /\ frames # << >>
      /\ mode \in {"none", "dir", "file", "link"}
      /\ UNCHANGED << fs, cwd, chroot, dirfd, fddir, call, root, calls >>
  BY DEF IInv, TypeOK, Bounded, Walk, SkipElement, BackUp, AppendElement, ExpandLink,
         OverflowPath, ReturnElements, FixPathDone, Walking, Appends, Fixed
<1>2. Len(newpath) \in Nat /\ Len(chroot) \in Nat /\ Len(frames) \in Nat \ {0} /\ root \in Nat
  BY <1>1 DEF IInv, TypeOK, Path
<1>3. Len(newpath) < MaxLen /\ Len(frames) <= MaxLinkRecursion + 1 /\ root <= Len(newpath)
  BY <1>1 DEF IInv, Bounded, Rooted
<1>4. Inside => root = Len(chroot) /\ Below(chroot, newpath)
  BY <1>1 DEF IInv, Rooted
<1> HIDE DEF F
<1>5. CASE SkipElement
  <2>1. newpath' = newpath /\ mode' = mode /\ pc' = pc /\ frames' = Advanced
    BY <1>5 DEF SkipElement, Fixed
  <2>2. frames' \in Seq(F) /\ Len(frames') = Len(frames)
    BY <1>5, <2>1, WalkType DEF SkipElement, Walking, F
  <2>3. frames' # << >> /\ Len(frames') <= MaxLinkRecursion + 1 /\ Len(newpath') <= MaxLen
    BY <1>2, <1>3, <2>1, <2>2, BoundsType
  <2> QED BY <1>1, <1>3, <1>4, <2>1, <2>2, <2>3, WalkInv DEF F
<1>6. CASE BackUp
  <2>1. mode' = mode /\ pc' = pc /\ frames' = Advanced
    BY <1>6 DEF BackUp, Fixed
  <2>2. frames' \in Seq(F) /\ Len(frames') = Len(frames)
    BY <1>6, <2>1, WalkType DEF BackUp, Walking, F
  <2>3. \/ newpath' = newpath
        \/ Len(newpath) > root /\ newpath' = Front(newpath)
    BY <1>6 DEF BackUp
  <2>4. ASSUME Len(newpath) > root, newpath' = Front(newpath)
        PROVE  /\ newpath' \in Path /\ Len(newpath') = Len(newpath) - 1
               /\ Inside => Below(chroot, newpath')
    BY <1>1, <1>2, <1>4, <2>4, FrontPrefix
  <2>5. newpath' \in Path /\ Len(newpath') <= Len(newpath) /\ root <= Len(newpath')
        /\ (Inside => Below(chroot, newpath'))
    BY <1>1, <1>2, <1>3, <1>4, <2>3, <2>4
  <2>6. Len(newpath') \in Nat
    BY <2>5 DEF Path
  <2>7. /\ frames' # << >> /\ Len(frames') <= MaxLinkRecursion + 1
        /\ Len(newpath') <= MaxLen /\ Len(newpath') < MaxLen
    BY <1>2, <1>3, <2>2, <2>5, <2>6, BoundsType
  <2> QED BY <1>1, <2>1, <2>2, <2>5, <2>7, WalkInv DEF F
<1>7. CASE AppendElement
  <2>1. /\ newpath' = Append(newpath, Element) /\ mode' = Lstat(newpath')
        /\ pc' = pc /\ frames' = Advanced /\ ~(Len(newpath) + 1 >= MaxLen)
    BY <1>7 DEF AppendElement, Fixed, TooLong
  <2>2. frames' \in Seq(F) /\ Len(frames') = Len(frames) /\ Element \in Elements
    BY <1>7, <2>1, WalkType DEF AppendElement, Appends, Walking, F
  <2>3. newpath' \in Path /\ Len(newpath') = Len(newpath) + 1
    BY <1>1, <2>1, <2>2 DEF Path
  <2>4. Inside => Below(chroot, newpath')
    BY <1>1, <1>4, <2>1, <2>2, AppendPrefix
  <2>5. mode' \in {"none", "dir", "file", "link"}
    BY <1>1, <2>1, LstatType DEF IInv, Lstat, Found, FileAt, Lookup
  <2>6. /\ frames' # << >> /\ Len(frames') <= MaxLinkRecursion + 1
        /\ Len(newpath') <= MaxLen /\ Len(newpath') < MaxLen /\ root <= Len(newpath')
    BY <1>2, <1>3, <2>1, <2>2, <2>3, BoundsType
  <2> QED BY <1>1, <2>1, <2>2, <2>3, <2>4, <2>5, <2>6, WalkInv DEF F
<1>8. CASE ExpandLink
  <2> DEFINE l == FileAt(Append(newpath, Element))
  <2>1. /\ newpath' = IF l.abs THEN SubSeq(newpath, 1, root) ELSE newpath
        /\ frames' = Append(Advanced, [todo |-> l.to, leave |-> FALSE])
        /\ mode' = "dir" /\ pc' = pc
        /\ Lstat(Append(newpath, Element)) = "link"
        /\ Len(frames) <= MaxLinkRecursion
    BY <1>8 DEF ExpandLink, Fixed, IsLink
  <2>2. l \in Node
    BY <2>1, LstatType DEF IInv
  <2> HIDE DEF l
  <2>3. Advanced \in Seq(F) /\ Len(Advanced) = Len(frames)
    BY <1>8, WalkType DEF ExpandLink, Appends, Walking, F
  <2>4. [todo |-> l.to, leave |-> FALSE] \in F
    BY <2>2 DEF Node, F
  <2>5. frames' \in Seq(F) /\ Len(frames') = Len(frames) + 1
    BY <2>1, <2>3, <2>4
  <2>6. /\ SubSeq(newpath, 1, root) \in Path /\ Len(SubSeq(newpath, 1, root)) = root
        /\ Inside => Below(chroot, SubSeq(newpath, 1, root))
    BY <1>1, <1>2, <1>3, <1>4, CutPrefix
  <2>7. newpath' = SubSeq(newpath, 1, root) \/ newpath' = newpath
    BY <2>1
  <2>8. /\ newpath' \in Path /\ root <= Len(newpath') /\ Len(newpath') <= Len(newpath)
        /\ Inside => Below(chroot, newpath')
    <3>1. CASE newpath' = SubSeq(newpath, 1, root)
      BY <1>2, <1>3, <2>6, <3>1
    <3>2. CASE newpath' = newpath
      BY <1>1, <1>2, <1>3, <1>4, <3>2
    <3> QED BY <2>7, <3>1, <3>2
  <2>9. Len(newpath') \in Nat
    BY <2>8 DEF Path
  <2>10. /\ frames' # << >> /\ Len(frames') <= MaxLinkRecursion + 1
         /\ Len(newpath') <= MaxLen /\ Len(newpath') < MaxLen
    BY <1>2, <1>3, <2>1, <2>5, <2>8, <2>9, BoundsType
  <2> QED BY <1>1, <2>1, <2>5, <2>8, <2>10, WalkInv DEF F
<1>9. CASE OverflowPath
  <2>1. newpath' = newpath /\ mode' = mode /\ pc' = "failed" /\ frames' = << >>
    BY <1>9 DEF OverflowPath
  <2>2. Len(newpath') <= MaxLen /\ frames' \in Seq(F)
    BY <1>2, <1>3, <2>1, BoundsType
  <2> QED BY <1>1, <1>3, <1>4, <2>1, <2>2, WalkInv DEF F
<1>10. CASE ReturnElements
  <2>1. /\ newpath' = newpath /\ mode' = mode /\ pc' = pc
        /\ Len(frames) > 1 /\ frames' = Front(frames)
    BY <1>10 DEF ReturnElements, Fixed
  <2>2. frames' \in Seq(F) /\ Len(frames') = Len(frames) - 1
    BY <1>1, <2>1, FrontType
  <2>3. frames' # << >> /\ Len(frames') <= MaxLinkRecursion + 1 /\ Len(newpath') <= MaxLen
    BY <1>2, <1>3, <2>1, <2>2, BoundsType
  <2> QED BY <1>1, <1>3, <1>4, <2>1, <2>2, <2>3, WalkInv DEF F
<1>11. CASE FixPathDone
  <2> DEFINE w == Append(newpath, "")
  <2>1. /\ newpath' = w \/ newpath' = newpath
        /\ mode' = mode /\ pc' = "done" /\ frames' = << >>
    BY <1>11 DEF FixPathDone
  <2>2. "" \in Elements
    BY DEF Elements
  <2>3. w \in Path /\ Len(w) = Len(newpath) + 1
    BY <1>1, <2>2, AppendType
  <2>4. Inside => Below(chroot, w)
    BY <1>1, <1>4, <2>2, AppendPrefix
  <2> HIDE DEF w
  <2>5. Len(w) <= MaxLen /\ root <= Len(w) /\ Len(newpath) <= MaxLen
    BY <1>2, <1>3, <2>3, BoundsType
  <2>6. newpath' \in Path /\ Len(newpath') <= MaxLen /\ root <= Len(newpath')
        /\ (Inside => Below(chroot, newpath'))
    <3>1. CASE newpath' = w
      BY <2>3, <2>4, <2>5, <3>1
    <3>2. CASE newpath' = newpath
      BY <1>1, <1>3, <1>4, <2>5, <3>2
    <3> QED BY <2>1, <3>1, <3>2
  <2>7. << >> \in Seq(F)
    OBVIOUS
  <2> QED BY <1>1, <2>1, <2>6, <2>7, WalkInv DEF F
<1> QED BY <1>5, <1>6, <1>7, <1>8, <1>9, <1>10, <1>11 DEF Walk

\* The end of a call, and fchdir(), keep the invariant.
LEMMA CallStep == IInv /\ (Finish \/ fchdir) => IInv'
<1> SUFFICES ASSUME IInv, Finish \/ fchdir PROVE IInv'
  OBVIOUS
<1>1. << >> \in Path /\ Len(<< >>) = 0
  BY DEF Path
<1>2. /\ newpath \in Path /\ cwd \in Path /\ chroot \in Path
      /\ dirfd \in Path /\ fddir \in Path
  BY DEF IInv, TypeOK
<1>3. StripSlash(newpath) \in Path /\ Base(StripSlash(newpath)) \in Path
  BY <1>2, BaseStripType
<1>4. Reached # {} => (CHOOSE q \in Reached : TRUE) \in Path
  <2>1. DOMAIN fs \subseteq Path
    BY TreeFacts DEF IInv, TypeOK
  <2> QED BY <2>1 DEF Reached
<1>5. frames' = frames /\ calls' \in 0..MaxCalls /\ fs' = fs
  BY BoundsType DEF IInv, TypeOK, Finish, chdir, pseudo_client_chroot, open, Refused,
                    fchdir, walk
<1>6. cwd' \in Path /\ chroot' \in Path /\ dirfd' \in Path /\ fddir' \in Path
  BY <1>2, <1>3, <1>4 DEF Finish, chdir, pseudo_client_chroot, open, Refused, fchdir
<1>7. /\ pc' = "idle" /\ newpath' = << >> /\ root' = 0 /\ mode' \in {"none", "dir", "file", "link"}
      /\ call' \in CallShapes \cup {NoCall} /\ frames = << >>
  <2>1. CASE Finish
    BY <2>1 DEF IInv, Bounded, Finish, chdir, pseudo_client_chroot, open, Refused, Return
  <2>2. CASE fchdir
    BY <2>2 DEF IInv, TypeOK, Bounded, fchdir, walk
  <2> QED BY <2>1, <2>2
<1>8. TypeOK'
  BY <1>1, <1>5, <1>6, <1>7, BoundsType DEF IInv, TypeOK
<1>9. Rooted' /\ Bounded'
  BY <1>1, <1>5, <1>7 DEF Rooted, Bounded
<1> QED BY <1>8, <1>9 DEF IInv

\* The invariant is inductive.
LEMMA NextInv == IInv /\ [Next]_vars => IInv'
<1> SUFFICES ASSUME IInv, [Next]_vars PROVE IInv'
  OBVIOUS
<1>1. CASE Next
  BY <1>1, StartInv, HandOnInv, WalkStep, CallStep DEF Next
<1>2. CASE UNCHANGED vars
  <2>1. UNCHANGED << fs, cwd, chroot, dirfd, fddir, call, newpath, root, mode, frames,
                     pc, calls >>
    BY <1>2 DEF vars, walk
  <2>2. TypeOK'
    BY <2>1 DEF IInv, TypeOK
  <2>3. Rooted'
    BY <2>1 DEF IInv, Rooted, Inside, BasePath
  <2>4. Bounded'
    BY <2>1 DEF IInv, Bounded, Fits, BasePath
  <2> QED BY <2>2, <2>3, <2>4 DEF IInv
<1> QED BY <1>1, <1>2

\* The variables have their types and the path fits its buffer, for every file
\* system and request (pseudo_append_element).
THEOREM TypesHold == Spec => []TypeOK
<1>1. IInv => TypeOK
  BY DEF IInv
<1> QED BY <1>1, InitInv, NextInv, PTL DEF Spec

\* No path that fits the buffer together with its base, and no links, take a call
\* out of the chroot directory, and a walk nests no deeper than
\* PSEUDO_MAX_LINK_RECURSION (pseudo_append_element, base_path).  A path that does
\* not fit is handed on without that directory (pseudo_util.c:824).
THEOREM ChrootHolds == Spec => []StaysBelowRoot
<1>1. IInv => StaysBelowRoot
  <2> SUFFICES ASSUME IInv, pc \in {"walk", "done", "handed"}
               PROVE  /\ Inside /\ Fits(call) => Below(chroot, newpath)
                      /\ Len(frames) <= MaxLinkRecursion + 1
    BY DEF StaysBelowRoot, Inside
  <2>1. Inside /\ Fits(call) => Below(chroot, newpath)
    BY DEF IInv, Rooted, Bounded
  <2>2. Len(<< >>) = 0
    OBVIOUS
  <2>3. Len(frames) <= MaxLinkRecursion + 1
    BY <2>2, BoundsType DEF IInv, Bounded
  <2> QED BY <2>1, <2>3
<1> QED BY <1>1, InitInv, NextInv, PTL DEF Spec
-----------------------------------------------------------------------------
(* The kernel's lookup *)

TailRecursive(K, S, D, val, next) ==
    /\ K = [w \in S |-> K[w]]
    /\ \A w \in S : K[w] = IF w \in D THEN val[w] ELSE K[next[w]]

\* Going from one element of S to the next until one of D is reached computes
\* something, whether or not it ends everywhere: a function that is defined in
\* this way exists.  Its value is found at the end of the chain from w.
LEMMA TailRecursion ==
    ASSUME NEW S, NEW D, NEW val, NEW next \in [S -> S]
    PROVE  \E K : TailRecursive(K, S, D, val, next)
<1> DEFINE Chain(w, u, n, c) ==
               /\ c[0] = w /\ c[n] = u
               /\ \A i \in 0 .. n - 1 : c[i] \notin D /\ c[i + 1] = next[c[i]]
           Ends(w) == {u \in S \cap D : \E n \in Nat : \E c \in [0 .. n -> S] : Chain(w, u, n, c)}
           K == [w \in S |-> UNION {val[u] : u \in Ends(w)}]
<1>1. ASSUME NEW w \in S, w \in D PROVE Ends(w) = {w}
  <2>1. w \in Ends(w)
    <3>1. [i \in 0 .. 0 |-> w] \in [0 .. 0 -> S] /\ Chain(w, w, 0, [i \in 0 .. 0 |-> w])
      OBVIOUS
    <3> QED BY <1>1, <3>1
  <2>2. ASSUME NEW u \in Ends(w) PROVE u = w
    <3>1. PICK n, c : n \in Nat /\ c \in [0 .. n -> S] /\ Chain(w, u, n, c)
      BY <2>2
    <3>2. n = 0
      BY <1>1, <3>1
    <3> QED BY <3>1, <3>2
  <2> QED BY <2>1, <2>2
<1>2. ASSUME NEW w \in S, w \notin D PROVE Ends(w) = Ends(next[w])
  <2>1. ASSUME NEW u \in Ends(w) PROVE u \in Ends(next[w])
    <3>1. PICK n, c : n \in Nat /\ c \in [0 .. n -> S] /\ Chain(w, u, n, c)
      BY <2>1
    <3>2. n # 0
      BY <1>2, <2>1, <3>1
    <3> DEFINE d == [i \in 0 .. n - 1 |-> c[i + 1]]
    <3>3. n - 1 \in Nat /\ d \in [0 .. n - 1 -> S]
      BY <3>1, <3>2
    <3>4. Chain(next[w], u, n - 1, d)
      BY <3>1, <3>2
    <3>5. u \in S \cap D
      BY <2>1
    <3> HIDE DEF Chain, d
    <3> QED BY <3>3, <3>4, <3>5
  <2>2. ASSUME NEW u \in Ends(next[w]) PROVE u \in Ends(w)
    <3>1. PICK n, c : n \in Nat /\ c \in [0 .. n -> S] /\ Chain(next[w], u, n, c)
      BY <2>2
    <3> DEFINE d == [i \in 0 .. n + 1 |-> IF i = 0 THEN w ELSE c[i - 1]]
    <3>2. n + 1 \in Nat /\ d \in [0 .. n + 1 -> S]
      BY <3>1
    <3>3. Chain(w, u, n + 1, d)
      BY <1>2, <3>1
    <3>4. u \in S \cap D
      BY <2>2
    <3> HIDE DEF Chain, d
    <3> QED BY <3>2, <3>3, <3>4
  <2> QED BY <2>1, <2>2
<1>3. ASSUME NEW w \in S PROVE K[w] = IF w \in D THEN val[w] ELSE K[next[w]]
  <2>1. CASE w \in D
    BY <1>1, <2>1
  <2>2. CASE w \notin D
    BY <1>2, <2>2
  <2> QED BY <2>1, <2>2
<1>4. K = [w \in S |-> K[w]]
  OBVIOUS
<1> HIDE DEF K
<1> QED BY <1>3, <1>4 DEF TailRecursive

\* The parts of a walk.
LEMMA WalkFields ==
    ASSUME NEW w \in Walks
    PROVE  /\ w.dir \in Path /\ w.todo \in Path /\ w.follow \in BOOLEAN
           /\ w.links \in Nat /\ w.top \in Path
           /\ w.todo # << >> => /\ Head(w.todo) \in Elements /\ Tail(w.todo) \in Path
                                /\ Len(Tail(w.todo)) = Len(w.todo) - 1
<1>1. w.dir \in Path /\ w.todo \in Path /\ w.follow \in BOOLEAN /\ w.links \in Nat /\ w.top \in Path
  BY DEF Walks
<1> QED BY <1>1 DEF Path

\* A walk goes on to a walk.
LEMMA OnwardType ==
    ASSUME NEW f \in Filesystems, NEW w \in Walks, ~Ended(f, w)
    PROVE  Onward(f, w) \in Walks
<1>1. /\ w.dir \in Path /\ w.todo \in Path /\ w.links \in Nat /\ w.top \in Path
      /\ Head(w.todo) \in Elements /\ Tail(w.todo) \in Path
  BY WalkFields DEF Ended
<1>2. \A d, t \in Path, n \in Nat : Moved(w, d, t, n) \in Walks
  BY DEF Moved, Walks
<1>0. Head(w.todo) \in {"", ".", ".."} => ~Follows(f, w)
  BY PathAssumption DEF Follows
<1>5. CASE Head(w.todo) \in {"", "."}
  <2>1. Onward(f, w) = Moved(w, w.dir, Tail(w.todo), w.links)
    BY <1>0, <1>5 DEF Onward
  <2> QED BY <1>1, <1>2, <2>1
<1>6. CASE Head(w.todo) = ".."
  <2>1. w.dir # << >> => Front(w.dir) \in Path
    BY <1>1, FrontType DEF Path
  <2>2. PICK d : /\ d = IF w.dir \in {w.top, << >>} THEN w.dir ELSE Front(w.dir)
                 /\ Onward(f, w) = Moved(w, d, Tail(w.todo), w.links)
    BY <1>0, <1>6 DEF Onward
  <2> QED BY <1>1, <1>2, <2>1, <2>2
<1>7. CASE Head(w.todo) \notin {"", ".", ".."} /\ Follows(f, w)
  <2>1. f[Here(w)].to \in Path /\ w.links - 1 \in Nat
    <3>1. f[Here(w)] \in Node
      BY <1>7, TreeFacts DEF Follows
    <3>2. w.links # 0
      BY <1>7 DEF Ended
    <3> QED BY <1>1, <3>1, <3>2 DEF Node
  <2>2. f[Here(w)].to \o Tail(w.todo) \in Path
    BY <1>1, <2>1 DEF Path
  <2> QED BY <1>1, <1>2, <1>7, <2>1, <2>2 DEF Onward
<1>8. CASE Head(w.todo) \notin {"", ".", ".."} /\ ~Follows(f, w)
  <2>1. Here(w) \in Path
    BY <1>1, AppendType DEF Here
  <2> QED BY <1>1, <1>2, <1>8, <2>1 DEF Onward
<1> QED BY <1>5, <1>6, <1>7, <1>8

\* The lookup is the recursion that defines it.
LEMMA KernelEquation ==
    ASSUME NEW f \in Filesystems, NEW w \in Walks
    PROVE  Kernel(f)[w] = IF Ended(f, w) THEN Outcome(f, w) ELSE Kernel(f)[Onward(f, w)]
<1> DEFINE D == {u \in Walks : Ended(f, u)}
           val == [u \in Walks |-> Outcome(f, u)]
           next == [u \in Walks |-> IF Ended(f, u) THEN u ELSE Onward(f, u)]
           Is(K) == K = [u \in Walks |-> IF Ended(f, u) THEN Outcome(f, u) ELSE K[Onward(f, u)]]
<1>1. next \in [Walks -> Walks]
  BY OnwardType
<1>2. PICK K : TailRecursive(K, Walks, D, val, next)
  <2> HIDE DEF D, val, next
  <2> QED BY <1>1, TailRecursion, Zenon
<1>3. \A u \in Walks : (IF u \in D THEN val[u] ELSE K[next[u]])
                          = IF Ended(f, u) THEN Outcome(f, u) ELSE K[Onward(f, u)]
  OBVIOUS
<1>4. Is(K)
  BY <1>2, <1>3 DEF TailRecursive
<1>5. Kernel(f) = CHOOSE E : Is(E)
  BY DEF Kernel
<1>6. Is(Kernel(f))
  <2> HIDE DEF Is
  <2> QED BY <1>4, <1>5, Zenon
<1> QED BY <1>6

\* A set that contains 0, and the successor of each of its numbers, contains all
\* numbers: otherwise there would be a least one it does not contain.
LEMMA SetInduction ==
    ASSUME NEW S, 0 \in S, \A n \in Nat : n \in S => n + 1 \in S
    PROVE  \A n \in Nat : n \in S
<1> DEFINE T == {n \in Nat : n \notin S}
<1>1. CASE T # {}
  <2>1. PICK n \in T : \A m \in T : ~(<< m, n >> \in OpToRel(<, Nat))
    <3> HIDE DEF T
    <3>1. T \subseteq Nat
      BY DEF T
    <3> QED BY <1>1, <3>1, WFMin, NatLessThanWellFounded, Zenon
  <2>2. \A m \in T : ~(m < n)
    BY <2>1 DEF OpToRel
  <2>3. n # 0 /\ n - 1 \in Nat /\ n - 1 \notin T
    BY <2>2
  <2> QED BY <2>3
<1> QED BY <1>1

\* The walk that is at d and has t to take.
At(d, t, go, l, top) == [dir |-> d, todo |-> t, follow |-> go, links |-> l, top |-> top]

\* The same walk somewhere else, with something else to take.
LEMMA AtElsewhere ==
    ASSUME NEW d, NEW t, NEW go, NEW l, NEW top, NEW d1, NEW t1, NEW l1
    PROVE  Moved(At(d, t, go, l, top), d1, t1, l1) = At(d1, t1, go, l1, top)
<1> DEFINE w == At(d, t, go, l, top)
           F == {"dir", "todo", "follow", "links", "top"}
           v == [w EXCEPT !.dir = d1, !.todo = t1, !.links = l1]
<1>1. v = [x \in F |-> IF x = "links" THEN l1
                       ELSE IF x = "todo" THEN t1 ELSE IF x = "dir" THEN d1 ELSE w[x]]
  BY DEF At
<1>2. v.dir = d1 /\ v.todo = t1 /\ v.follow = go /\ v.links = l1 /\ v.top = top
  BY DEF At
<1> QED BY <1>1, <1>2 DEF At, Moved

\* Where a walk with nothing left to take has led.
LEMMA EndOfWalk ==
    ASSUME NEW f, NEW w, w.todo = << >>
    PROVE  Ended(f, w) /\ Outcome(f, w) = {w.dir}
<1>1. Len(w.todo) # 1
  <2>1. Len(<< >>) = 0
    OBVIOUS
  <2> QED BY <2>1
<1>2. Ended(f, w)
  BY DEF Ended
<1>3. Outcome(f, w) = {w.dir}
  BY <1>1 DEF Outcome
<1> QED BY <1>2, <1>3

\* A canonical path, looked up from the root, leads to itself, whether or not its
\* last element exists.
LEMMA CanonicalLookup ==
    ASSUME NEW f \in Filesystems, NEW p \in Seq(Names), NEW l \in Nat,
           \A n \in 0 .. Len(p) - 1 : SubSeq(p, 1, n) \in DOMAIN f /\ f[SubSeq(p, 1, n)].kind = "dir"
    PROVE  Kernel(f)[At(<< >>, p, FALSE, l, << >>)] = {p}
<1> DEFINE W(i) == At(SubSeq(p, 1, i), SubSeq(p, i + 1, Len(p)), FALSE, l, << >>)
           S == {i \in Nat : i < Len(p) => Kernel(f)[W(i)] = Kernel(f)[W(0)]}
<1>1. p \in Path /\ << >> \in Path /\ Len(p) \in Nat /\ \A i \in 1 .. Len(p) : p[i] \in Names
  BY PathType
<1>2. SubSeq(p, 1, 0) = << >> /\ SubSeq(p, 1, Len(p)) = p
  BY <1>1
<1>3. \A i : /\ W(i).dir = SubSeq(p, 1, i) /\ W(i).todo = SubSeq(p, i + 1, Len(p))
             /\ ~W(i).follow /\ W(i).links = l
  BY DEF At
<1>4. ASSUME NEW i \in Nat, i <= Len(p) PROVE W(i) \in Walks
  <2>1. SubSeq(p, 1, i) \in Path /\ SubSeq(p, i + 1, Len(p)) \in Path
    BY <1>1, <1>4 DEF Path
  <2> QED BY <1>1, <2>1 DEF At, Walks
<1>5. ASSUME NEW i \in Nat
      PROVE  Moved(W(i), SubSeq(p, 1, i + 1), SubSeq(p, i + 2, Len(p)), l) = W(i + 1)
  <2>1. (i + 1) + 1 = i + 2
    OBVIOUS
  <2>2. W(i + 1) = At(SubSeq(p, 1, i + 1), SubSeq(p, i + 2, Len(p)), FALSE, l, << >>)
    BY <2>1, Zenon
  <2> DEFINE a == SubSeq(p, 1, i)
             b == SubSeq(p, i + 1, Len(p))
             c == SubSeq(p, 1, i + 1)
             d == SubSeq(p, i + 2, Len(p))
             no == FALSE
  <2> HIDE DEF a, b, c, d, no
  <2>3. Moved(At(a, b, no, l, << >>), c, d, l) = At(c, d, no, l, << >>)
    BY AtElsewhere
  <2> QED BY <2>2, <2>3 DEF a, b, c, d, no
<1>6. W(0) = At(<< >>, p, FALSE, l, << >>)
  <2>1. 0 + 1 = 1
    OBVIOUS
  <2> QED BY <1>2, <2>1, Zenon
<1> HIDE DEF W
<1>7. ASSUME NEW i \in Nat, i < Len(p)
      PROVE  /\ W(i).todo # << >> /\ Head(W(i).todo) \in Names
             /\ Here(W(i)) = SubSeq(p, 1, i + 1) /\ InDir(f, W(i))
             /\ Len(W(i).todo) = Len(p) - i /\ Tail(W(i).todo) = SubSeq(p, i + 2, Len(p))
  <2>1. i + 1 \in 1 .. Len(p) /\ p[i + 1] \in Names
    BY <1>1, <1>7
  <2>2. Len(SubSeq(p, i + 1, Len(p))) = Len(p) - i
    BY <1>1, <2>1
  <2>3. SubSeq(p, i + 1, Len(p)) # << >>
    <3>1. Len(<< >>) = 0 /\ Len(p) - i # 0
      BY <1>1, <1>7
    <3> QED BY <2>2, <3>1, Zenon
  <2>4. Head(SubSeq(p, i + 1, Len(p))) = p[i + 1]
    BY <1>1, <2>1, <2>2
  <2>5. Tail(SubSeq(p, i + 1, Len(p))) = SubSeq(p, i + 2, Len(p))
    BY <1>1, <1>7
  <2>6. Append(SubSeq(p, 1, i), p[i + 1]) = SubSeq(p, 1, i + 1)
    BY <1>1, <1>7
  <2>7. InDir(f, W(i))
    <3>1. i \in 0 .. Len(p) - 1
      BY <1>1, <1>7
    <3> QED BY <1>3, <3>1, Zenon DEF InDir
  <2> QED BY <1>3, <2>1, <2>2, <2>3, <2>4, <2>5, <2>6, <2>7 DEF Here
<1>8. ASSUME NEW i \in Nat, i + 1 < Len(p) PROVE Kernel(f)[W(i)] = Kernel(f)[W(i + 1)]
  <2>1. i < Len(p) /\ i <= Len(p) /\ i + 1 \in 0 .. Len(p) - 1
    BY <1>1, <1>8
  <2>2. Here(W(i)) \in DOMAIN f /\ f[Here(W(i))].kind = "dir"
    BY <1>7, <2>1
  <2>3. ~Missing(f, W(i)) /\ ~Follows(f, W(i))
    BY <2>2 DEF Missing, Follows
  <2>4. ~Ended(f, W(i))
    BY <1>7, <2>1, <2>3 DEF Ended
  <2>5. Onward(f, W(i)) = Moved(W(i), Here(W(i)), Tail(W(i).todo), l)
    <3>1. Head(W(i).todo) \notin {"", ".", ".."}
      BY <1>7, <2>1, PathAssumption
    <3> QED BY <1>3, <2>3, <3>1 DEF Onward
  <2>6. Onward(f, W(i)) = W(i + 1)
    BY <1>5, <1>7, <2>1, <2>5
  <2> QED BY <1>4, <2>1, <2>4, <2>6, KernelEquation
<1>9. \A i \in Nat : i < Len(p) => Kernel(f)[W(i)] = Kernel(f)[W(0)]
  <2>1. 0 \in S
    OBVIOUS
  <2>2. ASSUME NEW i \in Nat, i \in S PROVE i + 1 \in S
    BY <1>1, <1>8, <2>2
  <2> HIDE DEF S
  <2>3. \A i \in Nat : i \in S
    BY <2>1, <2>2, SetInduction
  <2> QED BY <2>3 DEF S
<1>10. CASE Len(p) = 0
  <2>1. W(0) \in Walks /\ W(0).todo = << >> /\ W(0).dir = << >> /\ p = << >>
    <3>1. p = << >>
      BY <1>1, <1>10
    <3>2. W(0) \in Walks
      BY <1>1, <1>4
    <3> QED BY <1>6, <3>1, <3>2 DEF At
  <2>2. Ended(f, W(0)) /\ Outcome(f, W(0)) = {<< >>}
    BY <2>1, EndOfWalk
  <2>3. Kernel(f)[W(0)] = {p}
    BY <2>1, <2>2, KernelEquation
  <2> QED BY <1>6, <2>3
<1>11. CASE Len(p) # 0
  <2> DEFINE i == Len(p) - 1
  <2>1. i \in Nat /\ i < Len(p) /\ i <= Len(p) /\ i + 1 = Len(p)
    BY <1>1, <1>11
  <2> HIDE DEF i
  <2> DEFINE w == W(i)
  <2>2. /\ w \in Walks /\ w.todo # << >> /\ Head(w.todo) \in Names /\ Len(w.todo) = 1
        /\ Here(w) = p /\ InDir(f, w) /\ Tail(w.todo) = << >> /\ ~w.follow
        /\ Kernel(f)[w] = Kernel(f)[W(0)]
    <3>1. SubSeq(p, i + 2, Len(p)) = << >> /\ Len(p) - i = 1
      BY <1>1, <2>1
    <3> QED BY <1>2, <1>3, <1>4, <1>7, <1>9, <2>1, <3>1
  <2> HIDE DEF w
  <2>3. Kernel(f)[w] = {p}
    <3>1. CASE p \notin DOMAIN f
      <4>1. Missing(f, w)
        BY <2>2, <3>1 DEF Missing
      <4>2. Ended(f, w) /\ Outcome(f, w) = {p}
        BY <2>2, <4>1 DEF Ended, Outcome
      <4> QED BY <2>2, <4>2, KernelEquation
    <3>2. CASE p \in DOMAIN f
      <4>1. ~Missing(f, w) /\ ~Follows(f, w)
        BY <2>2, <3>2 DEF Missing, Follows
      <4>2. ~Ended(f, w)
        BY <2>2, <4>1 DEF Ended
      <4>3. Onward(f, w) = Moved(w, p, << >>, w.links)
        <5>1. Head(w.todo) \notin {"", ".", ".."}
          BY <2>2, PathAssumption
        <5> QED BY <2>2, <4>1, <5>1 DEF Onward
      <4>4. /\ Onward(f, w) \in Walks
            /\ Onward(f, w).todo = << >> /\ Onward(f, w).dir = p
        BY <2>2, <4>2, <4>3, OnwardType DEF Moved, Walks
      <4>5. Ended(f, Onward(f, w)) /\ Outcome(f, Onward(f, w)) = {p}
        BY <4>4, EndOfWalk
      <4> QED BY <2>2, <4>2, <4>4, <4>5, KernelEquation
    <3> QED BY <3>1, <3>2
  <2> QED BY <1>6, <2>2, <2>3
<1> QED BY <1>1, <1>10, <1>11

\* What one step of a walk to K does, with the first element e and h for where it
\* would lead: the walk is in a directory, and it may only end at a name that is
\* missing if that is the last one.
LinkTo(f, t, go, h) == h \in DOMAIN f /\ f[h].kind = "link" /\ (Len(t) > 1 \/ go)

UpFrom(d, top) == IF d \in {top, << >>} THEN d ELSE Front(d)

Moves(K, f, d, t, go, l, top, e, h) ==
    /\ d \in DOMAIN f /\ f[d].kind = "dir"
    /\ e \in {"", "."} => K = Kernel(f)[At(d, Tail(t), go, l, top)]
    /\ e = ".." => K = Kernel(f)[At(UpFrom(d, top), Tail(t), go, l, top)]
    /\ e \in Names /\ h \notin DOMAIN f => Len(t) = 1 /\ K = {h}
    /\ e \in Names /\ h \in DOMAIN f /\ ~LinkTo(f, t, go, h) =>
          K = Kernel(f)[At(h, Tail(t), go, l, top)]
    /\ e \in Names /\ LinkTo(f, t, go, h) =>
          /\ l # 0
          /\ K = Kernel(f)[At(IF f[h].abs THEN top ELSE d, f[h].to \o Tail(t), go, l - 1, top)]

\* A walk that leads somewhere makes such a step.
LEMMA KernelStep ==
    ASSUME NEW f \in Filesystems, NEW d \in Path, NEW t \in Path, NEW go \in BOOLEAN,
           NEW l \in Nat, NEW top \in Path,
           t # << >>, Kernel(f)[At(d, t, go, l, top)] # {}
    PROVE  Moves(Kernel(f)[At(d, t, go, l, top)], f, d, t, go, l, top,
                 Head(t), Append(d, Head(t)))
<1> DEFINE w == At(d, t, go, l, top)
           e == Head(t)
           h == Append(d, e)
           link == LinkTo(f, t, go, h)
<1>1. w \in Walks
  BY DEF At, Walks
<1>2. w.dir = d /\ w.todo = t /\ w.follow = go /\ w.links = l /\ w.top = top /\ Here(w) = h
  BY DEF At, Here
<1>3. /\ InDir(f, w) <=> d \in DOMAIN f /\ f[d].kind = "dir"
      /\ Missing(f, w) <=> e \in Names /\ h \notin DOMAIN f
      /\ Follows(f, w) <=> e \in Names /\ link
  BY <1>2, Zenon DEF InDir, Missing, Follows, LinkTo
<1>4. \A d1, t1, l1 : Moved(w, d1, t1, l1) = At(d1, t1, go, l1, top)
  BY AtElsewhere
<1>5. Kernel(f)[w] = IF Ended(f, w) THEN Outcome(f, w) ELSE Kernel(f)[Onward(f, w)]
  BY <1>1, KernelEquation
<1>6. ASSUME Ended(f, w) PROVE Len(t) = 1 /\ InDir(f, w) /\ Missing(f, w) /\ Kernel(f)[w] = {h}
  BY <1>2, <1>5, <1>6 DEF Outcome
<1>7. InDir(f, w)
  BY <1>6, <1>2 DEF Ended
<1>8. Missing(f, w) => Ended(f, w)
  BY DEF Ended
<1>9. e \in {"", ".", ".."} => ~Missing(f, w) /\ ~Follows(f, w) /\ e \notin Names
  BY <1>3, PathAssumption
<1> HIDE DEF w, e, h, link
<1>10. ASSUME e \in {"", "."} PROVE Kernel(f)[w] = Kernel(f)[At(d, Tail(t), go, l, top)]
  <2>1. Onward(f, w) = Moved(w, d, Tail(t), l)
    BY <1>2, <1>9, <1>10 DEF Onward, e
  <2> QED BY <1>4, <1>5, <1>6, <1>9, <1>10, <2>1
<1>11. ASSUME e = ".."
       PROVE  Kernel(f)[w] = Kernel(f)[At(UpFrom(d, top), Tail(t), go, l, top)]
  <2>1. Onward(f, w) = Moved(w, UpFrom(d, top), Tail(t), l)
    BY <1>2, <1>9, <1>11 DEF Onward, e, UpFrom
  <2>2. ~Ended(f, w)
    BY <1>6, <1>9, <1>11
  <2> QED BY <1>4, <1>5, <2>1, <2>2, Zenon
<1>12. ASSUME e \in Names, h \notin DOMAIN f PROVE Len(t) = 1 /\ Kernel(f)[w] = {h}
  BY <1>3, <1>6, <1>8, <1>12
<1>13. ASSUME e \in Names, h \in DOMAIN f, ~link
       PROVE  Kernel(f)[w] = Kernel(f)[At(h, Tail(t), go, l, top)]
  <2>1. Onward(f, w) = Moved(w, h, Tail(t), l)
    BY <1>2, <1>3, <1>9, <1>13 DEF Onward, e
  <2>2. ~Ended(f, w)
    BY <1>3, <1>6, <1>13
  <2> QED BY <1>4, <1>5, <2>1, <2>2, Zenon
<1>14. ASSUME e \in Names, link
       PROVE  /\ l # 0
              /\ Kernel(f)[w] = Kernel(f)[At(IF f[h].abs THEN top ELSE d, f[h].to \o Tail(t),
                                             go, l - 1, top)]
  <2>1. Onward(f, w) = Moved(w, IF f[h].abs THEN top ELSE d, f[h].to \o Tail(t), l - 1)
    BY <1>2, <1>3, <1>9, <1>14 DEF Onward, e
  <2>2. ~Ended(f, w)
    BY <1>3, <1>6, <1>14 DEF link, LinkTo
  <2>3. l # 0
    BY <1>2, <1>3, <1>14, <2>2 DEF Ended
  <2> QED BY <1>4, <1>5, <2>1, <2>2, <2>3, Zenon
<1>15. d \in DOMAIN f /\ f[d].kind = "dir"
  BY <1>3, <1>7
<1> QED BY <1>10, <1>11, <1>12, <1>13, <1>14, <1>15, Zenon DEF w, e, h, link, Moves

-----------------------------------------------------------------------------
(* What the walk finds is what the kernel finds *)

\* A name in a directory is found where it is.
LEMMA FoundIn ==
    ASSUME TypeOK, NEW d \in DOMAIN fs, fs[d].kind = "dir", NEW e \in Names
    PROVE  /\ Append(d, e) \in Seq(Names)
           /\ Append(d, e) \notin DOMAIN fs => Lstat(Append(d, e)) = "none"
           /\ Append(d, e) \in DOMAIN fs =>
                 /\ Lstat(Append(d, e)) = fs[Append(d, e)].kind
                 /\ FileAt(Append(d, e)) = fs[Append(d, e)]
<1> DEFINE p == Append(d, e)
<1>1. /\ fs \in Filesystems /\ d \in Seq(Names)
      /\ \A n \in 0 .. Len(d) - 1 : SubSeq(d, 1, n) \in DOMAIN fs /\ fs[SubSeq(d, 1, n)].kind = "dir"
  BY TreeFacts DEF TypeOK
<1>2. p \in Seq(Names) /\ Len(p) = Len(d) + 1 /\ Len(d) \in Nat
  BY <1>1
<1>3. ASSUME NEW n \in 0 .. Len(p) - 1
      PROVE  SubSeq(p, 1, n) \in DOMAIN fs /\ fs[SubSeq(p, 1, n)].kind = "dir"
  <2>1. CASE n = Len(d)
    <3>1. SubSeq(p, 1, n) = d
      BY <1>1, <1>2, <2>1
    <3> QED BY <3>1
  <2>2. CASE n # Len(d)
    <3>1. n \in 0 .. Len(d) - 1
      BY <1>2, <2>2
    <3>2. SubSeq(p, 1, n) = SubSeq(d, 1, n)
      BY <1>1, <1>2, <3>1
    <3> QED BY <1>1, <3>1, <3>2, Zenon
  <2> QED BY <2>1, <2>2
<1> HIDE DEF p
<1>4. Kernel(fs)[At(<< >>, p, FALSE, MaxLinks, << >>)] = {p}
  BY <1>1, <1>2, <1>3, PathAssumption, CanonicalLookup
<1>5. Found(p) = {p} \cap DOMAIN fs
  BY <1>4, Zenon DEF Found, Lookup, LookupWithin, At
<1>6. ASSUME p \in DOMAIN fs PROVE Lstat(p) = fs[p].kind /\ FileAt(p) = fs[p]
  <2>1. Found(p) = {p}
    BY <1>5, <1>6
  <2> QED BY <2>1 DEF Lstat, FileAt
<1>7. ASSUME p \notin DOMAIN fs PROVE Lstat(p) = "none"
  BY <1>5, <1>7 DEF Lstat
<1> QED BY <1>2, <1>6, <1>7 DEF p

\* lstat() of the canonical path of a file.
LEMMA LstatCanonical ==
    ASSUME TypeOK, NEW p \in DOMAIN fs
    PROVE  Lstat(p) = fs[p].kind
<1>1. /\ fs \in Filesystems /\ p \in Seq(Names)
      /\ \A n \in 0 .. Len(p) - 1 : SubSeq(p, 1, n) \in DOMAIN fs /\ fs[SubSeq(p, 1, n)].kind = "dir"
  BY TreeFacts DEF TypeOK
<1>2. Kernel(fs)[At(<< >>, p, FALSE, MaxLinks, << >>)] = {p}
  BY <1>1, PathAssumption, CanonicalLookup
<1>3. Found(p) = {p} \cap DOMAIN fs
  BY <1>2, Zenon DEF Found, Lookup, LookupWithin, At
<1>4. Found(p) = {p}
  BY <1>3
<1> QED BY <1>4 DEF Lstat, FileAt

\* The slash at the end of the request, and everything that is still to be taken:
\* by a call of pseudo_append_elements() and by those it has been called from.
Slash == IF call.req.slash THEN << "" >> ELSE << >>

StillToTake(rest) ==
    /\ rest \in [1 .. Len(frames) -> Path]
    /\ rest[1] = frames[1].todo \o Slash
    /\ \A i \in 2 .. Len(frames) : /\ rest[i] = frames[i].todo \o rest[i - 1]
                                   /\ call.nofollow => rest[i - 1] # << >>

\* The kernel, from where the walk is, with what is still to be taken, finds what
\* it finds for the request; and the links pseudo may expand are no fewer than the
\* ones left to the kernel.
OnTrack(l, rest) ==
    /\ StillToTake(rest)
    /\ Len(frames) - 1 <= MaxLinkRecursion - l
    /\ Kernel(fs)[At(newpath, rest[Len(frames)], ~call.nofollow, l, chroot)] = Wanted

\* If the kernel finds something, the walk is on its way to it.
Tracks ==
    pc = "walk" /\ Comparable /\ Wanted # {} =>
        /\ newpath \in Seq(Names)
        /\ newpath \in DOMAIN fs => mode = fs[newpath].kind
        /\ \A i \in 1 .. Len(frames) :
              frames[i].leave = (i = 1 /\ call.nofollow /\ ~call.req.slash)
        /\ \E l \in 0 .. MaxLinkRecursion : \E rest : OnTrack(l, rest)

\* A step of the walk does not change what is looked for.
LEMMA SameRequest ==
    ASSUME UNCHANGED << fs, cwd, chroot, dirfd, fddir, call >>
    PROVE  Wanted' = Wanted /\ (Comparable' <=> Comparable) /\ Slash' = Slash
<1>1. BasePath(call)' = BasePath(call)
  BY DEF BasePath
<1>2. Wanted' = Wanted
  BY <1>1 DEF Wanted, LookupWithin, Given
<1>3. Comparable' <=> Comparable
  BY <1>1 DEF Comparable
<1> QED BY <1>2, <1>3 DEF Slash

\* What is left after the elements of the innermost call.
Under(rest) == IF Len(frames) = 1 THEN Slash ELSE rest[Len(frames) - 1]

\* Two sequences of elements, one after the other.
LEMMA ConcatPath ==
    ASSUME NEW s \in Path, NEW t \in Path
    PROVE  /\ s \o t \in Path /\ Len(s \o t) = Len(s) + Len(t)
           /\ s = << >> => s \o t = t
           /\ s # << >> => /\ s \o t # << >> /\ Head(s \o t) = Head(s) /\ Head(s) \in Elements
                           /\ Tail(s) \in Path /\ Tail(s \o t) = Tail(s) \o t
                           /\ Len(s) \in Nat \ {0} /\ Len(Tail(s)) = Len(s) - 1
BY DEF Path

\* A sequence of one element.
LEMMA OneElement ==
    ASSUME NEW T, NEW x \in T
    PROVE  << x >> \in Seq(T)
OBVIOUS

\* A sequence of none.
LEMMA NoElement ==
    ASSUME NEW T, NEW u \in Seq(T), Len(u) = 0
    PROVE  u = << >>
OBVIOUS

\* Where the walk is.
LEMMA WalkFacts ==
    ASSUME IInv, Tracks, pc = "walk", Comparable, Wanted # {},
           NEW l \in 0 .. MaxLinkRecursion, NEW rest, OnTrack(l, rest)
    PROVE  /\ fs \in Filesystems /\ newpath \in Path /\ chroot \in Path /\ l \in Nat
           /\ Len(frames) \in Nat \ {0} /\ call.nofollow \in BOOLEAN
           /\ Top = frames[Len(frames)] /\ Top.todo \in Path
           /\ rest[Len(frames)] \in Path /\ Under(rest) \in Path
           /\ rest[Len(frames)] = Top.todo \o Under(rest)
           /\ rest[Len(frames)] # << >> =>
                 newpath \in DOMAIN fs /\ fs[newpath].kind = "dir" /\ mode = "dir"
<1> DEFINE n == Len(frames)
           F == [todo : Path, leave : BOOLEAN]
<1>1. fs \in Filesystems /\ newpath \in Path /\ chroot \in Path /\ l \in Nat
  BY BoundsType DEF IInv, TypeOK
<1>2. frames \in Seq(F) /\ n \in Nat \ {0} /\ n \in 1 .. n
  <2>1. frames \in Seq(F) /\ frames # << >>
    BY DEF IInv, TypeOK, Bounded
  <2> HIDE DEF F
  <2> QED BY <2>1
<1>3. Top = frames[n] /\ Top.todo \in Path
  <2>1. Top = frames[n]
    BY DEF Top, Last
  <2>2. frames[n] \in F
    <3> HIDE DEF F
    <3> QED BY <1>2
  <2> QED BY <2>1, <2>2
<1>4. call.nofollow \in BOOLEAN
  <2>1. call \in CallShapes \/ call = NoCall
    BY DEF IInv, TypeOK
  <2>2. CASE call \in CallShapes
    BY <2>2 DEF CallShapes
  <2>3. CASE call = NoCall
    BY <2>3 DEF NoCall
  <2> QED BY <2>1, <2>2, <2>3
<1> HIDE DEF F, n
<1>5. Slash \in Path
  <2>1. "" \in Elements
    BY DEF Elements
  <2>2. << "" >> \in Path
    BY <2>1, OneElement, Zenon DEF Path
  <2>3. << >> \in Path
    BY DEF Path
  <2> QED BY <2>2, <2>3, Zenon DEF Slash
<1>6. rest \in [1 .. n -> Path] /\ rest[n] \in Path
  BY <1>2 DEF OnTrack, StillToTake, n
<1>7. Under(rest) \in Path /\ rest[n] = Top.todo \o Under(rest)
  <2>1. CASE n = 1
    BY <1>3, <1>5, <2>1 DEF OnTrack, StillToTake, Under, n
  <2>2. CASE n # 1
    <3>1. n - 1 \in 1 .. n /\ n \in 2 .. n
      BY <1>2, <2>2
    <3> QED BY <1>3, <1>6, <2>2, <3>1 DEF OnTrack, StillToTake, Under, n
  <2> QED BY <2>1, <2>2
<1>8. ASSUME rest[n] # << >>
      PROVE  newpath \in DOMAIN fs /\ fs[newpath].kind = "dir" /\ mode = "dir"
  <2> DEFINE go == ~call.nofollow
  <2>1. Kernel(fs)[At(newpath, rest[n], go, l, chroot)] # {} /\ go \in BOOLEAN
    BY <1>4 DEF OnTrack, n
  <2> HIDE DEF go
  <2>2. newpath \in DOMAIN fs /\ fs[newpath].kind = "dir"
    <3>1. Moves(Kernel(fs)[At(newpath, rest[n], go, l, chroot)], fs, newpath, rest[n], go, l,
                chroot, Head(rest[n]), Append(newpath, Head(rest[n])))
      BY <1>1, <1>6, <1>8, <2>1, KernelStep
    <3> QED BY <3>1 DEF Moves
  <2> QED BY <2>2 DEF Tracks
<1> QED BY <1>1, <1>2, <1>3, <1>4, <1>6, <1>7, <1>8 DEF n

\* The frames after one element has been taken.
LEMMA AdvancedFrames ==
    ASSUME IInv, pc = "walk", Top.todo # << >>
    PROVE  /\ Len(Advanced) = Len(frames)
           /\ \A i \in 1 .. Len(frames) - 1 : Advanced[i] = frames[i]
           /\ Advanced[Len(frames)].todo = Tail(Top.todo)
           /\ Advanced[Len(frames)].leave = Top.leave
<1> DEFINE F == [todo : Path, leave : BOOLEAN]
           n == Len(frames)
           top == [Top EXCEPT !.todo = Tail(@)]
<1>1. frames \in Seq(F) /\ frames # << >>
  BY DEF IInv, TypeOK, Bounded
<1>2. n \in Nat \ {0} /\ n \in 1 .. n /\ n - 1 \in Nat /\ n - 1 <= n
  <2> HIDE DEF F
  <2> QED BY <1>1
<1>3. Top \in F
  <2> HIDE DEF F
  <2> QED BY <1>1, <1>2 DEF Top, Last
<1>4. top.todo = Tail(Top.todo) /\ top.leave = Top.leave
  BY <1>3
<1> HIDE DEF F, top, n
<1>5. /\ SubSeq(frames, 1, n - 1) \in Seq(F) /\ Len(SubSeq(frames, 1, n - 1)) = n - 1
      /\ \A i \in 1 .. n - 1 : SubSeq(frames, 1, n - 1)[i] = frames[i]
  <2>1. n = Len(frames)
    BY DEF n
  <2> DEFINE m == n - 1
  <2>2. m \in Nat /\ m <= Len(frames)
    BY <1>2, <2>1
  <2> HIDE DEF m
  <2>3. /\ SubSeq(frames, 1, m) \in Seq(F) /\ Len(SubSeq(frames, 1, m)) = m
        /\ \A i \in 1 .. m : SubSeq(frames, 1, m)[i] = frames[i]
    BY <1>1, <2>2
  <2> QED BY <2>3 DEF m
<1>6. Advanced = Append(SubSeq(frames, 1, n - 1), top)
  BY DEF Advanced, Front, n, top
<1>7. /\ Len(Advanced) = n /\ Advanced[n] = top
      /\ \A i \in 1 .. n - 1 : Advanced[i] = frames[i]
  <2> DEFINE s == SubSeq(frames, 1, n - 1)
  <2>1. top \in F
    <3>1. Top.todo \in Path
      BY <1>3 DEF F
    <3>2. Tail(Top.todo) \in Path
      BY <3>1, ConcatPath
    <3> QED BY <1>3, <3>2 DEF top, F
  <2> HIDE DEF s
  <2>2. s \in Seq(F) /\ Len(s) = n - 1 /\ \A i \in 1 .. n - 1 : s[i] = frames[i]
    BY <1>5 DEF s
  <2>3. Advanced = Append(s, top)
    BY <1>6 DEF s
  <2> QED BY <1>2, <2>1, <2>2, <2>3
<1> QED BY <1>4, <1>7 DEF n

\* A step that takes one element keeps the walk on track if the kernel, from the
\* new path on, still finds the same.
LEMMA TakesElement ==
    ASSUME IInv, Tracks, pc = "walk", Comparable, Wanted # {},
           NEW l \in 0 .. MaxLinkRecursion, NEW rest, OnTrack(l, rest),
           Top.todo # << >>, frames' = Advanced,
           UNCHANGED << fs, cwd, chroot, dirfd, fddir, call >>,
           newpath' \in Seq(Names), newpath' \in DOMAIN fs => mode' = fs[newpath'].kind,
           Kernel(fs)[At(newpath', Tail(rest[Len(frames)]), ~call.nofollow, l, chroot)] = Wanted
    PROVE  Tracks'
<1>0. PICK n, r : n = Len(frames) /\ r = [rest EXCEPT ![n] = Tail(rest[n])]
  OBVIOUS
<1>1. /\ n \in Nat \ {0} /\ Top = frames[n] /\ Top.todo \in Path
      /\ rest[n] \in Path /\ Under(rest) \in Path /\ rest[n] = Top.todo \o Under(rest)
      /\ call.nofollow \in BOOLEAN /\ rest \in [1 .. n -> Path]
  BY <1>0, WalkFacts DEF OnTrack, StillToTake
<1>2. Tail(rest[n]) = Tail(Top.todo) \o Under(rest) /\ Tail(rest[n]) \in Path
  <2>1. /\ Tail(Top.todo \o Under(rest)) = Tail(Top.todo) \o Under(rest)
        /\ Tail(Top.todo) \in Path
    BY <1>1, ConcatPath, Zenon
  <2>2. Tail(Top.todo) \o Under(rest) \in Path
    BY <1>1, <2>1, ConcatPath, Zenon
  <2> QED BY <1>1, <2>1, <2>2, Zenon
<1>3. /\ Len(frames') = n /\ \A i \in 1 .. n - 1 : frames'[i] = frames[i]
      /\ frames'[n].todo = Tail(Top.todo) /\ frames'[n].leave = Top.leave
  BY <1>0, AdvancedFrames
<1>4. Wanted' = Wanted /\ Slash' = Slash /\ fs' = fs /\ call' = call /\ chroot' = chroot
  BY SameRequest
<1>5. /\ r \in [1 .. n -> Path] /\ r[n] = Tail(rest[n])
      /\ \A i \in 1 .. n - 1 : r[i] = rest[i]
  BY <1>0, <1>1, <1>2
<1>6. StillToTake(r)'
  <2>1. rest[1] = frames[1].todo \o Slash
    BY DEF OnTrack, StillToTake
  <2>2. \A i \in 2 .. n : /\ rest[i] = frames[i].todo \o rest[i - 1]
                          /\ call.nofollow => rest[i - 1] # << >>
    BY <1>0 DEF OnTrack, StillToTake
  <2>3. r[1] = frames'[1].todo \o Slash
    <3>1. CASE n = 1
      <4>1. Under(rest) = Slash
        BY <1>0, <3>1 DEF Under
      <4> QED BY <1>2, <1>3, <1>5, <3>1, <4>1
    <3>2. CASE n # 1
      <4>1. 1 \in 1 .. n - 1
        BY <1>1, <3>2
      <4> QED BY <1>3, <1>5, <2>1, <4>1
    <3> QED BY <3>1, <3>2
  <2>4. ASSUME NEW i \in 2 .. n
        PROVE  r[i] = frames'[i].todo \o r[i - 1] /\ (call.nofollow => r[i - 1] # << >>)
    <3>1. i - 1 \in 1 .. n - 1
      BY <1>1
    <3>2. r[i - 1] = rest[i - 1]
      BY <1>5, <3>1
    <3>3. CASE i = n
      <4>1. Under(rest) = rest[n - 1]
        BY <1>0, <1>1, <3>3 DEF Under
      <4>2. n - 1 = i - 1 /\ i \in 2 .. n
        BY <3>3
      <4>3. rest[i - 1] = Under(rest) /\ (call.nofollow => rest[i - 1] # << >>)
        BY <2>2, <4>1, <4>2, Zenon
      <4>4. r[i] = frames'[i].todo \o Under(rest)
        BY <1>2, <1>3, <1>5, <3>3, Zenon
      <4> QED BY <3>2, <4>3, <4>4, Zenon
    <3>4. CASE i # n
      <4>1. i \in 1 .. n - 1
        BY <1>1, <3>4
      <4>2. frames'[i] = frames[i] /\ r[i] = rest[i]
        BY <1>3, <1>5, <4>1
      <4> QED BY <2>2, <3>2, <4>2
    <3> QED BY <3>3, <3>4
  <2> QED BY <1>3, <1>4, <1>5, <2>3, <2>4, Zenon DEF StillToTake
<1>7. OnTrack(l, r)'
  <2>1. Len(frames)' - 1 <= MaxLinkRecursion - l
    BY <1>0, <1>3 DEF OnTrack
  <2>2. Kernel(fs)[At(newpath', r[n], ~call.nofollow, l, chroot)] = Wanted
    BY <1>0, <1>5, Zenon
  <2>3. Kernel(fs')[At(newpath', r[Len(frames')], ~call'.nofollow, l, chroot')] = Wanted'
    BY <1>3, <1>4, <2>2, Zenon
  <2> QED BY <1>6, <2>1, <2>3 DEF OnTrack
<1>8. \A i \in 1 .. Len(frames') :
         frames'[i].leave = (i = 1 /\ call.nofollow /\ ~call.req.slash)
  <2>1. \A i \in 1 .. n : frames[i].leave = (i = 1 /\ call.nofollow /\ ~call.req.slash)
    BY <1>0 DEF Tracks
  <2>2. \A i \in 1 .. n : frames'[i].leave = frames[i].leave
    BY <1>1, <1>3
  <2> QED BY <1>3, <2>1, <2>2, Zenon
<1> QED BY <1>4, <1>7, <1>8 DEF Tracks

\* What the kernel does with the next element the walk takes.
LEMMA KernelTakes ==
    ASSUME IInv, Tracks, pc = "walk", Comparable, Wanted # {},
           NEW l \in 0 .. MaxLinkRecursion, NEW rest, OnTrack(l, rest), Top.todo # << >>,
           NEW go, go = ~call.nofollow, NEW t, t = rest[Len(frames)]
    PROVE  /\ t \in Path /\ t # << >> /\ Element \in Elements /\ mode = "dir"
           /\ Moves(Wanted, fs, newpath, t, go, l, chroot, Element, Append(newpath, Element))
<1>1. /\ fs \in Filesystems /\ newpath \in Path /\ chroot \in Path /\ l \in Nat
      /\ t \in Path /\ go \in BOOLEAN
      /\ Top.todo \in Path /\ Under(rest) \in Path /\ t = Top.todo \o Under(rest)
      /\ t # << >> => newpath \in DOMAIN fs /\ fs[newpath].kind = "dir" /\ mode = "dir"
  BY WalkFacts
<1>2. t # << >> /\ Head(t) = Element /\ Element \in Elements
  <2> DEFINE a == Top.todo
             b == Under(rest)
  <2>1. a \in Path /\ b \in Path /\ a # << >> /\ t = a \o b
    BY <1>1
  <2> HIDE DEF a, b
  <2>2. t # << >> /\ Head(t) = Head(a) /\ Head(a) \in Elements
    BY <2>1, ConcatPath
  <2> QED BY <2>2 DEF a, Element
<1>3. Kernel(fs)[At(newpath, t, go, l, chroot)] = Wanted
  BY DEF OnTrack
<1>4. Kernel(fs)[At(newpath, t, go, l, chroot)] # {}
  BY <1>3
<1>5. Moves(Wanted, fs, newpath, t, go, l, chroot, Head(t), Append(newpath, Head(t)))
  BY <1>1, <1>2, <1>3, <1>4, KernelStep
<1> QED BY <1>1, <1>2, <1>5

\* "" and ".": the kernel stays where it is, too.
LEMMA TracksSkip ==
    ASSUME IInv, Tracks, pc = "walk", Comparable, Wanted # {}, SkipElement
    PROVE  Tracks'
<1>1. PICK l \in 0 .. MaxLinkRecursion : \E rest : OnTrack(l, rest)
  BY DEF Tracks
<1>2. PICK rest : OnTrack(l, rest)
  BY <1>1
<1>3. PICK t, go : t = rest[Len(frames)] /\ go = ~call.nofollow
  OBVIOUS
<1>4. Top.todo # << >> /\ Element \in {"", "."} /\ frames' = Advanced
      /\ newpath' = newpath /\ mode' = mode /\ UNCHANGED << fs, cwd, chroot, dirfd, fddir, call >>
  BY DEF SkipElement, Walking, Fixed
<1>5. Kernel(fs)[At(newpath, Tail(t), go, l, chroot)] = Wanted
  <2>1. Moves(Wanted, fs, newpath, t, go, l, chroot, Element, Append(newpath, Element))
    BY <1>2, <1>3, <1>4, KernelTakes
  <2> QED BY <1>4, <2>1 DEF Moves
<1>6. newpath' \in Seq(Names) /\ (newpath' \in DOMAIN fs => mode' = fs[newpath'].kind)
  BY <1>4 DEF Tracks
<1>7. Kernel(fs)[At(newpath', Tail(rest[Len(frames)]), ~call.nofollow, l, chroot)] = Wanted
  BY <1>3, <1>4, <1>5, Zenon
<1> QED BY <1>2, <1>4, <1>6, <1>7, TakesElement

\* "..": the kernel stops at its root, which is what cannot be backed over.
LEMMA TracksBackUp ==
    ASSUME IInv, Tracks, pc = "walk", Comparable, Wanted # {}, BackUp
    PROVE  Tracks'
<1>1. PICK l \in 0 .. MaxLinkRecursion : \E rest : OnTrack(l, rest)
  BY DEF Tracks
<1>2. PICK rest : OnTrack(l, rest)
  BY <1>1
<1>3. PICK t, go, up : /\ t = rest[Len(frames)] /\ go = ~call.nofollow
                       /\ up = UpFrom(newpath, chroot)
  OBVIOUS
<1>4. Top.todo # << >> /\ Element = ".." /\ frames' = Advanced
      /\ mode' = mode /\ UNCHANGED << fs, cwd, chroot, dirfd, fddir, call >>
      /\ newpath' = IF Len(newpath) > root THEN Front(newpath) ELSE newpath
  BY DEF BackUp, Walking, Fixed
<1>0. mode = "dir" /\ Moves(Wanted, fs, newpath, t, go, l, chroot, Element, Append(newpath, Element))
  BY <1>2, <1>3, <1>4, KernelTakes
<1>5. newpath \in DOMAIN fs /\ fs[newpath].kind = "dir"
  BY <1>0 DEF Moves
<1>6. Kernel(fs)[At(up, Tail(t), go, l, chroot)] = Wanted
  BY <1>0, <1>3, <1>4 DEF Moves
<1>7. root = Len(chroot) /\ Below(chroot, newpath)
  BY DEF IInv, Rooted, Inside, Comparable
<1>8. fs \in Filesystems /\ newpath \in Path /\ chroot \in Path
  BY DEF IInv, TypeOK
<1>9. newpath' = up
  <2>1. Len(chroot) \in Nat /\ Len(newpath) \in Nat /\ Len(chroot) <= Len(newpath)
    BY <1>7, <1>8, PrefixElements DEF Path
  <2>2. \A i \in 1 .. Len(chroot) : chroot[i] = newpath[i]
    BY <1>7, <1>8, PrefixElements
  <2>3. Len(newpath) = root => newpath = chroot
    BY <1>7, <1>8, <2>2 DEF Path
  <2>4. Len(newpath) > root => newpath # chroot /\ newpath # << >>
    BY <1>7, <1>8, <2>1 DEF Path
  <2> QED BY <1>3, <1>4, <1>7, <2>1, <2>3, <2>4 DEF UpFrom
<1>10. up \in DOMAIN fs /\ fs[up].kind = "dir" /\ up \in Seq(Names)
  <2>1. ASSUME newpath # << >>
        PROVE  Front(newpath) \in DOMAIN fs /\ fs[Front(newpath)].kind = "dir"
    <3>1. Len(newpath) - 1 \in 0 .. Len(newpath) - 1
      BY <1>8, <2>1 DEF Path
    <3>2. Front(newpath) = SubSeq(newpath, 1, Len(newpath) - 1)
      BY DEF Front
    <3> QED BY <1>5, <1>8, <3>1, <3>2, TreeFacts, Zenon
  <2>2. up \in DOMAIN fs /\ fs[up].kind = "dir"
    BY <1>3, <1>5, <2>1 DEF UpFrom
  <2> QED BY <1>8, <2>2, TreeFacts, Zenon
<1>11. newpath' \in Seq(Names) /\ (newpath' \in DOMAIN fs => mode' = fs[newpath'].kind)
  BY <1>0, <1>4, <1>9, <1>10
<1>12. Kernel(fs)[At(newpath', Tail(rest[Len(frames)]), ~call.nofollow, l, chroot)] = Wanted
  BY <1>3, <1>6, <1>9, Zenon
<1> QED BY <1>2, <1>4, <1>11, <1>12, TakesElement

\* A name that is appended: it is no link, or one that the kernel leaves alone, or
\* it is one too many, and the kernel would not have found anything.
LEMMA TracksAppend ==
    ASSUME IInv, Tracks, pc = "walk", Comparable, Wanted # {}, AppendElement
    PROVE  Tracks'
<1>1. PICK l \in 0 .. MaxLinkRecursion : \E rest : OnTrack(l, rest)
  BY DEF Tracks
<1>2. PICK rest : OnTrack(l, rest)
  BY <1>1
<1>3. PICK t, go, h : t = rest[Len(frames)] /\ go = ~call.nofollow /\ h = Append(newpath, Element)
  OBVIOUS
<1>4. Top.todo # << >> /\ frames' = Advanced /\ UNCHANGED << fs, cwd, chroot, dirfd, fddir, call >>
      /\ newpath' = h /\ mode' = Lstat(newpath') /\ (mode = "dir" => Element \in Names) /\ ~IsLink
  BY <1>3 DEF AppendElement, Appends, Walking, Fixed
<1>0. mode = "dir" /\ Moves(Wanted, fs, newpath, t, go, l, chroot, Element, h)
  BY <1>2, <1>3, <1>4, KernelTakes
<1>5. newpath \in DOMAIN fs /\ fs[newpath].kind = "dir" /\ Element \in Names
  BY <1>0, <1>4 DEF Moves
<1>6. /\ h \in Seq(Names) /\ (h \notin DOMAIN fs => Lstat(h) = "none")
      /\ h \in DOMAIN fs => Lstat(h) = fs[h].kind
  BY <1>3, <1>4, <1>5, FoundIn DEF IInv
<1>7. mode' = Lstat(h)
  BY <1>4 DEF Lstat, Found, FileAt, Lookup, LookupWithin
<1>8. Kernel(fs)[At(h, Tail(t), go, l, chroot)] = Wanted
  <2>1. CASE h \notin DOMAIN fs
    <3>1. Len(t) = 1 /\ Wanted = {h}
      BY <1>0, <1>5, <2>1 DEF Moves
    <3>2. /\ t \in Path /\ fs \in Filesystems /\ h \in Path /\ go \in BOOLEAN /\ l \in Nat
          /\ chroot \in Path
      BY <1>2, <1>3, <1>6, WalkFacts, PathType
    <3>3. Tail(t) = << >> /\ << >> \in Path
      <4>1. t \in Seq(Elements) /\ Len(t) = 1
        BY <3>1, <3>2 DEF Path
      <4>2. Tail(t) \in Seq(Elements) /\ Len(Tail(t)) = 0
        BY <4>1
      <4>3. Tail(t) = << >>
        BY <4>2, NoElement
      <4> QED BY <4>3 DEF Path
    <3>4. At(h, << >>, go, l, chroot) \in Walks
      BY <3>2, <3>3 DEF At, Walks
    <3>5. /\ Ended(fs, At(h, << >>, go, l, chroot))
          /\ Outcome(fs, At(h, << >>, go, l, chroot)) = {h}
      BY EndOfWalk DEF At
    <3> QED BY <3>1, <3>2, <3>3, <3>4, <3>5, KernelEquation
  <2>2. CASE h \in DOMAIN fs
    <3>1. ~LinkTo(fs, t, go, h)
      <4> SUFFICES ASSUME fs[h].kind = "link", Len(t) > 1 \/ go PROVE FALSE
        BY DEF LinkTo
      <4>1. \/ Top.leave /\ Len(Top.todo) = 1
            \/ ~(Len(frames) <= MaxLinkRecursion)
        BY <1>0, <1>3, <1>4, <1>6, <2>2 DEF IsLink
      <4>2. CASE Top.leave /\ Len(Top.todo) = 1
        <5>1. Len(frames) \in 1 .. Len(frames) /\ Top = frames[Len(frames)]
          BY <1>2, WalkFacts
        <5>2. Len(frames) = 1 /\ call.nofollow /\ ~call.req.slash
          BY <4>2, <5>1 DEF Tracks
        <5>3. t = Top.todo \o << >> /\ Top.todo \in Path
          BY <1>2, <1>3, <5>2, WalkFacts DEF Under, Slash
        <5>4. Len(t) = 1
          BY <4>2, <5>3 DEF Path
        <5>5. ~go
          BY <1>3, <5>2, Zenon
        <5>6. ~(Len(t) > 1)
          BY <5>4
        <5> QED BY <5>5, <5>6
      <4>3. CASE ~(Len(frames) <= MaxLinkRecursion)
        <5>1. l = 0
          BY <1>2, <4>3, WalkFacts, BoundsType DEF OnTrack
        <5>2. l # 0
          BY <1>0, <1>5, <2>2 DEF Moves, LinkTo
        <5> QED BY <5>1, <5>2
      <4> QED BY <4>1, <4>2, <4>3
    <3> QED BY <1>0, <1>5, <2>2, <3>1 DEF Moves
  <2> QED BY <2>1, <2>2
<1>9. newpath' \in Seq(Names) /\ (newpath' \in DOMAIN fs => mode' = fs[newpath'].kind)
  BY <1>4, <1>6, <1>7
<1>10. Kernel(fs)[At(newpath', Tail(rest[Len(frames)]), ~call.nofollow, l, chroot)] = Wanted
  BY <1>3, <1>4, <1>8, Zenon
<1> QED BY <1>2, <1>4, <1>9, <1>10, TakesElement

\* A link that is expanded is one that the kernel follows, and both go on with its
\* target at the same place.
LEMMA TracksExpand ==
    ASSUME IInv, Tracks, pc = "walk", Comparable, Wanted # {}, ExpandLink
    PROVE  Tracks'
<1>1. PICK l \in 0 .. MaxLinkRecursion : \E rest : OnTrack(l, rest)
  BY DEF Tracks
<1>2. PICK rest : OnTrack(l, rest)
  BY <1>1
<1>3. PICK n, t, go, h, k :
         /\ n = Len(frames) /\ t = rest[Len(frames)] /\ go = ~call.nofollow
         /\ h = Append(newpath, Element) /\ k = FileAt(Append(newpath, Element))
  OBVIOUS
<1>4. Top.todo # << >> /\ UNCHANGED << fs, cwd, chroot, dirfd, fddir, call >>
      /\ (mode = "dir" => Element \in Names) /\ mode' = "dir" /\ IsLink
  BY DEF ExpandLink, Appends, Walking, Fixed
<1>0. /\ k.abs => newpath' = SubSeq(newpath, 1, root)
      /\ ~k.abs => newpath' = newpath
      /\ frames' = Append(Advanced, [todo |-> k.to, leave |-> FALSE])
  <2> DEFINE a == FileAt(Append(newpath, Element))
  <2>1. /\ a.abs => newpath' = SubSeq(newpath, 1, root)
        /\ ~a.abs => newpath' = newpath
        /\ frames' = Append(Advanced, [todo |-> a.to, leave |-> FALSE])
    BY DEF ExpandLink
  <2>2. a = k
    BY <1>3
  <2> HIDE DEF a
  <2> QED BY <2>1, <2>2
<1>5. mode = "dir" /\ Moves(Wanted, fs, newpath, t, go, l, chroot, Element, h)
  BY <1>2, <1>3, <1>4, KernelTakes
<1>6. newpath \in DOMAIN fs /\ fs[newpath].kind = "dir" /\ Element \in Names
  BY <1>4, <1>5 DEF Moves
<1>7. h \in DOMAIN fs /\ k.kind = "link" /\ k = fs[h]
  <2>1. Lstat(h) = "link"
    BY <1>3, <1>4 DEF IsLink
  <2>2. /\ h \notin DOMAIN fs => Lstat(h) = "none"
        /\ h \in DOMAIN fs => Lstat(h) = fs[h].kind /\ FileAt(h) = fs[h]
    BY <1>3, <1>6, FoundIn DEF IInv
  <2> QED BY <1>3, <2>1, <2>2
<1>8. k \in Node /\ k.to \in Path
  BY <1>7, TreeFacts DEF IInv, TypeOK, Node
<1>9. /\ n \in Nat \ {0} /\ Top = frames[n] /\ Top.todo \in Path /\ l \in Nat
      /\ t \in Path /\ Under(rest) \in Path /\ t = Top.todo \o Under(rest)
      /\ call.nofollow \in BOOLEAN /\ rest \in [1 .. n -> Path]
      /\ chroot \in Path /\ newpath \in Path /\ fs \in Filesystems
  BY <1>2, <1>3, WalkFacts DEF OnTrack, StillToTake
<1>10. Tail(t) = Tail(Top.todo) \o Under(rest) /\ Tail(t) \in Path /\ Len(Tail(t)) = Len(t) - 1
       /\ Len(t) = Len(Top.todo) + Len(Under(rest)) /\ Len(Top.todo) \in Nat \ {0}
  <2>1. /\ Tail(Top.todo \o Under(rest)) = Tail(Top.todo) \o Under(rest)
        /\ Tail(Top.todo) \in Path /\ Len(Top.todo) \in Nat \ {0}
        /\ Len(Top.todo \o Under(rest)) = Len(Top.todo) + Len(Under(rest))
        /\ Top.todo \o Under(rest) # << >>
    BY <1>4, <1>9, ConcatPath, Zenon
  <2>2. Tail(Top.todo) \o Under(rest) \in Path
    BY <1>9, <2>1, ConcatPath, Zenon
  <2>3. t # << >>
    BY <1>9, <2>1, Zenon
  <2>4. Len(Tail(t)) = Len(t) - 1
    BY <1>9, <2>3, ConcatPath
  <2> QED BY <1>9, <2>1, <2>2, <2>4, Zenon
<1>11. call.nofollow => Len(t) > 1
  <2> SUFFICES ASSUME call.nofollow PROVE Len(t) > 1
    OBVIOUS
  <2>1. Len(Under(rest)) \in Nat
    BY <1>9 DEF Path
  <2>2. Len(Under(rest)) # 0 \/ Len(Top.todo) # 1
    <3>1. CASE n = 1 /\ ~call.req.slash
      <4>1. Top.leave
        <5>1. 1 \in 1 .. Len(frames) /\ Top = frames[1]
          BY <1>3, <1>9, <3>1
        <5>2. frames[1].leave = (1 = 1 /\ call.nofollow /\ ~call.req.slash)
          BY <5>1 DEF Tracks
        <5> QED BY <3>1, <5>1, <5>2
      <4> QED BY <1>4, <4>1 DEF IsLink
    <3>2. CASE n = 1 /\ call.req.slash
      <4>1. Under(rest) = << "" >>
        BY <1>3, <3>2 DEF Under, Slash
      <4>2. Len(<< "" >>) = 1
        OBVIOUS
      <4>3. Len(Under(rest)) = 1
        BY <4>1, <4>2, Zenon
      <4> QED BY <4>3
    <3>3. CASE n # 1
      <4>1. Under(rest) = rest[n - 1] /\ n \in 2 .. n
        BY <1>3, <1>9, <3>3 DEF Under
      <4>2. Under(rest) # << >>
        BY <1>2, <1>3, <4>1 DEF OnTrack, StillToTake
      <4> QED BY <1>9, <4>2, NoElement DEF Path
    <3> QED BY <3>1, <3>2, <3>3
  <2>3. PICK a, b : a = Len(Top.todo) /\ b = Len(Under(rest))
    OBVIOUS
  <2>4. Len(t) = a + b /\ a \in Nat \ {0} /\ b \in Nat /\ (b # 0 \/ a # 1)
    BY <1>10, <2>1, <2>2, <2>3, Zenon
  <2> QED BY <2>4
<1>12. LinkTo(fs, t, go, h)
  <2>1. Len(t) > 1 \/ go
    BY <1>3, <1>11, Zenon
  <2> QED BY <1>7, <2>1 DEF LinkTo
<1>13. PICK d, r : /\ d = IF k.abs THEN chroot ELSE newpath
                   /\ r = [i \in 1 .. n + 1 |-> IF i = n + 1 THEN k.to \o Tail(t)
                                               ELSE IF i = n THEN Tail(t) ELSE rest[i]]
  OBVIOUS
<1>14. l # 0 /\ Wanted = Kernel(fs)[At(d, k.to \o Tail(t), go, l - 1, chroot)]
  BY <1>7, <1>5, <1>6, <1>12, <1>13 DEF Moves
<1>15. newpath' = d /\ d \in DOMAIN fs /\ fs[d].kind = "dir" /\ d \in Seq(Names)
  <2>1. root = Len(chroot) /\ Below(chroot, newpath)
    BY DEF IInv, Rooted, Inside, Comparable
  <2>2. SubSeq(newpath, 1, root) = chroot
    <3>1. Len(chroot) \in Nat /\ Len(newpath) \in Nat /\ Len(chroot) <= Len(newpath)
      BY <1>9, <2>1, PrefixElements DEF Path
    <3>2. \A i \in 1 .. Len(chroot) : chroot[i] = newpath[i]
      BY <1>9, <2>1, PrefixElements
    <3> QED BY <1>9, <2>1, <3>1, <3>2 DEF Path
  <2>3. newpath' = d
    BY <1>0, <1>13, <2>2
  <2>4. d \in DOMAIN fs /\ fs[d].kind = "dir"
    BY <1>6, <1>13 DEF Comparable
  <2> QED BY <1>9, <2>3, <2>4, TreeFacts, Zenon
<1>16. /\ r \in [1 .. n + 1 -> Path] /\ r[n + 1] = k.to \o r[n] /\ r[n] = Tail(t)
       /\ \A i \in 1 .. n - 1 : r[i] = rest[i]
  <2>1. k.to \o Tail(t) \in Path
    BY <1>8, <1>10, ConcatPath, Zenon
  <2>2. n + 1 \in 1 .. n + 1 /\ n \in 1 .. n + 1 /\ n # n + 1
    BY <1>9
  <2>3. r[n] = Tail(t) /\ r[n + 1] = k.to \o Tail(t)
    BY <1>13, <2>2
  <2>4. ASSUME NEW i \in 1 .. n - 1 PROVE r[i] = rest[i]
    BY <1>9, <1>13
  <2>5. r \in [1 .. n + 1 -> Path]
    <3>1. \A i \in 1 .. n + 1 : i # n + 1 /\ i # n => i \in 1 .. n
      BY <1>9
    <3> QED BY <1>9, <1>10, <1>13, <2>1, <3>1
  <2> QED BY <2>3, <2>4, <2>5
<1>17. /\ Len(frames') = n + 1 /\ frames'[n + 1].todo = k.to /\ frames'[n + 1].leave = FALSE
       /\ \A i \in 1 .. n - 1 : frames'[i] = frames[i]
       /\ frames'[n].todo = Tail(Top.todo) /\ frames'[n].leave = Top.leave
  <2> DEFINE F == [todo : Path, leave : BOOLEAN]
             new == [todo |-> k.to, leave |-> FALSE]
  <2>1. /\ Advanced \in Seq(F) /\ Len(Advanced) = n
        /\ \A i \in 1 .. n - 1 : Advanced[i] = frames[i]
        /\ Advanced[n].todo = Tail(Top.todo) /\ Advanced[n].leave = Top.leave
    BY <1>3, <1>4, WalkType, AdvancedFrames
  <2>2. new \in F /\ new.todo = k.to /\ new.leave = FALSE
    BY <1>8
  <2>3. frames' = Append(Advanced, new)
    BY <1>0
  <2> HIDE DEF F, new
  <2>4. /\ Len(frames') = n + 1 /\ frames'[n + 1] = new
        /\ \A i \in 1 .. n : frames'[i] = Advanced[i]
    BY <1>9, <2>1, <2>2, <2>3
  <2> QED BY <1>9, <2>1, <2>2, <2>4
<1>18. Wanted' = Wanted /\ Slash' = Slash /\ fs' = fs /\ call' = call /\ chroot' = chroot
  BY <1>4, SameRequest
<1>19. StillToTake(r)'
  <2>1. rest[1] = frames[1].todo \o Slash
    BY <1>2 DEF OnTrack, StillToTake
  <2>2. \A i \in 2 .. n : /\ rest[i] = frames[i].todo \o rest[i - 1]
                          /\ call.nofollow => rest[i - 1] # << >>
    BY <1>2, <1>3 DEF OnTrack, StillToTake
  <2>3. r[1] = frames'[1].todo \o Slash
    <3>1. CASE n = 1
      <4>1. Under(rest) = Slash
        BY <1>3, <3>1 DEF Under
      <4> QED BY <1>10, <1>16, <1>17, <3>1, <4>1
    <3>2. CASE n # 1
      <4>1. 1 \in 1 .. n - 1
        BY <1>9, <3>2
      <4> QED BY <1>16, <1>17, <2>1, <4>1
    <3> QED BY <3>1, <3>2
  <2>4. ASSUME NEW i \in 2 .. n + 1
        PROVE  r[i] = frames'[i].todo \o r[i - 1] /\ (call.nofollow => r[i - 1] # << >>)
    <3>1. CASE i = n + 1
      <4>1. i - 1 = n
        BY <1>9, <3>1
      <4>2. call.nofollow => Tail(t) # << >>
        <5>1. Len(<< >>) = 0
          OBVIOUS
        <5>2. call.nofollow => Len(Tail(t)) # 0
          BY <1>9, <1>10, <1>11 DEF Path
        <5> QED BY <5>1, <5>2
      <4> QED BY <1>16, <1>17, <3>1, <4>1, <4>2
    <3>2. CASE i = n
      <4>1. Under(rest) = rest[n - 1] /\ i - 1 \in 1 .. n - 1
        BY <1>3, <1>9, <3>2 DEF Under
      <4>2. r[n] = frames'[n].todo \o rest[n - 1] /\ r[n - 1] = rest[n - 1] /\ n \in 2 .. n
        <5>1. n \in 2 .. n /\ n - 1 \in 1 .. n - 1
          BY <1>9, <3>2
        <5>2. r[n] = frames'[n].todo \o rest[n - 1]
          BY <1>10, <1>16, <1>17, <4>1
        <5> QED BY <1>16, <5>1, <5>2
      <4>3. call.nofollow => rest[n - 1] # << >>
        BY <2>2, <4>2
      <4> QED BY <3>2, <4>2, <4>3
    <3>3. CASE i # n /\ i # n + 1
      <4>1. i \in 1 .. n - 1 /\ i - 1 \in 1 .. n - 1 /\ i \in 2 .. n
        BY <1>9, <3>3
      <4>2. frames'[i] = frames[i] /\ r[i] = rest[i] /\ r[i - 1] = rest[i - 1]
        BY <1>16, <1>17, <4>1
      <4> QED BY <2>2, <4>1, <4>2
    <3> QED BY <3>1, <3>2, <3>3
  <2> QED BY <1>16, <1>17, <1>18, <2>3, <2>4, Zenon DEF StillToTake
<1>20. OnTrack(l - 1, r)' /\ l - 1 \in 0 .. MaxLinkRecursion
  <2>1. l - 1 \in 0 .. MaxLinkRecursion /\ n - 1 <= MaxLinkRecursion - l
    BY <1>2, <1>3, <1>14, BoundsType DEF OnTrack
  <2>2. Len(frames)' - 1 <= MaxLinkRecursion - (l - 1)
    BY <1>9, <1>17, <2>1, BoundsType
  <2>3. Kernel(fs')[At(newpath', r[Len(frames')], ~call'.nofollow, l - 1, chroot')] = Wanted'
    BY <1>3, <1>14, <1>15, <1>16, <1>17, <1>18, Zenon
  <2> QED BY <1>19, <2>1, <2>2, <2>3 DEF OnTrack
<1>21. \A i \in 1 .. Len(frames') :
         frames'[i].leave = (i = 1 /\ call.nofollow /\ ~call.req.slash)
  <2>1. \A i \in 1 .. n : frames[i].leave = (i = 1 /\ call.nofollow /\ ~call.req.slash)
    BY <1>3 DEF Tracks
  <2>2. \A i \in 1 .. n : frames'[i].leave = frames[i].leave
    <3>1. \A i \in 1 .. n : i \in 1 .. n - 1 \/ i = n
      BY <1>9
    <3> QED BY <1>9, <1>17, <3>1, Zenon
  <2>3. \A i \in 1 .. n + 1 : i \in 1 .. n \/ (i = n + 1 /\ i # 1)
    BY <1>9
  <2>4. ASSUME NEW i \in 1 .. n + 1
        PROVE  frames'[i].leave = (i = 1 /\ call.nofollow /\ ~call.req.slash)
    <3>1. CASE i \in 1 .. n
      BY <2>1, <2>2, <3>1, Zenon
    <3>2. CASE i = n + 1 /\ i # 1
      <4>1. frames'[i].leave = FALSE
        BY <1>17, <3>2, Zenon
      <4> QED BY <3>2, <4>1, Zenon
    <3> QED BY <2>3, <3>1, <3>2
  <2> QED BY <1>17, <2>4, Zenon
<1> QED BY <1>4, <1>15, <1>18, <1>20, <1>21 DEF Tracks

\* At the end of a target the walk goes on with what was left before it.
LEMMA TracksReturn ==
    ASSUME IInv, Tracks, pc = "walk", Comparable, Wanted # {}, ReturnElements
    PROVE  Tracks'
<1>1. PICK l \in 0 .. MaxLinkRecursion : \E rest : OnTrack(l, rest)
  BY DEF Tracks
<1>2. PICK rest : OnTrack(l, rest)
  BY <1>1
<1>3. PICK n, r : n = Len(frames) /\ r = [i \in 1 .. n - 1 |-> rest[i]]
  OBVIOUS
<1>4. /\ n > 1 /\ Top.todo = << >> /\ frames' = Front(frames) /\ newpath' = newpath /\ mode' = mode
      /\ UNCHANGED << fs, cwd, chroot, dirfd, fddir, call >>
  BY <1>3 DEF ReturnElements, Fixed
<1>5. /\ n \in Nat \ {0} /\ Under(rest) \in Path /\ rest[n] = Top.todo \o Under(rest)
      /\ rest \in [1 .. n -> Path] /\ Top.todo \in Path
  BY <1>2, <1>3, WalkFacts DEF OnTrack, StillToTake
<1>6. rest[n] = rest[n - 1]
  <2>1. Under(rest) = rest[n - 1]
    BY <1>3, <1>4 DEF Under
  <2>2. Top.todo \o Under(rest) = Under(rest)
    BY <1>4, <1>5, ConcatPath
  <2> QED BY <1>5, <2>1, <2>2, Zenon
<1>7. Len(frames') = n - 1 /\ \A i \in 1 .. n - 1 : frames'[i] = frames[i]
  <2> DEFINE F == [todo : Path, leave : BOOLEAN]
             m == n - 1
  <2>1. frames \in Seq(F) /\ m \in Nat /\ m <= Len(frames)
    BY <1>3, <1>5 DEF IInv, TypeOK
  <2>2. frames' = SubSeq(frames, 1, m)
    BY <1>3, <1>4 DEF Front
  <2> HIDE DEF F, m
  <2>3. Len(frames') = m /\ \A i \in 1 .. m : frames'[i] = frames[i]
    BY <2>1, <2>2
  <2> QED BY <2>3 DEF m
<1>8. Wanted' = Wanted /\ Slash' = Slash /\ fs' = fs /\ call' = call /\ chroot' = chroot
  BY <1>4, SameRequest
<1>9. r \in [1 .. n - 1 -> Path] /\ \A i \in 1 .. n - 1 : r[i] = rest[i]
  BY <1>3, <1>5
<1>10. StillToTake(r)'
  <2>1. /\ rest[1] = frames[1].todo \o Slash
        /\ \A i \in 2 .. n : /\ rest[i] = frames[i].todo \o rest[i - 1]
                             /\ call.nofollow => rest[i - 1] # << >>
    BY <1>2, <1>3 DEF OnTrack, StillToTake
  <2>2. 1 \in 1 .. n - 1 /\ \A i \in 2 .. n - 1 : i \in 2 .. n /\ i \in 1 .. n - 1 /\ i - 1 \in 1 .. n - 1
    BY <1>4, <1>5
  <2>3. /\ r[1] = frames'[1].todo \o Slash
        /\ \A i \in 2 .. n - 1 : /\ r[i] = frames'[i].todo \o r[i - 1]
                                 /\ call.nofollow => r[i - 1] # << >>
    BY <1>7, <1>9, <2>1, <2>2
  <2> QED BY <1>7, <1>8, <1>9, <2>3, Zenon DEF StillToTake
<1>11. OnTrack(l, r)'
  <2>1. Len(frames)' - 1 <= MaxLinkRecursion - l
    BY <1>2, <1>3, <1>5, <1>7, BoundsType DEF OnTrack
  <2>2. Kernel(fs)[At(newpath, rest[n], ~call.nofollow, l, chroot)] = Wanted
    BY <1>2, <1>3, Zenon DEF OnTrack
  <2>3. r[n - 1] = rest[n]
    <3>1. n - 1 \in 1 .. n - 1
      BY <1>4, <1>5
    <3> QED BY <1>6, <1>9, <3>1
  <2>4. Kernel(fs')[At(newpath', r[Len(frames')], ~call'.nofollow, l, chroot')] = Wanted'
    BY <1>4, <1>7, <1>8, <2>2, <2>3, Zenon
  <2> QED BY <1>10, <2>1, <2>4 DEF OnTrack
<1>12. \A i \in 1 .. Len(frames') :
         frames'[i].leave = (i = 1 /\ call.nofollow /\ ~call.req.slash)
  <2>1. \A i \in 1 .. n : frames[i].leave = (i = 1 /\ call.nofollow /\ ~call.req.slash)
    BY <1>3 DEF Tracks
  <2>2. \A i \in 1 .. n - 1 : i \in 1 .. n
    BY <1>5
  <2> QED BY <1>7, <2>1, <2>2, Zenon
<1>13. newpath' \in Seq(Names) /\ (newpath' \in DOMAIN fs => mode' = fs[newpath'].kind)
  BY <1>4 DEF Tracks
<1> QED BY <1>8, <1>11, <1>12, <1>13 DEF Tracks

\* The last element of a sequence, and the others.
LEMMA LastAppended ==
    ASSUME NEW T, NEW p \in Seq(T), NEW e \in T
    PROVE  /\ Len(Append(p, e)) = Len(p) + 1 /\ Len(p) \in Nat
           /\ Last(Append(p, e)) = e /\ Front(Append(p, e)) = p
           /\ Len(p) = 0 => Append(p, e) = << e >>
           /\ Len(p) # 0 => Last(p) = p[Len(p)] /\ Len(p) \in 1 .. Len(p)
<1>1. /\ Len(Append(p, e)) = Len(p) + 1 /\ Append(p, e)[Len(p) + 1] = e
      /\ Len(p) \in Nat /\ Len(p) + 1 - 1 = Len(p)
  OBVIOUS
<1>2. Last(Append(p, e)) = e
  BY <1>1 DEF Last
<1>3. SubSeq(Append(p, e), 1, Len(p)) = p
  OBVIOUS
<1>4. Front(Append(p, e)) = p
  BY <1>1, <1>3 DEF Front
<1>5. Len(p) = 0 => Append(p, e) = << e >>
  OBVIOUS
<1> QED BY <1>1, <1>2, <1>4, <1>5 DEF Last

\* Taking off the slash that was added gives back a canonical path.
LEMMA SlashGoes ==
    ASSUME NEW p \in Seq(Names)
    PROVE  Base(StripSlash(p)) = p /\ Base(StripSlash(Append(p, ""))) = p
<1>1. PICK e : e = ""
  OBVIOUS
<1>2. p \in Seq(Elements) /\ Len(p) \in Nat /\ \A i \in 1 .. Len(p) : p[i] \in Names
  BY PathType DEF Path
<1>3. e \notin Names /\ e \in Elements
  BY <1>1, PathAssumption DEF Elements
<1>4. /\ Len(Append(p, e)) = Len(p) + 1
      /\ Last(Append(p, e)) = e /\ Front(Append(p, e)) = p
      /\ Len(p) = 0 => Append(p, e) = << e >>
      /\ Len(p) # 0 => Last(p) = p[Len(p)] /\ Len(p) \in 1 .. Len(p)
  BY <1>2, <1>3, LastAppended
<1>5. Len(p) > 1 => Last(p) # e
  BY <1>2, <1>3, <1>4
<1>6. StripSlash(p) = p
  BY <1>1, <1>5 DEF StripSlash
<1>7. p # << e >>
  <2>1. SUFFICES ASSUME p = << e >> PROVE FALSE
    OBVIOUS
  <2>2. Len(p) = 1 /\ p[1] = e
    BY <2>1
  <2>3. 1 \in 1 .. Len(p)
    BY <2>2
  <2> QED BY <1>2, <1>3, <2>2, <2>3
<1>8. Base(p) = p
  BY <1>1, <1>7 DEF Base
<1>9. Base(StripSlash(Append(p, e))) = p
  <2>1. CASE Len(p) = 0
    <3>1. p = << >> /\ Append(p, e) = << e >> /\ ~(Len(Append(p, e)) > 1)
      BY <1>2, <1>4, <2>1, NoElement
    <3>2. StripSlash(Append(p, e)) = Append(p, e)
      BY <3>1 DEF StripSlash
    <3> QED BY <1>1, <3>1, <3>2 DEF Base
  <2>2. CASE Len(p) # 0
    <3>1. Len(Append(p, e)) > 1
      BY <1>2, <1>4, <2>2
    <3>2. StripSlash(Append(p, e)) = p
      BY <1>1, <1>4, <3>1 DEF StripSlash
    <3> QED BY <1>8, <3>2
  <2> QED BY <2>1, <2>2
<1> QED BY <1>1, <1>6, <1>8, <1>9

\* At the end of the walk the kernel is at its end too.
LEMMA TracksDone ==
    ASSUME IInv, Tracks, pc = "walk", Comparable, Wanted # {}, FixPathDone
    PROVE  AgreesWithKernel'
<1>1. PICK l \in 0 .. MaxLinkRecursion : \E rest : OnTrack(l, rest)
  BY DEF Tracks
<1>2. PICK rest : OnTrack(l, rest)
  BY <1>1
<1>3. PICK t, go : t = rest[Len(frames)] /\ go = ~call.nofollow
  OBVIOUS
<1>4. /\ Len(frames) = 1 /\ Top.todo = << >> /\ UNCHANGED << fs, cwd, chroot, dirfd, fddir, call >>
      /\ newpath' = newpath \/ newpath' = Append(newpath, "")
  BY DEF FixPathDone
<1>5. /\ fs \in Filesystems /\ newpath \in Path /\ chroot \in Path /\ l \in Nat
      /\ t \in Path /\ go \in BOOLEAN
      /\ Top.todo \in Path /\ Under(rest) \in Path /\ t = Top.todo \o Under(rest)
      /\ Under(rest) = Slash
  BY <1>2, <1>3, <1>4, WalkFacts DEF Under
<1>6. t = Slash
  BY <1>4, <1>5, ConcatPath
<1>7. Kernel(fs)[At(newpath, t, go, l, chroot)] = Wanted
  BY <1>2, <1>3, Zenon DEF OnTrack
<1>8. Kernel(fs)[At(newpath, << >>, go, l, chroot)] = {newpath}
  <2>1. << >> \in Path
    BY DEF Path
  <2>2. At(newpath, << >>, go, l, chroot) \in Walks
    BY <1>5, <2>1 DEF At, Walks
  <2>3. /\ Ended(fs, At(newpath, << >>, go, l, chroot))
        /\ Outcome(fs, At(newpath, << >>, go, l, chroot)) = {newpath}
    BY EndOfWalk DEF At
  <2> QED BY <1>5, <2>2, <2>3, KernelEquation
<1>9. Wanted = {newpath}
  <2>1. CASE call.req.slash
    <3>1. t = << "" >>
      BY <1>6, <2>1 DEF Slash
    <3>2. Head(<< "" >>) = "" /\ Tail(<< "" >>) = << >> /\ << "" >> # << >>
      OBVIOUS
    <3>3. Head(t) = "" /\ Tail(t) = << >> /\ t # << >>
      BY <3>1, <3>2, Zenon
    <3>4. Moves(Kernel(fs)[At(newpath, t, go, l, chroot)], fs, newpath, t, go, l, chroot,
                Head(t), Append(newpath, Head(t)))
      BY <1>5, <1>7, <3>3, KernelStep
    <3> QED BY <1>7, <1>8, <3>3, <3>4 DEF Moves
  <2>2. CASE ~call.req.slash
    <3>1. t = << >>
      BY <1>6, <2>2 DEF Slash
    <3> QED BY <1>7, <1>8, <3>1
  <2> QED BY <2>1, <2>2
<1>10. Base(StripSlash(newpath')) = newpath
  BY <1>4, SlashGoes DEF Tracks
<1>11. Wanted' = Wanted
  BY <1>4, SameRequest
<1>12. \A q \in Wanted' : Base(StripSlash(newpath')) = q
  BY <1>9, <1>10, <1>11
<1> QED BY <1>12 DEF AgreesWithKernel

\* At the start the kernel has the whole request before it.
LEMMA TracksStart ==
    ASSUME IInv, pseudo_root_path
    PROVE  Tracks'
<1>1. PICK c \in CallShapes :
         /\ call' = c /\ root' = MinLen(c) /\ newpath' = BasePath(c)
         /\ mode' = IF Len(BasePath(c)) > MinLen(c) THEN Lstat(BasePath(c)) ELSE "dir"
         /\ frames' = << [todo |-> c.req.elems, leave |-> c.nofollow /\ ~c.req.slash] >>
  BY DEF pseudo_root_path
<1>2. fs' = fs /\ cwd' = cwd /\ chroot' = chroot /\ dirfd' = dirfd /\ fddir' = fddir
  BY DEF pseudo_root_path
<1>3. c.req \in Requests /\ c.nofollow \in BOOLEAN
  BY DEF CallShapes
<1>4. /\ c.req.abs \in BOOLEAN /\ c.req.elems \in Path /\ c.req.slash \in BOOLEAN
      /\ c.req.abs \/ c.req.elems # << >>
  BY <1>3, PathAssumption
<1>5. TypeOK /\ fs \in Filesystems /\ chroot \in Path /\ BasePath(c) \in Path
  BY <1>4, BaseType DEF IInv, TypeOK
<1>6. BasePath(call)' = BasePath(c)
  BY <1>1, <1>2 DEF BasePath
<1>7. Comparable' => /\ chroot \in DOMAIN fs /\ fs[chroot].kind = "dir"
                     /\ Below(chroot, BasePath(c))
  BY <1>2, <1>6 DEF Comparable
<1>8. PICK t, go, d, s, r :
         /\ t = (IF c.req.slash THEN Append(c.req.elems, "") ELSE c.req.elems)
         /\ go = ~c.nofollow /\ d = BasePath(c)
         /\ s = (IF c.req.slash THEN << "" >> ELSE << >>) /\ r = [i \in 1 .. 1 |-> t]
  OBVIOUS
<1>9. Wanted' = Kernel(fs)[At(d, t, go, MaxLinkRecursion, chroot)]
  <2>1. Wanted' = Kernel(fs)[At(BasePath(c),
                   IF c.req.slash THEN Append(c.req.elems, "") ELSE c.req.elems,
                   ~c.nofollow, MaxLinkRecursion, chroot)]
    BY <1>1, <1>2, <1>6 DEF Wanted, LookupWithin, At, Given
  <2> QED BY <1>8, <2>1, Zenon
<1>10. t = c.req.elems \o s /\ t \in Path /\ (c.req.elems # << >> => t # << >>) /\ Slash' = s
  <2>1. PICK e : e = ""
    OBVIOUS
  <2>2. e \in Elements
    BY <2>1 DEF Elements
  <2> DEFINE q == c.req.elems
  <2>3. q \in Seq(Elements)
    BY <1>4 DEF Path
  <2> HIDE DEF q
  <2>4. Append(q, e) = q \o << e >> /\ Append(q, e) \in Seq(Elements) /\ q \o << >> = q
        /\ Append(q, e) # << >>
    BY <2>2, <2>3
  <2>5. Slash' = s
    BY <1>1, <1>8 DEF Slash
  <2> QED BY <1>8, <2>1, <2>3, <2>4, <2>5 DEF q, Path
<1>11. /\ Len(frames') = 1 /\ frames'[1].todo = c.req.elems
       /\ frames'[1].leave = (c.nofollow /\ ~c.req.slash)
  BY <1>1
<1> SUFFICES ASSUME Comparable', Wanted' # {}
             PROVE  /\ newpath' \in Seq(Names)
                    /\ newpath' \in DOMAIN fs => mode' = fs[newpath'].kind
                    /\ \A i \in 1 .. Len(frames') :
                          frames'[i].leave = (i = 1 /\ c.nofollow /\ ~c.req.slash)
                    /\ OnTrack(MaxLinkRecursion, r)'
  BY <1>1, <1>2, BoundsType DEF Tracks
<1>12. d \in DOMAIN fs /\ fs[d].kind = "dir" /\ d \in Path
  <2>1. CASE t # << >>
    <3>1. Moves(Kernel(fs)[At(d, t, go, MaxLinkRecursion, chroot)], fs, d, t, go,
                MaxLinkRecursion, chroot, Head(t), Append(d, Head(t)))
      BY <1>3, <1>5, <1>8, <1>9, <1>10, <2>1, BoundsType, KernelStep
    <3> QED BY <1>5, <1>8, <3>1 DEF Moves
  <2>2. CASE t = << >>
    <3>1. c.req.abs
      BY <1>4, <1>10, <2>2
    <3>2. d = chroot
      BY <1>8, <3>1 DEF BasePath
    <3> QED BY <1>5, <1>7, <3>2
  <2> QED BY <2>1, <2>2
<1>13. newpath' \in Seq(Names)
  BY <1>1, <1>5, <1>8, <1>12, TreeFacts
<1>14. mode' = fs[newpath'].kind
  <2>1. CASE Len(d) > MinLen(c)
    BY <1>1, <1>5, <1>8, <1>12, <2>1, LstatCanonical
  <2>2. CASE ~(Len(d) > MinLen(c))
    <3>1. MinLen(c) = Len(chroot) /\ Below(chroot, d)
      <4>1. c.req.abs \/ Below(chroot, BasePath(c)) => MinLen(c) = Len(chroot)
        BY <1>4, <1>5, BaseType
      <4> QED BY <1>7, <1>8, <4>1
    <3>2. Len(chroot) \in Nat /\ Len(d) \in Nat /\ Len(chroot) <= Len(d)
          /\ \A i \in 1 .. Len(chroot) : chroot[i] = d[i]
      <4>1. Len(chroot) \in Nat /\ Len(d) \in Nat
        BY <1>5, <1>12 DEF Path
      <4> QED BY <1>5, <1>12, <3>1, <4>1, PrefixElements
    <3>3. Len(d) = Len(chroot)
      BY <2>2, <3>1, <3>2
    <3>4. d = chroot
      BY <1>5, <1>12, <3>2, <3>3 DEF Path
    <3> QED BY <1>1, <1>7, <1>8, <2>2, <3>4
  <2> QED BY <2>1, <2>2
<1>15. \A i \in 1 .. Len(frames') :
          frames'[i].leave = (i = 1 /\ c.nofollow /\ ~c.req.slash)
  <2>1. \A i \in 1 .. Len(frames') : i = 1
    BY <1>11
  <2> QED BY <1>11, <2>1, Zenon
<1>16. OnTrack(MaxLinkRecursion, r)'
  <2>1. r \in [1 .. 1 -> Path] /\ r[1] = t
    <3>1. r = [i \in 1 .. 1 |-> t]
      BY <1>8
    <3>2. t \in Path
      BY <1>10
    <3> QED BY <3>1, <3>2
  <2>2. StillToTake(r)'
    <3>1. \A i \in 2 .. 1 : FALSE
      OBVIOUS
    <3> QED BY <1>10, <1>11, <2>1, <3>1, Zenon DEF StillToTake
  <2>3. Len(frames)' - 1 <= MaxLinkRecursion - MaxLinkRecursion
    BY <1>11, BoundsType
  <2>4. Kernel(fs')[At(newpath', r[Len(frames')], ~call'.nofollow, MaxLinkRecursion, chroot')] = Wanted'
    BY <1>1, <1>2, <1>8, <1>9, <1>11, <2>1, Zenon
  <2> QED BY <2>2, <2>3, <2>4 DEF OnTrack
<1> QED BY <1>13, <1>14, <1>15, <1>16

KInv == IInv /\ Tracks /\ AgreesWithKernel

\* Every step keeps the walk on track, and the one that ends it ends it where the
\* kernel's walk ends.
LEMMA NextTracks == KInv /\ [Next]_vars => KInv'
<1> SUFFICES ASSUME KInv, [Next]_vars PROVE Tracks' /\ AgreesWithKernel'
  BY NextInv DEF KInv
<1> USE DEF KInv
<1>1. CASE pseudo_root_path
  BY <1>1, TracksStart DEF pseudo_root_path, AgreesWithKernel
<1>2. CASE Walk
  <2>1. pc = "walk" /\ UNCHANGED << fs, cwd, chroot, dirfd, fddir, call >>
    BY <1>2 DEF Walk, SkipElement, BackUp, AppendElement, ExpandLink, OverflowPath,
                ReturnElements, FixPathDone, Walking, Appends, Fixed
  <2>2. Wanted' = Wanted /\ (Comparable' <=> Comparable)
    BY <2>1, SameRequest
  <2>3. CASE ~Comparable \/ Wanted = {}
    BY <2>2, <2>3 DEF Tracks, AgreesWithKernel
  <2>4. CASE Comparable /\ Wanted # {}
    <3>1. CASE FixPathDone
      BY <2>1, <2>4, <3>1, TracksDone DEF FixPathDone, Tracks
    <3>2. CASE OverflowPath
      BY <3>2 DEF OverflowPath, Tracks, AgreesWithKernel
    <3>3. CASE SkipElement \/ BackUp \/ AppendElement \/ ExpandLink \/ ReturnElements
      <4>1. pc' = "walk"
        BY <2>1, <3>3 DEF SkipElement, BackUp, AppendElement, ExpandLink, ReturnElements, Fixed
      <4>2. Tracks'
        BY <2>1, <2>4, <3>3, TracksSkip, TracksBackUp, TracksAppend, TracksExpand, TracksReturn
      <4> QED BY <4>1, <4>2 DEF AgreesWithKernel
    <3> QED BY <1>2, <3>1, <3>2, <3>3 DEF Walk
  <2> QED BY <2>3, <2>4
<1>3. CASE HandOn
  <2>1. pc' = "handed"
    BY <1>3 DEF HandOn
  <2>2. ~Fits(call)'
    BY <2>1, NextInv DEF IInv, Bounded
  <2> QED BY <2>1, <2>2 DEF Tracks, AgreesWithKernel
<1>4. CASE Finish \/ fchdir
  <2>1. pc' = "idle"
    BY <1>4 DEF Finish, chdir, pseudo_client_chroot, open, Refused, Return, fchdir
  <2> QED BY <2>1 DEF Tracks, AgreesWithKernel
<1>5. CASE UNCHANGED vars
  <2>1. UNCHANGED << fs, cwd, chroot, dirfd, fddir, call, newpath, root, mode, frames, pc, calls >>
    BY <1>5 DEF vars, walk
  <2>2. Wanted' = Wanted /\ (Comparable' <=> Comparable) /\ Slash' = Slash
    BY <2>1, SameRequest
  <2>3. AgreesWithKernel'
    BY <2>1, <2>2 DEF AgreesWithKernel, Fits, BasePath
  <2>4. \A l, rest : OnTrack(l, rest) => OnTrack(l, rest)'
    BY <2>1, <2>2 DEF OnTrack, StillToTake
  <2>5. Tracks'
    BY <2>1, <2>2, <2>4 DEF Tracks
  <2> QED BY <2>3, <2>5
<1> QED BY <1>1, <1>2, <1>3, <1>4, <1>5 DEF Next

\* The path that goes to the underlying call and to the database is the canonical
\* path of what the kernel, in the chroot directory, finds for the request, for
\* every file system, every chain of links as they are stored and every request
\* that fits the buffer together with its base (pseudo_fix_path, doc/chroot).
THEOREM KernelAgrees == Spec => []AgreesWithKernel
<1>1. Init => KInv
  BY InitInv DEF Init, KInv, Tracks, AgreesWithKernel
<1>2. KInv => AgreesWithKernel
  BY DEF KInv
<1> QED BY <1>1, <1>2, NextTracks, PTL DEF Spec
=============================================================================
