------------------------ MODULE ProcessState_proof ------------------------
(***************************************************************************)
(* Theorems about ProcessState, for any ids, directories and number of     *)
(* calls.  The lemmas say what the initialisation of the library does to   *)
(* the fields of a process; the invariant then follows call by call.       *)
(***************************************************************************)
EXTENDS ProcessState, TLAPS

\* The cache says whether the library is disabled.
FlagStored(q) ==
    /\ q.disabled => q.cache.DISABLED = {"yes"}
    /\ ~q.disabled => q.cache.DISABLED = {"no"}

\* A disabled library has at most one level of antimagic, an enabled one none.
Balanced == p.antimagic \in {0, 1} /\ (p.antimagic = 1 => p.disabled)

\* As long as nobody asked for it, PSEUDO_UNLOAD is nowhere.
NotAsked == ~asked => p.env.var.UNLOAD = Unset /\ p.cache.UNLOAD = Unset

\* Until then the cache says whether the library is disabled.
FlagKept == p.loaded /\ ~asked => FlagStored(p)

IInv == TypeOK /\ Balanced /\ EnabledEmulates /\ NotAsked /\ FlagKept
-----------------------------------------------------------------------------
\* One environment laid over another.
LEMMA OverType ==
    ASSUME NEW a \in Variables, NEW b \in Variables
    PROVE  /\ Over(a, b) \in Variables
           /\ Over(a, b).UNLOAD = Unset <=> a.UNLOAD = Unset /\ b.UNLOAD = Unset
           /\ Over(a, b).DISABLED = IF a.DISABLED # Unset THEN a.DISABLED ELSE b.DISABLED
BY DEF Over, Keys, Variables

\* The environment without any variable.
LEMMA NoneType == NoVariables \in Variables /\ NoVariables.UNLOAD = Unset
BY DEF NoVariables, Variables, Keys, IdValues, DirValues, FlagValues, Unset

\* The value of a variable is one it may have.
LEMMA GetType ==
    ASSUME NEW q \in Process
    PROVE  /\ pseudo_get_value(q, "UIDS") \in IdValues
           /\ pseudo_get_value(q, "GIDS") \in IdValues
           /\ pseudo_get_value(q, "CHROOT") \in DirValues
           /\ pseudo_get_value(q, "DISABLED") \in FlagValues
<1>1. q.cache \in Variables /\ q.env.var \in Variables
  BY DEF Process, Environment
<1>2. Over(q.env.var, q.cache) \in Variables
  BY <1>1, OverType
<1>3. pseudo_init_util(q).cache = Over(q.env.var, q.cache)
  BY DEF pseudo_init_util, Process
<1> QED BY <1>1, <1>2, <1>3 DEF pseudo_get_value, Variables

\* The flags and the counter may be changed.
LEMMA FieldTypes ==
    ASSUME NEW q \in Process, NEW n \in Nat, NEW d \in BOOLEAN, NEW i \in BOOLEAN
    PROVE  /\ [q EXCEPT !.antimagic = n] \in Process
           /\ [q EXCEPT !.antimagic = n, !.disabled = d] \in Process
           /\ [q EXCEPT !.antimagic = n, !.disabled = d, !.inited = i] \in Process
           /\ [q EXCEPT !.disabled = d] \in Process
BY DEF Process

\* What does not change when a library is disabled or enabled.
Same(q, r) ==
    /\ r.loaded = q.loaded /\ r.env = q.env /\ r.uid = q.uid /\ r.gid = q.gid
    /\ r.cache.UNLOAD = q.cache.UNLOAD

\* Disabling.
LEMMA TurnOffStep ==
    ASSUME NEW q \in Process
    PROVE  /\ TurnOff(q) \in Process /\ Same(q, TurnOff(q)) /\ TurnOff(q).disabled
           /\ q.disabled => TurnOff(q).antimagic = q.antimagic
           /\ ~q.disabled => TurnOff(q).antimagic = q.antimagic + 1
           /\ TurnOff(q).inited = q.inited
<1>1. CASE q.disabled
  BY <1>1 DEF TurnOff, Same
<1>2. CASE ~q.disabled
  <2>1. TurnOff(q) = [q EXCEPT !.antimagic = q.antimagic + 1, !.disabled = TRUE]
    BY <1>2 DEF TurnOff, pseudo_antimagic, Process
  <2>2. TurnOff(q) \in Process
    <3>1. q.antimagic + 1 \in Nat
      BY DEF Process
    <3> QED BY <2>1, <3>1, FieldTypes
  <2>3. TurnOff(q).antimagic = q.antimagic + 1 /\ TurnOff(q).inited = q.inited
    BY <2>1 DEF Process
  <2>4. TurnOff(q).disabled = TRUE
    BY <2>1 DEF Process
  <2>5. Same(q, TurnOff(q))
    BY <2>1 DEF Process, Same
  <2> QED BY <1>2, <2>2, <2>3, <2>4, <2>5
<1> QED BY <1>1, <1>2

\* Enabling.
LEMMA TurnOnStep ==
    ASSUME NEW q \in Process, q.antimagic > 0
    PROVE  /\ TurnOn(q) \in Process /\ Same(q, TurnOn(q)) /\ ~TurnOn(q).disabled
           /\ q.disabled => TurnOn(q).antimagic = q.antimagic - 1 /\ ~TurnOn(q).inited
           /\ ~q.disabled => TurnOn(q).antimagic = q.antimagic /\ TurnOn(q).inited = q.inited
<1>1. CASE ~q.disabled
  BY <1>1 DEF TurnOn, Same
<1>2. CASE q.disabled
  <2>1. TurnOn(q) = [q EXCEPT !.antimagic = q.antimagic - 1, !.disabled = FALSE,
                              !.inited = FALSE]
    BY <1>2 DEF TurnOn, pseudo_magic, Process
  <2>2. TurnOn(q) \in Process
    <3>1. q.antimagic - 1 \in Nat
      BY DEF Process
    <3> QED BY <2>1, <3>1, FieldTypes
  <2>3. TurnOn(q).antimagic = q.antimagic - 1
    BY <2>1 DEF Process
  <2>4. TurnOn(q).disabled = FALSE /\ TurnOn(q).inited = FALSE
    BY <2>1 DEF Process
  <2>5. Same(q, TurnOn(q))
    BY <2>1 DEF Process, Same
  <2> QED BY <1>2, <2>2, <2>3, <2>4, <2>5
<1> QED BY <1>1, <1>2

\* The value of PSEUDO_DISABLED that counts.
Flag(q) ==
    IF q.env.var.DISABLED # Unset THEN q.env.var.DISABLED ELSE pseudo_get_value(q, "DISABLED")

\* Storing PSEUDO_DISABLED.
LEMMA SetFlag ==
    ASSUME NEW q \in Process, NEW x \in FlagValues, NEW r, r = pseudo_set_value(q, "DISABLED", x)
    PROVE  /\ r \in Process /\ Same(q, r)
           /\ r.disabled = q.disabled /\ r.antimagic = q.antimagic /\ r.inited = q.inited
           /\ r.cache.DISABLED = x
BY DEF pseudo_set_value, Process, Variables, Same

\* What CheckDisabled does: it only moves between disabled and enabled.
LEMMA CheckDisabledStep ==
    ASSUME NEW q \in Process, q.antimagic > 0, NEW r, r = CheckDisabled(q)
    PROVE  /\ r \in Process /\ Same(q, r)
           /\ Flag(q) = Unset => r.disabled = q.disabled
           /\ Flag(q) # Unset => (r.disabled <=> Flag(q) = {"yes"})
           /\ ~q.disabled /\ r.disabled => r.antimagic = q.antimagic + 1
           /\ q.disabled /\ ~r.disabled => r.antimagic = q.antimagic - 1 /\ ~r.inited
           /\ r.disabled = q.disabled => r.antimagic = q.antimagic /\ r.inited = q.inited
           /\ Flag(q) # Unset \/ ~q.disabled => FlagStored(r)
<1> DEFINE l == [TurnOn(q) EXCEPT !.local = TRUE]
<1>1. Flag(q) \in FlagValues
  BY GetType DEF Flag, Process, Environment, Variables
<1>2. /\ l \in Process /\ Same(TurnOn(q), l) /\ l.disabled = TurnOn(q).disabled
      /\ l.antimagic = TurnOn(q).antimagic /\ l.inited = TurnOn(q).inited
  BY TurnOnStep DEF Process, Same
<1>3. r = CASE Flag(q) = {"yes"}   -> pseudo_set_value(TurnOff(q), "DISABLED", {"yes"})
            [] Flag(q) = {"local"} -> pseudo_set_value(l, "DISABLED", {"no"})
            [] Flag(q) = {"no"}    -> pseudo_set_value(TurnOn(q), "DISABLED", {"no"})
            [] Flag(q) = Unset     -> pseudo_set_value(q, "DISABLED", {"no"})
  BY DEF CheckDisabled, Flag
<1> HIDE DEF l
<1>4. {"yes"} \in FlagValues /\ {"no"} \in FlagValues
  BY DEF FlagValues
<1>5. CASE Flag(q) = {"yes"}
  <2>1. r = pseudo_set_value(TurnOff(q), "DISABLED", {"yes"})
    BY <1>3, <1>5 DEF Unset
  <2>2. /\ r \in Process /\ Same(TurnOff(q), r) /\ r.disabled = TurnOff(q).disabled
        /\ r.antimagic = TurnOff(q).antimagic /\ r.inited = TurnOff(q).inited
        /\ r.cache.DISABLED = {"yes"}
    BY <1>4, <2>1, TurnOffStep, SetFlag
  <2> QED BY <1>5, <2>2, TurnOffStep DEF Same, Unset, FlagStored
<1>6. CASE Flag(q) = {"local"}
  <2>1. r = pseudo_set_value(l, "DISABLED", {"no"})
    BY <1>3, <1>6 DEF Unset
  <2>2. /\ r \in Process /\ Same(l, r) /\ r.disabled = l.disabled
        /\ r.antimagic = l.antimagic /\ r.inited = l.inited
        /\ r.cache.DISABLED = {"no"}
    BY <1>2, <1>4, <2>1, SetFlag
  <2>3. ~r.disabled /\ {"local"} # {"yes"}
    BY <1>2, <2>2, TurnOnStep
  <2> QED BY <1>2, <1>6, <2>2, <2>3, TurnOnStep DEF Same, Unset, Process, FlagStored
<1>7. CASE Flag(q) = {"no"}
  <2>1. r = pseudo_set_value(TurnOn(q), "DISABLED", {"no"})
    BY <1>3, <1>7 DEF Unset
  <2>2. /\ r \in Process /\ Same(TurnOn(q), r) /\ r.disabled = TurnOn(q).disabled
        /\ r.antimagic = TurnOn(q).antimagic /\ r.inited = TurnOn(q).inited
        /\ r.cache.DISABLED = {"no"}
    BY <1>4, <2>1, TurnOnStep, SetFlag
  <2>3. ~r.disabled /\ {"no"} # {"yes"}
    BY <2>2, TurnOnStep
  <2> QED BY <1>7, <2>2, <2>3, TurnOnStep DEF Same, Unset, Process, FlagStored
<1>8. CASE Flag(q) = Unset
  <2>1. r = pseudo_set_value(q, "DISABLED", {"no"})
    BY <1>3, <1>8 DEF Unset
  <2> QED BY <1>4, <1>8, <2>1, SetFlag DEF FlagStored, Process
<1> QED BY <1>1, <1>5, <1>6, <1>7, <1>8 DEF FlagValues

\* Reading the state keeps everything but the ids and the chroot directory.
LEMMA ReadStateStep ==
    ASSUME NEW q \in Process, NEW r, r = ReadState(q)
    PROVE  /\ r \in Process /\ r.inited = TRUE
           /\ r.loaded = q.loaded /\ r.env = q.env /\ r.cache = q.cache
           /\ r.disabled = q.disabled /\ r.antimagic = q.antimagic
<1> DEFINE u == pseudo_get_value(q, "UIDS")
           g == pseudo_get_value(q, "GIDS")
           uid == IF u = Unset THEN q.uid ELSE CHOOSE c \in u : TRUE
           gid == IF g = Unset THEN q.gid ELSE CHOOSE c \in g : TRUE
           uid2 == IF g = Unset THEN uid ELSE [uid EXCEPT !.f = gid.f]
           gid2 == [gid EXCEPT !.f = q.gid.f]
           ch == pseudo_get_value(q, "CHROOT")
<1>1. u \in IdValues /\ g \in IdValues /\ ch \in DirValues
  BY GetType
<1>2. r = [q EXCEPT !.uid = uid2, !.gid = gid2, !.chroot = ch, !.inited = TRUE]
  BY DEF ReadState
<1> HIDE DEF u, g, ch
<1>3. q.uid \in Identity /\ q.gid \in Identity
  BY DEF Process
<1>4. \A x \in IdValues : x # Unset => (CHOOSE c \in x : TRUE) \in Identity
  BY DEF IdValues, Unset
<1>5. uid \in Identity /\ gid \in Identity
  BY <1>1, <1>3, <1>4
<1> HIDE DEF uid, gid
<1>6. gid.f \in Ids /\ q.gid.f \in Ids
  BY <1>3, <1>5 DEF Identity
<1>7. uid2 \in Identity /\ gid2 \in Identity
  BY <1>5, <1>6 DEF Identity
<1> HIDE DEF uid2, gid2
<1> QED BY <1>1, <1>2, <1>7 DEF Process

\* Initialising the client.
LEMMA InitClientStep ==
    ASSUME NEW q \in Process, q.antimagic \in {1, 2}, q.antimagic = 2 => q.disabled,
           NEW r, r = pseudo_init_client(q)
    PROVE  /\ r \in Process /\ r.loaded = q.loaded /\ r.env = q.env
           /\ r.antimagic \in {0, 1, 2} /\ (r.antimagic = 2 => r.disabled)
           /\ ~r.disabled => r.inited /\ r.antimagic \in {0, 1}
           /\ q.inited /\ ~q.disabled => r.uid = q.uid /\ r.gid = q.gid
           /\ q.env.var.UNLOAD = Unset =>
                 /\ r.cache.UNLOAD = q.cache.UNLOAD
                 /\ Flag(q) = Unset => r.disabled = q.disabled
                 /\ Flag(q) # Unset => (r.disabled <=> Flag(q) = {"yes"})
                 /\ Flag(q) # Unset \/ ~q.disabled => FlagStored(r)
<1> DEFINE q1 == pseudo_antimagic(q)
           q2 == CheckDisabled(q1)
           a == CheckUnload(q2)
           b == IF a.inited THEN a ELSE [a EXCEPT !.chroot = Unset]
           c == IF b.disabled \/ b.inited THEN b ELSE ReadState(b)
<1>1. r = pseudo_magic(c)
  BY DEF pseudo_init_client
<1>2. /\ q1 \in Process /\ q1.antimagic = q.antimagic + 1 /\ Same(q, q1)
      /\ q1.disabled = q.disabled /\ q1.inited = q.inited /\ Flag(q1) = Flag(q)
      /\ q1.cache = q.cache
  BY DEF pseudo_antimagic, Process, Same, Flag, pseudo_get_value, pseudo_init_util
<1> HIDE DEF q1
<1>3. q.antimagic \in Nat /\ q1.antimagic > 0 /\ q1.disabled \in BOOLEAN
  BY <1>2 DEF Process
<1>4. /\ q2 \in Process /\ Same(q1, q2)
      /\ Flag(q1) = Unset => q2.disabled = q1.disabled
      /\ Flag(q1) # Unset => (q2.disabled <=> Flag(q1) = {"yes"})
      /\ ~q1.disabled /\ q2.disabled => q2.antimagic = q1.antimagic + 1
      /\ q1.disabled /\ ~q2.disabled => q2.antimagic = q1.antimagic - 1 /\ ~q2.inited
      /\ q2.disabled = q1.disabled => q2.antimagic = q1.antimagic /\ q2.inited = q1.inited
      /\ Flag(q1) # Unset \/ ~q1.disabled => FlagStored(q2)
  BY <1>2, <1>3, CheckDisabledStep
<1> HIDE DEF q2
<1>5. q2.antimagic \in {1, 2, 3} /\ (~q2.disabled => q2.antimagic \in {1, 2})
  BY <1>2, <1>3, <1>4 DEF Process
<1>6. /\ a \in Process /\ a.loaded = q2.loaded /\ a.env = q2.env
      /\ a.uid = q2.uid /\ a.gid = q2.gid /\ a.inited = q2.inited
      /\ a.antimagic = q2.antimagic /\ (~a.disabled => ~q2.disabled)
      /\ q2.env.var.UNLOAD = Unset => a = q2
  <2>1. CASE q2.env.var.UNLOAD = Unset
    BY <1>4, <2>1 DEF CheckUnload
  <2>2. CASE q2.env.var.UNLOAD # Unset
    <3> DEFINE s == pseudo_set_value(q2, "UNLOAD", q2.env.var.UNLOAD)
    <3>1. a = [s EXCEPT !.disabled = TRUE]
      BY <2>2 DEF CheckUnload
    <3>2. q2.env.var.UNLOAD \in {Unset, {"yes"}}
      BY <1>4 DEF Process, Environment, Variables
    <3>3. /\ s \in Process /\ s.loaded = q2.loaded /\ s.env = q2.env
          /\ s.uid = q2.uid /\ s.gid = q2.gid /\ s.inited = q2.inited
          /\ s.antimagic = q2.antimagic
      BY <1>4, <3>2 DEF pseudo_set_value, Process, Variables
    <3> HIDE DEF s
    <3>4. a \in Process
      BY <3>1, <3>3, FieldTypes
    <3>5. a.disabled = TRUE
      BY <3>1, <3>3 DEF Process
    <3>6. /\ a.loaded = s.loaded /\ a.env = s.env /\ a.uid = s.uid /\ a.gid = s.gid
          /\ a.inited = s.inited /\ a.antimagic = s.antimagic
      BY <3>1, <3>3 DEF Process
    <3> QED BY <2>2, <3>3, <3>4, <3>5, <3>6
  <2> QED BY <2>1, <2>2
<1> HIDE DEF a
<1>7. /\ b \in Process /\ b.loaded = a.loaded /\ b.env = a.env /\ b.cache = a.cache
      /\ b.uid = a.uid /\ b.gid = a.gid /\ b.inited = a.inited
      /\ b.antimagic = a.antimagic /\ b.disabled = a.disabled
  <2>1. Unset \in DirValues
    BY DEF DirValues
  <2>2. CASE a.inited
    BY <1>6, <2>2
  <2>3. CASE ~a.inited
    <3>1. b = [a EXCEPT !.chroot = Unset]
      BY <2>3
    <3> HIDE DEF b
    <3> QED BY <1>6, <2>1, <3>1 DEF Process
  <2> QED BY <2>2, <2>3
<1> HIDE DEF b
<1>8. /\ c \in Process /\ c.loaded = b.loaded /\ c.env = b.env /\ c.cache = b.cache
      /\ c.antimagic = b.antimagic /\ c.disabled = b.disabled
      /\ ~c.disabled => c.inited
      /\ b.disabled \/ b.inited => c.uid = b.uid /\ c.gid = b.gid
  <2>1. CASE b.disabled \/ b.inited
    BY <1>7, <2>1
  <2>2. CASE ~(b.disabled \/ b.inited)
    <3>1. c = ReadState(b)
      BY <2>2
    <3> HIDE DEF c
    <3>2. /\ c \in Process /\ c.inited = TRUE /\ c.loaded = b.loaded /\ c.env = b.env
          /\ c.cache = b.cache /\ c.disabled = b.disabled /\ c.antimagic = b.antimagic
      BY <1>7, <3>1, ReadStateStep
    <3> QED BY <2>2, <3>2
  <2> QED BY <2>1, <2>2
<1> HIDE DEF c
<1>9. c.antimagic > 0 /\ c.antimagic \in {1, 2, 3}
  BY <1>5, <1>6, <1>7, <1>8
<1>10. r = [c EXCEPT !.antimagic = c.antimagic - 1]
  BY <1>1, <1>8, <1>9 DEF pseudo_magic, Process
<1>11. r \in Process
  <2>1. c.antimagic - 1 \in Nat
    BY <1>9
  <2> QED BY <1>8, <1>10, <2>1, FieldTypes
<1>12. /\ r.loaded = c.loaded /\ r.env = c.env /\ r.cache = c.cache /\ r.uid = c.uid
       /\ r.gid = c.gid /\ r.inited = c.inited /\ r.disabled = c.disabled
       /\ r.antimagic = c.antimagic - 1
  BY <1>8, <1>10 DEF Process
<1>13. r.loaded = q.loaded /\ r.env = q.env
  BY <1>2, <1>4, <1>6, <1>7, <1>8, <1>12 DEF Same
<1>14. ~r.disabled => ~q2.disabled
  BY <1>6, <1>7, <1>8, <1>12
<1>15. r.antimagic = q2.antimagic - 1
  BY <1>6, <1>7, <1>8, <1>12
<1>16. /\ r.antimagic \in {0, 1, 2} /\ (r.antimagic = 2 => r.disabled)
       /\ ~r.disabled => r.inited /\ r.antimagic \in {0, 1}
  <2>1. r.antimagic \in {0, 1, 2}
    BY <1>5, <1>15
  <2>2. ~r.disabled => r.antimagic \in {0, 1}
    BY <1>5, <1>14, <1>15
  <2>3. ~r.disabled => r.inited
    BY <1>8, <1>12
  <2>4. r.antimagic = 2 => r.disabled
    BY <2>2
  <2> QED BY <2>1, <2>2, <2>3, <2>4
<1>17. q.inited /\ ~q.disabled => r.uid = q.uid /\ r.gid = q.gid
  <2> SUFFICES ASSUME q.inited, ~q.disabled PROVE r.uid = q.uid /\ r.gid = q.gid
    OBVIOUS
  <2>1. q1.disabled = FALSE /\ q2.disabled \in BOOLEAN
    BY <1>2, <1>3, <1>4 DEF Process
  <2>2. q2.disabled \/ q2.inited
    BY <1>2, <1>4, <2>1
  <2>3. b.disabled \/ b.inited
    BY <1>6, <1>7, <2>2
  <2> QED BY <1>2, <1>4, <1>6, <1>7, <1>8, <1>12, <2>3 DEF Same
<1>18. ASSUME q.env.var.UNLOAD = Unset
       PROVE  /\ r.cache.UNLOAD = q.cache.UNLOAD
              /\ Flag(q) = Unset => r.disabled = q.disabled
              /\ Flag(q) # Unset => (r.disabled <=> Flag(q) = {"yes"})
              /\ Flag(q) # Unset \/ ~q.disabled => FlagStored(r)
  <2>1. a = q2
    BY <1>2, <1>4, <1>6, <1>18 DEF Same
  <2>2. r.cache = q2.cache /\ r.disabled = q2.disabled
    BY <1>7, <1>8, <1>12, <2>1
  <2> QED BY <1>2, <1>4, <2>2 DEF Same, FlagStored
<1> QED BY <1>11, <1>13, <1>16, <1>17, <1>18

\* A state the invariant allows.
Sound(q) ==
    /\ q \in Process /\ q.antimagic \in {0, 1} /\ (q.antimagic = 1 => q.disabled)

\* The library's constructor, and the same code in the child of a fork.
LEMMA LibInitStep ==
    ASSUME NEW q, Sound(q), NEW r, r = libpseudo_init(q)
    PROVE  /\ Sound(r) /\ r.loaded = q.loaded /\ r.env = q.env
           /\ ~r.disabled => r.inited /\ r.antimagic = 0
           /\ q.inited /\ ~q.disabled => r.uid = q.uid /\ r.gid = q.gid
           /\ q.env.var.UNLOAD = Unset =>
                 /\ q.cache.UNLOAD = Unset => r.cache.UNLOAD = Unset
                 /\ Flag(q) = Unset => r.disabled = q.disabled
                 /\ Flag(q) # Unset => (r.disabled <=> Flag(q) = {"yes"})
                 /\ Flag(q) # Unset \/ ~q.disabled => FlagStored(r)
<1> DEFINE q1 == pseudo_antimagic(q)
           q2 == pseudo_init_util(q1)
           c == pseudo_init_client(q2)
<1>1. r = pseudo_magic(c)
  BY DEF libpseudo_init
<1>2. /\ q1 \in Process /\ q1.antimagic = q.antimagic + 1
      /\ q1.loaded = q.loaded /\ q1.env = q.env /\ q1.cache = q.cache
      /\ q1.uid = q.uid /\ q1.gid = q.gid
      /\ q1.disabled = q.disabled /\ q1.inited = q.inited
  BY DEF pseudo_antimagic, Sound, Process
<1> HIDE DEF q1
<1>3. q1.cache \in Variables /\ q1.env.var \in Variables
  BY <1>2 DEF Process, Environment
<1>4. Over(q1.env.var, q1.cache) \in Variables
  BY <1>3, OverType
<1>5. /\ q2 \in Process /\ q2.antimagic = q1.antimagic
      /\ q2.loaded = q1.loaded /\ q2.env = q1.env
      /\ q2.cache = Over(q1.env.var, q1.cache)
      /\ q2.uid = q1.uid /\ q2.gid = q1.gid
      /\ q2.disabled = q1.disabled /\ q2.inited = q1.inited
  BY <1>2, <1>4 DEF pseudo_init_util, Process
<1> HIDE DEF q2
<1>6. q2.antimagic \in {1, 2} /\ (q2.antimagic = 2 => q2.disabled)
  <2>1. q.antimagic \in {0, 1} /\ (q.antimagic = 1 => q.disabled)
    BY DEF Sound
  <2>2. q2.antimagic = q.antimagic + 1 /\ q2.disabled = q.disabled
    BY <1>2, <1>5
  <2> QED BY <2>1, <2>2
<1>7. /\ c \in Process /\ c.loaded = q2.loaded /\ c.env = q2.env
      /\ c.antimagic \in {0, 1, 2} /\ (c.antimagic = 2 => c.disabled)
      /\ ~c.disabled => c.inited /\ c.antimagic \in {0, 1}
      /\ q2.inited /\ ~q2.disabled => c.uid = q2.uid /\ c.gid = q2.gid
      /\ q2.env.var.UNLOAD = Unset =>
            /\ c.cache.UNLOAD = q2.cache.UNLOAD
            /\ Flag(q2) = Unset => c.disabled = q2.disabled
            /\ Flag(q2) # Unset => (c.disabled <=> Flag(q2) = {"yes"})
            /\ Flag(q2) # Unset \/ ~q2.disabled => FlagStored(c)
  BY <1>5, <1>6, InitClientStep
<1> HIDE DEF c
<1>8. /\ r.loaded = c.loaded /\ r.env = c.env /\ r.cache = c.cache /\ r.uid = c.uid
      /\ r.gid = c.gid /\ r.inited = c.inited /\ r.disabled = c.disabled
      /\ r.antimagic = IF c.antimagic > 0 THEN c.antimagic - 1 ELSE c.antimagic
      /\ r \in Process
  <2> DEFINE n == IF c.antimagic > 0 THEN c.antimagic - 1 ELSE c.antimagic
  <2>1. r = [c EXCEPT !.antimagic = n]
    BY <1>1 DEF pseudo_magic
  <2>2. n \in Nat
    BY <1>7
  <2> HIDE DEF n
  <2>3. r \in Process
    BY <1>7, <2>1, <2>2, FieldTypes
  <2>4. /\ r.loaded = c.loaded /\ r.env = c.env /\ r.cache = c.cache /\ r.uid = c.uid
        /\ r.gid = c.gid /\ r.inited = c.inited /\ r.disabled = c.disabled
        /\ r.antimagic = n
    BY <1>7, <2>1 DEF Process
  <2> QED BY <2>3, <2>4 DEF n
<1>9. Flag(q2) = Flag(q)
  <2>1. q2.cache.DISABLED = IF q.env.var.DISABLED # Unset THEN q.env.var.DISABLED
                                                           ELSE q.cache.DISABLED
    BY <1>2, <1>3, <1>5, OverType
  <2>2. q.cache \in Variables /\ q.env.var \in Variables /\ q2.cache \in Variables
    BY <1>2, <1>3, <1>4, <1>5
  <2>3. \A x \in Process : pseudo_init_util(x).cache = Over(x.env.var, x.cache)
    BY DEF pseudo_init_util, Process
  <2>4. /\ pseudo_init_util(q).cache = Over(q.env.var, q.cache)
        /\ pseudo_init_util(q2).cache = Over(q.env.var, q2.cache)
    BY <1>2, <1>5, <2>3 DEF Sound
  <2>5. \A x \in Variables :
           Over(q.env.var, x).DISABLED = IF q.env.var.DISABLED # Unset
                                         THEN q.env.var.DISABLED ELSE x.DISABLED
    BY <2>2, OverType
  <2> QED BY <1>2, <1>5, <2>1, <2>2, <2>4, <2>5 DEF Flag, pseudo_get_value
<1>10. r.antimagic \in {0, 1} /\ (r.antimagic = 1 => r.disabled)
  BY <1>7, <1>8
<1>11. ~r.disabled => r.inited /\ r.antimagic = 0
  BY <1>7, <1>8
<1>12. Sound(r) /\ r.loaded = q.loaded /\ r.env = q.env
  BY <1>2, <1>5, <1>7, <1>8, <1>10 DEF Sound
<1>13. q.inited /\ ~q.disabled => r.uid = q.uid /\ r.gid = q.gid
  BY <1>2, <1>5, <1>7, <1>8
<1>14. ASSUME q.env.var.UNLOAD = Unset
       PROVE  /\ q.cache.UNLOAD = Unset => r.cache.UNLOAD = Unset
              /\ Flag(q) = Unset => r.disabled = q.disabled
              /\ Flag(q) # Unset => (r.disabled <=> Flag(q) = {"yes"})
              /\ Flag(q) # Unset \/ ~q.disabled => FlagStored(r)
  <2>1. q.cache.UNLOAD = Unset => q2.cache.UNLOAD = Unset
    BY <1>2, <1>3, <1>5, <1>14, OverType
  <2> QED BY <1>2, <1>5, <1>7, <1>8, <1>9, <1>14, <2>1 DEF FlagStored
<1> QED BY <1>11, <1>12, <1>13, <1>14
-----------------------------------------------------------------------------
\* A new program.
LEMMA ImageStep ==
    ASSUME NEW e \in Environment, NEW r, r = Image(e)
    PROVE  /\ Sound(r) /\ r.loaded = e.preload /\ r.env = e
           /\ r.loaded /\ ~r.disabled => r.inited /\ r.antimagic = 0
           /\ e.var.UNLOAD = Unset =>
                 /\ r.cache.UNLOAD = Unset
                 /\ r.loaded => FlagStored(r) /\ (r.disabled <=> e.var.DISABLED = {"yes"})
<1> DEFINE q == Fresh(e)
<1>1. Everyone(0) \in Identity /\ Unset \in DirValues /\ e.preload \in BOOLEAN
      /\ e.var \in Variables
  BY IdsAssumption DEF Everyone, Identity, DirValues, Environment
<1>2. /\ q \in Process /\ q.loaded = e.preload /\ q.env = e /\ q.cache = NoVariables
      /\ q.antimagic = 0 /\ q.disabled = FALSE
  BY <1>1, NoneType DEF Fresh, Process
<1> HIDE DEF q
<1>3. Sound(q)
  BY <1>2 DEF Sound
<1>4. Flag(q) = e.var.DISABLED
  <2>1. NoVariables.DISABLED = Unset
    BY DEF NoVariables, Keys
  <2>2. pseudo_init_util(q).cache = Over(e.var, NoVariables)
    BY <1>2 DEF pseudo_init_util, Process
  <2>3. Over(e.var, NoVariables).DISABLED = e.var.DISABLED
    BY <1>1, <2>1, NoneType, OverType
  <2> QED BY <1>2, <2>1, <2>2, <2>3 DEF Flag, pseudo_get_value
<1>5. CASE e.preload
  <2>1. r = libpseudo_init(q)
    BY <1>5 DEF Image, q
  <2>2. {"yes"} # Unset
    BY DEF Unset
  <2> QED BY <1>2, <1>3, <1>4, <2>1, <2>2, LibInitStep, NoneType
<1>6. CASE ~e.preload
  <2>1. r = q
    BY <1>6 DEF Image, q
  <2> QED BY <1>2, <1>3, <1>6, <2>1, NoneType
<1> QED BY <1>5, <1>6

\* The environment as the wrappers of exec prepare it: PSEUDO_UNLOAD decides
\* about LD_PRELOAD, and what the environment lacks comes from the cache.
LEMMA PreparedStep ==
    ASSUME NEW q, Sound(q), NEW r, r = Prepared(q)
    PROVE  /\ Sound(r) /\ r.loaded = q.loaded /\ r.disabled = q.disabled /\ r.inited = q.inited
           /\ r.antimagic = q.antimagic /\ r.cache = q.cache /\ r.uid = q.uid /\ r.gid = q.gid
           /\ r.env \in Environment /\ r.env.var = Over(q.env.var, q.cache)
           /\ q.env.var.UNLOAD = Unset /\ q.cache.UNLOAD = Unset =>
                 r.env.preload /\ r = pseudo_setupenv(q) /\ ~pseudo_has_unload(r, NoVariables)
<1> DEFINE s == pseudo_setupenv(q)
           v == Over(q.env.var, q.cache)
<1>1. q \in Process /\ q.env.var \in Variables /\ q.cache \in Variables
  BY DEF Sound, Process, Environment
<1>2. v \in Variables /\ (q.env.var.UNLOAD = Unset /\ q.cache.UNLOAD = Unset => v.UNLOAD = Unset)
  BY <1>1, OverType
<1> HIDE DEF v
<1>3. s = [q EXCEPT !.env = [var |-> v, preload |-> TRUE]]
  BY DEF pseudo_setupenv, v
<1>4. [var |-> v, preload |-> TRUE] \in Environment
  BY <1>2 DEF Environment
<1>5. /\ s \in Process /\ s.loaded = q.loaded /\ s.disabled = q.disabled
      /\ s.inited = q.inited /\ s.antimagic = q.antimagic /\ s.cache = q.cache
      /\ s.uid = q.uid /\ s.gid = q.gid /\ s.env = [var |-> v, preload |-> TRUE]
  BY <1>1, <1>3, <1>4 DEF Process
<1> HIDE DEF s
<1>6. CASE pseudo_has_unload(s, NoVariables)
  <2>1. r = [s EXCEPT !.env.preload = FALSE]
    BY <1>6 DEF Prepared, pseudo_dropenv, s
  <2>2. /\ r \in Process /\ r.loaded = s.loaded /\ r.disabled = s.disabled
        /\ r.inited = s.inited /\ r.antimagic = s.antimagic /\ r.cache = s.cache
        /\ r.uid = s.uid /\ r.gid = s.gid /\ r.env \in Environment /\ r.env.var = v
    <3>1. r = [s EXCEPT !.env = [s.env EXCEPT !.preload = FALSE]]
      BY <2>1
    <3>2. s.env \in Environment /\ s.env.var = v
      BY <1>4, <1>5
    <3>3. /\ [s.env EXCEPT !.preload = FALSE] \in Environment
          /\ [s.env EXCEPT !.preload = FALSE].var = v
      BY <3>2 DEF Environment
    <3> DEFINE d == [s.env EXCEPT !.preload = FALSE]
    <3> HIDE DEF d
    <3>4. r = [s EXCEPT !.env = d] /\ d \in Environment /\ d.var = v
      BY <3>1, <3>3 DEF d
    <3> QED BY <1>5, <3>4 DEF Process
  <2>3. ~(q.env.var.UNLOAD = Unset /\ q.cache.UNLOAD = Unset)
    BY <1>2, <1>5, <1>6, NoneType DEF pseudo_has_unload
  <2> QED BY <1>5, <2>2, <2>3 DEF Sound, v
<1>7. CASE ~pseudo_has_unload(s, NoVariables)
  <2>1. r = s
    BY <1>7 DEF Prepared, s
  <2>2. s.env.var = v /\ s.env.preload = TRUE
    BY <1>5
  <2> QED BY <1>4, <1>5, <1>7, <2>1, <2>2 DEF Sound, v, s
<1> QED BY <1>6, <1>7

\* The environment given to execve() and posix_spawn().
LEMMA EnvpStep ==
    ASSUME NEW q, Sound(q), NEW envp \in Environment, NEW e, e = PreparedEnvp(q, envp)
    PROVE  /\ e \in Environment /\ e.var = Over(envp.var, q.cache)
           /\ q.env.var.UNLOAD = Unset /\ q.cache.UNLOAD = Unset /\ envp.var.UNLOAD = Unset =>
                 e.preload /\ e.var.UNLOAD = Unset
<1> DEFINE v == Over(envp.var, q.cache)
           f == [var |-> v, preload |-> TRUE]
<1>1. q.cache \in Variables /\ envp.var \in Variables
  BY DEF Sound, Process, Environment
<1>2. v \in Variables
      /\ (q.cache.UNLOAD = Unset /\ envp.var.UNLOAD = Unset => v.UNLOAD = Unset)
  BY <1>1, OverType
<1>3. f = pseudo_setupenvp(q, envp)
  BY DEF pseudo_setupenvp
<1> HIDE DEF v
<1>4. f \in Environment /\ f.var = v /\ f.preload = TRUE
  BY <1>2 DEF Environment
<1> HIDE DEF f
<1>5. CASE pseudo_has_unload(q, f.var)
  <2>1. e = [f EXCEPT !.preload = FALSE]
    BY <1>3, <1>5 DEF PreparedEnvp, pseudo_dropenvp
  <2>2. e \in Environment /\ e.var = v
    BY <1>4, <2>1 DEF Environment
  <2>3. ~(q.env.var.UNLOAD = Unset /\ q.cache.UNLOAD = Unset /\ envp.var.UNLOAD = Unset)
    BY <1>2, <1>4, <1>5 DEF pseudo_has_unload
  <2> QED BY <2>2, <2>3 DEF v
<1>6. CASE ~pseudo_has_unload(q, f.var)
  <2>1. e = f
    BY <1>3, <1>6 DEF PreparedEnvp
  <2> QED BY <1>2, <1>4, <2>1 DEF v
<1> QED BY <1>5, <1>6

\* The child of a fork.
LEMMA ForkStep ==
    ASSUME NEW q, Sound(q), q.loaded, ~q.disabled => q.inited /\ q.antimagic = 0,
           NEW r, r = ForkChild(q)
    PROVE  /\ Sound(r) /\ r.loaded = q.loaded
           /\ ~r.disabled => r.inited /\ r.antimagic = 0
           /\ ~q.disabled => r.uid = q.uid /\ r.gid = q.gid
           /\ q.env.var.UNLOAD = Unset /\ q.cache.UNLOAD = Unset =>
                 /\ r.env.var.UNLOAD = Unset /\ r.cache.UNLOAD = Unset
                 /\ FlagStored(q) =>
                       /\ FlagStored(r)
                       /\ q.env.var.DISABLED = Unset => r.disabled = q.disabled
                       /\ q.env.var.DISABLED # Unset =>
                             (r.disabled <=> q.env.var.DISABLED = {"yes"})
<1> DEFINE s == Prepared(q)
           t == pseudo_setupenv(q)
<1>1. /\ Sound(s) /\ s.loaded = q.loaded /\ s.disabled = q.disabled /\ s.inited = q.inited
      /\ s.antimagic = q.antimagic /\ s.cache = q.cache /\ s.uid = q.uid /\ s.gid = q.gid
      /\ s.env \in Environment /\ s.env.var = Over(q.env.var, q.cache)
      /\ q.env.var.UNLOAD = Unset /\ q.cache.UNLOAD = Unset =>
            s.env.preload /\ s = t /\ ~pseudo_has_unload(s, NoVariables)
  BY PreparedStep
<1>2. \/ pseudo_has_unload(t, NoVariables) /\ r = s
      \/ ~pseudo_has_unload(t, NoVariables) /\ s = t /\ r = libpseudo_init(s)
  BY DEF ForkChild, Prepared
<1> HIDE DEF s, t
<1>3. q.disabled \in BOOLEAN /\ q.env.var \in Variables /\ q.cache \in Variables
  BY DEF Sound, Process, Environment
<1>4. CASE pseudo_has_unload(t, NoVariables) /\ r = s
  <2>1. ~(q.env.var.UNLOAD = Unset /\ q.cache.UNLOAD = Unset)
    BY <1>1, <1>4
  <2> QED BY <1>1, <1>4, <2>1
<1>5. CASE ~pseudo_has_unload(t, NoVariables) /\ s = t /\ r = libpseudo_init(s)
  <2>1. /\ Sound(r) /\ r.loaded = s.loaded /\ r.env = s.env
        /\ ~r.disabled => r.inited /\ r.antimagic = 0
        /\ s.inited /\ ~s.disabled => r.uid = s.uid /\ r.gid = s.gid
        /\ s.env.var.UNLOAD = Unset =>
              /\ s.cache.UNLOAD = Unset => r.cache.UNLOAD = Unset
              /\ Flag(s) = Unset => r.disabled = s.disabled
              /\ Flag(s) # Unset => (r.disabled <=> Flag(s) = {"yes"})
              /\ Flag(s) # Unset \/ ~s.disabled => FlagStored(r)
    BY <1>1, <1>5, LibInitStep
  <2>2. ~q.disabled => r.uid = q.uid /\ r.gid = q.gid
    BY <1>1, <2>1
  <2>3. ASSUME q.env.var.UNLOAD = Unset, q.cache.UNLOAD = Unset
        PROVE  /\ r.env.var.UNLOAD = Unset /\ r.cache.UNLOAD = Unset
               /\ FlagStored(q) =>
                     /\ FlagStored(r)
                     /\ q.env.var.DISABLED = Unset => r.disabled = q.disabled
                     /\ q.env.var.DISABLED # Unset =>
                           (r.disabled <=> q.env.var.DISABLED = {"yes"})
    <3>1. s.env.var.UNLOAD = Unset
      BY <1>1, <1>3, <2>3, OverType
    <3>2. s.env.var.DISABLED = IF q.env.var.DISABLED # Unset THEN q.env.var.DISABLED
                                                             ELSE q.cache.DISABLED
      BY <1>1, <1>3, OverType
    <3>3. {"yes"} # Unset /\ {"no"} # Unset /\ {"no"} # {"yes"}
      BY DEF Unset
    <3>4. FlagStored(q) => Flag(s) # Unset /\ Flag(s) = s.env.var.DISABLED
      BY <1>3, <3>2, <3>3 DEF FlagStored, Flag
    <3>5. r.disabled \in BOOLEAN
      BY <2>1 DEF Sound, Process
    <3>6. ASSUME FlagStored(q), q.env.var.DISABLED = Unset PROVE r.disabled = q.disabled
      BY <1>3, <2>1, <3>1, <3>2, <3>3, <3>4, <3>5, <3>6 DEF FlagStored
    <3> QED BY <1>1, <2>1, <2>3, <3>1, <3>2, <3>4, <3>6
  <2> QED BY <1>1, <2>1, <2>2, <2>3
<1> QED BY <1>2, <1>4, <1>5

\* A call of the set*id() family gives an identity, and without privilege only
\* ids that were held.
LEMMA IdOps ==
    ASSUME NEW c \in Identity, NEW priv \in BOOLEAN
    PROVE  /\ \A id \in Ids : MaySet(c, priv, {id}) =>
                 /\ SetId(c, priv, id) \in Identity
                 /\ SetEffective(c, id) \in Identity
                 /\ SetFs(c, id) \in Identity
                 /\ ~priv => /\ Held(SetId(c, priv, id)) \subseteq Held(c)
                             /\ Held(SetEffective(c, id)) \subseteq Held(c)
                             /\ Held(SetFs(c, id)) \subseteq Held(c)
           /\ \A rid, eid \in Args : MaySet(c, priv, {rid, eid}) =>
                 /\ SetReal(c, rid, eid) \in Identity
                 /\ ~priv => Held(SetReal(c, rid, eid)) \subseteq Held(c)
           /\ \A rid, eid, sid \in Args : MaySet(c, priv, {rid, eid, sid}) =>
                 /\ SetAll(c, rid, eid, sid) \in Identity
                 /\ ~priv => Held(SetAll(c, rid, eid, sid)) \subseteq Held(c)
<1>1. Keep \notin Ids
  BY IdsAssumption DEF Keep
<1>2. ASSUME NEW id \in Ids, MaySet(c, priv, {id})
      PROVE  /\ SetId(c, priv, id) \in Identity
             /\ SetEffective(c, id) \in Identity
             /\ SetFs(c, id) \in Identity
             /\ ~priv => /\ Held(SetId(c, priv, id)) \subseteq Held(c)
                         /\ Held(SetEffective(c, id)) \subseteq Held(c)
                         /\ Held(SetFs(c, id)) \subseteq Held(c)
  <2>1. ~priv => id \in Held(c)
    BY <1>1, <1>2 DEF MaySet
  <2>2. /\ SetEffective(c, id) \in Identity
        /\ ~priv => Held(SetEffective(c, id)) \subseteq Held(c)
    BY <2>1 DEF SetEffective, Identity, Held
  <2>3. SetFs(c, id) \in Identity /\ Held(SetFs(c, id)) \subseteq Held(c)
    BY DEF SetFs, Identity, Held
  <2>4. SetId(c, priv, id) \in Identity /\ (~priv => SetId(c, priv, id) = SetEffective(c, id))
    BY <2>2 DEF SetId, SetEffective, Everyone, Identity
  <2> QED BY <2>2, <2>3, <2>4
<1>3. \A a \in Args, o \in Ids : Given(a, o) \in Ids
  BY DEF Given, Args
<1>4. \A a \in Args, o \in Held(c) : ~priv /\ a \in Held(c) \cup {Keep} => Given(a, o) \in Held(c)
  BY DEF Given
<1>5. c.r \in Ids /\ c.e \in Ids /\ c.s \in Ids /\ c.f \in Ids
      /\ c.r \in Held(c) /\ c.e \in Held(c) /\ c.s \in Held(c)
  BY DEF Identity, Held
<1>6. \A rid, eid \in Args : /\ SetReal(c, rid, eid) \in Identity
                              /\ SetReal(c, rid, eid).r = Given(rid, c.r)
                              /\ SetReal(c, rid, eid).e = Given(eid, c.e)
                              /\ SetReal(c, rid, eid).s = c.s
  BY <1>3, <1>5 DEF SetReal, Identity
<1>7. ASSUME NEW rid \in Args, NEW eid \in Args, MaySet(c, priv, {rid, eid}), ~priv
      PROVE  Held(SetReal(c, rid, eid)) \subseteq Held(c)
  <2>1. Given(rid, c.r) \in Held(c) /\ Given(eid, c.e) \in Held(c)
    BY <1>4, <1>5, <1>7 DEF MaySet
  <2> QED BY <1>5, <1>6, <2>1 DEF Held
<1>8. \A rid, eid, sid \in Args : /\ SetAll(c, rid, eid, sid) \in Identity
                                   /\ SetAll(c, rid, eid, sid).r = Given(rid, c.r)
                                   /\ SetAll(c, rid, eid, sid).e = Given(eid, c.e)
                                   /\ SetAll(c, rid, eid, sid).s = Given(sid, c.s)
  BY <1>3, <1>5, <1>6 DEF SetAll, Identity
<1>9. ASSUME NEW rid \in Args, NEW eid \in Args, NEW sid \in Args,
             MaySet(c, priv, {rid, eid, sid}), ~priv
      PROVE  Held(SetAll(c, rid, eid, sid)) \subseteq Held(c)
  <2>1. Given(rid, c.r) \in Held(c) /\ Given(eid, c.e) \in Held(c) /\ Given(sid, c.s) \in Held(c)
    BY <1>4, <1>5, <1>9 DEF MaySet
  <2> QED BY <1>8, <2>1 DEF Held
<1> QED BY <1>2, <1>6, <1>7, <1>8, <1>9
-----------------------------------------------------------------------------
\* The environments that execve() is called with are environments.
LEMMA EnvChoicesType == TypeOK => EnvChoices(p) \subseteq Environment
<1>1. \A v \in FlagValues : [NoVariables EXCEPT !.DISABLED = v] \in Variables
  BY NoneType DEF Variables
<1>2. TypeOK => p.env \in Environment
  BY DEF TypeOK, Process
<1>3. \A x \in Variables : [var |-> x, preload |-> FALSE] \in Environment
  BY DEF Environment
<1> QED BY <1>1, <1>2, <1>3 DEF EnvChoices

\* The invariant holds at the start.
LEMMA InitInv == Init => IInv
<1> SUFFICES ASSUME Init PROVE IInv
  OBVIOUS
<1>1. PICK d \in FlagValues, u \in {Unset, {"yes"}} :
         /\ p = Image([var |-> [NoVariables EXCEPT !.DISABLED = d, !.UNLOAD = u],
                        preload |-> TRUE])
         /\ asked = (u # Unset)
  BY DEF Init
<1> DEFINE v == [NoVariables EXCEPT !.DISABLED = d, !.UNLOAD = u]
           e == [var |-> v, preload |-> TRUE]
<1>2. v \in Variables /\ v.UNLOAD = u
  BY NoneType DEF Variables
<1> HIDE DEF v
<1>3. e \in Environment /\ e.var = v
  BY <1>2 DEF Environment
<1>4. p = Image(e)
  BY <1>1 DEF v
<1> HIDE DEF e
<1>5. /\ Sound(p) /\ p.env = e
      /\ p.loaded /\ ~p.disabled => p.inited /\ p.antimagic = 0
      /\ e.var.UNLOAD = Unset =>
            /\ p.cache.UNLOAD = Unset
            /\ p.loaded => FlagStored(p)
  BY <1>3, <1>4, ImageStep
<1>6. ~asked => e.var.UNLOAD = Unset
  BY <1>1, <1>2, <1>3
<1>7. TypeOK
  BY <1>1, <1>5, ProcessAssumption DEF TypeOK, Init, Sound
<1> QED BY <1>5, <1>6, <1>7 DEF IInv, Balanced, EnabledEmulates, NotAsked, FlagKept, Sound

\* Enough for a step to keep the invariant, when the process is a new one.
LEMMA NewProcess ==
    ASSUME IInv, Sound(p'), sets' = sets, asked' \in BOOLEAN,
           p'.loaded /\ ~p'.disabled => p'.inited /\ p'.antimagic = 0,
           ~asked' => /\ p'.env.var.UNLOAD = Unset /\ p'.cache.UNLOAD = Unset
                      /\ p'.loaded => FlagStored(p')
    PROVE  IInv'
<1>1. TypeOK'
  BY DEF IInv, TypeOK, Sound
<1>2. Balanced' /\ EnabledEmulates' /\ NotAsked'
  BY DEF Balanced, EnabledEmulates, NotAsked, Sound
<1>3. FlagKept'
  BY DEF FlagKept, FlagStored
<1> QED BY <1>1, <1>2, <1>3 DEF IInv

\* What the invariant says of the process.
LEMMA ProcessSound ==
    ASSUME IInv
    PROVE  /\ Sound(p) /\ p \in Process
           /\ p.loaded /\ ~p.disabled => p.inited /\ p.antimagic = 0
           /\ ~asked => p.env.var.UNLOAD = Unset /\ p.cache.UNLOAD = Unset
           /\ ~asked /\ p.loaded => FlagStored(p)
           /\ sets \in Nat /\ asked \in BOOLEAN
<1>1. sets \in Nat
  BY ProcessAssumption DEF IInv, TypeOK
<1> QED BY <1>1 DEF IInv, TypeOK, Balanced, EnabledEmulates, NotAsked, FlagKept, Sound

\* A call of the set*id() family changes ids and the variables that hold them.
IdChange(q, r) ==
    /\ r \in Process /\ r.loaded = q.loaded /\ r.env = q.env /\ r.disabled = q.disabled
    /\ r.inited = q.inited /\ r.antimagic = q.antimagic
    /\ r.cache.UNLOAD = q.cache.UNLOAD /\ r.cache.DISABLED = q.cache.DISABLED

Moved(q, r, u, g) == IdChange(q, r) /\ r.uid = u /\ r.gid = g

\* The ids stored in the process and in its cache.
LEMMA Touch ==
    ASSUME NEW q \in Process, NEW u \in Identity
    PROVE  /\ Moved(q, [q EXCEPT !.uid = u], u, q.gid)
           /\ Moved(q, [q EXCEPT !.gid = u], q.uid, u)
           /\ Moved(q, pseudo_client_touchuid([q EXCEPT !.uid = u]), u, q.gid)
           /\ Moved(q, pseudo_client_touchgid([q EXCEPT !.gid = u]), q.uid, u)
           /\ Moved(q, pseudo_client_touchuid([q EXCEPT !.gid = u]), q.uid, u)
<1>1. Moved(q, [q EXCEPT !.uid = u], u, q.gid)
  BY DEF Moved, IdChange, Process
<1>2. Moved(q, [q EXCEPT !.gid = u], q.uid, u)
  BY DEF Moved, IdChange, Process
<1>3. ASSUME NEW r, NEW x, NEW y, Moved(q, r, x, y)
      PROVE  Moved(q, pseudo_client_touchuid(r), x, y) /\ Moved(q, pseudo_client_touchgid(r), x, y)
  <2>1. IdChange(q, r) /\ r \in Process /\ {r.uid} \in IdValues /\ {r.gid} \in IdValues
    BY <1>3 DEF Moved, IdChange, Process, IdValues
  <2>2. pseudo_client_touchuid(r) = [r EXCEPT !.cache["UIDS"] = {r.uid}]
    BY DEF pseudo_client_touchuid, pseudo_set_value
  <2>3. pseudo_client_touchgid(r) = [r EXCEPT !.cache["GIDS"] = {r.gid}]
    BY DEF pseudo_client_touchgid, pseudo_set_value
  <2>4. Moved(q, pseudo_client_touchuid(r), x, y)
    BY <1>3, <2>1, <2>2 DEF Moved, IdChange, Process, Variables
  <2>5. Moved(q, pseudo_client_touchgid(r), x, y)
    BY <1>3, <2>1, <2>3 DEF Moved, IdChange, Process, Variables
  <2> QED BY <2>4, <2>5
<1> QED BY <1>1, <1>2, <1>3

\* No call of the set*id() family does anything else, and without privilege it
\* gives no id that was not held.
LEMMA SetIdsStep ==
    ASSUME IInv, SetIds
    PROVE  /\ IdChange(p, p')
           /\ p.uid.e # 0 => /\ Held(p'.uid) \subseteq Held(p.uid)
                             /\ Held(p'.gid) \subseteq Held(p.gid)
<1>1. p \in Process /\ p.uid \in Identity /\ p.gid \in Identity
  BY DEF IInv, TypeOK, Process
<1>2. Privileged \in BOOLEAN /\ (p.uid.e # 0 => ~Privileged)
  BY DEF Privileged
<1>5. CASE setuid
  <2>1. PICK id \in Ids :
           /\ MaySet(p.uid, Privileged, {id})
           /\ p' = pseudo_client_touchuid([p EXCEPT !.uid = SetId(p.uid, Privileged, id)])
    BY <1>5 DEF setuid, NewUid
  <2> DEFINE c == SetId(p.uid, Privileged, id)
  <2>2. c \in Identity /\ (p.uid.e # 0 => Held(c) \subseteq Held(p.uid))
    BY <1>1, <1>2, <2>1, IdOps
  <2> HIDE DEF c
  <2>3. p' = pseudo_client_touchuid([p EXCEPT !.uid = c])
    BY <2>1 DEF c
  <2>4. Moved(p, p', c, p.gid)
    BY <1>1, <2>2, <2>3, Touch
  <2> QED BY <2>2, <2>4 DEF Moved
<1>6. CASE seteuid
  <2>1. PICK id \in Ids :
           /\ MaySet(p.uid, Privileged, {id})
           /\ p' = pseudo_client_touchuid([p EXCEPT !.uid = SetEffective(p.uid, id)])
    BY <1>6 DEF seteuid, NewUid
  <2> DEFINE c == SetEffective(p.uid, id)
  <2>2. c \in Identity /\ (p.uid.e # 0 => Held(c) \subseteq Held(p.uid))
    BY <1>1, <1>2, <2>1, IdOps
  <2> HIDE DEF c
  <2>3. p' = pseudo_client_touchuid([p EXCEPT !.uid = c])
    BY <2>1 DEF c
  <2>4. Moved(p, p', c, p.gid)
    BY <1>1, <2>2, <2>3, Touch
  <2> QED BY <2>2, <2>4 DEF Moved
<1>7. CASE setreuid
  <2>1. PICK rid, eid \in Args :
           /\ MaySet(p.uid, Privileged, {rid, eid})
           /\ p' = pseudo_client_touchuid([p EXCEPT !.uid = SetReal(p.uid, rid, eid)])
    BY <1>7 DEF setreuid, NewUid
  <2> DEFINE c == SetReal(p.uid, rid, eid)
  <2>2. c \in Identity /\ (p.uid.e # 0 => Held(c) \subseteq Held(p.uid))
    BY <1>1, <1>2, <2>1, IdOps
  <2> HIDE DEF c
  <2>3. p' = pseudo_client_touchuid([p EXCEPT !.uid = c])
    BY <2>1 DEF c
  <2>4. Moved(p, p', c, p.gid)
    BY <1>1, <2>2, <2>3, Touch
  <2> QED BY <2>2, <2>4 DEF Moved
<1>8. CASE setresuid
  <2>1. PICK rid, eid, sid \in Args :
           /\ MaySet(p.uid, Privileged, {rid, eid, sid})
           /\ p' = pseudo_client_touchuid([p EXCEPT !.uid = SetAll(p.uid, rid, eid, sid)])
    BY <1>8 DEF setresuid, NewUid
  <2> DEFINE c == SetAll(p.uid, rid, eid, sid)
  <2>2. c \in Identity /\ (p.uid.e # 0 => Held(c) \subseteq Held(p.uid))
    BY <1>1, <1>2, <2>1, IdOps
  <2> HIDE DEF c
  <2>3. p' = pseudo_client_touchuid([p EXCEPT !.uid = c])
    BY <2>1 DEF c
  <2>4. Moved(p, p', c, p.gid)
    BY <1>1, <2>2, <2>3, Touch
  <2> QED BY <2>2, <2>4 DEF Moved
<1>9. CASE setfsuid
  <2>1. PICK id \in Ids :
           /\ MaySet(p.uid, Privileged, {id})
           /\ p' = [p EXCEPT !.uid = SetFs(p.uid, id)]
    BY <1>9 DEF setfsuid
  <2> DEFINE c == SetFs(p.uid, id)
  <2>2. c \in Identity /\ (p.uid.e # 0 => Held(c) \subseteq Held(p.uid))
    BY <1>1, <1>2, <2>1, IdOps
  <2> HIDE DEF c
  <2>3. p' = [p EXCEPT !.uid = c]
    BY <2>1 DEF c
  <2>4. Moved(p, p', c, p.gid)
    BY <1>1, <2>2, <2>3, Touch
  <2> QED BY <2>2, <2>4 DEF Moved
<1>10. CASE setgid
  <2>1. PICK id \in Ids :
           /\ MaySet(p.gid, Privileged, {id})
           /\ p' = pseudo_client_touchgid([p EXCEPT !.gid = SetId(p.gid, Privileged, id)])
    BY <1>10 DEF setgid
  <2> DEFINE c == SetId(p.gid, Privileged, id)
  <2>2. c \in Identity /\ (p.uid.e # 0 => Held(c) \subseteq Held(p.gid))
    BY <1>1, <1>2, <2>1, IdOps
  <2> HIDE DEF c
  <2>3. p' = pseudo_client_touchgid([p EXCEPT !.gid = c])
    BY <2>1 DEF c
  <2>4. Moved(p, p', p.uid, c)
    BY <1>1, <2>2, <2>3, Touch
  <2> QED BY <2>2, <2>4 DEF Moved
<1>11. CASE setegid
  <2>1. PICK id \in Ids :
           /\ MaySet(p.gid, Privileged, {id})
           /\ p' = pseudo_client_touchgid([p EXCEPT !.gid = SetEffective(p.gid, id)])
    BY <1>11 DEF setegid
  <2> DEFINE c == SetEffective(p.gid, id)
  <2>2. c \in Identity /\ (p.uid.e # 0 => Held(c) \subseteq Held(p.gid))
    BY <1>1, <1>2, <2>1, IdOps
  <2> HIDE DEF c
  <2>3. p' = pseudo_client_touchgid([p EXCEPT !.gid = c])
    BY <2>1 DEF c
  <2>4. Moved(p, p', p.uid, c)
    BY <1>1, <2>2, <2>3, Touch
  <2> QED BY <2>2, <2>4 DEF Moved
<1>12. CASE setregid
  <2>1. PICK rid, eid \in Args :
           /\ MaySet(p.gid, Privileged, {rid, eid})
           /\ p' = pseudo_client_touchuid([p EXCEPT !.gid = SetReal(p.gid, rid, eid)])
    BY <1>12 DEF setregid
  <2> DEFINE c == SetReal(p.gid, rid, eid)
  <2>2. c \in Identity /\ (p.uid.e # 0 => Held(c) \subseteq Held(p.gid))
    BY <1>1, <1>2, <2>1, IdOps
  <2> HIDE DEF c
  <2>3. p' = pseudo_client_touchuid([p EXCEPT !.gid = c])
    BY <2>1 DEF c
  <2>4. Moved(p, p', p.uid, c)
    BY <1>1, <2>2, <2>3, Touch
  <2> QED BY <2>2, <2>4 DEF Moved
<1>13. CASE setresgid
  <2>1. PICK rid, eid, sid \in Args :
           /\ MaySet(p.gid, Privileged, {rid, eid, sid})
           /\ p' = pseudo_client_touchuid([p EXCEPT !.gid = SetAll(p.gid, rid, eid, sid)])
    BY <1>13 DEF setresgid
  <2> DEFINE c == SetAll(p.gid, rid, eid, sid)
  <2>2. c \in Identity /\ (p.uid.e # 0 => Held(c) \subseteq Held(p.gid))
    BY <1>1, <1>2, <2>1, IdOps
  <2> HIDE DEF c
  <2>3. p' = pseudo_client_touchuid([p EXCEPT !.gid = c])
    BY <2>1 DEF c
  <2>4. Moved(p, p', p.uid, c)
    BY <1>1, <2>2, <2>3, Touch
  <2> QED BY <2>2, <2>4 DEF Moved
<1>14. CASE setfsgid
  <2>1. PICK id \in Ids :
           /\ MaySet(p.gid, Privileged, {id})
           /\ p' = [p EXCEPT !.gid = SetFs(p.gid, id)]
    BY <1>14 DEF setfsgid
  <2> DEFINE c == SetFs(p.gid, id)
  <2>2. c \in Identity /\ (p.uid.e # 0 => Held(c) \subseteq Held(p.gid))
    BY <1>1, <1>2, <2>1, IdOps
  <2> HIDE DEF c
  <2>3. p' = [p EXCEPT !.gid = c]
    BY <2>1 DEF c
  <2>4. Moved(p, p', p.uid, c)
    BY <1>1, <2>2, <2>3, Touch
  <2> QED BY <2>2, <2>4 DEF Moved
<1> QED BY <1>5, <1>6, <1>7, <1>8, <1>9, <1>10, <1>11, <1>12, <1>13, <1>14 DEF SetIds

\* The steps that keep the program: ids, chroot and environment.
LEMMA InPlaceStep ==
    ASSUME IInv, SetIds \/ pseudo_client_chroot \/ Setenv
    PROVE  IInv'
<1>1. CASE SetIds \/ pseudo_client_chroot
  <2>1. IdChange(p, p')
    <3>1. CASE SetIds
      BY <3>1, SetIdsStep
    <3>2. CASE pseudo_client_chroot
      <4>1. PICK v \in DirValues :
               p' = pseudo_set_value([p EXCEPT !.chroot = v], "CHROOT", v)
        BY <3>2 DEF pseudo_client_chroot, DirValues
      <4>2. p \in Process
        BY ProcessSound
      <4>3. p' = [[p EXCEPT !.chroot = v] EXCEPT !.cache["CHROOT"] = v]
        BY <4>1 DEF pseudo_set_value
      <4> QED BY <4>2, <4>3 DEF IdChange, Process, Variables
    <3> QED BY <1>1, <3>1, <3>2
  <2>2. sets < MaxSets /\ sets' = sets + 1 /\ asked' = asked
    BY <1>1 DEF SetIds, pseudo_client_chroot, setuid, seteuid, setreuid, setresuid, setfsuid,
                setgid, setegid, setregid, setresgid, setfsgid, Counted, Making
  <2>3. sets' \in 0..MaxSets
    BY <2>2, ProcessAssumption DEF IInv, TypeOK
  <2>4. TypeOK'
    BY <2>1, <2>2, <2>3 DEF IInv, TypeOK, IdChange
  <2>5. Balanced' /\ EnabledEmulates' /\ NotAsked'
    BY <2>1, <2>2 DEF IInv, Balanced, EnabledEmulates, NotAsked, IdChange
  <2>6. FlagKept'
    BY <2>1, <2>2 DEF IInv, FlagKept, FlagStored, IdChange
  <2> QED BY <2>4, <2>5, <2>6 DEF IInv
<1>2. CASE Setenv
  <2>1. p \in Process /\ p.env \in Environment /\ p.env.var \in Variables
    BY ProcessSound DEF Process, Environment
  <2>2. /\ p' \in Process /\ p'.loaded = p.loaded /\ p'.cache = p.cache
        /\ p'.disabled = p.disabled /\ p'.inited = p.inited /\ p'.antimagic = p.antimagic
    <3>1. PICK x \in Environment : p' = [p EXCEPT !.env = x]
      <4>1. CASE \E v \in FlagValues : p' = [p EXCEPT !.env.var.DISABLED = v]
        <5>1. PICK v \in FlagValues : p' = [p EXCEPT !.env.var.DISABLED = v]
          BY <4>1
        <5>2. [p.env EXCEPT !.var.DISABLED = v] \in Environment
          BY <2>1 DEF Environment, Variables
        <5> QED BY <5>1, <5>2
      <4>2. CASE \E v \in {Unset, {"yes"}} : p' = [p EXCEPT !.env.var.UNLOAD = v]
        <5>1. PICK v \in {Unset, {"yes"}} : p' = [p EXCEPT !.env.var.UNLOAD = v]
          BY <4>2
        <5>2. [p.env EXCEPT !.var.UNLOAD = v] \in Environment
          BY <2>1 DEF Environment, Variables
        <5> QED BY <5>1, <5>2
      <4>3. CASE p' = [p EXCEPT !.env = [var |-> NoVariables, preload |-> FALSE]]
        <5>1. [var |-> NoVariables, preload |-> FALSE] \in Environment
          BY NoneType DEF Environment
        <5> QED BY <4>3, <5>1
      <4> QED BY <1>2, <4>1, <4>2, <4>3 DEF Setenv
    <3> QED BY <2>1, <3>1 DEF Process
  <2>3. sets' = sets /\ asked' = (asked \/ p'.env.var.UNLOAD # Unset)
    BY <1>2 DEF Setenv
  <2>4. ~asked' => ~asked /\ p'.env.var.UNLOAD = Unset
    BY <2>3
  <2>5. Sound(p') /\ asked' \in BOOLEAN
    BY <2>2, <2>3, ProcessSound DEF Sound
  <2>6. p'.loaded /\ ~p'.disabled => p'.inited /\ p'.antimagic = 0
    BY <2>2, ProcessSound
  <2>7. ~asked' => p'.cache.UNLOAD = Unset /\ (p'.loaded => FlagStored(p'))
    BY <2>2, <2>4, ProcessSound DEF FlagStored
  <2> QED BY <2>3, <2>4, <2>5, <2>6, <2>7, NewProcess
<1> QED BY <1>1, <1>2

\* The child of a fork or clone.
LEMMA ForksStep ==
    ASSUME IInv, Forks
    PROVE  IInv'
<1>1. p.loaded /\ p' = ForkChild(p) /\ sets' = sets /\ asked' = asked
  BY DEF Forks, fork, clone
<1>2. /\ Sound(p') /\ p'.loaded = p.loaded
      /\ ~p'.disabled => p'.inited /\ p'.antimagic = 0
      /\ p.env.var.UNLOAD = Unset /\ p.cache.UNLOAD = Unset =>
            /\ p'.env.var.UNLOAD = Unset /\ p'.cache.UNLOAD = Unset
            /\ FlagStored(p) => FlagStored(p')
  BY <1>1, ProcessSound, ForkStep
<1>3. asked \in BOOLEAN
  BY ProcessSound
<1>4. ~asked' => /\ p'.env.var.UNLOAD = Unset /\ p'.cache.UNLOAD = Unset
                 /\ p'.loaded => FlagStored(p')
  BY <1>1, <1>2, ProcessSound
<1> QED BY <1>1, <1>2, <1>3, <1>4, NewProcess

\* Exec with the caller's own environment, when it works and when it fails.
LEMMA OwnEnvStep ==
    ASSUME IInv, p.loaded, UNCHANGED << sets, asked >>,
           NEW q, q = Prepared(p) \/ (q = p /\ ~Emulating(p)),
           p' = Image(q.env) \/ p' = q
    PROVE  /\ IInv'
           /\ ~asked /\ q = Prepared(p) => p'.loaded
<1>1. Sound(p) /\ asked \in BOOLEAN
  BY ProcessSound
<1>2. /\ Sound(q) /\ q.loaded = p.loaded /\ q.disabled = p.disabled /\ q.inited = p.inited
      /\ q.antimagic = p.antimagic /\ q.cache = p.cache /\ q.env \in Environment
      /\ ~asked => q.env.var.UNLOAD = Unset
      /\ ~asked /\ q = Prepared(p) => q.env.preload
  <2>1. CASE q = p
    <3>1. Sound(q) /\ q.env \in Environment
      BY <1>1, <2>1 DEF Sound, Process
    <3>2. ~asked /\ q = Prepared(p) => q.env.preload
      BY <1>1, <2>1, PreparedStep, ProcessSound
    <3> QED BY <2>1, <3>1, <3>2, ProcessSound
  <2>2. CASE q = Prepared(p)
    <3>1. p.env.var \in Variables /\ p.cache \in Variables
      BY <1>1 DEF Sound, Process, Environment
    <3>2. ~asked => Over(p.env.var, p.cache).UNLOAD = Unset
      BY <3>1, ProcessSound, OverType
    <3> QED BY <1>1, <2>2, <3>2, PreparedStep, ProcessSound
  <2> QED BY <2>1, <2>2
<1>3. CASE p' = q
  <2>1. ~asked => q.cache.UNLOAD = Unset /\ FlagStored(q)
    BY <1>2, ProcessSound DEF FlagStored
  <2> QED BY <1>1, <1>2, <1>3, <2>1, NewProcess, ProcessSound
<1>4. CASE p' = Image(q.env)
  <2>1. /\ Sound(p') /\ p'.loaded = q.env.preload /\ p'.env = q.env
        /\ p'.loaded /\ ~p'.disabled => p'.inited /\ p'.antimagic = 0
        /\ q.env.var.UNLOAD = Unset =>
              p'.cache.UNLOAD = Unset /\ (p'.loaded => FlagStored(p'))
    BY <1>2, <1>4, ImageStep
  <2> QED BY <1>1, <1>2, <2>1, NewProcess
<1> QED BY <1>3, <1>4

\* Exec with an environment the program made up.
LEMMA MadeUpEnvStep ==
    ASSUME IInv, NEW envp \in Environment, p.loaded, p' = Image(PreparedEnvp(p, envp)),
           asked' = (asked \/ envp.var.UNLOAD # Unset), sets' = sets
    PROVE  /\ IInv'
           /\ ~asked' => /\ p'.loaded
                         /\ p'.disabled <=> Over(envp.var, p.cache).DISABLED = {"yes"}
<1> DEFINE e == PreparedEnvp(p, envp)
<1>1. Sound(p) /\ asked \in BOOLEAN
  BY ProcessSound
<1>2. /\ e \in Environment /\ e.var = Over(envp.var, p.cache)
      /\ p.env.var.UNLOAD = Unset /\ p.cache.UNLOAD = Unset /\ envp.var.UNLOAD = Unset =>
            e.preload /\ e.var.UNLOAD = Unset
  BY <1>1, EnvpStep
<1>3. p' = Image(e)
  OBVIOUS
<1> HIDE DEF e
<1>4. /\ Sound(p') /\ p'.loaded = e.preload /\ p'.env = e
      /\ p'.loaded /\ ~p'.disabled => p'.inited /\ p'.antimagic = 0
      /\ e.var.UNLOAD = Unset =>
            /\ p'.cache.UNLOAD = Unset
            /\ p'.loaded => FlagStored(p') /\ (p'.disabled <=> e.var.DISABLED = {"yes"})
  BY <1>2, <1>3, ImageStep
<1>5. ~asked' => e.preload /\ e.var.UNLOAD = Unset
  BY <1>2, ProcessSound
<1>6. asked' \in BOOLEAN
  BY <1>1
<1>7. IInv'
  BY <1>4, <1>5, <1>6, NewProcess
<1> QED BY <1>2, <1>4, <1>5, <1>7

\* Starting a program by exec, spawn, system or popen.
LEMMA StartStep ==
    ASSUME IInv, Execs \/ system \/ popen
    PROVE  /\ IInv'
           /\ p.loaded /\ ~p'.loaded => asked' \/ (p.disabled /\ system)
<1>1. CASE execv \/ execvp \/ popen
  <2>1. p.loaded /\ (p' = Image(Prepared(p).env) \/ p' = Prepared(p)) /\ UNCHANGED << sets, asked >>
    BY <1>1 DEF execv, execvp, popen
  <2> QED BY <2>1, OwnEnvStep
<1>2. CASE system
  <2>1. p.loaded /\ UNCHANGED << sets, asked >>
    BY <1>2 DEF system
  <2>2. PICK q : /\ q = IF Emulating(p) THEN Prepared(p) ELSE p
                 /\ p' = Image(q.env) \/ p' = q
    BY <1>2 DEF system
  <2>3. q = Prepared(p) \/ (q = p /\ ~Emulating(p))
    BY <2>2
  <2>4. IInv' /\ (~asked /\ q = Prepared(p) => p'.loaded)
    BY <2>1, <2>2, <2>3, OwnEnvStep
  <2>5. ~p.disabled => Emulating(p)
    BY <2>1, ProcessSound DEF Emulating
  <2> QED BY <1>2, <2>1, <2>2, <2>4, <2>5
<1>3. CASE \E envp \in EnvChoices(p) : execve(envp) \/ posix_spawn(envp)
  <2>1. PICK envp \in EnvChoices(p) : execve(envp) \/ posix_spawn(envp)
    BY <1>3
  <2>2. envp \in Environment
    BY EnvChoicesType DEF IInv
  <2>3. /\ p.loaded /\ p' = Image(PreparedEnvp(p, envp))
        /\ asked' = (asked \/ envp.var.UNLOAD # Unset) /\ sets' = sets
    BY <2>1 DEF execve, posix_spawn
  <2> QED BY <2>2, <2>3, MadeUpEnvStep
<1> QED BY <1>1, <1>2, <1>3 DEF Execs

\* The invariant is inductive.
LEMMA NextInv == IInv /\ [Next]_vars => IInv'
<1> SUFFICES ASSUME IInv, [Next]_vars PROVE IInv'
  OBVIOUS
<1>1. CASE Next
  BY <1>1, InPlaceStep, ForksStep, StartStep DEF Next
<1>2. CASE UNCHANGED vars
  BY <1>2 DEF vars, IInv, TypeOK, Balanced, EnabledEmulates, NotAsked, FlagKept, FlagStored
<1> QED BY <1>1, <1>2

\* The invariant holds in every state.
LEMMA InvHolds == Spec => []IInv
BY InitInv, NextInv, PTL DEF Spec
-----------------------------------------------------------------------------
\* The process, its environment and its cache have their types whatever calls are
\* made (pseudo_init_client, the guts of the set*id family).
THEOREM TypesHold == Spec => []TypeOK
<1>1. IInv => TypeOK
  BY DEF IInv
<1> QED BY <1>1, InvHolds, PTL

\* An enabled library emulates: the antimagic counter is balanced on every way
\* through the initialisation (pseudo_init_client).
THEOREM EmulationHolds == Spec => []EnabledEmulates
<1>1. IInv => EnabledEmulates
  BY DEF IInv
<1> QED BY <1>1, InvHolds, PTL

\* Only PSEUDO_UNLOAD, or system() in a disabled process, takes the library out
\* of a line of processes (pseudo_setupenv, pseudo_setupenvp).
THEOREM LoadedHolds == Spec => StaysLoaded
<1>1. IInv /\ [Next]_vars =>
        [p.loaded /\ ~p'.loaded => asked' \/ (p.disabled /\ system)]_vars
  <2> SUFFICES ASSUME IInv, Next, p.loaded, ~p'.loaded
               PROVE  asked' \/ (p.disabled /\ system)
    BY DEF vars
  <2>1. CASE SetIds
    BY <2>1, SetIdsStep DEF IdChange
  <2>2. CASE pseudo_client_chroot
    BY <2>2, ProcessSound DEF pseudo_client_chroot, pseudo_set_value, Process
  <2>3. CASE Setenv
    BY <2>3, ProcessSound DEF Setenv, Process
  <2>4. CASE Forks
    <3>1. p' = ForkChild(p)
      BY <2>4 DEF Forks, fork, clone
    <3> QED BY <3>1, ProcessSound, ForkStep
  <2>5. CASE Execs \/ system \/ popen
    BY <2>5, StartStep
  <2> QED BY <2>1, <2>2, <2>3, <2>4, <2>5 DEF Next
<1> QED BY <1>1, InvHolds, PTL DEF Spec, StaysLoaded

\* No sequence of set*id calls and forks gives an unprivileged process an id it did
\* not hold (MaySet in the guts of the set*id family, fork.c).
THEOREM NoGain == Spec => NothingGained
<1>1. IInv /\ [Next]_vars =>
        [(SetIds \/ Forks) /\ p.uid.e # 0 /\ ~p.disabled =>
            /\ Held(p'.uid) \subseteq Held(p.uid)
            /\ Held(p'.gid) \subseteq Held(p.gid)]_vars
  <2> SUFFICES ASSUME IInv, SetIds \/ Forks, p.uid.e # 0, ~p.disabled
               PROVE  /\ Held(p'.uid) \subseteq Held(p.uid)
                      /\ Held(p'.gid) \subseteq Held(p.gid)
    BY DEF vars
  <2>1. CASE SetIds
    BY <2>1, SetIdsStep
  <2>2. CASE Forks
    <3>1. p.loaded /\ p' = ForkChild(p)
      BY <2>2 DEF Forks, fork, clone
    <3> QED BY <3>1, ProcessSound, ForkStep
  <2> QED BY <2>1, <2>2
<1> QED BY <1>1, InvHolds, PTL DEF Spec, NothingGained

\* PSEUDO_DISABLED, where it is set, takes effect with the next fork and the next
\* exec, and an exec without it hands on what the old process was
\* (pseudo_init_client, pseudo_setupenvp).
THEOREM DisabledHolds == Spec => DisabledPassedOn
<1>1. IInv /\ [Next]_vars =>
        [p.loaded /\ p'.loaded /\ ~asked' =>
            /\ Forks /\ p.env.var.DISABLED # Unset =>
                  p'.disabled = (p.env.var.DISABLED = {"yes"})
            /\ \A envp \in EnvChoices(p) :
                  execve(envp) => p'.disabled = Wanted(envp.var.DISABLED, p.disabled)]_vars
  <2> SUFFICES ASSUME IInv, IInv', p.loaded, p'.loaded, ~asked'
               PROVE  /\ Forks /\ p.env.var.DISABLED # Unset =>
                            p'.disabled = (p.env.var.DISABLED = {"yes"})
                      /\ \A envp \in EnvChoices(p) : execve(envp) =>
                             p'.disabled = Wanted(envp.var.DISABLED, p.disabled)
    BY NextInv DEF vars
  <2>1. p.disabled \in BOOLEAN /\ p'.disabled \in BOOLEAN /\ p.cache \in Variables
    BY DEF IInv, TypeOK, Process
  <2>2. ASSUME Forks, p.env.var.DISABLED # Unset
        PROVE  p'.disabled = (p.env.var.DISABLED = {"yes"})
    <3>1. p' = ForkChild(p) /\ ~asked
      BY <2>2 DEF Forks, fork, clone
    <3>2. p'.disabled <=> p.env.var.DISABLED = {"yes"}
      BY <2>2, <3>1, ProcessSound, ForkStep
    <3> QED BY <2>1, <3>2
  <2>3. ASSUME NEW envp \in EnvChoices(p), execve(envp)
        PROVE  p'.disabled = Wanted(envp.var.DISABLED, p.disabled)
    <3>1. envp \in Environment /\ envp.var \in Variables
      BY EnvChoicesType DEF IInv, Environment
    <3>2. /\ p' = Image(PreparedEnvp(p, envp)) /\ sets' = sets
          /\ asked' = (asked \/ envp.var.UNLOAD # Unset)
      BY <2>3 DEF execve
    <3>3. ~asked /\ (p'.disabled <=> Over(envp.var, p.cache).DISABLED = {"yes"})
      BY <3>1, <3>2, MadeUpEnvStep
    <3>4. Over(envp.var, p.cache).DISABLED =
             IF envp.var.DISABLED # Unset THEN envp.var.DISABLED ELSE p.cache.DISABLED
      BY <2>1, <3>1, OverType
    <3>5. FlagStored(p) /\ {"no"} # {"yes"}
      BY <3>3, ProcessSound
    <3>6. p.disabled <=> p.cache.DISABLED = {"yes"}
      BY <3>5 DEF FlagStored
    <3>7. CASE envp.var.DISABLED = Unset
      BY <2>1, <3>3, <3>4, <3>6, <3>7 DEF Wanted
    <3>8. CASE envp.var.DISABLED # Unset
      BY <2>1, <3>3, <3>4, <3>8 DEF Wanted
    <3> QED BY <3>7, <3>8
  <2> QED BY <2>2, <2>3
<1> QED BY <1>1, InvHolds, PTL DEF Spec, DisabledPassedOn
=============================================================================
