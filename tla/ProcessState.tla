---------------------------- MODULE ProcessState ----------------------------
(***************************************************************************)
(* One line of processes under pseudo: what the client library keeps in    *)
(* memory (the emulated ids, the chroot directory, whether it is disabled) *)
(* and how fork(), exec*(), posix_spawn(), system() and popen() hand it to *)
(* the next process.                                                       *)
(*                                                                         *)
(* The library has two copies of its variables: the process's environment  *)
(* (env), which the program may change at will, and its own cache          *)
(* (pseudo_env in pseudo_util.c).  A fork() copies the memory and runs the *)
(* initialisation again; an exec*() drops the memory, so that only the     *)
(* environment given to the new image carries the state over, and only if  *)
(* LD_PRELOAD still names libpseudo (preload).                             *)
(*                                                                         *)
(* The model follows one process; where a call makes a child, the model    *)
(* goes on with the child or with the parent.                              *)
(***************************************************************************)
EXTENDS UserIds

CONSTANTS Dirs,        \* directories a program may chroot() to, besides "/"
          Calls,       \* the set*id calls the program makes
          MaxSets      \* how many set*id() and chroot() calls it makes

ASSUME ProcessAssumption ==
    /\ MaxSets \in Nat
    /\ "/" \notin Dirs
    /\ Dirs \subseteq STRING

\* the variables whose values matter here, of those in pseudo_env
Keys == {"UIDS", "GIDS", "CHROOT", "DISABLED", "UNLOAD"}

\* a variable is a set of at most one value: {} is an unset one
Unset == {}
IdValues   == {Unset} \cup {{c} : c \in Identity}
DirValues  == {Unset} \cup {{d} : d \in Dirs}
\* values of PSEUDO_DISABLED by what the code makes of them: "no" stands for
\* 0, f, F, n, N; "local" for s, S; "yes" for the others
FlagValues == {Unset, {"no"}, {"local"}, {"yes"}}
Variables  ==
    [UIDS : IdValues, GIDS : IdValues, CHROOT : DirValues,
     DISABLED : FlagValues, UNLOAD : {Unset, {"yes"}}]
NoVariables == [k \in Keys |-> Unset]

\* an environment: the variables, and whether LD_PRELOAD names libpseudo
Environment == [var : Variables, preload : BOOLEAN]

VARIABLES p,           \* the process
          sets,        \* set*id() and chroot() calls made so far
          asked        \* PSEUDO_UNLOAD has been set in this line of processes

vars == << p, sets, asked >>

Process ==
    [loaded : BOOLEAN,            \* libpseudo is in the image
     env : Environment,           \* environ
     cache : Variables,           \* pseudo_env
     uid : Identity, gid : Identity,
     chroot : DirValues,          \* pseudo_chroot
     inited : BOOLEAN,            \* pseudo_inited
     disabled : BOOLEAN,          \* pseudo_disabled
     local : BOOLEAN,             \* pseudo_local_only
     antimagic : Nat]
-----------------------------------------------------------------------------
(* The cache and the environment: pseudo_util.c *)

\* every variable that is set in a, and the others from b
Over(a, b) == [k \in Keys |-> IF a[k] # Unset THEN a[k] ELSE b[k]]

pseudo_init_util(q) == [q EXCEPT !.cache = Over(q.env.var, q.cache)]

\* a value the cache lacks and the environment has is fetched first
pseudo_get_value(q, k) ==
    IF q.cache[k] = Unset THEN pseudo_init_util(q).cache[k] ELSE q.cache[k]

pseudo_set_value(q, k, v) == [q EXCEPT !.cache[k] = v]

pseudo_has_unload(q, envp) ==
    \/ q.env.var.UNLOAD # Unset
    \/ q.cache.UNLOAD # Unset
    \/ envp.UNLOAD # Unset

\* SETENV(key, value, 0): a variable the environment has is not overwritten
pseudo_setupenv(q) ==
    [q EXCEPT !.env = [var |-> Over(q.env.var, q.cache), preload |-> TRUE]]

pseudo_dropenv(q) == [q EXCEPT !.env.preload = FALSE]

pseudo_setupenvp_KeepPreload(q, envp) ==
    [var |-> Over(envp.var, q.cache), preload |-> envp.preload]

pseudo_setupenvp_NoCache(q, envp) == [var |-> envp.var, preload |-> TRUE]

pseudo_setupenvp(q, envp) == [var |-> Over(envp.var, q.cache), preload |-> TRUE]

pseudo_dropenvp(envp) == [envp EXCEPT !.preload = FALSE]
-----------------------------------------------------------------------------
(* Initialisation: pseudo_client.c, pseudo_wrappers.c *)

pseudo_antimagic(q) == [q EXCEPT !.antimagic = @ + 1]
pseudo_magic(q) == [q EXCEPT !.antimagic = IF @ > 0 THEN @ - 1 ELSE @]

pseudo_client_touchuid(q) == pseudo_set_value(q, "UIDS", {q.uid})
pseudo_client_touchgid(q) == pseudo_set_value(q, "GIDS", {q.gid})

\* pseudo_disabled brings one level of antimagic with it
TurnOff(q) == IF q.disabled THEN q ELSE [pseudo_antimagic(q) EXCEPT !.disabled = TRUE]

TurnOn_NoMagic(q) == [q EXCEPT !.disabled = FALSE, !.inited = @ /\ ~q.disabled]

TurnOn(q) ==
    IF q.disabled THEN [pseudo_magic(q) EXCEPT !.disabled = FALSE, !.inited = FALSE]
    ELSE q

\* PSEUDO_DISABLED, from the environment or else from the cache
CheckDisabled(q) ==
    LET v == IF q.env.var.DISABLED # Unset THEN q.env.var.DISABLED
             ELSE pseudo_get_value(q, "DISABLED")
    IN  CASE v = {"yes"}   -> pseudo_set_value(TurnOff(q), "DISABLED", {"yes"})
          [] v = {"local"} -> pseudo_set_value([TurnOn(q) EXCEPT !.local = TRUE],
                                               "DISABLED", {"no"})
          [] v = {"no"}    -> pseudo_set_value(TurnOn(q), "DISABLED", {"no"})
          [] v = Unset     -> pseudo_set_value(q, "DISABLED", {"no"})

\* a library that is told to unload but is still there acts as a disabled one
CheckUnload(q) ==
    IF q.env.var.UNLOAD = Unset THEN q
    ELSE [pseudo_set_value(q, "UNLOAD", q.env.var.UNLOAD) EXCEPT !.disabled = TRUE]

\* The state is read from the variables when the library starts, and again when
\* it is enabled after having been disabled.  The fourth value of PSEUDO_GIDS
\* is stored as the user's file system id (pseudo_client.c:638).
ReadState(q) ==
    LET u == pseudo_get_value(q, "UIDS")
        g == pseudo_get_value(q, "GIDS")
        uid == IF u = Unset THEN q.uid ELSE CHOOSE c \in u : TRUE
        gid == IF g = Unset THEN q.gid ELSE CHOOSE c \in g : TRUE
    IN  [q EXCEPT !.uid = IF g = Unset THEN uid ELSE [uid EXCEPT !.f = gid.f],
                  !.gid = [gid EXCEPT !.f = q.gid.f],
                  !.chroot = pseudo_get_value(q, "CHROOT"),
                  !.inited = TRUE]

pseudo_init_client(q) ==
    LET a == CheckUnload(CheckDisabled(pseudo_antimagic(q)))
        b == IF a.inited THEN a ELSE [a EXCEPT !.chroot = Unset]
        c == IF b.disabled \/ b.inited THEN b ELSE ReadState(b)
    IN  pseudo_magic(c)

libpseudo_init(q) ==
    pseudo_magic(pseudo_init_client(pseudo_init_util(pseudo_antimagic(q))))
-----------------------------------------------------------------------------
(* A new process *)

\* a program that was just started with environment e
Fresh(e) ==
    [loaded |-> e.preload, env |-> e, cache |-> NoVariables,
     uid |-> Everyone(0), gid |-> Everyone(0), chroot |-> Unset,
     inited |-> FALSE, disabled |-> FALSE, local |-> FALSE, antimagic |-> 0]

\* the dynamic linker runs the library's constructor, if it loads the library
Image(e) == IF e.preload THEN libpseudo_init(Fresh(e)) ELSE Fresh(e)

\* what execv(), execvp(), system() and popen() do to the caller's environment
Prepared(q) ==
    LET s == pseudo_setupenv(q)
    IN  IF pseudo_has_unload(s, NoVariables) THEN pseudo_dropenv(s) ELSE s

\* what execve() and posix_spawn() make of the environment they are given
PreparedEnvp(q, envp) ==
    LET e == pseudo_setupenvp(q, envp)
    IN  IF pseudo_has_unload(q, e.var) THEN pseudo_dropenvp(e) ELSE e

\* the child's side of fork() and of clone() without CLONE_VM
ForkChild(q) ==
    LET s == pseudo_setupenv(q)
    IN  IF pseudo_has_unload(s, NoVariables) THEN pseudo_dropenv(s)
        ELSE libpseudo_init(s)

\* wrapped calls that the generated wrappers pass on to the emulation
Emulating(q) == q.loaded /\ ~q.disabled /\ q.antimagic = 0

\* an environment the program may make up for execve(): its own, or a new one
\* (env -i) with or without a value for PSEUDO_DISABLED
EnvChoices(q) ==
    {q.env} \cup {[var |-> [NoVariables EXCEPT !.DISABLED = v], preload |-> FALSE]
                     : v \in FlagValues}
-----------------------------------------------------------------------------
Init ==
    /\ \E d \in FlagValues, u \in {Unset, {"yes"}} :
          /\ p = Image([var |-> [NoVariables EXCEPT !.DISABLED = d, !.UNLOAD = u],
                        preload |-> TRUE])
          /\ asked = (u # Unset)
    /\ sets = 0

Privileged == p.uid.e = 0

\* the program makes the set*id call c, and it is allowed
Making(c) == c \in Calls /\ sets < MaxSets /\ Emulating(p)
NewUid(u) == p' = pseudo_client_touchuid([p EXCEPT !.uid = u])
Counted   == sets' = sets + 1 /\ UNCHANGED asked

setuid == \E id \in Ids :
    /\ Making("setuid") /\ MaySet(p.uid, Privileged, {id})
    /\ NewUid(SetId(p.uid, Privileged, id)) /\ Counted

seteuid == \E id \in Ids :
    /\ Making("seteuid") /\ MaySet(p.uid, Privileged, {id})
    /\ NewUid(SetEffective(p.uid, id)) /\ Counted

setreuid == \E rid, eid \in Args :
    /\ Making("setreuid") /\ MaySet(p.uid, Privileged, {rid, eid})
    /\ NewUid(SetReal(p.uid, rid, eid)) /\ Counted

setresuid_NoSavedCheck == \E rid, eid, sid \in Args :
    /\ Making("setresuid") /\ MaySet(p.uid, Privileged, {rid, eid})
    /\ NewUid(SetAll(p.uid, rid, eid, sid)) /\ Counted

setresuid == \E rid, eid, sid \in Args :
    /\ Making("setresuid") /\ MaySet(p.uid, Privileged, {rid, eid, sid})
    /\ NewUid(SetAll(p.uid, rid, eid, sid)) /\ Counted

\* the variable PSEUDO_UIDS is left as it is
setfsuid == \E id \in Ids :
    /\ Making("setfsuid") /\ MaySet(p.uid, Privileged, {id})
    /\ p' = [p EXCEPT !.uid = SetFs(p.uid, id)] /\ Counted

setgid == \E id \in Ids :
    /\ Making("setgid") /\ MaySet(p.gid, Privileged, {id})
    /\ p' = pseudo_client_touchgid([p EXCEPT !.gid = SetId(p.gid, Privileged, id)])
    /\ Counted

setegid == \E id \in Ids :
    /\ Making("setegid") /\ MaySet(p.gid, Privileged, {id})
    /\ p' = pseudo_client_touchgid([p EXCEPT !.gid = SetEffective(p.gid, id)])
    /\ Counted

\* setregid() and setresgid() store PSEUDO_UIDS, not PSEUDO_GIDS
setregid == \E rid, eid \in Args :
    /\ Making("setregid") /\ MaySet(p.gid, Privileged, {rid, eid})
    /\ p' = pseudo_client_touchuid([p EXCEPT !.gid = SetReal(p.gid, rid, eid)])
    /\ Counted

setresgid == \E rid, eid, sid \in Args :
    /\ Making("setresgid") /\ MaySet(p.gid, Privileged, {rid, eid, sid})
    /\ p' = pseudo_client_touchuid([p EXCEPT !.gid = SetAll(p.gid, rid, eid, sid)])
    /\ Counted

setfsgid == \E id \in Ids :
    /\ Making("setfsgid") /\ MaySet(p.gid, Privileged, {id})
    /\ p' = [p EXCEPT !.gid = SetFs(p.gid, id)] /\ Counted

pseudo_client_chroot == \E d \in Dirs \cup {"/"} :
    /\ sets < MaxSets /\ Emulating(p)
    /\ LET v == IF d = "/" THEN Unset ELSE {d}
       IN  p' = pseudo_set_value([p EXCEPT !.chroot = v], "CHROOT", v)
    /\ Counted

\* the program changes its environment: setenv(), unsetenv(), clearenv()
Setenv ==
    /\ \/ \E v \in FlagValues : p' = [p EXCEPT !.env.var.DISABLED = v]
       \/ \E v \in {Unset, {"yes"}} : p' = [p EXCEPT !.env.var.UNLOAD = v]
       \/ p' = [p EXCEPT !.env = [var |-> NoVariables, preload |-> FALSE]]
    /\ asked' = (asked \/ p'.env.var.UNLOAD # Unset)
    /\ UNCHANGED sets

fork  == p.loaded /\ p' = ForkChild(p) /\ UNCHANGED << sets, asked >>
clone == p.loaded /\ p' = ForkChild(p) /\ UNCHANGED << sets, asked >>

\* the caller goes on with the prepared environment when the new program
\* cannot be started
execv ==
    /\ p.loaded
    /\ p' \in {Image(Prepared(p).env), Prepared(p)}
    /\ UNCHANGED << sets, asked >>
execvp ==
    /\ p.loaded
    /\ p' \in {Image(Prepared(p).env), Prepared(p)}
    /\ UNCHANGED << sets, asked >>

execve(envp) ==
    /\ p.loaded
    /\ p' = Image(PreparedEnvp(p, envp))
    /\ asked' = (asked \/ envp.var.UNLOAD # Unset)
    /\ UNCHANGED sets

posix_spawn(envp) ==
    /\ p.loaded
    /\ p' = Image(PreparedEnvp(p, envp))
    /\ asked' = (asked \/ envp.var.UNLOAD # Unset)
    /\ UNCHANGED sets

\* system() has a generated wrapper: a disabled library does not prepare
system ==
    /\ p.loaded
    /\ LET q == IF Emulating(p) THEN Prepared(p) ELSE p
       IN  p' \in {Image(q.env), q}
    /\ UNCHANGED << sets, asked >>

popen ==
    /\ p.loaded
    /\ p' \in {Image(Prepared(p).env), Prepared(p)}
    /\ UNCHANGED << sets, asked >>

SetIds ==
    \/ setuid \/ seteuid \/ setreuid \/ setresuid \/ setfsuid
    \/ setgid \/ setegid \/ setregid \/ setresgid \/ setfsgid
Forks  == fork \/ clone

\* execl(), execlp() and execle() collect their arguments in an array and are
\* then execv(), execvp() and execve()
Execs ==
    \/ execv \/ execvp
    \/ \E envp \in EnvChoices(p) : execve(envp) \/ posix_spawn(envp)

Next ==
    \/ SetIds \/ pseudo_client_chroot \/ Setenv
    \/ Forks \/ Execs \/ system \/ popen

Spec == Init /\ [][Next]_vars
-----------------------------------------------------------------------------
TypeOK == p \in Process /\ sets \in 0..MaxSets /\ asked \in BOOLEAN

\* A library that is not disabled has read its state and emulates every call:
\* however often a line of processes is disabled, enabled and told to unload,
\* the antimagic counter returns to 0 with it (pseudo_init_client).
EnabledEmulates == p.loaded /\ ~p.disabled => p.inited /\ p.antimagic = 0

\* Only PSEUDO_UNLOAD takes libpseudo out of a line of processes: exec, spawn and
\* popen put it back into whatever environment the program makes up.  The one
\* other way out is system() in a disabled process (pseudo_setupenvp).
StaysLoaded ==
    [][p.loaded /\ ~p'.loaded => asked' \/ (p.disabled /\ system)]_vars

\* A process that is not privileged and calls no exec only ever has the ids it
\* holds: no order of set*id calls and forks gives it another one, unless a
\* disabled library reads its state again (setresuid.c, fork.c).
NothingGained ==
    [][(SetIds \/ Forks) /\ p.uid.e # 0 /\ ~p.disabled =>
          /\ Held(p'.uid) \subseteq Held(p.uid)
          /\ Held(p'.gid) \subseteq Held(p.gid)]_vars

\* what PSEUDO_DISABLED asks for: nothing, when it is not set
Wanted(v, before) == IF v = Unset THEN before ELSE v = {"yes"}

\* PSEUDO_DISABLED takes effect with the next fork that finds it set and with the
\* next exec, and an exec that says nothing about it, even by an empty
\* environment, hands on what the process was (pseudo_setupenvp, test
\* test-pseudo_disable-fork-env_i.sh).  Of a fork that finds it gone nothing is
\* said: the comment at pseudo_client.c:449 has the child enabled, the code
\* keeps the parent's setting from its cache.
DisabledPassedOn ==
    [][p.loaded /\ p'.loaded /\ ~asked' =>
          /\ Forks /\ p.env.var.DISABLED # Unset =>
                p'.disabled = (p.env.var.DISABLED = {"yes"})
          /\ \A envp \in EnvChoices(p) :
                execve(envp) => p'.disabled = Wanted(envp.var.DISABLED, p.disabled)]_vars
=============================================================================
