---------------------------- MODULE WrapperLock ----------------------------
(***************************************************************************)
(* How the threads of one process share the client library.  Every wrapped *)
(* call blocks six signals, takes pseudo_mutex (which the library makes    *)
(* recursive itself, with pseudo_mutex_holder and pseudo_mutex_recursion), *)
(* looks at the global counter antimagic to see whether the library called *)
(* itself, works, drops the lock and restores the signal mask.             *)
(*                                                                         *)
(* Six kinds of call differ  in what they do while they hold the lock:     *)
(*   plain   requests to the server, with antimagic raised;                *)
(*   walk    nftw(), which calls the program back with the lock held;      *)
(*   fifo    open() of a FIFO, which drops the lock while it may block;    *)
(*   exec    execv(), execve(), execvp(), which restore the mask early;    *)
(*   spawn   posix_spawn(), posix_spawnp(), which do so too, and return;   *)
(*   fork    fork() and vfork(), whose child starts with a new mutex.      *)
(*                                                                         *)
(* A thread's stack holds one frame for each wrapped call it is in: a      *)
(* call made by a callback, a signal handler or the library itself is      *)
(* above the call it interrupts.  Each store to a shared variable is one   *)
(* step.  pthread_mutex_lock() does not fail on this kind of mutex, so     *)
(* that EBUSY does not occur; a disabled library (module ProcessState)     *)
(* takes no lock.                                                          *)
(***************************************************************************)
EXTENDS Integers, Sequences, SequencesExt

CONSTANTS
    Threads,
    Kinds,           \* the calls the program makes
    CallbackKinds,   \* the calls it makes in the callback of nftw()
    Ignorable,       \* the calls whose path PSEUDO_IGNORE_PATHS may name
    LateSignals,     \* signals may arrive when an exec*() has failed, or a
                     \* posix_spawn*() is done, and its wrapper drops the lock
    MaxCalls         \* bound: calls made in all

NoThread == "none"

ASSUME LockAssumption ==
    /\ NoThread \notin Threads
    /\ Kinds \subseteq {"plain", "walk", "fifo", "exec", "spawn", "fork"}
    /\ CallbackKinds \subseteq {"plain", "walk", "fifo", "exec", "spawn"}
    /\ Ignorable \subseteq {"plain", "walk"}
    /\ LateSignals \in BOOLEAN
    /\ MaxCalls \in Nat

VARIABLES
    stack,       \* stack[t]: the wrapped calls thread t is in
    mutex,       \* the thread that has locked pseudo_mutex
    holder,      \* pseudo_mutex_holder
    recursion,   \* pseudo_mutex_recursion
    antimagic,
    mask,        \* mask[t]: whether the six signals are blocked in t
    user,        \* user[t]: the mask the program has given t
    savedMask,   \* pseudo_saved_sigmask
    calls        \* calls made so far

lockVars == << mutex, holder, recursion >>
vars == << stack, lockVars, antimagic, mask, user, savedMask, calls >>

Masks == {"open", "blocked"}

\* ret: where the frame goes on after pseudo_getlock() or pseudo_droplock();
\* saved: the local variable of that name; level: what pseudo_getlock() left
\* in pseudo_mutex_recursion; library: called by the library itself
Frame ==
    [kind : {"plain", "walk", "fifo", "exec", "spawn", "fork", "child"},
     pc : {"block", "lock", "count", "claim", "decide", "real", "ignored",
           "guts", "op", "drop", "again", "clear", "unlock", "restore",
           "unmask", "wait", "remask", "opened", "env", "exec"},
     ret : {"decide", "opened", "restore", "unmask", "again"},
     saved : Masks, level : Nat, library : BOOLEAN]

InCall(t) == stack[t] # << >>
Top(t) == stack[t][Len(stack[t])]
At(t, step) == InCall(t) /\ Top(t).pc = step

\* replace the topmost frame
Become(t, f) == stack' = [stack EXCEPT ![t][Len(stack[t])] = f]
Goto(t, step) == Become(t, [Top(t) EXCEPT !.pc = step])
-----------------------------------------------------------------------------
(* Calls *)

NewFrame(k, lib) ==
    [kind |-> k, pc |-> "block", ret |-> "decide", saved |-> "open",
     level |-> 0, library |-> lib]

Push(t, k, lib) ==
    /\ calls < MaxCalls /\ calls' = calls + 1
    /\ stack' = [stack EXCEPT ![t] = Append(@, NewFrame(k, lib))]
    /\ UNCHANGED << lockVars, antimagic, mask, user, savedMask >>

\* a child has one thread until its fork() has returned
Forking(u) == InCall(u) /\ stack[u][1].kind = "child"

Program(t) ==
    /\ ~InCall(t) /\ \A u \in Threads : ~Forking(u)
    /\ \E k \in Kinds : Push(t, k, FALSE)

\* the function given to nftw() makes a call
Callback(t) ==
    /\ At(t, "guts") \/ At(t, "ignored")
    /\ Top(t).kind = "walk"
    /\ \E k \in CallbackKinds : Push(t, k, FALSE)

\* the library uses a wrapped function, such as close(), in pseudo_client_op
Library(t) == At(t, "op") /\ Push(t, "plain", TRUE)

\* a handler for one of the six signals makes a call
Handler(t) ==
    /\ InCall(t) /\ mask[t] = "open"
    /\ Top(t).kind \in {"exec", "spawn"} /\ Top(t).pc \notin {"block", "exec"} =>
          LateSignals
    /\ Push(t, "plain", FALSE)

\* the program changes the mask between two calls
pthread_sigmask(t) ==
    /\ ~InCall(t)
    /\ \E m \in Masks : /\ mask' = [mask EXCEPT ![t] = m]
                        /\ user' = [user EXCEPT ![t] = m]
    /\ UNCHANGED << stack, lockVars, antimagic, savedMask, calls >>

pseudo_sigblock(t) ==
    /\ At(t, "block")
    /\ Become(t, [Top(t) EXCEPT !.pc = "lock", !.saved = mask[t]])
    /\ mask' = [mask EXCEPT ![t] = "blocked"]
    /\ UNCHANGED << lockVars, antimagic, user, savedMask, calls >>
-----------------------------------------------------------------------------
(* pseudo_getlock() *)

LockAgain(t) ==
    /\ At(t, "lock") /\ holder = t
    /\ recursion' = recursion + 1
    /\ Become(t, [Top(t) EXCEPT !.pc = Top(t).ret, !.level = recursion + 1])
    /\ UNCHANGED << mutex, holder, antimagic, mask, user, savedMask, calls >>

pthread_mutex_lock(t) ==
    /\ At(t, "lock") /\ holder # t /\ mutex = NoThread
    /\ mutex' = t
    /\ Goto(t, "count")
    /\ UNCHANGED << holder, recursion, antimagic, mask, user, savedMask, calls >>

LockFirst(t) ==
    /\ At(t, "count")
    /\ recursion' = 1
    /\ Become(t, [Top(t) EXCEPT !.pc = "claim", !.level = 1])
    /\ UNCHANGED << mutex, holder, antimagic, mask, user, savedMask, calls >>

LockClaim(t) ==
    /\ At(t, "claim")
    /\ holder' = t
    /\ Goto(t, Top(t).ret)
    /\ UNCHANGED << mutex, recursion, antimagic, mask, user, savedMask, calls >>

(* pseudo_droplock().  Only a child of fork() drops a lock that it does    *)
(* not hold, at "again": pseudo_mutex_recursion becomes -1, and the next   *)
(* pseudo_getlock() sets it to 1.                                          *)

pseudo_droplock(t) ==
    /\ At(t, "drop") \/ At(t, "again")
    /\ LET next == IF Top(t).pc = "again" THEN "restore" ELSE Top(t).ret
       IN  Become(t, [Top(t) EXCEPT
                        !.pc = IF recursion = 1 THEN "clear" ELSE next,
                        !.ret = next, !.level = 0])
    /\ recursion' = recursion - 1
    /\ UNCHANGED << mutex, holder, antimagic, mask, user, savedMask, calls >>

DropClear_Keep(t) ==
    /\ At(t, "clear")
    /\ Goto(t, "unlock")
    /\ UNCHANGED << lockVars, antimagic, mask, user, savedMask, calls >>

DropClear(t) ==
    /\ At(t, "clear")
    /\ holder' = NoThread
    /\ Goto(t, "unlock")
    /\ UNCHANGED << mutex, recursion, antimagic, mask, user, savedMask, calls >>

pthread_mutex_unlock(t) ==
    /\ At(t, "unlock")
    /\ mutex' = NoThread
    /\ Goto(t, Top(t).ret)
    /\ UNCHANGED << holder, recursion, antimagic, mask, user, savedMask, calls >>
-----------------------------------------------------------------------------
(* The body of a wrapper *)

Drop(t, next) == Become(t, [Top(t) EXCEPT !.pc = "drop", !.ret = next])

\* fork(), exec*() and posix_spawn*() do not look at antimagic, and fork() saves no mask
PassesThrough(t) ==
    Top(t).kind \in {"plain", "walk", "fifo"} /\ antimagic > 0

Decide(t) ==
    /\ At(t, "decide")
    /\ \/ /\ PassesThrough(t)
          /\ Goto(t, "real")
          /\ UNCHANGED savedMask
       \/ /\ ~PassesThrough(t) /\ Top(t).kind \in Ignorable
          /\ Goto(t, "ignored")
          /\ UNCHANGED savedMask
       \/ /\ ~PassesThrough(t)
          /\ Goto(t, "guts")
          /\ savedMask' = IF Top(t).kind = "fork" THEN savedMask
                          ELSE Top(t).saved
    /\ UNCHANGED << lockVars, antimagic, mask, user, calls >>

\* the real function, with the lock held
RealCall(t) ==
    /\ At(t, "real") \/ At(t, "ignored")
    /\ Drop(t, "restore")
    /\ UNCHANGED << lockVars, antimagic, mask, user, savedMask, calls >>

\* pseudo_client_op(): the library must not wrap what it calls itself
pseudo_antimagic(t) ==
    /\ \/ At(t, "guts") /\ Top(t).kind \in {"plain", "exec", "spawn"}
       \/ At(t, "opened")
    /\ antimagic' = antimagic + 1
    /\ Goto(t, "op")
    /\ UNCHANGED << lockVars, mask, user, savedMask, calls >>

AfterOp(t) ==
    CASE Top(t).kind \in {"exec", "spawn"} -> Goto(t, "env")
      [] Top(t).kind = "child" -> Drop(t, "again")
      [] OTHER                 -> Drop(t, "restore")

pseudo_magic_Not(t) ==
    /\ At(t, "op")
    /\ AfterOp(t)
    /\ UNCHANGED << lockVars, antimagic, mask, user, savedMask, calls >>

pseudo_magic(t) ==
    /\ At(t, "op")
    /\ antimagic' = IF antimagic > 0 THEN antimagic - 1 ELSE antimagic
    /\ AfterOp(t)
    /\ UNCHANGED << lockVars, mask, user, savedMask, calls >>

\* nftw() returns when the tree is done or a callback says so
WalkDone(t) ==
    /\ At(t, "guts") /\ Top(t).kind = "walk"
    /\ Drop(t, "restore")
    /\ UNCHANGED << lockVars, antimagic, mask, user, savedMask, calls >>

Restore_Saved(t) ==
    /\ At(t, "restore")
    /\ mask' = [mask EXCEPT ![t] = savedMask]
    /\ stack' = [stack EXCEPT ![t] = Front(@)]
    /\ UNCHANGED << lockVars, antimagic, user, savedMask, calls >>

Restore(t) ==
    /\ At(t, "restore")
    /\ mask' = [mask EXCEPT ![t] = Top(t).saved]
    /\ stack' = [stack EXCEPT ![t] = Front(@)]
    /\ UNCHANGED << lockVars, antimagic, user, savedMask, calls >>
-----------------------------------------------------------------------------
(* open() of a FIFO, without O_NONBLOCK, for reading or writing only *)

FifoDrop_Not(t) ==
    /\ At(t, "guts") /\ Top(t).kind = "fifo"
    /\ Goto(t, "unmask")
    /\ UNCHANGED << lockVars, antimagic, mask, user, savedMask, calls >>

FifoDrop(t) ==
    /\ At(t, "guts") /\ Top(t).kind = "fifo"
    /\ Drop(t, "unmask")
    /\ UNCHANGED << lockVars, antimagic, mask, user, savedMask, calls >>

\* pseudo_saved_sigmask is read without the lock.  The mask that is put
\* aside in local_saved_sigmask is "blocked", because this call blocked it.
FifoUnmask(t) ==
    /\ At(t, "unmask")
    /\ mask' = [mask EXCEPT ![t] = savedMask]
    /\ Goto(t, "wait")
    /\ UNCHANGED << lockVars, antimagic, user, savedMask, calls >>

\* two threads open the two ends
FifoMeet(t, u) ==
    /\ t # u /\ At(t, "wait") /\ At(u, "wait")
    /\ stack' = [stack EXCEPT ![t][Len(stack[t])].pc = "remask",
                              ![u][Len(stack[u])].pc = "remask"]
    /\ UNCHANGED << lockVars, antimagic, mask, user, savedMask, calls >>

\* another process opens the other end, or a signal interrupts the call
FifoOther(t) ==
    /\ At(t, "wait")
    /\ Goto(t, "remask")
    /\ UNCHANGED << lockVars, antimagic, mask, user, savedMask, calls >>

\* then the request for the opened file, if the open succeeded
FifoRemask(t) ==
    /\ At(t, "remask")
    /\ mask' = [mask EXCEPT ![t] = "blocked"]
    /\ Become(t, [Top(t) EXCEPT !.pc = "lock", !.ret = "opened"])
    /\ UNCHANGED << lockVars, antimagic, user, savedMask, calls >>
-----------------------------------------------------------------------------
(* exec*(), posix_spawn*() and fork() *)

\* pseudo_setupenv(), then the mask, while the lock is held
ExecUnmask(t) ==
    /\ At(t, "env")
    /\ mask' = [mask EXCEPT ![t] = savedMask]
    /\ Goto(t, "exec")
    /\ UNCHANGED << lockVars, antimagic, user, savedMask, calls >>

\* the new image has one thread, and what the kernel keeps of it: the mask
ExecSucceeds(t) ==
    /\ At(t, "exec") /\ Top(t).kind = "exec"
    /\ mutex' = NoThread /\ holder' = NoThread /\ recursion' = 0
    /\ antimagic' = 0
    /\ stack' = [u \in Threads |-> << >>]
    /\ mask' = [u \in Threads |-> mask[t]]
    /\ user' = [u \in Threads |-> mask[t]]
    /\ savedMask' = "open"
    /\ UNCHANGED calls

\* an exec*() that failed, or a posix_spawn*() in any case: the lock is dropped
\* with the mask already restored
ExecReturns(t) ==
    /\ At(t, "exec")
    /\ Drop(t, "restore")
    /\ UNCHANGED << lockVars, antimagic, mask, user, savedMask, calls >>

\* the parent goes on
ForkParent(t) ==
    /\ At(t, "guts") /\ Top(t).kind = "fork"
    /\ Drop(t, "restore")
    /\ UNCHANGED << lockVars, antimagic, mask, user, savedMask, calls >>

\* the process that is followed is the child: libpseudo_atfork_child(), and
\* pseudo_reinit_libpseudo() unless the child is to be unloaded.  A thread
\* that the child creates later takes the name of one that is gone.
libpseudo_atfork_child(t) ==
    /\ At(t, "guts") /\ Top(t).kind = "fork"
    /\ mutex' = NoThread /\ recursion' = 0 /\ holder' = NoThread
    /\ \E next \in {"lock", "again"} :
          stack' = [u \in Threads |->
                      IF u = t THEN Append(Front(stack[t]),
                        [Top(t) EXCEPT !.kind = "child", !.pc = next,
                                       !.ret = "opened", !.level = 0])
                      ELSE << >>]
    /\ mask' = [u \in Threads |-> IF u = t THEN mask[u] ELSE user[u]]
    /\ UNCHANGED << antimagic, user, savedMask, calls >>
-----------------------------------------------------------------------------
Init ==
    /\ mutex = NoThread /\ holder = NoThread /\ recursion = 0
    /\ antimagic = 0
    /\ stack = [t \in Threads |-> << >>]
    /\ mask = [t \in Threads |-> "open"]
    /\ user = mask
    /\ savedMask = "open"
    /\ calls = 0

\* what the library does, once it has been called
Step(t) ==
    \/ pseudo_sigblock(t) \/ Restore(t)
    \/ LockAgain(t) \/ LockFirst(t) \/ LockClaim(t)
    \/ pseudo_droplock(t) \/ DropClear(t) \/ pthread_mutex_unlock(t)
    \/ Decide(t) \/ RealCall(t) \/ pseudo_antimagic(t) \/ pseudo_magic(t)
    \/ WalkDone(t)
    \/ FifoDrop(t) \/ FifoUnmask(t) \/ FifoRemask(t)
    \/ ExecUnmask(t) \/ ExecSucceeds(t) \/ ExecReturns(t)
    \/ ForkParent(t) \/ libpseudo_atfork_child(t)

Outside(t) ==
    \/ Program(t) \/ Callback(t) \/ Library(t) \/ Handler(t)
    \/ pthread_sigmask(t) \/ FifoOther(t)

Next ==
    \/ \E t \in Threads : Step(t) \/ pthread_mutex_lock(t) \/ Outside(t)
    \/ \E t, u \in Threads : FifoMeet(t, u)

(* A thread that can run is scheduled, the mutex does not starve a thread, *)
(* and the kernel completes two open() calls that wait for each other.     *)
(* Nothing makes the program call, a signal arrive, or another process     *)
(* open a FIFO.                                                            *)
Fairness ==
    /\ \A t \in Threads : WF_vars(Step(t)) /\ SF_vars(pthread_mutex_lock(t))
    /\ \A t, u \in Threads : WF_vars(FifoMeet(t, u))

Spec == Init /\ [][Next]_vars /\ Fairness
-----------------------------------------------------------------------------
(* Types of the variables. *)
TypeOK ==
    /\ stack \in [Threads -> Seq(Frame)]
    /\ mutex \in Threads \cup {NoThread}
    /\ holder \in Threads \cup {NoThread}
    /\ recursion \in Int /\ antimagic \in Nat
    /\ mask \in [Threads -> Masks] /\ user \in [Threads -> Masks]
    /\ savedMask \in Masks
    /\ calls \in 0..MaxCalls

\* the steps between the end of pseudo_getlock() and pseudo_droplock()
HeldSteps ==
    {"decide", "real", "ignored", "guts", "op", "opened", "drop", "env", "exec"}
Holds(t) == \E i \in DOMAIN stack[t] : stack[t][i].pc \in HeldSteps

(* The lock excludes (pseudo_getlock, pseudo_droplock, the FIFO case in    *)
(* openat.c, libpseudo_atfork_child): a thread that is inside the body of  *)
(* a wrapped call owns the mutex and is the recorded holder, however the   *)
(* calls of its callbacks and of the handlers of signals nest, and so two  *)
(* threads are never inside at once, not even when one waits in open() in  *)
(* between or the process has forked.  This needs ~LateSignals: it is      *)
(* false when a handler runs while the wrapper of an exec*() that failed,  *)
(* or of a posix_spawn*(), drops the lock with the mask already open, the  *)
(* window of NoSelfDeadlock.                                               *)
Excludes == \A t \in Threads : Holds(t) => mutex = t /\ holder = t

(* antimagic tells whose call it is (wrapfuncs.c: "antimagic > 0"): a call *)
(* of the program is never handed to the real function because some other *)
(* thread, or a call beneath a handler, is in the middle of a request, and *)
(* a call of the library's own is never treated as the program's.          *)
OwnCallsOnly ==
    \A t \in Threads : \A i \in DOMAIN stack[t] :
        /\ stack[t][i].pc = "real" => stack[t][i].library
        /\ stack[t][i].pc \in {"ignored", "guts", "op"} => ~stack[t][i].library

(* The six signals are blocked only inside calls: between calls a thread   *)
(* has the mask the program gave it, and a new image starts with the mask  *)
(* that exec*() was called with, although the mask travels through one     *)
(* static variable (pseudo_saved_sigmask) that every thread writes.        *)
MaskKept ==
    \A t \in Threads :
        /\ ~InCall(t) => mask[t] = user[t]
        /\ At(t, "exec") => mask[t] = Top(t).saved

\* no other thread is about to open the other end
NoPeer(t) ==
    \A u \in Threads \ {t} : \A i \in DOMAIN stack[u] :
        /\ stack[u][i].kind = "fifo" /\ stack[u][i].pc # "remask"
        => stack[u][i].ret \notin {"decide", "unmask"}

(* A thread never waits for the lock that it has itself (pseudo_getlock;   *)
(* the comment in pseudo_sigblock names this deadlock).                    *)
NoSelfDeadlock ==
    \A t \in Threads : At(t, "lock") /\ mutex = t => holder = t

(* A wrapped call returns (openat.c: "it can block forever"): no thread    *)
(* waits for ever for the lock, or for the other end of a FIFO that        *)
(* another thread of the process is opening.                               *)
CallsReturn ==
    \A t \in Threads : InCall(t) ~> (~InCall(t) \/ (At(t, "wait") /\ NoPeer(t)))
=============================================================================
