------------------------- MODULE WrapperLock_proof -------------------------
(***************************************************************************)
(* Theorems about WrapperLock, for any threads, calls and nesting of       *)
(* calls.  They assume that no signal arrives while an exec*() that has    *)
(* failed gives up the lock: run exec_deadlock shows what happens then.    *)
(***************************************************************************)
EXTENDS WrapperLock, TLAPS

\* What one frame looks like.  pseudo_getlock() goes on into the body of the
\* wrapper, pseudo_droplock() out of it; only the library's own calls are passed
\* through; only a fork()'s child drops the lock twice.
FrameOK(f) ==
    /\ f.pc \in {"block", "lock", "count", "claim"} => f.ret \in {"decide", "opened"}
    /\ f.pc \in {"drop", "clear", "unlock"} => f.ret \in {"restore", "unmask", "again"}
    /\ f.pc \in {"drop", "clear", "unlock"} /\ f.ret = "again" => f.kind = "child"
    /\ f.pc \in {"drop", "clear", "unlock"} /\ f.ret = "unmask" => f.kind = "fifo"
    /\ f.pc \in {"block", "lock", "count", "claim"} /\ f.ret = "opened"
          => f.kind \in {"fifo", "child"}
    /\ f.pc = "again" => f.kind = "child"
    /\ f.pc \in {"unmask", "wait", "remask"} => f.kind = "fifo"
    /\ f.pc = "opened" => f.kind \in {"fifo", "child"}
    /\ f.pc = "real" => f.library
    /\ f.pc \in {"env", "exec"} => f.kind \in {"exec", "spawn"}
    /\ f.library =>
          /\ f.kind = "plain" /\ f.ret \in {"decide", "restore"}
          /\ f.pc \in {"block", "lock", "count", "claim", "decide", "real",
                       "drop", "clear", "unlock", "restore"}

\* the steps at which a frame can have another one above it
Interruptible(f) ==
    \/ f.pc \in {"block", "wait", "remask", "exec", "op"}
    \/ f.kind = "walk" /\ f.pc \in {"guts", "ignored"}

\* How frames lie on each other.  fork() is never called by a callback; above a
\* frame that is in pseudo_client_op() there is a call of the library's own, and
\* nothing above that.
StackOK(t) ==
    \A i \in DOMAIN stack[t] :
        LET f == stack[t][i]
        IN  /\ FrameOK(f)
            /\ f.kind \in {"fork", "child"} => i = 1
            /\ i < Len(stack[t]) => Interruptible(f) /\ ~f.library
            /\ i < Len(stack[t]) /\ f.pc = "op" => stack[t][i + 1].library
            /\ f.library => i > 1 /\ stack[t][i - 1].pc = "op"

Shape == \A t \in Threads : StackOK(t)

\* While a fork()'s child is starting, it has one thread.
OneThread ==
    \A t \in Threads : Forking(t) => \A u \in Threads \ {t} : ~InCall(u)
-----------------------------------------------------------------------------
\* the mask of thread t when the frame above i, if there is one, has returned
MaskAt(t, i) ==
    CASE i = Len(stack[t])              -> mask[t]
      [] i # Len(stack[t]) /\ stack[t][i + 1].pc # "block" -> stack[t][i + 1].saved
      [] i + 1 = Len(stack[t]) /\ stack[t][i + 1].pc = "block" -> mask[t]
      [] OTHER                          -> "open"

\* Signals are blocked from pseudo_sigblock() on, but for the wait for a FIFO
\* and the end of an exec*(); a call is interrupted at its start only when they
\* are not.
MaskFits(f, m) ==
    /\ f.pc = "exec" => m = f.saved
    /\ f.pc \in {"lock", "count", "claim", "decide", "real", "ignored", "guts",
                 "op", "opened", "env", "again"} => m = "blocked"
    /\ f.pc \in {"drop", "clear", "unlock", "restore", "unmask"} =>
          m = "blocked" \/ f.kind \in {"exec", "spawn"}

MasksOf(t) ==
    /\ MaskAt(t, 0) = user[t]
    /\ \A i \in DOMAIN stack[t] :
          /\ MaskFits(stack[t][i], MaskAt(t, i))
          /\ stack[t][i].pc = "block" /\ i < Len(stack[t]) => MaskAt(t, i) = "open"

MaskInv == \A t \in Threads : MasksOf(t)

\* pseudo_saved_sigmask belongs to the exec*() that has the lock.
SavedInv ==
    \A t \in Threads : \A i \in DOMAIN stack[t] :
        stack[t][i].kind \in {"exec", "spawn"} /\ stack[t][i].pc \in {"guts", "op", "env"}
            => savedMask = stack[t][i].saved
-----------------------------------------------------------------------------
\* the frames of t that have called pseudo_getlock() and not pseudo_droplock()
Held(t) == {i \in DOMAIN stack[t] : stack[t][i].pc \in HeldSteps}

\* Which step has set what.
LockFits(t, f) ==
    /\ f.pc \in HeldSteps \cup {"clear"} => mutex = t /\ holder = t
    /\ f.pc \in {"count", "claim", "unlock"} => mutex = t /\ holder = NoThread
    /\ f.pc = "claim" => recursion = 1 /\ f.level = 1
    /\ f.pc \in {"clear", "unlock", "again"} => recursion = 0
    /\ f.pc = "again" => mutex = NoThread /\ holder = NoThread

LockInv ==
    /\ \A t \in Threads : \A i \in DOMAIN stack[t] : LockFits(t, stack[t][i])
    /\ holder # NoThread =>
          /\ mutex = holder
          /\ Held(holder) # {} \/ At(holder, "clear")
    /\ mutex # NoThread /\ holder = NoThread =>
          At(mutex, "count") \/ At(mutex, "claim") \/ At(mutex, "unlock")

\* The frames that hold the lock have the levels 1 to pseudo_mutex_recursion,
\* from the oldest to the youngest.
LevelsOf(t) ==
    /\ \A i \in Held(t) : stack[t][i].level \in 1..recursion
    /\ \A i, j \in Held(t) : i < j => stack[t][i].level < stack[t][j].level
    /\ holder = t => \A l \in 1..recursion : \E i \in Held(t) : stack[t][i].level = l

Levels == \A t \in Threads : LevelsOf(t)

\* antimagic is raised by one pseudo_client_op() at a time.
InOp == \E t \in Threads : \E i \in DOMAIN stack[t] : stack[t][i].pc = "op"
MagicInv == /\ InOp => antimagic = 1
            /\ ~InOp => antimagic = 0

IInv == /\ TypeOK /\ Shape /\ OneThread /\ MaskInv /\ SavedInv
        /\ LockInv /\ Levels /\ MagicInv
-----------------------------------------------------------------------------
(* Stacks *)

\* A stack is a sequence of frames.
LEMMA StackFacts ==
    ASSUME TypeOK, NEW t \in Threads
    PROVE  /\ stack[t] \in Seq(Frame) /\ Len(stack[t]) \in Nat
           /\ DOMAIN stack[t] = 1..Len(stack[t])
           /\ \A i \in DOMAIN stack[t] : stack[t][i] \in Frame
           /\ InCall(t) => /\ Len(stack[t]) > 0 /\ Len(stack[t]) \in DOMAIN stack[t]
                           /\ Top(t) \in Frame /\ Top(t) = stack[t][Len(stack[t])]
           /\ ~InCall(t) => Len(stack[t]) = 0 /\ DOMAIN stack[t] = {}
BY DEF TypeOK, InCall, Top

\* stack' is stack with the topmost frame of t replaced by g
Replaced(t, g) ==
    /\ stack' \in [Threads -> Seq(Frame)]
    /\ \A u \in Threads \ {t} : stack'[u] = stack[u]
    /\ Len(stack'[t]) = Len(stack[t]) /\ DOMAIN stack'[t] = DOMAIN stack[t]
    /\ stack'[t][Len(stack[t])] = g
    /\ \A i \in DOMAIN stack[t] : i # Len(stack[t]) => stack'[t][i] = stack[t][i]

\* Replacing the topmost frame.
LEMMA BecomeStep ==
    ASSUME TypeOK, NEW t \in Threads, InCall(t), NEW g \in Frame, Become(t, g)
    PROVE  Replaced(t, g)
<1>1. stack[t] \in Seq(Frame) /\ Len(stack[t]) \in 1..Len(stack[t])
  BY StackFacts
<1>2. stack' = [stack EXCEPT ![t] = [stack[t] EXCEPT ![Len(stack[t])] = g]]
  BY DEF Become
<1> DEFINE s == [stack[t] EXCEPT ![Len(stack[t])] = g]
<1>3. /\ s \in Seq(Frame) /\ Len(s) = Len(stack[t]) /\ DOMAIN s = DOMAIN stack[t]
      /\ s[Len(stack[t])] = g
      /\ \A i \in DOMAIN stack[t] : i # Len(stack[t]) => s[i] = stack[t][i]
  BY <1>1
<1> HIDE DEF s
<1>4. stack'[t] = s /\ \A u \in Threads \ {t} : stack'[u] = stack[u]
  BY <1>2 DEF TypeOK, s
<1>5. stack' \in [Threads -> Seq(Frame)]
  BY <1>2, <1>3 DEF TypeOK, s
<1> QED BY <1>3, <1>4, <1>5 DEF Replaced

\* stack' is stack with a new call k of t
Pushed(t, g) ==
    /\ stack' \in [Threads -> Seq(Frame)]
    /\ \A u \in Threads \ {t} : stack'[u] = stack[u]
    /\ Len(stack'[t]) = Len(stack[t]) + 1 /\ DOMAIN stack'[t] = 1..(Len(stack[t]) + 1)
    /\ stack'[t][Len(stack[t]) + 1] = g
    /\ \A i \in DOMAIN stack[t] : stack'[t][i] = stack[t][i]

\* A new call.
LEMMA PushStep ==
    ASSUME TypeOK, NEW t \in Threads, NEW g \in Frame,
           stack' = [stack EXCEPT ![t] = Append(@, g)]
    PROVE  Pushed(t, g)
<1>1. stack[t] \in Seq(Frame)
  BY StackFacts
<1> DEFINE s == Append(stack[t], g)
<1>3. /\ s \in Seq(Frame) /\ Len(s) = Len(stack[t]) + 1 /\ DOMAIN s = 1..(Len(stack[t]) + 1)
      /\ s[Len(stack[t]) + 1] = g
      /\ \A i \in DOMAIN stack[t] : s[i] = stack[t][i]
  BY <1>1
<1> HIDE DEF s
<1>4. stack'[t] = s /\ \A u \in Threads \ {t} : stack'[u] = stack[u]
  BY DEF TypeOK, s
<1>5. stack' \in [Threads -> Seq(Frame)]
  BY <1>3 DEF TypeOK, s
<1> QED BY <1>3, <1>4, <1>5 DEF Pushed

\* stack' is stack without the topmost frame of t
Popped(t) ==
    /\ stack' \in [Threads -> Seq(Frame)]
    /\ \A u \in Threads \ {t} : stack'[u] = stack[u]
    /\ Len(stack'[t]) = Len(stack[t]) - 1 /\ DOMAIN stack'[t] = 1..(Len(stack[t]) - 1)
    /\ \A i \in 1..(Len(stack[t]) - 1) : stack'[t][i] = stack[t][i]

\* A call that returns.
LEMMA PopStep ==
    ASSUME TypeOK, NEW t \in Threads, InCall(t),
           stack' = [stack EXCEPT ![t] = Front(@)]
    PROVE  Popped(t)
<1>1. stack[t] \in Seq(Frame) /\ Len(stack[t]) \in Nat /\ Len(stack[t]) > 0
  BY StackFacts
<1> DEFINE s == Front(stack[t])
<1>2. s = SubSeq(stack[t], 1, Len(stack[t]) - 1)
  BY DEF Front
<1>3. /\ s \in Seq(Frame) /\ Len(s) = Len(stack[t]) - 1 /\ DOMAIN s = 1..(Len(stack[t]) - 1)
      /\ \A i \in 1..(Len(stack[t]) - 1) : s[i] = stack[t][i]
  BY <1>1, <1>2
<1> HIDE DEF s
<1>4. stack'[t] = s /\ \A u \in Threads \ {t} : stack'[u] = stack[u]
  BY DEF TypeOK, s
<1>5. stack' \in [Threads -> Seq(Frame)]
  BY <1>3 DEF TypeOK, s
<1> QED BY <1>3, <1>4, <1>5 DEF Popped
-----------------------------------------------------------------------------
(* What a replaced frame leaves of the invariant *)

\* The shape of the stacks.
LEMMA ReplaceShape ==
    ASSUME TypeOK, Shape, OneThread, NEW t \in Threads, InCall(t), NEW g \in Frame,
           Replaced(t, g), FrameOK(g), g.kind = Top(t).kind, g.library = Top(t).library
    PROVE  Shape' /\ OneThread'
<1> DEFINE n == Len(stack[t])
<1>1. n \in DOMAIN stack[t] /\ DOMAIN stack[t] = 1..n /\ n \in Nat /\ Top(t) = stack[t][n]
  BY StackFacts
<1>2. ASSUME NEW u \in Threads \ {t} PROVE StackOK(u)'
  BY <1>2 DEF Replaced, Shape, StackOK
<1>3. StackOK(t)'
  <2> SUFFICES ASSUME NEW i \in DOMAIN stack[t]
               PROVE  LET f == stack'[t][i]
                      IN  /\ FrameOK(f)
                          /\ f.kind \in {"fork", "child"} => i = 1
                          /\ i < n => Interruptible(f) /\ ~f.library
                          /\ i < n /\ f.pc = "op" => stack'[t][i + 1].library
                          /\ f.library => i > 1 /\ stack'[t][i - 1].pc = "op"
    BY DEF Replaced, StackOK, FrameOK, Interruptible
  <2>1. StackOK(t)
    BY DEF Shape
  <2>2. CASE i = n
    <3>1. stack'[t][i] = g /\ ~(i < n)
      BY <1>1, <2>2 DEF Replaced
    <3>2. g.kind \in {"fork", "child"} => i = 1
      BY <1>1, <2>1, <2>2 DEF StackOK
    <3>3. g.library => i > 1 /\ stack[t][i - 1].pc = "op"
      BY <1>1, <2>1, <2>2 DEF StackOK
    <3>4. i > 1 => i - 1 \in DOMAIN stack[t] /\ i - 1 # n
      BY <1>1, <2>2
    <3>5. i > 1 => stack'[t][i - 1] = stack[t][i - 1]
      BY <3>4 DEF Replaced
    <3> QED BY <3>1, <3>2, <3>3, <3>5
  <2>3. CASE i # n
    <3>1. stack'[t][i] = stack[t][i] /\ i < n /\ i + 1 \in DOMAIN stack[t] /\ i \in Nat
      BY <1>1, <2>3 DEF Replaced
    <3>2. stack'[t][i + 1].library = stack[t][i + 1].library
      BY <1>1, <3>1 DEF Replaced
    <3>3. i > 1 => i - 1 \in DOMAIN stack[t] /\ i - 1 # n
      BY <1>1, <3>1
    <3>4. i > 1 => stack'[t][i - 1] = stack[t][i - 1]
      BY <3>3 DEF Replaced
    <3> QED BY <2>1, <3>1, <3>2, <3>4 DEF StackOK
  <2> QED BY <2>2, <2>3
<1>4. \A u \in Threads : InCall(u)' = InCall(u) /\ Forking(u)' = Forking(u)
  <2>1. ASSUME NEW u \in Threads \ {t} PROVE InCall(u)' = InCall(u) /\ Forking(u)' = Forking(u)
    BY <2>1 DEF Replaced, InCall, Forking
  <2>2. stack'[t] # << >> /\ stack[t] # << >>
    BY <1>1 DEF Replaced, InCall
  <2>3. stack'[t][1].kind = stack[t][1].kind
    BY <1>1 DEF Replaced
  <2> QED BY <2>1, <2>2, <2>3 DEF InCall, Forking
<1> QED BY <1>2, <1>3, <1>4 DEF Shape, OneThread

\* The masks: the frame above has saved what the one below had.
LEMMA ReplaceMask ==
    ASSUME TypeOK, MaskInv, NEW t \in Threads, InCall(t), NEW g \in Frame,
           Replaced(t, g), g.pc # "block",
           g.saved = IF Top(t).pc = "block" THEN mask[t] ELSE Top(t).saved,
           \A u \in Threads \ {t} : mask'[u] = mask[u], user' = user, MaskFits(g, mask'[t])
    PROVE  MaskInv'
<1> DEFINE n == Len(stack[t])
<1>1. n \in DOMAIN stack[t] /\ DOMAIN stack[t] = 1..n /\ n \in Nat /\ Top(t) = stack[t][n] /\ n > 0
  BY StackFacts
<1>2. ASSUME NEW u \in Threads \ {t} PROVE MasksOf(u)'
  <2>1. \A i : MaskAt(u, i)' = MaskAt(u, i)
    BY <1>2 DEF Replaced, MaskAt
  <2> QED BY <1>2, <2>1 DEF Replaced, MaskInv, MasksOf
<1>3. MasksOf(t)'
  <2>1. MaskAt(t, n)' = mask'[t]
    BY <1>1 DEF Replaced, MaskAt
  <2>4. ASSUME NEW i \in 0..(n - 1) PROVE MaskAt(t, i)' = MaskAt(t, i)
    <3>1. i + 1 \in DOMAIN stack[t] /\ i # n /\ Len(stack'[t]) = n
      BY <1>1, <2>4 DEF Replaced
    <3>2. CASE i + 1 = n
      <4>1. stack'[t][i + 1] = g /\ stack[t][i + 1] = Top(t)
        BY <1>1, <3>2 DEF Replaced
      <4> QED BY <3>1, <3>2, <4>1 DEF MaskAt
    <3>3. CASE i + 1 # n
      <4>1. stack'[t][i + 1] = stack[t][i + 1]
        BY <3>1, <3>3 DEF Replaced
      <4> QED BY <3>1, <3>3, <4>1 DEF MaskAt
    <3> QED BY <3>2, <3>3
  <2>5. MasksOf(t)
    BY DEF MaskInv
  <2>6. MaskAt(t, 0)' = user'[t]
    BY <1>1, <2>4, <2>5 DEF MasksOf
  <2>7. ASSUME NEW i \in DOMAIN stack'[t]
        PROVE  /\ MaskFits(stack'[t][i], MaskAt(t, i)')
               /\ stack'[t][i].pc = "block" /\ i < Len(stack'[t]) => MaskAt(t, i)' = "open"
    <3>1. CASE i = n
      BY <1>1, <2>1, <3>1 DEF Replaced
    <3>2. CASE i # n
      <4>1. i \in 0..(n - 1) /\ i \in DOMAIN stack[t] /\ stack'[t][i] = stack[t][i]
        BY <1>1, <2>7, <3>2 DEF Replaced
      <4> QED BY <2>4, <2>5, <4>1 DEF MasksOf, Replaced
    <3> QED BY <3>1, <3>2
  <2> QED BY <2>6, <2>7 DEF MasksOf, MaskFits
<1> QED BY <1>2, <1>3 DEF MaskInv

\* pseudo_saved_sigmask.
LEMMA ReplaceSaved ==
    ASSUME TypeOK, SavedInv, NEW t \in Threads, InCall(t), NEW g \in Frame,
           Replaced(t, g), savedMask' = savedMask,
           g.kind \in {"exec", "spawn"} /\ g.pc \in {"guts", "op", "env"} =>
              /\ Top(t).kind \in {"exec", "spawn"} /\ Top(t).pc \in {"guts", "op", "env"}
              /\ g.saved = Top(t).saved
    PROVE  SavedInv'
<1>1. Len(stack[t]) \in DOMAIN stack[t] /\ Top(t) = stack[t][Len(stack[t])]
  BY StackFacts
<1>2. ASSUME NEW u \in Threads \ {t}, NEW i \in DOMAIN stack'[u],
             stack'[u][i].kind \in {"exec", "spawn"}, stack'[u][i].pc \in {"guts", "op", "env"}
      PROVE  savedMask' = stack'[u][i].saved
  BY <1>2 DEF Replaced, SavedInv
<1>3. ASSUME NEW i \in DOMAIN stack'[t],
             stack'[t][i].kind \in {"exec", "spawn"}, stack'[t][i].pc \in {"guts", "op", "env"}
      PROVE  savedMask' = stack'[t][i].saved
  BY <1>1, <1>3 DEF Replaced, SavedInv
<1> QED BY <1>2, <1>3 DEF SavedInv

\* The lock: a frame that does not touch it.
Outsteps == {"count", "claim", "clear", "unlock", "again"}

LEMMA ReplaceLock ==
    ASSUME TypeOK, LockInv, Levels, NEW t \in Threads, InCall(t), NEW g \in Frame,
           Replaced(t, g), UNCHANGED lockVars, g.level = Top(t).level,
           g.pc \in HeldSteps <=> Top(t).pc \in HeldSteps,
           g.pc \notin Outsteps, Top(t).pc \notin Outsteps
    PROVE  LockInv' /\ Levels'
<1> DEFINE n == Len(stack[t])
<1>1. n \in DOMAIN stack[t] /\ Top(t) = stack[t][n]
  BY StackFacts
<1> USE DEF lockVars
<1>2. \A u \in Threads : Held(u)' = Held(u)
  <2>1. ASSUME NEW u \in Threads \ {t} PROVE Held(u)' = Held(u)
    BY <2>1 DEF Replaced, Held
  <2>2. Held(t)' = Held(t)
    BY <1>1 DEF Replaced, Held
  <2> QED BY <2>1, <2>2
<1>3. \A u \in Threads : \A i \in DOMAIN stack[u] : stack'[u][i].level = stack[u][i].level
  BY <1>1 DEF Replaced
<1>4. \A u \in Threads : Held(u) \subseteq DOMAIN stack[u]
  BY DEF Held
<1>5. Levels'
  BY <1>2, <1>3, <1>4 DEF Levels, LevelsOf
<1>6. ASSUME NEW u \in Threads, NEW i \in DOMAIN stack'[u]
      PROVE  LockFits(u, stack'[u][i])
  <2>1. CASE u = t /\ i = n
    BY <1>1, <2>1 DEF Replaced, LockInv, LockFits, Outsteps
  <2>2. CASE ~(u = t /\ i = n)
    <3>1. stack'[u][i] = stack[u][i] /\ i \in DOMAIN stack[u]
      BY <1>6, <2>2 DEF Replaced
    <3> QED BY <3>1 DEF LockInv
  <2> QED BY <2>1, <2>2
<1>7. \A u \in Threads : \A p \in {"count", "claim", "clear", "unlock"} : At(u, p) => At(u, p)'
  <2>1. ASSUME NEW u \in Threads \ {t} PROVE \A p : At(u, p)' = At(u, p)
    BY <2>1 DEF Replaced, At, InCall, Top
  <2>2. ASSUME NEW p \in {"count", "claim", "clear", "unlock"} PROVE ~At(t, p)
    BY <2>2 DEF At, Outsteps
  <2> QED BY <2>1, <2>2
<1>8. mutex \in Threads \cup {NoThread} /\ holder \in Threads \cup {NoThread}
  BY DEF TypeOK
<1>9. holder # NoThread => mutex = holder /\ (Held(holder)' # {} \/ At(holder, "clear")')
  BY <1>2, <1>7, <1>8 DEF LockInv
<1>10. mutex # NoThread /\ holder = NoThread =>
          At(mutex, "count")' \/ At(mutex, "claim")' \/ At(mutex, "unlock")'
  BY <1>7, <1>8 DEF LockInv
<1> QED BY <1>5, <1>6, <1>9, <1>10 DEF LockInv, LockFits

\* antimagic.
LEMMA ReplaceMagic ==
    ASSUME TypeOK, MagicInv, NEW t \in Threads, InCall(t), NEW g \in Frame,
           Replaced(t, g), g.pc = "op" <=> Top(t).pc = "op", antimagic' = antimagic
    PROVE  MagicInv'
<1>1. Len(stack[t]) \in DOMAIN stack[t] /\ Top(t) = stack[t][Len(stack[t])]
  BY StackFacts
<1>2. \A u \in Threads : /\ DOMAIN stack'[u] = DOMAIN stack[u]
                         /\ \A i \in DOMAIN stack[u] :
                               stack'[u][i].pc = "op" <=> stack[u][i].pc = "op"
  BY <1>1 DEF Replaced
<1> QED BY <1>2 DEF MagicInv, InOp

\* All that does not concern the lock, for a step that leaves antimagic and
\* pseudo_saved_sigmask alone.
LEMMA ReplaceRest ==
    ASSUME IInv, NEW t \in Threads, InCall(t), NEW g \in Frame, Become(t, g), FrameOK(g),
           g.kind = Top(t).kind, g.library = Top(t).library,
           g.pc # "block", g.saved = IF Top(t).pc = "block" THEN mask[t] ELSE Top(t).saved,
           g.pc = "op" <=> Top(t).pc = "op",
           g.kind \in {"exec", "spawn"} /\ g.pc \in {"guts", "op", "env"} =>
              Top(t).pc \in {"guts", "op", "env"},
           mask' \in [Threads -> Masks], \A u \in Threads \ {t} : mask'[u] = mask[u],
           MaskFits(g, mask'[t]),
           mutex' \in Threads \cup {NoThread}, holder' \in Threads \cup {NoThread},
           recursion' \in Int,
           UNCHANGED << antimagic, user, savedMask, calls >>
    PROVE  /\ Replaced(t, g)
           /\ TypeOK' /\ Shape' /\ OneThread' /\ MaskInv' /\ SavedInv' /\ MagicInv'
<1> USE DEF IInv
<1>1. Replaced(t, g)
  BY BecomeStep
<1>2. TypeOK'
  BY <1>1 DEF TypeOK, Replaced
<1>3. Shape' /\ OneThread'
  BY <1>1, ReplaceShape
<1>4. MaskInv'
  BY <1>1, ReplaceMask
<1>5. SavedInv'
  BY <1>1, ReplaceSaved
<1>6. MagicInv'
  BY <1>1, ReplaceMagic
<1> QED BY <1>1, <1>2, <1>3, <1>4, <1>5, <1>6

\* A step that does not concern the lock, antimagic or pseudo_saved_sigmask.
LEMMA QuietStep ==
    ASSUME IInv, NEW t \in Threads, InCall(t), NEW g \in Frame, Become(t, g), FrameOK(g),
           g.kind = Top(t).kind, g.library = Top(t).library, g.level = Top(t).level,
           g.pc # "block", g.saved = IF Top(t).pc = "block" THEN mask[t] ELSE Top(t).saved,
           g.pc = "op" <=> Top(t).pc = "op",
           g.kind \in {"exec", "spawn"} /\ g.pc \in {"guts", "op", "env"} =>
              Top(t).pc \in {"guts", "op", "env"},
           g.pc \in HeldSteps <=> Top(t).pc \in HeldSteps,
           g.pc \notin Outsteps, Top(t).pc \notin Outsteps,
           mask' \in [Threads -> Masks], \A u \in Threads \ {t} : mask'[u] = mask[u],
           MaskFits(g, mask'[t]),
           UNCHANGED << lockVars, antimagic, user, savedMask, calls >>
    PROVE  IInv'
<1>1. /\ mutex' \in Threads \cup {NoThread} /\ holder' \in Threads \cup {NoThread}
      /\ recursion' \in Int
  BY DEF IInv, TypeOK, lockVars
<1>2. /\ Replaced(t, g)
      /\ TypeOK' /\ Shape' /\ OneThread' /\ MaskInv' /\ SavedInv' /\ MagicInv'
  BY <1>1, ReplaceRest
<1>3. LockInv' /\ Levels'
  BY <1>2, ReplaceLock DEF IInv
<1> QED BY <1>2, <1>3 DEF IInv

\* What the invariant says of the topmost frame.
LEMMA TopFacts ==
    ASSUME IInv, NEW t \in Threads, InCall(t)
    PROVE  /\ Top(t) \in Frame /\ FrameOK(Top(t)) /\ MaskFits(Top(t), mask[t])
           /\ Top(t).pc \in HeldSteps => mutex = t /\ holder = t /\ Top(t).level \in 1..recursion
           /\ mask[t] \in Masks /\ savedMask \in Masks
           /\ mask \in [Threads -> Masks]
<1> DEFINE n == Len(stack[t])
<1> USE DEF IInv
<1>1. n \in DOMAIN stack[t] /\ Top(t) = stack[t][n] /\ Top(t) \in Frame
  BY StackFacts
<1>2. FrameOK(Top(t))
  BY <1>1 DEF Shape, StackOK
<1>3. MaskAt(t, n) = mask[t]
  BY DEF MaskAt
<1>4. MaskFits(Top(t), mask[t])
  <2>1. MaskFits(stack[t][n], MaskAt(t, n))
    BY <1>1 DEF MaskInv, MasksOf
  <2> QED BY <1>1, <1>3, <2>1
<1>5. Top(t).pc \in HeldSteps => mutex = t /\ holder = t
  BY <1>1 DEF LockInv, LockFits
<1>6. Top(t).pc \in HeldSteps => Top(t).level \in 1..recursion
  BY <1>1 DEF Levels, LevelsOf, Held
<1> QED BY <1>1, <1>2, <1>4, <1>5, <1>6 DEF TypeOK
-----------------------------------------------------------------------------
(* The steps *)

\* pseudo_sigblock() saves the mask.
LEMMA SigblockInv ==
    ASSUME IInv, NEW t \in Threads, pseudo_sigblock(t)
    PROVE  IInv'
<1> DEFINE g == [Top(t) EXCEPT !.pc = "lock", !.saved = mask[t]]
<1>1. InCall(t) /\ Top(t).pc = "block" /\ Become(t, g)
  BY DEF pseudo_sigblock, At
<1>2. Top(t) \in Frame /\ FrameOK(Top(t)) /\ mask[t] \in Masks /\ mask \in [Threads -> Masks]
  BY <1>1, TopFacts
<1>3. /\ g \in Frame /\ g.pc = "lock" /\ g.saved = mask[t] /\ g.kind = Top(t).kind
      /\ g.library = Top(t).library /\ g.level = Top(t).level /\ g.ret = Top(t).ret
  BY <1>2 DEF Frame
<1> HIDE DEF g
<1>4. FrameOK(g)
  BY <1>1, <1>2, <1>3 DEF FrameOK
<1>5. /\ mask' \in [Threads -> Masks] /\ mask'[t] = "blocked"
      /\ \A u \in Threads \ {t} : mask'[u] = mask[u]
      /\ UNCHANGED << lockVars, antimagic, user, savedMask, calls >>
  BY <1>2 DEF pseudo_sigblock, Masks
<1>6. MaskFits(g, mask'[t])
  BY <1>3, <1>5 DEF MaskFits
<1> QED BY <1>1, <1>3, <1>4, <1>5, <1>6, QuietStep DEF HeldSteps, Outsteps

\* The real function has returned, or a walk, an exec*() that failed, or a
\* fork() in the parent: the lock is dropped next.
LEMMA DropNextInv ==
    ASSUME IInv, NEW t \in Threads, NEW next \in {"restore", "unmask"},
           InCall(t), Top(t).pc \in {"real", "ignored", "guts", "exec"},
           next = "unmask" => Top(t).kind = "fifo",
           Drop(t, next),
           UNCHANGED << lockVars, antimagic, mask, user, savedMask, calls >>
    PROVE  IInv'
<1> DEFINE g == [Top(t) EXCEPT !.pc = "drop", !.ret = next]
<1>1. Become(t, g)
  BY DEF Drop
<1>2. Top(t) \in Frame /\ FrameOK(Top(t)) /\ mask \in [Threads -> Masks] /\ MaskFits(Top(t), mask[t])
  BY TopFacts
<1>3. /\ g \in Frame /\ g.pc = "drop" /\ g.saved = Top(t).saved /\ g.kind = Top(t).kind
      /\ g.library = Top(t).library /\ g.level = Top(t).level /\ g.ret = next
  BY <1>2 DEF Frame
<1> HIDE DEF g
<1>4. FrameOK(g)
  BY <1>2, <1>3 DEF FrameOK
<1>5. MaskFits(g, mask'[t])
  BY <1>2, <1>3 DEF MaskFits, FrameOK
<1> QED BY <1>1, <1>2, <1>3, <1>4, <1>5, QuietStep DEF HeldSteps, Outsteps

\* open() of a FIFO without the lock.
LEMMA FifoInv ==
    ASSUME IInv, NEW t \in Threads, FifoUnmask(t) \/ FifoOther(t) \/ FifoRemask(t)
    PROVE  IInv'
<1>1. CASE FifoUnmask(t) \/ FifoOther(t)
  <2>1. PICK p \in {"wait", "remask"} :
            /\ InCall(t) /\ Top(t).pc \in {"unmask", "wait"} /\ Goto(t, p)
            /\ mask' = mask \/ mask' = [mask EXCEPT ![t] = savedMask]
            /\ UNCHANGED << lockVars, antimagic, user, savedMask, calls >>
    BY <1>1 DEF FifoUnmask, FifoOther, At
  <2> DEFINE g == [Top(t) EXCEPT !.pc = p]
  <2>2. /\ Top(t) \in Frame /\ FrameOK(Top(t)) /\ mask \in [Threads -> Masks]
        /\ savedMask \in Masks
    BY <2>1, TopFacts
  <2>3. /\ g \in Frame /\ g.pc = p /\ g.saved = Top(t).saved /\ g.kind = Top(t).kind
        /\ g.library = Top(t).library /\ g.level = Top(t).level /\ g.ret = Top(t).ret
    BY <2>2 DEF Frame
  <2>4. Become(t, g)
    BY <2>1 DEF Goto
  <2> HIDE DEF g
  <2>5. FrameOK(g) /\ MaskFits(g, mask'[t])
    BY <2>1, <2>2, <2>3 DEF FrameOK, MaskFits
  <2>6. mask' \in [Threads -> Masks] /\ \A u \in Threads \ {t} : mask'[u] = mask[u]
    BY <2>1, <2>2
  <2> QED BY <2>1, <2>3, <2>4, <2>5, <2>6, QuietStep DEF HeldSteps, Outsteps
<1>2. CASE FifoRemask(t)
  <2> DEFINE g == [Top(t) EXCEPT !.pc = "lock", !.ret = "opened"]
  <2>1. InCall(t) /\ Top(t).pc = "remask" /\ Become(t, g)
    BY <1>2 DEF FifoRemask, At
  <2>2. Top(t) \in Frame /\ FrameOK(Top(t)) /\ mask \in [Threads -> Masks]
    BY <2>1, TopFacts
  <2>3. /\ g \in Frame /\ g.pc = "lock" /\ g.saved = Top(t).saved /\ g.kind = Top(t).kind
        /\ g.library = Top(t).library /\ g.level = Top(t).level /\ g.ret = "opened"
    BY <2>2 DEF Frame
  <2> HIDE DEF g
  <2>4. /\ mask' \in [Threads -> Masks] /\ mask'[t] = "blocked"
        /\ \A u \in Threads \ {t} : mask'[u] = mask[u]
        /\ UNCHANGED << lockVars, antimagic, user, savedMask, calls >>
    BY <1>2, <2>2 DEF FifoRemask, Masks
  <2>5. FrameOK(g) /\ MaskFits(g, mask'[t])
    BY <2>1, <2>2, <2>3, <2>4 DEF FrameOK, MaskFits
  <2> QED BY <2>1, <2>3, <2>4, <2>5, QuietStep DEF HeldSteps, Outsteps
<1> QED BY <1>1, <1>2

\* exec*() restores the mask it was called with.
LEMMA ExecUnmaskInv ==
    ASSUME IInv, NEW t \in Threads, ExecUnmask(t)
    PROVE  IInv'
<1> DEFINE g == [Top(t) EXCEPT !.pc = "exec"]
<1>1. InCall(t) /\ Top(t).pc = "env" /\ Become(t, g)
  BY DEF ExecUnmask, At, Goto
<1>2. /\ Top(t) \in Frame /\ FrameOK(Top(t)) /\ mask \in [Threads -> Masks]
      /\ savedMask \in Masks
  BY <1>1, TopFacts
<1>3. /\ g \in Frame /\ g.pc = "exec" /\ g.saved = Top(t).saved /\ g.kind = Top(t).kind
      /\ g.library = Top(t).library /\ g.level = Top(t).level /\ g.ret = Top(t).ret
  BY <1>2 DEF Frame
<1> HIDE DEF g
<1>4. FrameOK(g)
  BY <1>1, <1>2, <1>3 DEF FrameOK
<1>5. /\ mask' \in [Threads -> Masks] /\ mask'[t] = savedMask
      /\ \A u \in Threads \ {t} : mask'[u] = mask[u]
      /\ UNCHANGED << lockVars, antimagic, user, savedMask, calls >>
  BY <1>2 DEF ExecUnmask
<1>6. savedMask = Top(t).saved
  <2>1. Top(t).kind \in {"exec", "spawn"}
    BY <1>1, <1>2 DEF FrameOK
  <2> QED BY <1>1, <2>1, StackFacts DEF IInv, SavedInv
<1>7. MaskFits(g, mask'[t])
  BY <1>3, <1>5, <1>6 DEF MaskFits
<1> QED BY <1>1, <1>3, <1>4, <1>5, <1>7, QuietStep DEF HeldSteps, Outsteps

\* A call of the program's that has the lock knows that no request is going on
\* but its own.
LEMMA NoOtherOp ==
    ASSUME IInv, NEW t \in Threads, InCall(t), Top(t).pc \in HeldSteps, ~Top(t).library,
           NEW u \in Threads, NEW i \in DOMAIN stack[u], stack[u][i].pc = "op"
    PROVE  u = t /\ i = Len(stack[t])
<1> USE DEF IInv
<1>1. holder = t
  BY TopFacts
<1>2. holder = u
  BY DEF LockInv, LockFits, HeldSteps
<1>3. /\ DOMAIN stack[t] = 1..Len(stack[t]) /\ Len(stack[t]) \in Nat
      /\ Top(t) = stack[t][Len(stack[t])]
  BY StackFacts
<1>4. ASSUME i # Len(stack[t]) PROVE FALSE
  <2>1. i \in DOMAIN stack[t] /\ i < Len(stack[t]) /\ i + 1 \in DOMAIN stack[t]
    BY <1>1, <1>2, <1>3, <1>4
  <2>2. stack[t][i + 1].library
    BY <1>1, <1>2, <2>1 DEF Shape, StackOK
  <2>3. i + 1 = Len(stack[t])
    BY <1>3, <2>1, <2>2 DEF Shape, StackOK
  <2> QED BY <1>3, <2>2, <2>3
<1> QED BY <1>1, <1>2, <1>4

\* A call of the library's own is made in a request.
LEMMA LibraryInOp ==
    ASSUME IInv, NEW t \in Threads, InCall(t), Top(t).library
    PROVE  antimagic = 1 /\ Top(t).kind = "plain" /\ holder = t
<1> DEFINE n == Len(stack[t])
<1> USE DEF IInv
<1>1. n \in DOMAIN stack[t] /\ Top(t) = stack[t][n] /\ DOMAIN stack[t] = 1..n
  BY StackFacts
<1>2. n > 1 /\ stack[t][n - 1].pc = "op" /\ Top(t).kind = "plain"
  BY <1>1 DEF Shape, StackOK, FrameOK
<1>3. n - 1 \in DOMAIN stack[t]
  BY <1>1, <1>2
<1>4. InOp
  BY <1>2, <1>3 DEF InOp
<1>5. holder = t
  BY <1>2, <1>3 DEF LockInv, LockFits, HeldSteps
<1> QED BY <1>2, <1>4, <1>5 DEF MagicInv

\* Looking at antimagic tells the program's calls from the library's.
LEMMA DecideInv ==
    ASSUME IInv, NEW t \in Threads, Decide(t)
    PROVE  IInv'
<1>1. PICK p \in {"real", "ignored", "guts"} :
          /\ InCall(t) /\ Top(t).pc = "decide" /\ Goto(t, p)
          /\ p = "real" <=> PassesThrough(t)
          /\ savedMask' = savedMask \/ savedMask' = Top(t).saved
          /\ p # "guts" => savedMask' = savedMask
          /\ p = "guts" /\ Top(t).kind \in {"exec", "spawn"} => savedMask' = Top(t).saved
          /\ UNCHANGED << lockVars, antimagic, mask, user, calls >>
  BY DEF Decide, At
<1> DEFINE g == [Top(t) EXCEPT !.pc = p]
<1>2. /\ Top(t) \in Frame /\ FrameOK(Top(t)) /\ mask \in [Threads -> Masks]
      /\ MaskFits(Top(t), mask[t]) /\ holder = t
  BY <1>1, TopFacts DEF HeldSteps
<1>3. /\ g \in Frame /\ g.pc = p /\ g.saved = Top(t).saved /\ g.kind = Top(t).kind
      /\ g.library = Top(t).library /\ g.level = Top(t).level /\ g.ret = Top(t).ret
  BY <1>2 DEF Frame
<1>4. Become(t, g)
  BY <1>1 DEF Goto
<1> HIDE DEF g
<1>5. Replaced(t, g)
  BY <1>1, <1>3, <1>4, BecomeStep DEF IInv
<1>6. CASE Top(t).library
  <2>1. p = "real"
    BY <1>1, <1>6, LibraryInOp DEF PassesThrough
  <2>2. FrameOK(g) /\ MaskFits(g, mask'[t])
    BY <1>1, <1>2, <1>3, <1>6, <2>1 DEF FrameOK, MaskFits
  <2> QED BY <1>1, <1>2, <1>3, <1>4, <2>1, <2>2, QuietStep DEF HeldSteps, Outsteps
<1>7. CASE ~Top(t).library
  <2>1. ~InOp
    BY <1>1, <1>7, NoOtherOp, StackFacts DEF InOp, HeldSteps, IInv
  <2>2. p # "real"
    BY <1>1, <2>1 DEF IInv, MagicInv, PassesThrough
  <2>3. FrameOK(g) /\ MaskFits(g, mask'[t])
    BY <1>1, <1>2, <1>3, <1>7, <2>2 DEF FrameOK, MaskFits
  <2>4. SavedInv'
    <3> SUFFICES ASSUME NEW u \in Threads, NEW i \in DOMAIN stack'[u],
                        stack'[u][i].kind \in {"exec", "spawn"}, stack'[u][i].pc \in {"guts", "op", "env"}
                 PROVE  savedMask' = stack'[u][i].saved
      BY DEF SavedInv
    <3>1. CASE u = t /\ i = Len(stack[t])
      BY <1>1, <1>3, <1>5, <2>2, <3>1 DEF Replaced
    <3>2. CASE u = t /\ i # Len(stack[t])
      <4>1. /\ i \in DOMAIN stack[t] /\ stack'[t][i] = stack[t][i]
            /\ DOMAIN stack[t] = 1..Len(stack[t]) /\ Len(stack[t]) \in Nat
        BY <1>5, <3>2, StackFacts DEF Replaced, IInv
      <4>2. i < Len(stack[t])
        BY <3>2, <4>1
      <4>3. stack[t][i].pc # "op"
        BY <1>1, <1>7, <3>2, <4>1, NoOtherOp DEF HeldSteps
      <4>4. Interruptible(stack[t][i])
        BY <4>1, <4>2 DEF IInv, Shape, StackOK
      <4> QED BY <3>2, <4>1, <4>3, <4>4 DEF Interruptible
    <3>3. CASE u # t
      <4>1. i \in DOMAIN stack[u] /\ stack[u][i].pc \in {"guts", "op", "env"}
        BY <1>5, <3>3 DEF Replaced
      <4>2. holder = u
        BY <4>1 DEF IInv, LockInv, LockFits, HeldSteps
      <4> QED BY <1>2, <3>3, <4>2
    <3> QED BY <3>1, <3>2, <3>3
  <2>5. TypeOK'
    BY <1>1, <1>2, <1>5 DEF IInv, TypeOK, Replaced, lockVars, Frame
  <2>6. Shape' /\ OneThread'
    BY <1>1, <1>3, <1>5, <2>3, ReplaceShape DEF IInv
  <2>7. MaskInv'
    BY <1>1, <1>3, <1>5, <2>2, <2>3, ReplaceMask DEF IInv
  <2>8. MagicInv'
    BY <1>1, <1>3, <1>5, ReplaceMagic DEF IInv
  <2>9. LockInv' /\ Levels'
    BY <1>1, <1>3, <1>5, ReplaceLock DEF IInv, HeldSteps, Outsteps
  <2> QED BY <2>4, <2>5, <2>6, <2>7, <2>8, <2>9 DEF IInv
<1> QED BY <1>6, <1>7

\* Into pseudo_client_op() and out of it.
LEMMA OpInv ==
    ASSUME IInv, NEW t \in Threads, pseudo_antimagic(t) \/ pseudo_magic(t)
    PROVE  IInv'
<1> DEFINE n == Len(stack[t])
<1>1. PICK g \in Frame :
          /\ InCall(t) /\ Become(t, g)
          /\ g.kind = Top(t).kind /\ g.library = Top(t).library /\ g.level = Top(t).level
          /\ g.saved = Top(t).saved /\ g.pc \in {"op", "env", "drop"}
          /\ g.pc = "env" => g.kind \in {"exec", "spawn"}
          /\ g.pc = "drop" => g.ret \in {"restore", "again"} /\ (g.ret = "again" => g.kind = "child")
          /\ g.pc = "op" => Top(t).pc \in {"guts", "opened"} /\ antimagic' = antimagic + 1
          /\ g.pc # "op" => Top(t).pc = "op"
                         /\ antimagic' = IF antimagic > 0 THEN antimagic - 1 ELSE antimagic
          /\ UNCHANGED << lockVars, mask, user, savedMask, calls >>
  <2>1. CASE pseudo_antimagic(t)
    <3> DEFINE g == [Top(t) EXCEPT !.pc = "op"]
    <3>1. InCall(t) /\ Top(t).pc \in {"guts", "opened"} /\ Become(t, g)
      BY <2>1 DEF pseudo_antimagic, At, Goto
    <3>2. Top(t) \in Frame
      BY <3>1, TopFacts
    <3>3. /\ g \in Frame /\ g.pc = "op" /\ g.saved = Top(t).saved /\ g.kind = Top(t).kind
          /\ g.library = Top(t).library /\ g.level = Top(t).level
      BY <3>2 DEF Frame
    <3> HIDE DEF g
    <3> QED BY <2>1, <3>1, <3>3 DEF pseudo_antimagic
  <2>2. CASE pseudo_magic(t)
    <3>1. InCall(t) /\ Top(t).pc = "op" /\ AfterOp(t)
      BY <2>2 DEF pseudo_magic, At
    <3>2. Top(t) \in Frame
      BY <3>1, TopFacts
    <3>3. CASE Top(t).kind \in {"exec", "spawn"}
      <4> DEFINE g == [Top(t) EXCEPT !.pc = "env"]
      <4>1. Become(t, g)
        BY <3>1, <3>3 DEF AfterOp, Goto
      <4>2. /\ g \in Frame /\ g.pc = "env" /\ g.saved = Top(t).saved /\ g.kind = Top(t).kind
            /\ g.library = Top(t).library /\ g.level = Top(t).level
        BY <3>2 DEF Frame
      <4> HIDE DEF g
      <4> QED BY <2>2, <3>1, <3>3, <4>1, <4>2 DEF pseudo_magic
    <3>4. CASE Top(t).kind \notin {"exec", "spawn"}
      <4> DEFINE r == IF Top(t).kind = "child" THEN "again" ELSE "restore"
                 g == [Top(t) EXCEPT !.pc = "drop", !.ret = r]
      <4>1. Become(t, g)
        BY <3>1, <3>4 DEF AfterOp, Drop
      <4>2. /\ g \in Frame /\ g.pc = "drop" /\ g.saved = Top(t).saved /\ g.kind = Top(t).kind
            /\ g.library = Top(t).library /\ g.level = Top(t).level /\ g.ret = r
        BY <3>2 DEF Frame
      <4>3. r \in {"again", "restore"} /\ (r = "again" => Top(t).kind = "child")
        OBVIOUS
      <4> HIDE DEF g, r
      <4> QED BY <2>2, <3>1, <4>1, <4>2, <4>3 DEF pseudo_magic
    <3> QED BY <3>3, <3>4
  <2> QED BY <2>1, <2>2
<1>2. /\ Top(t) \in Frame /\ FrameOK(Top(t)) /\ mask \in [Threads -> Masks]
      /\ MaskFits(Top(t), mask[t]) /\ Top(t).pc \in {"guts", "opened", "op"}
  BY <1>1, TopFacts
<1>3. Replaced(t, g)
  BY <1>1, BecomeStep DEF IInv
<1>4. n \in DOMAIN stack[t] /\ Top(t) = stack[t][n]
  BY <1>1, StackFacts DEF IInv
<1>5. ~Top(t).library
  BY <1>2 DEF FrameOK
<1>6. \A u \in Threads : \A i \in DOMAIN stack[u] : stack[u][i].pc = "op" => u = t /\ i = n
  BY <1>1, <1>2, <1>5, NoOtherOp DEF HeldSteps
<1>7. MagicInv' /\ antimagic' \in Nat
  <2>1. CASE g.pc = "op"
    <3>1. ~InOp
      BY <1>1, <1>4, <1>6, <2>1 DEF InOp
    <3>2. InOp'
      BY <1>3, <1>4, <2>1 DEF InOp, Replaced
    <3> QED BY <1>1, <2>1, <3>1, <3>2 DEF IInv, MagicInv
  <2>2. CASE g.pc # "op"
    <3>1. InOp
      BY <1>1, <1>4, <2>2 DEF InOp
    <3>2. ~InOp'
      <4> SUFFICES ASSUME NEW u \in Threads, NEW i \in DOMAIN stack'[u], stack'[u][i].pc = "op"
                   PROVE  FALSE
        BY DEF InOp
      <4> QED BY <1>3, <1>6, <2>2 DEF Replaced
    <3> QED BY <1>1, <2>2, <3>1, <3>2 DEF IInv, MagicInv
  <2> QED BY <2>1, <2>2
<1>8. FrameOK(g) /\ MaskFits(g, mask'[t])
  BY <1>1, <1>2, <1>5 DEF FrameOK, MaskFits
<1>9. TypeOK'
  BY <1>1, <1>3, <1>7 DEF IInv, TypeOK, Replaced, lockVars
<1>10. Shape' /\ OneThread'
  BY <1>1, <1>3, <1>8, ReplaceShape DEF IInv
<1>11. MaskInv'
  BY <1>1, <1>2, <1>3, <1>8, ReplaceMask DEF IInv
<1>12. LockInv' /\ Levels'
  BY <1>1, <1>2, <1>3, ReplaceLock DEF IInv, HeldSteps, Outsteps
<1>13. SavedInv'
  <2>1. g.kind \in {"exec", "spawn"} /\ g.pc \in {"guts", "op", "env"} => Top(t).pc \in {"guts", "op", "env"}
    BY <1>1, <1>2 DEF FrameOK
  <2> QED BY <1>1, <1>3, <2>1, ReplaceSaved DEF IInv
<1> QED BY <1>7, <1>9, <1>10, <1>11, <1>12, <1>13 DEF IInv
-----------------------------------------------------------------------------
(* The lock *)

\* The steps around the lock are not interrupted.
LEMMA OutstepsOnTop ==
    ASSUME IInv, NEW u \in Threads, NEW i \in DOMAIN stack[u], stack[u][i].pc \in Outsteps
    PROVE  i = Len(stack[u])
<1> USE DEF IInv
<1>1. DOMAIN stack[u] = 1..Len(stack[u]) /\ Len(stack[u]) \in Nat
  BY StackFacts
<1> QED BY <1>1 DEF Shape, StackOK, Interruptible, Outsteps

\* A thread that drops the lock in a child of fork() is alone.
LEMMA AgainAlone ==
    ASSUME IInv, NEW t \in Threads, InCall(t),
           NEW u \in Threads, NEW i \in DOMAIN stack[u], stack[u][i].pc = "again"
    PROVE  u = t /\ i = Len(stack[t])
<1> USE DEF IInv
<1>1. DOMAIN stack[u] = 1..Len(stack[u]) /\ Len(stack[u]) \in Nat /\ stack[u] # << >>
  BY StackFacts DEF InCall
<1>2. stack[u][i].kind = "child" /\ i = 1
  BY DEF Shape, StackOK, FrameOK
<1>3. Forking(u)
  BY <1>1, <1>2 DEF Forking, InCall
<1>4. i = Len(stack[u])
  BY OutstepsOnTop DEF Outsteps
<1> QED BY <1>3, <1>4 DEF OneThread

\* Who is not the holder holds nothing.
LEMMA HolderOnly ==
    ASSUME IInv, NEW u \in Threads, holder # u
    PROVE  Held(u) = {}
BY DEF IInv, LockInv, LockFits, Held

\* The frames that hold the lock after the topmost one of t has changed.
LEMMA HeldReplaced ==
    ASSUME TypeOK, NEW t \in Threads, InCall(t), NEW g, Replaced(t, g)
    PROVE  /\ \A u \in Threads \ {t} : Held(u)' = Held(u)
           /\ g.pc \in HeldSteps => Held(t)' = Held(t) \cup {Len(stack[t])}
           /\ g.pc \notin HeldSteps => Held(t)' = Held(t) \ {Len(stack[t])}
           /\ \A p : At(t, p)' <=> g.pc = p
           /\ \A u \in Threads : \A i \in DOMAIN stack'[u] :
                 u # t \/ i # Len(stack[t]) => i \in DOMAIN stack[u] /\ stack'[u][i] = stack[u][i]
<1>1. /\ Len(stack[t]) \in DOMAIN stack[t] /\ DOMAIN stack[t] = 1..Len(stack[t])
      /\ Len(stack[t]) \in Nat /\ Len(stack[t]) > 0
  BY StackFacts
<1>2. \A u \in Threads \ {t} : Held(u)' = Held(u)
  BY DEF Replaced, Held
<1>3. /\ g.pc \in HeldSteps => Held(t)' = Held(t) \cup {Len(stack[t])}
      /\ g.pc \notin HeldSteps => Held(t)' = Held(t) \ {Len(stack[t])}
  BY <1>1 DEF Replaced, Held
<1>4. stack'[t] # << >> /\ Top(t)' = g
  BY <1>1 DEF Replaced, Top
<1>5. \A p : At(t, p)' <=> g.pc = p
  BY <1>4 DEF At, InCall
<1> QED BY <1>2, <1>3, <1>5 DEF Replaced

\* The frames below the topmost one that holds the lock.
LEMMA TopLevel ==
    ASSUME IInv, NEW t \in Threads, InCall(t), Top(t).pc \in HeldSteps
    PROVE  /\ Len(stack[t]) \in Held(t) /\ Top(t).level = recursion
           /\ recursion \in Nat /\ recursion > 0
           /\ \A i \in Held(t) \ {Len(stack[t])} : stack[t][i].level \in 1..(recursion - 1)
           /\ \A l \in 1..(recursion - 1) : \E i \in Held(t) \ {Len(stack[t])} : stack[t][i].level = l
           /\ \A i, j \in Held(t) : i < j => stack[t][i].level < stack[t][j].level
<1> DEFINE n == Len(stack[t])
<1> USE DEF IInv
<1>1. /\ n \in DOMAIN stack[t] /\ DOMAIN stack[t] = 1..n /\ n \in Nat /\ Top(t) = stack[t][n]
      /\ Held(t) \subseteq 1..n /\ n \in Held(t)
  BY StackFacts DEF Held
<1>2. holder = t /\ recursion \in Int
  BY TopFacts DEF TypeOK
<1>3. /\ \A i \in Held(t) : stack[t][i].level \in 1..recursion
      /\ \A i, j \in Held(t) : i < j => stack[t][i].level < stack[t][j].level
      /\ \A l \in 1..recursion : \E i \in Held(t) : stack[t][i].level = l
  BY <1>2 DEF Levels, LevelsOf
<1>4. recursion > 0 /\ recursion \in 1..recursion
  BY <1>1, <1>2, <1>3
<1>5. PICK i \in Held(t) : stack[t][i].level = recursion
  BY <1>3, <1>4
<1>6. i = n
  BY <1>1, <1>2, <1>3, <1>5
<1>7. ASSUME NEW j \in Held(t) \ {n}
      PROVE  stack[t][j].level \in 1..(recursion - 1)
  <2>1. j < n
    BY <1>1, <1>7
  <2>2. stack[t][j].level < stack[t][n].level
    BY <1>1, <1>3, <2>1
  <2> QED BY <1>2, <1>3, <1>5, <1>6, <2>2
<1>8. ASSUME NEW l \in 1..(recursion - 1)
      PROVE  \E j \in Held(t) \ {n} : stack[t][j].level = l
  BY <1>2, <1>3, <1>5, <1>6
<1>9. recursion \in Nat /\ Top(t).level = recursion
  BY <1>1, <1>2, <1>4, <1>5, <1>6
<1>10. \A j \in Held(t) \ {n} : stack[t][j].level \in 1..(recursion - 1)
  BY <1>7
<1>11. \A l \in 1..(recursion - 1) : \E j \in Held(t) \ {n} : stack[t][j].level = l
  BY <1>8
<1> QED BY <1>1, <1>3, <1>4, <1>9, <1>10, <1>11, Zenon

\* pseudo_getlock() in a thread that has the lock.
LEMMA LockAgainInv ==
    ASSUME IInv, NEW t \in Threads, LockAgain(t)
    PROVE  IInv'
<1> DEFINE n == Len(stack[t])
           g == [Top(t) EXCEPT !.pc = Top(t).ret, !.level = recursion + 1]
<1>1. /\ InCall(t) /\ Top(t).pc = "lock" /\ Become(t, g) /\ holder = t
      /\ recursion' = recursion + 1
      /\ UNCHANGED << mutex, holder, antimagic, mask, user, savedMask, calls >>
  BY DEF LockAgain, At
<1>2. /\ Top(t) \in Frame /\ FrameOK(Top(t)) /\ mask \in [Threads -> Masks]
      /\ MaskFits(Top(t), mask[t])
  BY <1>1, TopFacts
<1>3. n \in DOMAIN stack[t] /\ Top(t) = stack[t][n] /\ DOMAIN stack[t] = 1..n /\ n \in Nat
  BY <1>1, StackFacts DEF IInv
<1>4. mutex = t /\ Held(t) # {}
  <2>1. holder # NoThread
    BY <1>1, LockAssumption
  <2> QED BY <1>1, <2>1 DEF IInv, LockInv, At
<1>5. recursion \in Nat /\ recursion > 0 /\ Held(t) \subseteq 1..n
  <2>1. recursion \in Int /\ \A i \in Held(t) : stack[t][i].level \in 1..recursion
    BY DEF IInv, TypeOK, Levels, LevelsOf
  <2> QED BY <1>3, <1>4, <2>1 DEF Held
<1>6. Top(t).ret \in {"decide", "opened"}
  BY <1>1, <1>2 DEF FrameOK
<1>7. /\ g \in Frame /\ g.pc = Top(t).ret /\ g.saved = Top(t).saved /\ g.kind = Top(t).kind
      /\ g.library = Top(t).library /\ g.level = recursion + 1 /\ g.ret = Top(t).ret
  <2>1. recursion + 1 \in Nat
    BY <1>5
  <2>2. CASE Top(t).ret = "decide"
    BY <1>2, <2>1, <2>2 DEF Frame
  <2>3. CASE Top(t).ret = "opened"
    BY <1>2, <2>1, <2>3 DEF Frame
  <2> QED BY <1>6, <2>2, <2>3
<1> HIDE DEF g
<1>8. FrameOK(g) /\ MaskFits(g, mask'[t])
  BY <1>1, <1>2, <1>6, <1>7 DEF FrameOK, MaskFits
<1>9. /\ mutex' \in Threads \cup {NoThread} /\ holder' \in Threads \cup {NoThread}
      /\ recursion' \in Int
  BY <1>1, <1>5 DEF IInv, TypeOK
<1>10. /\ Replaced(t, g)
       /\ TypeOK' /\ Shape' /\ OneThread' /\ MaskInv' /\ SavedInv' /\ MagicInv'
  BY <1>1, <1>2, <1>6, <1>7, <1>8, <1>9, ReplaceRest
<1>11. ASSUME NEW u \in Threads, NEW i \in DOMAIN stack'[u]
       PROVE  LockFits(u, stack[u][i])'
  <2>1. CASE u = t /\ i = n
    BY <1>1, <1>4, <1>6, <1>7, <1>10, <2>1 DEF Replaced, LockFits, HeldSteps
  <2>2. CASE u # t \/ i # n
    <3>1. i \in DOMAIN stack[u] /\ stack'[u][i] = stack[u][i]
      BY <1>1, <1>10, <2>2, HeldReplaced DEF IInv
    <3>2. LockFits(u, stack[u][i])
      BY <3>1 DEF IInv, LockInv
    <3>3. stack[u][i].pc \notin Outsteps
      <4>1. ASSUME stack[u][i].pc = "clear" PROVE FALSE
        BY <1>1, <2>2, <3>1, <3>2, <4>1, OutstepsOnTop DEF LockFits, Outsteps
      <4>2. holder # NoThread
        BY <1>1, LockAssumption
      <4> QED BY <3>2, <4>1, <4>2 DEF LockFits, Outsteps
    <3> QED BY <1>1, <3>1, <3>2, <3>3 DEF LockFits, Outsteps
  <2> QED BY <2>1, <2>2
<1>12. Held(t)' = Held(t) \cup {n} /\ \A u \in Threads \ {t} : Held(u)' = {}
  BY <1>1, <1>6, <1>7, <1>10, HeldReplaced, HolderOnly DEF HeldSteps, IInv
<1>13. n \notin Held(t)
  BY <1>1, <1>3 DEF Held, HeldSteps
<1>14. /\ stack'[t][n].level = recursion + 1
       /\ \A i \in Held(t) : stack'[t][i].level = stack[t][i].level
  BY <1>3, <1>5, <1>7, <1>10, <1>13 DEF Replaced
<1>15. LevelsOf(t)
  BY DEF IInv, Levels
<1>16. LevelsOf(t)'
  <2>1. ASSUME NEW i \in Held(t)' PROVE stack'[t][i].level \in 1..recursion'
    BY <1>1, <1>5, <1>12, <1>14, <1>15, <2>1 DEF LevelsOf
  <2>2. ASSUME NEW i \in Held(t)', NEW j \in Held(t)', i < j
        PROVE  stack'[t][i].level < stack'[t][j].level
    <3>1. i \in Held(t)
      BY <1>3, <1>5, <1>12, <2>2
    <3>2. stack[t][i].level \in 1..recursion
      BY <1>15, <3>1 DEF LevelsOf
    <3> QED BY <1>5, <1>12, <1>14, <1>15, <2>2, <3>1, <3>2 DEF LevelsOf
  <2>3. ASSUME NEW l \in 1..recursion' PROVE \E i \in Held(t)' : stack'[t][i].level = l
    <3>1. CASE l = recursion + 1
      BY <1>12, <1>14, <3>1
    <3>2. CASE l # recursion + 1
      <4>1. l \in 1..recursion
        BY <1>1, <1>5, <2>3, <3>2
      <4> QED BY <1>1, <1>12, <1>14, <1>15, <4>1 DEF LevelsOf
    <3> QED BY <3>1, <3>2
  <2> QED BY <2>1, <2>2, <2>3 DEF LevelsOf
<1>17. Levels'
  BY <1>1, <1>12, <1>16 DEF Levels, LevelsOf
<1>18. LockInv'
  BY <1>1, <1>4, <1>11, <1>12, LockAssumption DEF LockInv
<1> QED BY <1>10, <1>17, <1>18 DEF IInv

\* What the steps of pseudo_getlock() and pseudo_droplock() leave alone.
LEMMA AtLockRest ==
    ASSUME IInv, NEW t \in Threads, InCall(t),
           Top(t).pc \in {"lock", "count", "claim", "drop", "clear", "unlock", "again"},
           NEW g \in Frame, Become(t, g), FrameOK(g),
           g.pc \in {"count", "claim", "decide", "opened", "clear", "unlock",
                     "restore", "unmask", "again"},
           g.kind = Top(t).kind, g.library = Top(t).library, g.saved = Top(t).saved,
           g.pc \in {"count", "claim", "decide", "opened"} =>
              Top(t).pc \in {"lock", "count", "claim"},
           mutex' \in Threads \cup {NoThread}, holder' \in Threads \cup {NoThread},
           recursion' \in Int,
           UNCHANGED << antimagic, mask, user, savedMask, calls >>
    PROVE  /\ Replaced(t, g)
           /\ TypeOK' /\ Shape' /\ OneThread' /\ MaskInv' /\ SavedInv' /\ MagicInv'
<1>1. Top(t) \in Frame /\ MaskFits(Top(t), mask[t]) /\ mask \in [Threads -> Masks]
  BY TopFacts
<1>2. MaskFits(g, mask'[t])
  BY <1>1 DEF MaskFits, FrameOK
<1> QED BY <1>1, <1>2, ReplaceRest

\* pthread_mutex_lock() and the two stores after it.
LEMMA MutexLockInv ==
    ASSUME IInv, NEW t \in Threads, pthread_mutex_lock(t)
    PROVE  IInv'
<1> DEFINE n == Len(stack[t])
           g == [Top(t) EXCEPT !.pc = "count"]
<1>1. /\ InCall(t) /\ Top(t).pc = "lock" /\ mutex = NoThread /\ mutex' = t
      /\ UNCHANGED << holder, recursion, antimagic, mask, user, savedMask, calls >>
      /\ Become(t, g)
  BY DEF pthread_mutex_lock, At, Goto
<1>2. Top(t) \in Frame /\ FrameOK(Top(t))
  BY <1>1, TopFacts
<1>3. /\ g \in Frame /\ g.pc = "count" /\ g.saved = Top(t).saved /\ g.kind = Top(t).kind
      /\ g.library = Top(t).library /\ g.level = Top(t).level /\ g.ret = Top(t).ret
  BY <1>2 DEF Frame
<1> HIDE DEF g
<1>4. FrameOK(g)
  BY <1>1, <1>2, <1>3 DEF FrameOK
<1>6. mutex' \in Threads \cup {NoThread} /\ holder' \in Threads \cup {NoThread} /\ recursion' \in Int
  BY <1>1 DEF IInv, TypeOK
<1>8. /\ Replaced(t, g)
      /\ TypeOK' /\ Shape' /\ OneThread' /\ MaskInv' /\ SavedInv' /\ MagicInv'
  BY <1>1, <1>3, <1>4, <1>6, AtLockRest
<1>9. holder = NoThread
  BY <1>1, LockAssumption DEF IInv, LockInv, TypeOK
<1>10. \A u \in Threads : Held(u) = {} /\ holder # u
  BY <1>9, HolderOnly, LockAssumption
<1>11. \A u \in Threads : Held(u)' = {}
  BY <1>1, <1>3, <1>8, <1>10, HeldReplaced DEF IInv, HeldSteps
<1>12. ASSUME NEW u \in Threads, NEW i \in DOMAIN stack'[u]
       PROVE  LockFits(u, stack[u][i])'
  <2>1. CASE u = t /\ i = n
    BY <1>1, <1>3, <1>8, <1>9, <2>1 DEF Replaced, LockFits, HeldSteps
  <2>2. CASE u # t \/ i # n
    <3>1. i \in DOMAIN stack[u] /\ stack'[u][i] = stack[u][i]
      BY <1>1, <1>8, <2>2, HeldReplaced DEF IInv
    <3>2. LockFits(u, stack[u][i])
      BY <3>1 DEF IInv, LockInv
    <3>3. stack[u][i].pc # "again"
      BY <1>1, <2>2, <3>1, AgainAlone
    <3> QED BY <1>1, <3>1, <3>2, <3>3, LockAssumption DEF LockFits
  <2> QED BY <2>1, <2>2
<1>13. Levels'
  BY <1>1, <1>10, <1>11 DEF Levels, LevelsOf
<1>14. At(t, "count")'
  BY <1>1, <1>3, <1>8, HeldReplaced DEF IInv
<1>15. LockInv'
  BY <1>1, <1>9, <1>12, <1>14 DEF LockInv
<1> QED BY <1>8, <1>13, <1>15 DEF IInv

LEMMA LockFirstInv ==
    ASSUME IInv, NEW t \in Threads, LockFirst(t)
    PROVE  IInv'
<1> DEFINE n == Len(stack[t])
           g == [Top(t) EXCEPT !.pc = "claim", !.level = 1]
<1>1. /\ InCall(t) /\ Top(t).pc = "count" /\ recursion' = 1
      /\ UNCHANGED << mutex, holder, antimagic, mask, user, savedMask, calls >>
      /\ Become(t, g)
  BY DEF LockFirst, At
<1>2. Top(t) \in Frame /\ FrameOK(Top(t)) /\ LockFits(t, Top(t))
  BY <1>1, TopFacts, StackFacts DEF IInv, LockInv
<1>3. /\ g \in Frame /\ g.pc = "claim" /\ g.saved = Top(t).saved /\ g.kind = Top(t).kind
      /\ g.library = Top(t).library /\ g.level = 1 /\ g.ret = Top(t).ret
  BY <1>2 DEF Frame
<1> HIDE DEF g
<1>4. FrameOK(g)
  BY <1>1, <1>2, <1>3 DEF FrameOK
<1>6. mutex' \in Threads \cup {NoThread} /\ holder' \in Threads \cup {NoThread} /\ recursion' \in Int
  BY <1>1 DEF IInv, TypeOK
<1>8. /\ Replaced(t, g)
      /\ TypeOK' /\ Shape' /\ OneThread' /\ MaskInv' /\ SavedInv' /\ MagicInv'
  BY <1>1, <1>3, <1>4, <1>6, AtLockRest
<1>9. mutex = t /\ holder = NoThread
  BY <1>1, <1>2 DEF LockFits
<1>10. \A u \in Threads : Held(u) = {} /\ holder # u
  BY <1>9, HolderOnly, LockAssumption
<1>11. \A u \in Threads : Held(u)' = {}
  BY <1>1, <1>3, <1>8, <1>10, HeldReplaced DEF IInv, HeldSteps
<1>12. ASSUME NEW u \in Threads, NEW i \in DOMAIN stack'[u]
       PROVE  LockFits(u, stack[u][i])'
  <2>1. CASE u = t /\ i = n
    BY <1>1, <1>3, <1>8, <1>9, <2>1 DEF Replaced, LockFits, HeldSteps
  <2>2. CASE u # t \/ i # n
    <3>1. i \in DOMAIN stack[u] /\ stack'[u][i] = stack[u][i]
      BY <1>1, <1>8, <2>2, HeldReplaced DEF IInv
    <3>2. LockFits(u, stack[u][i])
      BY <3>1 DEF IInv, LockInv
    <3>3. stack[u][i].pc \in Outsteps => i = Len(stack[u])
      BY <3>1, OutstepsOnTop
    <3> QED BY <1>1, <1>9, <2>2, <3>1, <3>2, <3>3, LockAssumption DEF LockFits, Outsteps
  <2> QED BY <2>1, <2>2
<1>13. Levels'
  BY <1>1, <1>10, <1>11 DEF Levels, LevelsOf
<1>14. At(t, "claim")'
  BY <1>1, <1>3, <1>8, HeldReplaced DEF IInv
<1>15. LockInv'
  BY <1>1, <1>9, <1>12, <1>14 DEF LockInv
<1> QED BY <1>8, <1>13, <1>15 DEF IInv

LEMMA LockClaimInv ==
    ASSUME IInv, NEW t \in Threads, LockClaim(t)
    PROVE  IInv'
<1> DEFINE n == Len(stack[t])
           g == [Top(t) EXCEPT !.pc = Top(t).ret]
<1>1. /\ InCall(t) /\ Top(t).pc = "claim" /\ holder' = t
      /\ UNCHANGED << mutex, recursion, antimagic, mask, user, savedMask, calls >>
      /\ Become(t, g)
  BY DEF LockClaim, At, Goto
<1>2. Top(t) \in Frame /\ FrameOK(Top(t)) /\ LockFits(t, Top(t)) /\ n \in DOMAIN stack[t]
  BY <1>1, TopFacts, StackFacts DEF IInv, LockInv
<1>3. Top(t).ret \in {"decide", "opened"}
  BY <1>1, <1>2 DEF FrameOK
<1>4. /\ g \in Frame /\ g.pc = Top(t).ret /\ g.saved = Top(t).saved /\ g.kind = Top(t).kind
      /\ g.library = Top(t).library /\ g.level = 1 /\ g.ret = Top(t).ret
  <2>1. Top(t).level = 1
    BY <1>1, <1>2 DEF LockFits
  <2>2. CASE Top(t).ret = "decide"
    BY <1>2, <2>1, <2>2 DEF Frame
  <2>3. CASE Top(t).ret = "opened"
    BY <1>2, <2>1, <2>3 DEF Frame
  <2> QED BY <1>3, <2>2, <2>3
<1> HIDE DEF g
<1>5. FrameOK(g)
  BY <1>1, <1>2, <1>4, <1>3 DEF FrameOK
<1>6. mutex' \in Threads \cup {NoThread} /\ holder' \in Threads \cup {NoThread} /\ recursion' \in Int
  BY <1>1 DEF IInv, TypeOK
<1>8. /\ Replaced(t, g)
      /\ TypeOK' /\ Shape' /\ OneThread' /\ MaskInv' /\ SavedInv' /\ MagicInv'
  BY <1>1, <1>4, <1>3, <1>5, <1>6, AtLockRest
<1>9. mutex = t /\ holder = NoThread /\ recursion = 1
  BY <1>1, <1>2 DEF LockFits
<1>10. \A u \in Threads : Held(u) = {}
  BY <1>9, HolderOnly, LockAssumption
<1>11. Held(t)' = {n} /\ \A u \in Threads \ {t} : Held(u)' = {}
  BY <1>1, <1>4, <1>3, <1>8, <1>10, HeldReplaced DEF IInv, HeldSteps
<1>12. ASSUME NEW u \in Threads, NEW i \in DOMAIN stack'[u]
       PROVE  LockFits(u, stack[u][i])'
  <2>1. CASE u = t /\ i = n
    BY <1>1, <1>4, <1>3, <1>8, <1>9, <2>1 DEF Replaced, LockFits, HeldSteps
  <2>2. CASE u # t \/ i # n
    <3>1. i \in DOMAIN stack[u] /\ stack'[u][i] = stack[u][i]
      BY <1>1, <1>8, <2>2, HeldReplaced DEF IInv
    <3>2. LockFits(u, stack[u][i])
      BY <3>1 DEF IInv, LockInv
    <3>3. stack[u][i].pc \in Outsteps => i = Len(stack[u])
      BY <3>1, OutstepsOnTop
    <3> QED BY <1>1, <1>9, <2>2, <3>1, <3>2, <3>3, LockAssumption DEF LockFits, Outsteps
  <2> QED BY <2>1, <2>2
<1>13. stack'[t][n].level = 1
  BY <1>4, <1>8 DEF Replaced
<1>14. Levels'
  BY <1>1, <1>9, <1>11, <1>13 DEF Levels, LevelsOf
<1>15. LockInv'
  BY <1>1, <1>9, <1>11, <1>12, LockAssumption DEF LockInv
<1> QED BY <1>8, <1>14, <1>15 DEF IInv

\* pseudo_droplock(): another frame still has the lock, or this was the last.
LEMMA DroplockInv ==
    ASSUME IInv, NEW t \in Threads, At(t, "drop"), pseudo_droplock(t)
    PROVE  IInv'
<1> DEFINE n == Len(stack[t])
           p == IF recursion = 1 THEN "clear" ELSE Top(t).ret
           g == [Top(t) EXCEPT !.pc = p, !.ret = Top(t).ret, !.level = 0]
<1>1. /\ InCall(t) /\ Top(t).pc = "drop" /\ recursion' = recursion - 1
      /\ UNCHANGED << mutex, holder, antimagic, mask, user, savedMask, calls >>
      /\ Become(t, g)
  BY DEF pseudo_droplock, At
<1>2. /\ Top(t) \in Frame /\ FrameOK(Top(t)) /\ mutex = t /\ holder = t
      /\ Top(t).level = recursion /\ recursion \in Nat /\ recursion > 0 /\ n \in Held(t)
      /\ \A i \in Held(t) \ {n} : stack[t][i].level \in 1..(recursion - 1)
      /\ \A l \in 1..(recursion - 1) : \E i \in Held(t) \ {n} : stack[t][i].level = l
      /\ \A i, j \in Held(t) : i < j => stack[t][i].level < stack[t][j].level
  BY <1>1, TopFacts, TopLevel DEF HeldSteps
<1>3. /\ Top(t).ret \in {"restore", "unmask", "again"}
      /\ p \in {"clear", "restore", "unmask", "again"}
      /\ recursion = 1 => p = "clear"
      /\ recursion # 1 => p = Top(t).ret
  BY <1>1, <1>2 DEF FrameOK
<1> HIDE DEF p
<1>4. /\ g \in Frame /\ g.pc = p /\ g.saved = Top(t).saved /\ g.kind = Top(t).kind
      /\ g.library = Top(t).library /\ g.level = 0 /\ g.ret = Top(t).ret
  BY <1>2, <1>3 DEF Frame
<1> HIDE DEF g
<1>5. p # "again"
  <2> SUFFICES ASSUME p = "again" PROVE FALSE
    OBVIOUS
  <2>1. Top(t).kind = "child" /\ recursion > 1
    BY <1>1, <1>2, <1>3 DEF FrameOK
  <2>2. n \in DOMAIN stack[t] /\ DOMAIN stack[t] = 1..n /\ Top(t) = stack[t][n]
    BY <1>1, StackFacts DEF IInv
  <2>4. n = 1
    <3>1. StackOK(t)
      BY DEF IInv, Shape
    <3>2. stack[t][n].kind \in {"fork", "child"} => n = 1
      BY <2>2, <3>1 DEF StackOK
    <3> QED BY <2>1, <2>2, <3>2
  <2>3. \E i \in Held(t) \ {n} : stack[t][i].level = 1
    BY <1>2, <2>1
  <2> QED BY <2>2, <2>3, <2>4 DEF Held
<1>6. FrameOK(g)
  BY <1>1, <1>2, <1>3, <1>4, <1>5 DEF FrameOK
<1>7. mutex' \in Threads \cup {NoThread} /\ holder' \in Threads \cup {NoThread} /\ recursion' \in Int
  BY <1>1, <1>2 DEF IInv, TypeOK
<1>8. /\ Replaced(t, g)
      /\ TypeOK' /\ Shape' /\ OneThread' /\ MaskInv' /\ SavedInv' /\ MagicInv'
  BY <1>1, <1>3, <1>4, <1>6, <1>7, AtLockRest
<1>9. Held(t)' = Held(t) \ {n} /\ \A u \in Threads \ {t} : Held(u)' = {}
  BY <1>1, <1>2, <1>3, <1>4, <1>8, HeldReplaced, HolderOnly DEF IInv, HeldSteps
<1>10. recursion = 1 => Held(t)' = {}
  BY <1>2, <1>9
<1>11. ASSUME NEW u \in Threads, NEW i \in DOMAIN stack'[u]
       PROVE  LockFits(u, stack[u][i])'
  <2>1. CASE u = t /\ i = n
    BY <1>1, <1>2, <1>3, <1>4, <1>5, <1>8, <2>1 DEF Replaced, LockFits, HeldSteps
  <2>2. CASE u # t \/ i # n
    <3>1. i \in DOMAIN stack[u] /\ stack'[u][i] = stack[u][i]
      BY <1>1, <1>8, <2>2, HeldReplaced DEF IInv
    <3>2. LockFits(u, stack[u][i])
      BY <3>1 DEF IInv, LockInv
    <3>3. stack[u][i].pc \in Outsteps => i = Len(stack[u])
      BY <3>1, OutstepsOnTop
    <3> QED BY <1>1, <1>2, <2>2, <3>1, <3>2, <3>3, LockAssumption DEF LockFits, Outsteps
  <2> QED BY <2>1, <2>2
<1>12. \A i \in Held(t)' : i \in Held(t) /\ stack'[t][i] = stack[t][i]
  BY <1>8, <1>9 DEF Replaced, Held
<1>13. LevelsOf(t)'
  <2>1. ASSUME NEW i \in Held(t)' PROVE stack'[t][i].level \in 1..recursion'
    BY <1>1, <1>2, <1>9, <1>12
  <2>2. ASSUME NEW i \in Held(t)', NEW j \in Held(t)', i < j
        PROVE  stack'[t][i].level < stack'[t][j].level
    BY <1>2, <1>12, <2>2
  <2>3. ASSUME NEW l \in 1..recursion' PROVE \E i \in Held(t)' : stack'[t][i].level = l
    BY <1>1, <1>2, <1>9, <1>12
  <2> QED BY <2>1, <2>2, <2>3 DEF LevelsOf
<1>14. Levels'
  BY <1>1, <1>2, <1>9, <1>13 DEF Levels, LevelsOf
<1>15. Held(t)' # {} \/ At(t, "clear")'
  <2>1. CASE recursion = 1
    BY <1>1, <1>3, <1>4, <1>8, <2>1, HeldReplaced DEF IInv
  <2>2. CASE recursion # 1
    <3>1. 1 \in 1..(recursion - 1)
      BY <1>2, <2>2
    <3> QED BY <1>2, <1>9, <3>1
  <2> QED BY <2>1, <2>2
<1>16. LockInv'
  BY <1>1, <1>2, <1>11, <1>15, LockAssumption DEF LockInv
<1> QED BY <1>8, <1>14, <1>16 DEF IInv

\* The second pseudo_droplock() of a fork()'s child.
LEMMA DropAgainInv ==
    ASSUME IInv, NEW t \in Threads, At(t, "again"), pseudo_droplock(t)
    PROVE  IInv'
<1> DEFINE n == Len(stack[t])
           g == [Top(t) EXCEPT !.pc = "restore", !.ret = "restore", !.level = 0]
<1>1. InCall(t) /\ Top(t).pc = "again"
  BY DEF At
<1>2. /\ Top(t) \in Frame /\ FrameOK(Top(t)) /\ LockFits(t, Top(t))
      /\ mask \in [Threads -> Masks]
  BY <1>1, TopFacts, StackFacts DEF IInv, LockInv
<1>3. mutex = NoThread /\ holder = NoThread /\ recursion = 0
  BY <1>1, <1>2 DEF LockFits
<1>4. /\ Become(t, g) /\ recursion' = recursion - 1
      /\ UNCHANGED << mutex, holder, antimagic, mask, user, savedMask, calls >>
  BY <1>1, <1>3 DEF pseudo_droplock
<1>5. /\ g \in Frame /\ g.pc = "restore" /\ g.saved = Top(t).saved /\ g.kind = Top(t).kind
      /\ g.library = Top(t).library /\ g.level = 0 /\ g.ret = "restore"
  BY <1>2 DEF Frame
<1> HIDE DEF g
<1>6. FrameOK(g)
  BY <1>1, <1>2, <1>5 DEF FrameOK
<1>7. mutex' \in Threads \cup {NoThread} /\ holder' \in Threads \cup {NoThread} /\ recursion' \in Int
  BY <1>3, <1>4
<1>8. /\ Replaced(t, g)
      /\ TypeOK' /\ Shape' /\ OneThread' /\ MaskInv' /\ SavedInv' /\ MagicInv'
  BY <1>1, <1>4, <1>5, <1>6, <1>7, AtLockRest
<1>9. \A u \in Threads : Held(u)' = {} /\ holder # u
  BY <1>1, <1>3, <1>5, <1>8, HeldReplaced, HolderOnly, LockAssumption DEF IInv, HeldSteps
<1>10. ASSUME NEW u \in Threads, NEW i \in DOMAIN stack'[u]
       PROVE  LockFits(u, stack[u][i])'
  <2>1. CASE u = t /\ i = n
    BY <1>5, <1>8, <2>1 DEF Replaced, LockFits, HeldSteps
  <2>2. CASE u # t \/ i # n
    <3>1. i \in DOMAIN stack[u] /\ stack'[u][i] = stack[u][i]
      BY <1>1, <1>8, <2>2, HeldReplaced DEF IInv
    <3>2. LockFits(u, stack[u][i])
      BY <3>1 DEF IInv, LockInv
    <3>3. stack[u][i].pc # "again"
      BY <1>1, <2>2, <3>1, AgainAlone
    <3> QED BY <1>3, <1>4, <3>1, <3>2, <3>3, LockAssumption DEF LockFits
  <2> QED BY <2>1, <2>2
<1>11. Levels'
  BY <1>4, <1>9 DEF Levels, LevelsOf
<1>12. LockInv'
  BY <1>3, <1>4, <1>10 DEF LockInv
<1> QED BY <1>8, <1>11, <1>12 DEF IInv

\* The holder is cleared, then the mutex is unlocked.
LEMMA DropClearInv ==
    ASSUME IInv, NEW t \in Threads, DropClear(t)
    PROVE  IInv'
<1> DEFINE n == Len(stack[t])
           g == [Top(t) EXCEPT !.pc = "unlock"]
<1>1. /\ InCall(t) /\ Top(t).pc = "clear" /\ Become(t, g) /\ holder' = NoThread
      /\ UNCHANGED << mutex, recursion, antimagic, mask, user, savedMask, calls >>
  BY DEF DropClear, At, Goto
<1>2. /\ Top(t) \in Frame /\ FrameOK(Top(t)) /\ LockFits(t, Top(t)) /\ n \in DOMAIN stack[t]
      /\ Top(t) = stack[t][n]
  BY <1>1, TopFacts, StackFacts DEF IInv, LockInv
<1>3. mutex = t /\ holder = t /\ recursion = 0
  BY <1>1, <1>2 DEF LockFits
<1>4. /\ g \in Frame /\ g.pc = "unlock" /\ g.saved = Top(t).saved /\ g.kind = Top(t).kind
      /\ g.library = Top(t).library /\ g.level = Top(t).level /\ g.ret = Top(t).ret
  BY <1>2 DEF Frame
<1> HIDE DEF g
<1>5. FrameOK(g)
  BY <1>1, <1>2, <1>4 DEF FrameOK
<1>6. mutex' \in Threads \cup {NoThread} /\ holder' \in Threads \cup {NoThread} /\ recursion' \in Int
  BY <1>1, <1>3
<1>7. /\ Replaced(t, g)
      /\ TypeOK' /\ Shape' /\ OneThread' /\ MaskInv' /\ SavedInv' /\ MagicInv'
  BY <1>1, <1>4, <1>5, <1>6, AtLockRest
<1>8. Held(t) = {}
  <2>1. \A i \in Held(t) : stack[t][i].level \in 1..0
    BY <1>3 DEF IInv, Levels, LevelsOf
  <2> QED BY <2>1
<1>9. \A u \in Threads : Held(u) = {} /\ Held(u)' = {} /\ holder' # u
  BY <1>1, <1>3, <1>4, <1>7, <1>8, HeldReplaced, HolderOnly, LockAssumption DEF IInv, HeldSteps
<1>10. ASSUME NEW u \in Threads, NEW i \in DOMAIN stack'[u]
       PROVE  LockFits(u, stack[u][i])'
  <2>1. CASE u = t /\ i = n
    BY <1>1, <1>3, <1>4, <1>7, <2>1 DEF Replaced, LockFits, HeldSteps
  <2>2. CASE u # t \/ i # n
    <3>1. i \in DOMAIN stack[u] /\ stack'[u][i] = stack[u][i]
      BY <1>1, <1>7, <2>2, HeldReplaced DEF IInv
    <3>2. LockFits(u, stack[u][i]) /\ stack[u][i].pc \notin HeldSteps
      BY <1>9, <3>1 DEF IInv, LockInv, Held
    <3>3. stack[u][i].pc \in Outsteps => i = Len(stack[u])
      BY <3>1, OutstepsOnTop
    <3> QED BY <1>1, <1>3, <2>2, <3>1, <3>2, <3>3, LockAssumption DEF LockFits, Outsteps
  <2> QED BY <2>1, <2>2
<1>11. Levels'
  BY <1>9 DEF Levels, LevelsOf
<1>12. At(t, "unlock")'
  BY <1>1, <1>4, <1>7, HeldReplaced DEF IInv
<1>13. LockInv'
  BY <1>1, <1>3, <1>10, <1>12 DEF LockInv
<1> QED BY <1>7, <1>11, <1>13 DEF IInv

\* The mutex is free, and the frame goes on without the lock.
LEMMA UnlockInv ==
    ASSUME IInv, NEW t \in Threads, pthread_mutex_unlock(t)
    PROVE  IInv'
<1> DEFINE n == Len(stack[t])
           g == [Top(t) EXCEPT !.pc = Top(t).ret]
<1>1. /\ InCall(t) /\ Top(t).pc = "unlock" /\ Become(t, g) /\ mutex' = NoThread
      /\ UNCHANGED << holder, recursion, antimagic, mask, user, savedMask, calls >>
  BY DEF pthread_mutex_unlock, At, Goto
<1>2. /\ Top(t) \in Frame /\ FrameOK(Top(t)) /\ LockFits(t, Top(t)) /\ n \in DOMAIN stack[t]
      /\ Top(t) = stack[t][n]
  BY <1>1, TopFacts, StackFacts DEF IInv, LockInv
<1>3. /\ mutex = t /\ holder = NoThread /\ recursion = 0
      /\ Top(t).ret \in {"restore", "unmask", "again"}
  BY <1>1, <1>2 DEF LockFits, FrameOK
<1>4. /\ g \in Frame /\ g.pc = Top(t).ret /\ g.saved = Top(t).saved /\ g.kind = Top(t).kind
      /\ g.library = Top(t).library /\ g.level = Top(t).level /\ g.ret = Top(t).ret
  <2>1. ASSUME NEW p \in {"restore", "unmask", "again"}, NEW h, h = [Top(t) EXCEPT !.pc = p]
        PROVE  /\ h \in Frame /\ h.pc = p /\ h.saved = Top(t).saved /\ h.kind = Top(t).kind
               /\ h.library = Top(t).library /\ h.level = Top(t).level /\ h.ret = Top(t).ret
    BY <1>2, <2>1 DEF Frame
  <2> QED BY <1>3, <2>1
<1> HIDE DEF g
<1>5. FrameOK(g)
  BY <1>1, <1>2, <1>3, <1>4 DEF FrameOK
<1>6. mutex' \in Threads \cup {NoThread} /\ holder' \in Threads \cup {NoThread} /\ recursion' \in Int
  BY <1>1, <1>3
<1>7. /\ Replaced(t, g)
      /\ TypeOK' /\ Shape' /\ OneThread' /\ MaskInv' /\ SavedInv' /\ MagicInv'
  BY <1>1, <1>3, <1>4, <1>5, <1>6, AtLockRest
<1>8. \A u \in Threads : Held(u) = {} /\ holder # u
  BY <1>3, HolderOnly, LockAssumption
<1>9. \A u \in Threads : Held(u)' = {}
  BY <1>1, <1>3, <1>4, <1>7, <1>8, HeldReplaced DEF IInv, HeldSteps
<1>10. ASSUME NEW u \in Threads, NEW i \in DOMAIN stack'[u]
       PROVE  LockFits(u, stack[u][i])'
  <2>1. CASE u = t /\ i = n
    BY <1>1, <1>3, <1>4, <1>7, <2>1 DEF Replaced, LockFits, HeldSteps
  <2>2. CASE u # t \/ i # n
    <3>1. i \in DOMAIN stack[u] /\ stack'[u][i] = stack[u][i]
      BY <1>1, <1>7, <2>2, HeldReplaced DEF IInv
    <3>2. LockFits(u, stack[u][i])
      BY <3>1 DEF IInv, LockInv
    <3>3. stack[u][i].pc \in Outsteps => i = Len(stack[u])
      BY <3>1, OutstepsOnTop
    <3> QED BY <1>1, <1>3, <2>2, <3>1, <3>2, <3>3, LockAssumption DEF LockFits, Outsteps
  <2> QED BY <2>1, <2>2
<1>11. Levels'
  BY <1>1, <1>8, <1>9 DEF Levels, LevelsOf
<1>12. LockInv'
  BY <1>1, <1>3, <1>10 DEF LockInv
<1> QED BY <1>7, <1>11, <1>12 DEF IInv
-----------------------------------------------------------------------------
(* Calls and returns *)

\* A new call: the one below it can be interrupted, and has the signals
\* open if it has not blocked them yet.
LEMMA PushInv ==
    ASSUME IInv, NEW t \in Threads, NEW g \in Frame, Pushed(t, g),
           FrameOK(g), g.pc = "block", g.kind # "child",
           g.kind = "fork" => ~InCall(t),
           ~InCall(t) => ~g.library /\ \A u \in Threads : ~Forking(u),
           InCall(t) => /\ Interruptible(Top(t)) /\ ~Top(t).library
                        /\ Top(t).pc = "op" <=> g.library
                        /\ Top(t).pc = "block" => mask[t] = "open",
           calls' \in 0..MaxCalls,
           UNCHANGED << lockVars, antimagic, mask, user, savedMask >>
    PROVE  IInv'
<1> USE DEF lockVars
<1>1. PICK n \in Nat :
          /\ n = Len(stack[t]) /\ DOMAIN stack[t] = 1..n
          /\ InCall(t) => n \in DOMAIN stack[t] /\ Top(t) = stack[t][n] /\ n > 0
          /\ ~InCall(t) => n = 0
  BY StackFacts DEF IInv
<1>2. /\ DOMAIN stack'[t] = 1..(n + 1) /\ Len(stack'[t]) = n + 1 /\ stack'[t][n + 1] = g
      /\ \A i \in 1..n : stack'[t][i] = stack[t][i]
      /\ \A u \in Threads \ {t} : stack'[u] = stack[u]
  BY <1>1 DEF Pushed
<1>3. TypeOK'
  BY DEF IInv, TypeOK, Pushed
<1>4. Shape'
  <2>1. ASSUME NEW u \in Threads \ {t} PROVE StackOK(u)'
    BY <1>2, <2>1 DEF IInv, Shape, StackOK
  <2>2. StackOK(t)
    BY DEF IInv, Shape
  <2>3. ASSUME NEW i \in 1..(n + 1)
        PROVE  LET f == stack'[t][i]
               IN  /\ FrameOK(f)
                   /\ f.kind \in {"fork", "child"} => i = 1
                   /\ i < n + 1 => Interruptible(f) /\ ~f.library
                   /\ i < n + 1 /\ f.pc = "op" => stack'[t][i + 1].library
                   /\ f.library => i > 1 /\ stack'[t][i - 1].pc = "op"
    <3>1. CASE i = n + 1
      BY <1>1, <1>2, <3>1
    <3>2. CASE i = n
      <4>1. InCall(t) /\ stack'[t][i] = Top(t) /\ i \in DOMAIN stack[t] /\ Top(t) = stack[t][n]
        BY <1>1, <1>2, <2>3, <3>2
      <4>2. FrameOK(Top(t)) /\ (Top(t).kind \in {"fork", "child"} => i = 1)
        BY <2>2, <3>2, <4>1 DEF StackOK
      <4> QED BY <1>2, <3>2, <4>1, <4>2
    <3>3. CASE i < n
      <4>1. /\ i \in DOMAIN stack[t] /\ stack'[t][i] = stack[t][i]
            /\ stack'[t][i + 1] = stack[t][i + 1]
            /\ i > 1 => stack'[t][i - 1] = stack[t][i - 1]
        <5>1. i \in 1..n /\ i + 1 \in 1..n /\ (i > 1 => i - 1 \in 1..n)
          BY <1>1, <2>3, <3>3
        <5> QED BY <1>1, <1>2, <5>1
      <4> QED BY <1>1, <2>2, <3>3, <4>1 DEF StackOK
    <3> QED BY <1>1, <3>1, <3>2, <3>3
  <2>4. StackOK(t)'
    BY <1>2, <2>3 DEF StackOK, FrameOK, Interruptible
  <2> QED BY <2>1, <2>4 DEF Shape
<1>5. OneThread'
  <2>1. \A u \in Threads : InCall(u) => Forking(u)' = Forking(u)
    BY <1>1, <1>2 DEF Forking, InCall
  <2>2. \A u \in Threads : Forking(u)' => Forking(u)
    BY <1>1, <1>2, <2>1 DEF Forking, InCall
  <2>3. \A u \in Threads : InCall(u)' => InCall(u) \/ (u = t /\ ~InCall(t))
    BY <1>1, <1>2 DEF InCall
  <2> QED BY <2>2, <2>3 DEF IInv, OneThread
<1>6. MaskInv'
  <2>1. ASSUME NEW u \in Threads \ {t} PROVE MasksOf(u)'
    <3>1. \A i : MaskAt(u, i)' = MaskAt(u, i)
      BY <1>2, <2>1 DEF MaskAt
    <3> QED BY <1>2, <2>1, <3>1 DEF IInv, MaskInv, MasksOf
  <2>2. MasksOf(t)
    BY DEF IInv, MaskInv
  <2>3. MaskAt(t, n + 1)' = mask[t] /\ MaskAt(t, n)' = mask[t] /\ MaskAt(t, n) = mask[t]
    <3>1. MaskAt(t, n) = mask[t]
      BY <1>1 DEF MaskAt
    <3>2. MaskAt(t, n + 1)' = mask[t]
      BY <1>2 DEF MaskAt
    <3>3. n # n + 1
      BY <1>1
    <3>4. MaskAt(t, n)' = mask[t]
      BY <1>2, <3>3 DEF MaskAt
    <3> QED BY <3>1, <3>2, <3>4
  <2>4. ASSUME NEW i \in 0..n PROVE MaskAt(t, i)' = MaskAt(t, i)
    <3>1. CASE i = n
      BY <2>3, <3>1
    <3>2. CASE i # n
      <4>1. /\ i \in Nat /\ i + 1 \in 1..n /\ i # n + 1 /\ i + 1 # n + 1
            /\ stack'[t][i + 1] = stack[t][i + 1]
        BY <1>1, <1>2, <2>4, <3>2
      <4>2. i + 1 = n /\ stack[t][i + 1].pc = "block" => mask[t] = "open"
        BY <1>1, <4>1
      <4>3. MaskAt(t, i)' = IF stack[t][i + 1].pc # "block" THEN stack[t][i + 1].saved
                            ELSE "open"
        BY <1>2, <4>1 DEF MaskAt
      <4>4. MaskAt(t, i) = IF stack[t][i + 1].pc # "block" THEN stack[t][i + 1].saved
                           ELSE "open"
        BY <1>1, <3>2, <4>1, <4>2 DEF MaskAt
      <4> QED BY <4>3, <4>4
    <3> QED BY <3>1, <3>2
  <2>5. MaskAt(t, 0)' = user'[t]
    BY <1>1, <2>2, <2>4 DEF MasksOf
  <2>6. ASSUME NEW i \in 1..(n + 1)
        PROVE  /\ MaskFits(stack'[t][i], MaskAt(t, i)')
               /\ stack'[t][i].pc = "block" /\ i < n + 1 => MaskAt(t, i)' = "open"
    <3>1. CASE i = n + 1
      BY <1>1, <1>2, <3>1 DEF MaskFits
    <3>2. CASE i \in 1..n
      <4>1. /\ i \in DOMAIN stack[t] /\ stack'[t][i] = stack[t][i] /\ MaskAt(t, i)' = MaskAt(t, i)
            /\ MaskFits(stack[t][i], MaskAt(t, i))
            /\ stack[t][i].pc = "block" /\ i < n => MaskAt(t, i) = "open"
        BY <1>1, <1>2, <2>2, <2>4, <3>2 DEF MasksOf
      <4>2. i = n /\ stack[t][i].pc = "block" => MaskAt(t, i) = "open"
        BY <1>1, <2>3, <3>2
      <4> QED BY <1>1, <3>2, <4>1, <4>2
    <3> QED BY <1>1, <3>1, <3>2
  <2>7. MasksOf(t)'
    BY <1>2, <2>5, <2>6 DEF MasksOf, MaskFits
  <2> QED BY <2>1, <2>7 DEF MaskInv
<1>7. \A u \in Threads : \A i \in DOMAIN stack'[u] :
          stack'[u][i].pc = "block" \/ (i \in DOMAIN stack[u] /\ stack'[u][i] = stack[u][i])
  BY <1>1, <1>2
<1>8. \A u \in Threads : \A i \in DOMAIN stack[u] :
          i \in DOMAIN stack'[u] /\ stack'[u][i] = stack[u][i]
  BY <1>1, <1>2
<1>9. SavedInv'
  BY <1>7 DEF IInv, SavedInv
<1>10. MagicInv'
  <2>1. InOp' <=> InOp
    BY <1>7, <1>8 DEF InOp
  <2> QED BY <2>1 DEF IInv, MagicInv
<1>11. \A u \in Threads : Held(u)' = Held(u)
  BY <1>7, <1>8 DEF Held, HeldSteps
<1>12. \A u \in Threads : \A i \in Held(u) : stack'[u][i] = stack[u][i]
  BY <1>8 DEF Held
<1>13. Levels'
  BY <1>11, <1>12 DEF IInv, Levels, LevelsOf
<1>14. ASSUME NEW u \in Threads, NEW i \in DOMAIN stack'[u]
       PROVE  LockFits(u, stack[u][i])'
  <2>1. stack'[u][i].pc = "block" \/ LockFits(u, stack'[u][i])
    BY <1>7, <1>14 DEF IInv, LockInv
  <2> QED BY <2>1 DEF LockFits, HeldSteps
<1>15. \A u \in Threads : \A p \in {"count", "claim", "clear", "unlock"} : At(u, p) => At(u, p)'
  <2>1. ASSUME NEW u \in Threads \ {t} PROVE \A p : At(u, p)' = At(u, p)
    BY <1>2, <2>1 DEF At, InCall, Top
  <2>2. ASSUME NEW p \in {"count", "claim", "clear", "unlock"} PROVE ~At(t, p)
    BY <2>2 DEF At, Interruptible
  <2> QED BY <2>1, <2>2
<1>16. mutex \in Threads \cup {NoThread} /\ holder \in Threads \cup {NoThread}
  BY DEF IInv, TypeOK
<1>17. holder # NoThread => mutex = holder /\ (Held(holder)' # {} \/ At(holder, "clear")')
  BY <1>11, <1>15, <1>16 DEF IInv, LockInv
<1>18. mutex # NoThread /\ holder = NoThread =>
          At(mutex, "count")' \/ At(mutex, "claim")' \/ At(mutex, "unlock")'
  BY <1>15, <1>16 DEF IInv, LockInv
<1>19. LockInv'
  BY <1>14, <1>17, <1>18 DEF LockInv
<1> QED BY <1>3, <1>4, <1>5, <1>6, <1>9, <1>10, <1>13, <1>19 DEF IInv

\* The calls of the program, of its callbacks and handlers, and of the library.
LEMMA CallsInv ==
    ASSUME IInv, ~LateSignals, NEW t \in Threads,
           Program(t) \/ Callback(t) \/ Library(t) \/ Handler(t)
    PROVE  IInv'
<1>1. ASSUME NEW k \in {"plain", "walk", "fifo", "exec", "spawn", "fork"}, NEW lib \in BOOLEAN,
             Push(t, k, lib), lib => k = "plain",
             k = "fork" => ~InCall(t),
             ~InCall(t) => ~lib /\ \A u \in Threads : ~Forking(u),
             InCall(t) => /\ Interruptible(Top(t)) /\ ~Top(t).library
                          /\ Top(t).pc = "op" <=> lib
                          /\ Top(t).pc = "block" => mask[t] = "open"
      PROVE  IInv'
  <2> DEFINE g == NewFrame(k, lib)
  <2>1. /\ g \in Frame /\ g.pc = "block" /\ g.kind = k /\ g.library = lib
        /\ g.ret = "decide"
    BY <1>1 DEF NewFrame, Frame, Masks
  <2>2. stack' = [stack EXCEPT ![t] = Append(@, g)]
    BY <1>1 DEF Push
  <2> HIDE DEF g
  <2>3. Pushed(t, g)
    BY <2>1, <2>2, PushStep DEF IInv
  <2>4. FrameOK(g)
    BY <1>1, <2>1 DEF FrameOK
  <2>5. /\ calls' \in 0..MaxCalls
        /\ UNCHANGED << lockVars, antimagic, mask, user, savedMask >>
    BY <1>1, LockAssumption DEF Push, IInv, TypeOK
  <2> QED BY <1>1, <2>1, <2>3, <2>4, <2>5, PushInv
<1>2. CASE Program(t)
  <2>1. PICK k \in Kinds : Push(t, k, FALSE)
    BY <1>2 DEF Program
  <2> QED BY <1>1, <1>2, <2>1, LockAssumption DEF Program
<1>3. CASE Callback(t)
  <2>1. PICK k \in CallbackKinds : Push(t, k, FALSE)
    BY <1>3 DEF Callback
  <2>2. InCall(t) /\ Top(t).pc \in {"guts", "ignored"} /\ Top(t).kind = "walk"
    BY <1>3 DEF Callback, At
  <2>3. Interruptible(Top(t)) /\ ~Top(t).library
    BY <2>2, TopFacts DEF Interruptible, FrameOK
  <2> QED BY <1>1, <2>1, <2>2, <2>3, LockAssumption
<1>4. CASE Library(t)
  <2>1. InCall(t) /\ Top(t).pc = "op" /\ Push(t, "plain", TRUE)
    BY <1>4 DEF Library, At
  <2>2. Interruptible(Top(t)) /\ ~Top(t).library
    BY <2>1, TopFacts DEF Interruptible, FrameOK
  <2> QED BY <1>1, <2>1, <2>2
<1>5. CASE Handler(t)
  <2>1. /\ InCall(t) /\ mask[t] = "open" /\ Push(t, "plain", FALSE)
        /\ Top(t).kind \in {"exec", "spawn"} => Top(t).pc \in {"block", "exec"}
    BY <1>5 DEF Handler
  <2>2. Top(t) \in Frame /\ FrameOK(Top(t)) /\ MaskFits(Top(t), mask[t])
    BY <2>1, TopFacts
  <2>3. Top(t).pc \in {"block", "wait", "remask", "exec"}
    BY <2>1, <2>2 DEF MaskFits, Frame
  <2>4. ~Top(t).library
    <3> SUFFICES ASSUME Top(t).library PROVE FALSE
      OBVIOUS
    <3> DEFINE n == Len(stack[t])
    <3>1. n \in DOMAIN stack[t] /\ DOMAIN stack[t] = 1..n /\ Top(t) = stack[t][n] /\ n \in Nat
      BY <2>1, StackFacts DEF IInv
    <3>2. n > 1 /\ stack[t][n - 1].pc = "op" /\ Top(t).pc = "block"
      BY <2>2, <2>3, <3>1 DEF IInv, Shape, StackOK, FrameOK
    <3>3. n - 1 \in DOMAIN stack[t] /\ (n - 1) + 1 = n /\ n - 1 # n
      BY <3>1, <3>2
    <3>4. MaskAt(t, n - 1) = mask[t]
      BY <3>1, <3>2, <3>3 DEF MaskAt
    <3>5. MaskFits(stack[t][n - 1], MaskAt(t, n - 1))
      BY <3>3 DEF IInv, MaskInv, MasksOf
    <3> QED BY <2>1, <3>2, <3>4, <3>5 DEF MaskFits
  <2>5. Interruptible(Top(t)) /\ Top(t).pc # "op"
    BY <2>3 DEF Interruptible
  <2> QED BY <1>1, <2>1, <2>4, <2>5
<1> QED BY <1>2, <1>3, <1>4, <1>5

\* A call returns: the mask it saved is the one that the frame below it, or
\* the program, had when it was called.
LEMMA RestoreInv ==
    ASSUME IInv, NEW t \in Threads, Restore(t)
    PROVE  IInv'
<1> USE DEF lockVars
<1>1. /\ InCall(t) /\ Top(t).pc = "restore" /\ mask' = [mask EXCEPT ![t] = Top(t).saved]
      /\ stack' = [stack EXCEPT ![t] = Front(@)]
      /\ UNCHANGED << lockVars, antimagic, user, savedMask, calls >>
  BY DEF Restore, At
<1>2. PICK n \in Nat :
          /\ n = Len(stack[t]) /\ DOMAIN stack[t] = 1..n
          /\ n \in DOMAIN stack[t] /\ Top(t) = stack[t][n] /\ n > 0 /\ Top(t) \in Frame
  BY <1>1, StackFacts DEF IInv
<1>3. /\ stack' \in [Threads -> Seq(Frame)]
      /\ DOMAIN stack'[t] = 1..(n - 1) /\ Len(stack'[t]) = n - 1
      /\ \A i \in 1..(n - 1) : stack'[t][i] = stack[t][i]
      /\ \A u \in Threads \ {t} : stack'[u] = stack[u]
  BY <1>1, <1>2, PopStep DEF IInv, Popped
<1>4. /\ mask' \in [Threads -> Masks] /\ mask'[t] = Top(t).saved
      /\ \A u \in Threads \ {t} : mask'[u] = mask[u]
  BY <1>1, <1>2 DEF IInv, TypeOK, Frame
<1>5. TypeOK'
  BY <1>1, <1>3, <1>4 DEF IInv, TypeOK
<1>6. Shape'
  <2>1. ASSUME NEW u \in Threads \ {t} PROVE StackOK(u)'
    BY <1>3, <2>1 DEF IInv, Shape, StackOK
  <2>2. StackOK(t)
    BY DEF IInv, Shape
  <2>3. ASSUME NEW i \in 1..(n - 1)
        PROVE  LET f == stack'[t][i]
               IN  /\ FrameOK(f)
                   /\ f.kind \in {"fork", "child"} => i = 1
                   /\ i < n - 1 => Interruptible(f) /\ ~f.library
                   /\ i < n - 1 /\ f.pc = "op" => stack'[t][i + 1].library
                   /\ f.library => i > 1 /\ stack'[t][i - 1].pc = "op"
    <3>1. /\ i \in DOMAIN stack[t] /\ i < n /\ stack'[t][i] = stack[t][i]
          /\ i < n - 1 => i + 1 \in 1..(n - 1)
          /\ i > 1 => i - 1 \in 1..(n - 1)
      BY <1>2, <1>3, <2>3
    <3>2. /\ i < n - 1 => stack'[t][i + 1] = stack[t][i + 1]
          /\ i > 1 => stack'[t][i - 1] = stack[t][i - 1]
      BY <1>3, <3>1
    <3> QED BY <1>2, <2>2, <3>1, <3>2 DEF StackOK
  <2>4. StackOK(t)'
    BY <1>3, <2>3 DEF StackOK, FrameOK, Interruptible
  <2> QED BY <2>1, <2>4 DEF Shape
<1>7. OneThread'
  <2>1. \A u \in Threads : InCall(u)' => InCall(u)
    BY <1>1, <1>3 DEF InCall
  <2>2. \A u \in Threads : Forking(u)' => Forking(u)
    <3>1. ASSUME NEW u \in Threads \ {t} PROVE Forking(u)' => Forking(u)
      BY <1>3, <3>1 DEF Forking, InCall
    <3>2. InCall(t)' => 1 \in 1..(n - 1)
      BY <1>2, <1>3 DEF InCall
    <3>3. Forking(t)' => Forking(t)
      BY <1>1, <1>3, <3>2 DEF Forking
    <3> QED BY <3>1, <3>3
  <2> QED BY <2>1, <2>2 DEF IInv, OneThread
<1>8. MaskInv'
  <2>1. ASSUME NEW u \in Threads \ {t} PROVE MasksOf(u)'
    <3>1. \A i : MaskAt(u, i)' = MaskAt(u, i)
      BY <1>3, <1>4, <2>1 DEF MaskAt
    <3> QED BY <1>1, <1>3, <2>1, <3>1 DEF IInv, MaskInv, MasksOf
  <2>2. MasksOf(t)
    BY DEF IInv, MaskInv
  <2>3. MaskAt(t, n - 1) = Top(t).saved
    <3>1. n - 1 # n /\ (n - 1) + 1 = n
      BY <1>2
    <3> QED BY <1>1, <1>2, <3>1 DEF MaskAt
  <2>4. MaskAt(t, n - 1)' = Top(t).saved
    BY <1>3, <1>4 DEF MaskAt
  <2>5. ASSUME NEW i \in 0..(n - 1) PROVE MaskAt(t, i)' = MaskAt(t, i)
    <3>1. CASE i = n - 1
      BY <2>3, <2>4, <3>1
    <3>2. CASE i # n - 1
      <4>1. /\ i \in Nat /\ i + 1 \in 1..(n - 1) /\ i # n /\ i + 1 # n
            /\ i + 1 \in DOMAIN stack[t] /\ i + 1 < n
            /\ stack'[t][i + 1] = stack[t][i + 1]
        BY <1>2, <1>3, <2>5, <3>2
      <4>2. i + 1 = n - 1 /\ stack[t][i + 1].pc = "block" => mask'[t] = "open"
        BY <1>2, <1>4, <2>2, <2>3, <4>1 DEF MasksOf
      <4>3. MaskAt(t, i)' = IF stack[t][i + 1].pc # "block" THEN stack[t][i + 1].saved
                            ELSE "open"
        BY <1>3, <3>2, <4>1, <4>2 DEF MaskAt
      <4>4. MaskAt(t, i) = IF stack[t][i + 1].pc # "block" THEN stack[t][i + 1].saved
                           ELSE "open"
        BY <1>2, <4>1 DEF MaskAt
      <4> QED BY <4>3, <4>4
    <3> QED BY <3>1, <3>2
  <2>6. MaskAt(t, 0)' = user'[t]
    BY <1>1, <1>2, <2>2, <2>5 DEF MasksOf
  <2>7. ASSUME NEW i \in 1..(n - 1)
        PROVE  /\ MaskFits(stack'[t][i], MaskAt(t, i)')
               /\ stack'[t][i].pc = "block" /\ i < n - 1 => MaskAt(t, i)' = "open"
    <3>1. i \in DOMAIN stack[t] /\ i \in 0..(n - 1) /\ i < n /\ stack'[t][i] = stack[t][i]
      BY <1>2, <1>3, <2>7
    <3> QED BY <1>2, <2>2, <2>5, <3>1 DEF MasksOf
  <2>8. MasksOf(t)'
    BY <1>3, <2>6, <2>7 DEF MasksOf, MaskFits
  <2> QED BY <2>1, <2>8 DEF MaskInv
<1>9. \A u \in Threads : \A i \in DOMAIN stack'[u] :
          i \in DOMAIN stack[u] /\ stack'[u][i] = stack[u][i]
  BY <1>2, <1>3
<1>10. \A u \in Threads : \A i \in DOMAIN stack[u] :
          stack[u][i].pc = "restore" \/ i \in DOMAIN stack'[u]
  BY <1>1, <1>2, <1>3
<1>11. SavedInv'
  BY <1>1, <1>9 DEF IInv, SavedInv
<1>12. MagicInv'
  <2>1. InOp' <=> InOp
    BY <1>9, <1>10 DEF InOp
  <2> QED BY <1>1, <2>1 DEF IInv, MagicInv
<1>13. \A u \in Threads : Held(u)' = Held(u)
  BY <1>9, <1>10 DEF Held, HeldSteps
<1>14. \A u \in Threads : \A i \in Held(u) : stack'[u][i] = stack[u][i]
  BY <1>9, <1>10 DEF Held, HeldSteps
<1>15. Levels'
  BY <1>1, <1>13, <1>14 DEF IInv, Levels, LevelsOf
<1>16. ASSUME NEW u \in Threads, NEW i \in DOMAIN stack'[u]
       PROVE  LockFits(u, stack[u][i])'
  <2>1. LockFits(u, stack'[u][i])
    BY <1>9, <1>16 DEF IInv, LockInv
  <2> QED BY <1>1, <2>1 DEF LockFits
<1>17. \A u \in Threads : \A p \in {"count", "claim", "clear", "unlock"} : At(u, p) => At(u, p)'
  <2>1. ASSUME NEW u \in Threads \ {t} PROVE \A p : At(u, p)' = At(u, p)
    BY <1>3, <2>1 DEF At, InCall, Top
  <2>2. ASSUME NEW p \in {"count", "claim", "clear", "unlock"} PROVE ~At(t, p)
    BY <1>1, <2>2 DEF At
  <2> QED BY <2>1, <2>2
<1>18. mutex \in Threads \cup {NoThread} /\ holder \in Threads \cup {NoThread}
  BY DEF IInv, TypeOK
<1>19. holder # NoThread => mutex = holder /\ (Held(holder)' # {} \/ At(holder, "clear")')
  BY <1>1, <1>13, <1>17, <1>18 DEF IInv, LockInv
<1>20. mutex # NoThread /\ holder = NoThread =>
          At(mutex, "count")' \/ At(mutex, "claim")' \/ At(mutex, "unlock")'
  BY <1>1, <1>17, <1>18 DEF IInv, LockInv
<1>21. LockInv'
  BY <1>1, <1>16, <1>19, <1>20 DEF LockInv
<1> QED BY <1>5, <1>6, <1>7, <1>8, <1>11, <1>12, <1>15, <1>21 DEF IInv

\* The program changes the mask of a thread that is in no call.
LEMMA SigmaskInv ==
    ASSUME IInv, NEW t \in Threads, pthread_sigmask(t)
    PROVE  IInv'
<1>1. PICK m \in Masks : /\ mask' = [mask EXCEPT ![t] = m]
                         /\ user' = [user EXCEPT ![t] = m]
  BY DEF pthread_sigmask
<1>2. ~InCall(t) /\ UNCHANGED << stack, lockVars, antimagic, savedMask, calls >>
  BY DEF pthread_sigmask
<1> USE DEF lockVars
<1>3. /\ mask' \in [Threads -> Masks] /\ user' \in [Threads -> Masks]
      /\ mask'[t] = m /\ user'[t] = m
      /\ \A u \in Threads \ {t} : mask'[u] = mask[u] /\ user'[u] = user[u]
  BY <1>1 DEF IInv, TypeOK
<1>4. TypeOK'
  BY <1>2, <1>3 DEF IInv, TypeOK
<1>5. ASSUME NEW u \in Threads \ {t} PROVE MasksOf(u)'
  <2>1. \A i : MaskAt(u, i)' = MaskAt(u, i)
    BY <1>2, <1>3, <1>5 DEF MaskAt
  <2> QED BY <1>2, <1>3, <1>5, <2>1 DEF IInv, MaskInv, MasksOf
<1>6. MasksOf(t)'
  <2>1. stack'[t] = stack[t] /\ Len(stack[t]) = 0 /\ DOMAIN stack[t] = {}
    BY <1>2, StackFacts DEF IInv
  <2>2. MaskAt(t, 0)' = user'[t]
    BY <1>3, <2>1 DEF MaskAt
  <2> QED BY <2>1, <2>2 DEF MasksOf
<1>7. MaskInv'
  BY <1>5, <1>6 DEF MaskInv
<1>8. Shape' /\ OneThread' /\ SavedInv'
  BY <1>2 DEF IInv, Shape, StackOK, OneThread, Forking, InCall, SavedInv
<1>9. MagicInv'
  BY <1>2 DEF IInv, MagicInv, InOp
<1>10. Levels'
  BY <1>2 DEF IInv, Levels, LevelsOf, Held
<1>11. LockInv'
  BY <1>2 DEF IInv, LockInv, LockFits, Held, At, InCall, Top
<1> QED BY <1>4, <1>7, <1>8, <1>9, <1>10, <1>11 DEF IInv

\* Two threads that open the two ends of a FIFO go on together.
LEMMA FifoMeetInv ==
    ASSUME IInv, NEW t \in Threads, NEW v \in Threads, FifoMeet(t, v)
    PROVE  IInv'
<1> USE DEF lockVars
<1>1. /\ t # v /\ InCall(t) /\ Top(t).pc = "wait" /\ InCall(v) /\ Top(v).pc = "wait"
      /\ stack' = [stack EXCEPT ![t][Len(stack[t])].pc = "remask",
                                ![v][Len(stack[v])].pc = "remask"]
      /\ UNCHANGED << lockVars, antimagic, mask, user, savedMask, calls >>
  BY DEF FifoMeet, At
<1> DEFINE After(w) == [stack[w] EXCEPT ![Len(stack[w])].pc = "remask"]
<1>2. ASSUME NEW w \in Threads, InCall(w), Top(w).pc = "wait"
      PROVE  /\ After(w) \in Seq(Frame)
             /\ Len(After(w)) = Len(stack[w]) /\ DOMAIN After(w) = DOMAIN stack[w]
             /\ \A i \in DOMAIN stack[w] :
                   IF i = Len(stack[w])
                   THEN /\ stack[w][i].pc = "wait" /\ After(w)[i].pc = "remask"
                        /\ \A f \in {"kind", "ret", "saved", "level", "library"} :
                              After(w)[i][f] = stack[w][i][f]
                   ELSE After(w)[i] = stack[w][i]
  <2> DEFINE n == Len(stack[w])
             g == [Top(w) EXCEPT !.pc = "remask"]
  <2>1. /\ stack[w] \in Seq(Frame) /\ n \in DOMAIN stack[w] /\ Top(w) = stack[w][n]
        /\ Top(w) \in Frame /\ DOMAIN stack[w] = 1..n
    BY <1>2, StackFacts DEF IInv
  <2>2. /\ g \in Frame /\ g.pc = "remask" /\ g.saved = Top(w).saved /\ g.kind = Top(w).kind
        /\ g.library = Top(w).library /\ g.level = Top(w).level /\ g.ret = Top(w).ret
    BY <2>1 DEF Frame
  <2>3. After(w) = [stack[w] EXCEPT ![n] = g]
    BY <2>1
  <2> HIDE DEF g, After
  <2>4. /\ After(w) \in Seq(Frame) /\ Len(After(w)) = n /\ DOMAIN After(w) = DOMAIN stack[w]
        /\ After(w)[n] = g
        /\ \A i \in DOMAIN stack[w] : i # n => After(w)[i] = stack[w][i]
    BY <2>1, <2>2, <2>3
  <2> QED BY <1>2, <2>1, <2>2, <2>4
<1>3. /\ stack'[t] = After(t) /\ stack'[v] = After(v)
      /\ \A w \in Threads \ {t, v} : stack'[w] = stack[w]
      /\ stack' = [w \in Threads |-> IF w \in {t, v} THEN After(w) ELSE stack[w]]
  BY <1>1 DEF IInv, TypeOK
<1> HIDE DEF After
<1>4. stack' \in [Threads -> Seq(Frame)]
  <2>1. After(t) \in Seq(Frame) /\ After(v) \in Seq(Frame)
    BY <1>1, <1>2
  <2>2. \A w \in Threads : stack[w] \in Seq(Frame)
    BY DEF IInv, TypeOK
  <2> QED BY <1>3, <2>1, <2>2
<1>5. \A w \in Threads :
          /\ Len(stack'[w]) = Len(stack[w]) /\ DOMAIN stack'[w] = DOMAIN stack[w]
          /\ \A i \in DOMAIN stack[w] :
                \/ stack'[w][i] = stack[w][i]
                \/ /\ i = Len(stack[w]) /\ stack[w][i].pc = "wait" /\ stack'[w][i].pc = "remask"
                   /\ \A f \in {"kind", "ret", "saved", "level", "library"} :
                         stack'[w][i][f] = stack[w][i][f]
  <2> SUFFICES ASSUME NEW w \in Threads
               PROVE  /\ Len(stack'[w]) = Len(stack[w]) /\ DOMAIN stack'[w] = DOMAIN stack[w]
                      /\ \A i \in DOMAIN stack[w] :
                            \/ stack'[w][i] = stack[w][i]
                            \/ /\ i = Len(stack[w]) /\ stack[w][i].pc = "wait"
                               /\ stack'[w][i].pc = "remask"
                               /\ \A f \in {"kind", "ret", "saved", "level", "library"} :
                                     stack'[w][i][f] = stack[w][i][f]
    OBVIOUS
  <2>1. CASE w \in {t, v}
    <3>1. stack'[w] = After(w) /\ InCall(w) /\ Top(w).pc = "wait"
      BY <1>1, <1>3, <2>1
    <3>2. /\ Len(After(w)) = Len(stack[w]) /\ DOMAIN After(w) = DOMAIN stack[w]
          /\ \A i \in DOMAIN stack[w] :
                IF i = Len(stack[w])
                THEN /\ stack[w][i].pc = "wait" /\ After(w)[i].pc = "remask"
                     /\ \A f \in {"kind", "ret", "saved", "level", "library"} :
                           After(w)[i][f] = stack[w][i][f]
                ELSE After(w)[i] = stack[w][i]
      BY <1>2, <3>1
    <3> QED BY <3>1, <3>2
  <2>2. CASE w \notin {t, v}
    BY <1>3, <2>2
  <2> QED BY <2>1, <2>2
<1>6. \A w \in Threads : \A i \in DOMAIN stack[w] :
          /\ stack'[w][i].kind = stack[w][i].kind /\ stack'[w][i].saved = stack[w][i].saved
          /\ stack'[w][i].level = stack[w][i].level /\ stack'[w][i].ret = stack[w][i].ret
          /\ stack'[w][i].library = stack[w][i].library
          /\ \/ stack'[w][i].pc = stack[w][i].pc
             \/ stack[w][i].pc = "wait" /\ stack'[w][i].pc = "remask"
  BY <1>5
<1>7. TypeOK'
  BY <1>1, <1>4 DEF IInv, TypeOK
<1>8. ASSUME NEW w \in Threads PROVE StackOK(w)'
  <2>1. StackOK(w) /\ DOMAIN stack[w] = 1..Len(stack[w]) /\ Len(stack[w]) \in Nat
    BY StackFacts DEF IInv, Shape
  <2>2. ASSUME NEW i \in DOMAIN stack[w]
        PROVE  LET f == stack'[w][i]
               IN  /\ FrameOK(f)
                   /\ f.kind \in {"fork", "child"} => i = 1
                   /\ i < Len(stack[w]) => Interruptible(f) /\ ~f.library
                   /\ i < Len(stack[w]) /\ f.pc = "op" => stack'[w][i + 1].library
                   /\ f.library => i > 1 /\ stack'[w][i - 1].pc = "op"
    <3>1. FrameOK(stack'[w][i])
      <4>1. FrameOK(stack[w][i])
        BY <2>1, <2>2 DEF StackOK
      <4> QED BY <1>6, <2>2, <4>1 DEF FrameOK
    <3>2. /\ stack'[w][i].kind \in {"fork", "child"} => i = 1
          /\ i < Len(stack[w]) => stack'[w][i] = stack[w][i]
      BY <1>5, <1>6, <2>1, <2>2 DEF StackOK
    <3>3. i < Len(stack[w]) => i + 1 \in DOMAIN stack[w]
      BY <2>1, <2>2
    <3>4. i < Len(stack[w]) /\ stack'[w][i].pc = "op" => stack'[w][i + 1].library
      BY <1>6, <2>1, <2>2, <3>2, <3>3 DEF StackOK
    <3>5. i > 1 => i - 1 \in DOMAIN stack[w] /\ i - 1 # Len(stack[w])
      BY <2>1, <2>2
    <3>6. i > 1 => stack'[w][i - 1] = stack[w][i - 1]
      BY <1>5, <3>5
    <3>7. stack'[w][i].library => i > 1 /\ stack'[w][i - 1].pc = "op"
      BY <1>6, <2>1, <2>2, <3>6 DEF StackOK
    <3> QED BY <2>1, <2>2, <3>1, <3>2, <3>4, <3>7 DEF StackOK
  <2> QED BY <1>5, <2>2 DEF StackOK, FrameOK, Interruptible
<1>9. \A w \in Threads : InCall(w)' <=> InCall(w)
  BY <1>4, <1>5, StackFacts DEF InCall, IInv
<1>10. \A w \in Threads : Forking(w)' <=> Forking(w)
  <2>1. \A w \in Threads : InCall(w) => 1 \in DOMAIN stack[w]
    BY StackFacts DEF IInv
  <2> QED BY <1>6, <1>9, <2>1 DEF Forking
<1>11. Shape' /\ OneThread'
  BY <1>8, <1>9, <1>10 DEF IInv, Shape, OneThread
<1>12. ASSUME NEW w \in Threads PROVE MasksOf(w)'
  <2>1. DOMAIN stack[w] = 1..Len(stack[w]) /\ Len(stack[w]) \in Nat
    BY StackFacts DEF IInv
  <2>2. ASSUME NEW i \in 0..Len(stack[w]) PROVE MaskAt(w, i)' = MaskAt(w, i)
    <3>1. CASE i = Len(stack[w])
      <4>1. i = Len(stack'[w])
        BY <1>5, <3>1
      <4> QED BY <1>1, <3>1, <4>1 DEF MaskAt
    <3>2. CASE i # Len(stack[w])
      <4>1. i + 1 \in DOMAIN stack[w]
        BY <2>1, <2>2, <3>2
      <4>2. /\ stack'[w][i + 1].saved = stack[w][i + 1].saved
            /\ stack'[w][i + 1].pc = "block" <=> stack[w][i + 1].pc = "block"
        BY <1>6, <4>1
      <4>3. Len(stack'[w]) = Len(stack[w]) /\ mask' = mask
        BY <1>1, <1>5
      <4> QED BY <3>2, <4>2, <4>3 DEF MaskAt
    <3> QED BY <3>1, <3>2
  <2>3. MasksOf(w)
    BY DEF IInv, MaskInv
  <2>4. MaskAt(w, 0)' = user'[w]
    BY <1>1, <2>1, <2>2, <2>3 DEF MasksOf
  <2>5. ASSUME NEW i \in DOMAIN stack[w]
        PROVE  /\ MaskFits(stack'[w][i], MaskAt(w, i)')
               /\ stack'[w][i].pc = "block" /\ i < Len(stack[w]) => MaskAt(w, i)' = "open"
    <3>1. /\ MaskAt(w, i)' = MaskAt(w, i)
          /\ MaskFits(stack[w][i], MaskAt(w, i))
          /\ stack[w][i].pc = "block" /\ i < Len(stack[w]) => MaskAt(w, i) = "open"
      BY <2>1, <2>2, <2>3, <2>5 DEF MasksOf
    <3> QED BY <1>6, <2>5, <3>1 DEF MaskFits
  <2> QED BY <1>5, <2>4, <2>5 DEF MasksOf, MaskFits
<1>13. MaskInv'
  BY <1>12 DEF MaskInv
<1>14. SavedInv'
  <2> SUFFICES ASSUME NEW w \in Threads, NEW i \in DOMAIN stack'[w],
                      stack'[w][i].kind \in {"exec", "spawn"}, stack'[w][i].pc \in {"guts", "op", "env"}
               PROVE  savedMask' = stack'[w][i].saved
    BY DEF SavedInv
  <2>1. /\ i \in DOMAIN stack[w] /\ stack[w][i].kind \in {"exec", "spawn"}
        /\ stack[w][i].pc \in {"guts", "op", "env"} /\ stack'[w][i].saved = stack[w][i].saved
    BY <1>5, <1>6
  <2> QED BY <1>1, <2>1 DEF IInv, SavedInv
<1>15. MagicInv'
  <2>1. InOp' <=> InOp
    BY <1>5, <1>6 DEF InOp
  <2> QED BY <1>1, <2>1 DEF IInv, MagicInv
<1>16. \A w \in Threads : Held(w)' = Held(w) /\ Held(w) \subseteq DOMAIN stack[w]
  BY <1>5, <1>6 DEF Held, HeldSteps
<1>17. Levels'
  <2>1. \A w \in Threads : \A i \in Held(w) : stack'[w][i].level = stack[w][i].level
    BY <1>6, <1>16
  <2>2. ASSUME NEW w \in Threads PROVE LevelsOf(w)'
    <3>1. LevelsOf(w)
      BY DEF IInv, Levels
    <3>2. Held(w)' = Held(w) /\ \A i \in Held(w) : stack'[w][i].level = stack[w][i].level
      BY <1>16, <2>1
    <3> QED BY <1>1, <3>1, <3>2 DEF LevelsOf
  <2> QED BY <2>2 DEF Levels
<1>18. ASSUME NEW w \in Threads, NEW i \in DOMAIN stack'[w]
       PROVE  LockFits(w, stack[w][i])'
  <2>1. LockFits(w, stack[w][i]) /\ i \in DOMAIN stack[w]
    BY <1>5, <1>18 DEF IInv, LockInv
  <2> QED BY <1>1, <1>6, <2>1 DEF LockFits, HeldSteps
<1>19. \A w \in Threads : \A p \in {"count", "claim", "clear", "unlock"} : At(w, p) => At(w, p)'
  BY <1>5, <1>6, <1>9, StackFacts DEF At, Top, IInv
<1>20. mutex \in Threads \cup {NoThread} /\ holder \in Threads \cup {NoThread}
  BY DEF IInv, TypeOK
<1>21. holder # NoThread => mutex = holder /\ (Held(holder)' # {} \/ At(holder, "clear")')
  BY <1>1, <1>16, <1>19, <1>20 DEF IInv, LockInv
<1>22. mutex # NoThread /\ holder = NoThread =>
          At(mutex, "count")' \/ At(mutex, "claim")' \/ At(mutex, "unlock")'
  BY <1>1, <1>19, <1>20 DEF IInv, LockInv
<1>23. LockInv'
  BY <1>1, <1>18, <1>21, <1>22 DEF LockInv
<1> QED BY <1>7, <1>11, <1>13, <1>14, <1>15, <1>17, <1>23 DEF IInv

\* In a state with no calls that keeps the masks, everything is as it was at
\* the start.
LEMMA NoCallsInv ==
    ASSUME TypeOK, stack = [t \in Threads |-> << >>], mask = user,
           mutex = NoThread, holder = NoThread, antimagic = 0
    PROVE  IInv
<1>1. \A t \in Threads : stack[t] = << >> /\ DOMAIN stack[t] = {} /\ Len(stack[t]) = 0
  OBVIOUS
<1>2. Shape /\ OneThread /\ SavedInv
  BY <1>1 DEF Shape, StackOK, OneThread, Forking, InCall, SavedInv
<1>3. MaskInv
  BY <1>1 DEF MaskInv, MasksOf, MaskAt
<1>4. Levels
  BY <1>1, LockAssumption DEF Levels, LevelsOf, Held
<1>5. LockInv
  BY <1>1 DEF LockInv
<1>6. MagicInv
  BY <1>1 DEF MagicInv, InOp
<1> QED BY <1>2, <1>3, <1>4, <1>5, <1>6 DEF IInv

\* At the start no call is made.
LEMMA InitInv == Init => IInv
<1> SUFFICES ASSUME Init PROVE IInv
  OBVIOUS
<1>1. TypeOK
  BY LockAssumption DEF Init, TypeOK, Masks
<1> QED BY <1>1, NoCallsInv DEF Init
-----------------------------------------------------------------------------
(* exec*() and fork() *)

\* A new image starts with no calls and the mask that exec*() left.
LEMMA ExecSucceedsInv ==
    ASSUME IInv, NEW t \in Threads, ExecSucceeds(t)
    PROVE  IInv'
<1>1. mask[t] \in Masks
  BY DEF IInv, TypeOK
<1>2. << >> \in Seq(Frame)
  OBVIOUS
<1>3. TypeOK'
  BY <1>1, <1>2 DEF ExecSucceeds, IInv, TypeOK, Masks
<1>4. mask' = user'
  BY DEF ExecSucceeds
<1>5. /\ stack' = [u \in Threads |-> << >>] /\ mutex' = NoThread /\ holder' = NoThread
      /\ antimagic' = 0
  BY DEF ExecSucceeds
<1>6. \A u \in Threads : stack'[u] = << >> /\ DOMAIN stack'[u] = {} /\ Len(stack'[u]) = 0
  BY <1>5
<1>7. Shape' /\ OneThread' /\ SavedInv'
  BY <1>6 DEF Shape, StackOK, OneThread, Forking, InCall, SavedInv
<1>8. MaskInv'
  BY <1>4, <1>6 DEF MaskInv, MasksOf, MaskAt
<1>9. Levels'
  BY <1>5, <1>6, LockAssumption DEF Levels, LevelsOf, Held
<1>10. LockInv'
  BY <1>5, <1>6 DEF LockInv
<1>11. MagicInv'
  BY <1>5, <1>6 DEF MagicInv, InOp
<1> QED BY <1>3, <1>7, <1>8, <1>9, <1>10, <1>11 DEF IInv

\* A fork()'s child starts with one thread, one call and a new mutex.
LEMMA ForkChildInv ==
    ASSUME IInv, NEW t \in Threads, libpseudo_atfork_child(t)
    PROVE  IInv'
<1>1. PICK next \in {"lock", "again"} :
          stack' = [u \in Threads |->
                      IF u = t THEN Append(Front(stack[t]),
                        [Top(t) EXCEPT !.kind = "child", !.pc = next,
                                       !.ret = "opened", !.level = 0])
                      ELSE << >>]
  BY DEF libpseudo_atfork_child
<1> DEFINE g == [Top(t) EXCEPT !.kind = "child", !.pc = next, !.ret = "opened", !.level = 0]
<1>2. /\ InCall(t) /\ Top(t).pc = "guts" /\ Top(t).kind = "fork"
      /\ mutex' = NoThread /\ recursion' = 0 /\ holder' = NoThread
      /\ mask' = [u \in Threads |-> IF u = t THEN mask[u] ELSE user[u]]
      /\ UNCHANGED << antimagic, user, savedMask, calls >>
  BY DEF libpseudo_atfork_child, At
<1>3. /\ stack[t] \in Seq(Frame) /\ DOMAIN stack[t] = 1..Len(stack[t]) /\ Len(stack[t]) \in Nat
      /\ Len(stack[t]) \in DOMAIN stack[t] /\ Top(t) = stack[t][Len(stack[t])]
      /\ Top(t) \in Frame
  BY <1>2, StackFacts DEF IInv
<1>4. FrameOK(Top(t)) /\ MaskFits(Top(t), mask[t]) /\ mask \in [Threads -> Masks]
  BY <1>2, TopFacts
<1>5. Len(stack[t]) = 1
  <2>1. StackOK(t)
    BY DEF IInv, Shape
  <2>2. stack[t][Len(stack[t])].kind \in {"fork", "child"} => Len(stack[t]) = 1
    BY <1>3, <2>1 DEF StackOK
  <2> QED BY <1>2, <1>3, <2>2
<1>6. /\ g \in Frame /\ g.pc = next /\ g.saved = Top(t).saved /\ g.kind = "child"
      /\ g.library = Top(t).library /\ g.level = 0 /\ g.ret = "opened"
  BY <1>3 DEF Frame
<1>7. Append(Front(stack[t]), g) = << g >>
  <2>1. Front(stack[t]) = << >>
    BY <1>3, <1>5 DEF Front
  <2> QED BY <2>1
<1>8. stack'[t] = << g >> /\ \A u \in Threads \ {t} : stack'[u] = << >>
  BY <1>1, <1>7
<1>9. << g >> \in Seq(Frame) /\ << >> \in Seq(Frame)
  BY <1>6
<1>10. stack' \in [Threads -> Seq(Frame)]
  BY <1>1, <1>7, <1>9
<1> HIDE DEF g
<1>11. /\ DOMAIN stack'[t] = {1} /\ Len(stack'[t]) = 1 /\ stack'[t][1] = g
       /\ \A u \in Threads \ {t} : DOMAIN stack'[u] = {} /\ Len(stack'[u]) = 0
  BY <1>8
<1>12. \A u \in Threads : \A i \in DOMAIN stack'[u] : u = t /\ i = 1 /\ stack'[u][i] = g
  BY <1>11
<1>13. ~g.library /\ mask[t] = "blocked" /\ next \in {"lock", "again"}
  BY <1>2, <1>4, <1>6 DEF FrameOK, MaskFits
<1>14. FrameOK(g) /\ MaskFits(g, mask'[t])
  BY <1>2, <1>6, <1>13 DEF FrameOK, MaskFits
<1>15. TypeOK'
  BY <1>2, <1>10 DEF IInv, TypeOK
<1>16. Shape'
  <2>1. \A u \in Threads \ {t} : StackOK(u)'
    BY <1>11 DEF StackOK
  <2>2. StackOK(t)'
    BY <1>11, <1>13, <1>14 DEF StackOK, FrameOK
  <2> QED BY <2>1, <2>2 DEF Shape
<1>17. OneThread'
  BY <1>8 DEF OneThread, Forking, InCall
<1>18. MaskInv'
  <2>1. ASSUME NEW u \in Threads \ {t} PROVE MasksOf(u)'
    <3>1. MaskAt(u, 0)' = user'[u]
      BY <1>2, <1>11, <2>1 DEF MaskAt
    <3> QED BY <1>11, <2>1, <3>1 DEF MasksOf
  <2>2. MaskAt(t, 0) = user[t]
    BY DEF IInv, MaskInv, MasksOf
  <2>3. MaskAt(t, 0) = Top(t).saved
    BY <1>2, <1>3, <1>5 DEF MaskAt
  <2>4. MaskAt(t, 0)' = g.saved /\ MaskAt(t, 1)' = mask'[t]
    BY <1>6, <1>11, <1>13 DEF MaskAt
  <2>5. MaskAt(t, 0)' = user'[t]
    BY <1>2, <1>6, <2>2, <2>3, <2>4
  <2>6. MasksOf(t)'
    BY <1>11, <1>14, <2>4, <2>5 DEF MasksOf, MaskFits
  <2> QED BY <2>1, <2>6 DEF MaskInv
<1>19. SavedInv'
  BY <1>6, <1>12 DEF SavedInv
<1>20. MagicInv'
  <2>1. ~InOp
    BY <1>2, <1>3, <1>6, <1>13, NoOtherOp DEF InOp, HeldSteps
  <2>2. ~InOp'
    BY <1>6, <1>12 DEF InOp
  <2> QED BY <1>2, <2>1, <2>2 DEF IInv, MagicInv
<1>21. \A u \in Threads : Held(u)' = {} /\ holder' # u
  BY <1>2, <1>6, <1>12, LockAssumption DEF Held, HeldSteps
<1>22. Levels'
  BY <1>21 DEF Levels, LevelsOf
<1>24. LockInv'
  <2>1. ASSUME NEW u \in Threads, NEW i \in DOMAIN stack'[u]
        PROVE  LockFits(u, stack[u][i])'
    BY <1>2, <1>6, <1>12, <2>1 DEF LockFits, HeldSteps
  <2> QED BY <1>2, <2>1 DEF LockInv
<1> QED BY <1>15, <1>16, <1>17, <1>18, <1>19, <1>20, <1>22, <1>24 DEF IInv
-----------------------------------------------------------------------------
(* The invariant *)

\* A step that changes nothing.
LEMMA StutterInv ==
    ASSUME IInv, UNCHANGED vars
    PROVE  IInv'
<1> USE DEF vars, lockVars, IInv
<1>1. TypeOK'
  BY DEF TypeOK
<1>2. Shape' /\ OneThread' /\ SavedInv'
  BY DEF Shape, StackOK, OneThread, Forking, InCall, SavedInv
<1>3. MaskInv'
  BY DEF MaskInv, MasksOf, MaskAt
<1>4. Levels'
  BY DEF Levels, LevelsOf, Held
<1>5. LockInv'
  BY DEF LockInv, LockFits, Held, At, InCall, Top
<1>6. MagicInv'
  BY DEF MagicInv, InOp
<1> QED BY <1>1, <1>2, <1>3, <1>4, <1>5, <1>6

\* Every step keeps the invariant.
LEMMA NextInv ==
    ASSUME ~LateSignals, IInv, [Next]_vars
    PROVE  IInv'
<1>1. CASE UNCHANGED vars
  BY <1>1, StutterInv
<1>2. ASSUME NEW t \in Threads, pthread_mutex_lock(t) PROVE IInv'
  BY <1>2, MutexLockInv
<1>3. ASSUME NEW t \in Threads, Outside(t) PROVE IInv'
  <2>1. CASE Program(t) \/ Callback(t) \/ Library(t) \/ Handler(t)
    BY <2>1, CallsInv
  <2>2. CASE pthread_sigmask(t)
    BY <2>2, SigmaskInv
  <2>3. CASE FifoOther(t)
    BY <2>3, FifoInv
  <2> QED BY <1>3, <2>1, <2>2, <2>3 DEF Outside
<1>4. ASSUME NEW t \in Threads, NEW u \in Threads, FifoMeet(t, u) PROVE IInv'
  BY <1>4, FifoMeetInv
<1>5. ASSUME NEW t \in Threads, Step(t) PROVE IInv'
  <2>1. CASE pseudo_sigblock(t)
    BY <2>1, SigblockInv
  <2>2. CASE Restore(t)
    BY <2>2, RestoreInv
  <2>3. CASE LockAgain(t)
    BY <2>3, LockAgainInv
  <2>4. CASE LockFirst(t)
    BY <2>4, LockFirstInv
  <2>5. CASE LockClaim(t)
    BY <2>5, LockClaimInv
  <2>6. CASE pseudo_droplock(t)
    BY <2>6, DroplockInv, DropAgainInv DEF pseudo_droplock
  <2>7. CASE DropClear(t)
    BY <2>7, DropClearInv
  <2>8. CASE pthread_mutex_unlock(t)
    BY <2>8, UnlockInv
  <2>9. CASE Decide(t)
    BY <2>9, DecideInv
  <2>10. CASE pseudo_antimagic(t) \/ pseudo_magic(t)
    BY <2>10, OpInv
  <2>11. CASE RealCall(t) \/ WalkDone(t) \/ ExecReturns(t) \/ ForkParent(t)
    <3>1. /\ InCall(t) /\ Top(t).pc \in {"real", "ignored", "guts", "exec"}
          /\ Drop(t, "restore")
          /\ UNCHANGED << lockVars, antimagic, mask, user, savedMask, calls >>
      BY <2>11 DEF RealCall, WalkDone, ExecReturns, ForkParent, At
    <3> QED BY <3>1, DropNextInv
  <2>12. CASE FifoDrop(t)
    <3>1. /\ InCall(t) /\ Top(t).pc = "guts" /\ Top(t).kind = "fifo" /\ Drop(t, "unmask")
          /\ UNCHANGED << lockVars, antimagic, mask, user, savedMask, calls >>
      BY <2>12 DEF FifoDrop, At
    <3> QED BY <3>1, DropNextInv
  <2>13. CASE FifoUnmask(t) \/ FifoRemask(t)
    BY <2>13, FifoInv
  <2>14. CASE ExecUnmask(t)
    BY <2>14, ExecUnmaskInv
  <2>15. CASE ExecSucceeds(t)
    BY <2>15, ExecSucceedsInv
  <2>16. CASE libpseudo_atfork_child(t)
    BY <2>16, ForkChildInv
  <2> QED BY <1>5, <2>1, <2>2, <2>3, <2>4, <2>5, <2>6, <2>7, <2>8, <2>9, <2>10, <2>11,
             <2>12, <2>13, <2>14, <2>15, <2>16 DEF Step
<1> QED BY <1>1, <1>2, <1>3, <1>4, <1>5 DEF Next

\* The invariant holds in every reachable state, when no signal arrives while
\* the wrapper of an exec*() that has failed, or of a posix_spawn*(), gives up
\* the lock.
THEOREM Invariant ==
    ASSUME ~LateSignals
    PROVE  Spec => []IInv
<1>1. IInv /\ [Next]_vars => IInv'
  BY NextInv
<1> QED BY <1>1, InitInv, PTL DEF Spec
-----------------------------------------------------------------------------
(* The theorems *)

\* TypeOK: every variable keeps its type (frames of wrapped calls, the two
\* lock variables, pseudo_mutex_recursion, antimagic and the signal masks).
THEOREM TypeCorrect ==
    ASSUME ~LateSignals
    PROVE  Spec => []TypeOK
<1>1. IInv => TypeOK
  BY DEF IInv
<1> QED BY <1>1, Invariant, PTL

\* The lock excludes, for any number of threads and any nesting of callbacks,
\* handlers and the library's own calls, except handlers that run while exec*()
\* or posix_spawn*() drops the lock with the mask restored (~LateSignals, without
\* which it is false): who is inside the body of a wrapped call owns pseudo_mutex
\* and is pseudo_mutex_holder, through the dropped lock of a FIFO's open(), a
\* failed exec*(), a posix_spawn*() and a fork()'s child.
THEOREM LockExcludes ==
    ASSUME ~LateSignals
    PROVE  Spec => []Excludes
<1>1. IInv => Excludes
  BY DEF IInv, LockInv, LockFits, Excludes, Holds
<1> QED BY <1>1, Invariant, PTL

\* antimagic tells the program's calls from the library's: a call is passed
\* through to the real function exactly when pseudo_client_op() made it.
THEOREM AntimagicTells ==
    ASSUME ~LateSignals
    PROVE  Spec => []OwnCallsOnly
<1>1. IInv => OwnCallsOnly
  BY DEF IInv, Shape, StackOK, FrameOK, OwnCallsOnly
<1> QED BY <1>1, Invariant, PTL

\* The signal mask comes back: between calls a thread has the mask the program
\* gave it, and exec*() runs with the mask it was called with, although all
\* threads write the one pseudo_saved_sigmask.
THEOREM MaskComesBack ==
    ASSUME ~LateSignals
    PROVE  Spec => []MaskKept
<1>1. IInv => MaskKept
  <2> SUFFICES ASSUME IInv, NEW t \in Threads
               PROVE  /\ ~InCall(t) => mask[t] = user[t]
                      /\ At(t, "exec") => mask[t] = Top(t).saved
    BY DEF MaskKept
  <2>1. ~InCall(t) => mask[t] = user[t]
    <3>1. ~InCall(t) => Len(stack[t]) = 0
      BY StackFacts DEF IInv
    <3>2. MaskAt(t, 0) = user[t]
      BY DEF IInv, MaskInv, MasksOf
    <3> QED BY <3>1, <3>2 DEF MaskAt
  <2>2. At(t, "exec") => mask[t] = Top(t).saved
    BY TopFacts DEF At, MaskFits
  <2> QED BY <2>1, <2>2
<1> QED BY <1>1, Invariant, PTL

\* No thread waits for the lock it has itself: pseudo_getlock() finds a thread
\* that owns the mutex recorded as its holder.  This is the property that run
\* exec_deadlock refutes when signals arrive late, and the assumption is needed.
THEOREM NoWaitForOneself ==
    ASSUME ~LateSignals
    PROVE  Spec => []NoSelfDeadlock
<1>1. IInv => NoSelfDeadlock
  <2> SUFFICES ASSUME IInv, NEW t \in Threads, At(t, "lock"), mutex = t
               PROVE  holder = t
    BY DEF NoSelfDeadlock
  <2>1. mutex # NoThread
    BY LockAssumption
  <2>2. ~(At(t, "count") \/ At(t, "claim") \/ At(t, "unlock"))
    BY DEF At
  <2> QED BY <2>1, <2>2 DEF IInv, LockInv
<1> QED BY <1>1, Invariant, PTL
=============================================================================
