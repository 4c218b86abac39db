------------------------- MODULE PseudoServer_proof -------------------------
(***************************************************************************)
(* Proofs about the event loop of the server, for any number of            *)
(* connections, any table growth and any timeouts.                         *)
(*                                                                         *)
(* The properties are not inductive one by one.  That a peaceful exit      *)
(* abandons nobody needs the count of clients to be right when a SHUTDOWN  *)
(* arrives; the count is kept by close_client() only because the slot it   *)
(* is given is occupied and covered by highest_client; and that it is      *)
(* occupied needs the events of a batch to stay valid while the others of  *)
(* the batch are handled.  IInv says all of this together.                 *)
(*                                                                         *)
(* That nobody who was not told to leaves before a whole timeout rests on  *)
(* a second invariant, TInv, which adds the timers.                        *)
(***************************************************************************)
EXTENDS PseudoServer, FiniteSetTheorems, TLAPS

\* The events still to be handled belong to occupied slots.
BatchOpen == batch \subseteq OpenSlots

\* What lies in a socket is the last message of its sender.
UnreadIsLast == \A k \in Conns : unread[k] # "none" => last[k] = unread[k]

\* Once the server means to leave, only whoever asked for it is attached.
PeaceAgreed ==
    /\ pc = "exited" => die_peacefully \/ die_forcefully
    /\ die_peacefully => \A k \in Conns : conn[k] = "attached" => last[k] = "shutdown"

\* While a longer timer is still running after a refusal, somebody is attached
\* whose departure will restart it.
TimerWillRestart ==
    pseudo_server_timeout = ShortTimeout /\ loop_timeout > ShortTimeout =>
        \E i \in OpenSlots \ {0} : i \notin batch

IInv ==
    /\ TypeOK /\ CountRight /\ SlotsCovered /\ OneSlotEach
    /\ BatchOpen /\ UnreadIsLast /\ PeaceAgreed /\ TimerWillRestart

-----------------------------------------------------------------------------
(* Lemmas about the table *)

\* The occupied slots are finitely many.
LEMMA OpenSlotsFinite ==
    ASSUME TypeOK
    PROVE  IsFiniteSet(OpenSlots) /\ OpenSlots \subseteq Slots /\ 0 \in Slots
<1>1. OpenSlots \subseteq Slots /\ 0 \in Slots
  BY DEF TypeOK, OpenSlots, Slots
<1>2. IsFiniteSet(0 .. max_clients - 1)
  BY FS_Interval DEF TypeOK
<1> QED
  BY <1>1, <1>2, FS_Subset DEF Slots

\* active_clients = 1 means that nobody is attached (the server gets bored).
LEMMA AloneIfOne ==
    ASSUME TypeOK, CountRight, OneSlotEach, active_clients = 1
    PROVE  OpenSlots = {0} /\ \A k \in Conns : conn[k] # "attached"
<1>1. 0 \in OpenSlots
  BY OpenSlotsFinite DEF OneSlotEach, OpenSlots, TypeOK, ListenFd, NoFd
<1>2. PICK x : OpenSlots = {x}
  BY OpenSlotsFinite, FS_Singleton DEF CountRight
<1>3. OpenSlots = {0}
  BY <1>1, <1>2
<1> QED
  BY <1>3, ConnsAssumption DEF OneSlotEach

\* active_clients <= 2 means that a requester is the only one attached.
LEMMA OnlyRequester ==
    ASSUME TypeOK, CountRight, OneSlotEach, active_clients <= 2,
           NEW i \in OpenSlots \ {0}
    PROVE  \A k \in Conns : conn[k] = "attached" => k = fd[i]
<1>1. 0 \in OpenSlots
  BY OpenSlotsFinite DEF OneSlotEach, OpenSlots, TypeOK, ListenFd, NoFd
<1> DEFINE Rest == OpenSlots \ {0}
<1>2. IsFiniteSet(Rest) /\ Cardinality(Rest) = Cardinality(OpenSlots) - 1
  BY <1>1, OpenSlotsFinite, FS_RemoveElement
<1>3. Cardinality(Rest) <= 1 /\ Cardinality(Rest) \in Nat
  BY <1>2, FS_CardinalityType DEF CountRight, TypeOK
<1>4. Cardinality(Rest) # 0
  BY <1>2, FS_EmptySet
<1>5. Cardinality(Rest) = 1
  BY <1>3, <1>4
<1>6. PICK x : Rest = {x}
  BY <1>2, <1>5, FS_Singleton
<1>7. Rest = {i}
  BY <1>6
<1> QED
  BY <1>7, ConnsAssumption DEF OneSlotEach

\* open_client() occupies one slot that was free, within highest_client and the
\* table, and leaves the other slots alone.
LEMMA OpenClientTable ==
    ASSUME TypeOK, SlotsCovered, NEW k \in Conns, open_client(k)
    PROVE  \E s \in Nat :
              /\ s \notin OpenSlots /\ OpenSlots' = OpenSlots \cup {s}
              /\ fd'[s] = k /\ \A i \in OpenSlots : fd'[i] = fd[i]
              /\ s <= highest_client' /\ highest_client <= highest_client'
              /\ highest_client' \in Nat /\ highest_client' < max_clients'
              /\ max_clients' \in Nat /\ max_clients' > 1 /\ Slots \subseteq Slots'
              /\ fd' \in [Slots' -> Conns \cup {ListenFd, NoFd}]
              /\ pid' \in [Slots' -> Conns \cup {NoPid}]
<1>0. k # NoFd
  BY ConnsAssumption
<1>1. CASE \E i \in FreeSlots :
              /\ \A j \in FreeSlots : i <= j
              /\ fd' = [fd EXCEPT ![i] = k]
              /\ pid' = [pid EXCEPT ![i] = NoPid]
              /\ highest_client' = IF i > highest_client THEN i ELSE highest_client
              /\ UNCHANGED max_clients
  <2>1. PICK i \in FreeSlots :
              /\ fd' = [fd EXCEPT ![i] = k]
              /\ pid' = [pid EXCEPT ![i] = NoPid]
              /\ highest_client' = IF i > highest_client THEN i ELSE highest_client
              /\ UNCHANGED max_clients
    BY <1>1
  <2>2. i \in Slots /\ fd[i] = NoFd /\ i \in Nat
    BY <2>1 DEF FreeSlots, Slots, TypeOK
  <2>3. i \notin OpenSlots /\ OpenSlots' = OpenSlots \cup {i}
    BY <1>0, <2>1, <2>2 DEF OpenSlots, TypeOK
  <2> QED
    BY <2>1, <2>2, <2>3, SMTT(30) DEF TypeOK, SlotsCovered, Slots, OpenSlots
<1>2. CASE /\ FreeSlots = {}
           /\ fd' = [i \in 0 .. max_clients + Chunk - 1 |->
                       IF i < max_clients THEN fd[i]
                       ELSE IF i = max_clients THEN k ELSE NoFd]
           /\ pid' = [i \in 0 .. max_clients + Chunk - 1 |->
                       IF i < max_clients THEN pid[i] ELSE NoPid]
           /\ highest_client' = max_clients + 1
           /\ max_clients' = max_clients + Chunk
  <2>1. /\ max_clients \in Nat /\ max_clients > 1 /\ Chunk \in Nat /\ Chunk > 1
        /\ Slots' = 0 .. max_clients + Chunk - 1
        /\ OpenSlots \subseteq 0 .. max_clients - 1
    BY <1>2, ChunkAssumption DEF TypeOK, Slots, OpenSlots
  <2>2. max_clients \notin OpenSlots /\ OpenSlots' = OpenSlots \cup {max_clients}
    <3>1. DOMAIN fd = 0 .. max_clients - 1 /\ DOMAIN fd' = 0 .. max_clients + Chunk - 1
      BY <1>2 DEF TypeOK, Slots
    <3> QED
      BY <1>0, <1>2, <2>1, <3>1 DEF OpenSlots
  <2>3. fd' \in [Slots' -> Conns \cup {ListenFd, NoFd}]
    BY <1>2, <2>1 DEF TypeOK, Slots
  <2>4. pid' \in [Slots' -> Conns \cup {NoPid}]
    BY <1>2, <2>1 DEF TypeOK, Slots
  <2>5. fd'[max_clients] = k /\ \A i \in OpenSlots : fd'[i] = fd[i]
    BY <1>2, <2>1
  <2>6. /\ max_clients <= highest_client' /\ highest_client <= highest_client'
        /\ highest_client' \in Nat /\ highest_client' < max_clients'
        /\ max_clients' \in Nat /\ max_clients' > 1 /\ Slots \subseteq Slots'
    BY <1>2, <2>1 DEF TypeOK, SlotsCovered, Slots
  <2> QED
    BY <2>1, <2>2, <2>3, <2>4, <2>5, <2>6
<1> QED
  BY <1>1, <1>2 DEF open_client

\* Nothing about the table changes when neither it nor the connections do.
LEMMA TableUnchanged ==
    ASSUME IInv, UNCHANGED << fd, active_clients, highest_client, max_clients, conn >>
    PROVE  OpenSlots' = OpenSlots /\ CountRight' /\ SlotsCovered' /\ OneSlotEach'
<1>1. OpenSlots' = OpenSlots
  BY DEF OpenSlots
<1> QED
  BY <1>1 DEF IInv, CountRight, SlotsCovered, OneSlotEach

\* Handling an event takes it, and perhaps all others, off the batch, and may end
\* the loop only with a die flag set.
LEMMA HandledBatch ==
    ASSUME TypeOK, NEW i, Handled(i)
    PROVE  /\ batch' \subseteq batch /\ i \notin batch'
           /\ pc' \in {pc, "wait", "exited"}
           /\ pc' = "exited" /\ pc # "exited" => die_peacefully' \/ die_forcefully
BY DEF Handled, EndLoop

-----------------------------------------------------------------------------
(* Every step preserves the invariant *)

\* A process that connects, sends or leaves disturbs nothing.
LEMMA ProcessInv ==
    ASSUME IInv, ProcessStep
    PROVE  IInv'
<1>1. PICK k \in Conns : Connect(k) \/ SendMessage(k) \/ Leave(k)
  BY DEF ProcessStep
<1> USE DEF IInv, scan
<1>2. CASE Connect(k)
  <2>1. TypeOK'
    BY <1>2 DEF Connect, TypeOK, table, timers, dying, Slots, Messages, NoAnswer
  <2>2. OpenSlots' = OpenSlots /\ conn[k] # "attached" /\ conn'[k] # "attached"
    BY <1>2 DEF Connect, table, OpenSlots, TypeOK
  <2>3. CountRight' /\ SlotsCovered' /\ BatchOpen' /\ TimerWillRestart'
    BY <1>2, <2>2 DEF Connect, table, timers, CountRight, SlotsCovered, BatchOpen,
                      TimerWillRestart
  <2>4. OneSlotEach'
    <3>1. \A j \in Conns : conn'[j] = "attached" <=> conn[j] = "attached"
      BY <1>2, <2>2 DEF Connect, TypeOK
    <3> QED
      BY <1>2, <2>2, <3>1 DEF Connect, table, OneSlotEach
  <2>5. UnreadIsLast' /\ PeaceAgreed'
    BY <1>2 DEF Connect, dying, UnreadIsLast, PeaceAgreed, TypeOK
  <2> QED
    BY <2>1, <2>3, <2>4, <2>5
<1>3. CASE SendMessage(k)
  <2>1. PICK type \in MayFollow(last[k]) :
            /\ unread' = [unread EXCEPT ![k] = type]
            /\ last' = [last EXCEPT ![k] = type]
    BY <1>3 DEF SendMessage
  <2>2. type \in Messages /\ last[k] # "shutdown"
    BY <2>1 DEF MayFollow, Messages
  <2>3. TypeOK'
    BY <1>3, <2>1, <2>2 DEF SendMessage, TypeOK, table, timers, dying, Slots, Messages,
                            NoAnswer
  <2>4. CountRight' /\ SlotsCovered' /\ OneSlotEach' /\ OpenSlots' = OpenSlots
    BY <1>3, TableUnchanged DEF SendMessage, table
  <2>5. BatchOpen' /\ TimerWillRestart'
    BY <1>3, <2>4 DEF SendMessage, timers, BatchOpen, TimerWillRestart
  <2>6. UnreadIsLast' /\ PeaceAgreed'
    BY <1>3, <2>1, <2>2 DEF SendMessage, dying, UnreadIsLast, PeaceAgreed, TypeOK
  <2> QED
    BY <2>3, <2>4, <2>5, <2>6
<1>4. CASE Leave(k)
  <2>1. TypeOK'
    BY <1>4 DEF Leave, TypeOK, table, timers, dying, Slots
  <2>2. CountRight' /\ SlotsCovered' /\ OneSlotEach' /\ OpenSlots' = OpenSlots
    BY <1>4, TableUnchanged DEF Leave, table
  <2> QED
    BY <1>4, <2>1, <2>2 DEF Leave, timers, dying, BatchOpen, TimerWillRestart,
                            UnreadIsLast, PeaceAgreed
<1> QED
  BY <1>1, <1>2, <1>3, <1>4

\* epoll_wait() with events: the batch is of occupied slots, the timer restarts.
LEMMA WakeInv ==
    ASSUME IInv, Wake
    PROVE  IInv'
<1> USE DEF IInv, scan
<1>1. batch' \subseteq OpenSlots
  BY DEF Wake, EpollReports, SelectReports, Silent, Ready
<1>2. TypeOK'
  <2>1. hitmaxfiles' \in BOOLEAN
    BY Zenon DEF Wake, EpollReports, SelectReports, TypeOK
  <2>2. victim' \in Nat
    BY OpenSlotsFinite DEF Wake, EpollReports, SelectReports, Silent, TypeOK, Slots
  <2> QED
    BY <1>1, <2>1, <2>2, OpenSlotsFinite DEF Wake, TypeOK, table, dying, clients, Slots
<1>3. CountRight' /\ SlotsCovered' /\ OneSlotEach' /\ OpenSlots' = OpenSlots
  BY TableUnchanged DEF Wake, table, clients
<1>4. TimerWillRestart'
  BY DEF Wake, TypeOK, TimerWillRestart, ShortTimeout
<1>5. BatchOpen' /\ UnreadIsLast' /\ PeaceAgreed'
  BY <1>1, <1>3 DEF Wake, dying, clients, BatchOpen, UnreadIsLast, PeaceAgreed
<1> QED
  BY <1>2, <1>3, <1>4, <1>5

\* epoll_wait() without events: a server that decides to leave is alone.
LEMMA NoEventInv ==
    ASSUME IInv, Tick \/ Interrupted
    PROVE  IInv'
<1> USE DEF IInv, scan
<1>1. NoEvent /\ TypeOK'
  <2>0. NoEvent /\ idle' \in Nat /\ signals' \in Nat
    BY DEF Tick, Interrupted, TypeOK, LOOP_DELAY
  <2>1. /\ loop_timeout' \in Int /\ pc' \in {"wait", "batch", "exited"}
    BY <2>0 DEF NoEvent, EndLoop, TypeOK, LOOP_DELAY
  <2>2. die_peacefully' \in BOOLEAN
    <3>1. CASE active_clients = 1
      BY <2>0, <3>1, Zenon DEF NoEvent
    <3>2. CASE active_clients # 1
      BY <2>0, <3>2 DEF NoEvent, TypeOK
    <3> QED
      BY <3>1, <3>2
  <2> QED
    BY <2>0, <2>1, <2>2 DEF NoEvent, TypeOK, table, clients, Slots
<1>2. CountRight' /\ SlotsCovered' /\ OneSlotEach' /\ OpenSlots' = OpenSlots
  BY <1>1, TableUnchanged DEF NoEvent, table, clients
<1>3. BatchOpen' /\ UnreadIsLast'
  BY <1>1, <1>2 DEF NoEvent, clients, BatchOpen, UnreadIsLast
<1>4. TimerWillRestart'
  BY <1>1, <1>2 DEF NoEvent, TypeOK, TimerWillRestart, LOOP_DELAY, ShortTimeout
<1>5. PeaceAgreed'
  <2>1. pc' = "exited" => die_peacefully' \/ die_forcefully'
    BY <1>1 DEF NoEvent, EndLoop
  <2>2. CASE active_clients = 1
    BY <1>1, <2>1, <2>2, AloneIfOne DEF NoEvent, clients, PeaceAgreed
  <2>3. CASE active_clients # 1
    BY <1>1, <2>1, <2>3 DEF NoEvent, clients, PeaceAgreed
  <2> QED
    BY <2>2, <2>3
<1> QED
  BY <1>1, <1>2, <1>3, <1>4, <1>5

\* A new client gets a slot of its own, is counted and keeps the server alive.
LEMMA AcceptInv ==
    ASSUME IInv, Accept
    PROVE  IInv'
<1> USE DEF IInv, scan
<1>1. PICK k \in Conns : /\ conn[k] = "queued"
                         /\ conn' = [conn EXCEPT ![k] = "attached"]
                         /\ open_client(k)
  BY DEF Accept
<1>2. PICK s \in Nat :
              /\ s \notin OpenSlots /\ OpenSlots' = OpenSlots \cup {s}
              /\ fd'[s] = k /\ \A i \in OpenSlots : fd'[i] = fd[i]
              /\ s <= highest_client' /\ highest_client <= highest_client'
              /\ highest_client' \in Nat /\ highest_client' < max_clients'
              /\ max_clients' \in Nat /\ max_clients' > 1 /\ Slots \subseteq Slots'
              /\ fd' \in [Slots' -> Conns \cup {ListenFd, NoFd}]
              /\ pid' \in [Slots' -> Conns \cup {NoPid}]
  BY <1>1, OpenClientTable
<1>3. batch' \subseteq batch /\ pc' \in {"batch", "wait", "exited"}
      /\ (pc' = "exited" => die_peacefully' \/ die_forcefully)
  BY HandledBatch DEF Accept, Turn
<1>4. TypeOK'
  <2>1. die_peacefully' \in BOOLEAN /\ die_forcefully' \in BOOLEAN
    BY Zenon DEF Accept, Cancel, TypeOK
  <2>2. batch' \subseteq Slots'
    BY <1>2, <1>3 DEF TypeOK
  <2>3. conn' \in [Conns -> {"new", "queued", "attached", "closed"}]
    BY <1>1 DEF TypeOK
  <2>4. active_clients' \in Int /\ pseudo_server_timeout' \in Nat
    BY TimeoutAssumption DEF Accept, Cancel, TypeOK
  <2> QED
    BY <1>2, <1>3, <2>1, <2>2, <2>3, <2>4 DEF Accept, TypeOK
<1>5. CountRight'
  BY <1>2, OpenSlotsFinite, FS_AddElement DEF Accept, CountRight
<1>6. SlotsCovered'
  BY <1>2, OpenSlotsFinite DEF SlotsCovered, TypeOK, Slots
<1>7. OneSlotEach'
  <2>1. 0 \in OpenSlots
    BY OpenSlotsFinite DEF OneSlotEach, OpenSlots, TypeOK, ListenFd, NoFd
  <2>2. fd'[0] = ListenFd /\ s # 0
    BY <1>2, <2>1 DEF OneSlotEach
  <2>3. \A i \in OpenSlots : fd[i] # k
    BY <1>1, ConnsAssumption DEF OneSlotEach
  <2>4. \A i \in OpenSlots' \ {0} : fd'[i] \in Conns /\ conn'[fd'[i]] = "attached"
    BY <1>1, <1>2, <2>3 DEF OneSlotEach, TypeOK
  <2>5. \A i, j \in OpenSlots' : fd'[i] = fd'[j] => i = j
    BY <1>2, <2>3 DEF OneSlotEach
  <2>6. \A c \in Conns : conn'[c] = "attached" => \E i \in OpenSlots' : fd'[i] = c
    <3> SUFFICES ASSUME NEW c \in Conns, conn'[c] = "attached"
                 PROVE  \E i \in OpenSlots' : fd'[i] = c
      OBVIOUS
    <3>1. CASE c = k
      BY <1>2, <3>1
    <3>2. CASE c # k
      <4>1. conn[c] = "attached"
        BY <1>1, <3>2 DEF TypeOK
      <4> QED
        BY <1>2, <4>1 DEF OneSlotEach
    <3> QED
      BY <3>1, <3>2
  <2> QED
    BY <2>2, <2>4, <2>5, <2>6 DEF OneSlotEach
<1>8. BatchOpen' /\ UnreadIsLast'
  BY <1>2, <1>3 DEF Accept, BatchOpen, UnreadIsLast
<1>9. PeaceAgreed' /\ TimerWillRestart'
  BY <1>3, TimeoutAssumption DEF Accept, Cancel, PeaceAgreed, TimerWillRestart
<1> QED
  BY <1>4, <1>5, <1>6, <1>7, <1>8, <1>9

\* A connection that is closed at once was never in the table.
LEMMA AcceptNoMemoryInv ==
    ASSUME IInv, AcceptNoMemory
    PROVE  IInv'
<1> USE DEF IInv, scan
<1>1. PICK k \in Conns : conn[k] = "queued" /\ conn' = [conn EXCEPT ![k] = "closed"]
  BY DEF AcceptNoMemory
<1>2. batch' \subseteq batch /\ pc' \in {"batch", "wait", "exited"}
      /\ (pc' = "exited" => die_peacefully' \/ die_forcefully)
  BY HandledBatch DEF AcceptNoMemory, Turn
<1>3. OpenSlots' = OpenSlots /\ Slots' = Slots
  BY DEF AcceptNoMemory, table, OpenSlots, Slots
<1>4. TypeOK'
  <2>1. die_peacefully' \in BOOLEAN /\ die_forcefully' \in BOOLEAN
    BY Zenon DEF AcceptNoMemory, Cancel, TypeOK
  <2>2. conn' \in [Conns -> {"new", "queued", "attached", "closed"}]
    BY <1>1 DEF TypeOK
  <2>3. pseudo_server_timeout' \in Nat
    BY TimeoutAssumption DEF AcceptNoMemory, Cancel
  <2> QED
    BY <1>2, <1>3, <2>1, <2>2, <2>3, TimeoutAssumption DEF AcceptNoMemory, table, TypeOK
<1>5. CountRight' /\ SlotsCovered'
  BY <1>3 DEF AcceptNoMemory, table, CountRight, SlotsCovered
<1>6. OneSlotEach'
  <2>1. \A c \in Conns : conn'[c] = "attached" <=> conn[c] = "attached"
    BY <1>1 DEF TypeOK
  <2> QED
    BY <1>3, <2>1 DEF AcceptNoMemory, table, OneSlotEach
<1>7. BatchOpen' /\ UnreadIsLast'
  BY <1>2, <1>3 DEF AcceptNoMemory, BatchOpen, UnreadIsLast
<1>8. PeaceAgreed' /\ TimerWillRestart'
  BY <1>2, TimeoutAssumption DEF AcceptNoMemory, Cancel, PeaceAgreed, TimerWillRestart
<1> QED
  BY <1>4, <1>5, <1>6, <1>7, <1>8

\* A failed or skipped accept() changes nothing but the batch.
LEMMA AcceptNothingInv ==
    ASSUME IInv, AcceptNothing
    PROVE  IInv'
<1> USE DEF IInv, scan
<1>1. batch' \subseteq batch /\ pc' \in {"batch", "wait", "exited"}
      /\ (pc' = "exited" => die_peacefully' \/ die_forcefully)
  BY HandledBatch DEF AcceptNothing, Turn
<1>2. TypeOK'
  <2>1. faults' \in 0 .. MaxFaults
    BY TimeoutAssumption DEF AcceptNothing, TypeOK
  <2>2. hitmaxfiles' \in BOOLEAN
    BY DEF AcceptNothing, TypeOK
  <2> QED
    BY <1>1, <2>1, <2>2 DEF AcceptNothing, table, timers, dying, clients, TypeOK, Slots
<1>3. CountRight' /\ SlotsCovered' /\ OneSlotEach' /\ OpenSlots' = OpenSlots
  BY TableUnchanged DEF AcceptNothing, table, clients
<1>4. BatchOpen' /\ UnreadIsLast' /\ TimerWillRestart'
  BY <1>1, <1>3 DEF AcceptNothing, clients, timers, BatchOpen, UnreadIsLast,
                    TimerWillRestart
<1>5. PeaceAgreed'
  BY <1>1 DEF AcceptNothing, dying, clients, PeaceAgreed
<1> QED
  BY <1>2, <1>3, <1>4, <1>5

\* Closing a slot frees exactly that slot: it is occupied, and not beyond
\* highest_client.
LEMMA CloseEventInv ==
    ASSUME IInv, NEW i \in batch, CloseEvent(i)
    PROVE  IInv'
<1> USE DEF IInv, scan
<1>1. i \in OpenSlots \ {0} /\ i \in Nat /\ i \in Slots /\ i > 0 /\ i <= highest_client
  BY OpenSlotsFinite DEF CloseEvent, Turn, BatchOpen, SlotsCovered, Slots, TypeOK
<1>2. fd[i] \in Conns /\ conn[fd[i]] = "attached"
  BY <1>1 DEF OneSlotEach
<1>3. /\ fd' = [fd EXCEPT ![i] = NoFd]
      /\ pid' = [pid EXCEPT ![i] = NoPid]
      /\ active_clients' = active_clients - 1
      /\ highest_client' = LowerHighest(i, fd')
      /\ conn' = [conn EXCEPT ![fd[i]] = "closed"]
      /\ max_clients' = max_clients
  BY <1>1 DEF CloseEvent, close_client, TypeOK
<1>4. highest_client' = highest_client
  BY <1>1, <1>3 DEF LowerHighest, TypeOK
<1>5. OpenSlots' = OpenSlots \ {i} /\ Slots' = Slots
  BY <1>1, <1>3 DEF OpenSlots, Slots, TypeOK
<1>6. batch' \subseteq batch /\ i \notin batch' /\ pc' \in {"batch", "wait", "exited"}
      /\ (pc' = "exited" => die_peacefully' \/ die_forcefully)
  BY HandledBatch DEF CloseEvent, Turn
<1>7. TypeOK'
  <2>1. fd' \in [Slots -> Conns \cup {ListenFd, NoFd}] /\ pid' \in [Slots -> Conns \cup {NoPid}]
    BY <1>1, <1>3 DEF TypeOK
  <2>2. conn' \in [Conns -> {"new", "queued", "attached", "closed"}]
    BY <1>2, <1>3 DEF TypeOK
  <2>3. active_clients' \in Int
    BY <1>3 DEF TypeOK
  <2> QED
    BY <1>3, <1>4, <1>5, <1>6, <2>1, <2>2, <2>3 DEF CloseEvent, timers, dying, TypeOK
<1>8. CountRight'
  BY <1>1, <1>3, <1>5, OpenSlotsFinite, FS_RemoveElement DEF CountRight
<1>9. SlotsCovered'
  BY <1>3, <1>4, <1>5 DEF SlotsCovered
<1>10. OneSlotEach'
  <2>1. \A j \in OpenSlots' : fd'[j] = fd[j] /\ fd[j] # fd[i]
    BY <1>1, <1>3, <1>5 DEF OneSlotEach, TypeOK, OpenSlots
  <2>2. 0 \in OpenSlots'
    BY <1>1, <1>5, OpenSlotsFinite DEF OneSlotEach, OpenSlots, TypeOK, ListenFd, NoFd
  <2>3. \A c \in Conns : conn'[c] = "attached" <=> conn[c] = "attached" /\ c # fd[i]
    BY <1>2, <1>3 DEF TypeOK
  <2> QED
    BY <1>5, <2>1, <2>2, <2>3 DEF OneSlotEach
<1>11. BatchOpen' /\ UnreadIsLast'
  BY <1>5, <1>6 DEF CloseEvent, BatchOpen, UnreadIsLast
<1>12. PeaceAgreed'
  <2>1. \A c \in Conns : conn'[c] = "attached" => conn[c] = "attached"
    BY <1>2, <1>3 DEF TypeOK
  <2> QED
    BY <1>6, <2>1 DEF CloseEvent, dying, PeaceAgreed
<1>13. TimerWillRestart'
  BY <1>5, <1>6 DEF CloseEvent, timers, TimerWillRestart
<1> QED
  BY <1>7, <1>8, <1>9, <1>10, <1>11, <1>12, <1>13

\* Answering a request empties the socket and changes no slot; a shutdown is
\* agreed to only when its requester is alone, and a refusal shortens the timeout
\* while the requester is still attached.
LEMMA ServeInv ==
    ASSUME IInv, NEW i \in batch, serve_client(i)
    PROVE  IInv'
<1> USE DEF IInv, scan
<1>1. i \in OpenSlots \ {0} /\ i \in Slots /\ fd[i] \in Conns
  BY OpenSlotsFinite DEF serve_client, Turn, BatchOpen, OneSlotEach
<1>2. CountRight' /\ SlotsCovered' /\ OneSlotEach' /\ OpenSlots' = OpenSlots
  BY TableUnchanged DEF serve_client
<1>3. batch' \subseteq batch /\ i \notin batch' /\ pc' \in {"batch", "wait", "exited"}
      /\ (pc' = "exited" => die_peacefully' \/ die_forcefully)
  BY HandledBatch DEF serve_client, Turn
<1>4. UnreadIsLast' /\ BatchOpen'
  <2>1. unread' = [unread EXCEPT ![fd[i]] = "none"]
    BY DEF serve_client, ServePing, ServeOp, ServeShutdown, Reply
  <2> QED
    BY <1>1, <1>2, <1>3, <2>1 DEF serve_client, UnreadIsLast, BatchOpen, TypeOK
<1>5. ASSUME NEW ans \in [type : {"none", "ack", "nak"}, pids : SUBSET (Conns \cup {NoPid})],
             Reply(fd[i], ans), pid' \in [Slots -> Conns \cup {NoPid}],
             pseudo_server_timeout' \in Nat, die_peacefully' \in BOOLEAN
      PROVE  TypeOK'
  <2>1. unread' \in [Conns -> Messages]
    BY <1>1, <1>5 DEF Reply, TypeOK, Messages
  <2>2. answer' \in [Conns -> [type : {"none", "ack", "nak"},
                               pids : SUBSET (Conns \cup {NoPid})]]
    BY <1>1, <1>5 DEF Reply, TypeOK
  <2> QED
    BY <1>3, <1>5, <2>1, <2>2 DEF serve_client, TypeOK, Slots
<1>6. [type |-> "ack", pids |-> {}] \in
         [type : {"none", "ack", "nak"}, pids : SUBSET (Conns \cup {NoPid})]
  OBVIOUS
<1>7. CASE ServePing(i) \/ ServeOp(i)
  <2>1. pid' \in [Slots -> Conns \cup {NoPid}]
    BY <1>1, <1>7 DEF ServePing, ServeOp, TypeOK
  <2>2. pseudo_server_timeout' = pseudo_server_timeout /\ die_peacefully' = die_peacefully
    BY <1>7 DEF ServePing, ServeOp
  <2>3. TypeOK'
    BY <1>5, <1>6, <1>7, <2>1, <2>2 DEF ServePing, ServeOp, TypeOK
  <2>4. PeaceAgreed'
    BY <1>3, <2>2 DEF serve_client, PeaceAgreed
  <2>5. TimerWillRestart'
    BY <1>2, <1>3, <2>2 DEF serve_client, TimerWillRestart
  <2> QED
    BY <1>2, <1>4, <2>3, <2>4, <2>5
<1>8. CASE ServeShutdown(i)
  <2>1. pid' \in [Slots -> Conns \cup {NoPid}] /\ unread[fd[i]] = "shutdown"
    BY <1>8 DEF ServeShutdown, TypeOK
  <2>2. CASE /\ active_clients > 2
             /\ Reply(fd[i], [type |-> "nak", pids |-> OtherPids(i)])
             /\ pseudo_server_timeout' = ShortTimeout
             /\ die_peacefully' = die_peacefully
    <3>1. OtherPids(i) \subseteq Conns \cup {NoPid}
      BY DEF OtherPids, TypeOK, SlotsCovered, Slots
    <3>2. [type |-> "nak", pids |-> OtherPids(i)] \in
             [type : {"none", "ack", "nak"}, pids : SUBSET (Conns \cup {NoPid})]
      BY <3>1
    <3>3. TypeOK'
      BY <1>5, <2>1, <2>2, <3>2 DEF ShortTimeout, TypeOK
    <3>4. PeaceAgreed'
      BY <1>3, <2>2 DEF serve_client, PeaceAgreed
    <3>5. TimerWillRestart'
      BY <1>1, <1>2, <1>3 DEF TimerWillRestart
    <3> QED
      BY <1>2, <1>4, <3>3, <3>4, <3>5
  <2>3. CASE /\ active_clients <= 2
             /\ Reply(fd[i], [type |-> "ack", pids |-> {}])
             /\ die_peacefully' = TRUE
             /\ pseudo_server_timeout' = pseudo_server_timeout
    <3>1. TypeOK'
      BY <1>5, <1>6, <2>1, <2>3 DEF TypeOK
    <3>2. PeaceAgreed'
      <4>1. last[fd[i]] = "shutdown"
        BY <1>1, <2>1 DEF UnreadIsLast
      <4> QED
        BY <1>1, <2>3, <4>1, OnlyRequester DEF serve_client, PeaceAgreed
    <3>3. TimerWillRestart'
      BY <1>2, <1>3, <2>3 DEF serve_client, TimerWillRestart
    <3> QED
      BY <1>2, <1>4, <3>1, <3>2, <3>3
  <2> QED
    BY <1>8, <2>2, <2>3 DEF ServeShutdown
<1> QED
  BY <1>7, <1>8 DEF serve_client

\* A signal only sets a flag.
LEMMA QuitInv ==
    ASSUME IInv, quit_now
    PROVE  IInv'
<1> USE DEF IInv, scan
<1>1. TypeOK'
  BY DEF quit_now, TypeOK, table, timers, clients, Slots
<1>2. CountRight' /\ SlotsCovered' /\ OneSlotEach' /\ OpenSlots' = OpenSlots
  BY TableUnchanged DEF quit_now, table, clients
<1> QED
  BY <1>1, <1>2 DEF quit_now, timers, clients, BatchOpen, UnreadIsLast, PeaceAgreed,
                    TimerWillRestart

\* The server starts with the listening socket in slot 0 and nobody attached.
LEMMA InitInv ==
    ASSUME Init
    PROVE  IInv
<1> USE ChunkAssumption, TimeoutAssumption
<1>1. Slots = 0 .. Chunk - 1 /\ DOMAIN fd = 0 .. Chunk - 1 /\ 0 \in Slots
  BY DEF Init, Slots
<1>2. OpenSlots = {0}
  BY <1>1 DEF Init, OpenSlots, ListenFd, NoFd
<1>3. TypeOK
  <2>1. fd \in [Slots -> Conns \cup {ListenFd, NoFd}] /\ pid \in [Slots -> Conns \cup {NoPid}]
    BY <1>1 DEF Init
  <2>2. /\ unread \in [Conns -> Messages] /\ last \in [Conns -> Messages]
        /\ answer \in [Conns -> [type : {"none", "ack", "nak"},
                                 pids : SUBSET (Conns \cup {NoPid})]]
    BY DEF Init, Messages, NoAnswer
  <2>3. die_peacefully \in BOOLEAN /\ die_forcefully \in BOOLEAN
    BY Zenon DEF Init
  <2>4. alive \in [Conns -> BOOLEAN] /\ conn \in [Conns -> {"new", "queued", "attached", "closed"}]
    BY DEF Init
  <2>5. /\ max_clients \in Nat /\ max_clients > 1 /\ active_clients \in Int
        /\ highest_client \in Nat /\ pseudo_server_timeout \in Nat /\ loop_timeout \in Int
        /\ idle \in Nat /\ signals \in Nat /\ faults \in 0 .. MaxFaults
    BY DEF Init
  <2> QED
    BY <2>1, <2>2, <2>3, <2>4, <2>5 DEF Init, TypeOK
<1>4. CountRight /\ SlotsCovered
  <2>1. Cardinality({0}) = 1
    BY FS_Singleton
  <2>2. CountRight
    BY <1>2, <2>1 DEF Init, CountRight
  <2> QED
    BY <1>2, <2>2 DEF Init, SlotsCovered
<1>5. OneSlotEach
  BY <1>1, <1>2 DEF Init, OneSlotEach
<1>6. BatchOpen /\ UnreadIsLast /\ PeaceAgreed
  BY DEF Init, BatchOpen, UnreadIsLast, PeaceAgreed
<1>7. TimerWillRestart
  BY DEF Init, TimerWillRestart, ShortTimeout
<1> QED
  BY <1>3, <1>4, <1>5, <1>6, <1>7 DEF IInv

\* Every step of the server, of a process or of a signal preserves the invariant.
LEMMA NextInv ==
    ASSUME IInv, [Next]_vars
    PROVE  IInv'
<1>1. CASE ServerStep
  <2>1. CASE HandleEvent
    BY <2>1, AcceptInv, AcceptNoMemoryInv, AcceptNothingInv, CloseEventInv, ServeInv
       DEF HandleEvent
  <2> QED
    BY <1>1, <2>1, WakeInv, NoEventInv DEF ServerStep
<1>2. CASE UNCHANGED vars
  <2> USE DEF IInv, vars, table, timers, dying, clients, scan
  <2>1. TypeOK'
    BY <1>2 DEF TypeOK, Slots
  <2>2. CountRight' /\ SlotsCovered' /\ OneSlotEach' /\ OpenSlots' = OpenSlots
    BY <1>2, TableUnchanged
  <2> QED
    BY <1>2, <2>1, <2>2 DEF BatchOpen, UnreadIsLast, PeaceAgreed, TimerWillRestart
<1> QED
  BY <1>1, <1>2, NoEventInv, ProcessInv, QuitInv DEF Next, Exited

-----------------------------------------------------------------------------
(* The theorems *)

\* The inductive invariant holds of every behaviour of the server.
THEOREM Invariant == Spec => []IInv
<1>1. Init => IInv
  BY InitInv
<1>2. IInv /\ [Next]_vars => IInv'
  BY NextInv
<1> QED
  BY <1>1, <1>2, PTL DEF Spec

\* Every variable of the event loop keeps its type.
THEOREM TypeCorrect == Spec => []TypeOK
<1>1. IInv => TypeOK
  BY DEF IInv
<1> QED
  BY <1>1, Invariant, PTL

\* The count of clients, the bound highest_client and the slots are right between
\* any two events, for any number of connections and any growth of the table.
THEOREM TableCorrect == Spec => [](CountRight /\ SlotsCovered /\ OneSlotEach)
<1>1. IInv => CountRight /\ SlotsCovered /\ OneSlotEach
  BY DEF IInv
<1> QED
  BY <1>1, Invariant, PTL

\* A server that leaves of its own accord leaves nobody behind but the process
\* that asked it to.
THEOREM ServerNeverAbandons == Spec => []NeverAbandons
<1>1. IInv => NeverAbandons
  BY DEF IInv, PeaceAgreed, NeverAbandons
<1> QED
  BY <1>1, Invariant, PTL

\* A server that is left alone after refusing a shutdown waits at most the short
\* timeout.
THEOREM ServerHurries == Spec => []HurriesAfterRefusal
<1>1. IInv => HurriesAfterRefusal
  <2> SUFFICES ASSUME IInv, pc = "wait", active_clients = 1,
                      pseudo_server_timeout = ShortTimeout
               PROVE  loop_timeout <= ShortTimeout
    BY DEF HurriesAfterRefusal
  <2>1. OpenSlots = {0}
    BY AloneIfOne DEF IInv
  <2> QED
    BY <2>1 DEF IInv, TimerWillRestart, TypeOK, ShortTimeout
<1> QED
  BY <1>1, Invariant, PTL

\* A refusal names only processes behind occupied slots other than the
\* requester's, and each of them that no pid of seven digits hides: the bound
\* highest_client hides nobody.
THEOREM RefusalNamesOthers == Spec => NakNamesOthers
<1> DEFINE Names ==
      \A k \in Conns : answer'[k] # answer[k] /\ answer'[k].type = "nak" =>
          LET others == {j \in OpenSlots \ {0} : fd[j] # k}
          IN  /\ answer'[k].pids \subseteq {pid[j] : j \in others}
              /\ \A j \in others :
                    \/ pid[j] \in answer'[k].pids
                    \/ \E m \in others : m < j /\ pid[m] \in LongPids
<1>1. IInv /\ [Next]_vars => [Names]_vars
  <2> SUFFICES ASSUME IInv, Next, NEW k \in Conns,
                      answer'[k] # answer[k], answer'[k].type = "nak"
               PROVE  LET others == {j \in OpenSlots \ {0} : fd[j] # k}
                      IN  /\ answer'[k].pids \subseteq {pid[j] : j \in others}
                          /\ \A j \in others :
                                \/ pid[j] \in answer'[k].pids
                                \/ \E m \in others : m < j /\ pid[m] \in LongPids
    OBVIOUS
  <2>1. PICK i \in batch : serve_client(i)
    <3>1. ASSUME ProcessStep PROVE FALSE
      BY <3>1 DEF ProcessStep, Connect, SendMessage, Leave, NoAnswer, IInv, TypeOK
    <3>2. ASSUME UNCHANGED answer PROVE FALSE
      BY <3>2
    <3> QED
      BY <3>1, <3>2 DEF Next, ServerStep, HandleEvent, Wake, Tick, Interrupted, NoEvent,
             Accept, AcceptNoMemory,
             AcceptNothing, CloseEvent, quit_now, Exited, vars, clients
  <2>2. i \in OpenSlots \ {0} /\ fd[i] \in Conns
    BY <2>1 DEF IInv, serve_client, BatchOpen, OneSlotEach
  <2>3. PICK ans : Reply(fd[i], ans) /\ ans \in {[type |-> "ack", pids |-> {}],
                                                 [type |-> "nak", pids |-> OtherPids(i)]}
    BY <2>1 DEF serve_client, ServePing, ServeOp, ServeShutdown
  <2>4. k = fd[i] /\ answer'[k] = ans
    BY <2>2, <2>3 DEF Reply, IInv, TypeOK
  <2>5. answer'[k].pids = OtherPids(i)
    BY <2>3, <2>4
  <2>6. {n \in 1 .. highest_client : fd[n] # NoFd /\ n # i}
           = {j \in OpenSlots \ {0} : fd[j] # k}
    BY <2>2, <2>4 DEF IInv, SlotsCovered, OneSlotEach, OpenSlots, TypeOK, Slots
  <2> QED
    BY <2>5, <2>6 DEF OtherPids
<1> QED
  BY <1>1, Invariant, PTL DEF Spec, NakNamesOthers

-----------------------------------------------------------------------------
(* When the server leaves: a second invariant, on top of IInv *)

\* The time a server alone has been charged for: the seconds that passed, and
\* LOOP_DELAY for every signal.
Spent == idle + LOOP_DELAY * signals

\* While the time left is too short, somebody is attached whose departure will
\* restart the timer.
TimeServed ==
    pseudo_server_timeout > Spent + loop_timeout =>
        \E i \in OpenSlots \ {0} : i \notin batch

\* The same for the short timeout, which a refusal may bring at any time.
ShortServed ==
    OpenSlots # {0} /\ ShortTimeout > Spent + loop_timeout =>
        \E i \in OpenSlots \ {0} : i \notin batch

\* Only a server that nobody has come to runs on the timeout of option -t.
TimeoutLong == OpenSlots # {0} => pseudo_server_timeout >= ShortTimeout

\* epoll_wait() names at most MaxEvents slots, and the table never shrinks.
BatchBounded ==
    /\ IsFiniteSet(batch) /\ (poll = "epoll" => Cardinality(batch) <= MaxEvents)
    /\ max_clients >= Chunk

\* A server that means to leave has exited because its time was up, or still has
\* the process attached that asked it to.
LeaveCause ==
    /\ pc = "wait" => ~die_peacefully
    /\ die_peacefully =>
          \/ pc = "exited" /\ Spent >= pseudo_server_timeout
          \/ /\ batch \subseteq {0}
             /\ \E k \in Conns : conn[k] = "attached" /\ last[k] = "shutdown"

TInv == TimeServed /\ ShortServed /\ TimeoutLong /\ BatchBounded /\ LeaveCause

\* Handling an event: the batch stays finite and bounded, and the server goes on
\* waiting only if it does not mean to leave.
LEMMA HandledTimes ==
    ASSUME TypeOK, TypeOK', BatchBounded, NEW i, Handled(i), pc = "batch"
    PROVE  /\ batch' \subseteq batch /\ i \notin batch'
           /\ IsFiniteSet(batch') /\ (poll = "epoll" => Cardinality(batch') <= MaxEvents)
           /\ pc' = "wait" => ~die_peacefully'
<1>1. batch' \subseteq batch /\ i \notin batch'
  BY DEF Handled
<1>2. IsFiniteSet(batch') /\ Cardinality(batch') <= Cardinality(batch)
  BY <1>1, FS_Subset DEF BatchBounded
<1>3. Cardinality(batch) \in Nat /\ Cardinality(batch') \in Nat /\ MaxEvents \in Nat
  BY <1>2, FS_CardinalityType, TimeoutAssumption DEF BatchBounded
<1>4. pc' = "wait" => ~die_peacefully'
  BY DEF Handled, EndLoop
<1> QED
  BY <1>1, <1>2, <1>3, <1>4 DEF BatchBounded

\* An accept() that fails for want of memory found the table full, and a batch is
\* smaller than a full table.
LEMMA FullTableOutlastsBatch ==
    ASSUME MaxEvents < Chunk, IInv, BatchBounded, AcceptNoMemory
    PROVE  \E i \in OpenSlots \ {0} : i \notin batch
<1> USE DEF IInv
<1>1. OpenSlots = Slots /\ 0 \in batch /\ max_clients \in Nat /\ max_clients > 1
  BY DEF AcceptNoMemory, Turn, FreeSlots, OpenSlots, TypeOK
<1>2. CASE poll = "select"
  <2>1. batch = {0}
    BY <1>2 DEF AcceptNoMemory, Turn
  <2>2. 1 \in Slots
    BY <1>1 DEF Slots
  <2> QED
    BY <1>1, <2>1, <2>2
<1>3. CASE poll = "epoll"
  <2>1. Cardinality(Slots) = max_clients
    BY <1>1, FS_Interval DEF Slots
  <2>2. Cardinality(batch) < max_clients
    BY <1>1, <1>3, FS_CardinalityType, ChunkAssumption, TimeoutAssumption DEF BatchBounded
  <2>3. batch # Slots /\ batch \subseteq OpenSlots
    BY <1>1, <2>1, <2>2 DEF BatchOpen
  <2> QED
    BY <1>1, <2>3
<1> QED
  BY <1>2, <1>3, TimeoutAssumption DEF TypeOK

\* Processes: nothing the timer depends on, and who asked for a shutdown sends no
\* other message.
LEMMA ProcessTimes ==
    ASSUME IInv, TInv, ProcessStep
    PROVE  TInv'
<1>1. PICK k \in Conns : Connect(k) \/ SendMessage(k) \/ Leave(k)
  BY DEF ProcessStep
<1> USE DEF IInv, TInv, scan
<1>2. /\ UNCHANGED << table, timers, dying, pc, batch, poll >>
      /\ OpenSlots' = OpenSlots /\ Spent' = Spent
  BY <1>1 DEF Connect, SendMessage, Leave, table, timers, OpenSlots, Spent
<1>3. TimeServed' /\ ShortServed' /\ TimeoutLong' /\ BatchBounded'
  BY <1>2 DEF TimeServed, ShortServed, TimeoutLong, BatchBounded, timers, table
<1>4. ASSUME NEW c \in Conns, conn[c] = "attached", last[c] = "shutdown"
      PROVE  conn'[c] = "attached" /\ last'[c] = "shutdown"
  <2>1. CASE Connect(k)
    BY <1>4, <2>1 DEF Connect, TypeOK
  <2>2. CASE SendMessage(k)
    <3>1. last[k] # "shutdown" /\ conn' = conn
      BY <2>2 DEF SendMessage, MayFollow
    <3> QED
      BY <1>4, <2>2, <3>1 DEF SendMessage, TypeOK
  <2>3. CASE Leave(k)
    BY <1>4, <2>3 DEF Leave
  <2> QED
    BY <1>1, <2>1, <2>2, <2>3
<1>5. LeaveCause'
  BY <1>2, <1>4 DEF LeaveCause, timers, dying
<1> QED
  BY <1>3, <1>5

\* epoll_wait() with events restarts the timer.
LEMMA WakeTimes ==
    ASSUME IInv, TInv, Wake
    PROVE  TInv'
<1> USE DEF IInv, TInv, scan
<1>1. OpenSlots' = OpenSlots /\ max_clients' = max_clients /\ poll' = poll
  BY DEF Wake, table, OpenSlots
<1>2. /\ pseudo_server_timeout \in Nat /\ pseudo_server_timeout' = pseudo_server_timeout
      /\ loop_timeout' = pseudo_server_timeout /\ Spent' = 0
  BY DEF Wake, TypeOK, Spent, LOOP_DELAY
<1>3. TimeServed' /\ ShortServed' /\ TimeoutLong'
  BY <1>1, <1>2 DEF TimeServed, ShortServed, TimeoutLong, ShortTimeout
<1>4. IsFiniteSet(OpenSlots) /\ Ready \subseteq OpenSlots /\ Silent \subseteq OpenSlots
  BY OpenSlotsFinite DEF Ready, Silent
<1>5. IsFiniteSet(Ready) /\ Cardinality(Ready) \in Nat
  BY <1>4, FS_Subset, FS_CardinalityType
<1>6. IsFiniteSet(batch')
  <2>1. batch' \subseteq OpenSlots
    BY <1>4 DEF Wake, EpollReports, SelectReports
  <2> QED
    BY <1>4, <2>1, FS_Subset
<1>7. poll = "epoll" => Cardinality(batch') <= MaxEvents
  BY <1>5, TimeoutAssumption DEF Wake, EpollReports, SelectReports
<1>8. BatchBounded'
  BY <1>1, <1>6, <1>7 DEF BatchBounded
<1>9. LeaveCause'
  BY DEF Wake, LeaveCause, dying
<1> QED
  BY <1>3, <1>8, <1>9

\* epoll_wait() without events: a server that is alone waits its time, and one
\* that decides to leave has waited it.
LEMMA NoEventTimes ==
    ASSUME IInv, TInv, Tick \/ Interrupted
    PROVE  TInv'
<1> USE DEF IInv, TInv, scan
<1>0. NoEvent /\ idle \in Nat /\ signals \in Nat
  BY DEF Tick, Interrupted, TypeOK
<1>1. OpenSlots' = OpenSlots /\ UNCHANGED << max_clients, poll, batch, pseudo_server_timeout >>
  BY <1>0 DEF NoEvent, table, OpenSlots
<1>2. /\ pseudo_server_timeout \in Nat /\ loop_timeout \in Int /\ Spent \in Nat
      /\ pc = "wait" /\ ~die_peacefully
  BY <1>0 DEF NoEvent, TypeOK, LeaveCause, Spent, LOOP_DELAY
<1>3. BatchBounded' /\ TimeoutLong'
  BY <1>1 DEF BatchBounded, TimeoutLong
<1>4. CASE active_clients = 1
  <2>1. OpenSlots = {0}
    BY <1>4, AloneIfOne
  <2>2. /\ loop_timeout' = loop_timeout - 2 /\ Spent' = Spent + 2
        /\ die_peacefully' => loop_timeout' <= 0
    <3>1. Spent' = Spent + 2
      <4>1. CASE Tick
        BY <1>0, <1>4, <4>1 DEF Tick, Spent, LOOP_DELAY
      <4>2. CASE Interrupted
        BY <1>0, <1>4, <4>2 DEF Interrupted, Spent, LOOP_DELAY
      <4> QED
        BY <4>1, <4>2
    <3> QED
      BY <1>0, <1>2, <1>4, <3>1 DEF NoEvent, LOOP_DELAY
  <2>3. Spent + loop_timeout >= pseudo_server_timeout
    BY <1>2, <2>1 DEF TimeServed
  <2>4. TimeServed' /\ ShortServed'
    BY <1>1, <1>2, <2>1, <2>2, <2>3 DEF TimeServed, ShortServed
  <2>5. LeaveCause'
    <3>1. die_peacefully' => pc' = "exited"
      BY <1>0 DEF NoEvent, EndLoop
    <3>2. die_peacefully' => Spent' >= pseudo_server_timeout'
      BY <1>1, <1>2, <2>2, <2>3
    <3> QED
      BY <3>1, <3>2 DEF LeaveCause
  <2> QED
    BY <1>3, <2>4, <2>5
<1>5. CASE active_clients # 1
  <2>1. UNCHANGED << loop_timeout, die_peacefully >> /\ Spent' = Spent
    BY <1>0, <1>5 DEF NoEvent, Tick, Interrupted, Spent
  <2> QED
    BY <1>1, <1>2, <1>3, <2>1 DEF TimeServed, ShortServed, LeaveCause
<1> QED
  BY <1>4, <1>5

\* An accepted connection is one that will restart the timer, and a failed one
\* found a full table.
LEMMA AcceptTimes ==
    ASSUME MaxEvents < Chunk, IInv, TInv, Accept \/ AcceptNoMemory \/ AcceptNothing
    PROVE  TInv'
<1> USE DEF IInv, TInv, scan
<1>0. TypeOK' /\ pc = "batch"
  BY AcceptInv, AcceptNoMemoryInv, AcceptNothingInv DEF Accept, AcceptNoMemory, AcceptNothing, Turn
<1>1. /\ batch' \subseteq batch
      /\ IsFiniteSet(batch') /\ (poll = "epoll" => Cardinality(batch') <= MaxEvents)
      /\ pc' = "wait" => ~die_peacefully'
      /\ poll' = poll
  BY <1>0, HandledTimes DEF Accept, AcceptNoMemory, AcceptNothing
<1>2. CASE Accept
  <2>1. PICK k \in Conns : open_client(k)
    BY <1>2 DEF Accept
  <2>2. PICK s \in Nat :
            /\ s \notin OpenSlots /\ OpenSlots' = OpenSlots \cup {s}
            /\ max_clients' \in Nat /\ Slots \subseteq Slots'
    BY <2>1, OpenClientTable
  <2>3. max_clients' >= Chunk
    BY <2>1, ChunkAssumption DEF open_client, BatchBounded, TypeOK
  <2>4. s \notin batch' /\ s # 0
    <3>1. 0 \in OpenSlots
      BY OpenSlotsFinite DEF OneSlotEach, OpenSlots, TypeOK, ListenFd, NoFd
    <3> QED
      BY <1>1, <2>2, <3>1 DEF BatchOpen
  <2>5. TimeServed' /\ ShortServed'
    BY <2>2, <2>4 DEF TimeServed, ShortServed
  <2>6. TimeoutLong'
    BY <1>2, TimeoutAssumption DEF Accept, Cancel, TimeoutLong, ShortTimeout
  <2>7. LeaveCause'
    BY <1>1, <1>2 DEF Accept, Cancel, LeaveCause
  <2> QED
    BY <1>1, <2>3, <2>5, <2>6, <2>7 DEF BatchBounded
<1>3. CASE AcceptNoMemory
  <2>1. OpenSlots' = OpenSlots /\ max_clients' = max_clients
    BY <1>3 DEF AcceptNoMemory, table, OpenSlots
  <2>2. TimeServed' /\ ShortServed'
    BY <1>1, <1>3, <2>1, FullTableOutlastsBatch DEF TimeServed, ShortServed
  <2>3. TimeoutLong'
    BY <1>3, TimeoutAssumption DEF AcceptNoMemory, Cancel, TimeoutLong, ShortTimeout
  <2>4. LeaveCause'
    BY <1>1, <1>3 DEF AcceptNoMemory, Cancel, LeaveCause
  <2> QED
    BY <1>1, <2>1, <2>2, <2>3, <2>4 DEF BatchBounded
<1>4. CASE AcceptNothing
  <2>1. /\ OpenSlots' = OpenSlots /\ UNCHANGED << max_clients, timers, dying, clients >>
        /\ Spent' = Spent
    BY <1>4 DEF AcceptNothing, table, timers, OpenSlots, Spent
  <2>2. TimeServed' /\ ShortServed' /\ TimeoutLong'
    BY <1>1, <2>1 DEF TimeServed, ShortServed, TimeoutLong, timers
  <2>3. LeaveCause'
    BY <1>0, <1>1, <2>1 DEF LeaveCause, timers, dying, clients
  <2> QED
    BY <1>1, <2>1, <2>2, <2>3 DEF BatchBounded
<1> QED
  BY <1>2, <1>3, <1>4

\* A client that is closed is one of the batch, and a batch that still has a
\* client's event was not told to leave.
LEMMA CloseTimes ==
    ASSUME IInv, TInv, NEW i \in batch, CloseEvent(i)
    PROVE  TInv'
<1> USE DEF IInv, TInv, scan
<1>0. TypeOK' /\ pc = "batch" /\ i # 0
  BY CloseEventInv DEF CloseEvent, Turn
<1>1. /\ batch' \subseteq batch /\ i \notin batch'
      /\ IsFiniteSet(batch') /\ (poll = "epoll" => Cardinality(batch') <= MaxEvents)
      /\ pc' = "wait" => ~die_peacefully'
      /\ poll' = poll
  BY <1>0, HandledTimes DEF CloseEvent
<1>2. i \in OpenSlots \ {0} /\ i \in Nat /\ i \in Slots /\ i > 0 /\ i <= highest_client
  BY OpenSlotsFinite DEF CloseEvent, Turn, BatchOpen, SlotsCovered, Slots, TypeOK
<1>3. fd' = [fd EXCEPT ![i] = NoFd] /\ max_clients' = max_clients
  BY <1>2 DEF CloseEvent, close_client, TypeOK
<1>4. OpenSlots' = OpenSlots \ {i} /\ 0 \in OpenSlots
  BY <1>2, <1>3, OpenSlotsFinite DEF OpenSlots, Slots, TypeOK, OneSlotEach, ListenFd, NoFd
<1>5. UNCHANGED << pseudo_server_timeout, loop_timeout, die_peacefully >> /\ Spent' = Spent
  BY DEF CloseEvent, timers, dying, Spent
<1>6. TimeServed'
  BY <1>1, <1>4, <1>5 DEF TimeServed
<1>7. ShortServed' /\ TimeoutLong'
  BY <1>1, <1>2, <1>4, <1>5 DEF ShortServed, TimeoutLong
<1>8. ~die_peacefully
  BY <1>0 DEF LeaveCause
<1>9. LeaveCause'
  BY <1>5, <1>8 DEF LeaveCause
<1> QED
  BY <1>1, <1>3, <1>6, <1>7, <1>9 DEF BatchBounded

\* A request: a refusal shortens the timeout and not the time that is left, and
\* an agreed shutdown leaves only the requester attached, and his event handled.
LEMMA ServeTimes ==
    ASSUME IInv, TInv, NEW i \in batch, serve_client(i)
    PROVE  TInv'
<1> USE DEF IInv, TInv, scan
<1>0. TypeOK' /\ pc = "batch" /\ i # 0
  BY ServeInv DEF serve_client, Turn
<1>1. /\ batch' \subseteq batch /\ i \notin batch'
      /\ IsFiniteSet(batch') /\ (poll = "epoll" => Cardinality(batch') <= MaxEvents)
      /\ pc' = "wait" => ~die_peacefully'
      /\ poll' = poll
  BY <1>0, HandledTimes DEF serve_client
<1>2. /\ OpenSlots' = OpenSlots
      /\ UNCHANGED << max_clients, loop_timeout, conn, last >> /\ Spent' = Spent
  BY DEF serve_client, OpenSlots, Spent
<1>3. i \in OpenSlots \ {0} /\ OpenSlots # {0} /\ fd[i] \in Conns /\ conn[fd[i]] = "attached"
  BY <1>0 DEF BatchOpen, OneSlotEach
<1>4. /\ loop_timeout \in Int /\ Spent \in Nat /\ pseudo_server_timeout \in Nat
      /\ pseudo_server_timeout' \in {pseudo_server_timeout, ShortTimeout}
  BY DEF serve_client, ServePing, ServeOp, ServeShutdown, TypeOK, Spent, LOOP_DELAY
<1>5. TimeServed'
  BY <1>1, <1>2, <1>3, <1>4 DEF TimeServed, ShortServed
<1>6. ShortServed' /\ TimeoutLong'
  BY <1>1, <1>2, <1>4 DEF ShortServed, TimeoutLong, ShortTimeout
<1>7. ~die_peacefully
  BY <1>0 DEF LeaveCause
<1>8. LeaveCause'
  <2> SUFFICES ASSUME die_peacefully'
               PROVE  /\ batch' \subseteq {0}
                      /\ \E k \in Conns : conn'[k] = "attached" /\ last'[k] = "shutdown"
    BY <1>1 DEF LeaveCause
  <2>1. unread[fd[i]] = "shutdown" /\ active_clients <= 2
    BY <1>7 DEF serve_client, ServePing, ServeOp, ServeShutdown
  <2>2. last[fd[i]] = "shutdown"
    BY <1>3, <2>1 DEF UnreadIsLast
  <2>3. \A k \in Conns : conn[k] = "attached" => k = fd[i]
    BY <1>3, <2>1, OnlyRequester
  <2>4. \A j \in OpenSlots \ {0} : j = i
    BY <1>3, <2>3 DEF OneSlotEach
  <2>5. batch' \subseteq {0}
    BY <1>1, <2>4 DEF BatchOpen
  <2> QED
    BY <1>2, <1>3, <2>2, <2>5
<1> QED
  BY <1>1, <1>2, <1>5, <1>6, <1>8 DEF BatchBounded

\* Every step keeps the second invariant.
LEMMA NextTimes ==
    ASSUME MaxEvents < Chunk, IInv, TInv, [Next]_vars
    PROVE  TInv'
<1>1. CASE ServerStep
  <2>1. CASE HandleEvent
    BY <2>1, AcceptTimes, CloseTimes, ServeTimes DEF HandleEvent
  <2> QED
    BY <1>1, <2>1, WakeTimes, NoEventTimes DEF ServerStep
<1>2. CASE UNCHANGED << table, timers, die_peacefully, pc, batch, conn, last, poll >>
  <2>1. OpenSlots' = OpenSlots /\ Spent' = Spent
    BY <1>2 DEF table, timers, OpenSlots, Spent
  <2> QED
    BY <1>2, <2>1 DEF TInv, TimeServed, ShortServed, TimeoutLong, BatchBounded, LeaveCause,
                      table, timers
<1> QED
  BY <1>1, <1>2, NoEventTimes, ProcessTimes DEF Next, Exited, quit_now, vars, dying, clients, scan

\* A connection that was accepted keeps one slot of its own until it is closed,
\* and slot 0 stays the listening socket, through any growth of the table.
THEOREM ClientsKeepSlots == Spec => []OneSlotEach
<1>1. IInv => OneSlotEach
  BY DEF IInv
<1> QED
  BY <1>1, Invariant, PTL

\* A server that nobody told to go leaves only after a whole timeout alone, less
\* LOOP_DELAY for each signal that interrupted it in that time, if a
\* batch of events is smaller than the table, as it is in pseudo_server.c
\* (EPOLL_MAX_EVENTS is 10, the table starts with 16 slots).  Otherwise a
\* connection that finds the table full and no memory makes the timeout long
\* again, while all the clients leave in the same batch and the short timer that
\* a refused shutdown set goes on running.
THEOREM ServerLeavesNoSooner ==
    ASSUME MaxEvents < Chunk
    PROVE  Spec => []LeavesNoSooner
<1>1. Init => TInv
  <2> SUFFICES ASSUME Init PROVE TInv
    OBVIOUS
  <2>1. OpenSlots = {0}
    BY ChunkAssumption DEF Init, OpenSlots, ListenFd, NoFd
  <2>2. TimeServed /\ ShortServed /\ TimeoutLong
    BY <2>1, TimeoutAssumption DEF Init, TimeServed, ShortServed, TimeoutLong, Spent, LOOP_DELAY
  <2>3. BatchBounded
    BY FS_EmptySet, ChunkAssumption, TimeoutAssumption DEF Init, BatchBounded
  <2> QED
    BY <2>2, <2>3 DEF Init, TInv, LeaveCause
<1>2. IInv /\ TInv /\ [Next]_vars => TInv'
  BY NextTimes
<1>3. IInv /\ TInv => LeavesNoSooner
  BY DEF IInv, TInv, PeaceAgreed, LeaveCause, LeavesNoSooner, Spent
<1> QED
  BY <1>1, <1>2, <1>3, Invariant, PTL DEF Spec
=============================================================================
