---------------------------- MODULE PseudoServer ----------------------------
(***************************************************************************)
(* The event loop of the pseudo server (pseudo_server.c) and its table of  *)
(* clients.  Processes connect, send PING, OP or SHUTDOWN messages, wait   *)
(* for the answers, and go away at any time.  The server takes a batch of  *)
(* events from epoll_wait() and handles them one by one: it accepts        *)
(* connections, serves requests and closes slots.  It exits when it has    *)
(* had no clients for a while, when asked to by "pseudo -S", or on a       *)
(* signal.  The build without PSEUDO_EPOLL asks select() instead, goes     *)
(* through the slots in their order, accepts last, and drops a client when *)
(* accept() has run out of descriptors.                                    *)
(*                                                                         *)
(* What an OP does to the database is module PseudoOp; here it is only     *)
(* answered.  A connection stands for the process that made it, so the     *)
(* pid that a PING announces is the connection itself.  FASTOP is not a    *)
(* message of its own: serve_client() overwrites in->type with ACK before  *)
(* it compares it with PSEUDO_MSG_FASTOP, so a FASTOP is answered as an OP.*)
(*                                                                         *)
(* An operator X_Fault is X with a plausible mistake in it.  No            *)
(* specification uses it: it shows that a property can tell the two apart. *)
(***************************************************************************)
EXTENDS Integers, FiniteSets

CONSTANTS
    Polls,          \* the builds: "epoll", "select"
    Conns,          \* connections that processes make, one after another
    Chunk,          \* by how much the table grows (16)
    MaxEvents,      \* EPOLL_MAX_EVENTS (10)
    DefaultTimeout, \* DEFAULT_PSEUDO_SERVER_TIMEOUT (30)
    StartTimeout,   \* what option -t asks for; DefaultTimeout without it
    MaxFaults,      \* bound: failures of accept() and malloc()
    MaxSignals,     \* bound: signals that interrupt the wait of a server alone
    LongPids        \* the processes whose pid has seven digits

LOOP_DELAY    == 2
ShortTimeout  == 3          \* after a refused shutdown
NoFd          == "closed"   \* clients[i].fd = -1
ListenFd      == "listen"
NoPid         == "nobody"   \* clients[i].pid = 0

ASSUME ConnsAssumption ==
    Conns \cap {NoFd, ListenFd, NoPid} = {} /\ IsFiniteSet(Conns)
ASSUME ChunkAssumption == Chunk \in Nat /\ Chunk > 1
ASSUME TimeoutAssumption ==
    /\ DefaultTimeout \in Nat /\ DefaultTimeout > ShortTimeout
    /\ Polls \subseteq {"epoll", "select"}
    /\ StartTimeout \in Nat /\ MaxEvents \in Nat \ {0} /\ MaxFaults \in Nat
    /\ MaxSignals \in Nat
ASSUME PidsAssumption == LongPids \subseteq Conns

VARIABLES
    fd,        \* fd[i]: the connection of slot i, ListenFd, or NoFd
    pid,       \* pid[i]: who announced itself on slot i
    active_clients, highest_client, max_clients,
    pseudo_server_timeout, loop_timeout,
    die_peacefully, die_forcefully,
    pc,        \* "wait": in epoll_wait; "batch": handling events; "exited"
    batch,     \* slots whose events are still to be handled
    conn,      \* conn[k]: "new", "queued" (not accepted), "attached", "closed"
    alive,     \* alive[k]: the process has not closed its end
    unread,    \* unread[k]: the message in the socket, or "none"
    last,      \* last[k]: the last message the process sent
    answer,    \* answer[k]: the last answer it got
    idle,      \* ghost: seconds since the last event while nobody was attached
    signals,   \* ghost: the signals among them, which took no time
    faults,    \* what is left of the bound
    poll,      \* the build
    hitmaxfiles,
    victim     \* the client select()'s loop drops in this batch, or 0

table    == << fd, pid, active_clients, highest_client, max_clients >>
timers   == << pseudo_server_timeout, loop_timeout, idle, signals >>
dying    == << die_peacefully, die_forcefully >>
clients  == << conn, alive, unread, last, answer >>
scan     == << poll, hitmaxfiles, victim >>
vars     == << table, timers, dying, pc, batch, clients, faults, scan >>

Slots == 0 .. max_clients - 1
OpenSlots == {i \in DOMAIN fd : fd[i] # NoFd}
NoAnswer == [type |-> "none", pids |-> {}]

-----------------------------------------------------------------------------
(* Processes *)

\* a process, or after it has gone another one
Connect(k) ==
    /\ pc # "exited" /\ conn[k] \in {"new", "closed"}
    /\ conn' = [conn EXCEPT ![k] = "queued"]
    /\ alive' = [alive EXCEPT ![k] = TRUE]
    /\ unread' = [unread EXCEPT ![k] = "none"]
    /\ last' = [last EXCEPT ![k] = "none"]
    /\ answer' = [answer EXCEPT ![k] = NoAnswer]
    /\ UNCHANGED << table, timers, dying, pc, batch, faults, scan >>

\* a client pings when it connects and again when it exits, and sends operations
\* in between; "pseudo -S" sends only SHUTDOWN
MayFollow(before) ==
    CASE before = "none" -> {"ping", "shutdown"}
      [] before \in {"ping", "op"} -> {"ping", "op"}
      [] OTHER -> {}

Waiting(k) == last[k] # "none" /\ answer[k] = NoAnswer

SendMessage(k) ==
    /\ alive[k] /\ conn[k] \in {"queued", "attached"} /\ ~Waiting(k)
    /\ \E type \in MayFollow(last[k]) :
          /\ unread' = [unread EXCEPT ![k] = type]
          /\ last' = [last EXCEPT ![k] = type]
    /\ answer' = [answer EXCEPT ![k] = NoAnswer]
    /\ UNCHANGED << table, timers, dying, pc, batch, conn, alive, faults,
                    scan >>

\* the process exits or is killed; what it sent stays in the socket
Leave(k) ==
    /\ alive[k] /\ conn[k] \in {"queued", "attached"}
    /\ alive' = [alive EXCEPT ![k] = FALSE]
    /\ UNCHANGED << table, timers, dying, pc, batch, conn, unread, last, answer, faults,
                    scan >>

-----------------------------------------------------------------------------
(* The client table *)

FreeSlots_Any == Slots \ {0}

FreeSlots == {i \in Slots : fd[i] = NoFd}

\* the first free slot, else a table that is Chunk slots longer
open_client(k) ==
    \/ \E i \in FreeSlots :
          /\ \A j \in FreeSlots : i <= j
          /\ fd' = [fd EXCEPT ![i] = k]
          /\ pid' = [pid EXCEPT ![i] = NoPid]
          /\ highest_client' = IF i > highest_client THEN i ELSE highest_client
          /\ UNCHANGED max_clients
    \/ /\ FreeSlots = {}
       /\ fd' = [i \in 0 .. max_clients + Chunk - 1 |->
                    IF i < max_clients THEN fd[i]
                    ELSE IF i = max_clients THEN k ELSE NoFd]
       /\ pid' = [i \in 0 .. max_clients + Chunk - 1 |->
                    IF i < max_clients THEN pid[i] ELSE NoPid]
       /\ highest_client' = max_clients + 1
       /\ max_clients' = max_clients + Chunk

\* the loop that should find the new highest client runs while the slot is
\* occupied; it has just been emptied, so highest_client stays
LowerHighest(i, fds) ==
    IF i = highest_client /\ fds[i] # NoFd /\ highest_client > 0
    THEN highest_client - 1 ELSE highest_client

close_client_Uncounted(i) ==
    /\ fd' = [fd EXCEPT ![i] = NoFd]
    /\ pid' = [pid EXCEPT ![i] = NoPid]
    /\ highest_client' = LowerHighest(i, fd')
    /\ conn' = [conn EXCEPT ![fd[i]] = "closed"]
    /\ UNCHANGED << active_clients, max_clients >>

close_client(i) ==
    IF i > highest_client \/ i <= 0 THEN UNCHANGED << table, conn >>
    ELSE /\ fd' = [fd EXCEPT ![i] = NoFd]
         /\ pid' = [pid EXCEPT ![i] = NoPid]
         /\ active_clients' = active_clients - 1
         /\ highest_client' = LowerHighest(i, fd')
         /\ conn' = [conn EXCEPT ![fd[i]] = "closed"]
         /\ UNCHANGED max_clients

-----------------------------------------------------------------------------
(* The loop *)

Readable(k) == unread[k] # "none" \/ ~alive[k]
Ready ==
    {i \in OpenSlots : IF i = 0 THEN \E k \in Conns : conn[k] = "queued"
                       ELSE Readable(fd[i])}

Wake_KeepTimer ==
    /\ pc = "wait" /\ Ready # {}
    /\ batch' = Ready
    /\ idle' = 0 /\ signals' = 0
    /\ pc' = "batch"
    /\ UNCHANGED << table, pseudo_server_timeout, loop_timeout, dying, clients, faults,
                    scan >>

\* what the build's call reports, and whom the loop will drop: epoll_wait() has
\* room for so many events; select() names all, and after a failed accept() the
\* first client that is not among them has to go
EpollReports ==
    /\ poll = "epoll"
    /\ \E S \in SUBSET Ready :
          /\ Cardinality(S) = IF Cardinality(Ready) > MaxEvents THEN MaxEvents
                              ELSE Cardinality(Ready)
          /\ batch' = S
    /\ UNCHANGED << hitmaxfiles, victim >>

Silent == (OpenSlots \ {0}) \ Ready

SelectReports ==
    /\ poll = "select"
    /\ \/ /\ hitmaxfiles
          /\ \E i \in Silent : /\ \A j \in Silent : i <= j
                               /\ victim' = i /\ batch' = Ready \cup {i}
       \/ /\ ~hitmaxfiles \/ Silent = {}
          /\ victim' = 0 /\ batch' = Ready
    /\ hitmaxfiles' = FALSE

\* there are events; the timeout starts again
Wake ==
    /\ pc = "wait" /\ Ready # {}
    /\ EpollReports \/ SelectReports
    /\ loop_timeout' = pseudo_server_timeout
    /\ idle' = 0 /\ signals' = 0
    /\ pc' = "batch"
    /\ UNCHANGED << table, pseudo_server_timeout, dying, clients, faults, poll >>

\* the end of an iteration: with a die flag set, close the socket and exit
EndLoop == pc' = IF die_peacefully' \/ die_forcefully THEN "exited" ELSE "wait"

\* an iteration without an event: a server that is alone loses LOOP_DELAY
\* seconds of its time, whether they have passed or not
NoEvent ==
    /\ pc = "wait" /\ Ready = {}
    /\ IF active_clients = 1
       THEN /\ loop_timeout' = loop_timeout - LOOP_DELAY
            /\ die_peacefully' = (die_peacefully \/ loop_timeout' <= 0)
       ELSE UNCHANGED << loop_timeout, die_peacefully >>
    /\ EndLoop
    /\ UNCHANGED << table, pseudo_server_timeout, die_forcefully, batch, clients, faults,
                    scan >>

\* LOOP_DELAY seconds have passed
Tick ==
    /\ NoEvent
    /\ idle' = IF active_clients = 1 THEN idle + LOOP_DELAY ELSE idle
    /\ UNCHANGED signals

\* a signal ends the wait at once with EINTR: SIGUSR2, which lists the clients,
\* or being stopped and continued, in epoll_wait(); a profiler's in select(),
\* which blocks SIGUSR2
Interrupted ==
    /\ NoEvent
    /\ signals < MaxSignals
    /\ signals' = IF active_clients = 1 THEN signals + 1 ELSE signals
    /\ UNCHANGED idle

\* the event of slot i has been handled; die_forcefully drops the rest
Handled(i) ==
    /\ batch' = IF die_forcefully THEN {} ELSE batch \ {i}
    /\ IF batch' = {} THEN EndLoop ELSE UNCHANGED pc

\* epoll_wait() reports events in any order; the loop of select() takes the
\* clients one after the other, and accepts when it is done with them
Turn(i) ==
    /\ pc = "batch" /\ i \in batch
    /\ poll = "select" => IF i = 0 THEN batch = {0} ELSE \A j \in batch \ {0} : i <= j

Cancel_TimeoutOnly ==
    /\ pseudo_server_timeout' = DefaultTimeout
    /\ UNCHANGED die_peacefully

\* a new client cancels a shutdown, requested or for lack of clients
Cancel ==
    /\ pseudo_server_timeout' = DefaultTimeout
    /\ die_peacefully' = FALSE

Accept ==
    /\ Turn(0) /\ ~die_forcefully
    /\ \E k \in Conns :
          /\ conn[k] = "queued"
          /\ conn' = [conn EXCEPT ![k] = "attached"]
          /\ open_client(k)
    /\ active_clients' = active_clients + 1
    /\ Cancel
    /\ Handled(0)
    /\ UNCHANGED << loop_timeout, idle, signals, die_forcefully,
                    alive, unread, last, answer, faults, scan >>

\* the table is full and malloc() fails: the connection is closed again
AcceptNoMemory ==
    /\ Turn(0) /\ ~die_forcefully
    /\ faults > 0 /\ FreeSlots = {}
    /\ \E k \in Conns :
          conn[k] = "queued" /\ conn' = [conn EXCEPT ![k] = "closed"]
    /\ Cancel
    /\ Handled(0)
    /\ faults' = faults - 1
    /\ UNCHANGED << table, loop_timeout, idle, signals, die_forcefully,
                    alive, unread, last, answer, scan >>

\* accept() fails, for lack of descriptors or otherwise, or is skipped because
\* the server is being killed
AcceptNothing ==
    /\ Turn(0)
    /\ \/ die_forcefully /\ UNCHANGED << faults, hitmaxfiles >>
       \/ /\ ~die_forcefully /\ faults > 0 /\ faults' = faults - 1
          /\ \/ poll = "select" /\ hitmaxfiles' = TRUE
             \/ UNCHANGED hitmaxfiles
    /\ UNCHANGED << table, timers, dying, clients, poll, victim >>
    /\ Handled(0)

\* no bytes to read, because the process has gone; or its descriptor is needed
CloseEvent(i) ==
    /\ i # 0 /\ Turn(i) /\ (unread[fd[i]] = "none" \/ i = victim)
    /\ close_client(i)
    /\ UNCHANGED << timers, dying, alive, unread, last, answer, faults, scan >>
    /\ Handled(i)

Reply(k, ans) ==
    /\ unread' = [unread EXCEPT ![k] = "none"]
    /\ answer' = [answer EXCEPT ![k] = IF alive[k] THEN ans ELSE @]

OtherPids_Self(i) ==
    LET others == {n \in 1 .. highest_client : fd[n] # NoFd}
    IN  {pid[j] : j \in {n \in others : \A m \in others : m < n => pid[m] \notin LongPids}}

\* the pids that the requester reads from the answer: each is printed with a
\* blank into eight bytes, so one of seven digits loses its blank and the NUL
\* that ends it ends the list for the reader
OtherPids(i) ==
    LET others == {n \in 1 .. highest_client : fd[n] # NoFd /\ n # i}
    IN  {pid[j] : j \in {n \in others : \A m \in others : m < n => pid[m] \notin LongPids}}

\* PING: the process says who it is
ServePing(i) ==
    /\ unread[fd[i]] = "ping"
    /\ pid' = [pid EXCEPT ![i] = IF @ = NoPid THEN fd[i] ELSE @]
    /\ Reply(fd[i], [type |-> "ack", pids |-> {}])
    /\ UNCHANGED << pseudo_server_timeout, die_peacefully >>

ServeOp(i) ==
    /\ unread[fd[i]] = "op"
    /\ Reply(fd[i], [type |-> "ack", pids |-> {}])
    /\ UNCHANGED << pid, pseudo_server_timeout, die_peacefully >>

ServeShutdown_Deaf(i) ==
    /\ unread[fd[i]] = "shutdown"
    /\ unread' = [unread EXCEPT ![fd[i]] = "none"]
    /\ UNCHANGED << pid, pseudo_server_timeout, die_peacefully, answer >>

\* SHUTDOWN: the listening socket and the requester are two "clients"; any more
\* and the request is refused, with the pids that are in the way
ServeShutdown(i) ==
    /\ unread[fd[i]] = "shutdown"
    /\ \/ /\ active_clients > 2
          /\ Reply(fd[i], [type |-> "nak", pids |-> OtherPids(i)])
          /\ pseudo_server_timeout' = ShortTimeout
          /\ UNCHANGED die_peacefully
       \/ /\ active_clients <= 2
          /\ Reply(fd[i], [type |-> "ack", pids |-> {}])
          /\ die_peacefully' = TRUE
          /\ UNCHANGED pseudo_server_timeout
    /\ UNCHANGED pid

serve_client(i) ==
    /\ i # 0 /\ Turn(i) /\ i # victim
    /\ ServePing(i) \/ ServeOp(i) \/ ServeShutdown(i)
    /\ UNCHANGED << fd, active_clients, highest_client, max_clients, loop_timeout, idle,
                    signals, die_forcefully, conn, alive, last, faults, scan >>
    /\ Handled(i)

\* a signal, at any time
quit_now ==
    /\ pc # "exited" /\ ~die_forcefully
    /\ die_forcefully' = TRUE
    /\ UNCHANGED << table, timers, die_peacefully, pc, batch, clients, faults, scan >>

-----------------------------------------------------------------------------
Init ==
    /\ fd = [i \in 0 .. Chunk - 1 |-> IF i = 0 THEN ListenFd ELSE NoFd]
    /\ pid = [i \in 0 .. Chunk - 1 |-> NoPid]
    /\ active_clients = 1 /\ highest_client = 0 /\ max_clients = Chunk
    /\ pseudo_server_timeout = StartTimeout /\ loop_timeout = StartTimeout
    /\ die_peacefully = FALSE /\ die_forcefully = FALSE
    /\ pc = "wait" /\ batch = {}
    /\ conn = [k \in Conns |-> "new"]
    /\ alive = [k \in Conns |-> TRUE]
    /\ unread = [k \in Conns |-> "none"]
    /\ last = [k \in Conns |-> "none"]
    /\ answer = [k \in Conns |-> NoAnswer]
    /\ idle = 0 /\ signals = 0
    /\ faults = MaxFaults
    /\ poll \in Polls /\ hitmaxfiles = FALSE /\ victim = 0

HandleEvent ==
    \/ Accept \/ AcceptNoMemory \/ AcceptNothing
    \/ \E i \in batch : CloseEvent(i) \/ serve_client(i)

ServerStep == Wake \/ Tick \/ HandleEvent

ProcessStep == \E k \in Conns : Connect(k) \/ SendMessage(k) \/ Leave(k)

Exited == pc = "exited" /\ UNCHANGED vars

Next == ServerStep \/ Interrupted \/ ProcessStep \/ quit_now \/ Exited

\* the server's process runs as long as it has something to do, and time passes
Spec == Init /\ [][Next]_vars /\ WF_vars(ServerStep)

-----------------------------------------------------------------------------
(* Properties *)

Messages == {"none", "ping", "op", "shutdown"}

\* Every variable has its type; the table is a function on 0 .. max_clients - 1.
TypeOK ==
    /\ max_clients \in Nat /\ max_clients > 1
    /\ fd \in [Slots -> Conns \cup {ListenFd, NoFd}]
    /\ pid \in [Slots -> Conns \cup {NoPid}]
    /\ active_clients \in Int /\ highest_client \in Nat
    /\ pseudo_server_timeout \in Nat /\ loop_timeout \in Int /\ idle \in Nat
    /\ signals \in Nat
    /\ die_peacefully \in BOOLEAN /\ die_forcefully \in BOOLEAN
    /\ pc \in {"wait", "batch", "exited"}
    /\ batch \subseteq Slots /\ victim \in Nat
    /\ poll \in Polls /\ hitmaxfiles \in BOOLEAN
    /\ conn \in [Conns -> {"new", "queued", "attached", "closed"}]
    /\ alive \in [Conns -> BOOLEAN]
    /\ unread \in [Conns -> Messages] /\ last \in [Conns -> Messages]
    /\ answer \in [Conns -> [type : {"none", "ack", "nak"}, pids : SUBSET (Conns \cup {NoPid})]]
    /\ faults \in 0 .. MaxFaults

\* active_clients counts the occupied slots, the listening socket's included:
\* boredom (active_clients = 1) and shutdown (<= 2) rest on it.
CountRight == active_clients = Cardinality(OpenSlots)

\* highest_client bounds the occupied slots from above, so that the loops from 1
\* to highest_client miss nobody and close_client() refuses nobody, and it stays
\* inside the table, so that they read nothing outside it.
SlotsCovered ==
    /\ highest_client < max_clients
    /\ \A i \in OpenSlots : i <= highest_client

\* A connection that was accepted and not closed has exactly one slot, and slot 0
\* is always the listening socket: no event is dispatched to the wrong client.
OneSlotEach ==
    /\ fd[0] = ListenFd
    /\ \A i \in OpenSlots \ {0} : fd[i] \in Conns /\ conn[fd[i]] = "attached"
    /\ \A i, j \in OpenSlots : fd[i] = fd[j] => i = j
    /\ \A k \in Conns : conn[k] = "attached" => \E i \in OpenSlots : fd[i] = k

\* The server leaves of its own accord only when nobody is attached, except the
\* process that asked it to leave: an accept in the same batch as the SHUTDOWN,
\* before it or after it, keeps the server alive.
NeverAbandons ==
    pc = "exited" /\ ~die_forcefully =>
        \A k \in Conns : conn[k] = "attached" => last[k] = "shutdown"

\* A refused shutdown names the processes that are in the way, and nobody else:
\* only processes behind occupied slots other than the requester's, and each of
\* them, although the loop that collects them stops at highest_client.  Who has
\* a pid of seven digits hides those behind it, and nobody else is missing.
NakNamesOthers ==
    [][\A k \in Conns : answer'[k] # answer[k] /\ answer'[k].type = "nak" =>
          LET others == {j \in OpenSlots \ {0} : fd[j] # k}
          IN  /\ answer'[k].pids \subseteq {pid[j] : j \in others}
              /\ \A j \in others :
                    \/ pid[j] \in answer'[k].pids
                    \/ \E m \in others : m < j /\ pid[m] \in LongPids]_vars

\* Once a shutdown has been refused, the server that is finally left alone waits
\* no longer than the short timeout: the timer that was running when the request
\* came does not outlive the last client.
HurriesAfterRefusal ==
    pc = "wait" /\ active_clients = 1 /\ pseudo_server_timeout = ShortTimeout =>
        loop_timeout <= ShortTimeout

\* A process that waits for an answer gets one, unless the server exits, the
\* process goes away, or select()'s loop drops it: then it reads the end of the
\* connection instead, and connects again.
AnswerComes ==
    \A k \in Conns :
        Waiting(k) /\ conn[k] = "attached" ~>
            \/ ~Waiting(k) \/ ~alive[k] \/ pc = "exited"
            \/ poll = "select" /\ conn[k] = "closed"

\* A server that everybody has left, for good, exits.
IdleExit ==
    <>[](\A k \in Conns : conn[k] \in {"new", "closed"}) => <>(pc = "exited")

\* A server that nobody told to go, by SHUTDOWN or by a signal, leaves only when
\* it has been alone for a whole timeout without a break, a client that came and
\* left in between starting the time anew.  The timeout is the one in force: what
\* -t asked for until the first client, DefaultTimeout after it, ShortTimeout
\* after a refusal.  Each signal that interrupted the wait has cost it LOOP_DELAY
\* of that time, and nothing else has.
LeavesNoSooner ==
    /\ pc = "exited" /\ ~die_forcefully
    /\ \A k \in Conns : last[k] # "shutdown"
    => idle + LOOP_DELAY * signals >= pseudo_server_timeout
=============================================================================
