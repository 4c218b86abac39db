-------------------------- MODULE ServerLifecycle --------------------------
(***************************************************************************)
(* How servers start and end, and how clients find one.  A client whose    *)
(* message cannot be sent connects to pseudo.socket and pings; if that     *)
(* fails it starts "pseudo -d", waits for it, and connects again.  The     *)
(* daemon forks: the parent waits for SIGUSR1 while the child takes the    *)
(* lock, replaces the socket and serves.  Clients do this all at once, and *)
(* servers get bored, are told to quit, or are killed, between any two     *)
(* steps.                                                                  *)
(*                                                                         *)
(* A server id stands for one incarnation at a time: when the process is   *)
(* gone and nobody waits for it, the id is used again.  The pid file is    *)
(* left out, because clients only print what they read from it.  What a    *)
(* serving server does in detail is module PseudoServer, what a request    *)
(* does to the database is PseudoOp.                                       *)
(*                                                                         *)
(* An operator X_Fault is X with a plausible mistake in it.  No            *)
(* specification uses it: it shows that a property can tell the two apart. *)
(***************************************************************************)
EXTENDS Naturals

CONSTANTS
    Clients,
    Servers,      \* bound: servers in existence at a time
    MaxFaults,    \* bound: killed servers, signals, failed connect() and fork()
    MaxExits,     \* bound: servers that leave because nobody is attached
    MaxGiveUps    \* bound: clients that run out of PSEUDO_RETRIES

NoServer == "none"
Stale    == "stale"    \* the socket of a server that is gone
Broken   == "broken"   \* the peer of the connection is gone

ASSUME ServersAssumption == Servers \cap {NoServer, Stale, Broken} = {}
ASSUME BoundsAssumption ==
    MaxFaults \in Nat /\ MaxExits \in Nat /\ MaxGiveUps \in Nat

VARIABLES
    server,    \* server[s]: how far the daemon has come, or "unused"
    parent,    \* parent[s]: the process that started the daemon and waits for it
    lock,      \* who holds the lock file
    sock,      \* whom the name pseudo.socket leads to
    pc,        \* pc[c]: where client c is in pseudo_client_request
    conn,      \* conn[c]: the server at the other end of connect_fd
    attached,  \* attached[c]: that server has accepted the connection
    msg,       \* msg[c]: the message or answer on the connection
    child,     \* child[c]: the server whose start c waits for
    doneBy,    \* ghost: living servers that processed c's request
    applied,   \* ghost: some server processed c's request
    faults, exits, giveups   \* what is left of the bounds

servers == << server, parent, lock, sock >>
links   == << conn, attached, msg >>
ghosts  == << doneBy, applied >>
bounds  == << faults, exits, giveups >>
vars    == << servers, pc, links, child, ghosts, bounds >>

-----------------------------------------------------------------------------
(* Clients *)

Goto(c, step) == pc' = [pc EXCEPT ![c] = step]

pseudo_client_request(c) ==
    /\ pc[c] = "idle" /\ Goto(c, "send")
    /\ doneBy' = [doneBy EXCEPT ![c] = {}]
    /\ applied' = [applied EXCEPT ![c] = FALSE]
    /\ UNCHANGED << servers, links, child, bounds >>

\* sent, or no connection, or the peer is dead: pseudo_client_setup
SendRequest(c) ==
    /\ pc[c] = "send"
    /\ \/ /\ conn[c] \in Servers
          /\ msg' = [msg EXCEPT ![c] = "op"]
          /\ Goto(c, "receive")
          /\ UNCHANGED conn
       \/ /\ conn[c] \notin Servers
          /\ conn' = [conn EXCEPT ![c] = NoServer]
          /\ Goto(c, "connect")
          /\ UNCHANGED msg
    /\ UNCHANGED << servers, attached, child, ghosts, bounds >>

\* an answer already in the socket is read although the peer is gone
NoAnswer(c) == conn[c] = Broken /\ msg[c] # "ack"

ReceiveAnswer_Unchecked(c) ==
    /\ pc[c] = "receive" /\ (msg[c] = "ack" \/ NoAnswer(c))
    /\ msg' = [msg EXCEPT ![c] = "none"]
    /\ Goto(c, "idle")
    /\ UNCHANGED << servers, conn, attached, child, ghosts, bounds >>

ReceiveAnswer_Impatient(c) ==
    /\ pc[c] = "receive"
    /\ \/ msg[c] = "ack" /\ Goto(c, "idle")
       \/ msg[c] # "ack" /\ Goto(c, "retry")
    /\ msg' = [msg EXCEPT ![c] = "none"]
    /\ UNCHANGED << servers, conn, attached, child, ghosts, bounds >>

ReceiveAnswer(c) ==
    /\ pc[c] = "receive"
    /\ \/ msg[c] = "ack" /\ Goto(c, "idle")
       \/ NoAnswer(c) /\ Goto(c, "retry")
    /\ msg' = [msg EXCEPT ![c] = "none"]
    /\ UNCHANGED << servers, conn, attached, child, ghosts, bounds >>

\* the next of PSEUDO_RETRIES tries, after a delay if the setup failed
Retry(c) ==
    /\ pc[c] = "retry" /\ Goto(c, "send")
    /\ UNCHANGED << servers, links, child, ghosts, bounds >>

\* "server connection persistently failed, aborting"
GiveUp(c) ==
    /\ pc[c] = "retry" /\ giveups > 0
    /\ giveups' = giveups - 1
    /\ Goto(c, "aborted")
    /\ conn' = [conn EXCEPT ![c] = NoServer]
    /\ attached' = [attached EXCEPT ![c] = FALSE]
    /\ UNCHANGED << servers, msg, child, ghosts, faults, exits >>

\* connect and ping before ("connect") and after ("reconnect") starting a server
AfterConnect(step) == IF step = "connect" THEN "ping" ELSE "reping"
AfterFailure(step) == IF step \in {"connect", "ping"} THEN "spawn" ELSE "retry"

Listening(s) == s \in Servers /\ server[s] \in {"listening", "ready"}

client_connect(c) ==
    /\ pc[c] \in {"connect", "reconnect"}
    /\ \/ /\ Listening(sock)
          /\ conn' = [conn EXCEPT ![c] = sock]
          /\ attached' = [attached EXCEPT ![c] = FALSE]
          /\ msg' = [msg EXCEPT ![c] = "ping"]
          /\ Goto(c, AfterConnect(pc[c]))
          /\ UNCHANGED faults
       \/ /\ \/ ~Listening(sock) /\ UNCHANGED faults
             \/ faults > 0 /\ faults' = faults - 1
          /\ Goto(c, AfterFailure(pc[c]))
          /\ UNCHANGED links
    /\ UNCHANGED << servers, child, ghosts, exits, giveups >>

client_ping(c) ==
    /\ pc[c] \in {"ping", "reping"}
    /\ \/ /\ msg[c] = "ack" /\ Goto(c, "retry")
          /\ UNCHANGED conn
       \/ /\ NoAnswer(c) /\ Goto(c, AfterFailure(pc[c]))
          /\ conn' = [conn EXCEPT ![c] = NoServer]
    /\ msg' = [msg EXCEPT ![c] = "none"]
    /\ UNCHANGED << servers, attached, child, ghosts, bounds >>

\* fork and exec "pseudo -d", which forks the daemon
Free(s) == server[s] = "unused" /\ parent[s] = "none"

client_spawn_server(c) ==
    /\ pc[c] = "spawn"
    /\ \/ \E s \in Servers :
             /\ Free(s)
             /\ server' = [server EXCEPT ![s] = "forked"]
             /\ parent' = [parent EXCEPT ![s] = "forked"]
             /\ child' = [child EXCEPT ![c] = s]
             /\ Goto(c, "waitpid")
             /\ UNCHANGED faults
       \/ /\ faults > 0 /\ faults' = faults - 1
          /\ Goto(c, "retry")
          /\ UNCHANGED << server, parent, child >>
    /\ UNCHANGED << lock, sock, links, ghosts, exits, giveups >>

client_waitpid(c) ==
    /\ pc[c] = "waitpid" /\ parent[child[c]] \in {"ok", "failed"}
    /\ Goto(c, IF parent[child[c]] = "ok" THEN "reconnect" ELSE "retry")
    /\ parent' = [parent EXCEPT ![child[c]] = "none"]
    /\ child' = [child EXCEPT ![c] = NoServer]
    /\ UNCHANGED << server, lock, sock, links, ghosts, bounds >>

\* the process exits between two requests; the next one starts without a connection
Disconnect(c) ==
    /\ pc[c] = "idle" /\ conn[c] # NoServer
    /\ conn' = [conn EXCEPT ![c] = NoServer]
    /\ attached' = [attached EXCEPT ![c] = FALSE]
    /\ UNCHANGED << servers, pc, msg, child, ghosts, bounds >>

-----------------------------------------------------------------------------
(* The process that forked the daemon *)

\* until the handlers are installed, SIGUSR1 kills it
InstallHandlers(s) ==
    /\ parent[s] = "forked"
    /\ parent' = [parent EXCEPT ![s] = "waiting"]
    /\ UNCHANGED << server, lock, sock, pc, links, child, ghosts, bounds >>

\* SIGUSR1, or the child has exited, or SIGALRM: two seconds have passed
ParentReturns(s) ==
    /\ \/ /\ parent[s] = "signalled"
          /\ parent' = [parent EXCEPT ![s] = "ok"]
       \/ /\ parent[s] = "waiting" /\ server[s] = "unused"
          /\ parent' = [parent EXCEPT ![s] = "failed"]
       \/ /\ parent[s] = "waiting" /\ server[s] # "unused"
          /\ parent' = [parent EXCEPT ![s] = "failed"]
    /\ UNCHANGED << server, lock, sock, pc, links, child, ghosts, bounds >>

-----------------------------------------------------------------------------
(* The daemon *)

\* the end of a process: the kernel drops its lock and its connections; the name
\* of its socket stays
Gone(s) ==
    /\ server' = [server EXCEPT ![s] = "unused"]
    /\ lock' = IF lock = s THEN NoServer ELSE lock
    /\ sock' = IF sock = s THEN Stale ELSE sock
    /\ conn' = [c \in Clients |-> IF conn[c] = s THEN Broken ELSE conn[c]]
    /\ attached' = [c \in Clients |-> attached[c] /\ conn[c] # s]
    /\ msg' = [c \in Clients |->
                  IF conn[c] = s /\ msg[c] # "ack" THEN "none" ELSE msg[c]]
    /\ doneBy' = [c \in Clients |-> doneBy[c] \ {s}]

Step(s, from, to) == server[s] = from /\ server' = [server EXCEPT ![s] = to]

TakeLock_Blind(s) ==
    /\ Step(s, "forked", "locked") /\ lock' = s
    /\ UNCHANGED << parent, sock, pc, links, child, ghosts, bounds >>

TakeLock_AfterUnlink(s) ==
    /\ IF lock = NoServer THEN Step(s, "forked", "locked") /\ lock' = s
       ELSE Step(s, "forked", "unused") /\ UNCHANGED lock
    /\ sock' = NoServer
    /\ UNCHANGED << parent, pc, links, child, ghosts, bounds >>

\* fcntl(F_SETLK), or exit with PSEUDO_EXIT_LOCK_HELD
TakeLock(s) ==
    /\ \/ lock = NoServer /\ Step(s, "forked", "locked") /\ lock' = s
       \/ lock # NoServer /\ Step(s, "forked", "unused") /\ UNCHANGED lock
    /\ UNCHANGED << parent, sock, pc, links, child, ghosts, bounds >>

BindSocket_Exists(s) ==
    /\ \/ /\ sock = NoServer /\ Step(s, "locked", "bound") /\ sock' = s
          /\ UNCHANGED << lock, links, doneBy >>
       \/ sock # NoServer /\ server[s] = "locked" /\ Gone(s)
    /\ UNCHANGED << parent, pc, child, applied, bounds >>

\* unlink what is there and bind
BindSocket(s) ==
    /\ Step(s, "locked", "bound") /\ sock' = s
    /\ UNCHANGED << parent, lock, pc, links, child, ghosts, bounds >>

Listen(s) ==
    /\ Step(s, "bound", "listening")
    /\ UNCHANGED << parent, lock, sock, pc, links, child, ghosts, bounds >>

\* SIGUSR1 to the parent; if it has gone, nobody is told
TellParent(s) ==
    /\ Step(s, "listening", "ready")
    /\ parent' = [parent EXCEPT ![s] =
                    IF @ = "waiting" THEN "signalled"
                    ELSE IF @ = "forked" THEN "failed" ELSE @]
    /\ UNCHANGED << lock, sock, pc, links, child, ghosts, bounds >>

Serving(c) == conn[c] \in Servers /\ server[conn[c]] = "ready"

\* the server has processed a message of c and is about to answer it
Busy(s) == \E c \in Clients : conn[c] = s /\ msg[c] = "done"

AcceptConnection(c) ==
    /\ Serving(c) /\ ~attached[c] /\ ~Busy(conn[c])
    /\ attached' = [attached EXCEPT ![c] = TRUE]
    /\ UNCHANGED << servers, pc, conn, msg, child, ghosts, bounds >>

ProcessRequest(c) ==
    /\ Serving(c) /\ attached[c] /\ msg[c] = "op" /\ ~Busy(conn[c])
    /\ msg' = [msg EXCEPT ![c] = "done"]
    /\ doneBy' = [doneBy EXCEPT ![c] = @ \cup {conn[c]}]
    /\ applied' = [applied EXCEPT ![c] = TRUE]
    /\ UNCHANGED << servers, pc, conn, attached, child, bounds >>

AnswerRequest(c) ==
    /\ Serving(c) /\ attached[c]
    /\ msg[c] = "done" \/ (msg[c] = "ping" /\ ~Busy(conn[c]))
    /\ msg' = [msg EXCEPT ![c] = "ack"]
    /\ UNCHANGED << servers, pc, conn, attached, child, ghosts, bounds >>

\* the listening socket is closed: connections nobody accepted are reset
CloseListener(s) ==
    /\ Step(s, "ready", "closing") /\ ~Busy(s)
    /\ conn' = [c \in Clients |->
                   IF conn[c] = s /\ ~attached[c] THEN Broken ELSE conn[c]]
    /\ msg' = [c \in Clients |->
                   IF conn[c] = s /\ ~attached[c] THEN "none" ELSE msg[c]]
    /\ UNCHANGED << parent, lock, sock, pc, attached, child, ghosts >>

\* nobody is attached: the timeout, or "pseudo -S"
DiePeacefully(s) ==
    /\ exits > 0 /\ exits' = exits - 1
    /\ \A c \in Clients : conn[c] = s => ~attached[c]
    /\ CloseListener(s)
    /\ UNCHANGED << faults, giveups >>

\* a signal: whoever is attached loses the server
DieForcefully(s) ==
    /\ faults > 0 /\ faults' = faults - 1
    /\ CloseListener(s)
    /\ UNCHANGED << exits, giveups >>

Exit(s) ==
    /\ server[s] = "closing" /\ Gone(s)
    /\ UNCHANGED << parent, pc, child, applied, bounds >>

\* killed, or one of the calls of pseudo_server_start fails
Kill(s) ==
    /\ faults > 0 /\ faults' = faults - 1
    /\ server[s] # "unused" /\ Gone(s)
    /\ UNCHANGED << parent, pc, child, applied, exits, giveups >>

-----------------------------------------------------------------------------
Init ==
    /\ server = [s \in Servers |-> "unused"]
    /\ parent = [s \in Servers |-> "none"]
    /\ lock = NoServer /\ sock = NoServer
    /\ pc = [c \in Clients |-> "idle"]
    /\ conn = [c \in Clients |-> NoServer]
    /\ attached = [c \in Clients |-> FALSE]
    /\ msg = [c \in Clients |-> "none"]
    /\ child = [c \in Clients |-> NoServer]
    /\ doneBy = [c \in Clients |-> {}]
    /\ applied = [c \in Clients |-> FALSE]
    /\ faults = MaxFaults /\ exits = MaxExits /\ giveups = MaxGiveUps

ClientStep(c) ==
    \/ SendRequest(c) \/ ReceiveAnswer(c) \/ Retry(c)
    \/ client_connect(c) \/ client_ping(c)
    \/ client_spawn_server(c) \/ client_waitpid(c)

ParentStep(s) == InstallHandlers(s) \/ ParentReturns(s)

StartStep(s) ==
    TakeLock(s) \/ BindSocket(s) \/ Listen(s) \/ TellParent(s) \/ Exit(s)

ServeStep(c) == AcceptConnection(c) \/ ProcessRequest(c) \/ AnswerRequest(c)

Next ==
    \/ \E c \in Clients :
          \/ ClientStep(c) \/ ServeStep(c)
          \/ pseudo_client_request(c) \/ Disconnect(c) \/ GiveUp(c)
    \/ \E s \in Servers :
          \/ ParentStep(s) \/ StartStep(s)
          \/ DiePeacefully(s) \/ DieForcefully(s) \/ Kill(s)

\* Every process runs when it can.  A server is busy with other clients now and
\* then, but it handles every event of a batch before it asks for the next one, so
\* it gets to each client that has something for it: strong fairness.
Fairness ==
    /\ \A c \in Clients : WF_vars(ClientStep(c)) /\ SF_vars(ServeStep(c))
    /\ \A s \in Servers : WF_vars(ParentStep(s)) /\ WF_vars(StartStep(s))

Spec == Init /\ [][Next]_vars /\ Fairness

-----------------------------------------------------------------------------
(* Properties *)

Steps == {"idle", "send", "receive", "retry", "aborted", "connect", "ping", "spawn",
          "waitpid", "reconnect", "reping"}
Holding == {"locked", "bound", "listening", "ready", "closing"}

\* Every variable has its type; a client waits for a daemon's start exactly while
\* it knows which.
TypeOK ==
    /\ server \in [Servers -> Holding \cup {"unused", "forked"}]
    /\ parent \in [Servers -> {"none", "forked", "waiting", "signalled", "ok", "failed"}]
    /\ lock \in Servers \cup {NoServer} /\ sock \in Servers \cup {NoServer, Stale}
    /\ pc \in [Clients -> Steps]
    /\ conn \in [Clients -> Servers \cup {NoServer, Broken}]
    /\ attached \in [Clients -> BOOLEAN]
    /\ msg \in [Clients -> {"none", "ping", "op", "done", "ack"}]
    /\ child \in [Clients -> Servers \cup {NoServer}]
    /\ \A c \in Clients : child[c] \in Servers <=> pc[c] = "waitpid"
    /\ doneBy \in [Clients -> SUBSET Servers] /\ applied \in [Clients -> BOOLEAN]
    /\ faults \in 0 .. MaxFaults /\ exits \in 0 .. MaxExits
    /\ giveups \in 0 .. MaxGiveUps

\* At most one server is past the lock and not yet gone, however many clients
\* start one: two servers would both write the database.
OneServer ==
    \A s, t \in Servers : server[s] \in Holding /\ server[t] \in Holding => s = t

\* A server that serves can be reached: pseudo.socket leads to it, and not to
\* another one or nowhere.  Otherwise it would hold the lock for as long as its
\* clients stay, and nobody else could get a server.
Reachable == \A s \in Servers : server[s] \in {"listening", "ready"} => sock = s

\* No server processes a request twice: a client sends again only after the
\* server that may have processed it is gone (LoseAnswer in PseudoClients).
ProcessedOnce ==
    [][\A c \in Clients : msg[c] # "done" /\ msg'[c] = "done" =>
          conn[c] \notin doneBy[c]]_vars

\* the abstract specification's view
Phase ==
    [c \in Clients |->
        IF pc[c] = "idle" THEN "idle"
        ELSE IF pc[c] = "aborted" THEN "failed"
        ELSE IF applied[c] THEN "applied" ELSE "pending"]

Service == INSTANCE RequestService WITH phase <- Phase

\* pseudo_client_request returns only after the request was applied: ending or
\* dying servers, answers to pings and resent messages never make it return early.
Implements == Service!Spec

\* Every request is answered, unless its client runs out of tries: once no more
\* servers are killed or leave, nobody waits for ever for a server, for the lock
\* or for a start.
Served == \A c \in Clients : pc[c] = "send" ~> pc[c] \in {"idle", "aborted"}
=============================================================================
