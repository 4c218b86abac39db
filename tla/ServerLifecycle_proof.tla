----------------------- MODULE ServerLifecycle_proof -----------------------
(***************************************************************************)
(* Theorems about ServerLifecycle, for any number of clients and servers   *)
(* and any bounds.  The lock gives OneServer; that a server replaces the   *)
(* socket only while it holds the lock gives Reachable; that a client      *)
(* sends again only over a new connection gives ProcessedOnce; and that    *)
(* the answer to a ping is consumed before a request is sent gives the     *)
(* refinement.  Served needs fairness and is checked by TLC only.          *)
(***************************************************************************)
EXTENDS ServerLifecycle, TLAPS

\* Whoever is past the lock holds it.
LockHeld == \A s \in Servers : server[s] \in Holding => lock = s

\* From bind() on, the name of the socket leads to the holder of the lock.
SockOwned ==
    \A s \in Servers : server[s] \in Holding \ {"locked"} => sock = s

\* What is on a connection belongs to the step its client is at, and an answer to
\* a request is there only if the request was processed.
Talking ==
    \A c \in Clients :
        /\ msg[c] = "ping" => pc[c] \in {"ping", "reping"}
        /\ msg[c] \in {"op", "done"} => pc[c] = "receive"
        /\ msg[c] = "ack" => pc[c] \in {"ping", "reping", "receive"}
        /\ msg[c] = "done" => applied[c]
        /\ msg[c] = "ack" /\ pc[c] = "receive" => applied[c]

\* Only the server at the other end can have processed the request, only while
\* its answer is awaited, and only if it has accepted the connection.
Fresh ==
    \A c \in Clients :
        /\ pc[c] \notin {"idle", "receive"} => doneBy[c] = {}
        /\ pc[c] # "idle" => doneBy[c] \subseteq {conn[c]}
        /\ pc[c] # "idle" /\ doneBy[c] # {} => attached[c]
        /\ msg[c] = "op" => doneBy[c] = {}

IInv == TypeOK /\ LockHeld /\ SockOwned /\ Talking /\ Fresh

-----------------------------------------------------------------------------
(* Each part of the invariant is preserved *)

\* Every step of every process keeps the types.
LEMMA TypeStep ==
    ASSUME TypeOK, [Next]_vars
    PROVE  TypeOK'
<1> USE ServersAssumption, BoundsAssumption
    DEF TypeOK, Holding, Steps, servers, links, ghosts, bounds, NoServer, Stale, Broken
<1>1. ASSUME NEW c \in Clients, ClientStep(c) PROVE TypeOK'
  <2> USE DEF Goto
  <2>1. CASE SendRequest(c) BY <2>1 DEF SendRequest
  <2>2. CASE ReceiveAnswer(c) BY <2>2 DEF ReceiveAnswer
  <2>3. CASE Retry(c) BY <2>3 DEF Retry
  <2>4. CASE client_connect(c)
    <3>1. PICK step \in Steps \ {"waitpid"} : pc' = [pc EXCEPT ![c] = step]
      BY <2>4 DEF client_connect, AfterConnect, AfterFailure
    <3>2. conn' \in [Clients -> Servers \cup {NoServer, Broken}]
      BY <2>4 DEF client_connect, Listening
    <3>3. attached' \in [Clients -> BOOLEAN]
      BY <2>4 DEF client_connect
    <3>4. msg' \in [Clients -> {"none", "ping", "op", "done", "ack"}]
      BY <2>4 DEF client_connect
    <3>5. faults' \in 0 .. MaxFaults
      BY <2>4 DEF client_connect
    <3>6. UNCHANGED << servers, child, ghosts, exits, giveups >> /\ pc[c] # "waitpid"
      BY <2>4 DEF client_connect
    <3> QED BY <3>1, <3>2, <3>3, <3>4, <3>5, <3>6
  <2>5. CASE client_ping(c) BY <2>5 DEF client_ping, AfterFailure
  <2>6. CASE client_spawn_server(c) BY <2>6 DEF client_spawn_server, Free
  <2>7. CASE client_waitpid(c) BY <2>7 DEF client_waitpid
  <2> QED BY <1>1, <2>1, <2>2, <2>3, <2>4, <2>5, <2>6, <2>7 DEF ClientStep
<1>2. ASSUME NEW c \in Clients, ServeStep(c) PROVE TypeOK'
  <2>1. CASE AcceptConnection(c) BY <2>1 DEF AcceptConnection
  <2>2. CASE ProcessRequest(c) BY <2>2 DEF ProcessRequest, Serving
  <2>3. CASE AnswerRequest(c) BY <2>3 DEF AnswerRequest
  <2> QED BY <1>2, <2>1, <2>2, <2>3 DEF ServeStep
<1>3. ASSUME NEW c \in Clients, pseudo_client_request(c) \/ Disconnect(c) \/ GiveUp(c)
      PROVE  TypeOK'
  <2>1. CASE pseudo_client_request(c) BY <2>1 DEF pseudo_client_request, Goto
  <2>2. CASE Disconnect(c) BY <2>2 DEF Disconnect
  <2>3. CASE GiveUp(c) BY <2>3 DEF GiveUp, Goto
  <2> QED BY <1>3, <2>1, <2>2, <2>3
<1>4. ASSUME NEW s \in Servers, ParentStep(s) PROVE TypeOK'
  BY <1>4 DEF ParentStep, InstallHandlers, ParentReturns
<1>5. ASSUME NEW s \in Servers, Gone(s),
             UNCHANGED << parent, pc, child, applied, exits, giveups >>,
             faults' \in 0 .. MaxFaults
      PROVE  TypeOK'
  BY <1>5 DEF Gone
<1>6. ASSUME NEW s \in Servers, StartStep(s) PROVE TypeOK'
  <2>1. CASE TakeLock(s) BY <2>1 DEF TakeLock, Step
  <2>2. CASE BindSocket(s) BY <2>2 DEF BindSocket, Step
  <2>3. CASE Listen(s) BY <2>3 DEF Listen, Step
  <2>4. CASE TellParent(s) BY <2>4 DEF TellParent, Step
  <2>5. CASE Exit(s) BY <1>5, <2>5 DEF Exit
  <2> QED BY <1>6, <2>1, <2>2, <2>3, <2>4, <2>5 DEF StartStep
<1>7. ASSUME NEW s \in Servers, DiePeacefully(s) \/ DieForcefully(s) \/ Kill(s)
      PROVE  TypeOK'
  <2>1. CASE Kill(s) BY <1>5, <2>1 DEF Kill
  <2>2. CASE DiePeacefully(s) BY <2>2 DEF DiePeacefully, CloseListener, Step
  <2>3. CASE DieForcefully(s) BY <2>3 DEF DieForcefully, CloseListener, Step
  <2> QED BY <1>7, <2>1, <2>2, <2>3
<1>8. CASE UNCHANGED vars BY <1>8 DEF vars
<1> QED BY <1>1, <1>2, <1>3, <1>4, <1>6, <1>7, <1>8 DEF Next

\* The lock is taken only when it is free, and the socket is replaced only by the
\* holder of the lock.
LEMMA LockStep ==
    ASSUME TypeOK, LockHeld, SockOwned, [Next]_vars
    PROVE  LockHeld' /\ SockOwned'
<1> USE ServersAssumption
    DEF TypeOK, LockHeld, SockOwned, Holding, servers, links, ghosts, bounds
<1>1. ASSUME NEW c \in Clients, ClientStep(c) PROVE LockHeld' /\ SockOwned'
  BY <1>1 DEF ClientStep, SendRequest, ReceiveAnswer, Retry, client_connect, client_ping,
     client_spawn_server, client_waitpid, Free
<1>2. ASSUME NEW c \in Clients, ServeStep(c) PROVE LockHeld' /\ SockOwned'
  BY <1>2 DEF ServeStep, AcceptConnection, ProcessRequest, AnswerRequest
<1>3. ASSUME NEW c \in Clients, pseudo_client_request(c) \/ Disconnect(c) \/ GiveUp(c)
      PROVE  LockHeld' /\ SockOwned'
  BY <1>3 DEF pseudo_client_request, Disconnect, GiveUp
<1>4. ASSUME NEW s \in Servers, ParentStep(s) PROVE LockHeld' /\ SockOwned'
  BY <1>4 DEF ParentStep, InstallHandlers, ParentReturns
<1>5. ASSUME NEW s \in Servers, StartStep(s) PROVE LockHeld' /\ SockOwned'
  <2>1. CASE TakeLock(s) BY <2>1 DEF TakeLock, Step
  <2>2. CASE BindSocket(s) BY <2>2 DEF BindSocket, Step
  <2>3. CASE Listen(s) BY <2>3 DEF Listen, Step
  <2>4. CASE TellParent(s) BY <2>4 DEF TellParent, Step
  <2>5. CASE Exit(s) BY <2>5 DEF Exit, Gone
  <2> QED BY <1>5, <2>1, <2>2, <2>3, <2>4, <2>5 DEF StartStep
<1>6. ASSUME NEW s \in Servers, DiePeacefully(s) \/ DieForcefully(s) \/ Kill(s)
      PROVE  LockHeld' /\ SockOwned'
  <2>1. CASE Kill(s) BY <2>1 DEF Kill, Gone
  <2>2. CASE CloseListener(s) BY <2>2 DEF CloseListener, Step
  <2> QED BY <1>6, <2>1, <2>2 DEF DiePeacefully, DieForcefully
<1>7. CASE UNCHANGED vars BY <1>7 DEF vars
<1> QED BY <1>1, <1>2, <1>3, <1>4, <1>5, <1>6, <1>7 DEF Next

\* A message is sent, processed and answered in this order, and the answer is
\* consumed before the next message.
LEMMA TalkStep ==
    ASSUME TypeOK, Talking, [Next]_vars
    PROVE  Talking'
<1> USE DEF TypeOK, Talking, servers, links, ghosts, bounds
<1>1. ASSUME NEW c \in Clients, ClientStep(c) PROVE Talking'
  <2> USE DEF Goto
  <2>1. CASE SendRequest(c) BY <2>1 DEF SendRequest
  <2>2. CASE ReceiveAnswer(c) BY <2>2 DEF ReceiveAnswer
  <2>3. CASE Retry(c) BY <2>3 DEF Retry
  <2>4. CASE client_connect(c) BY <2>4 DEF client_connect, AfterConnect, AfterFailure
  <2>5. CASE client_ping(c) BY <2>5 DEF client_ping, AfterFailure
  <2>6. CASE client_spawn_server(c) BY <2>6 DEF client_spawn_server
  <2>7. CASE client_waitpid(c) BY <2>7 DEF client_waitpid
  <2> QED BY <1>1, <2>1, <2>2, <2>3, <2>4, <2>5, <2>6, <2>7 DEF ClientStep
<1>2. ASSUME NEW c \in Clients, ServeStep(c) PROVE Talking'
  BY <1>2 DEF ServeStep, AcceptConnection, ProcessRequest, AnswerRequest
<1>3. ASSUME NEW c \in Clients, pseudo_client_request(c) \/ Disconnect(c) \/ GiveUp(c)
      PROVE  Talking'
  BY <1>3 DEF pseudo_client_request, Disconnect, GiveUp, Goto
<1>4. ASSUME NEW s \in Servers, ParentStep(s) PROVE Talking'
  BY <1>4 DEF ParentStep, InstallHandlers, ParentReturns
<1>5. ASSUME NEW s \in Servers, Gone(s), UNCHANGED << pc, applied >> PROVE Talking'
  BY <1>5 DEF Gone
<1>6. ASSUME NEW s \in Servers, StartStep(s) PROVE Talking'
  BY <1>5, <1>6 DEF StartStep, TakeLock, BindSocket, Listen, TellParent, Exit
<1>7. ASSUME NEW s \in Servers, DiePeacefully(s) \/ DieForcefully(s) \/ Kill(s)
      PROVE  Talking'
  <2>1. CASE Kill(s) BY <1>5, <2>1 DEF Kill
  <2>2. CASE CloseListener(s) BY <2>2 DEF CloseListener
  <2> QED BY <1>7, <2>1, <2>2 DEF DiePeacefully, DieForcefully
<1>8. CASE UNCHANGED vars BY <1>8 DEF vars
<1> QED BY <1>1, <1>2, <1>3, <1>4, <1>6, <1>7, <1>8 DEF Next

\* A client that has not been answered gives up its connection only when the server
\* is gone or has not accepted it.
LEMMA FreshStep ==
    ASSUME TypeOK, Talking, Fresh, [Next]_vars
    PROVE  Fresh'
<1> USE ServersAssumption
    DEF TypeOK, Fresh, servers, links, ghosts, bounds, NoServer, Broken
<1>1. ASSUME NEW c \in Clients, ClientStep(c) PROVE Fresh'
  <2> USE DEF Goto
  <2>1. CASE SendRequest(c) BY <2>1 DEF SendRequest
  <2>2. CASE ReceiveAnswer(c) BY <2>2 DEF ReceiveAnswer, NoAnswer
  <2>3. CASE Retry(c) BY <2>3 DEF Retry
  <2>4. CASE client_connect(c) BY <2>4 DEF client_connect, AfterConnect, AfterFailure
  <2>5. CASE client_ping(c) BY <2>5 DEF client_ping, AfterFailure
  <2>6. CASE client_spawn_server(c) BY <2>6 DEF client_spawn_server
  <2>7. CASE client_waitpid(c) BY <2>7 DEF client_waitpid
  <2> QED BY <1>1, <2>1, <2>2, <2>3, <2>4, <2>5, <2>6, <2>7 DEF ClientStep
<1>2. ASSUME NEW c \in Clients, ServeStep(c) PROVE Fresh'
  BY <1>2 DEF ServeStep, AcceptConnection, ProcessRequest, AnswerRequest, Talking
<1>3. ASSUME NEW c \in Clients, pseudo_client_request(c) \/ Disconnect(c) \/ GiveUp(c)
      PROVE  Fresh'
  BY <1>3 DEF pseudo_client_request, Disconnect, GiveUp, Goto
<1>4. ASSUME NEW s \in Servers, ParentStep(s) PROVE Fresh'
  BY <1>4 DEF ParentStep, InstallHandlers, ParentReturns
<1>5. ASSUME NEW s \in Servers, Gone(s), UNCHANGED pc PROVE Fresh'
  BY <1>5 DEF Gone
<1>6. ASSUME NEW s \in Servers, StartStep(s) PROVE Fresh'
  BY <1>5, <1>6 DEF StartStep, TakeLock, BindSocket, Listen, TellParent, Exit
<1>7. ASSUME NEW s \in Servers, DiePeacefully(s) \/ DieForcefully(s) \/ Kill(s)
      PROVE  Fresh'
  <2>1. CASE Kill(s) BY <1>5, <2>1 DEF Kill
  <2>2. CASE CloseListener(s) BY <2>2 DEF CloseListener
  <2> QED BY <1>7, <2>1, <2>2 DEF DiePeacefully, DieForcefully
<1>8. CASE UNCHANGED vars BY <1>8 DEF vars
<1> QED BY <1>1, <1>2, <1>3, <1>4, <1>6, <1>7, <1>8 DEF Next

-----------------------------------------------------------------------------
(* Theorems *)

\* The inductive invariant: types, the lock, the socket, the conversation on each
\* connection, and who can have processed a request.
THEOREM Invariant == Spec => []IInv
<1>1. Init => IInv
  BY ServersAssumption, BoundsAssumption
  DEF Init, IInv, TypeOK, Holding, Steps, LockHeld, SockOwned, Talking, Fresh, NoServer,
      Stale, Broken
<1>2. IInv /\ [Next]_vars => IInv'
  BY TypeStep, LockStep, TalkStep, FreshStep DEF IInv
<1> QED BY <1>1, <1>2, PTL DEF Spec

\* Clients, daemons and the processes that start them keep their types.
THEOREM TypeCorrect == Spec => []TypeOK
<1>1. IInv => TypeOK
  BY DEF IInv
<1> QED BY <1>1, Invariant, PTL

\* However many clients start a server, one at most gets past the lock in
\* pseudo_server_start before the previous one is gone.
THEOREM AtMostOneServer == Spec => []OneServer
<1>1. IInv => OneServer
  BY DEF IInv, LockHeld, OneServer
<1> QED BY <1>1, Invariant, PTL

\* pseudo.socket leads to the server that listens.
THEOREM ServerReachable == Spec => []Reachable
<1>1. IInv => Reachable
  BY DEF IInv, SockOwned, Reachable, Holding
<1> QED BY <1>1, Invariant, PTL

\* No server processes the same request twice: PSEUDO_RETRIES resends a message
\* only to another server.
THEOREM NoRepetition == Spec => ProcessedOnce
<1>1. IInv /\ [Next]_vars =>
        [\A c \in Clients : msg[c] # "done" /\ msg'[c] = "done" =>
            conn[c] \notin doneBy[c]]_vars
  <2> SUFFICES ASSUME IInv, Next, NEW c \in Clients, msg[c] # "done", msg'[c] = "done"
               PROVE  conn[c] \notin doneBy[c]
    OBVIOUS
  <2>1. msg[c] = "op"
    <3> USE DEF IInv, TypeOK, servers, links, ghosts, bounds
    <3>1. ASSUME NEW d \in Clients, ServeStep(d) PROVE msg[c] = "op"
      BY <3>1 DEF ServeStep, AcceptConnection, ProcessRequest, AnswerRequest
    <3>2. ASSUME NEW d \in Clients, ClientStep(d) PROVE FALSE
      BY <3>2 DEF ClientStep, SendRequest, ReceiveAnswer, Retry, client_connect,
         client_ping, client_spawn_server, client_waitpid
    <3>3. ASSUME NEW d \in Clients, pseudo_client_request(d) \/ Disconnect(d) \/ GiveUp(d)
          PROVE  FALSE
      BY <3>3 DEF pseudo_client_request, Disconnect, GiveUp
    <3>4. ASSUME NEW s \in Servers, ParentStep(s) \/ StartStep(s) PROVE FALSE
      BY <3>4 DEF ParentStep, InstallHandlers, ParentReturns, StartStep, TakeLock,
         BindSocket, Listen, TellParent, Exit, Gone
    <3>5. ASSUME NEW s \in Servers, DiePeacefully(s) \/ DieForcefully(s) \/ Kill(s)
          PROVE  FALSE
      BY <3>5 DEF DiePeacefully, DieForcefully, CloseListener, Kill, Gone
    <3> QED BY <3>1, <3>2, <3>3, <3>4, <3>5 DEF Next
  <2> QED BY <2>1 DEF IInv, Fresh
<1> QED BY <1>1, Invariant, PTL DEF Spec, ProcessedOnce

\* A step that changes neither pc nor applied is a stuttering step of the service.
LEMMA PhaseKept ==
    ASSUME UNCHANGED << pc, applied >>
    PROVE  UNCHANGED Phase
BY DEF Phase

\* pseudo_client_request implements the abstract service: it returns only after
\* its request was applied.
THEOREM ServiceImplemented == Spec => Implements
<1> USE DEF Service!Next, Service!Submit, Service!Apply, Service!Return, Service!Fail,
            Service!Move
<1>1. Init => Service!Init
  BY DEF Init, Service!Init, Phase
<1>2. IInv /\ [Next]_vars => [Service!Next]_Phase
  <2> SUFFICES ASSUME IInv, [Next]_vars PROVE [Service!Next]_Phase
    OBVIOUS
  <2> USE DEF IInv, TypeOK, Phase, servers, links, ghosts, bounds
  <2>1. ASSUME NEW c \in Clients, pseudo_client_request(c) PROVE Service!Submit(c)
    BY <2>1 DEF pseudo_client_request, Goto
  <2>2. ASSUME NEW c \in Clients, ReceiveAnswer(c), msg[c] = "ack" PROVE Service!Return(c)
    <3>1. pc[c] = "receive" /\ applied[c] /\ applied' = applied
      BY <2>2 DEF ReceiveAnswer, Talking
    <3>2. pc' = [pc EXCEPT ![c] = "idle"]
      BY <2>2 DEF ReceiveAnswer, NoAnswer, Goto
    <3> QED BY <3>1, <3>2
  <2>3. ASSUME NEW c \in Clients, ReceiveAnswer(c), msg[c] # "ack" PROVE UNCHANGED Phase
    BY <2>3 DEF ReceiveAnswer, NoAnswer, Goto
  <2>4. ASSUME NEW c \in Clients, GiveUp(c) PROVE Service!Fail(c)
    BY <2>4 DEF GiveUp, Goto
  <2>5. ASSUME NEW c \in Clients, ProcessRequest(c)
        PROVE  Service!Apply(c) \/ UNCHANGED Phase
    BY <2>5 DEF ProcessRequest, Talking
  <2>6. ASSUME NEW c \in Clients, ClientStep(c), ~ReceiveAnswer(c) PROVE UNCHANGED Phase
    BY <2>6 DEF ClientStep, SendRequest, Retry, client_connect, client_ping,
       client_spawn_server, client_waitpid, Goto, AfterConnect, AfterFailure
  <2>7. ASSUME NEW c \in Clients, AcceptConnection(c) \/ AnswerRequest(c) \/ Disconnect(c)
        PROVE  UNCHANGED Phase
    BY <2>7, PhaseKept DEF AcceptConnection, AnswerRequest, Disconnect
  <2>8. ASSUME NEW s \in Servers, ParentStep(s) \/ StartStep(s) PROVE UNCHANGED Phase
    BY <2>8, PhaseKept DEF ParentStep, InstallHandlers, ParentReturns, StartStep, TakeLock,
       BindSocket, Listen, TellParent, Exit
  <2>9. ASSUME NEW s \in Servers, DiePeacefully(s) \/ DieForcefully(s) \/ Kill(s)
        PROVE  UNCHANGED Phase
    BY <2>9, PhaseKept DEF DiePeacefully, DieForcefully, CloseListener, Kill
  <2>10. CASE UNCHANGED vars
    BY <2>10, PhaseKept DEF vars
  <2> QED BY <2>1, <2>2, <2>3, <2>4, <2>5, <2>6, <2>7, <2>8, <2>9, <2>10
          DEF Next, ServeStep
<1> QED BY <1>1, <1>2, Invariant, PTL DEF Spec, Implements, Service!Spec
=============================================================================
