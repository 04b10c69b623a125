------------------------- MODULE DoIPServer_proofs -------------------------
(***************************************************************************)
(* Theorems about DoIPServer, for every number of clients and every script. *)
(***************************************************************************)
EXTENDS DoIPServer, FiniteSetTheorems, WellFoundedInduction, TLAPS

-----------------------------------------------------------------------------
(* The inductive invariant *)

(* A message has been received and is being received further or handled. *)
Handling == {"payload", "payload wait", "reset", "react", "deliver"}

(* The old connection_ is being destroyed. *)
Replacing == {"destroy", "disable", "join"}

(* connection_ is the connection of the client that was accepted last. *)
Serving == {"loop", "header", "header wait", "close", "clear"} \union Handling

Socket == connection.tcpSocket
Route  == connection.routed

(* The descriptor table: every client has at most one number, and a number *)
(* is reserved exactly while accept sleeps.                                *)
Descriptors ==
    /\ \A f, g \in Fds : IsClient(f) /\ fds[f] = fds[g] => f = g
    /\ \A f \in Fds : fds[f] = "stdin" => f = 0
    /\ \A f \in Fds : fds[f] = "reserved" <=> pc = "accepting" /\ f = accepted

(* The server knows nothing of c yet. *)
Untouched(c) ==
    /\ \A f \in Fds : fds[f] # c
    /\ receiving # c /\ from # c
    /\ \A r \in replies : r.for # c

(* A client enters the backlog once, and is served once. *)
Newcomers ==
    /\ \A j, k \in DOMAIN backlog : backlog[j] = backlog[k] => j = k
    /\ \A c \in Clients : client[c] = "idle" => ~InBacklog(c)
    /\ \A c \in Clients : client[c] = "idle" \/ InBacklog(c) => Untouched(c)

(* The timer has one thread, which was started when routing was activated. *)
Threads == connection.threads = IF connection.active THEN 1 ELSE 0

(* The number in tcpSocket is the accepted one until that one is closed,    *)
(* by either thread.                                                       *)
OwnSocket ==
    pc \in Serving =>
        /\ Socket \in {0, accepted}
        /\ Socket # accepted \/ pc = "clear" \/ tpc = "clear" => ~IsClient(accepted)
        /\ tpc = "close" => victim = accepted \/ ~IsClient(accepted)

(* Whoever is read from or answered has no other descriptor than tcpSocket. *)
Peer ==
    /\ pc \in Handling => from # None /\ msg # None
    /\ pc \in Handling => \A f \in Fds : fds[f] = from => f = Socket
    /\ receiving # None => \A f \in Fds : fds[f] = receiving => f = Socket

(* A client that was refused has no descriptor left but the one that is     *)
(* about to be closed.                                                     *)
Refusals ==
    \A c \in Clients : Refused(c) =>
        /\ receiving # c
        /\ \A f \in Fds : fds[f] = c => pc = "close" /\ f = Socket

(* As long as descriptor 0 is open, the address that is routed was          *)
(* activated by the client whose connection this is.                       *)
ActivatedBy(c) ==
    /\ [for |-> c, kind |-> "activated", address |-> Route] \in replies
    /\ IsClient(Socket) => fds[Socket] = c
    /\ receiving \in {None, c}
    /\ pc \in Handling => from = c

Delivered ==
    StandardInputOpen => \A r \in replies : r.kind = "data" =>
        \E q \in replies : q.kind = "activated" /\ q.for = r.for /\ q.address = r.address

Reads ==
    /\ pc = "payload wait" => receiving = from
    /\ pc \in Handling /\ IsClient(Socket) => fds[Socket] = from
    /\ receiving # None /\ IsClient(Socket) => fds[Socket] = receiving

Routes ==
    StandardInputOpen /\ pc \in Serving =>
        /\ Reads
        /\ Route # None => \E c \in Clients : ActivatedBy(c)

(* As long as descriptor 0 is open, the accepted socket is the only one.    *)
Released ==
    StandardInputOpen =>
        /\ pc \in {"accept", "accepting"} => \A f \in Fds : ~IsClient(f)
        /\ pc \in {"accepting"} \union Replacing \union Serving => accepted # 0
        /\ pc \in Replacing \union Serving =>
               \A f \in Fds : IsClient(f) => f = accepted

Safe ==
    /\ Descriptors /\ Newcomers /\ Threads /\ OwnSocket /\ Peer /\ Refusals
    /\ Delivered /\ Routes /\ Released

IInv == TypeOK /\ Safe

-----------------------------------------------------------------------------
(* Arithmetic and messages *)

(* The routed address is one that checkSourceAddress lets through. *)
LEMMA RoutedIsAnAddress ==
    ASSUME parseRoutingActivation(msg) = SuccessfullyRoutedCode
    PROVE  msg.source \in Addresses
<1>1. checkSourceAddress(msg.source)
  BY SMT DEF parseRoutingActivation, SuccessfullyRoutedCode, UnknownSourceAddressCode
<1>2. msg.source \in Int /\ 0 <= msg.source /\ msg.source <= 4095
  BY <1>1, SMT DEF checkSourceAddress
<1>3. 4095 <= MaxAddress /\ MaxAddress \in Int
  BY SMT DEF MaxAddress
<1>4. QED
  BY <1>2, <1>3, SMT DEF Addresses

(* A write is answered by the death of the process or recorded in replies. *)
LEMMA Written ==
    ASSUME TypeOK, msg \in Messages, from \in Clients,
           NEW kind \in Kinds, NEW next \in ServerSteps, sendMessage(kind, next)
    PROVE  /\ pc' \in ServerSteps
           /\ \/ pc' = "killed" /\ replies' = replies
              \/ pc' = next /\ replies' = replies \union
                               {[for |-> from, kind |-> kind, address |-> msg.source]}
           /\ inbox' \in [Clients -> Seq(Kinds)]
           /\ reset' \subseteq Clients
           /\ replies' \subseteq ReplyType
<1>1. msg.source \in Addresses
  BY DEF Messages
<1>2. CASE pc' = "killed" /\ UNCHANGED answers
  BY <1>2 DEF TypeOK, answers, ServerSteps
<1> DEFINE peer == fds[connection.tcpSocket]
<1>3. CASE /\ inbox' = IF Patient /\ peer \in Clients
                       THEN [inbox EXCEPT ![peer] = Append(@, kind)] ELSE inbox
           /\ replies' = replies \union
                {[for |-> from, kind |-> kind, address |-> msg.source]}
           /\ reset' \in {reset} \union
                {reset \union {c} : c \in {p \in Clients : p = peer /\ client[p] = "closed"}}
           /\ pc' = next
  <2>0. inbox \in [Clients -> Seq(Kinds)] /\ reset \subseteq Clients /\ replies \subseteq ReplyType
    BY DEF TypeOK
  <2>1. inbox' \in [Clients -> Seq(Kinds)]
    BY <1>3, <2>0
  <2>2. reset' \subseteq Clients
    BY <1>3, <2>0
  <2>3. replies' \subseteq ReplyType
    <3>1. [for |-> from, kind |-> kind, address |-> msg.source] \in ReplyType
      BY <1>1 DEF ReplyType
    <3>2. QED
      BY <1>3, <2>0, <3>1
  <2>4. QED
    BY <1>3, <2>1, <2>2, <2>3
<1>4. QED
  BY <1>2, <1>3 DEF sendMessage

-----------------------------------------------------------------------------
(* accept always finds a descriptor *)

Less == {p \in Nat \X Nat : p[1] < p[2]}

(* FiniteSetsExt's Min is in the set. *)
LEMMA LeastNumber ==
    ASSUME NEW S \in SUBSET Nat, S # {}
    PROVE  Min(S) \in S
<1>1. IsWellFoundedOn(Less, Nat)
  BY NatLessThanWellFounded, Zenon DEF OpToRel, Less
<1>2. PICK m \in S : \A n \in S : ~(<<n, m>> \in Less)
  BY <1>1, WFMin
<1>3. \A n, k \in Nat : <<n, k>> \in Less <=> n < k
  BY SMT DEF Less
<1>4. ASSUME NEW n \in S
      PROVE  m <= n
  <2>1. <<n, m>> \notin Less
    BY <1>2
  <2>2. n \in Nat /\ m \in Nat
    OBVIOUS
  <2>3. ~(n < m)
    BY <1>3, <2>1, <2>2, Zenon
  <2>4. QED
    BY <2>2, <2>3
<1>5. QED
  BY <1>4 DEF Min

(* One number for each client and one for the standard input leave one over. *)
LEMMA FreeDescriptor ==
    ASSUME TypeOK, Descriptors, pc = "accept"
    PROVE  \E f \in Fds : fds[f] = "free"
<1>1. SUFFICES ASSUME \A f \in Fds : fds[f] # "free"
               PROVE  FALSE
  OBVIOUS
<1> DEFINE held == Clients \union {"stdin"}
<1>2. fds \in [Fds -> held]
  BY <1>1 DEF TypeOK, Descriptors
<1>3. IsFiniteSet(held) /\ Cardinality(held) <= Cardinality(Clients) + 1
      /\ Cardinality(Clients) \in Nat /\ Cardinality(held) \in Nat
  <2>1. IsFiniteSet(Clients)
    BY DoIPServerAssumption
  <2>2. Cardinality(Clients) \in Nat
    BY <2>1, FS_CardinalityType
  <2>3. IsFiniteSet(held) /\ Cardinality(held) \in {Cardinality(Clients), Cardinality(Clients) + 1}
    BY <2>1, FS_AddElement
  <2>4. QED
    BY <2>2, <2>3
<1>4. IsFiniteSet(Fds) /\ Cardinality(Fds) = Cardinality(Clients) + 2
  BY <1>3, FS_Interval DEF Fds
<1>5. PICK f \in Fds, g \in Fds : f # g /\ fds[f] = fds[g]
  <2>1. Cardinality(held) < Cardinality(Fds)
    BY <1>3, <1>4
  <2>2. QED
    BY <1>2, <1>3, <1>4, <2>1, FS_PigeonHole
<1>6. QED
  BY <1>2, <1>5 DEF Descriptors, IsClient

LEMMA Accepted ==
    ASSUME TypeOK, Descriptors, AcceptCall
    PROVE  accepted' \in Fds /\ fds[accepted'] = "free"
<1> DEFINE free == {f \in Fds : fds[f] = "free"}
<1>1. free # {}
  BY FreeDescriptor DEF AcceptCall
<1>2. free \in SUBSET Nat
  <2>1. Cardinality(Clients) \in Nat
    BY DoIPServerAssumption, FS_CardinalityType
  <2>2. QED
    BY <2>1 DEF Fds
<1>3. Min(free) \in free
  BY <1>1, <1>2, LeastNumber
<1>4. QED
  BY <1>3 DEF AcceptCall

-----------------------------------------------------------------------------
(* Types *)

(* close changes the table only by freeing a client's number or the        *)
(* standard input.                                                         *)
LEMMA Frees ==
    ASSUME TypeOK, NEW n \in Fds, fds' = Closed(n)
    PROVE  /\ fds' \in [Fds -> Clients \union {"stdin", "free", "reserved"}]
           /\ \A f \in Fds : f # n => fds'[f] = fds[f]
           /\ fds'[n] = IF fds[n] = "reserved" THEN "reserved" ELSE "free"
  BY DEF TypeOK, Closed

LEMMA HeadAndTail ==
    ASSUME NEW S, NEW s \in Seq(S), s # <<>>
    PROVE  Head(s) \in S /\ Tail(s) \in Seq(S)
  OBVIOUS

LEMMA ZeroIsADescriptor == 0 \in Fds
  BY DoIPServerAssumption, FS_CardinalityType DEF Fds

LEMMA InitTyped == Init => TypeOK
<1> SUFFICES ASSUME Init PROVE TypeOK
  OBVIOUS
<1>1. 0 \in Fds
  BY ZeroIsADescriptor
<1>2. connection \in ConnectionType
  BY <1>1 DEF Init, NewConnection, ConnectionType
<1>3. toSend \in [Clients -> Seq(Messages \union {Receive})]
  BY DoIPServerAssumption DEF Init
<1>4. fds \in [Fds -> Clients \union {"stdin", "free", "reserved"}]
  BY DEF Init
<1>5. QED
  BY <1>1, <1>2, <1>3, <1>4 DEF Init, TypeOK, ServerSteps, TimerSteps

LEMMA ClientsTyped ==
    ASSUME TypeOK, NEW c \in Clients, Connect(c) \/ ClientProgram(c), UNCHANGED conf
    PROVE  TypeOK'
<1>1. CASE Connect(c)
  <2>0. client \in [Clients -> {"idle", "open", "closed"}] /\ backlog \in Seq(Clients)
    BY DEF TypeOK
  <2>1. client' \in [Clients -> {"idle", "open", "closed"}] /\ backlog' \in Seq(Clients)
    BY <1>1, <2>0 DEF Connect
  <2>2. QED
    BY <1>1, <2>1 DEF Connect, TypeOK, server, timer, answers
<1> DEFINE items == Messages \union {Receive}
<1>a. toSend \in [Clients -> Seq(items)] /\ stream \in [Clients -> Seq(Messages)]
      /\ inbox \in [Clients -> Seq(Kinds)] /\ halfSent \subseteq Clients
  BY DEF TypeOK
<1>b. ASSUME toSend[c] # <<>>
      PROVE  Head(toSend[c]) \in items /\ Tail(toSend[c]) \in Seq(items)
  BY <1>a, <1>b
<1>c. ASSUME toSend[c] # <<>>, SendPart(c)
      PROVE  toSend' \in [Clients -> Seq(items)] /\ halfSent' \subseteq Clients
  BY <1>a, <1>b, <1>c DEF SendPart
<1>2. CASE Send(c)
  <2>1. toSend' \in [Clients -> Seq(items)] /\ halfSent' \subseteq Clients
    BY <1>2, <1>c DEF Send
  <2>2. stream' \in [Clients -> Seq(Messages)]
    BY <1>2, <1>a, <1>b DEF Send, Current
  <2>3. QED
    BY <1>2, <2>1, <2>2 DEF Send, TypeOK, server, timer, answers
<1>3. CASE SendIsLost(c)
  <2>1. toSend' \in [Clients -> Seq(items)] /\ halfSent' \subseteq Clients
    BY <1>3, <1>c DEF SendIsLost
  <2>2. QED
    BY <1>3, <2>1 DEF SendIsLost, TypeOK, server, timer, answers
<1>4. CASE ReceiveMessage(c)
  <2>1. toSend' \in [Clients -> Seq(items)]
    BY <1>4, <1>a, <1>b DEF ReceiveMessage
  <2>2. inbox' \in [Clients -> Seq(Kinds)]
    BY <1>4, <1>a DEF ReceiveMessage
  <2>3. QED
    BY <1>4, <2>1, <2>2 DEF ReceiveMessage, TypeOK, server, timer
<1>5. CASE ReceiveExits(c)
  BY <1>5 DEF ReceiveExits, TypeOK, server, timer, answers
<1>6. CASE Disconnect(c)
  BY <1>6 DEF Disconnect, TypeOK, server, timer, answers
<1>7. QED
  BY <1>1, <1>2, <1>3, <1>4, <1>5, <1>6 DEF ClientProgram

LEMMA TimerTyped ==
    ASSUME TypeOK, waitForResponse \/ Elapse, UNCHANGED conf
    PROVE  TypeOK'
<1> USE DEF TimerSteps
<1>1. CASE TimerTest
  BY <1>1 DEF TimerTest, TypeOK, server, network, answers
<1>2. CASE TimerExpires
  BY <1>2 DEF TimerExpires, ConnectionType, TypeOK, network, answers
<1>3. CASE TimerReadsSocket
  BY <1>3 DEF TimerReadsSocket, ConnectionType, TypeOK, server, network, answers
<1>4. CASE TimerCloses
  <2>1. fds' \in [Fds -> Clients \union {"stdin", "free", "reserved"}]
    BY <1>4, Frees DEF TimerCloses, TypeOK
  <2>2. QED
    BY <1>4, <2>1 DEF TimerCloses, TypeOK, server, network, answers
<1>5. CASE TimerClears
  BY <1>5, ZeroIsADescriptor DEF TimerClears, ConnectionType, TypeOK, network, answers
<1>6. CASE TimerCallsBack
  BY <1>6 DEF TimerCallsBack, CallbacksDestroyed, ServerSteps, TypeOK, network, answers
<1>7. CASE Elapse
  BY <1>7 DEF Elapse, ConnectionType, TypeOK, timer, network, answers
<1>8. QED
  BY <1>1, <1>2, <1>3, <1>4, <1>5, <1>6, <1>7 DEF waitForResponse

(* What listenTcp does before a connection is served, and between messages. *)
LEMMA AcceptTyped ==
    ASSUME TypeOK, Descriptors, UNCHANGED conf,
           AcceptCall \/ AcceptReturn \/ DestroyCallbacks \/ DisableTimer \/ JoinTimer
    PROVE  TypeOK'
<1> USE DEF ServerSteps, TimerSteps
<1>1. CASE AcceptCall
  <2>1. accepted' \in Fds
    BY <1>1, Accepted
  <2>2. fds' \in [Fds -> Clients \union {"stdin", "free", "reserved"}]
    BY <1>1, <2>1 DEF AcceptCall, TypeOK
  <2>3. QED
    BY <1>1, <2>1, <2>2 DEF AcceptCall, TypeOK, timer, network, answers
<1>2. CASE AcceptReturn
  <2>0. backlog \in Seq(Clients)
    BY DEF TypeOK
  <2>1. Head(backlog) \in Clients /\ backlog' \in Seq(Clients)
    BY <1>2, <2>0 DEF AcceptReturn
  <2>2. fds' \in [Fds -> Clients \union {"stdin", "free", "reserved"}]
    BY <1>2, <2>1 DEF AcceptReturn, TypeOK
  <2>3. QED
    BY <1>2, <2>1, <2>2 DEF AcceptReturn, TypeOK, timer, answers
<1>3. CASE DestroyCallbacks \/ DisableTimer
  BY <1>3 DEF DestroyCallbacks, DisableTimer, ConnectionType, TypeOK, timer, network, answers
<1>4. CASE JoinTimer
  <2>1. connection' \in ConnectionType
    BY <1>4 DEF JoinTimer, NewConnection, ConnectionType, TypeOK
  <2>2. QED
    BY <1>4, <2>1 DEF JoinTimer, TypeOK, network, answers
<1>5. QED
  BY <1>1, <1>2, <1>3, <1>4

LEMMA ReceiveTyped ==
    ASSUME TypeOK, isSocketActive \/ Recv \/ LastByte \/ resetTimer \/ closeSocket \/ clearSocket,
           UNCHANGED conf
    PROVE  TypeOK'
<1> USE DEF ServerSteps
<1>0. None \notin Clients
  BY DoIPServerAssumption
<1>1. CASE isSocketActive
  BY <1>1 DEF isSocketActive, TypeOK, timer, network, answers
<1>2. ASSUME NEW part \in {"header", "payload"}, NEW wait \in {"header wait", "payload wait"},
             RecvCall(part, wait)
      PROVE  TypeOK'
  BY <1>0, <1>2 DEF RecvCall, IsClient, TypeOK, timer, network, answers
<1>3. ASSUME NEW part \in {"header", "payload"}, NEW wait \in {"header wait", "payload wait"},
             RecvFragment(part, wait)
      PROVE  TypeOK'
  BY <1>3 DEF RecvFragment, TypeOK, timer, network, answers
<1>4. ASSUME NEW wait \in {"header wait", "payload wait"}, RecvFails(wait)
      PROVE  TypeOK'
  BY <1>4 DEF RecvFails, TypeOK, timer, network, answers
<1>5. ASSUME NEW wait \in {"header wait", "payload wait"}, RecvPart(wait)
      PROVE  TypeOK'
  <2>1. receiving \in Clients /\ stream \in [Clients -> Seq(Messages)]
    BY <1>5 DEF RecvPart, TypeOK
  <2>a. stream[receiving] \in Seq(Messages) /\ stream[receiving] # <<>>
    BY <1>5, <2>1 DEF RecvPart
  <2>b. Head(stream[receiving]) \in Messages /\ Tail(stream[receiving]) \in Seq(Messages)
    BY <2>a, HeadAndTail
  <2>2. msg' \in Messages /\ stream' \in [Clients -> Seq(Messages)]
    BY <1>5, <2>1, <2>b DEF RecvPart
  <2>3. pc' \in {"reset", "close", "payload"}
    BY <1>5 DEF RecvPart
  <2>4. QED
    BY <1>5, <2>1, <2>2, <2>3 DEF RecvPart, TypeOK, timer, answers
<1>6. CASE resetTimer
  BY <1>6 DEF resetTimer, ConnectionType, TypeOK, timer, network, answers
<1>7. CASE closeSocket
  <2>1. fds' \in [Fds -> Clients \union {"stdin", "free", "reserved"}]
    BY <1>7, Frees DEF closeSocket, TypeOK, ConnectionType
  <2>2. QED
    BY <1>7, <2>1 DEF closeSocket, TypeOK, timer, network, answers
<1>8. CASE clearSocket
  BY <1>8, ZeroIsADescriptor DEF clearSocket, ConnectionType, TypeOK, timer, network, answers
<1>9. QED
  BY <1>1, <1>2, <1>3, <1>4, <1>5, <1>6, <1>7, <1>8 DEF Recv, LastByte

LEMMA ReactTyped ==
    ASSUME TypeOK, Peer, React, UNCHANGED conf
    PROVE  TypeOK'
<1> USE DEF ServerSteps, Kinds
<1>0. msg \in Messages /\ from \in Clients /\ pc \in {"react", "deliver"}
  BY DEF Peer, TypeOK, Handling, React, NegativeAck, RoutingActivation, DiagnosticMessageReceived,
         parseDiagnosticMessage, NothingToDo
<1>1. ASSUME UNCHANGED <<conf, accepted, msg, from, receiving, victim, network, fds>>,
             pc' \in ServerSteps \ {"header wait", "payload wait"},
             connection' \in ConnectionType, tpc' \in TimerSteps,
             inbox' \in [Clients -> Seq(Kinds)], reset' \subseteq Clients,
             replies' \subseteq ReplyType
      PROVE  TypeOK'
  BY <1>0, <1>1 DEF TypeOK, network
<1>2. ASSUME NEW kind \in Kinds, NEW next \in {"loop", "close", "deliver"}, sendMessage(kind, next)
      PROVE  /\ pc' \in ServerSteps \ {"header wait", "payload wait"}
             /\ inbox' \in [Clients -> Seq(Kinds)] /\ reset' \subseteq Clients
             /\ replies' \subseteq ReplyType
  BY <1>0, <1>2, Written
<1>3. CASE NegativeAck
  BY <1>1, <1>2, <1>3 DEF NegativeAck, timer, TypeOK
<1>4. CASE RoutingActivation
  <2>1. tpc' \in TimerSteps
    BY <1>4 DEF RoutingActivation, TypeOK, TimerSteps
  <2>2. connection' \in ConnectionType
    <3>1. connection \in ConnectionType
      BY DEF TypeOK
    <3>2. CASE UNCHANGED connection
      BY <3>1, <3>2
    <3>3. CASE parseRoutingActivation(msg) = SuccessfullyRoutedCode /\ ~UNCHANGED connection
      <4>1. msg.source \in Addresses
        BY <3>3, RoutedIsAnAddress
      <4> DEFINE active  == connection.active \/ StartsTimer
                 idle    == connection.idle /\ ~StartsTimer
                 threads == connection.threads + (IF StartsTimer THEN 1 ELSE 0)
      <4>2. connection' = [connection EXCEPT !.routed = msg.source, !.active = active,
                                             !.idle = idle, !.threads = threads]
        BY <1>4, <3>3 DEF RoutingActivation
      <4>3. active \in BOOLEAN /\ idle \in BOOLEAN
        OBVIOUS
      <4>4. threads \in Nat
        BY <3>1 DEF ConnectionType
      <4> HIDE DEF active, idle, threads
      <4>5. QED
        BY <3>1, <4>1, <4>2, <4>3, <4>4 DEF ConnectionType
    <3>4. QED
      BY <1>4, <3>2, <3>3 DEF RoutingActivation
  <2>3. QED
    BY <1>1, <1>2, <1>4, <2>1, <2>2 DEF RoutingActivation
<1>5. CASE DiagnosticMessageReceived
  BY <1>1, <1>2, <1>5 DEF DiagnosticMessageReceived, timer, answers, TypeOK
<1>6. CASE parseDiagnosticMessage
  BY <1>1, <1>2, <1>6 DEF parseDiagnosticMessage, timer, answers, TypeOK
<1>7. CASE NothingToDo
  BY <1>1, <1>7 DEF NothingToDo, timer, answers, TypeOK
<1>8. QED
  BY <1>3, <1>4, <1>5, <1>6, <1>7 DEF React

-----------------------------------------------------------------------------
(* Steps that change no descriptor *)

(* The fields of connection_ that the invariant is about. *)
Fields == <<Socket, Route, connection.active, connection.threads>>

(* The moves of listenTcp that neither enter nor leave a phase. *)
PcMoves ==
    /\ pc \notin {"accept", "accepting", "close", "killed", "crashed"}
    /\ pc' \notin {"accept", "accepting", "clear", "payload wait", "header wait"}
    /\ pc' \in Serving => pc \in Serving
    /\ pc' \in Handling => pc \in Handling
    /\ pc' \in Replacing => pc \in Replacing

LEMMA QuietStep ==
    ASSUME IInv, UNCHANGED <<accepted, victim, msg, from, fds, backlog, Fields, replies>>,
           UNCHANGED <<pc, receiving>> \/ (PcMoves /\ receiving' \in {None, receiving}),
           \A c \in Clients : client'[c] = "idle" => client[c] = "idle",
           tpc' = tpc \/ tpc' \notin {"close", "clear"}
    PROVE  Safe'
<1>0. /\ accepted' = accepted /\ victim' = victim /\ msg' = msg /\ from' = from /\ fds' = fds
      /\ backlog' = backlog /\ Socket' = Socket /\ Route' = Route /\ replies' = replies
      /\ connection'.active = connection.active /\ connection'.threads = connection.threads
  BY DEF Fields
<1>n. None \notin Clients
  BY DoIPServerAssumption
<1> USE DEF IInv, Safe
<1>1. Descriptors'
  BY <1>0 DEF Descriptors, IsClient, PcMoves
<1>2. Newcomers'
  BY <1>0, <1>n DEF Newcomers, InBacklog, Untouched
<1>3. Threads'
  BY <1>0 DEF Threads
<1>4. OwnSocket'
  BY <1>0 DEF OwnSocket, IsClient, PcMoves
<1>5. Peer'
  BY <1>0 DEF Peer, PcMoves
<1>6. Refusals'
  BY <1>0, <1>n DEF Refusals, Refused, PcMoves
<1>7. Delivered'
  BY <1>0 DEF Delivered, StandardInputOpen
<1>8. Routes'
  <2>1. SUFFICES ASSUME StandardInputOpen', pc' \in Serving
                 PROVE  Reads' /\ (Route' # None => \E c \in Clients : ActivatedBy(c)')
    BY DEF Routes
  <2>2. StandardInputOpen /\ pc \in Serving /\ Routes
    BY <1>0, <2>1 DEF StandardInputOpen, PcMoves
  <2>3. Reads'
    BY <1>0, <2>2 DEF Reads, Routes, IsClient, PcMoves, Handling
  <2>4. \A c \in Clients : ActivatedBy(c) => ActivatedBy(c)'
    BY <1>0 DEF ActivatedBy, IsClient, PcMoves
  <2>5. QED
    BY <1>0, <2>2, <2>3, <2>4 DEF Routes
<1>9. Released'
  BY <1>0 DEF Released, IsClient, StandardInputOpen, PcMoves
<1>10. QED
  BY <1>1, <1>2, <1>3, <1>4, <1>5, <1>6, <1>7, <1>8, <1>9

(* A reply that refuses the client is the last one: listenTcp closes next. *)
LEMMA AnswerStep ==
    ASSUME IInv, pc \in {"react", "deliver"},
           NEW kind \in Kinds, NEW next \in {"loop", "close", "deliver"},
           sendMessage(kind, next),
           kind \in {"fatal nack", "denied"} => next = "close",
           kind = "data" => msg.source = Route,
           Route' = Route \/ (kind = "activated" /\ Route' = msg.source),
           UNCHANGED <<accepted, victim, msg, from, receiving, fds, backlog, client, Socket>>,
           tpc' = tpc \/ tpc' = "test",
           Threads'
    PROVE  Safe'
<1> DEFINE reply == [for |-> from, kind |-> kind, address |-> msg.source]
<1>0. /\ accepted' = accepted /\ victim' = victim /\ msg' = msg /\ from' = from /\ fds' = fds
      /\ receiving' = receiving /\ backlog' = backlog /\ client' = client /\ Socket' = Socket
  OBVIOUS
<1>1. msg \in Messages /\ from \in Clients /\ receiving = None /\ pc \in Handling
  BY DEF IInv, Safe, Peer, TypeOK, Handling
<1>2. \/ pc' = "killed" /\ replies' = replies
      \/ pc' = next /\ replies' = replies \union {reply}
  BY <1>1, Written DEF IInv, ServerSteps
<1>n. None \notin Clients
  BY DoIPServerAssumption
<1>r. \A r \in replies' :
          \/ r \in replies
          \/ r.for = from /\ r.kind = kind /\ r.address = msg.source /\ pc' = next
  <2>1. reply.for = from /\ reply.kind = kind /\ reply.address = msg.source
    OBVIOUS
  <2> HIDE DEF reply
  <2>2. QED
    BY <1>2, <2>1
<1> USE DEF IInv, Safe
<1>3. Descriptors'
  BY <1>0, <1>2 DEF Descriptors, IsClient
<1>4. Newcomers'
  BY <1>0, <1>r DEF Newcomers, InBacklog, Untouched
<1>5. OwnSocket'
  BY <1>0, <1>1, <1>2 DEF OwnSocket, IsClient, Serving
<1>6. Peer'
  BY <1>0, <1>1, <1>2 DEF Peer
<1>7. Refusals'
  <2>1. SUFFICES ASSUME NEW c \in Clients, Refused(c)'
                 PROVE  /\ receiving # c
                        /\ \A f \in Fds : fds[f] = c => pc' = "close" /\ f = Socket
    BY <1>0 DEF Refusals
  <2>2. CASE Refused(c)
    BY <1>0, <1>1, <2>2 DEF Refusals, Handling
  <2>3. CASE ~Refused(c)
    <3>1. c = from /\ pc' = "close"
      BY <1>r, <2>1, <2>3 DEF Refused
    <3>2. QED
      BY <1>1, <1>n, <3>1 DEF Peer
  <2>4. QED
    BY <2>2, <2>3
<1>8. /\ Delivered' /\ Routes'
  <2>1. SUFFICES ASSUME StandardInputOpen'
                 PROVE  Delivered' /\ Routes'
    BY DEF Delivered, Routes
  <2>2. StandardInputOpen /\ pc \in Serving
    BY <1>0, <1>1, <2>1 DEF StandardInputOpen, Serving
  <2>3. Reads /\ (Route # None => \E c \in Clients : ActivatedBy(c))
    BY <2>2 DEF Routes
  <2>4. Delivered'
    <3>1. \A r \in replies : r.kind = "data" =>
              \E q \in replies : q.kind = "activated" /\ q.for = r.for /\ q.address = r.address
      BY <2>2 DEF Delivered
    <3>2. ASSUME kind = "data"
          PROVE  \E q \in replies : q.kind = "activated" /\ q.for = from /\ q.address = msg.source
      <4>1. Route # None
        BY <1>1, <3>2, DoIPServerAssumption DEF Messages
      <4>2. PICK c \in Clients : ActivatedBy(c)
        BY <2>3, <4>1
      <4>3. c = from
        BY <1>1, <4>2 DEF ActivatedBy
      <4>4. QED
        BY <3>2, <4>2, <4>3 DEF ActivatedBy
    <3>3. \A r \in replies' : r.kind = "data" =>
              \E q \in replies : q.kind = "activated" /\ q.for = r.for /\ q.address = r.address
      BY <1>r, <3>1, <3>2
    <3>4. QED
      BY <1>2, <3>3 DEF Delivered
  <2>5. Reads'
    BY <1>0, <1>1, <1>2, <2>3 DEF Reads, IsClient, Handling
  <2>6. ASSUME Route' # None, pc' \in Serving
        PROVE  \E c \in Clients : ActivatedBy(c)'
    <3>0. pc' = next /\ replies' = replies \union {reply}
      BY <1>2, <2>6 DEF Serving, Handling
    <3>1. CASE Route' = Route
      <4>1. PICK c \in Clients : ActivatedBy(c)
        BY <2>3, <2>6, <3>1
      <4>2. ActivatedBy(c)'
        BY <1>0, <1>1, <3>0, <3>1, <4>1 DEF ActivatedBy, IsClient
      <4>3. QED
        BY <4>2
    <3>2. CASE kind = "activated" /\ Route' = msg.source
      <4>1. ActivatedBy(from)'
        BY <1>0, <1>1, <2>3, <3>0, <3>2 DEF ActivatedBy, Reads, IsClient
      <4>2. QED
        BY <1>0, <1>1, <4>1
    <3>3. QED
      BY <3>1, <3>2
  <2>7. QED
    BY <2>4, <2>5, <2>6 DEF Routes
<1>9. Released'
  BY <1>0, <1>1, <1>2 DEF Released, IsClient, StandardInputOpen, Serving
<1>10. QED
  BY <1>3, <1>4, <1>5, <1>6, <1>7, <1>8, <1>9

-----------------------------------------------------------------------------
(* Steps of listenTcp and of the timer on the descriptor *)

(* Either thread calls close, on the number it has read. *)
ListenerCloses == pc = "close" /\ pc' = "clear" /\ tpc' = tpc
TimerClosed    == tpc = "close" /\ tpc' = "clear" /\ pc' = pc

LEMMA CloseStep ==
    ASSUME IInv, NEW n \in Fds, fds' = Closed(n),
           UNCHANGED <<accepted, victim, msg, from, receiving, backlog, client, Fields, replies>>,
           (ListenerCloses /\ n = Socket) \/ (TimerClosed /\ n = victim)
    PROVE  Safe'
<1>0. /\ accepted' = accepted /\ victim' = victim /\ msg' = msg /\ from' = from
      /\ receiving' = receiving /\ backlog' = backlog /\ client' = client
      /\ Socket' = Socket /\ Route' = Route /\ replies' = replies
      /\ connection'.active = connection.active /\ connection'.threads = connection.threads
  BY DEF Fields
<1>s. {"stdin", "free", "reserved"} \intersect Clients = {} /\ None \notin Clients
  BY DoIPServerAssumption
<1>1. /\ \A f \in Fds : fds'[f] = fds[f] \/ (fds'[f] = "free" /\ fds[f] # "reserved")
      /\ ~IsClient(n)'
  BY <1>s, Frees DEF IInv, TypeOK, IsClient
<1>2. pc \in Serving => pc' \in Serving
  BY DEF ListenerCloses, TimerClosed, Serving
<1>3. \/ pc' = pc /\ tpc = "close" /\ tpc' = "clear" /\ n = victim
      \/ pc = "close" /\ pc' = "clear" /\ tpc' = tpc /\ n = Socket
  BY DEF ListenerCloses, TimerClosed
<1>4. from \in Clients \union {None} /\ receiving \in Clients \union {None}
      /\ accepted \in Fds /\ 0 \in Fds
  BY ZeroIsADescriptor DEF IInv, TypeOK
<1> USE DEF IInv, Safe
<1>5. Descriptors'
  BY <1>0, <1>1, <1>3, <1>s DEF Descriptors, IsClient
<1>6. Newcomers'
  BY <1>0, <1>1, <1>s DEF Newcomers, InBacklog, Untouched
<1>7. Threads'
  BY <1>0 DEF Threads
<1>8. OwnSocket'
  BY <1>0, <1>1, <1>3, <1>4, <1>s DEF OwnSocket, IsClient, Serving
<1>9. Peer'
  <2>1. pc' \in Handling => pc \in Handling /\ pc' = pc
    BY <1>3 DEF Handling
  <2>2. \A f \in Fds : fds'[f] \in Clients => fds'[f] = fds[f]
    BY <1>1, <1>s
  <2>3. QED
    BY <1>0, <1>4, <2>1, <2>2 DEF Peer
<1>10. Refusals'
  <2>1. ASSUME NEW c \in Clients, Refused(c)'
        PROVE  receiving' # c /\ \A f \in Fds : fds'[f] = c => pc' = "close" /\ f = Socket'
    <3>1. receiving # c /\ \A f \in Fds : fds[f] = c => pc = "close" /\ f = Socket
      BY <1>0, <2>1 DEF Refusals, Refused
    <3>2. \A f \in Fds : fds'[f] = c => fds[f] = c /\ f # n
      BY <1>1, <1>s DEF IsClient
    <3>3. QED
      BY <1>0, <1>3, <3>1, <3>2
  <2>2. QED
    BY <2>1 DEF Refusals
<1>11. StandardInputOpen' => StandardInputOpen
  BY <1>1, <1>4 DEF StandardInputOpen
<1>12. Delivered'
  BY <1>0, <1>11 DEF Delivered
<1>13. Routes'
  <2>1. SUFFICES ASSUME StandardInputOpen', pc' \in Serving
                 PROVE  Reads' /\ (Route' # None => \E c \in Clients : ActivatedBy(c)')
    BY DEF Routes
  <2>2. StandardInputOpen /\ pc \in Serving /\ Routes /\ Socket \in Fds
    BY <1>3, <1>11, <2>1 DEF Serving, TypeOK, ConnectionType, Socket
  <2>3. pc' \in Handling => pc \in Handling /\ pc' = pc
    BY <1>3 DEF Handling
  <2>4. \A f \in Fds : IsClient(f)' => IsClient(f) /\ fds'[f] = fds[f]
    BY <1>1, <1>s DEF IsClient
  <2>5. Reads'
    BY <1>0, <1>3, <2>2, <2>3, <2>4 DEF Reads, Routes
  <2>6. \A c \in Clients : ActivatedBy(c) => ActivatedBy(c)'
    BY <1>0, <2>2, <2>3, <2>4 DEF ActivatedBy
  <2>7. QED
    BY <1>0, <2>2, <2>5, <2>6 DEF Routes
<1>14. Released'
  BY <1>0, <1>1, <1>3, <1>11, <1>s DEF Released, IsClient, Serving
<1>15. QED
  BY <1>5, <1>6, <1>7, <1>8, <1>9, <1>10, <1>12, <1>13, <1>14

(* Then it clears tcpSocket, which may have changed since. *)
ListenerClears == pc = "clear" /\ pc' = "loop" /\ tpc' = tpc
TimerCleared   == tpc = "clear" /\ tpc' = "callback" /\ pc' = pc

LEMMA ClearStep ==
    ASSUME IInv, Socket' = 0, Route' = Route,
           connection'.active = connection.active, connection'.threads = connection.threads,
           UNCHANGED <<accepted, victim, msg, from, receiving, fds, backlog, client, replies>>,
           ListenerClears \/ TimerCleared
    PROVE  Safe'
<1>0. /\ accepted' = accepted /\ victim' = victim /\ msg' = msg /\ from' = from /\ fds' = fds
      /\ receiving' = receiving /\ backlog' = backlog /\ client' = client
      /\ Socket' = 0 /\ Route' = Route /\ replies' = replies
      /\ connection'.active = connection.active /\ connection'.threads = connection.threads
  OBVIOUS
<1>s. {"stdin", "free", "reserved"} \intersect Clients = {} /\ None \notin Clients
  BY DoIPServerAssumption
<1>1. \/ pc' = pc /\ tpc = "clear" /\ tpc' = "callback"
      \/ pc = "clear" /\ pc' = "loop" /\ tpc' = tpc
  BY DEF ListenerClears, TimerCleared
<1>2. /\ from \in Clients \union {None} /\ receiving \in Clients \union {None}
      /\ accepted \in Fds /\ 0 \in Fds
      /\ receiving # None => pc \in {"header wait", "payload wait"}
  BY ZeroIsADescriptor DEF IInv, TypeOK
<1> USE DEF IInv, Safe
<1>3. pc \in Serving => Socket \in {0, accepted} /\ ~IsClient(accepted)
  BY <1>1 DEF OwnSocket
<1>4. Descriptors'
  BY <1>0, <1>1 DEF Descriptors, IsClient
<1>5. Newcomers'
  BY <1>0 DEF Newcomers, InBacklog, Untouched
<1>6. Threads'
  BY <1>0 DEF Threads
<1>7. OwnSocket'
  BY <1>0, <1>1, <1>3 DEF OwnSocket, IsClient, Serving
<1>8. Peer'
  <2>1. (pc \in Handling \/ receiving # None) => pc \in Serving
    BY <1>2 DEF Serving, Handling
  <2>2. pc' \in Handling => pc \in Handling
    BY <1>1 DEF Handling
  <2>3. ASSUME NEW c \in Clients, pc \in Serving, \A f \in Fds : fds[f] = c => f = Socket
        PROVE  \A f \in Fds : fds[f] = c => f = 0
    <3>1. Socket \in {0, accepted} /\ fds[accepted] # c
      BY <1>3, <2>3 DEF IsClient
    <3>2. QED
      BY <2>3, <3>1
  <2>4. QED
    BY <1>0, <1>2, <2>1, <2>2, <2>3 DEF Peer
<1>9. Refusals'
  BY <1>0, <1>1, <1>3 DEF Refusals, Refused, IsClient, Serving
<1>10. Delivered'
  BY <1>0 DEF Delivered, StandardInputOpen
<1>11. Routes'
  <2>1. SUFFICES ASSUME StandardInputOpen', pc' \in Serving
                 PROVE  Reads' /\ (Route' # None => \E c \in Clients : ActivatedBy(c)')
    BY DEF Routes
  <2>2. StandardInputOpen /\ pc \in Serving /\ Routes /\ ~IsClient(0)
    BY <1>0, <1>1, <1>s, <2>1 DEF Serving, StandardInputOpen, IsClient
  <2>3. pc' \in Handling => pc \in Handling
    BY <1>1 DEF Handling
  <2>4. Reads'
    BY <1>0, <1>1, <2>2, <2>3 DEF Reads, Routes, IsClient
  <2>5. \A c \in Clients : ActivatedBy(c) => ActivatedBy(c)'
    BY <1>0, <2>2, <2>3 DEF ActivatedBy, IsClient
  <2>6. QED
    BY <1>0, <2>2, <2>4, <2>5 DEF Routes
<1>12. Released'
  BY <1>0, <1>1 DEF Released, IsClient, StandardInputOpen, Serving
<1>13. QED
  BY <1>4, <1>5, <1>6, <1>7, <1>8, <1>9, <1>10, <1>11, <1>12

-----------------------------------------------------------------------------
(* Steps on which a new client appears *)

LEMMA AcceptCallStep ==
    ASSUME IInv, AcceptCall, UNCHANGED conf
    PROVE  Safe'
<1>0. /\ pc = "accept" /\ pc' = "accepting" /\ fds' = [fds EXCEPT ![accepted'] = "reserved"]
      /\ connection' = connection /\ msg' = msg /\ from' = from /\ receiving' = receiving
      /\ tpc' = tpc /\ victim' = victim /\ backlog' = backlog /\ client' = client
      /\ replies' = replies
  BY DEF AcceptCall, timer, network, answers
<1>s. {"stdin", "free", "reserved"} \intersect Clients = {} /\ None \notin Clients
  BY DoIPServerAssumption
<1>1. accepted' \in Fds /\ fds[accepted'] = "free"
  BY Accepted DEF IInv, Safe
<1>2. /\ \A f \in Fds : fds'[f] = IF f = accepted' THEN "reserved" ELSE fds[f]
      /\ 0 \in Fds
      /\ from \in Clients \union {None} /\ receiving = None
  BY <1>0, <1>1, ZeroIsADescriptor DEF IInv, TypeOK
<1> USE DEF IInv, Safe
<1>3. Descriptors'
  BY <1>0, <1>1, <1>2, <1>s DEF Descriptors, IsClient
<1>4. Newcomers'
  BY <1>0, <1>2, <1>s DEF Newcomers, InBacklog, Untouched
<1>5. Threads' /\ OwnSocket' /\ Peer'
  BY <1>0, <1>2 DEF Threads, OwnSocket, Peer, Serving, Handling
<1>6. Refusals'
  BY <1>0, <1>1, <1>2, <1>s DEF Refusals, Refused, Handling
<1>7. StandardInputOpen' => StandardInputOpen /\ accepted' # 0
  BY <1>1, <1>2 DEF StandardInputOpen
<1>8. Delivered' /\ Routes'
  BY <1>0, <1>7 DEF Delivered, Routes, Serving, Handling
<1>9. Released'
  BY <1>0, <1>2, <1>7, <1>s DEF Released, IsClient, Serving, Handling
<1>10. QED
  BY <1>3, <1>4, <1>5, <1>6, <1>8, <1>9

LEMMA AcceptReturnStep ==
    ASSUME IInv, AcceptReturn, UNCHANGED conf
    PROVE  Safe'
<1> DEFINE c == Head(backlog)
<1>0. /\ pc = "accepting" /\ pc' = "destroy" /\ backlog # <<>>
      /\ fds' = [fds EXCEPT ![accepted] = c] /\ backlog' = Tail(backlog)
      /\ connection' = connection /\ accepted' = accepted /\ msg' = msg /\ from' = from
      /\ receiving' = receiving /\ tpc' = tpc /\ victim' = victim /\ client' = client
      /\ replies' = replies
  BY DEF AcceptReturn, timer, answers
<1>s. {"stdin", "free", "reserved"} \intersect Clients = {} /\ None \notin Clients
  BY DoIPServerAssumption
<1>a. backlog \in Seq(Clients)
  BY DEF IInv, TypeOK
<1>1. /\ c \in Clients /\ c = backlog[1] /\ 1 \in DOMAIN backlog
      /\ \A j \in DOMAIN backlog' : /\ j + 1 \in DOMAIN backlog /\ j + 1 # 1
                                    /\ backlog'[j] = backlog[j + 1]
  BY <1>0, <1>a
<1>2. InBacklog(c)
  BY <1>1 DEF InBacklog
<1> HIDE DEF c
<1>3. Untouched(c) /\ client[c] # "idle"
  BY <1>1, <1>2 DEF IInv, Safe, Newcomers
<1>4. \A p \in Clients : InBacklog(p)' => InBacklog(p) /\ p # c
  <2>1. \A j, k \in DOMAIN backlog : backlog[j] = backlog[k] => j = k
    BY DEF IInv, Safe, Newcomers
  <2>2. QED
    BY <1>1, <2>1 DEF InBacklog
<1>5. /\ \A f \in Fds : fds'[f] = IF f = accepted THEN c ELSE fds[f]
      /\ 0 \in Fds /\ accepted \in Fds
      /\ from \in Clients \union {None} /\ receiving = None
  BY <1>0, <1>1, ZeroIsADescriptor DEF IInv, TypeOK
<1> USE DEF IInv, Safe
<1>6. Descriptors'
  BY <1>0, <1>1, <1>3, <1>5, <1>s DEF Descriptors, IsClient, Untouched
<1>7. Newcomers'
  <2>1. \A j, k \in DOMAIN backlog' : backlog'[j] = backlog'[k] => j = k
    <3>1. TAKE j, k \in DOMAIN backlog'
    <3>2. j \in Nat /\ k \in Nat
      BY <1>0, <1>a
    <3>3. backlog'[j] = backlog'[k] => j + 1 = k + 1
      BY <1>1 DEF Newcomers
    <3>4. QED
      BY <3>2, <3>3
  <2>2. \A p \in Clients : client[p] = "idle" => ~InBacklog(p)'
    BY <1>4 DEF Newcomers
  <2>3. \A p \in Clients : client[p] = "idle" \/ InBacklog(p)' => Untouched(p) /\ p # c
    BY <1>3, <1>4 DEF Newcomers
  <2>4. \A p \in Clients : Untouched(p) /\ p # c => Untouched(p)'
    BY <1>0, <1>5 DEF Untouched
  <2>5. QED
    BY <1>0, <2>1, <2>2, <2>3, <2>4 DEF Newcomers
<1>8. Threads' /\ OwnSocket' /\ Peer'
  BY <1>0, <1>5 DEF Threads, OwnSocket, Peer, Serving, Handling
<1>9. Refusals'
  <2>1. ~Refused(c)
    BY <1>3 DEF Refused, Untouched
  <2>2. QED
    BY <1>0, <1>5, <2>1, <1>s DEF Refusals, Refused, Handling
<1>10. StandardInputOpen' => StandardInputOpen
  <2>1. StandardInputOpen' => accepted # 0
    BY <1>1, <1>5, <1>s DEF StandardInputOpen
  <2>2. QED
    BY <1>5, <2>1 DEF StandardInputOpen
<1>11. Delivered' /\ Routes'
  BY <1>0, <1>10 DEF Delivered, Routes, Serving, Handling
<1>12. Released'
  BY <1>0, <1>5, <1>10 DEF Released, IsClient, Serving, Handling
<1>13. QED
  BY <1>6, <1>7, <1>8, <1>9, <1>11, <1>12

LEMMA ConnectStep ==
    ASSUME IInv, NEW c \in Clients, Connect(c), UNCHANGED conf
    PROVE  Safe'
<1>0. /\ pc' = pc /\ tpc' = tpc /\ connection' = connection /\ accepted' = accepted
      /\ victim' = victim /\ msg' = msg /\ from' = from /\ receiving' = receiving
      /\ fds' = fds /\ replies' = replies /\ backlog' = Append(backlog, c)
      /\ client[c] = "idle" /\ client' = [client EXCEPT ![c] = "open"]
  BY DEF Connect, server, timer, answers
<1>1. backlog \in Seq(Clients) /\ client \in [Clients -> {"idle", "open", "closed"}]
  BY DEF IInv, TypeOK
<1>2. \A j \in DOMAIN backlog' :
          \/ j \in DOMAIN backlog /\ backlog'[j] = backlog[j]
          \/ j = Len(backlog) + 1 /\ backlog'[j] = c
  BY <1>0, <1>1
<1>3. ~InBacklog(c) /\ Untouched(c)
  BY <1>0 DEF IInv, Safe, Newcomers
<1>4. \A p \in Clients : /\ InBacklog(p)' => InBacklog(p) \/ p = c
                         /\ client'[p] = IF p = c THEN "open" ELSE client[p]
  BY <1>0, <1>1, <1>2 DEF InBacklog
<1> USE DEF IInv, Safe
<1>5. Newcomers'
  <2>1. \A j, k \in DOMAIN backlog' : backlog'[j] = backlog'[k] => j = k
    BY <1>2, <1>3 DEF Newcomers, InBacklog
  <2>2. \A p \in Clients : client'[p] = "idle" => ~InBacklog(p)'
    BY <1>4 DEF Newcomers
  <2>3. \A p \in Clients : client'[p] = "idle" \/ InBacklog(p)' => Untouched(p)
    BY <1>3, <1>4 DEF Newcomers
  <2>4. \A p \in Clients : Untouched(p) => Untouched(p)'
    BY <1>0 DEF Untouched
  <2>5. QED
    BY <2>1, <2>2, <2>3, <2>4 DEF Newcomers
<1>6. Descriptors' /\ Threads' /\ OwnSocket' /\ Peer'
  BY <1>0 DEF Descriptors, Threads, OwnSocket, Peer, IsClient, Socket
<1>7. Refusals' /\ Delivered' /\ Released'
  BY <1>0 DEF Refusals, Refused, Delivered, StandardInputOpen, Released, IsClient, Socket
<1>8. Routes'
  BY <1>0 DEF Routes, Reads, ActivatedBy, StandardInputOpen, IsClient, Socket, Route
<1>9. QED
  BY <1>5, <1>6, <1>7, <1>8

-----------------------------------------------------------------------------
(* Steps of listenTcp that look at the descriptor table *)

LEMMA JoinStep ==
    ASSUME IInv, JoinTimer, UNCHANGED conf
    PROVE  Safe'
<1>0. /\ pc = "join" /\ pc' = "loop" /\ tpc' = "none" /\ accepted' = accepted
      /\ victim' = victim /\ msg' = msg /\ from' = from /\ receiving' = receiving
      /\ fds' = fds /\ replies' = replies /\ backlog' = backlog /\ client' = client
      /\ Socket' = accepted /\ Route' = None
      /\ connection'.active = FALSE /\ connection'.threads = 0
  BY DEF JoinTimer, NewConnection, network, answers, Socket, Route
<1>1. receiving = None /\ None \notin Clients
  BY <1>0, DoIPServerAssumption DEF IInv, TypeOK
<1> USE DEF IInv, Safe
<1>2. Descriptors' /\ Newcomers' /\ Threads' /\ OwnSocket' /\ Peer'
  BY <1>0, <1>1 DEF Descriptors, Newcomers, InBacklog, Untouched, Threads, OwnSocket, Peer,
                    IsClient, Handling
<1>3. Refusals' /\ Delivered'
  BY <1>0, <1>1 DEF Refusals, Refused, Delivered, StandardInputOpen
<1>4. Routes' /\ Released'
  BY <1>0, <1>1 DEF Routes, Reads, Released, Replacing, StandardInputOpen, IsClient, Handling
<1>5. QED
  BY <1>2, <1>3, <1>4

(* listenTcp turns to the next client. *)
LEMMA TurnStep ==
    ASSUME IInv, isSocketActive, connection.tcpSocket = 0, UNCHANGED conf
    PROVE  Safe'
<1>0. /\ pc = "loop" /\ pc' = "accept" /\ tpc' = tpc /\ accepted' = accepted
      /\ victim' = victim /\ msg' = msg /\ from' = from /\ receiving' = receiving
      /\ fds' = fds /\ replies' = replies /\ backlog' = backlog /\ client' = client
      /\ connection' = connection /\ Socket = 0
  BY DEF isSocketActive, timer, network, answers, Socket
<1>1. receiving = None /\ None \notin Clients
  BY <1>0, DoIPServerAssumption DEF IInv, TypeOK
<1> USE DEF IInv, Safe
<1>2. Descriptors' /\ Newcomers' /\ Threads' /\ OwnSocket' /\ Peer'
  BY <1>0, <1>1 DEF Descriptors, Newcomers, InBacklog, Untouched, Threads, OwnSocket, Peer,
                    IsClient, Handling, Serving
<1>3. Refusals' /\ Delivered' /\ Routes'
  BY <1>0, <1>1 DEF Refusals, Refused, Delivered, StandardInputOpen, Routes,
                    Handling, Serving
<1>4. Released'
  BY <1>0, <1>1 DEF Released, OwnSocket, StandardInputOpen, IsClient, Handling, Serving
<1>5. QED
  BY <1>2, <1>3, <1>4

LEMMA RecvCallStep ==
    ASSUME IInv, NEW part \in {"header", "payload"}, NEW wait \in {"header wait", "payload wait"},
           part = "header" <=> wait = "header wait",
           RecvCall(part, wait), IsClient(connection.tcpSocket), UNCHANGED conf
    PROVE  Safe'
<1>0. /\ pc = part /\ pc' = wait /\ tpc' = tpc /\ accepted' = accepted
      /\ victim' = victim /\ msg' = msg /\ from' = from /\ receiving' = fds[Socket]
      /\ fds' = fds /\ replies' = replies /\ backlog' = backlog /\ client' = client
      /\ connection' = connection /\ Socket' = Socket /\ Route' = Route
  BY DEF RecvCall, timer, network, answers, Socket, Route
<1>1. /\ receiving = None /\ None \notin Clients /\ Socket \in Fds
      /\ fds[Socket] \in Clients
      /\ pc \notin {"accept", "accepting", "close", "clear"} \union Replacing
      /\ pc' \notin {"accept", "accepting", "close", "clear"} \union Replacing
      /\ pc \in Serving /\ pc' \in Serving
      /\ pc' \in Handling <=> pc' = "payload wait"
      /\ pc \in Handling <=> pc' = "payload wait"
  BY <1>0, DoIPServerAssumption
     DEF IInv, TypeOK, ConnectionType, Socket, IsClient, Replacing, Serving, Handling
<1> USE DEF IInv, Safe
<1>2. Descriptors' /\ Threads' /\ OwnSocket'
  BY <1>0, <1>1 DEF Descriptors, Threads, OwnSocket, IsClient
<1>3. Newcomers'
  <2>1. \A p \in Clients : Untouched(p) => Untouched(p)'
    BY <1>0, <1>1 DEF Untouched
  <2>2. QED
    BY <1>0, <2>1 DEF Newcomers, InBacklog
<1>4. \A f \in Fds : fds[f] = fds[Socket] => f = Socket
  BY <1>1 DEF Descriptors, IsClient
<1>5. Peer'
  BY <1>0, <1>1, <1>4 DEF Peer
<1>6. Refusals'
  BY <1>0, <1>1 DEF Refusals, Refused
<1>7. Delivered' /\ Released'
  BY <1>0, <1>1 DEF Delivered, Released, StandardInputOpen, IsClient
<1>8. Routes'
  <2>1. SUFFICES ASSUME StandardInputOpen'
                 PROVE  Reads' /\ (Route' # None => \E c \in Clients : ActivatedBy(c)')
    BY DEF Routes
  <2>2. StandardInputOpen
    BY <1>0, <2>1 DEF StandardInputOpen
  <2>3. Reads'
    BY <1>0, <1>1, <2>2 DEF Reads, Routes, IsClient
  <2>4. \A c \in Clients : ActivatedBy(c) => ActivatedBy(c)'
    BY <1>0, <1>1 DEF ActivatedBy, IsClient
  <2>5. QED
    BY <1>0, <1>1, <2>2, <2>3, <2>4 DEF Routes
<1>9. QED
  BY <1>2, <1>3, <1>5, <1>6, <1>7, <1>8

LEMMA RecvPartStep ==
    ASSUME IInv, NEW wait \in {"header wait", "payload wait"}, RecvPart(wait), UNCHANGED conf
    PROVE  Safe'
<1>0. /\ pc = wait /\ pc' \in {"reset", "close", "payload"} /\ tpc' = tpc
      /\ accepted' = accepted /\ victim' = victim /\ from' = receiving /\ receiving' = None
      /\ fds' = fds /\ replies' = replies /\ backlog' = backlog /\ client' = client
      /\ connection' = connection /\ Socket' = Socket /\ Route' = Route
      /\ msg' = Head(stream[receiving]) /\ stream[receiving] # <<>>
  BY DEF RecvPart, timer, answers, Socket, Route
<1>1. /\ receiving \in Clients /\ None \notin Clients
      /\ pc \notin {"accept", "accepting", "close", "clear"} \union Replacing
      /\ pc' \notin {"accept", "accepting", "clear", "payload wait"} \union Replacing
      /\ pc \in Serving /\ pc' \in Serving
      /\ pc' \in Handling <=> pc' # "close"
  BY <1>0, DoIPServerAssumption DEF IInv, TypeOK, Replacing, Serving, Handling
<1>2. msg' # None
  <2>1. stream[receiving] \in Seq(Messages)
    BY <1>1 DEF IInv, TypeOK
  <2>2. msg' \in Messages
    BY <1>0, <2>1, HeadAndTail
  <2>3. QED
    BY <2>2, DoIPServerAssumption
<1> USE DEF IInv, Safe
<1>3. Descriptors' /\ Threads' /\ OwnSocket'
  BY <1>0, <1>1 DEF Descriptors, Threads, OwnSocket, IsClient
<1>4. Newcomers'
  <2>1. \A p \in Clients : Untouched(p) => Untouched(p)'
    BY <1>0, <1>1 DEF Untouched
  <2>2. QED
    BY <1>0, <2>1 DEF Newcomers, InBacklog
<1>5. Peer'
  BY <1>0, <1>1, <1>2 DEF Peer
<1>6. Refusals'
  BY <1>0, <1>1 DEF Refusals, Refused
<1>7. Delivered' /\ Released'
  BY <1>0, <1>1 DEF Delivered, Released, StandardInputOpen, IsClient
<1>8. Routes'
  <2>1. SUFFICES ASSUME StandardInputOpen'
                 PROVE  Reads' /\ (Route' # None => \E c \in Clients : ActivatedBy(c)')
    BY DEF Routes
  <2>2. StandardInputOpen
    BY <1>0, <2>1 DEF StandardInputOpen
  <2>3. Reads'
    BY <1>0, <1>1, <2>2 DEF Reads, Routes, IsClient
  <2>4. \A c \in Clients : ActivatedBy(c) => ActivatedBy(c)'
    BY <1>0, <1>1 DEF ActivatedBy, IsClient
  <2>5. QED
    BY <1>0, <1>1, <2>2, <2>3, <2>4 DEF Routes
<1>9. QED
  BY <1>3, <1>4, <1>5, <1>6, <1>7, <1>8

(* The timer reads tcpSocket before it closes what it read. *)
LEMMA ReadsSocketStep ==
    ASSUME IInv, TimerReadsSocket, UNCHANGED conf
    PROVE  Safe'
<1>0. /\ tpc' = "close" /\ victim' = Socket
      /\ pc' = pc /\ connection' = connection /\ accepted' = accepted /\ msg' = msg
      /\ from' = from /\ receiving' = receiving /\ fds' = fds /\ replies' = replies
      /\ backlog' = backlog /\ client' = client /\ Socket' = Socket /\ Route' = Route
  BY DEF TimerReadsSocket, server, network, answers, Socket, Route
<1> USE DEF IInv, Safe
<1>1. OwnSocket'
  BY <1>0 DEF OwnSocket, IsClient
<1>2. Descriptors' /\ Newcomers' /\ Threads' /\ Peer'
  BY <1>0 DEF Descriptors, Newcomers, InBacklog, Untouched, Threads, Peer, IsClient
<1>3. Refusals' /\ Delivered' /\ Released'
  BY <1>0 DEF Refusals, Refused, Delivered, StandardInputOpen, Released, IsClient
<1>4. Routes'
  BY <1>0 DEF Routes, Reads, ActivatedBy, StandardInputOpen, IsClient
<1>5. QED
  BY <1>1, <1>2, <1>3, <1>4

-----------------------------------------------------------------------------
(* Every step keeps the invariant *)

LEMMA ListenStep ==
    ASSUME IInv, listenTcp, UNCHANGED conf
    PROVE  Safe'
<1>t. connection \in ConnectionType
  BY DEF IInv, TypeOK
<1> USE DEF Fields, Socket, Route
<1>1. CASE AcceptCall \/ AcceptReturn \/ JoinTimer
  BY <1>1, AcceptCallStep, AcceptReturnStep, JoinStep
<1>2. CASE DestroyCallbacks \/ DisableTimer
  <2>1. UNCHANGED <<accepted, victim, msg, from, receiving, fds, backlog, Fields, replies, client, tpc>>
    BY <1>2, <1>t DEF DestroyCallbacks, DisableTimer, ConnectionType, timer, network, answers
  <2>2. PcMoves
    BY <1>2 DEF DestroyCallbacks, DisableTimer, PcMoves, Replacing, Serving, Handling
  <2>3. QED
    BY <2>1, <2>2, QuietStep
<1>3. CASE isSocketActive
  <2>1. CASE connection.tcpSocket = 0
    BY <1>3, <2>1, TurnStep
  <2>2. CASE connection.tcpSocket # 0
    <3>1. UNCHANGED <<accepted, victim, msg, from, receiving, fds, backlog, Fields, replies, client, tpc>>
      BY <1>3 DEF isSocketActive, timer, network, answers
    <3>2. PcMoves
      BY <1>3, <2>2 DEF isSocketActive, PcMoves, Replacing, Serving, Handling
    <3>3. QED
      BY <3>1, <3>2, QuietStep
  <2>3. QED
    BY <2>1, <2>2
<1>4. ASSUME NEW part \in {"header", "payload"}, NEW wait \in {"header wait", "payload wait"},
             part = "header" <=> wait = "header wait", RecvCall(part, wait)
      PROVE  Safe'
  <2>1. CASE IsClient(connection.tcpSocket)
    BY <1>4, <2>1, RecvCallStep
  <2>2. CASE ~IsClient(connection.tcpSocket)
    <3>1. UNCHANGED <<accepted, victim, msg, from, receiving, fds, backlog, Fields, replies, client, tpc>>
      BY <1>4, <2>2 DEF RecvCall, timer, network, answers
    <3>2. PcMoves
      BY <1>4, <2>2 DEF RecvCall, PcMoves, Replacing, Serving, Handling
    <3>3. QED
      BY <3>1, <3>2, QuietStep
  <2>3. QED
    BY <2>1, <2>2
<1>5. ASSUME NEW part \in {"header", "payload"}, NEW wait \in {"header wait", "payload wait"},
             part = "header" <=> wait = "header wait",
             RecvFragment(part, wait) \/ RecvFails(wait)
      PROVE  Safe'
  <2>1. UNCHANGED <<accepted, victim, msg, from, fds, backlog, Fields, replies, client, tpc>>
        /\ receiving' = None
    BY <1>5 DEF RecvFragment, RecvFails, timer, network, answers
  <2>2. PcMoves
    BY <1>5 DEF RecvFragment, RecvFails, PcMoves, Replacing, Serving, Handling
  <2>3. QED
    BY <2>1, <2>2, QuietStep
<1>6. CASE LastByte
  BY <1>6, RecvPartStep DEF LastByte
<1>7. CASE resetTimer
  <2>1. UNCHANGED <<accepted, victim, msg, from, receiving, fds, backlog, Fields, replies, client, tpc>>
    BY <1>7, <1>t DEF resetTimer, ConnectionType, timer, network, answers
  <2>2. PcMoves
    BY <1>7 DEF resetTimer, PcMoves, Replacing, Serving, Handling
  <2>3. QED
    BY <2>1, <2>2, QuietStep
<1>8. CASE closeSocket
  BY <1>8, <1>t, CloseStep DEF closeSocket, ListenerCloses, ConnectionType, timer, network, answers
<1>9. CASE clearSocket
  <2>1. /\ Socket' = 0 /\ Route' = Route
        /\ connection'.active = connection.active /\ connection'.threads = connection.threads
    BY <1>9, <1>t DEF clearSocket, ConnectionType
  <2>2. QED
    BY <1>9, <2>1, ClearStep DEF clearSocket, ListenerClears, timer, network, answers
<1>10. CASE React
  <2>0. pc \in {"react", "deliver"}
    BY <1>10 DEF React, NegativeAck, RoutingActivation, DiagnosticMessageReceived,
                 parseDiagnosticMessage, NothingToDo
  <2> DEFINE Same == UNCHANGED <<accepted, victim, msg, from, receiving, fds, backlog, client>>
  <2>1. ASSUME NEW kind \in Kinds \ {"activated"}, NEW next \in {"loop", "close", "deliver"},
               sendMessage(kind, next), kind \in {"fatal nack", "denied"} => next = "close",
               kind = "data" => msg.source = Route, Same, UNCHANGED <<connection, tpc>>
        PROVE  Safe'
    <3>1. Threads'
      BY <2>1 DEF IInv, Safe, Threads
    <3>2. QED
      BY <2>0, <2>1, <3>1, AnswerStep
  <2>2. ASSUME pc' \in {"loop", "crashed"}, Same, UNCHANGED <<connection, tpc, replies>>
        PROVE  Safe'
    <3>1. PcMoves
      BY <2>0, <2>2 DEF PcMoves, Replacing, Serving, Handling
    <3>2. QED
      BY <2>2, <3>1, QuietStep
  <2>3. CASE NegativeAck
    BY <2>1, <2>3 DEF NegativeAck, Kinds, timer, network
  <2>4. CASE RoutingActivation
    <3>1. Same
      BY <2>4 DEF RoutingActivation, network
    <3>2. CASE sendMessage("denied", "close") /\ UNCHANGED <<connection, tpc>>
      BY <2>1, <3>1, <3>2 DEF Kinds
    <3>3. CASE /\ sendMessage("activated", "loop")
               /\ connection' = [connection EXCEPT !.routed = msg.source,
                                                   !.active = @ \/ StartsTimer,
                                                   !.idle   = @ /\ ~StartsTimer,
                                                   !.threads = @ + (IF StartsTimer THEN 1 ELSE 0)]
               /\ tpc' = IF StartsTimer THEN "test" ELSE tpc
      <4>1. Socket' = Socket /\ Route' = msg.source
        BY <1>t, <3>3 DEF ConnectionType
      <4>2. Threads'
        <5>1. /\ connection'.active = (connection.active \/ StartsTimer)
              /\ connection'.threads = connection.threads + (IF StartsTimer THEN 1 ELSE 0)
          BY <1>t, <3>3 DEF ConnectionType
        <5>2. connection.threads = IF connection.active THEN 1 ELSE 0
          BY DEF IInv, Safe, Threads
        <5>3. StartsTimer => ~connection.active
          BY DEF StartsTimer
        <5>4. CASE StartsTimer
          <6>1. connection'.active
            BY <5>1, <5>4, Zenon
          <6>2. connection'.threads = 1
            BY <5>1, <5>2, <5>3, <5>4
          <6>3. QED
            BY <6>1, <6>2, Zenon DEF Threads
        <5>5. CASE ~StartsTimer
          BY <1>t, <5>1, <5>2, <5>5 DEF Threads, ConnectionType
        <5>6. QED
          BY <5>4, <5>5
      <4>3. QED
        BY <2>0, <3>1, <3>3, <4>1, <4>2, AnswerStep DEF Kinds
    <3>4. QED
      BY <2>4, <3>2, <3>3 DEF RoutingActivation
  <2>5. CASE DiagnosticMessageReceived
    BY <2>1, <2>2, <2>5 DEF DiagnosticMessageReceived, Kinds, timer, network, answers
  <2>6. CASE parseDiagnosticMessage
    BY <2>1, <2>2, <2>6 DEF parseDiagnosticMessage, Kinds, timer, network, answers
  <2>7. CASE NothingToDo
    BY <2>2, <2>7 DEF NothingToDo, timer, network, answers
  <2>8. QED
    BY <1>10, <2>3, <2>4, <2>5, <2>6, <2>7 DEF React
<1>11. CASE Recv
  BY <1>4, <1>5, <1>11 DEF Recv
<1>12. QED
  BY <1>1, <1>2, <1>3, <1>6, <1>7, <1>8, <1>9, <1>10, <1>11 DEF listenTcp

LEMMA TimerStep ==
    ASSUME IInv, waitForResponse \/ Elapse, UNCHANGED conf
    PROVE  Safe'
<1>t. connection \in ConnectionType /\ victim \in Fds
  BY DEF IInv, TypeOK
<1> USE DEF Fields, Socket, Route
<1>1. CASE TimerTest \/ TimerExpires \/ Elapse
  <2>1. UNCHANGED <<accepted, victim, msg, from, receiving, fds, backlog, Fields, replies, client, pc>>
    BY <1>1, <1>t DEF TimerTest, TimerExpires, Elapse, ConnectionType,
                      server, timer, network, answers
  <2>2. tpc' = tpc \/ tpc' \notin {"close", "clear"}
    BY <1>1 DEF TimerTest, TimerExpires, Elapse, timer
  <2>3. QED
    BY <2>1, <2>2, QuietStep
<1>2. CASE TimerReadsSocket
  BY <1>2, ReadsSocketStep
<1>3. CASE TimerCloses
  BY <1>3, <1>t, CloseStep DEF TimerCloses, TimerClosed, server, network, answers
<1>4. CASE TimerClears
  <2>1. /\ Socket' = 0 /\ Route' = Route
        /\ connection'.active = connection.active /\ connection'.threads = connection.threads
    BY <1>4, <1>t DEF TimerClears, ConnectionType
  <2>2. QED
    BY <1>4, <2>1, ClearStep DEF TimerClears, TimerCleared, network, answers
<1>5. CASE TimerCallsBack
  <2>1. /\ UNCHANGED <<accepted, victim, msg, from, receiving, fds, backlog, Fields, replies, client>>
        /\ tpc' = tpc \/ tpc' \notin {"close", "clear"}
    BY <1>5 DEF TimerCallsBack, network, answers
  <2>2. UNCHANGED pc \/ PcMoves
    BY <1>5 DEF TimerCallsBack, CallbacksDestroyed, PcMoves, Replacing, Serving, Handling
  <2>3. QED
    BY <2>1, <2>2, QuietStep
<1>6. QED
  BY <1>1, <1>2, <1>3, <1>4, <1>5 DEF waitForResponse

LEMMA ClientStep ==
    ASSUME IInv, NEW c \in Clients, Connect(c) \/ ClientProgram(c), UNCHANGED conf
    PROVE  Safe'
<1>1. CASE Connect(c)
  BY <1>1, ConnectStep
<1>2. CASE ClientProgram(c)
  <2>1. UNCHANGED <<accepted, victim, msg, from, receiving, fds, backlog, Fields, replies, pc, tpc>>
    BY <1>2 DEF ClientProgram, Send, SendIsLost, ReceiveMessage, ReceiveExits, Disconnect,
                Fields, Socket, Route, server, timer, answers
  <2>2. client' = client \/ client' = [client EXCEPT ![c] = "closed"]
    BY <1>2 DEF ClientProgram, Send, SendIsLost, ReceiveMessage, ReceiveExits, Disconnect
  <2>3. \A p \in Clients : client'[p] = "idle" => client[p] = "idle"
    BY <2>2 DEF IInv, TypeOK
  <2>4. QED
    BY <2>1, <2>3, QuietStep
<1>3. QED
  BY <1>1, <1>2

LEMMA InitSafe == Init => Safe
<1> SUFFICES ASSUME Init PROVE Safe
  OBVIOUS
<1>s. {"stdin", "free", "reserved"} \intersect Clients = {} /\ None \notin Clients
  BY DoIPServerAssumption
<1>1. /\ pc = "accept" /\ tpc = "none" /\ from = None /\ receiving = None
      /\ backlog = <<>> /\ replies = {} /\ connection.active = FALSE /\ connection.threads = 0
      /\ \A f \in Fds : fds[f] = IF f = 0 THEN "stdin" ELSE "free"
  BY DEF Init, NewConnection
<1>2. Descriptors /\ Newcomers
  BY <1>1, <1>s DEF Descriptors, Newcomers, Untouched, IsClient, InBacklog
<1>3. Threads /\ OwnSocket /\ Peer
  BY <1>1 DEF Threads, OwnSocket, Peer, Serving, Handling
<1>4. Refusals /\ Delivered /\ Routes /\ Released
  BY <1>1, <1>s DEF Refusals, Refused, Delivered, Routes, Released, Replacing, Serving,
                    Handling, IsClient
<1>5. QED
  BY <1>2, <1>3, <1>4 DEF Safe

LEMMA Stutters ==
    ASSUME IInv, UNCHANGED vars
    PROVE  IInv'
<1>1. TypeOK'
  BY DEF IInv, TypeOK, vars, state, server, timer, network, answers
<1>2. Safe'
  BY QuietStep DEF vars, state, server, timer, network, answers, Fields, Socket, Route
<1>3. QED
  BY <1>1, <1>2 DEF IInv

LEMMA NextKeepsIInv ==
    ASSUME IInv, [Next]_vars
    PROVE  IInv'
<1>1. CASE listenTcp /\ UNCHANGED conf
  <2>1. TypeOK'
    BY <1>1, AcceptTyped, ReceiveTyped, ReactTyped DEF IInv, Safe, listenTcp
  <2>2. QED
    BY <1>1, <2>1, ListenStep DEF IInv
<1>2. CASE (waitForResponse \/ Elapse) /\ UNCHANGED conf
  BY <1>2, TimerTyped, TimerStep DEF IInv
<1>3. ASSUME NEW c \in Clients, Connect(c) \/ ClientProgram(c), UNCHANGED conf
      PROVE  IInv'
  BY <1>3, ClientsTyped, ClientStep DEF IInv
<1>4. QED
  BY <1>1, <1>2, <1>3, Stutters DEF Next

LEMMA Invariance == Spec => []IInv
<1>1. Init => IInv
  BY InitTyped, InitSafe DEF IInv
<1>2. IInv /\ [Next]_vars => IInv'
  BY NextKeepsIInv
<1>3. QED
  BY <1>1, <1>2, PTL DEF Spec

-----------------------------------------------------------------------------
(* Without an inactivity time no timer runs, and nothing closes descriptor 0. *)

Untimed ==
    InactivityTime = 0 =>
        /\ StandardInputOpen /\ tpc = "none" /\ connection.disabled
        /\ pc \in Serving \ {"loop"} => Socket # 0

LEMMA UntimedStep ==
    ASSUME IInv, Untimed, [Next]_vars
    PROVE  Untimed'
<1> SUFFICES ASSUME InactivityTime' = 0
             PROVE  Untimed'
  BY DEF Untimed
<1>0. InactivityTime = 0
  BY DEF InactivityTime, Next, vars
<1>1. /\ fds[0] = "stdin" /\ tpc = "none" /\ connection.disabled
      /\ pc \in Serving \ {"loop"} => Socket # 0
  BY <1>0 DEF Untimed, StandardInputOpen
<1>t. /\ fds \in [Fds -> Clients \union {"stdin", "free", "reserved"}] /\ 0 \in Fds
      /\ connection \in ConnectionType
  BY ZeroIsADescriptor DEF IInv, TypeOK
<1>2. ASSUME fds' = fds \/ fds'[0] = fds[0], tpc' = "none", connection'.disabled,
             pc' \in Serving \ {"loop"} => pc \in Serving \ {"loop"} /\ Socket' = Socket
      PROVE  Untimed'
  BY <1>1, <1>2 DEF Untimed, StandardInputOpen
<1>3. CASE AcceptCall
  <2>1. accepted' \in Fds /\ accepted' # 0
    BY <1>1, <1>3, Accepted DEF IInv, Safe
  <2>2. QED
    BY <1>1, <1>2, <1>3, <1>t, <2>1 DEF AcceptCall, timer, Serving, Handling
<1>4. CASE AcceptReturn
  <2>1. accepted # 0
    BY <1>1, <1>4 DEF AcceptReturn, IInv, Safe, Released, StandardInputOpen
  <2>2. QED
    BY <1>1, <1>2, <1>4, <1>t, <2>1 DEF AcceptReturn, timer, Serving, Handling
<1>5. CASE DestroyCallbacks \/ DisableTimer
  BY <1>1, <1>2, <1>5, <1>t DEF DestroyCallbacks, DisableTimer, ConnectionType, timer, Serving,
                                Handling
<1>6. CASE JoinTimer
  <2>1. connection'.disabled
    BY <1>0, <1>6 DEF JoinTimer, NewConnection
  <2>2. QED
    BY <1>2, <1>6, <2>1 DEF JoinTimer, Serving, Handling
<1>7. CASE isSocketActive
  BY <1>1, <1>7 DEF isSocketActive, timer, Untimed, StandardInputOpen, Socket, Serving, Handling
<1>8. CASE Recv \/ LastByte
  <2>1. pc \in Serving \ {"loop"}
    BY <1>8 DEF Recv, RecvCall, RecvFragment, RecvFails, LastByte, RecvPart, Serving, Handling
  <2>2. fds' = fds /\ tpc' = tpc /\ connection' = connection
    BY <1>8 DEF Recv, RecvCall, RecvFragment, RecvFails, LastByte, RecvPart, timer
  <2>3. QED
    BY <1>1, <1>2, <2>1, <2>2 DEF Socket
<1>9. CASE resetTimer
  <2>1. pc \in Serving \ {"loop"}
    BY <1>9 DEF resetTimer, Serving, Handling
  <2>2. Socket' = Socket /\ connection'.disabled
    BY <1>1, <1>9, <1>t DEF resetTimer, ConnectionType, Socket
  <2>3. QED
    BY <1>1, <1>2, <1>9, <2>1, <2>2 DEF resetTimer, timer
<1>10. CASE React
  <2>1. pc \in Serving \ {"loop"}
    BY <1>10 DEF React, NegativeAck, RoutingActivation, DiagnosticMessageReceived,
                 parseDiagnosticMessage, NothingToDo, Serving, Handling
  <2>2. fds' = fds
    BY <1>10 DEF React, NegativeAck, RoutingActivation, DiagnosticMessageReceived,
                 parseDiagnosticMessage, NothingToDo
  <2>3. tpc' = tpc /\ Socket' = Socket /\ connection'.disabled
    <3>1. CASE UNCHANGED <<connection, tpc>>
      BY <1>1, <3>1 DEF Socket
    <3>2. CASE RoutingActivation /\ ~UNCHANGED <<connection, tpc>>
      BY <1>1, <1>t, <3>2 DEF RoutingActivation, StartsTimer, ConnectionType, Socket
    <3>3. QED
      BY <1>10, <3>1, <3>2 DEF React, NegativeAck, DiagnosticMessageReceived,
                 parseDiagnosticMessage, NothingToDo, timer
  <2>4. QED
    BY <1>1, <1>2, <2>1, <2>2, <2>3
<1>11. CASE closeSocket
  <2>1. Socket \in Fds /\ Socket # 0 /\ pc \in Serving \ {"loop"}
    BY <1>1, <1>11, <1>t DEF closeSocket, ConnectionType, Socket, Serving, Handling
  <2>2. fds'[0] = fds[0]
    BY <1>11, <1>t, <2>1 DEF closeSocket, Closed, Socket
  <2>3. QED
    BY <1>1, <1>2, <1>11, <2>1, <2>2 DEF closeSocket, timer, Socket
<1>12. CASE clearSocket
  <2>1. connection'.disabled
    BY <1>1, <1>12, <1>t DEF clearSocket, ConnectionType
  <2>2. QED
    BY <1>1, <1>2, <1>12, <2>1 DEF clearSocket, timer
<1>13. CASE waitForResponse \/ Elapse
  BY <1>1, <1>13 DEF waitForResponse, TimerTest, TimerExpires, TimerReadsSocket, TimerCloses,
                     TimerClears, TimerCallsBack, Elapse
<1>14. ASSUME NEW c \in Clients, Connect(c) \/ ClientProgram(c)
       PROVE  Untimed'
  <2>1. UNCHANGED <<server, timer, fds>>
    BY <1>14 DEF Connect, ClientProgram, Send, SendIsLost, ReceiveMessage, ReceiveExits, Disconnect
  <2>2. QED
    BY <1>1, <1>2, <2>1 DEF server, timer, Socket
<1>15. CASE UNCHANGED vars
  BY <1>1, <1>2, <1>15 DEF vars, state, server, timer, Socket
<1>16. QED
  BY <1>3, <1>4, <1>5, <1>6, <1>7, <1>8, <1>9, <1>10, <1>11, <1>12, <1>13, <1>14, <1>15
     DEF Next, listenTcp

LEMMA NoTimerNoHarm == Spec => []Untimed
<1>1. Init => Untimed
  <2> SUFFICES ASSUME Init, InactivityTime = 0
               PROVE  Untimed
    BY DEF Untimed
  <2>1. fds[0] = "stdin" /\ tpc = "none" /\ pc = "accept"
    BY ZeroIsADescriptor DEF Init
  <2>2. connection.disabled
    BY DEF Init, NewConnection
  <2>3. QED
    BY <2>1, <2>2 DEF Untimed, StandardInputOpen, Serving, Handling
<1>2. QED
  BY <1>1, UntimedStep, Invariance, PTL DEF Spec

-----------------------------------------------------------------------------
(* Theorems *)

(* Whatever the clients send and however the two threads interleave, accept *)
(* finds a free descriptor and every variable keeps its type.               *)
THEOREM TypeCorrect == Spec => []TypeOK
<1>1. IInv => TypeOK
  BY DEF IInv
<1>2. QED
  BY <1>1, Invariance, PTL

(* ~AliveCheckTimer, which joins timerThreads.at(0) only, joins all there are. *)
THEOREM TimerThreadIsJoined == Spec => []OneTimerThread
<1>1. IInv => OneTimerThread
  BY DEF IInv, Safe, Threads, OneTimerThread
<1>2. QED
  BY <1>1, Invariance, PTL

(* User data is taken only from the address the same client activated, with *)
(* any number of clients, as long as the timer has not closed descriptor 0. *)
THEOREM DataNeedsActivation == Spec => []DeliveredWasActivated
<1>1. IInv /\ Untimed => DeliveredWasActivated
  BY DEF IInv, Safe, Delivered, Untimed, Undisturbed, DeliveredWasActivated
<1>2. QED
  BY <1>1, Invariance, NoTimerNoHarm, PTL

(* Every accepted socket is closed before the next accept, as long as the   *)
(* timer has not closed descriptor 0.                                      *)
THEOREM SocketsAreReleased == Spec => []NothingLeftOpen
<1>1. IInv /\ Untimed => NothingLeftOpen
  BY DEF IInv, Safe, Released, Untimed, Undisturbed, NothingLeftOpen
<1>2. QED
  BY <1>1, Invariance, NoTimerNoHarm, PTL

(* A client that was denied is not read from again, whichever thread closes *)
(* its socket and whoever gets the number next.                             *)
THEOREM DenialIsFinal == Spec => DeniedStaysDenied
<1>1. ASSUME IInv, [Next]_vars, NEW c \in Clients, Denied(c), stream'[c] # stream[c]
      PROVE  Len(stream'[c]) > Len(stream[c])
  <2>1. stream \in [Clients -> Seq(Messages)] /\ receiving # c
    BY <1>1 DEF IInv, TypeOK, Safe, Refusals, Denied, Refused
  <2>2. CASE LastByte
    BY <1>1, <2>1, <2>2 DEF LastByte, RecvPart
  <2>3. ASSUME NEW p \in Clients, Send(p)
        PROVE  Len(stream'[c]) > Len(stream[c])
    BY <1>1, <2>1, <2>3 DEF Send
  <2>4. CASE UNCHANGED stream
    BY <1>1, <2>4
  <2>5. QED
    <3>1. listenTcp => LastByte \/ UNCHANGED stream
      BY DEF listenTcp, AcceptCall, AcceptReturn, DestroyCallbacks, DisableTimer, JoinTimer,
             isSocketActive, Recv, RecvCall, RecvFragment, RecvFails, resetTimer, React,
             NegativeAck, RoutingActivation, DiagnosticMessageReceived, parseDiagnosticMessage,
             NothingToDo, closeSocket, clearSocket, network
    <3>2. waitForResponse \/ Elapse => UNCHANGED stream
      BY DEF waitForResponse, TimerTest, TimerExpires, TimerReadsSocket, TimerCloses, TimerClears,
             TimerCallsBack, Elapse, network
    <3>3. \A p \in Clients : Connect(p) \/ ClientProgram(p) => Send(p) \/ UNCHANGED stream
      BY DEF Connect, ClientProgram, SendIsLost, ReceiveMessage, ReceiveExits, Disconnect
    <3>4. UNCHANGED vars => UNCHANGED stream
      BY DEF vars, state, network
    <3>5. QED
      BY <1>1, <2>2, <2>3, <2>4, <3>1, <3>2, <3>3, <3>4 DEF Next
<1>2. IInv /\ [Next]_vars =>
          [\A c \in Clients : Denied(c) /\ stream'[c] # stream[c] =>
               Len(stream'[c]) > Len(stream[c])]_vars
  BY <1>1
<1>3. QED
  BY <1>2, Invariance, PTL DEF DeniedStaysDenied, Spec
=============================================================================
