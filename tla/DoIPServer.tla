----------------------------- MODULE DoIPServer -----------------------------
(***************************************************************************)
(* libdoip/hello: the TCP side of the DoIP server of realize/DoIPSimulator. *)
(* One thread runs listenTcp: it accepts a client, replaces connection_ and *)
(* serves that client until tcpSocket is 0.  A routing activation starts    *)
(* the thread of AliveCheckTimer, which closes the same socket.  The two    *)
(* threads share the fields of DoIPConnection without a lock; every access  *)
(* that can interleave is a step of its own.                               *)
(***************************************************************************)
EXTENDS DoIPMessage, Sequences, FiniteSetsExt

CONSTANTS Clients,           \* each connects at most once
          Configurations,    \* how the server is set up, and what its clients do
          None

MaxAddress == 65535     \* unsigned char[2]
Addresses  == 0..MaxAddress

(* A message, and a call of DoIPClient::receiveMessage in a client's script. *)
Messages == [data : HeaderFields, source : Addresses, activation : Byte, target : Addresses]
Receive  == [call |-> "receiveMessage"]

ASSUME DoIPServerAssumption ==
    /\ IsFiniteSet(Clients) /\ {"stdin", "free", "reserved"} \intersect Clients = {}
    /\ None \notin Clients \union Addresses \union Messages
    /\ \A c \in Configurations :
           /\ c.inactivityTime \in Nat /\ c.patient \in BOOLEAN
           /\ c.scripts \subseteq [Clients -> Seq(Messages \union {Receive})]

(* Descriptor 0 is the standard input; the others are the ones the process  *)
(* has free after start-up, one more than it ever needs.                   *)
Fds == 0..(Cardinality(Clients) + 1)

LOGICAL_ADDRESS == 40

VARIABLES
    conf,        \* one of Configurations
    pc,          \* where listenTcp is
    tpc,         \* where the timer thread of connection is
    connection,  \* the fields of the object connection_ points to
    accepted,    \* the descriptor accept returns, until connection_ holds it
    victim,      \* the descriptor the timer thread is about to close
    msg,         \* the message being received or handled
    from,        \* the client it came from
    receiving,   \* the client on whose socket recv sleeps
    fds,         \* the descriptor table
    backlog,     \* clients waiting to be accepted
    client,      \* "idle", "open" or "closed"
    toSend,      \* what each client still has to do: messages to send, calls to receive
    halfSent,    \* clients of which the first part of a message has been sent
    stream,      \* parts that arrived and are not received yet
    reset,       \* clients that answered a write with RST
    inbox,       \* replies a patient client has not received yet
    replies      \* history: every message the server wrote

server  == <<pc, connection, accepted, msg, from, receiving>>
timer   == <<tpc, victim>>
network == <<backlog, client, toSend, halfSent, stream>>
answers == <<reset, inbox, replies>>
state   == <<server, timer, network, fds, answers>>
vars    == <<conf, state>>

InactivityTime == conf.inactivityTime   \* the argument of setGeneralInactivityTime
Patient        == conf.patient          \* clients keep the connection until they are answered

ServerSteps == {"accept", "accepting", "destroy", "disable", "join", "loop",
                "header", "header wait", "payload", "payload wait", "reset", "react",
                "deliver", "close", "clear", "crashed", "killed"}
TimerSteps  == {"none", "test", "expire", "read", "close", "clear", "callback", "done"}
Kinds       == {"nack", "fatal nack", "activated", "denied", "positive", "negative", "data"}

-----------------------------------------------------------------------------
(* Messages *)

(* The indeterminate value never shows: a header received over TCP is whole. *)
Action(m) == parseGenericHeader(m.data, GenericHeaderLength,
                                [type |-> Unknown, value |-> 255, payloadLength |-> 0])

HasPayload(m) == Action(m).payloadLength > 0

-----------------------------------------------------------------------------
(* Descriptors: the kernel *)

IsClient(fd) == fds[fd] \in Clients

Closed(fd) == [fds EXCEPT ![fd] = IF @ = "reserved" THEN @ ELSE "free"]

(* A client is connected while a descriptor, or a recv that sleeps, refers  *)
(* to its socket.                                                          *)
Connected(c) == receiving = c \/ \E fd \in Fds : fds[fd] = c

(* The kernel takes the lowest free number when accept is called. *)
AcceptCall ==
    /\ pc = "accept"
    /\ accepted' = Min({fd \in Fds : fds[fd] = "free"})
    /\ fds' = [fds EXCEPT ![accepted'] = "reserved"]
    /\ pc' = "accepting"
    /\ UNCHANGED <<connection, msg, from, receiving, timer, network, answers>>

AcceptReturn ==
    /\ pc = "accepting"
    /\ backlog # <<>>
    /\ fds' = [fds EXCEPT ![accepted] = Head(backlog)]
    /\ backlog' = Tail(backlog)
    /\ pc' = "destroy"
    /\ UNCHANGED <<connection, accepted, msg, from, receiving, timer, client, toSend, halfSent,
                   stream, answers>>

-----------------------------------------------------------------------------
(* connection_ = ...: the old object is destroyed, its members in reverse   *)
(* order: the callbacks first, then the timer.                             *)

DestroyCallbacks ==
    /\ pc = "destroy"
    /\ pc' = "disable"
    /\ UNCHANGED <<connection, accepted, msg, from, receiving, timer, network, fds, answers>>

CallbacksDestroyed == pc \in {"disable", "join"}

(* mutant: tcpSocket is not set *)
NewConnection_Unset(fd) ==
    [tcpSocket |-> -1, routed |-> None, active |-> FALSE, timeout |-> FALSE,
     disabled |-> InactivityTime = 0, idle |-> FALSE, threads |-> 0]

NewConnection(fd) ==
    [tcpSocket |-> fd, routed |-> None, active |-> FALSE, timeout |-> FALSE,
     disabled |-> InactivityTime = 0, idle |-> FALSE, threads |-> 0]

(* mutant: the destructor does not set disabled *)
DisableTimer_Skipped ==
    /\ pc = "disable"
    /\ pc' = "join"
    /\ UNCHANGED <<connection, accepted, msg, from, receiving, timer, network, fds, answers>>

DisableTimer ==
    /\ pc = "disable"
    /\ connection' = [connection EXCEPT !.disabled = TRUE]
    /\ pc' = "join"
    /\ UNCHANGED <<accepted, msg, from, receiving, timer, network, fds, answers>>

(* mutant: the route outlives its connection *)
JoinTimer_KeepsRoute ==
    /\ pc = "join"
    /\ tpc \in {"none", "done"}
    /\ tpc' = "none"
    /\ connection' = [NewConnection(accepted) EXCEPT !.routed = connection.routed]
    /\ pc' = "loop"
    /\ UNCHANGED <<accepted, victim, msg, from, receiving, network, fds, answers>>

(* The join, then setCallback and setGeneralInactivityTime on the new one. *)
JoinTimer ==
    /\ pc = "join"
    /\ tpc \in {"none", "done"}
    /\ tpc' = "none"
    /\ connection' = NewConnection(accepted)
    /\ pc' = "loop"
    /\ UNCHANGED <<accepted, victim, msg, from, receiving, network, fds, answers>>

-----------------------------------------------------------------------------
(* receiveTcpMessage *)

isSocketActive ==
    /\ pc = "loop"
    /\ pc' = IF connection.tcpSocket # 0 THEN "header" ELSE "accept"
    /\ UNCHANGED <<connection, accepted, msg, from, receiving, timer, network, fds, answers>>

(* recv takes a reference to the socket its descriptor stands for, and      *)
(* keeps it while it sleeps.  On anything but a client's socket it fails.   *)
RecvCall(part, wait) ==
    /\ pc = part
    /\ IF IsClient(connection.tcpSocket)
       THEN receiving' = fds[connection.tcpSocket] /\ pc' = wait
       ELSE pc' = "close" /\ UNCHANGED receiving
    /\ UNCHANGED <<connection, accepted, msg, from, timer, network, fds, answers>>

(* Some of the bytes: the loop calls recv again, with tcpSocket as it is now. *)
RecvFragment(part, wait) ==
    /\ pc = wait
    /\ stream[receiving] # <<>>
    /\ receiving' = None
    /\ pc' = part
    /\ UNCHANGED <<connection, accepted, msg, from, timer, network, fds, answers>>

(* The last byte of the part.  The timer is looked at after the header only. *)
RecvPart(wait) ==
    /\ pc = wait
    /\ stream[receiving] # <<>>
    /\ msg' = Head(stream[receiving])
    /\ from' = receiving
    /\ stream' = [stream EXCEPT ![receiving] = Tail(@)]
    /\ receiving' = None
    /\ pc' = IF wait # "header wait" THEN "reset"
             ELSE IF connection.timeout THEN "close"
             ELSE IF HasPayload(msg') THEN "payload" ELSE "reset"
    /\ UNCHANGED <<connection, accepted, timer, backlog, client, toSend, halfSent, fds, answers>>

(* mutant: the socket number is forgotten without close *)
RecvFails_NoClose(wait) ==
    /\ pc = wait
    /\ stream[receiving] = <<>>
    /\ client[receiving] = "closed"
    /\ receiving' = None
    /\ pc' = "clear"
    /\ UNCHANGED <<connection, accepted, msg, from, timer, network, fds, answers>>

(* 0 or -1: the client closed its end. *)
RecvFails(wait) ==
    /\ pc = wait
    /\ stream[receiving] = <<>>
    /\ client[receiving] = "closed"
    /\ receiving' = None
    /\ pc' = "close"
    /\ UNCHANGED <<connection, accepted, msg, from, timer, network, fds, answers>>

resetTimer ==
    /\ pc = "reset"
    /\ connection' = IF connection.active THEN [connection EXCEPT !.idle = FALSE] ELSE connection
    /\ pc' = "react"
    /\ UNCHANGED <<accepted, msg, from, receiving, timer, network, fds, answers>>

(* mutant: tcpSocket is cleared before it is closed *)
closeSocket_Cleared ==
    /\ pc = "close"
    /\ fds' = Closed(0)
    /\ pc' = "clear"
    /\ UNCHANGED <<connection, accepted, msg, from, receiving, timer, network, answers>>

(* closeSocket, in its two steps *)
closeSocket ==
    /\ pc = "close"
    /\ fds' = Closed(connection.tcpSocket)
    /\ pc' = "clear"
    /\ UNCHANGED <<connection, accepted, msg, from, receiving, timer, network, answers>>

(* mutant: the number is kept *)
clearSocket_Kept ==
    /\ pc = "clear"
    /\ pc' = "loop"
    /\ UNCHANGED <<connection, accepted, msg, from, receiving, timer, network, fds, answers>>

clearSocket ==
    /\ pc = "clear"
    /\ connection' = [connection EXCEPT !.tcpSocket = 0]
    /\ pc' = "loop"
    /\ UNCHANGED <<accepted, msg, from, receiving, timer, network, fds, answers>>

-----------------------------------------------------------------------------
(* reactOnReceivedTcpMessage, with the callbacks of DoIPSimulator *)

(* write(tcpSocket, ...): a socket whose peer has answered with RST raises  *)
(* SIGPIPE, which nothing in the program handles; a peer that has closed    *)
(* answers with RST sooner or later.                                       *)
sendMessage(kind, next) ==
    LET peer == fds[connection.tcpSocket]
    IN  \/ /\ peer \in reset
           /\ pc' = "killed"
           /\ UNCHANGED answers
        \/ /\ peer \notin reset
           /\ inbox' = IF Patient /\ peer \in Clients
                       THEN [inbox EXCEPT ![peer] = Append(@, kind)] ELSE inbox
           /\ replies' = replies \union
                {[for |-> from, kind |-> kind, address |-> msg.source]}
           /\ reset' \in {reset} \union
                {reset \union {c} : c \in {p \in Clients : p = peer /\ client[p] = "closed"}}
           /\ pc' = next

NegativeAck ==
    LET action == Action(msg)
    IN  /\ pc = "react"
        /\ action.type = "NEGATIVEACK"
        /\ IF action.value \in {IncorrectPatternFormatCode, InvalidPayloadLengthCode}
           THEN sendMessage("fatal nack", "close")
           ELSE sendMessage("nack", "loop")
        /\ UNCHANGED <<connection, accepted, msg, from, receiving, timer, network, fds>>

(* mutant: the timer is started by every activation *)
StartsTimer_Always == ~connection.disabled

StartsTimer == ~connection.active /\ ~connection.disabled

(* mutant: a denied client keeps its connection *)
RoutingActivation_NotClosed ==
    LET result == parseRoutingActivation(msg)
    IN  /\ pc = "react"
        /\ Action(msg).type = "ROUTINGACTIVATIONREQUEST"
        /\ sendMessage(IF result = SuccessfullyRoutedCode THEN "activated" ELSE "denied", "loop")
        /\ UNCHANGED <<connection, accepted, msg, from, receiving, timer, network, fds>>

(* The response is written whatever the result; only then is the address    *)
(* saved and the timer started.                                            *)
RoutingActivation ==
    LET result == parseRoutingActivation(msg)
    IN  /\ pc = "react"
        /\ Action(msg).type = "ROUTINGACTIVATIONREQUEST"
        /\ \/ /\ result \in {UnknownSourceAddressCode, UnsupportedRoutingTypeCode}
              /\ sendMessage("denied", "close")
              /\ UNCHANGED <<connection, tpc>>
           \/ /\ result = SuccessfullyRoutedCode
              /\ sendMessage("activated", "loop")
              /\ connection' = [connection EXCEPT !.routed = msg.source,
                                                  !.active = @ \/ StartsTimer,
                                                  !.idle   = @ /\ ~StartsTimer,
                                                  !.threads = @ + (IF StartsTimer THEN 1 ELSE 0)]
              /\ tpc' = IF StartsTimer THEN "test" ELSE tpc
        /\ UNCHANGED <<accepted, msg, from, receiving, victim, network, fds>>

(* notify_application: sendDiagnosticAck reads routedClientAddress first. *)
DiagnosticMessageReceived ==
    /\ pc = "react"
    /\ Action(msg).type = "DIAGNOSTICMESSAGE"
    /\ IF connection.routed = None
       THEN pc' = "crashed" /\ UNCHANGED answers
       ELSE IF msg.target = LOGICAL_ADDRESS
            THEN sendMessage("positive", "deliver")
            ELSE sendMessage("negative", "loop")
    /\ UNCHANGED <<connection, accepted, msg, from, receiving, timer, network, fds>>

(* parseDiagnosticMessage: ReceiveFromLibrary answers with data of its own; *)
(* a message from another address is dropped without a word.               *)
parseDiagnosticMessage ==
    /\ pc = "deliver"
    /\ IF msg.source = connection.routed
       THEN sendMessage("data", "loop")
       ELSE pc' = "loop" /\ UNCHANGED answers
    /\ UNCHANGED <<connection, accepted, msg, from, receiving, timer, network, fds>>

(* An alive check response, and every type the switch does not name. *)
NothingToDo ==
    /\ pc = "react"
    /\ Action(msg).type \notin {"NEGATIVEACK", "ROUTINGACTIVATIONREQUEST", "DIAGNOSTICMESSAGE"}
    /\ pc' = "loop"
    /\ UNCHANGED <<connection, accepted, msg, from, receiving, timer, network, fds, answers>>

-----------------------------------------------------------------------------
(* AliveCheckTimer::waitForResponse and the callback it runs *)

(* maxSeconds pass without a resetTimer. *)
Elapse ==
    /\ tpc = "test"
    /\ ~connection.idle
    /\ connection' = [connection EXCEPT !.idle = TRUE]
    /\ UNCHANGED <<pc, accepted, msg, from, receiving, timer, network, fds, answers>>

TimerTest ==
    /\ tpc = "test"
    /\ \/ connection.disabled /\ tpc' = "done"
       \/ ~connection.disabled /\ connection.idle /\ tpc' = "expire"
    /\ UNCHANGED <<victim, server, network, fds, answers>>

TimerExpires ==
    /\ tpc = "expire"
    /\ connection' = [connection EXCEPT !.disabled = TRUE, !.timeout = TRUE]
    /\ tpc' = "read"
    /\ UNCHANGED <<pc, accepted, msg, from, receiving, victim, network, fds, answers>>

(* closeSocket again: the argument is read, then the system call is made. *)
TimerReadsSocket ==
    /\ tpc = "read"
    /\ victim' = connection.tcpSocket
    /\ tpc' = "close"
    /\ UNCHANGED <<server, network, fds, answers>>

TimerCloses ==
    /\ tpc = "close"
    /\ fds' = Closed(victim)
    /\ tpc' = "clear"
    /\ UNCHANGED <<server, victim, network, answers>>

TimerClears ==
    /\ tpc = "clear"
    /\ connection' = [connection EXCEPT !.tcpSocket = 0]
    /\ tpc' = "callback"
    /\ UNCHANGED <<pc, accepted, msg, from, receiving, victim, network, fds, answers>>

(* close_connection() prints a line.  What setCallback is given is larger   *)
(* than a std::function holds in place, so it is on the heap, and freed with *)
(* close_connection: a call after that is undefined, and works or crashes. *)
TimerCallsBack ==
    /\ tpc = "callback"
    /\ \/ tpc' = "test" /\ UNCHANGED pc
       \/ CallbacksDestroyed /\ pc' = "crashed" /\ UNCHANGED tpc
    /\ UNCHANGED <<connection, accepted, msg, from, receiving, victim, network, fds, answers>>

-----------------------------------------------------------------------------
(* The clients *)

Connect(c) ==
    /\ client[c] = "idle"
    /\ client' = [client EXCEPT ![c] = "open"]
    /\ backlog' = Append(backlog, c)
    /\ UNCHANGED <<server, timer, toSend, halfSent, stream, fds, answers>>

InBacklog(c) == \E i \in DOMAIN backlog : backlog[i] = c

(* The next thing the program of c does. *)
Current(c) == Head(toSend[c])

(* A message arrives as a header and, if it has one, a payload. *)
SendPart(c) ==
    IF HasPayload(Current(c)) /\ c \notin halfSent
    THEN halfSent' = halfSent \union {c} /\ UNCHANGED toSend
    ELSE halfSent' = halfSent \ {c} /\ toSend' = [toSend EXCEPT ![c] = Tail(@)]

Send(c) ==
    /\ client[c] = "open"
    /\ toSend[c] # <<>> /\ Current(c) # Receive
    /\ Connected(c) \/ InBacklog(c)
    /\ stream' = [stream EXCEPT ![c] = Append(@, Current(c))]
    /\ SendPart(c)
    /\ UNCHANGED <<server, timer, backlog, client, fds, answers>>

(* The server has closed the connection: the bytes go nowhere. *)
SendIsLost(c) ==
    /\ client[c] = "open"
    /\ toSend[c] # <<>> /\ Current(c) # Receive
    /\ ~Connected(c) /\ ~InBacklog(c)
    /\ SendPart(c)
    /\ UNCHANGED <<server, timer, backlog, client, stream, fds, answers>>

(* mutant: as much is read as has arrived *)
ReceiveMessage_All(c) ==
    /\ client[c] = "open"
    /\ toSend[c] # <<>> /\ Current(c) = Receive
    /\ inbox[c] # <<>>
    /\ inbox' = [inbox EXCEPT ![c] = <<>>]
    /\ toSend' = [toSend EXCEPT ![c] = Tail(@)]
    /\ UNCHANGED <<server, timer, backlog, client, halfSent, stream, fds, reset, replies>>

(* The header is looked at with MSG_PEEK, then one message is read, also    *)
(* when the next one has arrived with it.  The server writes a message with *)
(* one call, and it arrives in one piece.                                   *)
ReceiveMessage(c) ==
    /\ client[c] = "open"
    /\ toSend[c] # <<>> /\ Current(c) = Receive
    /\ inbox[c] # <<>>
    /\ inbox' = [inbox EXCEPT ![c] = Tail(@)]
    /\ toSend' = [toSend EXCEPT ![c] = Tail(@)]
    /\ UNCHANGED <<server, timer, backlog, client, halfSent, stream, fds, reset, replies>>

(* Fewer than eight bytes, none because the server closed: exit(-1). *)
ReceiveExits(c) ==
    /\ client[c] = "open"
    /\ toSend[c] # <<>> /\ Current(c) = Receive
    /\ inbox[c] = <<>> /\ ~Connected(c) /\ ~InBacklog(c)
    /\ client' = [client EXCEPT ![c] = "closed"]
    /\ UNCHANGED <<server, timer, backlog, toSend, halfSent, stream, fds, answers>>

(* A patient client is a program over DoIPClient that closes when it has    *)
(* done what it came for; the others may leave at any time.                 *)
Disconnect(c) ==
    /\ client[c] = "open"
    /\ Patient => toSend[c] = <<>>
    /\ client' = [client EXCEPT ![c] = "closed"]
    /\ UNCHANGED <<server, timer, backlog, toSend, halfSent, stream, fds, answers>>

-----------------------------------------------------------------------------
Init ==
    /\ conf \in Configurations
    /\ pc = "accept" /\ tpc = "none"
    /\ connection = NewConnection(0)
    /\ accepted = 0 /\ victim = 0
    /\ msg = None /\ from = None /\ receiving = None
    /\ fds = [fd \in Fds |-> IF fd = 0 THEN "stdin" ELSE "free"]
    /\ backlog = <<>>
    /\ client = [c \in Clients |-> "idle"]
    /\ toSend \in conf.scripts /\ halfSent = {}
    /\ stream = [c \in Clients |-> <<>>]
    /\ reset = {} /\ replies = {}
    /\ inbox = [c \in Clients |-> <<>>]

Recv ==
    \/ RecvCall("header", "header wait") \/ RecvCall("payload", "payload wait")
    \/ RecvFragment("header", "header wait") \/ RecvFragment("payload", "payload wait")
    \/ RecvFails("header wait") \/ RecvFails("payload wait")

LastByte == RecvPart("header wait") \/ RecvPart("payload wait")

React == NegativeAck \/ RoutingActivation \/ DiagnosticMessageReceived
         \/ parseDiagnosticMessage \/ NothingToDo

listenTcp ==
    \/ AcceptCall \/ AcceptReturn
    \/ DestroyCallbacks \/ DisableTimer \/ JoinTimer
    \/ isSocketActive \/ Recv \/ LastByte \/ resetTimer \/ React
    \/ closeSocket \/ clearSocket

(* The timer thread ends with the process. *)
waitForResponse ==
    /\ pc \notin {"crashed", "killed"}
    /\ \/ TimerTest \/ TimerExpires \/ TimerReadsSocket \/ TimerCloses
       \/ TimerClears \/ TimerCallsBack

ClientProgram(c) ==
    Send(c) \/ SendIsLost(c) \/ ReceiveMessage(c) \/ ReceiveExits(c) \/ Disconnect(c)

Next ==
    /\ listenTcp \/ waitForResponse \/ Elapse \/ \E c \in Clients : Connect(c) \/ ClientProgram(c)
    /\ UNCHANGED conf

Spec == Init /\ [][Next]_vars

(* Both threads are scheduled; a message is finite, so the fragments end.   *)
ServerFairness == WF_state(listenTcp) /\ SF_state(LastByte) /\ WF_state(waitForResponse)

(* Patient clients run to the end of their program. *)
ClientFairness == \A c \in Clients : WF_state(Patient /\ ClientProgram(c))

FairSpec == Spec /\ ServerFairness
LiveSpec == FairSpec /\ ClientFairness

-----------------------------------------------------------------------------
(* Properties *)

ConnectionType ==
    [tcpSocket : Fds, routed : {None} \union Addresses, active : BOOLEAN,
     timeout : BOOLEAN, disabled : BOOLEAN, idle : BOOLEAN, threads : Nat]

ReplyType == [for : Clients, kind : Kinds, address : Addresses]

(* The type invariant. *)
TypeOK ==
    /\ conf \in Configurations
    /\ pc \in ServerSteps /\ tpc \in TimerSteps
    /\ connection \in ConnectionType
    /\ accepted \in Fds /\ victim \in Fds
    /\ from \in Clients \union {None} /\ receiving \in Clients \union {None}
    /\ msg \in Messages \union {None}
    /\ receiving # None <=> pc \in {"header wait", "payload wait"}
    /\ fds \in [Fds -> Clients \union {"stdin", "free", "reserved"}]
    /\ backlog \in Seq(Clients)
    /\ client \in [Clients -> {"idle", "open", "closed"}]
    /\ toSend \in [Clients -> Seq(Messages \union {Receive})]
    /\ stream \in [Clients -> Seq(Messages)]
    /\ inbox \in [Clients -> Seq(Kinds)]
    /\ halfSent \subseteq Clients /\ reset \subseteq Clients
    /\ replies \subseteq ReplyType

(* ~AliveCheckTimer joins timerThreads.at(0) and no other: a second thread  *)
(* of one timer would outlive its object.                                  *)
OneTimerThread == connection.threads <= 1

(* Descriptor 0 is what the process was started with.  Once the timer has   *)
(* closed it, it stays closed or belongs to a client.                       *)
StandardInputOpen == fds[0] = "stdin"

(* No timer, or one that has not closed descriptor 0. *)
Undisturbed == InactivityTime = 0 \/ StandardInputOpen

(* User data reaches the application only from an address which that same   *)
(* client activated on that same connection, whatever was registered on the *)
(* connections before it, as long as the timer has not closed descriptor 0. *)
(* After that a third client's payload is read through the socket number 0  *)
(* of a connection whose timer has expired, and passes for the second one's. *)
DeliveredWasActivated ==
    Undisturbed => \A r \in replies : r.kind = "data" =>
        \E q \in replies : q.kind = "activated" /\ q.for = r.for /\ q.address = r.address

Denied(c)  == \E r \in replies : r.for = c /\ r.kind = "denied"
Refused(c) == \E r \in replies : r.for = c /\ r.kind \in {"fatal nack", "denied"}

(* A client whose activation was denied is never read from again: not by    *)
(* this connection, not by a later one, and not through a descriptor number *)
(* that was given away twice.  The response decides whether the server      *)
(* receives the later messages of that client.                             *)
DeniedStaysDenied ==
    [][\A c \in Clients : Denied(c) /\ stream'[c] # stream[c] =>
           Len(stream'[c]) > Len(stream[c])]_vars

(* waitForResponse has found that the time is over, and is on its way to    *)
(* the callback.                                                           *)
Expiring == tpc \in {"expire", "read", "close", "clear", "callback"}

(* The join in ~AliveCheckTimer ends: with its return, unless the timer was *)
(* expiring when `disabled` was set, and then with that or with the crash   *)
(* of a callback that is called after its destruction.                     *)
JoinReturns ==
    /\ pc = "join" ~> pc \in {"loop", "crashed"}
    /\ pc = "join" /\ ~Expiring ~> pc = "loop"

(* close releases what accept took: no client's socket is left open when    *)
(* the server turns to the next one, as long as the timer has not closed 0. *)
NothingLeftOpen ==
    Undisturbed /\ pc \in {"accept", "accepting"} => \A fd \in Fds : ~IsClient(fd)

(* Without a timeout, every client that waits in the backlog is served      *)
(* until its program has sent everything and received every reply it waits  *)
(* for, or was refused: client and server never wait for each other, and no *)
(* reply is taken for a part of another.                                    *)
EverySessionEnds ==
    \A c \in Clients : Patient /\ InBacklog(c) ~>
        client[c] = "closed" /\ (toSend[c] = <<>> \/ Refused(c))

-----------------------------------------------------------------------------
(* What the document says, and the code does not do *)

(* After waitForTcpConnection the socket is ready to receive: its number is *)
(* not the one isSocketActive takes for "closed".                          *)
SocketReady == fds[0] \notin Clients

(* A timeout ends the connection of the client that stayed silent. *)
TimeoutDisconnects ==
    \A c \in Clients : connection.timeout /\ receiving = c ~> ~Connected(c)
=============================================================================
