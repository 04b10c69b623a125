------------------------------ MODULE DoIPUdp -------------------------------
(***************************************************************************)
(* libdoip/hello: the UDP side of DoIPServer as DoIPSimulator::Run starts   *)
(* it.  The listenUdp thread receives datagrams and answers them while the  *)
(* main thread sends the vehicle announcements, two seconds after the start. *)
(* Both use the member clientAddress, without a lock, field by field.       *)
(***************************************************************************)
EXTENDS DoIPMessage, SequencesExt

CONSTANTS Testers,              \* hosts that send datagrams
          Datagrams,            \* what they may send: header fields and length
          MaxDatagrams,         \* bound: datagrams that arrive in one behaviour
          A_DoIP_Announce_Num,
          Quiet,                \* no datagram arrives before the last announcement
          None

ASSUME DoIPUdpAssumption ==
    /\ IsFiniteSet(Testers) /\ None \notin Testers
    /\ \A d \in Datagrams : d.data \in HeaderFields /\ d.length \in Nat
    /\ MaxDatagrams \in Nat /\ A_DoIP_Announce_Num \in Nat /\ Quiet \in BOOLEAN

VARIABLES
    upc,            \* where listenUdp is
    serverAddress,  \* who sent the last datagram
    data,           \* the datagram in the buffer
    reply,          \* the message to send: None or its kind, header and NACK code
    mpc,            \* where the main thread is
    i,              \* announcements sent
    port, addr,     \* the two fields of clientAddress
    socket,         \* datagrams queued at the socket, numbered as they arrive
    arrived,        \* how many datagrams arrived
    sent            \* history: every sendto

listener == <<upc, serverAddress, data, reply>>
main     == <<mpc, i>>
vars     == <<listener, main, port, addr, socket, arrived, sent>>

(* Every tester sends from a port of its own, named like the tester. *)
Ports     == Testers \union {13401, None}
Addresses == Testers \union {"broadcast", None}

-----------------------------------------------------------------------------
Arrive ==
    \E t \in Testers, d \in Datagrams :
        /\ arrived < MaxDatagrams
        /\ Quiet => mpc = "done"
        /\ arrived' = arrived + 1
        /\ socket' = Append(socket, [id |-> arrived', source |-> t, data |-> d.data,
                                     length |-> d.length])
        /\ UNCHANGED <<listener, main, port, addr, sent>>

receiveUdpMessage ==
    /\ upc = "recvfrom"
    /\ socket # <<>>
    /\ data' = Head(socket)
    /\ serverAddress' = Head(socket).source
    /\ socket' = Tail(socket)
    /\ upc' = "react"
    /\ UNCHANGED <<reply, main, port, addr, arrived, sent>>

(* A datagram too short for a header leaves the action as it was on the     *)
(* stack.                                                                   *)
Indeterminate ==
    [type : {"NEGATIVEACK", "VEHICLEIDENTREQUEST", Unknown}, value : {2}, payloadLength : {0}]

VIResponseLength == 32
NACKLength == 1

Nack(value) ==
    [kind |-> "nack", value |-> value, header |-> createGenericHeader("NEGATIVEACK", NACKLength, 0)]

createVehicleIdentificationResponse(kind) ==
    [kind |-> kind, value |-> None,
     header |-> createGenericHeader("VEHICLEIDENTRESPONSE", VIResponseLength, 0)]

(* mutant: an announcement is answered like an unusable message *)
ReplyTo_EveryType(action) ==
    IF action.type = "VEHICLEIDENTREQUEST" THEN createVehicleIdentificationResponse("identification")
    ELSE Nack(action.value)

ReplyTo(action) ==
    CASE action.type = "NEGATIVEACK"         -> Nack(action.value)
      [] action.type = "VEHICLEIDENTREQUEST" -> createVehicleIdentificationResponse("identification")
      [] OTHER                               -> None

reactToReceivedUdpMessage ==
    /\ upc = "react"
    /\ \E a \in Indeterminate :
          reply' = ReplyTo(parseGenericHeader(data.data, data.length, a))
    /\ upc' = IF reply' = None THEN "recvfrom" ELSE "port"
    /\ UNCHANGED <<serverAddress, data, main, port, addr, socket, arrived, sent>>

-----------------------------------------------------------------------------
(* sendUdpMessage *)

CopyPort ==
    /\ upc = "port"
    /\ port' = serverAddress
    /\ upc' = "addr"
    /\ UNCHANGED <<serverAddress, data, reply, main, addr, socket, arrived, sent>>

(* mutant: the address of the datagram is not copied *)
CopyAddress_Kept ==
    /\ upc = "addr"
    /\ upc' = "sendto"
    /\ UNCHANGED <<serverAddress, data, reply, main, port, addr, socket, arrived, sent>>

CopyAddress ==
    /\ upc = "addr"
    /\ addr' = serverAddress
    /\ upc' = "sendto"
    /\ UNCHANGED <<serverAddress, data, reply, main, port, socket, arrived, sent>>

Datagram(message, for) ==
    [message |-> message, for |-> for, port |-> port, addr |-> addr]

(* mutant: the thread ends after its first reply *)
SendReply_Last ==
    /\ upc = "sendto"
    /\ sent' = sent \union {Datagram(reply, data)}
    /\ upc' = "done"
    /\ UNCHANGED <<serverAddress, data, reply, main, port, addr, socket, arrived>>

SendReply ==
    /\ upc = "sendto"
    /\ sent' = sent \union {Datagram(reply, data)}
    /\ upc' = "recvfrom"
    /\ UNCHANGED <<serverAddress, data, reply, main, port, addr, socket, arrived>>

-----------------------------------------------------------------------------
(* sendVehicleAnnouncement, by the main thread *)

BroadcastPort ==
    /\ mpc = "port"
    /\ port' = 13401
    /\ mpc' = "addr"
    /\ UNCHANGED <<listener, i, addr, socket, arrived, sent>>

(* mutant: only the port is set *)
BroadcastAddress_Skipped ==
    /\ mpc = "addr"
    /\ mpc' = "loop"
    /\ UNCHANGED <<listener, i, port, addr, socket, arrived, sent>>

BroadcastAddress ==
    /\ mpc = "addr"
    /\ addr' = "broadcast"
    /\ mpc' = "loop"
    /\ UNCHANGED <<listener, i, port, socket, arrived, sent>>

(* mutant: one more *)
Announce_OneMore ==
    /\ mpc = "loop"
    /\ i <= A_DoIP_Announce_Num
    /\ sent' = sent \union {Datagram(createVehicleIdentificationResponse("announcement"), i)}
    /\ i' = i + 1
    /\ UNCHANGED <<mpc, listener, port, addr, socket, arrived>>

Announce ==
    /\ mpc = "loop"
    /\ i < A_DoIP_Announce_Num
    /\ sent' = sent \union {Datagram(createVehicleIdentificationResponse("announcement"), i)}
    /\ i' = i + 1
    /\ UNCHANGED <<mpc, listener, port, addr, socket, arrived>>

AnnounceEnds ==
    /\ mpc = "loop"
    /\ i = A_DoIP_Announce_Num
    /\ mpc' = "done"
    /\ UNCHANGED <<listener, i, port, addr, socket, arrived, sent>>

-----------------------------------------------------------------------------
Init ==
    /\ upc = "recvfrom" /\ serverAddress = None /\ data = None /\ reply = None
    /\ mpc = "port" /\ i = 0
    /\ port = None /\ addr = None
    /\ socket = <<>> /\ arrived = 0
    /\ sent = {}

listenUdp == receiveUdpMessage \/ reactToReceivedUdpMessage
             \/ CopyPort \/ CopyAddress \/ SendReply

sendVehicleAnnouncement == BroadcastPort \/ BroadcastAddress \/ Announce \/ AnnounceEnds

Next == Arrive \/ listenUdp \/ sendVehicleAnnouncement

Spec == Init /\ [][Next]_vars

(* Both threads are scheduled; nothing obliges a datagram to arrive. *)
FairSpec == Spec /\ WF_vars(listenUdp) /\ WF_vars(sendVehicleAnnouncement)

-----------------------------------------------------------------------------
(* Properties *)

TypeOK ==
    /\ upc \in {"recvfrom", "react", "port", "addr", "sendto"}
    /\ mpc \in {"port", "addr", "loop", "done"}
    /\ serverAddress \in Testers \union {None}
    /\ reply = None \/ reply.kind \in {"nack", "identification"}
    /\ port \in Ports /\ addr \in Addresses
    /\ i \in 0..A_DoIP_Announce_Num /\ arrived \in 0..MaxDatagrams

Replies       == {m \in sent : m.message.kind # "announcement"}
Announcements == {m \in sent : m.message.kind = "announcement"}

(* The comment on sendUdpMessage: the response goes back to the address and *)
(* the port of the client whose message it answers.                        *)
ReplyGoesToSender == \A m \in Replies : m.port = m.for.source /\ m.addr = m.for.source

(* Every announcement goes to port 13401 of the broadcast address. *)
AnnouncementsAreBroadcast ==
    \A m \in Announcements : m.port = 13401 /\ m.addr = "broadcast"

(* No datagram is sent with the fields the other thread has set. *)
EachToItsAddress == ReplyGoesToSender /\ AnnouncementsAreBroadcast

Usable(d) ==
    /\ d.length >= GenericHeaderLength
    /\ d.data.version + d.data.inverse = 255
    /\ PayloadTypeOf(d.data.code) # Unknown
    /\ LegalLength(PayloadTypeOf(d.data.code), LengthOf(d.data.length))

(* The header tests (DoIPGenericHeaderHandler_Test.cpp): of several faults   *)
(* in a datagram the NACK names the first, a wrong version pattern before   *)
(* an unknown type and that before a wrong length, whatever the             *)
(* uninitialised result held.  The announcement of another server has no    *)
(* fault, and no NACK answers it.                                           *)
FirstFault(d) ==
    IF d.version + d.inverse # 255 THEN IncorrectPatternFormatCode
    ELSE IF d.code \notin {1, 4, 5, 6, 7, 8, 32769, 32770, 32771} THEN UnknownPayloadTypeCode
    ELSE InvalidPayloadLengthCode

NackNamesFirstFault ==
    \A m \in Replies :
        m.message.kind = "nack" /\ m.for.length >= GenericHeaderLength =>
            ~Usable(m.for) /\ m.message.value = FirstFault(m.for.data)

(* What a DoIPClient makes of a datagram of this server, in receiveUdpMessage. *)
ReadByClient(m) ==
    parseGenericHeader(m.message.header, GenericHeaderLength + LengthOf(m.message.header.length),
                       [type |-> Unknown, value |-> 0, payloadLength |-> 0])

(* A client takes identifications and announcements, and nothing else, for  *)
(* vehicle identification responses, of the length it goes on to read.      *)
ClientsUnderstand ==
    \A m \in sent :
        LET action == ReadByClient(m)
        IN  IF m.message.kind = "nack" THEN action.type = "NEGATIVEACK"
            ELSE action.type = "VEHICLEIDENTRESPONSE" /\ action.payloadLength = VIResponseLength

(* Every vehicle identification request that arrives is answered, and every *)
(* announcement is sent.                                                   *)
EveryRequestIsAnswered ==
    /\ \A n \in 1..MaxDatagrams :
          (\E d \in ToSet(socket) : d.id = n /\ Usable(d) /\ d.data.code = 1) ~>
              \E m \in Replies : m.for.id = n
    /\ <>[](Cardinality(Announcements) = A_DoIP_Announce_Num)
=============================================================================
