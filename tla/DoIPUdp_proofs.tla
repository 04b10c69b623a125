---------------------------- MODULE DoIPUdp_proofs ----------------------------
(***************************************************************************)
(* Theorems about DoIPUdp, for any number of testers, any datagrams, and    *)
(* any number of them and of announcements.                                 *)
(***************************************************************************)
EXTENDS DoIPUdp, SequenceTheorems, TLAPS

-----------------------------------------------------------------------------
(* Headers *)

(* The four bytes hold every length below 2^32. *)
LEMMA LengthSurvives ==
    ASSUME NEW n \in Nat, n < 4294967296
    PROVE  LengthOf(WireLength(n)) = n
<1> DEFINE a == n \div 256
<1> DEFINE b == a \div 256
<1> DEFINE c == b \div 256
<1>1. a \in Nat /\ n = a * 256 + (n % 256)
  BY SMT
<1>2. b \in Nat /\ a = b * 256 + (a % 256)
  <2> HIDE DEF a
  <2> QED
    BY <1>1, SMT
<1>3. c \in Nat /\ b = c * 256 + (b % 256)
  <2> HIDE DEF b
  <2> QED
    BY <1>2, SMT
<1>4. n \div 65536 = b /\ n \div 16777216 = c
  BY SMT
<1>5. c % 256 = c
  <2>1. c < 256
    BY SMT
  <2> HIDE DEF c
  <2> QED
    BY <2>1, <1>3, SMT
<1>6. LengthOf(WireLength(n)) = (c % 256) * 16777216 + (b % 256) * 65536 + (a % 256) * 256 + (n % 256)
  <2> HIDE DEF b, c
  <2> QED
    BY <1>4, SMT DEF LengthOf, WireLength
<1> HIDE DEF a, b, c
<1> QED
  BY <1>1, <1>2, <1>3, <1>5, <1>6, SMT

LEMMA TypeOfCode ==
    ASSUME NEW code \in Nat
    PROVE  /\ PayloadTypeOf(code) # "NEGATIVEACK"
           /\ PayloadTypeOf(code) = Unknown <=>
                 code \notin {1, 4, 5, 6, 7, 8, 32769, 32770, 32771}
BY SMT DEF PayloadTypeOf, Unknown

(* What a client reads from the two headers this server makes. *)
NackHeader     == createGenericHeader("NEGATIVEACK", NACKLength, 0)
ResponseHeader == createGenericHeader("VEHICLEIDENTRESPONSE", VIResponseLength, 0)

LEMMA NackRead ==
    ASSUME NEW a
    PROVE  parseGenericHeader(NackHeader, GenericHeaderLength + LengthOf(NackHeader.length), a).type
               = "NEGATIVEACK"
<1>1. /\ NackHeader.version = 2 /\ NackHeader.inverse = 253 /\ NackHeader.code = 0
      /\ NackHeader.length = WireLength(1)
  BY DEF NackHeader, createGenericHeader, Created, CodeOf, PayloadTypes, NACKLength
<1>2. LengthOf(NackHeader.length) = 1
  BY <1>1, LengthSurvives
<1>3. PayloadTypeOf(0) = Unknown
  BY TypeOfCode
<1>4. ~(GenericHeaderLength + LengthOf(NackHeader.length) < GenericHeaderLength)
  BY <1>2 DEF GenericHeaderLength
<1>5. NackHeader.inverse = 255 - NackHeader.version
  BY <1>1
<1> QED
  BY <1>1, <1>3, <1>4, <1>5 DEF parseGenericHeader

LEMMA ResponseRead ==
    ASSUME NEW a
    PROVE  LET r == parseGenericHeader(ResponseHeader,
                        GenericHeaderLength + LengthOf(ResponseHeader.length), a)
           IN  r.type = "VEHICLEIDENTRESPONSE" /\ r.payloadLength = VIResponseLength
<1>1. /\ ResponseHeader.version = 2 /\ ResponseHeader.inverse = 253 /\ ResponseHeader.code = 4
      /\ ResponseHeader.length = WireLength(32)
  BY DEF ResponseHeader, createGenericHeader, Created, CodeOf, PayloadTypes, VIResponseLength
<1>2. LengthOf(ResponseHeader.length) = 32
  BY <1>1, LengthSurvives
<1>3. PayloadTypeOf(4) = "VEHICLEIDENTRESPONSE" /\ "VEHICLEIDENTRESPONSE" # Unknown
  BY DEF PayloadTypeOf, Unknown
<1>4. LegalLength("VEHICLEIDENTRESPONSE", 32)
  BY DEF LegalLength
<1>5. ~(GenericHeaderLength + LengthOf(ResponseHeader.length) < GenericHeaderLength)
  BY <1>2 DEF GenericHeaderLength
<1>6. ResponseHeader.inverse = 255 - ResponseHeader.version
  BY <1>1
<1> QED
  BY <1>1, <1>2, <1>3, <1>4, <1>5, <1>6 DEF parseGenericHeader, VIResponseLength

LEMMA FieldsTyped ==
    ASSUME NEW d \in HeaderFields
    PROVE  d.version \in Int /\ d.inverse \in Int /\ d.code \in Nat
<1>1. d.version \in Byte /\ d.inverse \in Byte /\ d.code \in Nat
  BY SMT DEF HeaderFields
<1> QED
  BY <1>1, SMT DEF Byte

(* A NACK for a whole header names its first fault. *)
LEMMA FaultFound ==
    ASSUME NEW d \in HeaderFields, NEW length \in Nat, length >= GenericHeaderLength, NEW a,
           parseGenericHeader(d, length, a).type = "NEGATIVEACK"
    PROVE  /\ parseGenericHeader(d, length, a).value = FirstFault(d)
           /\ \/ d.version + d.inverse # 255
              \/ PayloadTypeOf(d.code) = Unknown
              \/ ~LegalLength(PayloadTypeOf(d.code), LengthOf(d.length))
<1> DEFINE n == LengthOf(d.length)
<1> DEFINE type == PayloadTypeOf(d.code)
<1>1. d.version \in Int /\ d.inverse \in Int /\ d.code \in Nat
  BY FieldsTyped
<1>2. /\ type # "NEGATIVEACK"
      /\ type = Unknown <=> d.code \notin {1, 4, 5, 6, 7, 8, 32769, 32770, 32771}
  BY <1>1, TypeOfCode
<1>3. d.inverse # 255 - d.version <=> d.version + d.inverse # 255
  BY <1>1
<1>4. ~(length < GenericHeaderLength)
  BY DEF GenericHeaderLength
<1>5. CASE d.inverse # 255 - d.version
  <2>1. parseGenericHeader(d, length, a).value = IncorrectPatternFormatCode
    BY <1>4, <1>5, Zenon DEF parseGenericHeader
  <2>2. FirstFault(d) = IncorrectPatternFormatCode
    BY <1>3, <1>5, SMT DEF FirstFault
  <2> QED
    BY <1>3, <1>5, <2>1, <2>2
<1>6. CASE d.inverse = 255 - d.version /\ type = Unknown
  <2>1. parseGenericHeader(d, length, a).value = UnknownPayloadTypeCode
    BY <1>4, <1>6, Zenon DEF parseGenericHeader
  <2>2. FirstFault(d) = UnknownPayloadTypeCode
    BY <1>2, <1>3, <1>6 DEF FirstFault
  <2> QED
    BY <1>6, <2>1, <2>2
<1>7. CASE d.inverse = 255 - d.version /\ type # Unknown
  <2>1. FirstFault(d) = InvalidPayloadLengthCode
    BY <1>2, <1>3, <1>7 DEF FirstFault
  <2>2. CASE ~LegalLength(type, n) /\ type \notin FallsThrough
    <3>1. parseGenericHeader(d, length, a).value = InvalidPayloadLengthCode
      BY <1>4, <1>7, <2>2, Zenon DEF parseGenericHeader
    <3> QED
      BY <2>1, <2>2, <3>1
  <2>3. CASE ~(~LegalLength(type, n) /\ type \notin FallsThrough)
    <3>1. parseGenericHeader(d, length, a).type = type
      BY <1>4, <1>7, <2>3, Zenon DEF parseGenericHeader
    <3> QED
      BY <1>2, <3>1
  <2> QED
    BY <2>2, <2>3
<1> QED
  BY <1>5, <1>6, <1>7

-----------------------------------------------------------------------------
(* The inductive invariant *)

USE DoIPUdpAssumption

Queued == [id : Nat, source : Testers, data : HeaderFields, length : Nat]

(* What waits at the socket is a datagram a tester sent, and what the       *)
(* listener works on is one of them.                                        *)
DatagramsTyped ==
    /\ socket \in Seq(Queued)
    /\ upc # "recvfrom" => data \in Queued /\ serverAddress = data.source

IsNack(message, d) ==
    /\ message.kind = "nack" /\ message.header = NackHeader
    /\ d.length >= GenericHeaderLength => ~Usable(d) /\ message.value = FirstFault(d.data)

IsResponse(message, kinds) == message.kind \in kinds /\ message.header = ResponseHeader

IsReply(message, d) == IsNack(message, d) \/ IsResponse(message, {"identification"})

(* The reply that is being sent is one to the datagram in the buffer.       *)
ReplyMade == upc \in {"port", "addr", "sendto"} => IsReply(reply, data)

SentMade ==
    \A m \in sent : IsReply(m.message, m.for) \/ IsResponse(m.message, {"announcement"})

IInv == TypeOK /\ DatagramsTyped /\ ReplyMade /\ SentMade

(* Whatever is made of a datagram is a reply to it. *)
LEMMA ReplyIsMade ==
    ASSUME NEW d \in Queued, NEW a,
           NEW r, r = ReplyTo(parseGenericHeader(d.data, d.length, a)), r # None
    PROVE  IsReply(r, d)
<1> DEFINE action == parseGenericHeader(d.data, d.length, a)
<1>1. d.data \in HeaderFields /\ d.length \in Nat
  BY SMT DEF Queued
<1>2. CASE action.type = "NEGATIVEACK"
  <2>1. r = Nack(action.value)
    BY <1>2 DEF ReplyTo
  <2>2. r.kind = "nack" /\ r.value = action.value /\ r.header = NackHeader
    BY <2>1 DEF Nack, NackHeader
  <2>3. ASSUME d.length >= GenericHeaderLength
        PROVE  ~Usable(d) /\ r.value = FirstFault(d.data)
    <3>1. /\ action.value = FirstFault(d.data)
          /\ \/ d.data.version + d.data.inverse # 255
             \/ PayloadTypeOf(d.data.code) = Unknown
             \/ ~LegalLength(PayloadTypeOf(d.data.code), LengthOf(d.data.length))
      BY <1>1, <1>2, <2>3, FaultFound
    <3> QED
      BY <2>2, <3>1, Zenon DEF Usable
  <2> QED
    BY <2>2, <2>3 DEF IsReply, IsNack
<1>3. CASE action.type # "NEGATIVEACK"
  <2>1. r = createVehicleIdentificationResponse("identification")
    BY <1>3 DEF ReplyTo
  <2> QED
    BY <2>1 DEF IsReply, IsResponse, createVehicleIdentificationResponse, ResponseHeader
<1> QED
  BY <1>2, <1>3

LEMMA Inductive == Spec => []IInv
<1>1. Init => IInv
  <2> SUFFICES ASSUME Init PROVE IInv
    OBVIOUS
  <2>1. TypeOK
    BY DEF Init, TypeOK, Ports, Addresses
  <2>2. socket \in Seq(Queued)
    BY EmptySeq DEF Init
  <2> QED
    BY <2>1, <2>2 DEF Init, IInv, DatagramsTyped, ReplyMade, SentMade
<1>2. IInv /\ [Next]_vars => IInv'
  <2> SUFFICES ASSUME IInv, [Next]_vars PROVE IInv'
    OBVIOUS
  <2> USE DEF IInv
  <2>0. CASE UNCHANGED vars
    BY <2>0 DEF vars, listener, main, TypeOK, DatagramsTyped, ReplyMade, SentMade
  <2>1. CASE Arrive
    <3>1. PICK t \in Testers, d \in Datagrams :
              /\ arrived < MaxDatagrams /\ arrived' = arrived + 1
              /\ socket' = Append(socket, [id |-> arrived', source |-> t, data |-> d.data,
                                          length |-> d.length])
      BY <2>1 DEF Arrive
    <3>2. UNCHANGED <<upc, serverAddress, data, reply, mpc, i, port, addr, sent>>
      BY <2>1 DEF Arrive, listener, main
    <3>3. TypeOK'
      BY <3>1, <3>2 DEF TypeOK
    <3>4. socket' \in Seq(Queued)
      <4>1. arrived' \in Nat
        BY <3>1, <3>3 DEF TypeOK
      <4>2. [id |-> arrived', source |-> t, data |-> d.data, length |-> d.length] \in Queued
        BY <4>1 DEF Queued
      <4> QED
        BY <3>1, <4>2, AppendProperties DEF DatagramsTyped
    <3> QED
      BY <3>2, <3>3, <3>4 DEF DatagramsTyped, ReplyMade, SentMade
  <2>2. CASE receiveUdpMessage
    <3>1. Head(socket) \in Queued /\ Tail(socket) \in Seq(Queued)
      BY <2>2, HeadTailProperties DEF receiveUdpMessage, DatagramsTyped
    <3>2. Head(socket).source \in Testers
      BY <3>1, SMT DEF Queued
    <3>3. TypeOK'
      BY <2>2, <3>2 DEF receiveUdpMessage, main, TypeOK
    <3> QED
      BY <2>2, <3>1, <3>3 DEF receiveUdpMessage, main, DatagramsTyped, ReplyMade, SentMade
  <2>3. CASE reactToReceivedUdpMessage
    <3>1. PICK a \in Indeterminate : reply' = ReplyTo(parseGenericHeader(data.data, data.length, a))
      BY <2>3 DEF reactToReceivedUdpMessage
    <3>2. data \in Queued
      BY <2>3 DEF reactToReceivedUdpMessage, DatagramsTyped
    <3>3. reply' # None => IsReply(reply', data)
      BY <3>1, <3>2, ReplyIsMade
    <3>4. (reply' = None \/ reply'.kind \in {"nack", "identification"})
      BY <3>3 DEF IsReply, IsNack, IsResponse
    <3>5. TypeOK'
      BY <2>3, <3>4 DEF reactToReceivedUdpMessage, main, TypeOK
    <3>6. ReplyMade'
      BY <2>3, <3>3 DEF reactToReceivedUdpMessage, ReplyMade
    <3>7. DatagramsTyped' /\ SentMade'
      BY <2>3 DEF reactToReceivedUdpMessage, main, DatagramsTyped, SentMade
    <3> QED
      BY <3>5, <3>6, <3>7
  <2>4. CASE CopyPort
    BY <2>4 DEF CopyPort, main, TypeOK, Ports, DatagramsTyped, ReplyMade, SentMade
  <2>5. CASE CopyAddress
    BY <2>5 DEF CopyAddress, main, TypeOK, Addresses, DatagramsTyped, ReplyMade, SentMade
  <2>6. CASE SendReply
    <3>1. IsReply(reply, data)
      BY <2>6 DEF SendReply, ReplyMade
    <3>2. Datagram(reply, data).message = reply /\ Datagram(reply, data).for = data
      BY DEF Datagram
    <3>3. SentMade'
      BY <2>6, <3>1, <3>2 DEF SendReply, SentMade
    <3>4. TypeOK' /\ DatagramsTyped' /\ ReplyMade'
      BY <2>6 DEF SendReply, main, TypeOK, DatagramsTyped, ReplyMade
    <3> QED
      BY <3>3, <3>4
  <2>7. CASE BroadcastPort
    BY <2>7 DEF BroadcastPort, listener, TypeOK, Ports, DatagramsTyped, ReplyMade, SentMade
  <2>8. CASE BroadcastAddress
    BY <2>8 DEF BroadcastAddress, listener, TypeOK, Addresses, DatagramsTyped, ReplyMade, SentMade
  <2>9. CASE Announce
    <3> DEFINE m == Datagram(createVehicleIdentificationResponse("announcement"), i)
    <3>1. IsResponse(m.message, {"announcement"})
      BY DEF Datagram, IsResponse, createVehicleIdentificationResponse, ResponseHeader
    <3>2. SentMade'
      BY <2>9, <3>1 DEF Announce, SentMade
    <3>3. TypeOK' /\ DatagramsTyped' /\ ReplyMade'
      BY <2>9 DEF Announce, listener, TypeOK, DatagramsTyped, ReplyMade
    <3> QED
      BY <3>2, <3>3
  <2>10. CASE AnnounceEnds
    BY <2>10 DEF AnnounceEnds, listener, TypeOK, DatagramsTyped, ReplyMade, SentMade
  <2> QED
    BY <2>0, <2>1, <2>2, <2>3, <2>4, <2>5, <2>6, <2>7, <2>8, <2>9, <2>10
       DEF Next, listenUdp, sendVehicleAnnouncement
<1> QED
  BY <1>1, <1>2, PTL DEF Spec

-----------------------------------------------------------------------------
(* The theorems *)

(* The two threads stay inside their states, and the fields they share hold *)
(* a tester or what the announcements put there.                            *)
THEOREM TypeCorrect == Spec => []TypeOK
<1>1. IInv => TypeOK
  BY DEF IInv
<1> QED
  BY <1>1, Inductive, PTL

(* parseGenericHeader and reactToReceivedUdpMessage: a NACK for a datagram  *)
(* with a whole header names the first fault of that header, and no         *)
(* datagram without one is answered by a NACK.                              *)
THEOREM NacksNameTheFirstFault == Spec => []NackNamesFirstFault
<1>1. IInv => NackNamesFirstFault
  BY DEF IInv, SentMade, IsReply, IsNack, IsResponse, NackNamesFirstFault, Replies
<1> QED
  BY <1>1, Inductive, PTL

(* createGenericHeader against the parseGenericHeader of a client: whatever *)
(* this server sends is read as what it is, with its length.                *)
THEOREM ClientsReadEveryMessage == Spec => []ClientsUnderstand
<1>1. IInv => ClientsUnderstand
  <2> SUFFICES ASSUME IInv, NEW m \in sent
               PROVE  LET action == ReadByClient(m)
                      IN  IF m.message.kind = "nack" THEN action.type = "NEGATIVEACK"
                          ELSE /\ action.type = "VEHICLEIDENTRESPONSE"
                               /\ action.payloadLength = VIResponseLength
    BY DEF ClientsUnderstand
  <2>1. IsReply(m.message, m.for) \/ IsResponse(m.message, {"announcement"})
    BY DEF IInv, SentMade
  <2>2. CASE m.message.kind = "nack" /\ m.message.header = NackHeader
    BY <2>2, NackRead DEF ReadByClient
  <2>3. CASE m.message.kind # "nack" /\ m.message.header = ResponseHeader
    BY <2>3, ResponseRead DEF ReadByClient
  <2> QED
    BY <2>1, <2>2, <2>3 DEF IsReply, IsNack, IsResponse
<1> QED
  BY <1>1, Inductive, PTL

-----------------------------------------------------------------------------
(* The addresses *)

(* When no datagram arrives before the last announcement, the fields of     *)
(* clientAddress have one writer at a time.                                 *)
OneWriter ==
    /\ mpc # "done" => arrived = 0 /\ socket = <<>> /\ upc = "recvfrom"
    /\ mpc \in {"addr", "loop"} => port = 13401
    /\ mpc = "loop" => addr = "broadcast"
    /\ upc \in {"addr", "sendto"} => port = serverAddress
    /\ upc = "sendto" => addr = serverAddress

(* The comment on sendUdpMessage, for a program whose testers wait for the  *)
(* announcements: every reply goes to the sender of the datagram it answers *)
(* and every announcement to the broadcast address.                         *)
THEOREM EachIsSentToItsAddress ==
    ASSUME Quiet
    PROVE  Spec => []EachToItsAddress
<1>1. Init => OneWriter /\ EachToItsAddress
  BY DEF Init, OneWriter, EachToItsAddress, ReplyGoesToSender, AnnouncementsAreBroadcast,
         Replies, Announcements
<1>2. IInv /\ OneWriter /\ EachToItsAddress /\ [Next]_vars
          => (OneWriter /\ EachToItsAddress)'
  <2> SUFFICES ASSUME IInv, OneWriter, EachToItsAddress, [Next]_vars
               PROVE  (OneWriter /\ EachToItsAddress)'
    OBVIOUS
  <2>1. ASSUME sent' = sent PROVE EachToItsAddress'
    BY <2>1 DEF EachToItsAddress, ReplyGoesToSender, AnnouncementsAreBroadcast, Replies, Announcements
  <2>2. CASE UNCHANGED vars
    BY <2>1, <2>2 DEF vars, listener, main, OneWriter
  <2>3. CASE Arrive
    BY <2>1, <2>3 DEF Arrive, listener, main, OneWriter
  <2>4. CASE receiveUdpMessage
    BY <2>1, <2>4 DEF receiveUdpMessage, main, OneWriter
  <2>5. CASE reactToReceivedUdpMessage
    BY <2>1, <2>5 DEF reactToReceivedUdpMessage, main, OneWriter
  <2>6. CASE CopyPort
    BY <2>1, <2>6 DEF CopyPort, main, OneWriter, IInv, TypeOK
  <2>7. CASE CopyAddress
    BY <2>1, <2>7 DEF CopyAddress, main, OneWriter, IInv, TypeOK
  <2>8. CASE SendReply
    <3>1. /\ Datagram(reply, data).message = reply /\ Datagram(reply, data).for = data
          /\ Datagram(reply, data).port = port /\ Datagram(reply, data).addr = addr
      BY DEF Datagram
    <3>2. port = data.source /\ addr = data.source
      BY <2>8 DEF SendReply, OneWriter, IInv, DatagramsTyped
    <3>3. reply.kind # "announcement"
      BY <2>8 DEF SendReply, IInv, ReplyMade, IsReply, IsNack, IsResponse
    <3>4. EachToItsAddress'
      BY <2>8, <3>1, <3>2, <3>3 DEF SendReply, EachToItsAddress, ReplyGoesToSender,
                                    AnnouncementsAreBroadcast, Replies, Announcements
    <3> QED
      BY <2>8, <3>4 DEF SendReply, main, OneWriter
  <2>9. CASE BroadcastPort
    BY <2>1, <2>9 DEF BroadcastPort, listener, OneWriter
  <2>10. CASE BroadcastAddress
    BY <2>1, <2>10 DEF BroadcastAddress, listener, OneWriter
  <2>11. CASE Announce
    <3> DEFINE m == Datagram(createVehicleIdentificationResponse("announcement"), i)
    <3>1. m.message.kind = "announcement" /\ m.port = port /\ m.addr = addr
      BY DEF Datagram, createVehicleIdentificationResponse
    <3>2. port = 13401 /\ addr = "broadcast"
      BY <2>11 DEF Announce, OneWriter
    <3>3. sent' = sent \union {m}
      BY <2>11 DEF Announce
    <3> HIDE DEF m
    <3>4. EachToItsAddress'
      BY <3>1, <3>2, <3>3 DEF EachToItsAddress, ReplyGoesToSender,
                              AnnouncementsAreBroadcast, Replies, Announcements
    <3> QED
      BY <2>11, <3>4 DEF Announce, listener, OneWriter
  <2>12. CASE AnnounceEnds
    BY <2>1, <2>12 DEF AnnounceEnds, listener, OneWriter
  <2> QED
    BY <2>2, <2>3, <2>4, <2>5, <2>6, <2>7, <2>8, <2>9, <2>10, <2>11, <2>12
       DEF Next, listenUdp, sendVehicleAnnouncement
<1> QED
  BY <1>1, <1>2, Inductive, PTL DEF Spec
=============================================================================
