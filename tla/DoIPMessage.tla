---------------------------- MODULE DoIPMessage ----------------------------
(***************************************************************************)
(* libdoip/hello: what the handlers of libdoipcommon and libdoipserver     *)
(* make of a message.  A header is a record of its fields: two version     *)
(* bytes, the payload type code and the four bytes of the payload length.  *)
(***************************************************************************)
EXTENDS Integers

GenericHeaderLength == 8

(* NACK values of the generic header *)
IncorrectPatternFormatCode == 0
UnknownPayloadTypeCode == 1
InvalidPayloadLengthCode == 4

(* routing activation response codes *)
UnknownSourceAddressCode == 0
UnsupportedRoutingTypeCode == 6
SuccessfullyRoutedCode == 16

PayloadTypes == {"NEGATIVEACK", "ROUTINGACTIVATIONREQUEST", "ROUTINGACTIVATIONRESPONSE",
                 "VEHICLEIDENTREQUEST", "VEHICLEIDENTRESPONSE", "DIAGNOSTICMESSAGE",
                 "DIAGNOSTICPOSITIVEACK", "DIAGNOSTICNEGATIVEACK",
                 "ALIVECHECKRESPONSE", "ALIVECHECKREQUEST"}

Byte == 0..255

FourBytes == Byte \X Byte \X Byte \X Byte

HeaderFields == [version : Byte, inverse : Byte, code : Nat, length : FourBytes]

-----------------------------------------------------------------------------
(* The four length bytes, most significant first *)

LengthOf(bytes) == bytes[1] * 16777216 + bytes[2] * 65536 + bytes[3] * 256 + bytes[4]

(* mutant: the least significant byte first *)
WireLength_LowFirst(n) ==
    <<n % 256, (n \div 256) % 256, (n \div 65536) % 256, (n \div 16777216) % 256>>

WireLength(n) ==
    <<(n \div 16777216) % 256, (n \div 65536) % 256, (n \div 256) % 256, n % 256>>

-----------------------------------------------------------------------------
(* parseGenericHeader *)

Unknown == "unknown"

PayloadTypeOf(code) ==
    CASE code = 5      -> "ROUTINGACTIVATIONREQUEST"
      [] code = 6      -> "ROUTINGACTIVATIONRESPONSE"
      [] code = 4      -> "VEHICLEIDENTRESPONSE"
      [] code = 1      -> "VEHICLEIDENTREQUEST"
      [] code = 7      -> "ALIVECHECKREQUEST"
      [] code = 8      -> "ALIVECHECKRESPONSE"
      [] code = 32769 -> "DIAGNOSTICMESSAGE"
      [] code = 32770 -> "DIAGNOSTICPOSITIVEACK"
      [] code = 32771 -> "DIAGNOSTICNEGATIVEACK"
      [] OTHER         -> Unknown

LegalLength(type, n) ==
    CASE type = "ROUTINGACTIVATIONREQUEST"  -> n \in {7, 11}
      [] type = "ROUTINGACTIVATIONRESPONSE" -> n \in {9, 13}
      [] type \in {"ALIVECHECKREQUEST", "VEHICLEIDENTREQUEST"} -> n = 0
      [] type = "ALIVECHECKRESPONSE"        -> n = 2
      [] type = "VEHICLEIDENTRESPONSE"      -> n \in {32, 33}
      [] type = "DIAGNOSTICMESSAGE"         -> n > 4
      [] type \in {"DIAGNOSTICPOSITIVEACK", "DIAGNOSTICNEGATIVEACK"} -> n >= 5
      [] OTHER -> TRUE

(* The two cases that set type and value on a bad length but do not return: *)
(* the type is overwritten below the switch.                                *)
FallsThrough == {"DIAGNOSTICPOSITIVEACK", "DIAGNOSTICNEGATIVEACK"}

(* mutant: an unknown type is reported before a wrong version *)
parseGenericHeader_TypeFirst(data, dataLength, action) ==
    LET n     == LengthOf(data.length)
        type  == PayloadTypeOf(data.code)
        nack(value, length) ==
            [type |-> "NEGATIVEACK", value |-> value, payloadLength |-> length]
    IN  IF dataLength < GenericHeaderLength THEN action
        ELSE IF type = Unknown THEN nack(UnknownPayloadTypeCode, n)
        ELSE IF data.inverse # 255 - data.version THEN nack(IncorrectPatternFormatCode, 0)
        ELSE [type |-> type, payloadLength |-> n, value |-> action.value]

(* `action` is what the uninitialised local variable holds at its           *)
(* declaration: a field that no path assigns is returned as it was.         *)
parseGenericHeader(data, dataLength, action) ==
    LET n     == LengthOf(data.length)
        type  == PayloadTypeOf(data.code)
        legal == LegalLength(type, n)
        nack(value, length) ==
            [type |-> "NEGATIVEACK", value |-> value, payloadLength |-> length]
    IN  IF dataLength < GenericHeaderLength THEN action
        ELSE IF data.inverse # 255 - data.version THEN nack(IncorrectPatternFormatCode, 0)
        ELSE IF type = Unknown THEN nack(UnknownPayloadTypeCode, n)
        ELSE IF ~legal /\ type \notin FallsThrough THEN nack(InvalidPayloadLengthCode, n)
        ELSE [type |-> type, payloadLength |-> n,
              value |-> IF legal THEN action.value ELSE InvalidPayloadLengthCode]

-----------------------------------------------------------------------------
(* createGenericHeader *)

(* the payload types with a case of their own *)
Created == PayloadTypes \ {"ROUTINGACTIVATIONREQUEST", "VEHICLEIDENTREQUEST"}

CodeOf(type) ==
    CASE type = "ROUTINGACTIVATIONRESPONSE" -> 6
      [] type = "NEGATIVEACK"               -> 0
      [] type = "VEHICLEIDENTRESPONSE"      -> 4
      [] type = "DIAGNOSTICMESSAGE"         -> 32769
      [] type = "DIAGNOSTICPOSITIVEACK"     -> 32770
      [] type = "DIAGNOSTICNEGATIVEACK"     -> 32771
      [] type = "ALIVECHECKRESPONSE"        -> 8
      [] type = "ALIVECHECKREQUEST"         -> 7

(* `memory` is what new unsigned char[] returned: the default case leaves   *)
(* the two code bytes as they were.                                         *)
createGenericHeader(type, length, memory) ==
    [version |-> 2, inverse |-> 253, length |-> WireLength(length),
     code |-> IF type \in Created THEN CodeOf(type) ELSE memory]

-----------------------------------------------------------------------------
(* The payloads *)

checkSourceAddress(address) == address \in 3584..4095

parseRoutingActivation(payload) ==
    IF ~checkSourceAddress(payload.source) THEN UnknownSourceAddressCode
    ELSE IF payload.activation \notin {0, 1} THEN UnsupportedRoutingTypeCode
    ELSE SuccessfullyRoutedCode
=============================================================================
