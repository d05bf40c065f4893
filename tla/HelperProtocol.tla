---------------------------- MODULE HelperProtocol ----------------------------
(***************************************************************************)
(* The messages of the elevated helper, byte by byte: Validate, Encode,    *)
(* DecodeRequest and DecodeResponse.                                       *)
(*                                                                         *)
(* The state machine encodes a message, damages the bytes and decodes      *)
(* them.  A request identifier, an error code and a nonce are their bytes; *)
(* other numbers are values, and every value of 65536 and more is Large,   *)
(* which no range below admits.                                            *)
(***************************************************************************)
EXTENDS Integers, Sequences

CONSTANTS
  Messages,               \* messages that are encoded, valid or not
  DamageBytes,            \* bytes that take the place of others
  MaxDamages,             \* bound: changes of the bytes
  Damaged                 \* bound: messages that are damaged

Large == 65536
Byte == 0..255
Numbers == 0..Large

Requests ==
  [kind : {"request"}, id : [1..8 -> Byte], command : Numbers, timeout : Numbers,
   nonce : [1..32 -> Byte], name : Seq(Byte), token : Seq(Byte)]
Responses ==
  [kind : {"response"}, id : [1..8 -> Byte], status : Numbers, before : Numbers,
   after : Numbers, error : [1..4 -> Byte], nonce : [1..32 -> Byte], text : Seq(Byte)]

ASSUME ProtocolAssumption ==
  /\ Messages \subseteq Requests \cup Responses
  /\ DamageBytes \subseteq Byte
  /\ MaxDamages \in Nat
  /\ Damaged \subseteq Messages

Text == INSTANCE HelperText

MaximumMessageBytes == 2048
MaximumServiceNameBytes == 256
MaximumResponseTextBytes == 512
HeaderBytes == 12
Magic == <<87, 66, 80, 49>>
ProtocolVersion == 1
Kinds == [request |-> 1, response |-> 2]
CommandValues == 1..2
TimeoutValues == 1000..30000
StatusValues == 1..4
WireStates == 0..7

Rejected == [kind |-> "rejected"]

VARIABLES
  message,                \* the record that is encoded
  wire,                   \* the bytes in the pipe
  stage,                  \* "made", "refused", "sent" or "received"
  got,                    \* what the reader decodes
  damages                 \* counter for the bound

vars == <<message, wire, stage, got, damages>>

-----------------------------------------------------------------------------
\* Validate.
IsPresent(bytes) == \E i \in 1..Len(bytes) : bytes[i] # 0

ValidRequest(r) ==
  /\ IsPresent(r.id)
  /\ r.command \in CommandValues
  /\ r.timeout \in TimeoutValues
  /\ IsPresent(r.nonce)
  /\ r.name # <<>>
  /\ Len(r.name) <= MaximumServiceNameBytes
  /\ Text!IsValidUtf8(r.name, TRUE)
  /\ Text!IsIdentityToken(r.token)

ValidResponse(r) ==
  /\ IsPresent(r.id)
  /\ r.status \in StatusValues
  /\ IsPresent(r.nonce)
  /\ r.before \in WireStates
  /\ r.after \in WireStates
  /\ Len(r.text) <= MaximumResponseTextBytes
  /\ Text!IsValidUtf8(r.text, FALSE)
  /\ r.status = 1 => ~IsPresent(r.error)

Valid(m) == IF m.kind = "request" THEN ValidRequest(m) ELSE ValidResponse(m)

\* Little endian, in w bytes.
LittleEndian(n, w) ==
  [i \in 1..w |-> IF i > 2 THEN 0 ELSE IF i = 1 THEN n % 256 ELSE (n \div 256) % 256]

Value(bytes) ==
  IF \E i \in 3..Len(bytes) : bytes[i] # 0 THEN Large ELSE bytes[1] + 256 * bytes[2]

AppendString(s) == LittleEndian(Len(s), 2) \o s

RequestPayload(r) ==
  r.id \o LittleEndian(r.command, 2) \o LittleEndian(0, 2)
    \o LittleEndian(r.timeout, 4) \o r.nonce \o AppendString(r.name)
    \o AppendString(r.token)

ResponsePayload(r) ==
  r.id \o LittleEndian(r.status, 2) \o LittleEndian(r.before, 2)
    \o LittleEndian(r.after, 2) \o LittleEndian(0, 2) \o r.error \o r.nonce
    \o AppendString(r.text)

\* WriteHeader and, with the payload written, FinishHeader.
WithHeader(kind, payload) ==
  Magic \o LittleEndian(ProtocolVersion, 2) \o LittleEndian(Kinds[kind], 2)
    \o LittleEndian(Len(payload), 4) \o payload

CheckMessageSize(bytes) == Len(bytes) \in HeaderBytes..MaximumMessageBytes

Bytes(m) ==
  WithHeader(m.kind,
             IF m.kind = "request" THEN RequestPayload(m) ELSE ResponsePayload(m))

\* Whether Encode returns the bytes.
Encodes(m) == Valid(m) /\ CheckMessageSize(Bytes(m))

-----------------------------------------------------------------------------
\* Decoding.  Positions count from 1; a field is read at its position, and no
\* field reaches beyond the end.
Field(bytes, at, n) == SubSeq(bytes, at, at + n - 1)
Fits(bytes, at, n) == at + n - 1 <= Len(bytes)
Read(bytes, at, n) == Value(Field(bytes, at, n))

\* A string and the position after it; position 0 when it cannot be read.
ReadString(bytes, at) ==
  IF at = 0 \/ ~Fits(bytes, at, 2) \/ ~Fits(bytes, at + 2, Read(bytes, at, 2))
    THEN [value |-> <<>>, next |-> 0]
    ELSE LET n == Read(bytes, at, 2)
         IN [value |-> Field(bytes, at + 2, n), next |-> at + 2 + n]

Finished(bytes, at) == at = Len(bytes) + 1

ReadHeader(bytes, kind) ==
  /\ Field(bytes, 1, 4) = Magic
  /\ Read(bytes, 5, 2) = ProtocolVersion
  /\ Read(bytes, 7, 2) = Kinds[kind]
  /\ Read(bytes, 9, 4) = Len(bytes) - HeaderBytes

DecodeRequest(bytes) ==
  LET name == ReadString(bytes, 61)
      token == ReadString(bytes, name.next)
      request == [kind |-> "request", id |-> Field(bytes, 13, 8),
                  command |-> Read(bytes, 21, 2), timeout |-> Read(bytes, 25, 4),
                  nonce |-> Field(bytes, 29, 32), name |-> name.value,
                  token |-> token.value]
  IN IF /\ CheckMessageSize(bytes)
        /\ ReadHeader(bytes, "request")
        /\ Fits(bytes, 1, 60)
        /\ Finished(bytes, token.next)
        /\ Read(bytes, 23, 2) = 0
        /\ ValidRequest(request)
       THEN request
       ELSE Rejected

\* Mutant of DecodeResponse: The offset of the error code runs into the reserved field.
DecodeResponseShifted(bytes) ==
  LET text == ReadString(bytes, 65)
      response == [kind |-> "response", id |-> Field(bytes, 13, 8),
                   status |-> Read(bytes, 21, 2), before |-> Read(bytes, 23, 2),
                   after |-> Read(bytes, 25, 2), error |-> Field(bytes, 27, 4),
                   nonce |-> Field(bytes, 33, 32), text |-> text.value]
  IN IF ReadHeader(bytes, "response") /\ Finished(bytes, text.next) /\ ValidResponse(response)
       THEN response
       ELSE Rejected

DecodeResponse(bytes) ==
  LET text == ReadString(bytes, 65)
      response == [kind |-> "response", id |-> Field(bytes, 13, 8),
                   status |-> Read(bytes, 21, 2), before |-> Read(bytes, 23, 2),
                   after |-> Read(bytes, 25, 2), error |-> Field(bytes, 29, 4),
                   nonce |-> Field(bytes, 33, 32), text |-> text.value]
  IN IF /\ CheckMessageSize(bytes)
        /\ ReadHeader(bytes, "response")
        /\ Fits(bytes, 1, 64)
        /\ Finished(bytes, text.next)
        /\ Read(bytes, 27, 2) = 0
        /\ ValidResponse(response)
       THEN response
       ELSE Rejected

-----------------------------------------------------------------------------
Init ==
  /\ message \in Messages
  /\ wire = <<>>
  /\ stage = "made"
  /\ got = Rejected
  /\ damages = 0

\* Client or helper encodes; a message that cannot be encoded is not sent.
Send ==
  /\ stage = "made"
  /\ IF Encodes(message)
       THEN stage' = "sent" /\ wire' = Bytes(message)
       ELSE stage' = "refused" /\ UNCHANGED wire
  /\ UNCHANGED <<message, got, damages>>

\* A byte is changed, lost or added, in the pipe or by a peer of another
\* version.
Damage ==
  /\ stage = "sent"
  /\ damages < MaxDamages
  /\ message \in Damaged
  /\ damages' = damages + 1
  /\ \E b \in DamageBytes :
       \/ \E i \in 1..Len(wire) : wire' = [wire EXCEPT ![i] = b]
       \/ \E i \in 1..Len(wire) :
            wire' = SubSeq(wire, 1, i - 1) \o SubSeq(wire, i + 1, Len(wire))
       \/ \E i \in 0..Len(wire) :
            wire' = SubSeq(wire, 1, i) \o <<b>> \o SubSeq(wire, i + 1, Len(wire))
  /\ UNCHANGED <<message, stage, got>>

\* The helper decodes what it reads as a request, the client as a response.
Receive ==
  /\ stage = "sent"
  /\ stage' = "received"
  /\ \/ got' = DecodeRequest(wire)
     \/ got' = DecodeResponse(wire)
  /\ UNCHANGED <<message, wire, damages>>

Next == Send \/ Damage \/ Receive

Spec == Init /\ [][Next]_vars

-----------------------------------------------------------------------------
(***************************************************************************)
(* Properties.                                                             *)
(***************************************************************************)

\* A message that arrives undamaged is read as it was written by the peer it is
\* meant for, and rejected by the other: offsets, widths and byte orders of the
\* two directions agree.  Whatever else is accepted is the one encoding of what
\* was understood: nothing truncated, extended or shifted is read as some other
\* valid message, and nothing in the bytes goes unread.
WireExact ==
  /\ stage = "sent" /\ damages = 0 =>
       /\ DecodeRequest(wire) = IF message.kind = "request" THEN message ELSE Rejected
       /\ DecodeResponse(wire) = IF message.kind = "response" THEN message ELSE Rejected
  /\ stage = "received" /\ got # Rejected => Encodes(got) /\ Bytes(got) = wire
  /\ stage = "refused" => ~Valid(message)

\* The bytes of a message text are accepted exactly when they are well-formed
\* UTF-8 without control characters; those of a service name when they are also
\* not empty and hold no path separator in any encoding, since overlong forms
\* of `/` and `\` are not well formed.
TextsExact ==
  stage = "made" /\ message.kind = "response" =>
    LET bytes == message.text
        Plain == Text!WellFormed(bytes) /\ \A i \in 1..Len(bytes) : bytes[i] >= 32
    IN /\ Text!IsValidUtf8(bytes, FALSE) <=> Plain
       /\ Text!IsValidUtf8(bytes, TRUE) <=>
            bytes # <<>> /\ Plain /\ \A i \in 1..Len(bytes) : bytes[i] \notin {47, 92}

=============================================================================
