------------------------------ MODULE Properties ------------------------------
(***************************************************************************)
(* The properties of MQTT 5 packets (property_mosq.c): which type a        *)
(* property has, how long it is, how it is written and read, in which      *)
(* packets it may appear, and what the application may add to a list.      *)
(*                                                                         *)
(* A property is a record of its identifier, the number in the packet, and *)
(* its value: a number, a sequence of bytes, or a pair of them.  A list is *)
(* a sequence.                                                             *)
(***************************************************************************)
EXTENDS DataTypes, SequencesExt

\* The identifiers that the client looks at by name
MessageExpiryInterval == 2
SubscriptionIdentifier == 11
AssignedClientIdentifier == 18
ServerKeepAlive == 19
ReceiveMaximum == 33
TopicAlias == 35
MaximumQos == 36
UserProperty == 38
MaximumPacketSize == 39

\* PAYLOAD_FORMAT_INDICATOR, REQUEST_PROBLEM_INFORMATION, REQUEST_RESPONSE_INFORMATION,
\* MAXIMUM_QOS and the four *_AVAILABLE
ByteProperties == {1, 23, 25, MaximumQos, 37, 40, 41, 42}
\* SERVER_KEEP_ALIVE, RECEIVE_MAXIMUM, TOPIC_ALIAS_MAXIMUM, TOPIC_ALIAS
Int16Properties == {ServerKeepAlive, ReceiveMaximum, 34, TopicAlias}
\* MESSAGE_EXPIRY_INTERVAL, SESSION_EXPIRY_INTERVAL, WILL_DELAY_INTERVAL,
\* MAXIMUM_PACKET_SIZE
Int32Properties == {MessageExpiryInterval, 17, 24, MaximumPacketSize}
\* CORRELATION_DATA, AUTHENTICATION_DATA
BinaryProperties == {9, 22}
\* CONTENT_TYPE, RESPONSE_TOPIC, ASSIGNED_CLIENT_IDENTIFIER, AUTHENTICATION_METHOD,
\* RESPONSE_INFORMATION, SERVER_REFERENCE, REASON_STRING
StringProperties == {3, 8, AssignedClientIdentifier, 21, 26, 28, 31}

Prop(id, value) == [id |-> id, value |-> value]

\* The properties that there can be, by the types of their values: uint8_t, uint16_t,
\* uint32_t, char *, and two of them
Text == Seq(Bytes)
Property ==
  [id : ByteProperties, value : Bytes]
  \cup [id : Int16Properties, value : Short]
  \cup [id : Int32Properties \cup {SubscriptionIdentifier}, value : Word]
  \cup [id : BinaryProperties \cup StringProperties, value : Text]
  \cup [id : {UserProperty}, value : Text \X Text]

\* What a property has of text
TextsOf(p) ==
  CASE p.id \in BinaryProperties \cup StringProperties -> {p.value}
    [] p.id = UserProperty -> {p.value[1], p.value[2]}
    [] OTHER -> {}
AllTexts(props) == UNION {TextsOf(props[i]) : i \in DOMAIN props}

-----------------------------------------------------------------------------
(* property__write                                                         *)

ValueBytes(p) ==
  CASE p.id \in ByteProperties -> <<p.value % 256>>
    [] p.id \in Int16Properties -> Uint16(p.value)
    [] p.id \in Int32Properties -> Uint32(p.value)
    [] p.id = SubscriptionIdentifier -> Varint(p.value)
    [] p.id \in BinaryProperties \cup StringProperties -> StringBytes(p.value)
    [] p.id = UserProperty -> StringBytes(p.value[1]) \o StringBytes(p.value[2])

PropertyBytes(p) == Varint(p.id) \o ValueBytes(p)

\* Mutant: the length of the identifier of a subscription is always one digit
PropertyLengthShort(p) ==
  CASE p.id \in ByteProperties \cup {SubscriptionIdentifier} -> 2
    [] p.id \in Int16Properties -> 3
    [] p.id \in Int32Properties -> 5
    [] p.id \in BinaryProperties \cup StringProperties -> 3 + Len(p.value)
    [] p.id = UserProperty -> 5 + Len(p.value[1]) + Len(p.value[2])

\* property__get_length
PropertyLength(p) ==
  CASE p.id \in ByteProperties -> 2
    [] p.id \in Int16Properties -> 3
    [] p.id \in Int32Properties -> 5
    [] p.id = SubscriptionIdentifier -> 1 + VarintBytes(p.value)
    [] p.id \in BinaryProperties \cup StringProperties -> 3 + Len(p.value)
    [] p.id = UserProperty -> 5 + Len(p.value[1]) + Len(p.value[2])

Total(lengths) == FoldLeft(LAMBDA sum, n : sum + n, 0, lengths)
LengthAll(props) == Total([i \in DOMAIN props |-> PropertyLength(props[i])])
WriteAll(props) == FlattenSeq([i \in DOMAIN props |-> PropertyBytes(props[i])])

\* With the length in front
LengthAndAll(props) == LengthAll(props) + VarintBytes(LengthAll(props))
WriteLengthAndAll(props) == Varint(LengthAll(props)) \o WriteAll(props)

-----------------------------------------------------------------------------
(* Which properties a packet may have                                      *)

\* mosquitto_property_check_command
MayAppear(command, id) ==
  CASE id \in {1, MessageExpiryInterval, 3, 8, 9} -> command \in {"PUBLISH", "WILL"}
    [] id = SubscriptionIdentifier -> command \in {"PUBLISH", "SUBSCRIBE"}
    [] id = 17 -> command \in {"CONNECT", "CONNACK", "DISCONNECT"}
    [] id \in {21, 22} -> command \in {"CONNECT", "CONNACK", "AUTH"}
    [] id \in {AssignedClientIdentifier, ServerKeepAlive, 26, MaximumQos, 37, 40, 41, 42} ->
         command = "CONNACK"
    [] id = 24 -> command = "WILL"
    [] id \in {23, 25} -> command = "CONNECT"
    [] id = 28 -> command \in {"CONNACK", "DISCONNECT"}
    [] id = 31 -> command \notin {"CONNECT", "PUBLISH", "SUBSCRIBE", "UNSUBSCRIBE"}
    [] id \in {ReceiveMaximum, 34, MaximumPacketSize} -> command \in {"CONNECT", "CONNACK"}
    [] id = TopicAlias -> command = "PUBLISH"
    [] id = UserProperty -> TRUE
    [] OTHER -> FALSE

\* The values that the check refuses
ValueAllowed(p) ==
  /\ p.id \in ByteProperties \ {1} => p.value <= 1
  /\ p.id \in {MaximumPacketSize, ReceiveMaximum, TopicAlias} => p.value > 0

\* What mosquitto_property_check_all says of the i-th property
Verdict(command, props, i) ==
  IF ~ValueAllowed(props[i]) \/ ~MayAppear(command, props[i].id) THEN "PROTOCOL"
  ELSE IF /\ props[i].id # UserProperty
          /\ \E j \in i + 1..Len(props) : props[j].id = props[i].id
  THEN "DUPLICATE_PROPERTY"
  ELSE "SUCCESS"

\* The first objection counts
CheckAll(command, props) ==
  LET bad == SelectInSeq([i \in DOMAIN props |-> Verdict(command, props, i)],
                         LAMBDA verdict : verdict # "SUCCESS")
  IN IF bad = 0 THEN "SUCCESS" ELSE Verdict(command, props, bad)

-----------------------------------------------------------------------------
(* property__read, property__read_all                                      *)

\* The value of a property whose identifier has been read
ReadValue(id, b, pos) ==
  CASE id \in ByteProperties -> ReadByte(b, pos)
    [] id \in Int16Properties -> ReadUint16(b, pos)
    [] id \in Int32Properties -> ReadUint32(b, pos)
    [] id = SubscriptionIdentifier -> ReadVarint(b, pos)
    [] id \in StringProperties -> ReadString(b, pos)
    [] id \in BinaryProperties -> ReadBinary(b, pos)
    [] id = UserProperty ->
         Then(ReadString(b, pos), LAMBDA name, p :
           Then(ReadString(b, p), LAMBDA text, q : Ok(<<name, text>>, q)))
    [] OTHER -> Err("MALFORMED_PACKET")

ReadProperty(b, pos) ==
  Then(ReadVarint(b, pos), LAMBDA id, p :
    Then(ReadValue(id, b, p), LAMBDA value, q : Ok(Prop(id, value), q)))

\* One after the other until the announced length is used up.  The last one may run over it.
ReadProps(b, from, end) ==
  LET All[pos \in 0..Len(b)] ==
        IF pos >= end THEN Ok(<<>>, pos)
        ELSE Then(ReadProperty(b, pos), LAMBDA prop, p :
               Then(All[p], LAMBDA others, q : Ok(<<prop>> \o others, q)))
  IN All[from]

\* property__read_all
ReadAll(command, b, pos) ==
  Then(ReadVarint(b, pos), LAMBDA len, p :
    Then(ReadProps(b, p, p + len), LAMBDA props, q :
      The({IF verdict = "SUCCESS" THEN Ok(props, q) ELSE Err(verdict) :
             verdict \in {CheckAll(command, props)}})))

-----------------------------------------------------------------------------
(* Lists that the application builds and looks at                          *)

\* mosquitto_property_add_*.  What is refused is left out without a word by the Swift client.
Addable(p) ==
  /\ p.id = SubscriptionIdentifier => p.value <= MaxVarint
  /\ p.id \in StringProperties => ValidUtf8(p.value)
  /\ p.id = UserProperty => ValidUtf8(p.value[1]) /\ ValidUtf8(p.value[2])

Built(wanted) ==
  FlattenSeq([i \in DOMAIN wanted |-> IF Addable(wanted[i]) THEN <<wanted[i]>> ELSE <<>>])

\* mosquitto_property_read_*, of the first one with this identifier; otherwise what was there
Value(props, id, default) ==
  LET found == SelectInSeq(props, LAMBDA p : p.id = id) IN
  IF found = 0 THEN default ELSE props[found].value

Has(props, id) == \E i \in DOMAIN props : props[i].id = id

\* mosquitto_property_copy_all: strdup() of an empty text, which is a null pointer, is
\* undefined
Copyable(props) ==
  \A i \in DOMAIN props :
    /\ props[i].id \in StringProperties => props[i].value # <<>>
    /\ props[i].id = UserProperty => <<>> \notin {props[i].value[1], props[i].value[2]}

=============================================================================
