-------------------------------- MODULE Packets --------------------------------
(***************************************************************************)
(* How packets are encoded (send_*.c, packet__alloc) and decoded           *)
(* (handle_*.c), and which of them the calls of the application accept     *)
(* (actions.c, connect.c, options.c, will_mosq.c).                         *)
(*                                                                         *)
(* An encoder computes the remaining length first, allocates the packet    *)
(* and then writes the body: a draft has both, and they ought to agree.    *)
(* A packet that is sent or handled is a record with its kind and fields;  *)
(* without MQTT 5 it has no properties.                                    *)
(***************************************************************************)
EXTENDS Properties, Topics

Versions == {"v31", "v311", "v5"}

CommandByte(kind) ==
  CASE kind = "CONNECT" -> 16 [] kind = "CONNACK" -> 32 [] kind = "PUBLISH" -> 48
    [] kind = "PUBACK" -> 64 [] kind = "PUBREC" -> 80 [] kind = "PUBREL" -> 98
    [] kind = "PUBCOMP" -> 112 [] kind = "SUBSCRIBE" -> 130 [] kind = "SUBACK" -> 144
    [] kind = "UNSUBSCRIBE" -> 162 [] kind = "UNSUBACK" -> 176 [] kind = "PINGREQ" -> 192
    [] kind = "PINGRESP" -> 208 [] kind = "DISCONNECT" -> 224 [] kind = "AUTH" -> 240

Bit(condition, weight) == IF condition THEN weight ELSE 0
If(condition, s) == IF condition THEN s ELSE <<>>

\* A packet before packet__alloc has given it its fixed header
Draft(command, announced, body) ==
  [command |-> command, announced |-> announced, body |-> body]

\* packet__alloc, and what is written then
PacketBytes(d) == <<d.command>> \o Varint(d.announced) \o d.body
\* The lengths that packet__alloc has a fixed header for
Allocates(d) == VarintLen(d.announced) < 5

-----------------------------------------------------------------------------
(* Encoders                                                                *)

\* send__connect.  c.props has a RECEIVE_MAXIMUM, given or added from the options.
\* A client identifier, a will, a user name or a password that is not there is the empty set.
ConnectFlags(c) ==
  Bit(c.clean, 2) + Bit(c.username # {}, 128) + Bit(c.password # {}, 64)
  + (IF c.will = {} THEN 0
     ELSE LET w == CHOOSE w \in c.will : TRUE IN 4 + w.qos * 8 + Bit(w.retain, 32))

Optional(texts) == IF texts = {} THEN <<>> ELSE StringBytes(CHOOSE s \in texts : TRUE)
OptionalLength(texts) == IF texts = {} THEN 0 ELSE 2 + Len(CHOOSE s \in texts : TRUE)

WillBytes(version, w) ==
  If(version = "v5", WriteLengthAndAll(w.props)) \o StringBytes(w.topic) \o StringBytes(w.payload)

WillLength(version, w) ==
  2 + Len(w.topic) + 2 + Len(w.payload) + Bit(version = "v5", 1) * LengthAndAll(w.props)

ProtocolName(version) ==
  IF version = "v31" THEN <<77, 81, 73, 115, 100, 112>> ELSE <<77, 81, 84, 84>>
ProtocolLevel(version) == CASE version = "v31" -> 3 [] version = "v311" -> 4 [] OTHER -> 5

ConnectDraft(version, c) ==
  LET w == CHOOSE w \in c.will : TRUE IN
  Draft(CommandByte("CONNECT"),
        (IF version = "v31" THEN 12 ELSE 10)
        + (IF version = "v5" THEN LengthAndAll(c.props) ELSE 0)
        + (IF c.id = {} THEN 2 ELSE OptionalLength(c.id))
        + (IF c.will = {} THEN 0 ELSE WillLength(version, w))
        + OptionalLength(c.username) + OptionalLength(c.password),
        StringBytes(ProtocolName(version))
        \o <<ProtocolLevel(version), ConnectFlags(c)>> \o Uint16(c.keepalive)
        \o If(version = "v5", WriteLengthAndAll(c.props))
        \o (IF c.id = {} THEN Uint16(0) ELSE Optional(c.id))
        \o (IF c.will = {} THEN <<>> ELSE WillBytes(version, w))
        \o Optional(c.username) \o Optional(c.password))

\* send__real_publish.  Properties whose length takes five digits are left out, and so is their
\* length from what is announced, but it is written all the same.
DropsProperties(version, p) == version = "v5" /\ VarintBytes(LengthAll(p.props)) > 4

PublishDraft(version, p) ==
  LET drops == DropsProperties(version, p) IN
  Draft(CommandByte("PUBLISH") + Bit(p.dup, 8) + p.qos * 2 + Bit(p.retain, 1),
        2 + Len(p.topic) + Len(p.payload) + Bit(p.qos > 0, 2)
        + (IF version = "v5" /\ ~drops THEN LengthAndAll(p.props) ELSE 0),
        StringBytes(p.topic) \o If(p.qos > 0, Uint16(p.mid))
        \o If(version = "v5", IF drops THEN Varint(LengthAll(p.props))
                              ELSE WriteLengthAndAll(p.props))
        \o p.payload)

\* send__subscribe and send__unsubscribe
SubscribeDraft(version, s) ==
  Draft(CommandByte("SUBSCRIBE"),
        2 + (IF version = "v5" THEN LengthAndAll(s.props) ELSE 0)
        + Total([i \in DOMAIN s.filters |-> 2 + Len(s.filters[i]) + 1]),
        Uint16(s.mid) \o If(version = "v5", WriteLengthAndAll(s.props))
        \o FlattenSeq([i \in DOMAIN s.filters |->
             StringBytes(s.filters[i]) \o <<s.qos + (IF version = "v5" THEN s.options ELSE 0)>>]))

UnsubscribeDraft(version, s) ==
  Draft(CommandByte("UNSUBSCRIBE"),
        2 + (IF version = "v5" THEN LengthAndAll(s.props) ELSE 0)
        + Total([i \in DOMAIN s.filters |-> 2 + Len(s.filters[i])]),
        Uint16(s.mid) \o If(version = "v5", WriteLengthAndAll(s.props))
        \o FlattenSeq([i \in DOMAIN s.filters |-> StringBytes(s.filters[i])]))

\* send__disconnect, and the acknowledgements: the reason and the properties only if needed
Explained(version, p) == version = "v5" /\ (p.reason # 0 \/ p.props # <<>>)

Reason(version, p) ==
  If(Explained(version, p), <<p.reason>> \o If(p.props # <<>>, WriteLengthAndAll(p.props)))

ReasonLength(version, p) ==
  IF Explained(version, p) THEN 1 + (IF p.props # <<>> THEN LengthAndAll(p.props) ELSE 0) ELSE 0

DisconnectDraft(version, p) ==
  Draft(CommandByte("DISCONNECT"), ReasonLength(version, p), Reason(version, p))

\* send__command_with_mid
AckDraft(version, p) ==
  Draft(CommandByte(p.kind), 2 + ReasonLength(version, p), Uint16(p.mid) \o Reason(version, p))

\* send__simple_command
SimpleDraft(kind) == Draft(CommandByte(kind), 0, <<>>)

\* The packets that only a broker sends
BrokerDraft(version, p) ==
  LET props == If(version = "v5", WriteLengthAndAll(p.props))
      body == CASE p.kind = "CONNACK" -> <<p.flags, p.reason>> \o props
                [] p.kind = "SUBACK" -> Uint16(p.mid) \o props \o p.granted
                [] p.kind = "UNSUBACK" -> Uint16(p.mid) \o props
                [] p.kind = "AUTH" -> <<p.reason>> \o props
  IN Draft(CommandByte(p.kind), Len(body), body)

Acks == {"PUBACK", "PUBREC", "PUBREL", "PUBCOMP"}

DraftOf(version, p) ==
  CASE p.kind = "CONNECT" -> ConnectDraft(version, p)
    [] p.kind = "PUBLISH" -> PublishDraft(version, p)
    [] p.kind = "SUBSCRIBE" -> SubscribeDraft(version, p)
    [] p.kind = "UNSUBSCRIBE" -> UnsubscribeDraft(version, p)
    [] p.kind = "DISCONNECT" -> DisconnectDraft(version, p)
    [] p.kind \in Acks -> AckDraft(version, p)
    [] p.kind \in {"PINGREQ", "PINGRESP"} -> SimpleDraft(p.kind)
    [] OTHER -> BrokerDraft(version, p)

-----------------------------------------------------------------------------
(* Which calls are accepted                                                *)

\* Mutant: a length equal to the maximum plus its own digits is let through
OversizeLate(maximum, length) == maximum > 0 /\ length > maximum

\* packet__check_oversize: the byte of the command is not counted
Oversize(maximum, length) == maximum > 0 /\ length + VarintBytes(length) > maximum

\* mosquitto_publish_v5
PublishVerdict(version, c, p) ==
  CASE version # "v5" /\ p.props # <<>> -> "NOT_SUPPORTED"
    [] p.qos > c.maximumQos -> "QOS_NOT_SUPPORTED"
    [] CheckAll("PUBLISH", p.props) # "SUCCESS" -> CheckAll("PUBLISH", p.props)
    [] p.topic = <<>> /\ ~(version = "v5" /\ Has(p.props, TopicAlias)) -> "INVAL"
    [] p.topic # <<>> /\ ~ValidUtf8(p.topic) -> "MALFORMED_UTF8"
    [] p.topic # <<>> /\ Len(p.payload) > MaxVarint -> "PAYLOAD_SIZE"
    [] ~PubTopicValid(p.topic) -> "INVAL"
    [] Oversize(c.maximumPacketSize,
                3 + Len(p.topic) + Len(p.payload) + LengthAll(p.props) + Bit(p.qos > 0, 1)) ->
         "OVERSIZE_PACKET"
    [] OTHER -> "SUCCESS"

\* mosquitto_subscribe_multiple: retain handling 3 and the reserved bits of the options
OptionsValid(options) == (options \div 16) % 4 # 3 /\ (options \div 64) % 4 = 0

\* mosquitto_subscribe_multiple and mosquitto_unsubscribe_multiple; each is the number of
\* bytes behind a filter.  The filters are looked at one after the other.
FilterVerdict(version, c, s, each) ==
  CASE version # "v5" /\ s.props # <<>> -> "NOT_SUPPORTED"
    [] s.kind = "SUBSCRIBE" /\ ~OptionsValid(s.options) -> "INVAL"
    [] CheckAll(s.kind, s.props) # "SUCCESS" -> CheckAll(s.kind, s.props)
    [] \E i \in DOMAIN s.filters :
         ~SubTopicValid(s.filters[i]) /\ \A j \in 1..i - 1 : ValidUtf8(s.filters[j]) -> "INVAL"
    [] \E i \in DOMAIN s.filters : ~ValidUtf8(s.filters[i]) -> "MALFORMED_UTF8"
    [] Oversize(c.maximumPacketSize,
                2 + LengthAll(s.props)
                + Total([i \in DOMAIN s.filters |-> 2 + Len(s.filters[i]) + each])) ->
         "OVERSIZE_PACKET"
    [] OTHER -> "SUCCESS"

\* mosquitto_disconnect_v5
DisconnectVerdict(version, p) ==
  IF version # "v5" /\ p.props # <<>> THEN "NOT_SUPPORTED" ELSE CheckAll("DISCONNECT", p.props)

\* mosquitto_will_set_v5
WillVerdict(version, w) ==
  CASE CheckAll("WILL", w.props) # "SUCCESS" -> CheckAll("WILL", w.props)
    [] Len(w.payload) > MaxVarint -> "PAYLOAD_SIZE"
    [] ~PubTopicValid(w.topic) -> "INVAL"
    [] ~ValidUtf8(w.topic) -> "MALFORMED_UTF8"
    [] version # "v5" /\ w.props # <<>> -> "NOT_SUPPORTED"
    [] OTHER -> "SUCCESS"

\* mosquitto_connect_bind_v5 and mosquitto__connect_init
ConnectVerdict(c) ==
  CASE CheckAll("CONNECT", c.props) # "SUCCESS" -> CheckAll("CONNECT", c.props)
    [] c.keepalive < 5 -> "INVAL"
    [] OTHER -> "SUCCESS"

\* mosquitto_username_pw_set: what the handle has then
Credentials(m, version, username, password) ==
  CASE version # "v5" /\ password # {} /\ username = {} ->
         [username |-> m.username, password |-> m.password]
    [] \E u \in username : ~ValidUtf8(u) -> [username |-> {}, password |-> {}]
    [] OTHER -> [username |-> username, password |-> password]

CallVerdict(version, c, p) ==
  CASE p.kind = "PUBLISH" -> PublishVerdict(version, c, p)
    [] p.kind = "SUBSCRIBE" -> FilterVerdict(version, c, p, 1)
    [] p.kind = "UNSUBSCRIBE" -> FilterVerdict(version, c, p, 0)
    [] p.kind = "DISCONNECT" -> DisconnectVerdict(version, p)

-----------------------------------------------------------------------------
(* Decoders.  The value of what they return is the packet that is handled. *)

\* The properties behind pos, if there are any in this version
ReadPropsIf(version, kind, b, pos) ==
  IF version = "v5" THEN ReadAll(kind, b, pos) ELSE Ok(<<>>, pos)

\* handle__publish
HandlePublish(version, command, b) ==
  LET qos == (command \div 2) % 4
      Packet(topic, mid, props, payload) ==
        [kind |-> "PUBLISH", dup |-> (command \div 8) % 2 = 1, qos |-> qos,
         retain |-> command % 2 = 1, topic |-> topic, mid |-> mid, props |-> props,
         payload |-> payload]
      Finish(topic, mid, pos) ==
        Then(ReadPropsIf(version, "PUBLISH", b, pos),
             LAMBDA props, p :
               IF qos = 3 THEN Err("PROTOCOL")
               ELSE Ok(Packet(topic, mid, props, SubSeq(b, p + 1, Len(b))), Len(b)))
  IN Then(ReadString(b, 0),
          LAMBDA topic, pos :
            IF topic = <<>> THEN Err("PROTOCOL")
            ELSE IF qos = 0 THEN Finish(topic, 0, pos)
            ELSE Then(ReadUint16(b, pos),
                      LAMBDA mid, p :
                        IF mid = 0 THEN Err("PROTOCOL") ELSE Finish(topic, mid, p)))

\* handle__pubackcomp, handle__pubrec and handle__pubrel: the reason and the properties are
\* there if the packet is long enough.  PUBCOMP is checked as PUBACK is.
HandleAck(version, kind, command, b) ==
  LET Packet(mid, reason, props) ==
        [kind |-> kind, mid |-> mid, reason |-> reason, props |-> props]
      checked == IF kind = "PUBCOMP" THEN "PUBACK" ELSE kind
  IN IF kind = "PUBREL" /\ version # "v31" /\ command % 16 # 2 THEN Err("PROTOCOL")
     ELSE Then(ReadUint16(b, 0),
       LAMBDA mid, pos :
         IF mid = 0 THEN Err("PROTOCOL")
         ELSE IF version # "v5" \/ Len(b) <= 2 THEN Ok(Packet(mid, 0, <<>>), pos)
         ELSE Then(ReadByte(b, pos),
           LAMBDA reason, p :
             IF Len(b) <= 3 THEN Ok(Packet(mid, reason, <<>>), p)
             ELSE Then(ReadAll(checked, b, p),
                       LAMBDA props, q : Ok(Packet(mid, reason, props), q))))

\* handle__connack
HandleConnack(version, b) ==
  Then(ReadByte(b, 0), LAMBDA flags, pos :
    Then(ReadByte(b, pos), LAMBDA reason, p :
      Then(ReadPropsIf(version, "CONNACK", b, p), LAMBDA props, q :
        Ok([kind |-> "CONNACK", flags |-> flags, reason |-> reason, props |-> props], q))))

\* handle__suback and handle__unsuback
HandleSuback(version, b) ==
  Then(ReadUint16(b, 0), LAMBDA mid, pos :
    IF mid = 0 THEN Err("PROTOCOL")
    ELSE Then(ReadPropsIf(version, "SUBACK", b, pos), LAMBDA props, p :
      Ok([kind |-> "SUBACK", mid |-> mid, props |-> props,
          granted |-> SubSeq(b, p + 1, Len(b))], Len(b))))

HandleUnsuback(version, b) ==
  Then(ReadUint16(b, 0), LAMBDA mid, pos :
    IF mid = 0 THEN Err("PROTOCOL")
    ELSE Then(ReadPropsIf(version, "UNSUBACK", b, pos), LAMBDA props, p :
      Ok([kind |-> "UNSUBACK", mid |-> mid, props |-> props], p)))

\* handle__disconnect: properties only from the third byte on, and a reason is expected
HandleDisconnect(version, b) ==
  IF version # "v5" THEN Err("PROTOCOL")
  ELSE Then(ReadByte(b, 0), LAMBDA reason, pos :
    IF Len(b) <= 2 THEN Ok([kind |-> "DISCONNECT", reason |-> reason, props |-> <<>>], pos)
    ELSE Then(ReadAll("DISCONNECT", b, pos), LAMBDA props, p :
      Ok([kind |-> "DISCONNECT", reason |-> reason, props |-> props], p)))

\* handle__auth: the properties are read and forgotten.  A packet without a reason is
\* answered with the number 1, which is that of MOSQ_ERR_NOMEM.
HandleAuth(version, b) ==
  IF version # "v5" THEN Err("PROTOCOL")
  ELSE IF b = <<>> THEN Err("NOMEM")
  ELSE Then(ReadByte(b, 0), LAMBDA reason, pos :
    Then(ReadAll("AUTH", b, pos), LAMBDA props, p :
      Ok([kind |-> "AUTH", reason |-> reason, props |-> props], p)))

\* handle__packet
HandlePacket(version, command, b) ==
  LET high == (command \div 16) * 16 IN
  CASE high = 32 -> HandleConnack(version, b)
    [] high = 48 -> HandlePublish(version, command, b)
    [] high = 64 -> HandleAck(version, "PUBACK", command, b)
    [] high = 80 -> HandleAck(version, "PUBREC", command, b)
    [] high = 96 -> HandleAck(version, "PUBREL", command, b)
    [] high = 112 -> HandleAck(version, "PUBCOMP", command, b)
    [] high = 144 -> HandleSuback(version, b)
    [] high = 176 -> HandleUnsuback(version, b)
    [] high = 192 -> Ok([kind |-> "PINGREQ"], 0)
    [] high = 208 -> Ok([kind |-> "PINGRESP"], 0)
    [] high = 224 -> HandleDisconnect(version, b)
    [] high = 240 -> HandleAuth(version, b)
    [] OTHER -> Err("PROTOCOL")

=============================================================================
