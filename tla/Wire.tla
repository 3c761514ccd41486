-------------------------------- MODULE Wire --------------------------------
(***************************************************************************)
(* The bytes of a connection.  The application sets a will, connects and   *)
(* calls publish, subscribe, unsubscribe and disconnect; the client        *)
(* encodes what it accepts.  The broker sends packets, among them the      *)
(* messages that the client has published, relayed as they are; the        *)
(* client reads them in pieces of any size (packet__read), decodes and     *)
(* handles them.  Connections end and are opened again at any byte.        *)
(*                                                                         *)
(* What is written leaves at once: module OutPacketQueue has the pieces of *)
(* that direction.  The effects of a packet on the messages are those of   *)
(* OutMessages and InMessages; here it has those on the handle.            *)
(***************************************************************************)
EXTENDS Packets

CONSTANTS
  Ids,           \* the identifiers of clients, as sets of one or none
  Wills,         \* a sequence of wills, so that the state names one by its place
  Connects,      \* the calls of connect
  ReceiveOption, \* the receiveMaximum of the Swift client
  Requests,      \* the other calls
  Greetings,     \* what a broker sends first
  BrokerPackets, \* what it sends then
  Pieces,        \* how many bytes of a payload can be read at once
  MaxSent,       \* bound: packets of the broker to a connection
  MaxConns       \* bound: connections

-----------------------------------------------------------------------------
(* What the client is given                                                *)

\* Calls of the application, by the types of their arguments
Publication ==
  [kind : {"PUBLISH"}, dup : BOOLEAN, qos : 0..2, retain : BOOLEAN, topic : Text,
   mid : Short, props : Seq(Property), payload : Text]
Subscription ==
  [kind : {"SUBSCRIBE", "UNSUBSCRIBE"}, mid : Short, filters : Seq(Text), qos : 0..2,
   options : Nat, props : Seq(Property)]
Farewell == [kind : {"DISCONNECT"}, reason : Bytes, props : Seq(Property)]
Testament ==
  [topic : Text, payload : Text, qos : 0..2, retain : BOOLEAN, props : Seq(Property)]
Connection ==
  [username : SUBSET Text, password : SUBSET Text, keepalive : Short, clean : BOOLEAN,
   props : Seq(Property)]

\* A set that stands for a pointer: of one or none
Pointer(S) == \A x, y \in S : x = y

\* Only QoS 0 has no identifier
Identified(p) == p.kind = "PUBLISH" => (p.mid = 0 <=> p.qos = 0)

SeveralIds(props) ==
  Cardinality({i \in DOMAIN props : props[i].id = SubscriptionIdentifier}) > 1

\* The packets of a broker that keeps to the standard
Answer ==
  [kind : {"CONNACK"}, flags : Bytes, reason : Bytes, props : Seq(Property)]
  \cup [kind : Acks, mid : Short \ {0}, reason : Bytes, props : Seq(Property)]
  \cup [kind : {"SUBACK"}, mid : Short \ {0}, props : Seq(Property), granted : Text]
  \cup [kind : {"UNSUBACK"}, mid : Short \ {0}, props : Seq(Property)]
  \cup [kind : {"DISCONNECT", "AUTH"}, reason : Bytes, props : Seq(Property)]
Ping == [kind : {"PINGREQ", "PINGRESP"}]

\* With properties that the standard allows, and short enough to be written
Wellformed(v, p) ==
  /\ p \in Publication \cup Answer \cup Ping
  /\ Identified(p)
  /\ Allocates(DraftOf(v, p))
  /\ p.kind = "PUBLISH" =>
       Len(p.topic) < 65536 /\ ValidUtf8(p.topic) /\ ~DropsProperties(v, p)
  /\ p \notin Ping =>
       /\ \/ CheckAll(p.kind, p.props) = "SUCCESS"
          \/ p.kind = "PUBLISH" /\ SeveralIds(p.props)
       /\ \A i \in DOMAIN p.props : Addable(p.props[i])
       /\ \A s \in AllTexts(p.props) : Len(s) < 65536
       /\ v # "v5" => p.props = <<>> /\ p.kind \notin {"DISCONNECT", "AUTH"}
  /\ p.kind \in Acks /\ v # "v5" => p.reason = 0

\* Bytes of a broker that does not: the length of the packet takes five digits, or it has
\* this length and is refused.  Limit of the model: a command of 0, which packet__read takes
\* for one that it has not read yet.
Malformed(v, bytes) ==
  /\ bytes \in Text /\ Len(bytes) > 1 /\ bytes[1] # 0
  /\ \/ Len(bytes) > 5 /\ \A i \in 2..5 : bytes[i] >= 128
     \/ \E k \in 1..4 :
          /\ EndsWith(bytes, 1, k)
          /\ Len(bytes) = 1 + k + VarintValue(bytes, 1, k)
          /\ ~Succeeds(HandlePacket(v, bytes[1], SubSeq(bytes, k + 2, Len(bytes))))

ASSUME WireAssumption ==
  /\ \A id \in Ids : id \subseteq Text /\ Pointer(id)
  /\ Wills \in Seq(Testament)
  /\ \A c \in Connects : c \in Connection /\ Pointer(c.username) /\ Pointer(c.password)
  /\ ReceiveOption \in Short
  /\ \A r \in Requests : r \in Publication \cup Subscription \cup Farewell /\ Identified(r)
  /\ Pieces \subseteq Nat \ {0} /\ MaxSent \in Nat /\ MaxConns \in Nat
  /\ \A b \in Greetings \cup BrokerPackets, v \in Versions :
       v = "v5" \/ b.plain =>
         IF b.packet.kind = "raw" THEN Malformed(v, b.packet.bytes) ELSE Wellformed(v, b.packet)

VARIABLES
  mosq,     \* the fields of the handle that encoders and decoders look at
  version,  \* the protocol version of the Swift client, which connect hands to the handle
  sock,     \* there is a connection
  state,    \* mosq->state
  incoming, \* in_packet
  wire,     \* the bytes under way to the client
  rc,       \* what the call that is about to return says
  written,  \* lengths of the packet that it has queued, and the limit in force
  sent,     \* ghost: the packets of the broker to this connection
  handled,  \* ghost: the packets that were decoded on this connection
  failure,  \* the error over which the reader has closed the connection
  conns     \* connections so far

vars == <<mosq, version, sock, state, incoming, wire, rc, written, sent, handled, failure, conns>>

NoPacket ==
  [command |-> 0, count |-> 0, mult |-> 1, length |-> 0, toProcess |-> 0, payload |-> <<>>]

\* Mutant: the length of the packet before stays
KeptLength == [NoPacket EXCEPT !.length = incoming.length]

\* packet__cleanup
Clean == NoPacket

\* The lengths of a draft with these texts, among others, and whether its properties were left
\* out.  d.announced was computed, the body was written.
Lengths(kind, d, texts, dropped) ==
  [kind |-> kind, announced |-> d.announced, body |-> Len(d.body),
   total |-> 1 + VarintBytes(d.announced) + d.announced, limit |-> mosq.maximumPacketSize,
   uncut |-> \A s \in texts : Len(s) < 65536, dropped |-> dropped]

Nothing ==
  [kind |-> "none", announced |-> 0, body |-> 0, total |-> 0, limit |-> 0, uncut |-> TRUE,
   dropped |-> FALSE]

\* mosquitto_new: a new handle speaks 3.1.1 until connect tells it otherwise
Init ==
  /\ version \in Versions
  /\ \E id \in Ids :
       mosq = [protocol |-> "v311", id |-> id, will |-> {}, username |-> {},
               password |-> {}, keepalive |-> 60, clean |-> TRUE,
               receiveMaximum |-> 20, maximumQos |-> 2, maximumPacketSize |-> 0]
  /\ sock = FALSE
  /\ state = "new"
  /\ incoming = NoPacket
  /\ wire = <<>>
  /\ rc = "none"
  /\ written = Nothing
  /\ sent = <<>>
  /\ handled = <<>>
  /\ failure = "none"
  /\ conns = 0

-----------------------------------------------------------------------------
(* The application                                                         *)

\* Reduction: packets are sent between two packets that are read, and calls are made when
\* nothing is under way.  They commute with the steps of reading, which look at nothing
\* that they change but the end of wire, and stop anywhere anyway.
BetweenPackets == incoming.command = 0
Quiet == BetweenPackets /\ wire = <<>>

\* Calls are atomic here: the other steps wait until a call has returned
Returned == rc = "none"
NoCall == Returned /\ UNCHANGED <<rc, written>>

ConnVars == <<sock, state, incoming, wire, sent, handled, failure, conns>>

\* The builders of properties of the Swift client and tryAdd
Chosen(wanted) == IF version = "v5" THEN Built(wanted) ELSE <<>>

\* A will goes out with the next CONNECT only: it is changed while there is no connection
NextWill == Returned /\ ~sock /\ BetweenPackets

\* Mosquitto.setWill.  Before the first connect the handle does not speak MQTT 5, so that a
\* will with properties is refused.
SetWill ==
  /\ NextWill
  /\ \E i \in DOMAIN Wills :
    LET verdict == WillVerdict(mosq.protocol, [Wills[i] EXCEPT !.props = Chosen(@)]) IN
    /\ rc' = verdict
    /\ mosq' = IF verdict = "SUCCESS" THEN [mosq EXCEPT !.will = {i}] ELSE mosq
  /\ UNCHANGED <<version, written>> /\ UNCHANGED ConnVars

\* Mosquitto.clearWill
ClearWill ==
  /\ NextWill
  /\ rc' = "SUCCESS"
  /\ mosq' = [mosq EXCEPT !.will = {}]
  /\ UNCHANGED <<version, written>> /\ UNCHANGED ConnVars

\* mosquitto_int_option, as setupMosquitto calls it
IntOptions(m) ==
  [m EXCEPT !.protocol = version,
            !.receiveMaximum = IF version # "v5" THEN @
                               ELSE IF ReceiveOption = 0 THEN 65535 ELSE ReceiveOption]

\* util__random_bytes: which letters they are does not matter
GeneratedId == [i \in 1..23 |-> 109]

\* What send__connect sends: the properties with a RECEIVE_MAXIMUM in any case
ConnectPacket(m, props) ==
  [id |-> m.id, username |-> m.username, password |-> m.password, keepalive |-> m.keepalive,
   clean |-> m.clean,
   will |-> {[Wills[i] EXCEPT !.props = Chosen(@)] : i \in m.will},
   props |-> IF m.protocol # "v5" \/ Has(props, ReceiveMaximum) THEN props
             ELSE Append(props, Prop(ReceiveMaximum, m.receiveMaximum))]

ConnectTexts(c) ==
  c.id \cup c.username \cup c.password \cup AllTexts(c.props)
  \cup UNION {{w.payload} \cup AllTexts(w.props) : w \in c.will}

\* mosquitto__reconnect and send__connect.  A CONNECT for which packet__alloc has no fixed
\* header leaves no connection.
Opens(m, props) ==
  LET c == ConnectPacket(m, props)
      draft == ConnectDraft(m.protocol, c)
      fits == Allocates(draft)
  IN
  /\ conns < MaxConns
  /\ mosq' = [m EXCEPT !.receiveMaximum = Value(props, ReceiveMaximum, @)]
  /\ sock' = fits
  /\ state' = IF fits THEN "connected" ELSE "new"
  /\ incoming' = Clean
  /\ wire' = <<>>
  /\ rc' = IF fits THEN "SUCCESS" ELSE "PAYLOAD_SIZE"
  /\ written' = IF fits THEN Lengths("CONNECT", draft, ConnectTexts(c), FALSE) ELSE written
  /\ sent' = <<>> /\ handled' = <<>> /\ failure' = "none"
  /\ conns' = IF fits THEN conns + 1 ELSE conns

\* Mosquitto.connect: setupMosquitto and mosquitto_connect_bind_v5
Connect ==
  /\ Returned /\ conns = 0
  /\ \E c \in Connects :
    LET props == Chosen(c.props)
        named == Credentials(mosq, version, c.username, c.password)
        m == [IntOptions(mosq) EXCEPT !.username = named.username, !.password = named.password]
        verdict == ConnectVerdict([c EXCEPT !.props = props])
    IN /\ IF verdict = "SUCCESS"
          THEN Opens([m EXCEPT !.keepalive = c.keepalive, !.clean = c.clean,
                               !.id = IF @ = {} /\ version # "v5" THEN {GeneratedId} ELSE @],
                     props)
          ELSE /\ rc' = verdict
               /\ mosq' = m
               /\ UNCHANGED written /\ UNCHANGED ConnVars
       /\ UNCHANGED version

\* mosquitto_reconnect, by the network thread, which MOSQ_ERR_PROTOCOL and MOSQ_ERR_NOMEM
\* end: without properties
Reconnect ==
  /\ Returned
  /\ ~sock /\ conns > 0 /\ state # "disconnected" /\ failure \notin {"PROTOCOL", "NOMEM"}
  /\ Opens(mosq, <<>>)
  /\ UNCHANGED version

\* Nothing is queued
Refuses(code) == rc' = code /\ UNCHANGED written

\* The call returns
Return ==
  /\ ~Returned /\ rc # "crashed"
  /\ rc' = "none"
  /\ written' = Nothing
  /\ UNCHANGED <<mosq, version>> /\ UNCHANGED ConnVars

\* What becomes of the packet for an accepted call.  A PUBLISH is looked at again with its
\* real length, and packet__alloc refuses what it has no fixed header for.
SendVerdict(p, draft) ==
  CASE p.kind = "PUBLISH" /\ Oversize(mosq.maximumPacketSize, draft.announced) -> "OVERSIZE_PACKET"
    [] ~Allocates(draft) -> "PAYLOAD_SIZE"
    [] OTHER -> "SUCCESS"

\* With properties left out it writes past the packet that was allocated: an assertion of
\* packet__write_byte or packet__write_bytes ends the program, if it is compiled.
Sends(p) ==
  LET draft == DraftOf(mosq.protocol, p)
      verdict == SendVerdict(p, draft)
      dropped == p.kind = "PUBLISH" /\ DropsProperties(mosq.protocol, p)
  IN
  IF verdict # "SUCCESS" THEN Refuses(verdict) /\ UNCHANGED <<wire, sent>>
  ELSE /\ rc' \in IF dropped THEN {"SUCCESS", "crashed"} ELSE {"SUCCESS"}
       /\ written' = Lengths(p.kind, draft, AllTexts(p.props), dropped)
       /\ \/ UNCHANGED <<wire, sent>>
          \* the client is subscribed to what it publishes, and the broker can read it
          \/ /\ p.kind = "PUBLISH" /\ written'.uncut /\ ~dropped
             /\ Len(sent) \in 1..MaxSent - 1
             /\ wire' = wire \o PacketBytes(draft)
             /\ sent' = Append(sent, p)

\* mosquitto_publish_v5, mosquitto_subscribe_v5, mosquitto_unsubscribe_v5 and
\* mosquitto_disconnect_v5
Call ==
  /\ Returned /\ sock /\ Quiet
  /\ \E r \in Requests :
    LET p == [r EXCEPT !.props = Chosen(@)]
        verdict == CallVerdict(mosq.protocol, mosq, p)
    IN /\ IF verdict = "SUCCESS" /\ p.kind = "PUBLISH" /\ p.qos > 0 /\ ~Copyable(p.props)
          THEN \* strdup() of a null pointer
               Refuses("crashed") /\ UNCHANGED <<wire, sent, state>>
          ELSE IF verdict = "SUCCESS"
          THEN /\ Sends(p)
               /\ state' = IF p.kind = "DISCONNECT" THEN "disconnected" ELSE state
          ELSE Refuses(verdict) /\ UNCHANGED <<wire, sent, state>>
       /\ UNCHANGED <<mosq, version, sock, incoming, handled, failure, conns>>

-----------------------------------------------------------------------------
(* The broker and the network                                              *)

\* Properties and reasons are for MQTT 5
Fits(b) == version = "v5" \/ b.plain

BrokerBytes(p) == IF p.kind = "raw" THEN p.bytes ELSE PacketBytes(DraftOf(version, p))

BrokerSends ==
  /\ NoCall /\ sock /\ BetweenPackets
  /\ Len(sent) < MaxSent
  /\ \E b \in IF sent = <<>> THEN Greetings ELSE BrokerPackets :
       /\ Fits(b)
       /\ wire' = wire \o BrokerBytes(b.packet)
       /\ sent' = Append(sent, b.packet)
  /\ UNCHANGED <<mosq, version, sock, state, incoming, handled, failure, conns>>

\* mosquitto__loop_rc_handle: what was read of a packet stays where it is
Closes == sock' = FALSE /\ wire' = <<>>

Lose ==
  /\ NoCall /\ sock
  /\ Closes
  /\ UNCHANGED <<mosq, version, state, incoming, sent, handled, failure, conns>>

-----------------------------------------------------------------------------
(* packet__read.  It stops wherever no more bytes have arrived.            *)

ReadCommand ==
  /\ NoCall /\ sock /\ wire # <<>>
  /\ incoming.command = 0
  /\ incoming' = [incoming EXCEPT !.command = Head(wire)]
  /\ wire' = Tail(wire)
  /\ UNCHANGED <<mosq, version, sock, state, sent, handled, failure, conns>>

\* count is negative while there are digits to come
ReadLength ==
  LET byte == Head(wire)
      count == incoming.count - 1
      length == incoming.length + (byte % 128) * incoming.mult
  IN /\ NoCall /\ sock /\ wire # <<>>
     /\ incoming.command # 0 /\ incoming.count <= 0
     /\ IF count < -4
        THEN /\ Closes
             /\ failure' = "PROTOCOL"
             /\ incoming' = [incoming EXCEPT !.count = count]
        ELSE /\ incoming' = [incoming EXCEPT
                  !.count = IF byte < 128 THEN -count ELSE count,
                  !.length = length,
                  !.mult = @ * 128,
                  !.toProcess = IF byte < 128 THEN length ELSE @]
             /\ wire' = Tail(wire)
             /\ UNCHANGED <<sock, failure>>
     /\ UNCHANGED <<mosq, version, state, sent, handled, conns>>

ReadPayload ==
  /\ NoCall /\ sock /\ wire # <<>>
  /\ incoming.count > 0 /\ incoming.toProcess > 0
  /\ \E piece \in Pieces :
       LET n == Min({piece, incoming.toProcess, Len(wire)}) IN
       /\ incoming' = [incoming EXCEPT
            !.payload = @ \o SubSeq(wire, 1, n), !.toProcess = @ - n]
       /\ wire' = SubSeq(wire, n + 1, Len(wire))
  /\ UNCHANGED <<mosq, version, sock, state, sent, handled, failure, conns>>

\* handle__connack
Learns(p) ==
  [mosq EXCEPT
    !.id = IF Has(p.props, AssignedClientIdentifier)
           THEN {Value(p.props, AssignedClientIdentifier, <<>>)} ELSE @,
    !.maximumQos = Value(p.props, MaximumQos, @),
    !.keepalive = Value(p.props, ServerKeepAlive, @),
    !.maximumPacketSize = Value(p.props, MaximumPacketSize, @)]

NeedActive == {"PUBLISH", "PUBACK", "PUBREC", "PUBREL", "PUBCOMP", "SUBACK", "UNSUBACK",
               "PINGREQ", "PINGRESP"}

\* What becomes of a packet that was decoded
HandleDecoded(p) ==
  CASE p.kind = "CONNACK" ->
         /\ mosq' = Learns(p)
         /\ handled' = Append(handled, p)
         /\ IF p.reason = 0
            THEN state' = "active" /\ UNCHANGED <<sock, wire, failure>>
            ELSE /\ Closes
                 /\ failure' = IF p.reason \in 1..5 THEN "CONN_REFUSED" ELSE "PROTOCOL"
                 /\ UNCHANGED state
    [] p.kind = "DISCONNECT" ->
         /\ state' = "disconnected"
         /\ Closes
         /\ handled' = Append(handled, p)
         /\ UNCHANGED <<mosq, failure>>
    [] OTHER ->
         /\ handled' = Append(handled, p)
         /\ UNCHANGED <<mosq, state, sock, wire, failure>>

\* The handlers of these kinds look at the state before they decode anything
NeedsActive(command) ==
  \E kind \in NeedActive : CommandByte(kind) \div 16 = command \div 16

\* Why a packet is not accepted
Objection(command, result) ==
  CASE NeedsActive(command) /\ state # "active" -> "PROTOCOL"
    [] ~Succeeds(result) -> result.rc
    [] /\ result.value.kind = "CONNACK"
       /\ Has(result.value.props, AssignedClientIdentifier) /\ mosq.id # {} -> "PROTOCOL"
    [] OTHER -> "SUCCESS"

\* handle__packet, and packet__cleanup behind it
Handle ==
  /\ NoCall /\ sock
  /\ incoming.count > 0 /\ incoming.toProcess = 0
  /\ \E result \in {HandlePacket(mosq.protocol, incoming.command, incoming.payload)} :
       IF Objection(incoming.command, result) = "SUCCESS" THEN HandleDecoded(result.value)
       ELSE /\ Closes
            /\ failure' = Objection(incoming.command, result)
            /\ UNCHANGED <<mosq, state, handled>>
  /\ incoming' = Clean
  /\ UNCHANGED <<version, sent, conns>>

\* The program ends when it has crashed
Next ==
  \/ SetWill \/ ClearWill \/ Connect \/ Reconnect \/ Call \/ Return
  \/ BrokerSends \/ Lose
  \/ ReadCommand \/ ReadLength \/ ReadPayload \/ Handle

Spec == Init /\ [][Next]_vars

-----------------------------------------------------------------------------
(* Properties                                                              *)

\* What the client does not take although MQTT allows it, besides malformed packets and
\* those before the CONNACK: an assigned identifier for a client that has one, a DISCONNECT
\* that leaves out its reason, which the client's own does, several subscription identifiers
\* in a PUBLISH, and a topic alias
Unwelcome(p) ==
  \/ p.kind = "raw"
  \/ p.kind \in NeedActive /\ state # "active"
  \/ p.kind = "CONNACK" /\ Has(p.props, AssignedClientIdentifier) /\ mosq.id # {}
  \/ p.kind = "DISCONNECT" /\ p.reason = 0 /\ p.props = <<>>
  \/ p.kind = "PUBLISH" /\ p.topic = <<>>
  \/ p.kind = "PUBLISH" /\ SeveralIds(p.props)

\* Whatever the pieces in which bytes arrive, and after a connection that ended in the
\* middle of a packet, the client decodes the packets of this connection as they were sent,
\* messages of its own that the broker relays among them, and refuses none but the
\* unwelcome ones (packet_mosq.c:313-498, read_handle.c, handle_*.c, send_*.c,
\* connect.c:175).
RoundTrip ==
  /\ IsPrefix(handled, sent)
  /\ sock /\ wire = <<>> /\ incoming = NoPacket => handled = sent
  /\ failure # "none" =>
       \/ Len(handled) < Len(sent) /\ Unwelcome(sent[Len(handled) + 1])
       \/ handled # <<>> /\ Last(handled).kind = "CONNACK" /\ Last(handled).reason # 0

\* A packet is as long as its fixed header says, what an encoder reckons is what it writes,
\* unless one of its texts has more bytes than a length of two bytes can say, or the properties
\* of a PUBLISH have so many that they are left out but for their length.  Topics and
\* filters are checked for that; the payload of a will and the password are not, the
\* identifier of the client, the user name and the texts of properties one byte too late
\* (send_connect.c:84-205, send_publish.c:132-215, send_subscribe.c, property_mosq.c:265-432,
\* utf8_mosq.c:31).
AnnouncedIsWritten == written.announced = written.body <=> written.uncut /\ ~written.dropped

\* Of the fixed header a PUBLISH exceeds the maximum packet size of the broker with the byte
\* of the command only, which packet__check_oversize forgets; a SUBSCRIBE or UNSUBSCRIBE with
\* all of it at most, because their callers forget the length of the properties
\* (packet_mosq.c:187-199, actions.c:202-208, actions.c:267-273).
OversizeByHeader ==
  written.limit > 0 =>
    /\ written.kind = "PUBLISH" => written.total <= written.limit + 1
    /\ written.kind \in {"SUBSCRIBE", "UNSUBSCRIBE"} => written.announced <= written.limit

=====
