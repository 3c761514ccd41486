------------------------------- MODULE MCWire -------------------------------
(* Wills, calls and packets of the broker for model checking Wire. *)
EXTENDS Wire

Letters(n) == [i \in 1..n |-> 97]

MCIds == {{}, {<<105>>}}

\* The second has properties of more than 127 bytes and a payload of more than 65535
MCWills ==
  <<[topic |-> Letters(1), payload |-> Letters(2), qos |-> 2, retain |-> FALSE, props |-> <<>>],
    [topic |-> Letters(1), payload |-> Letters(65536), qos |-> 1, retain |-> TRUE,
     props |-> <<Prop(24, 10), Prop(3, Letters(130))>>],
    [topic |-> <<Plus>>, payload |-> <<>>, qos |-> 0, retain |-> FALSE, props |-> <<>>],
    [topic |-> <<255>>, payload |-> <<>>, qos |-> 0, retain |-> FALSE, props |-> <<>>],
    [topic |-> Letters(1), payload |-> <<>>, qos |-> 0, retain |-> FALSE,
     props |-> <<Prop(TopicAlias, 1)>>]>>

ConnectCall(username, password, keepalive, props) ==
  [username |-> username, password |-> password, keepalive |-> keepalive, clean |-> TRUE,
   props |-> props]

MCConnects ==
  {ConnectCall({}, {}, 60, <<>>),
   ConnectCall({Letters(2)}, {Letters(130)}, 60,
              <<Prop(17, 70000), Prop(UserProperty, <<Letters(1), Letters(2)>>), Prop(ReceiveMaximum, 5)>>),
   ConnectCall({}, {Letters(1)}, 60, <<Prop(25, 2)>>),
   ConnectCall({<<128>>}, {}, 4, <<>>)}

Publish(topic, size, qos, props) ==
  [kind |-> "PUBLISH", dup |-> FALSE, qos |-> qos, retain |-> FALSE, topic |-> topic,
   mid |-> IF qos = 0 THEN 0 ELSE 300, props |-> props, payload |-> Letters(size)]

Filters(kind, filters, options, props) ==
  [kind |-> kind, mid |-> 7, filters |-> filters, qos |-> 1, options |-> options,
   props |-> props]

Disconnect(reason, props) == [kind |-> "DISCONNECT", reason |-> reason, props |-> props]

\* Two bytes of characters beyond ASCII, one of them overlong or a surrogate
Accent == <<195, 169>>
Overlong == <<224, 130, 169>>
Surrogate == <<237, 160, 128>>
Emoji == <<240, 159, 152, 128>>

MCRequests ==
  {Publish(Letters(1), 0, 0, <<>>),
   Publish(<<97, Slash>> \o Accent \o Emoji, 3, 2, <<>>),
   \* around a remaining length of 127
   Publish(Letters(1), 123, 0, <<>>), Publish(Letters(1), 124, 0, <<>>), Publish(Letters(1), 125, 0, <<>>),
   \* around a maximum packet size of 20
   Publish(Letters(1), 12, 0, <<>>), Publish(Letters(1), 13, 0, <<>>), Publish(Letters(1), 14, 0, <<>>),
   Publish(Letters(1), 15, 0, <<>>), Publish(Letters(1), 16, 0, <<>>),
   Publish(Letters(1), 14, 1, <<>>),
   \* every type of property, around a length of 127
   Publish(Letters(1), 1, 1, <<Prop(1, 1), Prop(MessageExpiryInterval, 16777217), Prop(3, Letters(2)),
                            Prop(9, <<>>), Prop(TopicAlias, 258),
                            Prop(UserProperty, <<Letters(1), Letters(2)>>)>>),
   Publish(Letters(1), 1, 0, <<Prop(9, Letters(124))>>), Publish(Letters(1), 1, 0, <<Prop(9, Letters(125))>>),
   Publish(Letters(1), 1, 0, <<Prop(SubscriptionIdentifier, 127)>>),
   Publish(Letters(1), 1, 0, <<Prop(SubscriptionIdentifier, 128)>>),
   Publish(Letters(1), 1, 0, <<Prop(SubscriptionIdentifier, 268435456)>>),
   Publish(Letters(1), 1, 1, <<Prop(8, <<>>)>>),
   Publish(Letters(1), 1, 0, <<Prop(8, <<>>)>>),
   \* refused
   Publish(<<>>, 1, 0, <<>>), Publish(<<>>, 1, 0, <<Prop(TopicAlias, 1)>>),
   Publish(<<97, Plus>>, 1, 0, <<>>), Publish(Overlong, 1, 0, <<>>), Publish(Surrogate, 1, 0, <<>>),
   Publish(Letters(1), 1, 0, <<Prop(17, 1)>>), Publish(Letters(1), 1, 0, <<Prop(3, Letters(1)), Prop(3, Letters(1))>>),
   Filters("SUBSCRIBE", <<<<97, Slash, Hash>>>>, 0, <<>>),
   Filters("SUBSCRIBE", <<Letters(1), <<Plus>>>>, 36, <<Prop(SubscriptionIdentifier, 200)>>),
   Filters("SUBSCRIBE", <<Letters(13)>>, 0, <<>>), Filters("SUBSCRIBE", <<Letters(14)>>, 0, <<>>),
   Filters("SUBSCRIBE", <<Letters(1)>>, 48, <<>>), Filters("SUBSCRIBE", <<Letters(1)>>, 64, <<>>),
   Filters("SUBSCRIBE", <<<<97, Hash>>>>, 0, <<>>),
   Filters("UNSUBSCRIBE", <<Letters(2)>>, 0, <<Prop(UserProperty, <<Letters(1), <<>>>>)>>),
   Filters("UNSUBSCRIBE", <<Letters(14)>>, 0, <<>>), Filters("UNSUBSCRIBE", <<Letters(15)>>, 0, <<>>),
   Disconnect(0, <<>>), Disconnect(4, <<>>), Disconnect(0, <<Prop(17, 5)>>),
   Disconnect(0, <<Prop(17, 5), Prop(3, Letters(1))>>)}

Plain(p) == [plain |-> TRUE, packet |-> p]
V5(p) == [plain |-> FALSE, packet |-> p]
Raw(bytes) == Plain([kind |-> "raw", bytes |-> bytes])

Connack(flags, reason, props) ==
  [kind |-> "CONNACK", flags |-> flags, reason |-> reason, props |-> props]
Ack(kind, reason, props) == [kind |-> kind, mid |-> 513, reason |-> reason, props |-> props]

MCGreetings ==
  {Plain(Connack(1, 0, <<>>)),
   V5(Connack(0, 0, <<Prop(MaximumPacketSize, 20), Prop(MaximumQos, 1), Prop(ServerKeepAlive, 300)>>)),
   V5(Connack(0, 0, <<Prop(AssignedClientIdentifier, Letters(3)), Prop(UserProperty, <<Letters(1), <<>>>>)>>)),
   Plain(Connack(0, 5, <<>>)), V5(Connack(0, 135, <<Prop(31, Letters(2))>>)),
   V5(Disconnect(142, <<>>)), Raw(<<48, 255, 255, 255, 255, 1>>),
   \* a reason that is missing
   V5([kind |-> "raw", bytes |-> <<240, 0>>])}

MCBrokerPackets ==
  {Plain(Publish(Letters(2), 130, 0, <<>>)),
   V5(Publish(Letters(1), 1, 1, <<Prop(SubscriptionIdentifier, 300), Prop(2, 65536)>>)),
   V5(Publish(Letters(1), 1, 0, <<Prop(SubscriptionIdentifier, 1), Prop(SubscriptionIdentifier, 2)>>)),
   Plain(Ack("PUBACK", 0, <<>>)), V5(Ack("PUBACK", 16, <<>>)),
   Plain(Ack("PUBREC", 0, <<>>)), V5(Ack("PUBREC", 128, <<Prop(31, Letters(1))>>)),
   Plain(Ack("PUBREL", 0, <<>>)), V5(Ack("PUBREL", 146, <<>>)), Plain(Ack("PUBCOMP", 0, <<>>)),
   Plain([kind |-> "SUBACK", mid |-> 7, props |-> <<>>, granted |-> <<1, 128>>]),
   V5([kind |-> "UNSUBACK", mid |-> 7, props |-> <<Prop(31, Letters(1))>>]),
   Plain([kind |-> "PINGRESP"]),
   V5(Disconnect(142, <<Prop(28, Letters(1))>>)), V5(Disconnect(0, <<>>)),
   V5([kind |-> "AUTH", reason |-> 24, props |-> <<Prop(21, Letters(1)), Prop(22, <<7>>)>>]),
   \* a SUBSCRIBE, an identifier 0, a QoS of 3, a text beyond the end
   Raw(<<130, 2, 0, 1>>), Raw(<<64, 2, 0, 0>>),
   Raw(<<54, 6, 0, 1, 97, 0, 9, 0>>), Raw(<<48, 3, 0, 9, 97>>),
   \* properties of a wrong length, an unknown one, a subscription identifier that ends in 0
   V5([kind |-> "raw", bytes |-> <<48, 5, 0, 1, 97, 4, 1>>]),
   V5([kind |-> "raw", bytes |-> <<48, 6, 0, 1, 97, 2, 5, 0>>]),
   V5([kind |-> "raw", bytes |-> <<48, 7, 0, 1, 97, 3, 11, 129, 0>>])}

=============================================================================
