----------------------------- MODULE InMessages -----------------------------
(***************************************************************************)
(* The incoming half of the QoS machinery of the client: mosq->msgs_in,    *)
(* handle__publish, handle__pubrel and the reset of the list, with a       *)
(* broker that sends within the client's RECEIVE_MAXIMUM over connections  *)
(* that may be lost.                                                       *)
(*                                                                         *)
(* Only the network thread touches msgs_in, so a handler is one step.  The *)
(* broker is not part of the repository: it numbers its messages, repeats  *)
(* on a new connection what was not acknowledged on the last one, or       *)
(* forgets it when it does not resume the session.                         *)
(***************************************************************************)
EXTENDS Integers, Sequences, FiniteSets, SequencesExt

CONSTANTS
  MaxMessages,     \* bound: messages the broker sends
  MaxMid,          \* largest packet identifier the broker uses: 65535
  Levels,          \* QoS levels of the broker's messages
  ReceiveMaximum,  \* msgs_in.inflight_maximum, which CONNECT announces (20)
  Resumes,         \* whether a CONNECT may find, or not find, the session
  MaxLosses        \* bound: connections lost

ASSUME InAssumption ==
  /\ MaxMessages \in Nat
  /\ MaxMid \in Nat \ {0}
  /\ ReceiveMaximum \in Nat \ {0}
  /\ Levels \subseteq 0..2
  /\ Resumes \subseteq BOOLEAN
  /\ MaxLosses \in Nat

VARIABLES
  list,       \* mosq->msgs_in.inflight, QoS 2 messages that wait for a PUBREL
  queueLen,   \* mosq->msgs_in.queue_len
  quota,      \* mosq->msgs_in.inflight_quota
  link,       \* mosq->sock and mosq->state: "down", "connected" or "active"
  toClient,   \* packets on their way to the client
  toBroker,   \* packets on their way to the broker
  session,    \* the broker's messages that are not acknowledged, in order
  begun,      \* messages the broker has sent so far
  done,       \* ghost: messages whose acknowledgement the broker has got
  received,   \* ghost: how often the client has accepted a PUBLISH of a message
  callbacks,  \* ghost: how often on_message_v5 has been called for a message
  refused,    \* ghost: a PUBLISH was answered with MOSQ_ERR_PROTOCOL
  losses      \* connections lost so far

listVars == <<list, queueLen, quota>>
sessionVars == <<session, begun, done>>
ghostVars == <<received, callbacks, refused>>
vars == <<list, queueLen, quota, link, toClient, toBroker, session, begun, done,
          received, callbacks, refused, losses>>

Ids == 1..MaxMessages
Mids == 1..MaxMid
Entry == [id : Ids, mid : Mids]
Message == [id : Ids, mid : Mids, qos : {1, 2}, phase : {"publish", "release"}]

PublishPacket(id, mid, qos) == [type |-> "PUBLISH", id |-> id, mid |-> mid, qos |-> qos]
Command(type, mid) == [type |-> type, mid |-> mid]
Connect == Command("CONNECT", 0)
Connack == Command("CONNACK", 0)

PublishPackets == [type : {"PUBLISH"}, id : Ids, mid : {0}, qos : {0}]
                    \cup [type : {"PUBLISH"}, id : Ids, mid : Mids, qos : {1, 2}]
Commands == [type : {"CONNECT", "CONNACK", "PUBACK", "PUBREC", "PUBREL", "PUBCOMP"},
             mid : 0..MaxMid]

\* The options are set; what quota is before the first reset has no effect
Init ==
  /\ list = <<>>
  /\ queueLen = 0
  /\ quota = ReceiveMaximum
  /\ link = "down"
  /\ toClient = <<>>
  /\ toBroker = <<>>
  /\ session = <<>>
  /\ begun = 0
  /\ done = {}
  /\ received = [id \in Ids |-> 0]
  /\ callbacks = [id \in Ids |-> 0]
  /\ refused = FALSE
  /\ losses = 0

-----------------------------------------------------------------------------
(* The client                                                              *)

\* Mutant: the PUBCOMP gives nothing back
CreditedNot(q) == q

\* util__increment_receive_quota, called by send__puback and send__pubcomp
Credited(q) == IF q < ReceiveMaximum THEN q + 1 ELSE q

\* util__decrement_receive_quota
Charged(q) == IF q > 0 THEN q - 1 ELSE q

\* Mutants: the list is emptied; the quota goes below zero
NothingKept == <<>>
QuotaBelowZero == ReceiveMaximum - Len(list)

\* message__reconnect_reset: entries of QoS 2 stay, and the list has no others
KeptList == list
QuotaAfterReset ==
  IF Len(list) <= ReceiveMaximum THEN ReceiveMaximum - Len(list) ELSE 0

\* mosquitto__reconnect: reset, socket, CONNECT.  A RECEIVE_MAXIMUM property given to
\* mosquitto_connect_v5 makes send__connect set the quota anew.
Reconnect ==
  /\ link = "down"
  /\ list' = KeptList
  /\ queueLen' = Len(list)
  /\ quota' \in {QuotaAfterReset, ReceiveMaximum}
  /\ link' = "connected"
  /\ toBroker' = <<Connect>>
  /\ UNCHANGED <<toClient, sessionVars, ghostVars, losses>>

\* The next packet, for its handler
Packet(type) == toClient # <<>> /\ Head(toClient).type = type
Reply(type, mid) == toBroker' = Append(toBroker, Command(type, mid))

Accepted ==
  /\ Packet("CONNACK")
  /\ link' = "active"
  /\ toClient' = Tail(toClient)
  /\ UNCHANGED <<listVars, toBroker, sessionVars, ghostVars, losses>>

\* Mutant: the last unit of the quota is not used
AdmitsOneLess(packet) == packet.qos = 0 \/ quota > 1

\* handle__publish: a message of QoS 1 or 2 needs quota
Admits(packet) == packet.qos = 0 \/ quota > 0

Count(f, id) == f' = [f EXCEPT ![id] = @ + 1]

\* QoS 0 and 1: the PUBACK (a charge and a credit of the quota), then on_message_v5
PublishDelivers ==
  /\ Packet("PUBLISH")
  /\ link = "active"
  /\ LET packet == Head(toClient) IN
       /\ packet.qos < 2
       /\ Admits(packet)
       /\ \/ packet.qos = 0 /\ UNCHANGED <<quota, toBroker>>
          \/ /\ packet.qos = 1
             /\ quota' = Credited(Charged(quota))
             /\ Reply("PUBACK", packet.mid)
       /\ Count(received, packet.id)
       /\ Count(callbacks, packet.id)
  /\ toClient' = Tail(toClient)
  /\ UNCHANGED <<list, queueLen, link, sessionVars, refused, losses>>

\* QoS 2: the PUBREC, then the message is appended whether or not one with its
\* identifier is on the list
PublishStores ==
  /\ Packet("PUBLISH")
  /\ link = "active"
  /\ LET packet == Head(toClient) IN
       /\ packet.qos = 2
       /\ Admits(packet)
       /\ quota' = Charged(quota)
       /\ Reply("PUBREC", packet.mid)
       /\ list' = Append(list, [id |-> packet.id, mid |-> packet.mid])
       /\ Count(received, packet.id)
  /\ queueLen' = queueLen + 1
  /\ toClient' = Tail(toClient)
  /\ UNCHANGED <<link, sessionVars, callbacks, refused, losses>>

\* Otherwise MOSQ_ERR_PROTOCOL, and mosquitto__loop_rc_handle closes the socket.  That the
\* application connects again is left to Reconnect.
Closed == link' = "down" /\ toClient' = <<>> /\ toBroker' = <<>>
PublishRefused ==
  /\ Packet("PUBLISH")
  /\ link # "active" \/ ~Admits(Head(toClient))
  /\ Closed
  /\ refused' = TRUE
  /\ UNCHANGED <<listVars, sessionVars, received, callbacks, losses>>

FirstWith(i, mid) ==
  /\ i \in DOMAIN list
  /\ list[i].mid = mid
  /\ \A j \in DOMAIN list : j < i => list[j].mid # mid

\* Mutant: the message stays on the list
TakenNot(i) == i \in DOMAIN list /\ UNCHANGED <<list, queueLen>>

\* message__remove
Taken(i) == list' = RemoveAt(list, i) /\ queueLen' = queueLen - 1

\* Mutant: a repeated PUBREL is not answered
CompleteIfFound(mid) ==
  IF \E i \in DOMAIN list : list[i].mid = mid THEN Reply("PUBCOMP", mid)
                                              ELSE UNCHANGED toBroker

\* send__pubcomp
Complete(mid) == Reply("PUBCOMP", mid)

\* handle__pubrel: the PUBCOMP and the credit come first, then the oldest message with
\* the identifier is removed and handed over, if there is one
Pubrel ==
  /\ Packet("PUBREL")
  /\ link = "active"
  /\ LET mid == Head(toClient).mid IN
       /\ quota' = Credited(quota)
       /\ Complete(mid)
       /\ \/ \E i \in DOMAIN list :
               FirstWith(i, mid) /\ Taken(i) /\ Count(callbacks, list[i].id)
          \/ /\ \A i \in DOMAIN list : list[i].mid # mid
             /\ UNCHANGED <<list, queueLen, callbacks>>
  /\ toClient' = Tail(toClient)
  /\ UNCHANGED <<link, sessionVars, received, refused, losses>>

-----------------------------------------------------------------------------
(* The broker and the connection                                           *)

\* What a message of a resumed session is repeated as
Again(m) == IF m.phase = "publish" THEN PublishPacket(m.id, m.mid, m.qos)
                                   ELSE Command("PUBREL", m.mid)

BrokerConnect ==
  /\ toBroker # <<>>
  /\ Head(toBroker) = Connect
  /\ \/ /\ TRUE \in Resumes
        /\ toClient' = <<Connack>> \o [i \in DOMAIN session |-> Again(session[i])]
        /\ UNCHANGED session
     \/ /\ FALSE \in Resumes
        /\ toClient' = <<Connack>>
        /\ session' = <<>>
  /\ toBroker' = Tail(toBroker)
  /\ UNCHANGED <<listVars, link, begun, done, ghostVars, losses>>

MidsInUse == {session[i].mid : i \in DOMAIN session}

\* A new message, within the client's RECEIVE_MAXIMUM
BrokerSend ==
  /\ begun < MaxMessages
  /\ link # "down"
  /\ Connect \notin Range(toBroker)
  /\ begun' = begun + 1
  /\ \/ /\ 0 \in Levels
        /\ toClient' = Append(toClient, PublishPacket(begun + 1, 0, 0))
        /\ UNCHANGED session
     \/ \E qos \in Levels \ {0}, mid \in Mids \ MidsInUse :
          /\ Len(session) < ReceiveMaximum
          /\ session' = Append(session, [id |-> begun + 1, mid |-> mid, qos |-> qos,
                                         phase |-> "publish"])
          /\ toClient' = Append(toClient, PublishPacket(begun + 1, mid, qos))
  /\ UNCHANGED <<listVars, link, toBroker, done, ghostVars, losses>>

BrokerAcknowledged ==
  /\ toBroker # <<>>
  /\ \E i \in DOMAIN session :
       /\ session[i].mid = Head(toBroker).mid
       /\ \/ /\ Head(toBroker).type \in {"PUBACK", "PUBCOMP"}
             /\ session' = RemoveAt(session, i)
             /\ done' = done \cup {session[i].id}
             /\ UNCHANGED toClient
          \/ /\ Head(toBroker).type = "PUBREC"
             /\ session' = [session EXCEPT ![i].phase = "release"]
             /\ toClient' = Append(toClient, Command("PUBREL", session[i].mid))
             /\ UNCHANGED done
  /\ toBroker' = Tail(toBroker)
  /\ UNCHANGED <<listVars, link, begun, ghostVars, losses>>

Lose ==
  /\ link # "down"
  /\ losses < MaxLosses
  /\ losses' = losses + 1
  /\ Closed
  /\ UNCHANGED <<listVars, sessionVars, ghostVars>>

-----------------------------------------------------------------------------
Handle == Accepted \/ PublishDelivers \/ PublishStores \/ PublishRefused \/ Pubrel
BrokerAnswers == BrokerConnect \/ BrokerAcknowledged

Next == Reconnect \/ Handle \/ BrokerAnswers \/ BrokerSend \/ Lose

Spec == Init /\ [][Next]_vars

\* The network thread connects and reads, the broker reads; nothing obliges the broker to
\* send new messages, or connections to stay up.
Fairness == WF_vars(Reconnect) /\ WF_vars(Handle) /\ WF_vars(BrokerAnswers)

FairSpec == Spec /\ Fairness

-----------------------------------------------------------------------------
(* Properties                                                              *)

\* Types of msgs_in, the two channels and the broker's session.
InTypeOK ==
  /\ list \in Seq(Entry)
  /\ queueLen \in Nat
  /\ quota \in Nat
  /\ link \in {"down", "connected", "active"}
  /\ toClient \in Seq(PublishPackets \cup Commands)
  /\ toBroker \in Seq(Commands)
  /\ session \in Seq(Message)
  /\ begun \in 0..MaxMessages
  /\ done \subseteq Ids
  /\ received \in [Ids -> Nat]
  /\ callbacks \in [Ids -> Nat]
  /\ refused \in BOOLEAN
  /\ losses \in 0..MaxLosses

\* queue_len is the length of the list, and no unit of the receive quota is ever lost:
\* what is not free is held by a message on the list.  handle__publish charges and
\* handle__pubrel credits in separate packets, repeated and dropped by lost connections.
ReceiveQuotaKept ==
  /\ queueLen = Len(list)
  /\ quota <= ReceiveMaximum
  /\ quota + Len(list) >= ReceiveMaximum

Copies(id) == Cardinality({i \in DOMAIN list : list[i].id = id})

\* Every PUBLISH that was accepted ends in exactly one call of on_message_v5, or its
\* message is still on the list: no copy is lost, and none is delivered twice.
EveryCopyOnce == \A id \in Ids : received[id] = callbacks[id] + Copies(id)

\* What the client has acknowledged for good it has delivered, or it can still do so.
NothingLost == \A id \in done : callbacks[id] > 0 \/ Copies(id) > 0

\* A broker that keeps within RECEIVE_MAXIMUM is refused only when an entry of the list
\* is left over from an earlier connection: a copy of the message it repeats, a second
\* copy of another one, or a message the broker has finished with or forgotten.
InSession(id) == \E i \in DOMAIN session : session[i].id = id
LeftOver(i, id) ==
  \/ list[i].id = id
  \/ ~InSession(list[i].id)
  \/ \E j \in DOMAIN list : j # i /\ list[j].id = list[i].id
RefusedOnlyIfLeftOver ==
  Packet("PUBLISH") /\ link = "active" /\ ~Admits(Head(toClient))
    => \E i \in DOMAIN list : LeftOver(i, Head(toClient).id)

\* Every message the broker keeps is acknowledged in the end or dropped with its session,
\* unless the client has refused it: that can go on for ever.
EventuallyAcknowledged ==
  \A id \in Ids : InSession(id) ~> (~InSession(id) \/ refused)

-----------------------------------------------------------------------------
(* A claim of a comment that the code does not meet                        *)

\* handle_pubrel.c on the message it hands over: "Only pass the message on if we have
\* removed it from the queue - this prevents multiple callbacks for the same message."
\* It is about QoS 2 and is checked with Levels = {2}.
AtMostOneCallback == \A id \in Ids : callbacks[id] <= 1

=============================================================================
