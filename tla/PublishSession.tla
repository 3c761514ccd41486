--------------------------- MODULE PublishSession ---------------------------
(***************************************************************************)
(* OutMessages connected to a broker over a TCP connection: the packets of *)
(* wire reach the broker in order, its answers reach Loop in order, and a  *)
(* lost connection drops whatever is under way in both directions.  The    *)
(* broker is not part of the repository; it is modelled from the packets   *)
(* the client's handlers accept.  It resumes its session on a new          *)
(* connection or starts another one (Clean Start, or a session that has    *)
(* expired), answers each packet once and has no errors of its own.        *)
(***************************************************************************)
EXTENDS OutMessages

CONSTANTS
  PublishPhases,  \* values of link in which the application publishes
  Resumes,        \* whether a CONNECT may find, or not find, the session
  MaxLosses       \* bound: connections lost, refused or not established

ASSUME SessionAssumption ==
  /\ PublishPhases \subseteq Links
  /\ Resumes \subseteq BOOLEAN
  /\ MaxLosses \in Nat

VARIABLES
  toClient,   \* packets on their way to the client
  greeted,    \* the broker has answered the CONNECT of this connection
  held,       \* identifiers of QoS 2 messages the broker waits a PUBREL for
  delivered,  \* ghost: delivered[qos][id], how often the broker has taken it
  refused,    \* ghost: messages the broker has refused with an error
  losses,     \* connections lost so far
  demoted     \* ghost: messages whose QoS 2 state one end has forgotten

brokerVars == <<toClient, greeted, held, delivered, refused, losses, demoted>>
sessionVars == <<vars, brokerVars>>

Reply(type, mid) == [type |-> type, mid |-> mid]
Replies == [type : {"CONNACK", "PUBACK", "PUBREC", "PUBREC_ERROR", "PUBCOMP"},
            mid : 0..MaxMid]

SessionInit ==
  /\ Init
  /\ toClient = <<>>
  /\ greeted = FALSE
  /\ held = {}
  /\ delivered = [qos \in {1, 2} |-> [id \in Ids |-> 0]]
  /\ refused = {}
  /\ losses = 0
  /\ demoted = {}

-----------------------------------------------------------------------------
(* The broker                                                              *)

Answer(type, mid) == toClient' = Append(toClient, Reply(type, mid))

Take(packet) ==
  delivered' = [delivered EXCEPT ![packet.qos][packet.id] = @ + 1]

\* A session that is not resumed forgets held: clean_start, or no expiry interval in
\* the CONNECT of mosquitto_reconnect, which carries no properties
BrokerConnect ==
  /\ ~greeted
  /\ Transmit
  /\ Head(wire) = Connect
  /\ greeted' = TRUE
  /\ Answer("CONNACK", 0)
  /\ \/ TRUE \in Resumes /\ UNCHANGED <<held, demoted>>
     \/ /\ FALSE \in Resumes
        /\ held' = {}
        /\ demoted' = demoted \cup {id \in OnList : delivered[2][id] > 0}
  /\ UNCHANGED <<delivered, refused, losses>>

BrokerPublish ==
  /\ greeted
  /\ Transmit
  /\ LET packet == Head(wire) IN
       /\ packet.type = "PUBLISH"
       /\ \/ /\ packet.qos = 1
             /\ Take(packet)
             /\ Answer("PUBACK", packet.mid)
             /\ UNCHANGED <<held, refused>>
          \/ /\ packet.qos = 2
             /\ packet.mid \notin held
             /\ Take(packet)
             /\ held' = held \cup {packet.mid}
             /\ Answer("PUBREC", packet.mid)
             /\ UNCHANGED refused
          \/ /\ packet.qos = 2
             /\ packet.mid \in held
             /\ Answer("PUBREC", packet.mid)
             /\ UNCHANGED <<held, delivered, refused>>
          \/ /\ Rejects
             /\ packet.qos = 2
             /\ packet.mid \notin held
             /\ refused' = refused \cup {packet.id}
             /\ Answer("PUBREC_ERROR", packet.mid)
             /\ UNCHANGED <<held, delivered>>
  /\ UNCHANGED <<greeted, losses, demoted>>

BrokerPubrel ==
  /\ greeted
  /\ Transmit
  /\ Head(wire).type = "PUBREL"
  /\ held' = held \ {Head(wire).mid}
  /\ Answer("PUBCOMP", Head(wire).mid)
  /\ UNCHANGED <<greeted, delivered, refused, losses, demoted>>

BrokerTakes == BrokerConnect \/ BrokerPublish \/ BrokerPubrel

-----------------------------------------------------------------------------
(* The client on this connection                                           *)

Disconnected == toClient' = <<>> /\ greeted' = FALSE

\* The first packet is not a CONNECT: the broker closes the connection
BrokerDrops ==
  /\ ~greeted
  /\ wire # <<>>
  /\ Head(wire) # Connect
  /\ Lose
  /\ Disconnected
  /\ UNCHANGED <<held, delivered, refused, losses, demoted>>

\* packet__read hands the next packet to its handler
Receive ==
  /\ toClient # <<>>
  /\ LET reply == Head(toClient) IN
       \/ reply.type = "CONNACK" /\ ConnackQuota
       \/ reply.type = "PUBACK" /\ AckCredit(reply.mid, 1)
       \/ reply.type = "PUBCOMP" /\ AckCredit(reply.mid, 2)
       \/ reply.type = "PUBREC" /\ Pubrec(reply.mid)
       \/ reply.type = "PUBREC_ERROR" /\ PubrecRejected(reply.mid)
  /\ toClient' = Tail(toClient)
  /\ UNCHANGED <<greeted, held, delivered, refused, losses, demoted>>

\* Steps of the handlers and of the publishers that do not touch the channels
Inside(action) == action /\ UNCHANGED brokerVars

\* With this broker an acknowledgement always finds its message (AckFindsMessage), so
\* AckUnknown, AckMismatch, PubrecMismatch and AckTooEarly have no place here
Handle ==
  \/ Inside(AckDelete \/ CreditUnlocked \/ AckLock \/ AckRelease)
  \/ Inside(AckReturn \/ ConnackAccept \/ RetryStep \/ RetryReturn)

\* Messages in flight beyond the quota are the ones the reset takes out of flight
Reset ==
  /\ ReconnectReset
  /\ demoted' = demoted \cup
       {inflight[i].id : i \in {j \in DOMAIN inflight :
                                  inflight[j].state # "invalid" /\ j > maximum}}
  /\ UNCHANGED <<toClient, greeted, held, delivered, refused, losses>>

Dial == Reset \/ Inside(SocketOpens) \/ Inside(SendConnect)

LoseConnection ==
  /\ losses < MaxLosses
  /\ losses' = losses + 1
  /\ Lose \/ ConnackRefuse \/ SocketFails
  /\ Disconnected
  /\ UNCHANGED <<held, delivered, refused, demoted>>

Begin(p) == Inside(PublishBegin(p))
Enqueue(p) == link \in PublishPhases /\ Inside(PublishQueue(p))
Release(p) == Inside(PublishRelease(p) \/ PublishReturn(p))

SessionNext ==
  \/ \E p \in Publishers : Begin(p) \/ Enqueue(p) \/ Release(p)
  \/ BrokerTakes
  \/ BrokerDrops
  \/ Receive
  \/ Handle
  \/ Dial
  \/ LoseConnection

SessionSpec == SessionInit /\ [][SessionNext]_sessionVars

\* The network thread keeps running, a publishing call returns, the broker reads and
\* answers: each is scheduled as long as it has something to do.
Fairness ==
  /\ \A p \in Publishers : WF_sessionVars(Release(p)) /\ WF_sessionVars(Enqueue(p))
  /\ WF_sessionVars(BrokerTakes)
  /\ WF_sessionVars(BrokerDrops)
  /\ WF_sessionVars(Receive)
  /\ WF_sessionVars(Handle)
  /\ WF_sessionVars(Dial)

FairSessionSpec == SessionSpec /\ Fairness

-----------------------------------------------------------------------------
(* Properties                                                              *)

\* Types of what this module adds.
SessionTypeOK ==
  /\ TypeOK
  /\ toClient \in Seq(Replies)
  /\ greeted \in BOOLEAN
  /\ held \subseteq Mids
  /\ delivered \in [{1, 2} -> [Ids -> Nat]]
  /\ refused \subseteq Ids
  /\ losses \in 0..MaxLosses
  /\ demoted \subseteq Ids

Copies(id) == delivered[1][id] + delivered[2][id]

\* A QoS 2 message reaches the broker's subscribers twice only if a reset took it out
\* of flight or the broker did not resume the session: message__reconnect_reset and
\* message__retry_check repeat the PUBLISH only up to the PUBREC and the PUBREL from
\* then on.
TwiceOnlyIfDemoted == \A id \in Ids : delivered[2][id] > 1 => id \in demoted

\* Every acknowledgement of a correct broker finds the message it is for, of the right
\* QoS, on the list: none is left over for another message by a reconnection, a second
\* PUBLISH or a release between the credit and the removal of handle__pubackcomp.
Finds(mid, qos) ==
  \E i \in DOMAIN inflight : FirstWith(i, mid) /\ inflight[i].qos = qos
AckFindsMessage ==
  /\ task.op = "delete" => Finds(task.mid, task.qos)
  /\ \A k \in DOMAIN toClient :
       toClient[k].type \in {"PUBREC", "PUBREC_ERROR"} => Finds(toClient[k].mid, 2)

\* A PUBLISH the broker has already seen carries the DUP flag, unless the message has
\* been demoted.
RepeatIsMarked ==
  \A k \in DOMAIN wire :
    wire[k].type = "PUBLISH" /\ Copies(wire[k].id) > 0
      => wire[k].dup \/ wire[k].id \in demoted

\* Sent and not acknowledged: the message whose acknowledgement Loop holds is not
InFlight ==
  {i \in DOMAIN inflight :
     /\ inflight[i].state # "invalid"
     /\ ~(task.op = "delete" /\ FirstWith(i, task.mid))}

\* The reset charges the quota for the messages that are sent again and the CONNACK
\* refills it: never more than twice the maximum is in flight on a connection.
LargestMaximum == Max(Maximums)
InFlightAtMostDouble ==
  link = "active" => Cardinality(InFlight) <= 2 * LargestMaximum

\* No quota leaks: whatever is not in flight can be sent, so that a waiting message
\* always has an acknowledgement to wait for.
NoQuotaLeak ==
  link \in Up /\ greeted => quota + Cardinality(InFlight) >= maximum

\* Messages leave in the order of the list: none overtakes one that still waits.
FifoRelease ==
  \A i, j \in DOMAIN inflight :
    i < j /\ inflight[i].state = "invalid" => inflight[j].state = "invalid"

\* Every accepted message is reported, once connections stop being lost.
EventuallyReported ==
  \A id \in Ids : id \in accepted ~> notified[id] > 0

Promise == INSTANCE Delivery WITH
  Messages <- Ids,
  pending <- OnList,
  reported <- {id \in Ids : notified[id] > 0},
  copies <- delivered

\* The client keeps the promise of Delivery: reported once, after the broker's verdict,
\* never taken again after the report, and QoS 2 taken once unless it has been demoted.
KeepsPromise == Promise!Spec

-----------------------------------------------------------------------------
(* Claims of the documentation that the code does not meet                 *)

\* mosquitto.h on MOSQ_OPT_SEND_MAXIMUM: "the maximum number of outgoing QoS 1 and
\* QoS 2 messages that this client will attempt to have 'in flight' at once".
InFlightWithinMaximum == link = "active" => Cardinality(InFlight) <= maximum

\* mosquitto.h on mosquitto_publish, "qos - integer value 0, 1 or 2 indicating the
\* Quality of Service to be used for the message": QoS 2 is exactly once.
Qos2TakenOnce == \A id \in Ids : delivered[2][id] <= 1

=============================================================================
