------------------------ MODULE PublishSessionProofs ------------------------
(***************************************************************************)
(* Proofs about PublishSession, for any number of publishers, messages,    *)
(* identifiers and lost connections.                                       *)
(*                                                                         *)
(* OutMessages lets a broker send anything at any time: a session with a   *)
(* correct broker is one of its behaviours, so that what OutMessagesProofs *)
(* proves holds here too.  What is proved on top of it rests on the ends   *)
(* agreeing about each packet identifier.                                  *)
(*                                                                         *)
(* The second part is about the send quota, and about how many messages    *)
(* wait and how many are in flight.  The messages that have been sent are  *)
(* the first ones of the list: one number stands for all of them, and the  *)
(* quota is reckoned with it.                                              *)
(***************************************************************************)
EXTENDS PublishSession, OutMessagesProofs, FiniteSetTheorems

USE DEF vars, listVars, quotaVars, pubVars, brokerVars, sessionVars

-----------------------------------------------------------------------------
(* A session is a behaviour of OutMessages                                 *)

\* What the publishers do in a session.
LEMMA PublisherImplements ==
  ASSUME NEW p \in Publishers, Begin(p) \/ Enqueue(p) \/ Release(p)
  PROVE  Next
<1>1. PublisherNext(p)
  BY DEF Begin, Enqueue, Release, Inside, PublisherNext
<1>2. QED BY <1>1 DEF Next

\* What the broker does is Transmit and Lose for the client.
LEMMA BrokerImplements ==
  ASSUME BrokerTakes \/ BrokerDrops
  PROVE  Next
<1>1. Transmit \/ Lose
  BY DEF BrokerTakes, BrokerConnect, BrokerPublish, BrokerPubrel, BrokerDrops
<1>2. QED BY <1>1 DEF Next

\* The packets of the channel are packets that a broker may send.
LEMMA ReceiveImplements ==
  ASSUME toClient \in Seq(Replies), Receive
  PROVE  BrokerNext
<1> DEFINE reply == Head(toClient)
<1>1. reply.mid \in 0..MaxMid
  <2>1. reply \in Replies
    BY HeadTailProperties DEF Receive
  <2>2. QED BY <2>1 DEF Replies
<1>2. \/ ConnackQuota
      \/ \E qos \in {1, 2} : AckCredit(reply.mid, qos)
      \/ Pubrec(reply.mid)
      \/ PubrecRejected(reply.mid)
  BY DEF Receive
<1> HIDE DEF reply
<1>3. QED BY <1>1, <1>2 DEF BrokerNext

\* What Loop does in a session.
LEMMA LoopImplements ==
  ASSUME Handle \/ Dial \/ LoseConnection
  PROVE  Next
<1>1. CASE Handle
  <2>1. HandlerNext
    BY <1>1 DEF Handle, Inside, HandlerNext
  <2>2. QED BY <2>1 DEF Next
<1>2. CASE Dial
  <2>1. ConnectNext
    BY <1>2 DEF Dial, Reset, Inside, ConnectNext
  <2>2. QED BY <2>1 DEF Next
<1>3. CASE LoseConnection
  <2>1. Lose \/ SocketFails \/ BrokerNext
    BY <1>3 DEF LoseConnection, BrokerNext
  <2>2. QED BY <2>1 DEF Next
<1>4. QED BY <1>1, <1>2, <1>3

\* Every step of a session is a step of OutMessages or leaves the client alone.
LEMMA SessionImplements ==
  ASSUME toClient \in Seq(Replies), [SessionNext]_sessionVars
  PROVE  [Next]_vars
<1>1. CASE Receive
  BY <1>1, ReceiveImplements DEF Next
<1>2. QED BY <1>1, PublisherImplements, BrokerImplements, LoopImplements DEF SessionNext

-----------------------------------------------------------------------------
(* Types                                                                   *)

\* What SessionTypeOK adds to the type invariant of OutMessages
SessionTypes ==
  /\ toClient \in Seq(Replies)
  /\ greeted \in BOOLEAN
  /\ held \subseteq Mids
  /\ delivered \in [{1, 2} -> [Ids -> Nat]]
  /\ refused \subseteq Ids
  /\ losses \in 0..MaxLosses
  /\ demoted \subseteq Ids

\* What the broker answers is a packet, and counts as one on the channel.
LEMMA AnswerType ==
  ASSUME toClient \in Seq(Replies), NEW mid \in 0..MaxMid,
         NEW type \in {"CONNACK", "PUBACK", "PUBREC", "PUBREC_ERROR", "PUBCOMP"},
         Answer(type, mid)
  PROVE  toClient' \in Seq(Replies)
<1>1. Reply(type, mid) \in Replies
  BY DEF Reply, Replies
<1>2. QED BY <1>1, AppendProperties DEF Answer

\* The packet at the head of wire has the fields of its type.
LEMMA HeadType ==
  ASSUME wire \in Seq(Packet), wire # <<>>
  PROVE  /\ Head(wire) \in Packet
         /\ Head(wire).type = "PUBLISH" =>
              Head(wire).id \in Ids /\ Head(wire).mid \in Mids /\ Head(wire).qos \in {1, 2}
         /\ Head(wire).type = "PUBREL" => Head(wire).mid \in Mids
<1>1. Head(wire) \in Packet
  BY HeadTailProperties
<1>2. QED BY <1>1 DEF Packet

\* The messages on the list are identities.
LEMMA OnListType ==
  ASSUME inflight \in Seq(Message)
  PROVE  OnList \subseteq Ids
  BY Entry DEF OnList

\* A PUBLISH that the broker takes adds one to one count.
LEMMA TakeCounts ==
  ASSUME delivered \in [{1, 2} -> [Ids -> Nat]],
         NEW packet, packet.id \in Ids, packet.qos \in {1, 2}, Take(packet)
  PROVE  /\ delivered' \in [{1, 2} -> [Ids -> Nat]]
         /\ \A qos \in {1, 2}, id \in Ids :
              delivered'[qos][id] = IF qos = packet.qos /\ id = packet.id
                                      THEN delivered[qos][id] + 1 ELSE delivered[qos][id]
<1> DEFINE row == [delivered[packet.qos] EXCEPT ![packet.id] = @ + 1]
<1>1. row \in [Ids -> Nat]
  OBVIOUS
<1>2. delivered' = [delivered EXCEPT ![packet.qos] = row]
  BY DEF Take
<1>3. \A id \in Ids : row[id] = IF id = packet.id THEN delivered[packet.qos][id] + 1
                                                 ELSE delivered[packet.qos][id]
  OBVIOUS
<1> HIDE DEF row
<1>4. QED BY <1>1, <1>2, <1>3

\* What the broker counts, remembers and answers keeps its types.
LEMMA BrokerTypes ==
  ASSUME TypeOK, SessionTypes, BrokerTakes
  PROVE  SessionTypes'
<1> DEFINE packet == Head(wire)
<1>1. wire # <<>> /\ wire \in Seq(Packet)
  BY DEF BrokerTakes, BrokerConnect, BrokerPublish, BrokerPubrel, Transmit, TypeOK
<1>2. CASE BrokerConnect
  <2>1. toClient' \in Seq(Replies)
    <3>1. 0 \in 0..MaxMid
      BY BoundsAssumption
    <3>2. QED BY <1>2, <3>1, AnswerType DEF BrokerConnect, SessionTypes
  <2>2. demoted' \subseteq Ids /\ held' \subseteq Mids
    BY <1>2, OnListType DEF BrokerConnect, SessionTypes, TypeOK
  <2>3. QED BY <1>2, <2>1, <2>2 DEF BrokerConnect, SessionTypes
<1>3. CASE BrokerPublish
  <2>1. packet.id \in Ids /\ packet.mid \in Mids /\ packet.qos \in {1, 2}
    BY <1>1, <1>3, HeadType DEF BrokerPublish
  <2>2. packet.mid \in 0..MaxMid
    BY <2>1 DEF Mids
  <2>3. /\ Answer("PUBACK", packet.mid) \/ Answer("PUBREC", packet.mid)
             \/ Answer("PUBREC_ERROR", packet.mid)
        /\ Take(packet) \/ UNCHANGED delivered
        /\ held' \in {held, held \cup {packet.mid}}
        /\ refused' \in {refused, refused \cup {packet.id}}
        /\ UNCHANGED <<greeted, losses, demoted>>
    BY <1>3 DEF BrokerPublish
  <2> HIDE DEF packet
  <2>4. toClient' \in Seq(Replies)
    BY <2>2, <2>3, AnswerType DEF SessionTypes
  <2>5. delivered' \in [{1, 2} -> [Ids -> Nat]]
    BY <2>1, <2>3, TakeCounts DEF SessionTypes
  <2>6. QED BY <2>1, <2>3, <2>4, <2>5 DEF SessionTypes
<1>4. CASE BrokerPubrel
  <2>1. packet.mid \in 0..MaxMid
    BY <1>1, <1>4, HeadType DEF BrokerPubrel, Mids
  <2>2. toClient' \in Seq(Replies)
    BY <1>4, <2>1, AnswerType DEF BrokerPubrel, SessionTypes
  <2>3. QED BY <1>4, <2>2 DEF BrokerPubrel, SessionTypes
<1>5. QED BY <1>2, <1>3, <1>4 DEF BrokerTakes

\* Every step of a session keeps the types of what the session adds.
LEMMA SessionTypesStep ==
  ASSUME TypeOK, SessionTypes, [SessionNext]_sessionVars
  PROVE  SessionTypes'
<1>1. CASE \/ \E p \in Publishers : Begin(p) \/ Enqueue(p) \/ Release(p)
           \/ Handle \/ UNCHANGED sessionVars
  <2>1. UNCHANGED brokerVars
    BY <1>1 DEF Begin, Enqueue, Release, Handle, Inside
  <2>2. QED BY <2>1 DEF SessionTypes
<1>2. CASE BrokerDrops
  <2>1. toClient' \in Seq(Replies)
    BY <1>2 DEF BrokerDrops, Disconnected
  <2>2. QED BY <1>2, <2>1 DEF BrokerDrops, Disconnected, SessionTypes
<1>3. CASE Receive
  BY <1>3, HeadTailProperties DEF Receive, SessionTypes
<1>4. CASE Dial
  <2>1. CASE Reset
    <3>1. \A i \in DOMAIN inflight : inflight[i].id \in Ids
      BY Entry DEF TypeOK
    <3>2. demoted' \subseteq Ids
      BY <2>1, <3>1 DEF Reset, SessionTypes
    <3>3. QED BY <2>1, <3>2 DEF Reset, SessionTypes
  <2>2. QED BY <1>4, <2>1 DEF Dial, Inside, SessionTypes
<1>5. CASE LoseConnection
  <2>1. toClient' \in Seq(Replies)
    BY <1>5 DEF LoseConnection, Disconnected
  <2>2. losses' \in 0..MaxLosses
    BY <1>5, SessionAssumption DEF LoseConnection, SessionTypes
  <2>3. QED BY <1>5, <2>1, <2>2 DEF LoseConnection, Disconnected, SessionTypes
<1>6. QED BY <1>1, <1>2, <1>3, <1>4, <1>5, BrokerTypes DEF SessionNext

\* The types, the mutex, the accounting and the identities of OutMessages, and the types
\* of the broker: what holds in a session whatever the identifiers are.
Underlying == Identity /\ SessionTypes

\* The first state of a session is one of OutMessages.
LEMMA UnderlyingInit == SessionInit => Underlying
<1> SUFFICES ASSUME SessionInit PROVE Underlying
  OBVIOUS
<1>1. Identity
  BY BasicInit, IdentityInit DEF SessionInit, Identity
<1>2. toClient \in Seq(Replies)
  BY DEF SessionInit
<1>3. delivered \in [{1, 2} -> [Ids -> Nat]]
  BY DEF SessionInit
<1>4. greeted \in BOOLEAN
  BY DEF SessionInit
<1>5. losses \in 0..MaxLosses
  BY SessionAssumption DEF SessionInit
<1>6. held \subseteq Mids /\ refused \subseteq Ids /\ demoted \subseteq Ids
  BY DEF SessionInit
<1>7. QED BY <1>1, <1>2, <1>3, <1>4, <1>5, <1>6 DEF SessionTypes, Underlying

\* Every step of a session keeps Underlying.
LEMMA UnderlyingStep == Underlying /\ [SessionNext]_sessionVars => Underlying'
<1> SUFFICES ASSUME Underlying, [SessionNext]_sessionVars PROVE Underlying'
  OBVIOUS
<1>1. [Next]_vars
  BY SessionImplements DEF Underlying, SessionTypes
<1>2. Identity'
  BY <1>1, IdentityStep DEF Underlying
<1>3. SessionTypes'
  BY SessionTypesStep DEF Underlying, Identity, Basic
<1>4. QED BY <1>2, <1>3 DEF Underlying

\* In every reachable state of a session.
THEOREM UnderlyingAlways == SessionSpec => []Underlying
  BY UnderlyingInit, UnderlyingStep, PTL DEF SessionSpec

\* A session with a correct broker is a behaviour of OutMessages, whose broker may send
\* anything: mosquitto_publish_v5, the handlers and the reconnection keep there what the
\* theorems of OutMessagesProofs say.
THEOREM SessionIsOutMessages == SessionSpec => Spec
<1>1. SessionInit => Init
  BY DEF SessionInit
<1>2. Underlying /\ [SessionNext]_sessionVars => [Next]_vars
  BY SessionImplements DEF Underlying, SessionTypes
<1>3. QED BY <1>1, <1>2, UnderlyingAlways, PTL DEF SessionSpec, Spec

\* Types of the two ends and of the connection, for every value of the constants.
THEOREM SessionTypeCorrect == SessionSpec => []SessionTypeOK
<1>1. Underlying => SessionTypeOK
  BY DEF Underlying, Identity, Basic, SessionTypes, SessionTypeOK
<1>2. QED BY <1>1, UnderlyingAlways, PTL

-----------------------------------------------------------------------------
(* The two ends agree about every packet identifier.  At most one packet   *)
(* with an identifier is under way: on its way to the broker, on its way   *)
(* back, or in the hands of a handler of Loop.  It belongs to a message of *)
(* the list whose state says which packet may be under way.  This needs    *)
(* identifiers that are not reused while their message lives, which        *)
(* mosquitto__mid_generate does not ensure (MidReuseDistance is what it    *)
(* gives): MidsApart is a hypothesis of the theorems.                      *)

\* No two messages of the list share an identifier.
MidsApart == \A i, j \in Entries : inflight[i].mid = inflight[j].mid => i = j

Listed == {inflight[i] : i \in Entries}

\* States in which the PUBLISH, or the PUBREL, may be under way or be answered
Published == {"wait_for_puback", "publish_qos1", "wait_for_pubrec", "publish_qos2"}
Released == {"wait_for_pubcomp", "resend_pubrel"}

\* CONNECT and CONNACK count as packets with the identifier 0.
Tag(packet) == IF packet.type = "CONNECT" THEN 0 ELSE packet.mid
Tags(channel) == {Tag(packet) : packet \in ToSet(channel)}
TagsApart(channel) ==
  \A k, l \in DOMAIN channel : Tag(channel[k]) = Tag(channel[l]) => k = l
TaskTags == IF task.op = "delete" THEN {task.mid}
            ELSE IF task.op = "connack" THEN {0} ELSE {}
UnderWay == Tags(wire) \cup Tags(toClient) \cup TaskTags

OneUnderWay ==
  /\ TagsApart(wire) /\ TagsApart(toClient)
  /\ Tags(wire) \cap Tags(toClient) = {}
  /\ (Tags(wire) \cup Tags(toClient)) \cap TaskTags = {}

InPublish(m, mid, qos) == m.mid = mid /\ m.qos = qos /\ m.state \in Published
InRelease(m, mid) == m.mid = mid /\ m.qos = 2 /\ m.state \in Released

\* What a packet on its way to the broker says of the message it is from
PacketAgrees(packet) ==
  /\ packet.type = "CONNECT" => link = "connected" /\ ~greeted
  /\ packet.type = "PUBLISH" =>
       /\ \E m \in Listed : InPublish(m, packet.mid, packet.qos) /\ m.id = packet.id
       /\ Copies(packet.id) > 0 => packet.dup \/ packet.id \in demoted
  /\ packet.type = "PUBREL" => \E m \in Listed : InRelease(m, packet.mid)

\* What an answer on its way back says of the message it is for, and of the broker
ReplyAgrees(reply) ==
  /\ reply.type = "CONNACK" => link = "connected" /\ reply.mid = 0
  /\ reply.type = "PUBACK" =>
       \E m \in Listed : InPublish(m, reply.mid, 1) /\ delivered[1][m.id] > 0
  /\ reply.type = "PUBREC" =>
       reply.mid \in held /\ \E m \in Listed : InPublish(m, reply.mid, 2)
  /\ reply.type = "PUBREC_ERROR" =>
       /\ reply.mid \notin held
       /\ \E m \in Listed : InPublish(m, reply.mid, 2) /\ m.id \in refused
  /\ reply.type = "PUBCOMP" =>
       reply.mid \notin held /\ \E m \in Listed : InRelease(m, reply.mid)

\* What a handler of Loop that is under way knows
TaskAgrees ==
  /\ task.op = "connack" => link = "connected"
  /\ task.op \notin {"idle", "connack"} => link = "active"
  /\ task.op = "delete" =>
       \/ /\ task.qos = 1
          /\ \E m \in Listed : InPublish(m, task.mid, 1) /\ delivered[1][m.id] > 0
       \/ /\ task.qos = 2
          /\ task.mid \notin held
          /\ \E m \in Listed : InRelease(m, task.mid)

\* What a message of the list says of the broker
MessageAgrees(m) ==
  /\ m.state \in Released => m.qos = 2 /\ delivered[2][m.id] > 0
  /\ m.qos = 2 /\ m.state \notin Released /\ delivered[2][m.id] > 0
       => m.mid \in held \/ m.id \in demoted
  /\ m.state = "invalid" /\ Copies(m.id) > 0 => m.id \in demoted
  /\ m.qos = 1 => delivered[2][m.id] = 0
  /\ m.qos = 2 => delivered[1][m.id] = 0

\* What the broker remembers
HeldAgrees ==
  \A mid \in held : \E m \in Listed : m.mid = mid /\ m.qos = 2 /\ delivered[2][m.id] > 0
TakenAgrees ==
  \A id \in Ids : Copies(id) > 0 => id \in accepted

\* The connection: what is under way goes with it, the broker speaks when greeted.
LinkAgrees ==
  /\ link \notin Up => wire = <<>> /\ toClient = <<>>
  /\ ~greeted => toClient = <<>>
  /\ greeted => link \in {"connected", "active"}

\* Until message__retry_check has passed, no message waits for a PUBCOMP.
Restarting == link \in {"reset", "open", "connected"} \/ task.op = "retry"
RestartAgrees == Restarting => \A m \in Listed : m.state # "wait_for_pubcomp"

\* A message that waits, or that message__retry_check has still to send again, has
\* nothing under way.
Resending == {"publish_qos1", "publish_qos2", "resend_pubrel"}
Due(i) ==
  \/ inflight[i].state = "invalid"
  \/ /\ inflight[i].state \in Resending
     /\ link # "active" \/ (task.op = "retry" /\ i >= task.n)
DueSilent == \A i \in Entries : Due(i) => inflight[i].mid \notin UnderWay

\* A publisher's message has not been sent.
DraftsNew == \A p \in Publishers : Drafting(p) => draft[p].state = "invalid"

Agreement ==
  /\ OneUnderWay
  /\ \A packet \in ToSet(wire) : PacketAgrees(packet)
  /\ \A reply \in ToSet(toClient) : ReplyAgrees(reply)
  /\ \A m \in Listed : MessageAgrees(m)
  /\ TaskAgrees /\ HeldAgrees /\ TakenAgrees /\ LinkAgrees /\ RestartAgrees
  /\ DueSilent /\ DraftsNew
  /\ TwiceOnlyIfDemoted

-----------------------------------------------------------------------------
(* The channels                                                            *)

\* A packet whose tag is not under way on a channel may be appended to it.
LEMMA AppendTags ==
  ASSUME NEW S, NEW s \in Seq(S), NEW e \in S, TagsApart(s), Tag(e) \notin Tags(s)
  PROVE  /\ TagsApart(Append(s, e))
         /\ Tags(Append(s, e)) = Tags(s) \cup {Tag(e)}
<1> DEFINE a == Append(s, e)
           n == Len(s) + 1
<1>1. /\ ToSet(a) = ToSet(s) \cup {e}
      /\ DOMAIN a = DOMAIN s \cup {n} /\ n \notin DOMAIN s
      /\ a[n] = e
      /\ \A k \in DOMAIN s : a[k] = s[k]
  BY AppendElements
<1>2. \A k \in DOMAIN s : Tag(s[k]) # Tag(e)
  BY DEF Tags, ToSet
<1> HIDE DEF a, n
<1>3. TagsApart(a)
  BY <1>1, <1>2 DEF TagsApart
<1>4. Tags(a) = Tags(s) \cup {Tag(e)}
  BY <1>1 DEF Tags
<1>5. QED BY <1>3, <1>4 DEF a

\* The head of a channel leaves it with its tag.
LEMMA TailTags ==
  ASSUME NEW S, NEW s \in Seq(S), s # <<>>, TagsApart(s)
  PROVE  /\ TagsApart(Tail(s))
         /\ Tags(s) = Tags(Tail(s)) \cup {Tag(Head(s))}
         /\ Tag(Head(s)) \notin Tags(Tail(s))
<1> DEFINE t == Tail(s)
           h == Head(s)
<1>1. /\ ToSet(s) = ToSet(t) \cup {h}
      /\ 1 \in DOMAIN s /\ s[1] = h
      /\ \A k \in DOMAIN t : k + 1 \in DOMAIN s /\ t[k] = s[k + 1] /\ k + 1 # 1
      /\ t \in Seq(S)
  BY TailElements
<1>2. DOMAIN t \subseteq Nat
  BY <1>1, LenProperties
<1> HIDE DEF t, h
<1>3. TagsApart(t)
  <2>1. ASSUME NEW k \in DOMAIN t, NEW l \in DOMAIN t, Tag(t[k]) = Tag(t[l])
        PROVE  k = l
    <3>1. k + 1 = l + 1
      BY <1>1, <2>1 DEF TagsApart
    <3>2. QED BY <1>2, <3>1
  <2>2. QED BY <2>1 DEF TagsApart
<1>4. Tags(s) = Tags(t) \cup {Tag(h)}
  BY <1>1 DEF Tags
<1>5. Tag(h) \notin Tags(t)
  <2>1. ASSUME NEW k \in DOMAIN t PROVE Tag(t[k]) # Tag(h)
    BY <1>1 DEF TagsApart
  <2>2. QED BY <2>1 DEF Tags, ToSet
<1>6. QED BY <1>3, <1>4, <1>5 DEF t, h

\* Nothing is under way on an empty channel.
LEMMA NoTags == TagsApart(<<>>) /\ Tags(<<>>) = {} /\ ToSet(<<>>) = {}
<1>1. ToSet(<<>>) = {}
  BY DEF ToSet
<1>2. QED BY <1>1 DEF TagsApart, Tags

\* send__publish, send__pubrel or send__connect: the packet was not under way.
LEMMA SendMoves ==
  ASSUME wire \in Seq(Packet), OneUnderWay,
         NEW packet \in Packet, Tag(packet) \notin UnderWay,
         wire' = Append(wire, packet), UNCHANGED toClient, TaskTags' = TaskTags
  PROVE  /\ OneUnderWay'
         /\ UnderWay' = UnderWay \cup {Tag(packet)}
         /\ ToSet(wire') = ToSet(wire) \cup {packet}
         /\ \A other \in ToSet(wire) : Tag(other) # Tag(packet)
         /\ \A reply \in ToSet(toClient) : Tag(reply) # Tag(packet)
<1>1. /\ Tag(packet) \notin Tags(wire) /\ Tag(packet) \notin Tags(toClient)
      /\ Tag(packet) \notin TaskTags
  BY DEF UnderWay
<1>2. /\ TagsApart(wire') /\ Tags(wire') = Tags(wire) \cup {Tag(packet)}
      /\ ToSet(wire') = ToSet(wire) \cup {packet}
  BY <1>1, AppendTags, AppendElements DEF OneUnderWay
<1>3. TagsApart(toClient') /\ Tags(toClient') = Tags(toClient)
  BY DEF OneUnderWay
<1>4. OneUnderWay' /\ UnderWay' = UnderWay \cup {Tag(packet)}
  BY <1>1, <1>2, <1>3 DEF OneUnderWay, UnderWay
<1>5. QED BY <1>1, <1>2, <1>4 DEF Tags

\* The broker takes a packet and answers it.
LEMMA AnswerMoves ==
  ASSUME wire \in Seq(Packet), toClient \in Seq(Replies), OneUnderWay,
         wire # <<>>, wire' = Tail(wire),
         NEW reply \in Replies, Tag(reply) = Tag(Head(wire)),
         toClient' = Append(toClient, reply), TaskTags' = TaskTags
  PROVE  /\ OneUnderWay'
         /\ UnderWay' = UnderWay
         /\ Head(wire) \in ToSet(wire)
         /\ \A other \in ToSet(wire') : other \in ToSet(wire) /\ Tag(other) # Tag(reply)
         /\ ToSet(toClient') = ToSet(toClient) \cup {reply}
         /\ \A other \in ToSet(toClient) : Tag(other) # Tag(reply)
         /\ Tag(reply) \notin TaskTags
<1>1. /\ TagsApart(wire') /\ Tags(wire) = Tags(wire') \cup {Tag(reply)}
      /\ Tag(reply) \notin Tags(wire')
      /\ ToSet(wire) = ToSet(wire') \cup {Head(wire)}
  BY TailTags, TailElements DEF OneUnderWay
<1>2. Tag(reply) \notin Tags(toClient) /\ Tag(reply) \notin TaskTags
  BY <1>1 DEF OneUnderWay
<1>3. /\ TagsApart(toClient') /\ Tags(toClient') = Tags(toClient) \cup {Tag(reply)}
      /\ ToSet(toClient') = ToSet(toClient) \cup {reply}
  BY <1>2, AppendTags, AppendElements DEF OneUnderWay
<1>4. OneUnderWay' /\ UnderWay' = UnderWay
  BY <1>1, <1>2, <1>3 DEF OneUnderWay, UnderWay
<1>5. /\ \A other \in ToSet(wire') : Tag(other) # Tag(reply)
      /\ \A other \in ToSet(toClient) : Tag(other) # Tag(reply)
  BY <1>1, <1>2 DEF Tags
<1>6. QED BY <1>1, <1>2, <1>3, <1>4, <1>5

\* An answer leaves the channel for a handler, which keeps its identifier or not.
LEMMA ReceiveMoves ==
  ASSUME toClient \in Seq(Replies), OneUnderWay,
         toClient # <<>>, toClient' = Tail(toClient), UNCHANGED wire,
         TaskTags = {}, TaskTags' \subseteq {Tag(Head(toClient))}
  PROVE  /\ OneUnderWay'
         /\ UnderWay' \subseteq UnderWay
         /\ Tag(Head(toClient)) \in UnderWay
         /\ UnderWay' = Tags(wire') \cup Tags(toClient') \cup TaskTags'
         /\ Tag(Head(toClient)) \notin Tags(wire') \cup Tags(toClient')
         /\ Head(toClient) \in ToSet(toClient)
         /\ \A other \in ToSet(wire') : /\ other \in ToSet(wire)
                                        /\ Tag(other) # Tag(Head(toClient))
         /\ \A other \in ToSet(toClient') : /\ other \in ToSet(toClient)
                                            /\ Tag(other) # Tag(Head(toClient))
<1> DEFINE tag == Tag(Head(toClient))
<1>1. /\ TagsApart(toClient') /\ Tags(toClient) = Tags(toClient') \cup {tag}
      /\ tag \notin Tags(toClient')
      /\ ToSet(toClient) = ToSet(toClient') \cup {Head(toClient)}
  BY TailTags, TailElements DEF OneUnderWay
<1> HIDE DEF tag
<1>2. tag \notin Tags(wire)
  BY <1>1 DEF OneUnderWay
<1>3. TaskTags' \subseteq {tag}
  BY DEF tag
<1>4. OneUnderWay' /\ UnderWay' \subseteq UnderWay /\ tag \in UnderWay
  BY <1>1, <1>2, <1>3 DEF OneUnderWay, UnderWay
<1>5. /\ \A other \in ToSet(wire) : Tag(other) # tag
      /\ \A other \in ToSet(toClient') : Tag(other) # tag
  BY <1>1, <1>2 DEF Tags
<1>6. UnderWay' = Tags(wire') \cup Tags(toClient') \cup TaskTags'
  BY DEF UnderWay
<1>7. QED BY <1>1, <1>2, <1>4, <1>5, <1>6 DEF tag

\* handle__pubrec takes an answer and sends a packet with the same identifier.
LEMMA PubrecMoves ==
  ASSUME wire \in Seq(Packet), toClient \in Seq(Replies), OneUnderWay,
         toClient # <<>>, toClient' = Tail(toClient),
         NEW packet \in Packet, Tag(packet) = Tag(Head(toClient)),
         wire' = Append(wire, packet), TaskTags = {}, TaskTags' = {}
  PROVE  /\ OneUnderWay'
         /\ UnderWay' = UnderWay
         /\ Head(toClient) \in ToSet(toClient)
         /\ ToSet(wire') = ToSet(wire) \cup {packet}
         /\ \A other \in ToSet(wire) : Tag(other) # Tag(packet)
         /\ \A other \in ToSet(toClient') : /\ other \in ToSet(toClient)
                                            /\ Tag(other) # Tag(packet)
<1>1. /\ TagsApart(toClient') /\ Tags(toClient) = Tags(toClient') \cup {Tag(packet)}
      /\ Tag(packet) \notin Tags(toClient')
      /\ ToSet(toClient) = ToSet(toClient') \cup {Head(toClient)}
  BY TailTags, TailElements DEF OneUnderWay
<1>2. Tag(packet) \notin Tags(wire)
  BY <1>1 DEF OneUnderWay
<1>3. /\ TagsApart(wire') /\ Tags(wire') = Tags(wire) \cup {Tag(packet)}
      /\ ToSet(wire') = ToSet(wire) \cup {packet}
  BY <1>2, AppendTags, AppendElements DEF OneUnderWay
<1>4. OneUnderWay' /\ UnderWay' = UnderWay
  BY <1>1, <1>2, <1>3 DEF OneUnderWay, UnderWay
<1>5. /\ \A other \in ToSet(wire) : Tag(other) # Tag(packet)
      /\ \A other \in ToSet(toClient') : Tag(other) # Tag(packet)
  BY <1>1, <1>2 DEF Tags
<1>6. QED BY <1>1, <1>3, <1>4, <1>5

\* A handler is over, or goes on without the identifier.
LEMMA DoneMoves ==
  ASSUME OneUnderWay, UNCHANGED <<wire, toClient>>, TaskTags' \subseteq TaskTags
  PROVE  /\ OneUnderWay'
         /\ UnderWay' \subseteq UnderWay
         /\ \A other \in ToSet(wire) \cup ToSet(toClient) : Tag(other) \notin TaskTags
<1>1. \A other \in ToSet(wire) \cup ToSet(toClient) : Tag(other) \notin TaskTags
  BY DEF OneUnderWay, Tags
<1>2. QED BY <1>1 DEF OneUnderWay, UnderWay

\* The connection goes, and what was under way on it.
LEMMA CloseMoves ==
  ASSUME wire' = <<>>, toClient' = <<>>, TaskTags' = {}
  PROVE  OneUnderWay' /\ UnderWay' = {} /\ ToSet(wire') = {} /\ ToSet(toClient') = {}
  BY NoTags DEF OneUnderWay, UnderWay

-----------------------------------------------------------------------------
(* The list                                                                *)

\* The messages of the list, by identity and by identifier.
LEMMA ListedFacts ==
  ASSUME Underlying
  PROVE  /\ inflight \in Seq(Message) /\ DOMAIN inflight = Entries
         /\ Len(inflight) \in Nat
         /\ \A i \in Entries : inflight[i] \in Listed
         /\ \A m \in Listed :
              /\ m \in Message
              /\ m.id \in Ids /\ m.mid \in Mids /\ m.qos \in {1, 2} /\ m.state \in States
              /\ m.id \in accepted /\ m.mid # 0
         /\ \A m, n \in Listed : m.id = n.id => m = n
         /\ MidsApart => \A m, n \in Listed : m.mid = n.mid => m = n
         /\ \A i, j \in Entries : inflight[i] = inflight[j] => i = j
<1>1. /\ inflight \in Seq(Message) /\ DOMAIN inflight = Entries /\ Len(inflight) \in Nat
      /\ Placed
  BY LenProperties DEF Underlying, Identity, Basic, TypeOK, Entries
<1>2. \A i \in Entries : inflight[i] \in Message /\ inflight[i].id \in accepted
  BY <1>1, Entry DEF Placed
<1>3. \A m \in Message : /\ m.id \in Ids /\ m.mid \in Mids /\ m.qos \in {1, 2}
                         /\ m.state \in States /\ m.mid # 0
  BY DEF Message, Mids
<1>4. \A m \in Listed : m \in Message /\ m.id \in accepted
  BY <1>2 DEF Listed
<1>5. /\ \A i, j \in Entries : inflight[i].id = inflight[j].id => i = j
      /\ MidsApart => \A i, j \in Entries : inflight[i].mid = inflight[j].mid => i = j
  BY <1>1 DEF Placed, MidsApart
<1>6. /\ \A m, n \in Listed : m.id = n.id => m = n
      /\ MidsApart => \A m, n \in Listed : m.mid = n.mid => m = n
  BY <1>5 DEF Listed
<1>7. QED BY <1>1, <1>3, <1>4, <1>5, <1>6 DEF Listed

\* One message of the list is replaced by its next version.
LEMMA ListedReplace ==
  ASSUME Underlying, NEW i \in Entries, NEW e \in Message,
         inflight' = [inflight EXCEPT ![i] = e]
  PROVE  /\ Entries' = Entries
         /\ inflight'[i] = e
         /\ \A j \in Entries : j # i => inflight'[j] = inflight[j]
         /\ Listed' = (Listed \ {inflight[i]}) \cup {e}
<1>1. /\ inflight \in Seq(Message) /\ DOMAIN inflight = Entries
      /\ \A j, k \in Entries : inflight[j] = inflight[k] => j = k
  BY ListedFacts
<1>2. /\ Entries' = Entries
      /\ \A j \in Entries : inflight'[j] = IF j = i THEN e ELSE inflight[j]
  BY <1>1, ReplaceEntry DEF Entries
<1>3. Listed' = (Listed \ {inflight[i]}) \cup {e}
  BY <1>1, <1>2 DEF Listed
<1>4. QED BY <1>2, <1>3

\* One message leaves the list.
LEMMA ListedRemove ==
  ASSUME Underlying, NEW i \in Entries, inflight' = RemoveAt(inflight, i)
  PROVE  /\ Listed' = Listed \ {inflight[i]}
         /\ \A j \in Entries' : \E k \in Entries : inflight'[j] = inflight[k]
<1>1. /\ inflight \in Seq(Message) /\ DOMAIN inflight = Entries /\ Len(inflight) \in Nat
      /\ \A j, k \in Entries : inflight[j] = inflight[k] => j = k
  BY ListedFacts
<1>2. /\ Len(inflight') = Len(inflight) - 1
      /\ \A j \in 1 .. Len(inflight) - 1 :
           inflight'[j] = IF j < i THEN inflight[j] ELSE inflight[j + 1]
  BY <1>1, RemoveEntry
<1>3. \A j \in Entries' : inflight'[j] = IF j < i THEN inflight[j] ELSE inflight[j + 1]
  BY <1>2 DEF Entries
<1>4. ASSUME NEW j \in Entries'
      PROVE  \E k \in Entries : k # i /\ inflight'[j] = inflight[k]
  <2>1. CASE j < i
    <3>1. j \in Entries /\ j # i
      BY <1>1, <1>2, <2>1 DEF Entries
    <3>2. QED BY <1>3, <2>1, <3>1
  <2>2. CASE ~(j < i)
    <3>1. j + 1 \in Entries /\ j + 1 # i
      BY <1>1, <1>2, <2>2 DEF Entries
    <3>2. QED BY <1>3, <2>2, <3>1
  <2>3. QED BY <2>1, <2>2
<1>5. ASSUME NEW k \in Entries, k # i
      PROVE  \E j \in Entries' : inflight'[j] = inflight[k]
  <2>1. CASE k < i
    <3>1. k \in Entries'
      BY <1>1, <1>2, <2>1 DEF Entries
    <3>2. QED BY <1>3, <2>1, <3>1
  <2>2. CASE ~(k < i)
    <3>1. k - 1 \in Entries' /\ ~(k - 1 < i) /\ (k - 1) + 1 = k
      BY <1>1, <1>2, <1>5, <2>2 DEF Entries
    <3>2. QED BY <1>3, <3>1
  <2>3. QED BY <2>1, <2>2
<1>6. Listed' = Listed \ {inflight[i]}
  BY <1>1, <1>4, <1>5 DEF Listed
<1>7. QED BY <1>4, <1>6

\* A message joins the list at its end.
LEMMA ListedAppend ==
  ASSUME Underlying, NEW e \in Message, inflight' = Append(inflight, e)
  PROVE  /\ Listed' = Listed \cup {e}
         /\ Entries' = Entries \cup {Len(inflight) + 1}
         /\ inflight'[Len(inflight) + 1] = e
         /\ \A j \in Entries : inflight'[j] = inflight[j]
<1>1. inflight \in Seq(Message) /\ DOMAIN inflight = Entries /\ Len(inflight) \in Nat
  BY ListedFacts
<1>2. /\ Len(inflight') = Len(inflight) + 1
      /\ inflight'[Len(inflight) + 1] = e
      /\ \A j \in Entries : inflight'[j] = inflight[j]
  BY <1>1, AppendProperties DEF Entries
<1>3. Entries' = Entries \cup {Len(inflight) + 1}
  BY <1>1, <1>2 DEF Entries
<1>4. Listed' = Listed \cup {e}
  BY <1>2, <1>3 DEF Listed
<1>5. QED BY <1>2, <1>3, <1>4

-----------------------------------------------------------------------------
(* A step that concerns one identifier leaves what the ends agree on about *)
(* the others alone.                                                       *)

\* Messages with other identifiers are the same ones, and the broker knows the same of
\* them.
Elsewhere(mid) ==
  /\ \A m \in Listed : m.mid # mid =>
       m \in Listed' /\ \A qos \in {1, 2} : delivered'[qos][m.id] = delivered[qos][m.id]
  /\ \A m \in Listed' : m.mid # mid => m \in Listed
  /\ \A x \in Mids : x # mid => (x \in held' <=> x \in held)
  /\ refused \subseteq refused' /\ demoted \subseteq demoted'

\* The packets of other identifiers.
LEMMA PacketElsewhere ==
  ASSUME Underlying, NEW mid, Elsewhere(mid), UNCHANGED <<link, greeted>>,
         NEW packet, PacketAgrees(packet),
         Tag(packet) # mid \/ packet.type = "CONNECT"
  PROVE  PacketAgrees(packet)'
<1>1. packet.type = "CONNECT" => link' = "connected" /\ ~greeted'
  BY DEF PacketAgrees
<1>2. ASSUME packet.type = "PUBLISH"
      PROVE  /\ \E m \in Listed' : InPublish(m, packet.mid, packet.qos) /\ m.id = packet.id
             /\ Copies(packet.id)' > 0 => packet.dup \/ packet.id \in demoted'
  <2>1. PICK m \in Listed : InPublish(m, packet.mid, packet.qos) /\ m.id = packet.id
    BY <1>2 DEF PacketAgrees
  <2>2. m.mid # mid
    BY <1>2, <2>1 DEF Tag, InPublish
  <2>3. m \in Listed' /\ \A qos \in {1, 2} : delivered'[qos][m.id] = delivered[qos][m.id]
    BY <2>2 DEF Elsewhere
  <2>4. Copies(packet.id)' = Copies(packet.id)
    BY <2>1, <2>3 DEF Copies
  <2>5. Copies(packet.id) > 0 => packet.dup \/ packet.id \in demoted
    BY <1>2 DEF PacketAgrees
  <2>6. QED BY <2>1, <2>3, <2>4, <2>5 DEF Elsewhere
<1>3. ASSUME packet.type = "PUBREL"
      PROVE  \E m \in Listed' : InRelease(m, packet.mid)
  <2>1. PICK m \in Listed : InRelease(m, packet.mid)
    BY <1>3 DEF PacketAgrees
  <2>2. m.mid # mid
    BY <1>3, <2>1 DEF Tag, InRelease
  <2>3. QED BY <2>1, <2>2 DEF Elsewhere
<1>4. QED BY <1>1, <1>2, <1>3 DEF PacketAgrees

\* The answers for other identifiers.
LEMMA ReplyElsewhere ==
  ASSUME Underlying, NEW mid, Elsewhere(mid), UNCHANGED link,
         NEW reply \in Replies, ReplyAgrees(reply),
         Tag(reply) # mid \/ reply.type = "CONNACK"
  PROVE  ReplyAgrees(reply)'
<1>1. Tag(reply) = reply.mid
  BY DEF Tag, Replies
<1>2. CASE reply.type = "CONNACK"
  BY <1>2 DEF ReplyAgrees
<1>3. CASE reply.type # "CONNACK"
  <2>1. reply.mid # mid
    BY <1>1, <1>3
  <2>2. \A m \in Listed :
          /\ m.mid = reply.mid => m \in Listed' /\ delivered'[1][m.id] = delivered[1][m.id]
          /\ m.mid \in Mids
    BY <2>1, ListedFacts DEF Elsewhere
  <2>3. \A m \in Listed : m.mid = reply.mid => (reply.mid \in held' <=> reply.mid \in held)
    BY <2>1, <2>2 DEF Elsewhere
  <2>4. \A m \in Listed : m.id \in refused => m.id \in refused'
    BY DEF Elsewhere
  <2>5. reply.type = "PUBACK" => ReplyAgrees(reply)'
    BY <2>2 DEF ReplyAgrees, InPublish
  <2>6. reply.type = "PUBREC" => ReplyAgrees(reply)'
    BY <2>2, <2>3 DEF ReplyAgrees, InPublish
  <2>7. reply.type = "PUBREC_ERROR" => ReplyAgrees(reply)'
    BY <2>2, <2>3, <2>4 DEF ReplyAgrees, InPublish
  <2>8. reply.type = "PUBCOMP" => ReplyAgrees(reply)'
    BY <2>2, <2>3 DEF ReplyAgrees, InRelease
  <2>9. QED BY <1>3, <2>5, <2>6, <2>7, <2>8 DEF Replies
<1>4. QED BY <1>2, <1>3

\* The messages with other identifiers.
LEMMA MessageElsewhere ==
  ASSUME Underlying, NEW mid, Elsewhere(mid),
         NEW m \in Listed', m.mid # mid, \A n \in Listed : MessageAgrees(n)
  PROVE  MessageAgrees(m)'
<1>1. m \in Listed /\ MessageAgrees(m)
  BY DEF Elsewhere
<1>2. m.mid \in Mids /\ \A qos \in {1, 2} : delivered'[qos][m.id] = delivered[qos][m.id]
  BY <1>1, ListedFacts DEF Elsewhere
<1>3. (m.mid \in held' <=> m.mid \in held) /\ (m.id \in demoted => m.id \in demoted')
  BY <1>2 DEF Elsewhere
<1>4. Copies(m.id)' = Copies(m.id)
  BY <1>2 DEF Copies
<1>5. delivered'[1][m.id] = delivered[1][m.id] /\ delivered'[2][m.id] = delivered[2][m.id]
  BY <1>2
<1>6. QED BY <1>1, <1>3, <1>4, <1>5 DEF MessageAgrees

\* What the broker remembers of other identifiers.
LEMMA HeldElsewhere ==
  ASSUME Underlying, Underlying', HeldAgrees, NEW mid, Elsewhere(mid),
         mid \in held' =>
           \E m \in Listed' : m.mid = mid /\ m.qos = 2 /\ delivered'[2][m.id] > 0
  PROVE  HeldAgrees'
<1>1. ASSUME NEW x \in held', x # mid
      PROVE  \E m \in Listed' : m.mid = x /\ m.qos = 2 /\ delivered'[2][m.id] > 0
  <2>1. x \in Mids
    BY DEF Underlying, SessionTypes
  <2>2. x \in held
    BY <1>1, <2>1 DEF Elsewhere
  <2>3. PICK m \in Listed : m.mid = x /\ m.qos = 2 /\ delivered[2][m.id] > 0
    BY <2>2 DEF HeldAgrees
  <2>4. m \in Listed' /\ delivered'[2][m.id] = delivered[2][m.id]
    BY <1>1, <2>3 DEF Elsewhere
  <2>5. QED BY <2>3, <2>4
<1>2. QED BY <1>1 DEF HeldAgrees

\* The messages that message__release_to_inflight and message__retry_check have still to
\* send.
LEMMA DueElsewhere ==
  ASSUME DueSilent, NEW mid, UnderWay' \subseteq UnderWay \cup {mid},
         \A i \in Entries' : Due(i)' =>
           \/ inflight'[i].mid # mid /\ \E k \in Entries : /\ Due(k)
                                                           /\ inflight[k].mid = inflight'[i].mid
           \/ inflight'[i].mid \notin UnderWay'
  PROVE  DueSilent'
  BY DEF DueSilent

\* A step on one identifier, once what it does to that identifier is known.
LEMMA LocalStep ==
  ASSUME Underlying, Underlying', Agreement,
         NEW mid, Elsewhere(mid), UNCHANGED <<link, greeted>>,
         OneUnderWay',
         \A packet \in ToSet(wire') :
           \/ /\ packet \in ToSet(wire)
              /\ Tag(packet) # mid \/ packet.type = "CONNECT"
           \/ PacketAgrees(packet)',
         \A reply \in ToSet(toClient') :
           \/ /\ reply \in ToSet(toClient)
              /\ Tag(reply) # mid \/ reply.type = "CONNACK"
           \/ ReplyAgrees(reply)',
         \A m \in Listed' : m.mid = mid => MessageAgrees(m)',
         mid \in held' =>
           \E m \in Listed' : m.mid = mid /\ m.qos = 2 /\ delivered'[2][m.id] > 0,
         TaskAgrees', TakenAgrees', LinkAgrees', RestartAgrees', DueSilent',
         DraftsNew', TwiceOnlyIfDemoted'
  PROVE  Agreement'
<1>1. /\ \A packet \in ToSet(wire) : PacketAgrees(packet)
      /\ \A reply \in ToSet(toClient) : ReplyAgrees(reply)
      /\ \A m \in Listed : MessageAgrees(m)
      /\ HeldAgrees
  BY DEF Agreement
<1>2. ASSUME NEW packet \in ToSet(wire') PROVE PacketAgrees(packet)'
  BY <1>1, PacketElsewhere
<1>3. ASSUME NEW reply \in ToSet(toClient') PROVE ReplyAgrees(reply)'
  <2>1. CASE ReplyAgrees(reply)'
    BY <2>1
  <2>2. CASE /\ reply \in ToSet(toClient)
             /\ Tag(reply) # mid \/ reply.type = "CONNACK"
    <3>1. reply \in Replies
      <4>1. toClient \in Seq(Replies)
        BY DEF Underlying, SessionTypes
      <4>2. QED BY <2>2, <4>1, LenProperties, ElementOfSeq DEF ToSet
    <3>2. QED BY <1>1, <2>2, <3>1, ReplyElsewhere
  <2>3. QED BY <2>1, <2>2
<1>4. ASSUME NEW m \in Listed' PROVE MessageAgrees(m)'
  BY <1>1, MessageElsewhere
<1>5. HeldAgrees'
  BY <1>1, HeldElsewhere
<1>6. QED BY <1>2, <1>3, <1>4, <1>5 DEF Agreement

-----------------------------------------------------------------------------
(* What the steps do to the agreement                                      *)

\* Outside a handler nothing is in its hands.
LEMMA IdleTags ==
  /\ Idle.op = "idle"
  /\ task = Idle => TaskTags = {}
  /\ task' = Idle => TaskTags' = {}
<1>1. Idle.op = "idle"
  BY IdleType
<1>2. QED BY <1>1 DEF TaskTags

\* Steps that do not touch the list, the channels and the broker.
LEMMA QuietStep ==
  ASSUME Agreement,
         UNCHANGED <<inflight, wire, link, toClient, greeted, held, delivered, refused,
                     demoted, accepted>>,
         TaskTags' = TaskTags,
         task'.op = "retry" => \/ UNCHANGED task
                               \/ /\ task.op = "retry" /\ task.n \in Nat
                                  /\ task'.n = task.n + 1,
         TaskAgrees', DraftsNew'
  PROVE  Agreement'
<1>1. Listed' = Listed /\ Entries' = Entries /\ UnderWay' = UnderWay
  BY DEF Listed, Entries, UnderWay
<1>2. \A id : Copies(id)' = Copies(id)
  BY DEF Copies
<1>3. OneUnderWay'
  BY DEF Agreement, OneUnderWay
<1>4. \A packet \in ToSet(wire') : PacketAgrees(packet)'
  BY <1>1, <1>2 DEF Agreement, PacketAgrees
<1>5. \A reply \in ToSet(toClient') : ReplyAgrees(reply)'
  BY <1>1 DEF Agreement, ReplyAgrees
<1>6. \A m \in Listed' : MessageAgrees(m)'
  BY <1>1, <1>2 DEF Agreement, MessageAgrees
<1>7. HeldAgrees' /\ TakenAgrees' /\ LinkAgrees' /\ TwiceOnlyIfDemoted'
  BY <1>1, <1>2 DEF Agreement, HeldAgrees, TakenAgrees, LinkAgrees, TwiceOnlyIfDemoted
<1>8. RestartAgrees'
  BY <1>1 DEF Agreement, RestartAgrees, Restarting
<1>9. DueSilent'
  <2>1. \A i \in Entries' : Due(i)' => Due(i)
    BY <1>1 DEF Due, Entries
  <2>2. QED BY <1>1, <2>1 DEF Agreement, DueSilent
<1>10. QED BY <1>3, <1>4, <1>5, <1>6, <1>7, <1>8, <1>9 DEF Agreement

\* The handler that is under way works on another identifier.
LEMMA TaskElsewhere ==
  ASSUME Underlying, TaskAgrees, UNCHANGED <<link, task>>,
         NEW mid, Elsewhere(mid), mid \notin TaskTags
  PROVE  TaskAgrees'
<1>1. ASSUME task.op = "delete" PROVE task.mid # mid
  BY <1>1 DEF TaskTags
<1>2. \A m \in Listed : m.mid = task.mid /\ task.op = "delete" =>
        /\ m \in Listed' /\ delivered'[1][m.id] = delivered[1][m.id]
        /\ task.mid \in held' <=> task.mid \in held
  BY <1>1, ListedFacts DEF Elsewhere
<1>3. QED BY <1>2 DEF TaskAgrees, InPublish, InRelease

\* Replacing a message leaves the others alone.
LEMMA ReplaceElsewhere ==
  ASSUME Underlying, NEW i \in Entries, NEW e \in Message, e.mid = inflight[i].mid,
         inflight' = [inflight EXCEPT ![i] = e],
         UNCHANGED <<held, delivered, refused, demoted>>
  PROVE  Elsewhere(e.mid)
<1>1. Listed' = (Listed \ {inflight[i]}) \cup {e}
  BY ListedReplace
<1>2. QED BY <1>1 DEF Elsewhere

\* A step that changes the state of one message, and may send a packet for it.
LEMMA ReplaceStep ==
  ASSUME Underlying, Underlying', MidsApart, Agreement,
         NEW i \in Entries, NEW e \in Message,
         e.id = inflight[i].id, e.mid = inflight[i].mid, e.qos = inflight[i].qos,
         inflight' = [inflight EXCEPT ![i] = e],
         UNCHANGED <<link, greeted, held, delivered, refused, demoted, accepted, draft>>,
         OneUnderWay', UnderWay' \subseteq UnderWay \cup {e.mid},
         \A packet \in ToSet(wire') :
           \/ packet \in ToSet(wire) /\ (Tag(packet) # e.mid \/ packet.type = "CONNECT")
           \/ PacketAgrees(packet)',
         \A reply \in ToSet(toClient') :
           reply \in ToSet(toClient) /\ (Tag(reply) # e.mid \/ reply.type = "CONNACK"),
         MessageAgrees(e)', TaskAgrees', LinkAgrees',
         ~Due(i)',
         task'.op = "retry" => task.op = "retry" /\ task'.n \in Nat /\ task.n \in Nat
                                                 /\ task'.n >= task.n,
         Restarting' => e.state # "wait_for_pubcomp"
  PROVE  Agreement'
<1>1. /\ Entries' = Entries
      /\ inflight'[i] = e
      /\ \A j \in Entries : j # i => inflight'[j] = inflight[j]
      /\ Listed' = (Listed \ {inflight[i]}) \cup {e}
  BY ListedReplace
<1>2. Elsewhere(e.mid)
  BY ReplaceElsewhere
<1>3. \A m \in Listed' : m.mid = e.mid => m = e
  BY <1>1, ListedFacts
<1>4. e.mid \in held' => e \in Listed' /\ e.qos = 2 /\ delivered'[2][e.id] > 0
  <2>1. ASSUME e.mid \in held PROVE e.qos = 2 /\ delivered[2][e.id] > 0
    <3>1. PICK m \in Listed : m.mid = e.mid /\ m.qos = 2 /\ delivered[2][m.id] > 0
      BY <2>1 DEF Agreement, HeldAgrees
    <3>2. m = inflight[i]
      BY <3>1, ListedFacts
    <3>3. QED BY <3>1, <3>2
  <2>2. QED BY <1>1, <2>1
<1>5. DueSilent'
  <2>1. ASSUME NEW j \in Entries', Due(j)'
        PROVE  inflight'[j].mid # e.mid /\ Due(j) /\ inflight[j].mid = inflight'[j].mid
    <3>1. j # i /\ j \in Entries
      BY <1>1, <2>1
    <3>2. inflight'[j] = inflight[j] /\ inflight[j].mid # e.mid
      BY <1>1, <3>1 DEF MidsApart
    <3>3. j \in Nat
      BY <3>1 DEF Entries
    <3>4. Due(j)
      BY <2>1, <3>2, <3>3 DEF Due
    <3>5. QED BY <3>2, <3>4
  <2>2. DueSilent
    BY DEF Agreement
  <2>3. QED BY <1>1, <2>1, <2>2, DueElsewhere
<1>6. RestartAgrees'
  <2>1. Restarting' => Restarting
    BY DEF Restarting
  <2>2. QED BY <1>1, <2>1 DEF Agreement, RestartAgrees
<1>7. TakenAgrees' /\ DraftsNew' /\ TwiceOnlyIfDemoted'
  BY DEF Agreement, TakenAgrees, DraftsNew, Drafting, TwiceOnlyIfDemoted, Copies
<1>8. \A m \in Listed' : m.mid = e.mid => MessageAgrees(m)'
  BY <1>3
<1>9. e.mid \in held' =>
        \E m \in Listed' : m.mid = e.mid /\ m.qos = 2 /\ delivered'[2][m.id] > 0
  BY <1>4
<1>10. QED BY <1>2, <1>5, <1>6, <1>7, <1>8, <1>9, LocalStep

\* The message that message__release_to_inflight sends, or fails to send.
LEMMA ReleaseAgrees ==
  ASSUME Underlying, Underlying', MidsApart, Agreement,
         ReleaseNext \/ ReleaseFails,
         UNCHANGED <<link, accepted, draft, brokerVars>>,
         TaskTags' = TaskTags, task'.op # "retry", task.op # "retry",
         UNCHANGED task \/ TaskAgrees'
  PROVE  Agreement'
<1>1. PICK i \in Entries :
        /\ inflight[i].state = "invalid"
        /\ inflight' = [inflight EXCEPT ![i].state = Awaiting(inflight[i].qos)]
        /\ \/ Sendable(inflight[i]) /\ Send(Publish(inflight[i]))
           \/ UNCHANGED wire
  BY ListedFacts DEF ReleaseNext, ReleaseFails, FirstWaiting, MarkSent
<1>2. PICK m \in Message : m = inflight[i]
  BY ListedFacts
<1>3. PICK e \in Message :
        /\ e = [m EXCEPT !.state = Awaiting(m.qos)]
        /\ e.id = m.id /\ e.mid = m.mid /\ e.qos = m.qos /\ e.state = Awaiting(m.qos)
  <2>1. [m EXCEPT !.state = Awaiting(m.qos)].state = Awaiting(m.qos)
    BY DEF Message
  <2>2. QED BY <2>1, AwaitingType, NewState
<1>4. inflight' = [inflight EXCEPT ![i] = e]
  BY <1>1, <1>2, <1>3
<1>5. /\ m \in Listed /\ m.qos \in {1, 2} /\ m.mid \in Mids /\ m.id \in Ids /\ m.mid # 0
      /\ m.state = "invalid"
  BY <1>1, <1>2, ListedFacts
<1>6. e.state \in Published /\ e.state \notin Released /\ e.state # "invalid"
      /\ e.state \notin Resending /\ e.state # "wait_for_pubcomp"
  BY <1>3 DEF Awaiting, Published, Released, Resending
<1>7. m.mid \notin UnderWay
  BY <1>2, <1>5 DEF Agreement, DueSilent, Due
<1>8. MessageAgrees(m) /\ (Copies(m.id) > 0 => m.id \in demoted)
  BY <1>5 DEF Agreement, MessageAgrees
<1>9. MessageAgrees(e)'
  <2>1. Copies(e.id)' = Copies(e.id)
    BY DEF Copies
  <2>2. m.state \notin Released
    BY <1>5 DEF Released
  <2>3. QED BY <1>3, <1>6, <1>8, <2>1, <2>2 DEF MessageAgrees
<1>10. ~Due(i)'
  <2>1. inflight'[i] = e
    BY <1>3, <1>4, ListedReplace
  <2>2. QED BY <1>6, <2>1 DEF Due
<1>11. /\ OneUnderWay' /\ UnderWay' \subseteq UnderWay \cup {e.mid}
       /\ \A packet \in ToSet(wire') :
            \/ packet \in ToSet(wire) /\ Tag(packet) # e.mid
            \/ PacketAgrees(packet)'
       /\ \A reply \in ToSet(toClient') : reply \in ToSet(toClient) /\ Tag(reply) # e.mid
       /\ LinkAgrees'
  <2>1. CASE UNCHANGED wire
    <3>1. OneUnderWay' /\ UnderWay' \subseteq UnderWay \cup {e.mid}
      BY <2>1 DEF Agreement, OneUnderWay, UnderWay
    <3>2. /\ \A packet \in ToSet(wire) : Tag(packet) # e.mid
          /\ \A reply \in ToSet(toClient) : Tag(reply) # e.mid
      BY <1>3, <1>7 DEF UnderWay, Tags
    <3>3. LinkAgrees'
      BY <2>1 DEF Agreement, LinkAgrees
    <3>4. QED BY <2>1, <3>1, <3>2, <3>3
  <2>2. CASE Sendable(inflight[i]) /\ Send(Publish(inflight[i]))
    <3>1. /\ Publish(m) \in Packet /\ Tag(Publish(m)) = m.mid /\ wire \in Seq(Packet)
          /\ wire' = Append(wire, Publish(m)) /\ link \in Up
      BY <1>2, <2>2, PublishType
         DEF Send, Publish, Tag, Sendable, Underlying, Identity, Basic, TypeOK
    <3>2. /\ OneUnderWay' /\ UnderWay' = UnderWay \cup {m.mid}
          /\ ToSet(wire') = ToSet(wire) \cup {Publish(m)}
          /\ \A packet \in ToSet(wire) : Tag(packet) # m.mid
          /\ \A reply \in ToSet(toClient) : Tag(reply) # m.mid
      BY <1>7, <3>1, SendMoves DEF Agreement
    <3>3. PacketAgrees(Publish(m))'
      <4>1. /\ Publish(m).type = "PUBLISH" /\ Publish(m).id = m.id
            /\ Publish(m).mid = m.mid /\ Publish(m).qos = m.qos
        BY DEF Publish
      <4>2. e \in Listed' /\ InPublish(e, m.mid, m.qos)
        <5>1. Listed' = (Listed \ {inflight[i]}) \cup {e}
          BY <1>4, ListedReplace
        <5>2. QED BY <1>3, <1>6, <5>1 DEF InPublish
      <4>3. Copies(m.id)' = Copies(m.id)
        BY DEF Copies
      <4>4. QED BY <1>3, <1>8, <4>1, <4>2, <4>3 DEF PacketAgrees
    <3>4. LinkAgrees'
      BY <3>1 DEF Agreement, LinkAgrees
    <3>5. QED BY <1>3, <3>2, <3>3, <3>4
  <2>3. QED BY <1>1, <2>1, <2>2
<1>12. TaskAgrees'
  <2>1. Elsewhere(e.mid)
    BY <1>2, <1>3, <1>4, ReplaceElsewhere
  <2>2. e.mid \notin TaskTags
    BY <1>3, <1>7 DEF UnderWay
  <2>3. QED BY <2>1, <2>2, TaskElsewhere DEF Agreement
<1>13. QED BY <1>2, <1>3, <1>4, <1>6, <1>9, <1>10, <1>11, <1>12, ReplaceStep

\* What a handler knows does not change with the list, the link and the broker.
LEMMA TaskUnchanged ==
  ASSUME TaskAgrees, UNCHANGED <<inflight, link, delivered, held, task>>
  PROVE  TaskAgrees'
<1>1. Listed' = Listed
  BY DEF Listed, Entries
<1>2. QED BY <1>1 DEF TaskAgrees

\* mosquitto__mid_generate
LEMMA BeginAgrees ==
  ASSUME Underlying, Agreement, NEW p \in Publishers, Begin(p)
  PROVE  Agreement'
<1> USE DEF Begin, Inside, PublishBegin
<1>1. draft \in [Publishers -> Message \cup {NoDraft}]
  BY DEF Underlying, Identity, Basic, TypeOK
<1>2. PICK qos \in {1, 2}, big \in Sizes :
        draft' = [draft EXCEPT ![p] =
                    [id |-> issued + 1, mid |-> NextMid, qos |-> qos, big |-> big,
                     state |-> "invalid", dup |-> FALSE]]
  OBVIOUS
<1>3. draft'[p].state = "invalid" /\ \A q \in Publishers : q # p => draft'[q] = draft[q]
  BY <1>1, <1>2
<1>4. DraftsNew'
  BY <1>3 DEF Agreement, DraftsNew, Drafting
<1>5. TaskAgrees' /\ TaskTags' = TaskTags
  BY TaskUnchanged DEF Agreement, TaskTags
<1>6. QED BY <1>4, <1>5, QuietStep

\* message__queue: the identifier of the new message is in nobody's hands, because what
\* is under way belongs to messages of the list, and theirs are different.
LEMMA EnqueueAgrees ==
  ASSUME Underlying, Underlying', MidsApart', Agreement, NEW p \in Publishers, Enqueue(p)
  PROVE  Agreement'
<1> USE DEF Enqueue, Inside, PublishQueue
<1> DEFINE n == Len(inflight) + 1
<1>1. PICK e \in Message : e = draft[p]
  BY DEF Underlying, Identity, Basic, TypeOK
<1>2. /\ inflight' = Append(inflight, e)
      /\ UNCHANGED <<link, wire, task, lastMid, quota>> /\ UNCHANGED brokerVars
      /\ accepted' = accepted \cup {e.id}
      /\ draft' = [draft EXCEPT ![p] = NoDraft]
      /\ lock = Free
  BY <1>1 DEF Acquire
<1>3. /\ Listed' = Listed \cup {e}
      /\ Entries' = Entries \cup {n}
      /\ inflight'[n] = e
      /\ \A j \in Entries : inflight'[j] = inflight[j]
  BY <1>2, ListedAppend
<1>4. Drafting(p) /\ e.state = "invalid" /\ e.id \in Ids /\ e.id \notin accepted
                  /\ e.qos \in {1, 2} /\ e.mid \in Mids /\ e.mid # 0
  BY <1>1 DEF Underlying, Identity, Drafted, Drafting, Message, NoDraft, Ids, Mids,
              Agreement, DraftsNew
<1>5. delivered[1][e.id] = 0 /\ delivered[2][e.id] = 0
  <2>1. delivered[1][e.id] \in Nat /\ delivered[2][e.id] \in Nat
    BY <1>4 DEF Underlying, SessionTypes
  <2>2. ~(delivered[1][e.id] + delivered[2][e.id] > 0)
    BY <1>4 DEF Agreement, TakenAgrees, Copies
  <2>3. QED BY <2>1, <2>2
<1>6. \A m \in Listed : m.mid # e.mid
  <2>1. \A m, k \in Listed' : m.mid = k.mid => m = k
    BY DEF MidsApart, Listed
  <2>2. \A m \in Listed : m.id \in accepted
    BY ListedFacts
  <2>3. QED BY <1>3, <1>4, <2>1, <2>2
<1>7. e.mid \notin UnderWay /\ e.mid \notin held
  <2>1. \A packet \in ToSet(wire) : Tag(packet) # e.mid
    <3>1. ASSUME NEW packet \in ToSet(wire) PROVE Tag(packet) # e.mid
      <4>1. packet \in Packet /\ PacketAgrees(packet)
        <5>1. wire \in Seq(Packet)
          BY DEF Underlying, Identity, Basic, TypeOK
        <5>2. QED BY <5>1, LenProperties, ElementOfSeq DEF ToSet, Agreement
      <4>2. QED BY <1>4, <1>6, <4>1 DEF PacketAgrees, Packet, Tag, InPublish, InRelease
    <3>2. QED BY <3>1
  <2>2. \A reply \in ToSet(toClient) : Tag(reply) # e.mid
    <3>1. ASSUME NEW reply \in ToSet(toClient) PROVE Tag(reply) # e.mid
      <4>1. reply \in Replies /\ ReplyAgrees(reply)
        <5>1. toClient \in Seq(Replies)
          BY DEF Underlying, SessionTypes
        <5>2. QED BY <5>1, LenProperties, ElementOfSeq DEF ToSet, Agreement
      <4>2. QED BY <1>4, <1>6, <4>1 DEF ReplyAgrees, Replies, Tag, InPublish, InRelease
    <3>2. QED BY <3>1
  <2>3. e.mid \notin TaskTags
    BY <1>4, <1>6 DEF Agreement, TaskAgrees, TaskTags, InPublish, InRelease
  <2>4. e.mid \notin held
    BY <1>6 DEF Agreement, HeldAgrees
  <2>5. QED BY <2>1, <2>2, <2>3, <2>4 DEF UnderWay, Tags
<1>8. Elsewhere(e.mid)
  BY <1>2, <1>3 DEF Elsewhere
<1>9. OneUnderWay' /\ UnderWay' = UnderWay
  BY <1>2 DEF Agreement, OneUnderWay, UnderWay, TaskTags
<1>10. /\ \A packet \in ToSet(wire') : packet \in ToSet(wire) /\ Tag(packet) # e.mid
       /\ \A reply \in ToSet(toClient') : reply \in ToSet(toClient) /\ Tag(reply) # e.mid
  BY <1>2, <1>7 DEF UnderWay, Tags
<1>11. \A m \in Listed' : m.mid = e.mid => MessageAgrees(m)'
  <2>1. \A m \in Listed' : m.mid = e.mid => m = e
    BY <1>3, <1>6
  <2>2. MessageAgrees(e)'
    <3>1. /\ delivered'[1][e.id] = 0 /\ delivered'[2][e.id] = 0
          /\ ~(delivered'[1][e.id] + delivered'[2][e.id] > 0)
      BY <1>2, <1>5
    <3>2. QED BY <1>4, <3>1 DEF MessageAgrees, Copies, Released
  <2>3. QED BY <2>1, <2>2
<1>12. TaskAgrees'
  BY <1>2, <1>7, <1>8, TaskElsewhere DEF Agreement, UnderWay
<1>13. LinkAgrees' /\ TakenAgrees' /\ TwiceOnlyIfDemoted'
  BY <1>2 DEF Agreement, LinkAgrees, TakenAgrees, TwiceOnlyIfDemoted, Copies
<1>14. RestartAgrees'
  BY <1>2, <1>3, <1>4 DEF Agreement, RestartAgrees, Restarting
<1>15. DueSilent'
  BY <1>2, <1>3, <1>7, <1>9 DEF Agreement, DueSilent, Due
<1>16. DraftsNew'
  BY <1>2 DEF Agreement, DraftsNew, Drafting, Underlying, Identity, Basic, TypeOK
<1>17. QED BY <1>2, <1>7, <1>8, <1>9, <1>10, <1>11, <1>12, <1>13, <1>14, <1>15, <1>16,
              LocalStep

\* The pass of mosquitto_publish_v5 over the list: message__retry_check is not under way,
\* because it holds the mutex.
LEMMA PublisherReleaseAgrees ==
  ASSUME Underlying, Underlying', MidsApart, Agreement,
         NEW p \in Publishers, Release(p)
  PROVE  Agreement'
<1>1. /\ ReleaseNext \/ ReleaseFails \/ ReleaseEnds
      /\ lock = p
      /\ UNCHANGED <<link, accepted, draft, task>> /\ UNCHANGED brokerVars
  BY DEF Release, Inside, PublishRelease, PublishReturn
<1>2. task.op # "retry"
  BY <1>1, ThreadsAssumption DEF Underlying, Identity, Basic, MutexHeld
<1>3. TaskTags' = TaskTags
  BY <1>1 DEF TaskTags
<1>4. CASE ReleaseNext \/ ReleaseFails
  BY <1>1, <1>2, <1>3, <1>4, ReleaseAgrees
<1>5. CASE ReleaseEnds
  <2>1. UNCHANGED <<inflight, wire>>
    BY <1>5 DEF ReleaseEnds
  <2>2. TaskAgrees' /\ DraftsNew'
    BY <1>1, <2>1, TaskUnchanged DEF Agreement, DraftsNew, Drafting
  <2>3. QED BY <1>1, <1>2, <1>3, <2>1, <2>2, QuietStep
<1>6. QED BY <1>1, <1>4, <1>5

\* CONNECT: the broker resumes its session, or starts another one and forgets which
\* QoS 2 messages it has taken.
LEMMA BrokerConnectAgrees ==
  ASSUME Underlying, Underlying', Agreement, BrokerConnect
  PROVE  Agreement'
<1>1. PICK reply \in Replies : reply = Reply("CONNACK", 0)
  <2>1. 0 \in 0..MaxMid
    BY BoundsAssumption
  <2>2. QED BY <2>1 DEF Reply, Replies
<1>2. /\ wire # <<>> /\ wire' = Tail(wire) /\ Head(wire) = Connect
      /\ toClient' = Append(toClient, reply)
      /\ UNCHANGED <<inflight, link, task, draft, accepted, delivered, refused>>
      /\ ~greeted /\ greeted' = TRUE
      /\ \/ UNCHANGED <<held, demoted>>
         \/ held' = {} /\ demoted' = demoted \cup {id \in OnList : delivered[2][id] > 0}
  BY <1>1 DEF BrokerConnect, Transmit, Answer
<1>3. reply.type = "CONNACK" /\ reply.mid = 0 /\ Tag(reply) = 0 /\ Tag(Connect) = 0
  BY <1>1 DEF Reply, Tag, Connect
<1>4. wire \in Seq(Packet) /\ toClient \in Seq(Replies) /\ TaskTags' = TaskTags
  BY <1>2 DEF Underlying, Identity, Basic, TypeOK, SessionTypes, TaskTags
<1>5. /\ OneUnderWay' /\ UnderWay' = UnderWay
      /\ Head(wire) \in ToSet(wire)
      /\ \A other \in ToSet(wire') : other \in ToSet(wire) /\ Tag(other) # 0
      /\ ToSet(toClient') = ToSet(toClient) \cup {reply}
      /\ 0 \notin TaskTags
  BY <1>2, <1>3, <1>4, AnswerMoves DEF Agreement
<1>6. link = "connected" /\ toClient = <<>>
  BY <1>2, <1>5 DEF Agreement, PacketAgrees, LinkAgrees, Connect
<1>7. Listed' = Listed /\ Entries' = Entries
  BY <1>2 DEF Listed, Entries
<1>8. \A packet \in ToSet(wire') : PacketAgrees(packet)'
  <2>1. ASSUME NEW packet \in ToSet(wire') PROVE PacketAgrees(packet)'
    <3>1. PacketAgrees(packet) /\ packet.type # "CONNECT"
      BY <1>5 DEF Agreement, Tag
    <3>2. Copies(packet.id)' = Copies(packet.id) /\ demoted \subseteq demoted'
      BY <1>2 DEF Copies
    <3>3. QED BY <1>7, <3>1, <3>2 DEF PacketAgrees
  <2>2. QED BY <2>1
<1>9. \A other \in ToSet(toClient') : ReplyAgrees(other)'
  <2>1. ToSet(toClient') = {reply}
    BY <1>5, <1>6, NoTags
  <2>2. QED BY <1>2, <1>3, <1>6, <2>1 DEF ReplyAgrees
<1>10. \A m \in Listed' : MessageAgrees(m)'
  <2>1. ASSUME NEW m \in Listed' PROVE MessageAgrees(m)'
    <3>1. MessageAgrees(m) /\ m.id \in OnList /\ Copies(m.id)' = Copies(m.id)
      BY <1>2, <1>7, ListedFacts DEF Agreement, Copies, Listed, OnList
    <3>2. QED BY <1>2, <3>1 DEF MessageAgrees
  <2>2. QED BY <2>1
<1>11. HeldAgrees' /\ TakenAgrees' /\ TwiceOnlyIfDemoted' /\ DraftsNew'
  BY <1>2, <1>7
     DEF Agreement, HeldAgrees, TakenAgrees, TwiceOnlyIfDemoted, DraftsNew, Drafting, Copies
<1>12. TaskAgrees' /\ LinkAgrees'
  BY <1>2, <1>6 DEF Agreement, TaskAgrees, LinkAgrees, Up
<1>13. RestartAgrees' /\ DueSilent'
  BY <1>2, <1>5, <1>7
     DEF Agreement, RestartAgrees, Restarting, DueSilent, Due
<1>14. QED BY <1>5, <1>8, <1>9, <1>10, <1>11, <1>12, <1>13 DEF Agreement

\* The broker takes a PUBLISH or a PUBREL and answers it.
LEMMA BrokerStep ==
  ASSUME Underlying, Underlying', MidsApart, Agreement, greeted,
         wire # <<>>, wire' = Tail(wire),
         NEW m \in Listed, NEW reply \in Replies, reply.type # "CONNACK",
         Tag(reply) = Tag(Head(wire)), m.mid = reply.mid,
         toClient' = Append(toClient, reply),
         UNCHANGED <<inflight, link, greeted, task, draft, accepted>>,
         Elsewhere(m.mid), ReplyAgrees(reply)', MessageAgrees(m)',
         m.mid \in held' => m.qos = 2 /\ delivered'[2][m.id] > 0,
         TakenAgrees', TwiceOnlyIfDemoted'
  PROVE  Agreement'
<1>1. Tag(reply) = m.mid
  BY DEF Replies, Tag
<1>2. wire \in Seq(Packet) /\ toClient \in Seq(Replies) /\ TaskTags' = TaskTags
  BY DEF Underlying, Identity, Basic, TypeOK, SessionTypes, TaskTags
<1>3. /\ OneUnderWay' /\ UnderWay' = UnderWay
      /\ Head(wire) \in ToSet(wire)
      /\ \A other \in ToSet(wire') : other \in ToSet(wire) /\ Tag(other) # m.mid
      /\ ToSet(toClient') = ToSet(toClient) \cup {reply}
      /\ \A other \in ToSet(toClient) : Tag(other) # m.mid
      /\ m.mid \notin TaskTags
  BY <1>1, <1>2, AnswerMoves DEF Agreement
<1>4. Listed' = Listed /\ Entries' = Entries
  BY DEF Listed, Entries
<1>5. \A n \in Listed' : n.mid = m.mid => n = m
  BY <1>4, ListedFacts
<1>6. \A n \in Listed' : n.mid = m.mid => MessageAgrees(n)'
  BY <1>5
<1>7. TaskAgrees'
  BY <1>3, TaskElsewhere DEF Agreement
<1>8. LinkAgrees'
  BY DEF Agreement, LinkAgrees, Up
<1>9. RestartAgrees' /\ DueSilent' /\ DraftsNew'
  BY <1>3, <1>4
     DEF Agreement, RestartAgrees, Restarting, DueSilent, Due, DraftsNew, Drafting
<1>10. QED BY <1>3, <1>4, <1>6, <1>7, <1>8, <1>9, LocalStep

\* PUBLISH: the broker takes it, knows it already, or refuses it.
LEMMA BrokerPublishAgrees ==
  ASSUME Underlying, Underlying', MidsApart, Agreement, BrokerPublish
  PROVE  Agreement'
<1>1. PICK packet \in Packet : packet = Head(wire)
  <2>1. wire # <<>> /\ wire \in Seq(Packet)
    BY DEF BrokerPublish, Transmit, Underlying, Identity, Basic, TypeOK
  <2>2. QED BY <2>1, HeadType
<1>2. /\ wire # <<>> /\ wire' = Tail(wire) /\ wire \in Seq(Packet)
      /\ UNCHANGED <<inflight, link, task, draft, accepted, greeted, demoted>>
      /\ packet.type = "PUBLISH" /\ greeted
  BY <1>1 DEF BrokerPublish, Transmit, Underlying, Identity, Basic, TypeOK
<1>3. packet.id \in Ids /\ packet.mid \in Mids /\ packet.qos \in {1, 2}
  BY <1>1, <1>2, HeadType
<1>4. PICK m \in Listed : InPublish(m, packet.mid, packet.qos) /\ m.id = packet.id
  <2>1. packet \in ToSet(wire)
    BY <1>1, <1>2, TailElements
  <2>2. PacketAgrees(packet)
    BY <2>1 DEF Agreement
  <2>3. QED BY <1>2, <2>2 DEF PacketAgrees
<1>5. /\ m.mid = packet.mid /\ m.qos = packet.qos /\ m.state \in Published
      /\ m.id \in Ids /\ m.mid \in Mids /\ MessageAgrees(m) /\ m.id \in accepted
      /\ m.state \notin Released /\ m.state # "invalid"
  BY <1>4, ListedFacts DEF InPublish, Agreement, Published, Released
<1>6. Listed' = Listed
  BY <1>2 DEF Listed, Entries
<1>7. /\ delivered \in [{1, 2} -> [Ids -> Nat]] /\ delivered[1][m.id] \in Nat
      /\ delivered[2][m.id] \in Nat /\ toClient \in Seq(Replies)
  BY <1>5 DEF Underlying, SessionTypes
<1>8. /\ \A n \in Listed : n.id \in Ids
      /\ \A n \in Listed : n.mid # m.mid => n.id # m.id
  BY ListedFacts
<1>9. ASSUME NEW type \in {"PUBACK", "PUBREC", "PUBREC_ERROR"}
      PROVE  /\ Reply(type, m.mid) \in Replies
             /\ Reply(type, m.mid).type = type /\ Reply(type, m.mid).mid = m.mid
             /\ Tag(Reply(type, m.mid)) = Tag(Head(wire))
  <2>1. m.mid \in 0..MaxMid
    BY <1>5 DEF Mids
  <2>2. QED BY <1>1, <1>2, <1>5, <2>1 DEF Reply, Replies, Tag
<1>10. CASE /\ Take(packet)
            /\ \/ /\ packet.qos = 1
                  /\ Answer("PUBACK", packet.mid) /\ UNCHANGED <<held, refused>>
               \/ /\ packet.qos = 2 /\ packet.mid \notin held
                  /\ held' = held \cup {packet.mid}
                  /\ Answer("PUBREC", packet.mid) /\ UNCHANGED refused
  <2>1. /\ \A id \in Ids : id # m.id => /\ delivered'[1][id] = delivered[1][id]
                                        /\ delivered'[2][id] = delivered[2][id]
        /\ m.qos = 1 => /\ delivered'[1][m.id] = delivered[1][m.id] + 1
                        /\ delivered'[2][m.id] = delivered[2][m.id]
        /\ m.qos = 2 => /\ delivered'[1][m.id] = delivered[1][m.id]
                        /\ delivered'[2][m.id] = delivered[2][m.id] + 1
    BY <1>3, <1>4, <1>5, <1>7, <1>10, TakeCounts
  <2>2. TakenAgrees'
    BY <1>2, <1>5, <2>1 DEF Agreement, TakenAgrees, Copies
  <2>3. CASE /\ packet.qos = 1
             /\ Answer("PUBACK", packet.mid) /\ UNCHANGED <<held, refused>>
    <3>1. Elsewhere(m.mid)
      BY <1>2, <1>6, <1>8, <2>1, <2>3 DEF Elsewhere
    <3>2. TwiceOnlyIfDemoted'
      <4>1. \A id \in Ids : delivered'[2][id] = delivered[2][id]
        BY <1>5, <2>1, <2>3
      <4>2. QED BY <1>2, <4>1 DEF Agreement, TwiceOnlyIfDemoted
    <3>3. MessageAgrees(m)' /\ delivered'[1][m.id] > 0
      BY <1>2, <1>5, <1>7, <2>1, <2>3 DEF MessageAgrees
    <3>4. PICK reply \in Replies : reply = Reply("PUBACK", m.mid)
      BY <1>9
    <3>5. reply.type = "PUBACK" /\ reply.mid = m.mid /\ Tag(reply) = Tag(Head(wire))
      BY <1>9, <3>4
    <3>6. ReplyAgrees(reply)'
      BY <1>4, <1>5, <1>6, <2>3, <3>3, <3>5 DEF ReplyAgrees, InPublish
    <3>7. toClient' = Append(toClient, reply)
      BY <1>5, <2>3, <3>4 DEF Answer
    <3>8. m.mid \notin held'
      <4>1. ASSUME m.mid \in held PROVE FALSE
        <5>1. PICK n \in Listed : n.mid = m.mid /\ n.qos = 2
          BY <4>1 DEF Agreement, HeldAgrees
        <5>2. n = m
          BY <5>1, ListedFacts
        <5>3. QED BY <1>5, <2>3, <5>1, <5>2
      <4>2. QED BY <2>3, <4>1
    <3>9. QED BY <1>2, <2>2, <3>1, <3>2, <3>3, <3>5, <3>6, <3>7, <3>8, BrokerStep
  <2>4. CASE /\ packet.qos = 2 /\ packet.mid \notin held
             /\ held' = held \cup {packet.mid}
             /\ Answer("PUBREC", packet.mid) /\ UNCHANGED refused
    <3>1. Elsewhere(m.mid)
      BY <1>2, <1>5, <1>6, <1>8, <2>1, <2>4 DEF Elsewhere
    <3>2. TwiceOnlyIfDemoted'
      <4>1. delivered[2][m.id] > 0 => m.id \in demoted
        BY <1>5, <2>4 DEF MessageAgrees
      <4>2. delivered'[2][m.id] > 1 => delivered[2][m.id] > 0
        BY <1>5, <1>7, <2>1, <2>4
      <4>3. \A id \in Ids : id # m.id => delivered'[2][id] = delivered[2][id]
        BY <2>1
      <4>4. QED BY <1>2, <4>1, <4>2, <4>3 DEF Agreement, TwiceOnlyIfDemoted
    <3>3. MessageAgrees(m)' /\ delivered'[2][m.id] > 0
      BY <1>2, <1>5, <1>7, <2>1, <2>4 DEF MessageAgrees
    <3>4. PICK reply \in Replies : reply = Reply("PUBREC", m.mid)
      BY <1>9
    <3>5. reply.type = "PUBREC" /\ reply.mid = m.mid /\ Tag(reply) = Tag(Head(wire))
      BY <1>9, <3>4
    <3>6. ReplyAgrees(reply)'
      BY <1>4, <1>5, <1>6, <2>4, <3>5 DEF ReplyAgrees, InPublish
    <3>7. toClient' = Append(toClient, reply)
      BY <1>5, <2>4, <3>4 DEF Answer
    <3>8. QED BY <1>2, <1>5, <2>2, <2>4, <3>1, <3>2, <3>3, <3>5, <3>6, <3>7, BrokerStep
  <2>5. QED BY <1>10, <2>3, <2>4
<1>11. CASE /\ packet.qos = 2 /\ packet.mid \in held
            /\ Answer("PUBREC", packet.mid) /\ UNCHANGED <<held, delivered, refused>>
  <2>1. Elsewhere(m.mid) /\ MessageAgrees(m)' /\ TakenAgrees' /\ TwiceOnlyIfDemoted'
    BY <1>2, <1>5, <1>6, <1>11
       DEF Elsewhere, MessageAgrees, Agreement, TakenAgrees, TwiceOnlyIfDemoted, Copies
  <2>2. PICK reply \in Replies : reply = Reply("PUBREC", m.mid)
    BY <1>9
  <2>3. reply.type = "PUBREC" /\ reply.mid = m.mid /\ Tag(reply) = Tag(Head(wire))
    BY <1>9, <2>2
  <2>4. ReplyAgrees(reply)'
    BY <1>4, <1>5, <1>6, <1>11, <2>3 DEF ReplyAgrees, InPublish
  <2>5. toClient' = Append(toClient, reply)
    BY <1>5, <1>11, <2>2 DEF Answer
  <2>6. delivered[2][m.id] > 0
    <3>1. PICK n \in Listed : n.mid = m.mid /\ delivered[2][n.id] > 0
      BY <1>5, <1>11 DEF Agreement, HeldAgrees
    <3>2. n = m
      BY <3>1, ListedFacts
    <3>3. QED BY <3>1, <3>2
  <2>7. QED BY <1>2, <1>5, <1>11, <2>1, <2>3, <2>4, <2>5, <2>6, BrokerStep
<1>12. CASE /\ packet.qos = 2 /\ packet.mid \notin held
            /\ refused' = refused \cup {packet.id}
            /\ Answer("PUBREC_ERROR", packet.mid) /\ UNCHANGED <<held, delivered>>
  <2>1. Elsewhere(m.mid) /\ MessageAgrees(m)' /\ TakenAgrees' /\ TwiceOnlyIfDemoted'
    BY <1>2, <1>5, <1>6, <1>12
       DEF Elsewhere, MessageAgrees, Agreement, TakenAgrees, TwiceOnlyIfDemoted, Copies
  <2>2. PICK reply \in Replies : reply = Reply("PUBREC_ERROR", m.mid)
    BY <1>9
  <2>3. reply.type = "PUBREC_ERROR" /\ reply.mid = m.mid /\ Tag(reply) = Tag(Head(wire))
    BY <1>9, <2>2
  <2>4. ReplyAgrees(reply)'
    BY <1>4, <1>5, <1>6, <1>12, <2>3 DEF ReplyAgrees, InPublish
  <2>5. toClient' = Append(toClient, reply)
    BY <1>5, <1>12, <2>2 DEF Answer
  <2>6. QED BY <1>2, <1>5, <1>12, <2>1, <2>3, <2>4, <2>5, BrokerStep
<1>13. QED BY <1>1, <1>10, <1>11, <1>12 DEF BrokerPublish

\* PUBREL: the broker forgets the identifier.
LEMMA BrokerPubrelAgrees ==
  ASSUME Underlying, Underlying', MidsApart, Agreement, BrokerPubrel
  PROVE  Agreement'
<1>1. PICK packet \in Packet : packet = Head(wire)
  <2>1. wire # <<>> /\ wire \in Seq(Packet)
    BY DEF BrokerPubrel, Transmit, Underlying, Identity, Basic, TypeOK
  <2>2. QED BY <2>1, HeadType
<1>2. /\ wire # <<>> /\ wire' = Tail(wire) /\ wire \in Seq(Packet)
      /\ UNCHANGED <<inflight, link, task, draft, accepted, greeted, demoted, delivered,
                     refused>>
      /\ packet.type = "PUBREL" /\ greeted
      /\ held' = held \ {packet.mid}
      /\ toClient' = Append(toClient, Reply("PUBCOMP", packet.mid))
  BY <1>1 DEF BrokerPubrel, Transmit, Answer, Underlying, Identity, Basic, TypeOK
<1>3. PICK m \in Listed : InRelease(m, packet.mid)
  <2>1. packet \in ToSet(wire)
    BY <1>1, <1>2, TailElements
  <2>2. PacketAgrees(packet)
    BY <2>1 DEF Agreement
  <2>3. QED BY <1>2, <2>2 DEF PacketAgrees
<1>4. /\ m.mid = packet.mid /\ m.qos = 2 /\ m.state \in Released
      /\ m.mid \in Mids /\ MessageAgrees(m)
  BY <1>3, ListedFacts DEF InRelease, Agreement
<1>5. Listed' = Listed
  BY <1>2 DEF Listed, Entries
<1>6. PICK reply \in Replies : reply = Reply("PUBCOMP", m.mid)
  <2>1. m.mid \in 0..MaxMid
    BY <1>4 DEF Mids
  <2>2. QED BY <2>1 DEF Reply, Replies
<1>7. reply.type = "PUBCOMP" /\ reply.mid = m.mid /\ Tag(reply) = Tag(Head(wire))
  BY <1>1, <1>2, <1>4, <1>6 DEF Reply, Tag
<1>8. Elsewhere(m.mid) /\ TakenAgrees' /\ TwiceOnlyIfDemoted'
  BY <1>2, <1>4, <1>5
     DEF Elsewhere, Agreement, TakenAgrees, TwiceOnlyIfDemoted, Copies
<1>9. MessageAgrees(m)'
  BY <1>2, <1>4 DEF MessageAgrees, Copies
<1>10. ReplyAgrees(reply)'
  BY <1>2, <1>3, <1>4, <1>5, <1>7 DEF ReplyAgrees, InRelease
<1>11. QED BY <1>2, <1>4, <1>6, <1>7, <1>8, <1>9, <1>10, BrokerStep

\* The socket is closed: what was under way is lost, the messages stay.
LEMMA CloseStep ==
  ASSUME Underlying, Agreement,
         UNCHANGED <<inflight, held, delivered, refused, demoted, accepted, draft>>,
         link' = "down", wire' = <<>>, toClient' = <<>>, greeted' = FALSE, task' = Idle
  PROVE  Agreement'
<1>1. Listed' = Listed /\ Entries' = Entries
  BY DEF Listed, Entries
<1>2. task'.op = "idle" /\ TaskTags' = {}
  BY IdleTags
<1>3. OneUnderWay' /\ UnderWay' = {} /\ ToSet(wire') = {} /\ ToSet(toClient') = {}
  BY <1>2, CloseMoves
<1>4. \A m \in Listed' : MessageAgrees(m)'
  BY <1>1 DEF Agreement, MessageAgrees, Copies
<1>5. HeldAgrees' /\ TakenAgrees' /\ TwiceOnlyIfDemoted' /\ DraftsNew'
  BY <1>1
     DEF Agreement, HeldAgrees, TakenAgrees, TwiceOnlyIfDemoted, DraftsNew, Drafting, Copies
<1>6. TaskAgrees' /\ LinkAgrees' /\ RestartAgrees'
  BY <1>2 DEF TaskAgrees, LinkAgrees, RestartAgrees, Restarting, Up
<1>7. DueSilent'
  BY <1>3 DEF DueSilent
<1>8. QED BY <1>3, <1>4, <1>5, <1>6, <1>7 DEF Agreement

\* Every way a connection ends.
LEMMA CloseAgrees ==
  ASSUME Underlying, Agreement, BrokerDrops \/ LoseConnection
  PROVE  Agreement'
<1>1. /\ toClient' = <<>> /\ greeted' = FALSE
      /\ UNCHANGED <<inflight, accepted, draft, held, delivered, refused, demoted>>
  BY DEF BrokerDrops, LoseConnection, Disconnected, Lose, ConnackRefuse, SocketFails
<1>2. link' = "down" /\ wire' = <<>> /\ task' = Idle
  <2>1. CASE Lose \/ ConnackRefuse
    BY <2>1 DEF Lose, ConnackRefuse, Close
  <2>2. CASE SocketFails
    BY <2>2 DEF SocketFails, Agreement, LinkAgrees, Up
  <2>3. QED BY <2>1, <2>2 DEF BrokerDrops, LoseConnection
<1>3. QED BY <1>1, <1>2, CloseStep

\* A message leaves the list with the packet that was under way for it.
LEMMA RemoveStep ==
  ASSUME Underlying, Underlying', MidsApart, Agreement,
         NEW i \in Entries, NEW m \in Listed, m = inflight[i],
         inflight' = RemoveAt(inflight, i),
         UNCHANGED <<link, greeted, held, delivered, refused, demoted, accepted, draft>>,
         OneUnderWay', UnderWay' \subseteq UnderWay,
         \A packet \in ToSet(wire') : packet \in ToSet(wire) /\ Tag(packet) # m.mid,
         \A reply \in ToSet(toClient') : reply \in ToSet(toClient) /\ Tag(reply) # m.mid,
         m.mid \notin held,
         TaskAgrees', LinkAgrees', task.op # "retry", task'.op # "retry"
  PROVE  Agreement'
<1>1. /\ Listed' = Listed \ {m}
      /\ \A j \in Entries' : \E k \in Entries : inflight'[j] = inflight[k]
  BY ListedRemove
<1>2. Elsewhere(m.mid)
  BY <1>1 DEF Elsewhere
<1>3. \A n \in Listed' : n.mid # m.mid
  BY <1>1, ListedFacts
<1>4. DueSilent'
  <2>1. ASSUME NEW j \in Entries', Due(j)'
        PROVE  inflight'[j].mid \notin UnderWay'
    <3>1. PICK k \in Entries : inflight'[j] = inflight[k]
      BY <1>1
    <3>2. Due(k)
      BY <2>1, <3>1 DEF Due
    <3>3. QED BY <3>1, <3>2 DEF Agreement, DueSilent
  <2>2. QED BY <2>1 DEF DueSilent
<1>5. RestartAgrees' /\ TakenAgrees' /\ DraftsNew' /\ TwiceOnlyIfDemoted'
  BY <1>1
     DEF Agreement, RestartAgrees, Restarting, TakenAgrees, DraftsNew, Drafting,
         TwiceOnlyIfDemoted, Copies
<1>6. QED BY <1>2, <1>3, <1>4, <1>5, LocalStep

\* An answer is handed to a handler of Loop that keeps its identifier.
LEMMA ReceiveStep ==
  ASSUME Underlying, Underlying', Agreement,
         toClient # <<>>, toClient' = Tail(toClient), task = Idle,
         UNCHANGED <<inflight, wire, link, greeted, held, delivered, refused, demoted,
                     accepted, draft>>,
         task'.op # "retry", TaskTags' \subseteq {Tag(Head(toClient))}, TaskAgrees'
  PROVE  Agreement'
<1>1. PICK reply \in Replies : reply = Head(toClient)
  BY TailElements DEF Underlying, SessionTypes
<1>2. /\ OneUnderWay' /\ UnderWay' \subseteq UnderWay
      /\ \A other \in ToSet(wire') : other \in ToSet(wire) /\ Tag(other) # Tag(reply)
      /\ \A other \in ToSet(toClient') :
           other \in ToSet(toClient) /\ Tag(other) # Tag(reply)
  BY <1>1, IdleTags, ReceiveMoves DEF Agreement, Underlying, SessionTypes
<1>3. Listed' = Listed /\ Entries' = Entries
  BY DEF Listed, Entries
<1>4. Elsewhere(Tag(reply))
  BY <1>3 DEF Elsewhere
<1>5. \A m \in Listed' : MessageAgrees(m)'
  BY <1>3 DEF Agreement, MessageAgrees, Copies
<1>6. Tag(reply) \in held' =>
        \E m \in Listed' : m.mid = Tag(reply) /\ m.qos = 2 /\ delivered'[2][m.id] > 0
  BY <1>3 DEF Agreement, HeldAgrees
<1>7. TakenAgrees' /\ TwiceOnlyIfDemoted' /\ DraftsNew'
  BY DEF Agreement, TakenAgrees, TwiceOnlyIfDemoted, DraftsNew, Drafting, Copies
<1>8. LinkAgrees'
  <2>1. toClient # <<>> => link \in Up /\ greeted
    BY DEF Agreement, LinkAgrees
  <2>2. QED BY <2>1 DEF Agreement, LinkAgrees
<1>9. RestartAgrees' /\ DueSilent'
  BY <1>2, <1>3 DEF Agreement, RestartAgrees, Restarting, DueSilent, Due
<1>10. QED BY <1>2, <1>4, <1>5, <1>6, <1>7, <1>8, <1>9, LocalStep

\* CONNACK, PUBACK and PUBCOMP: the handler goes on with what the answer says.
LEMMA AcknowledgeAgrees ==
  ASSUME Underlying, Underlying', Agreement,
         toClient # <<>>, toClient' = Tail(toClient),
         UNCHANGED <<greeted, held, delivered, refused, demoted>>,
         NEW reply \in Replies, reply = Head(toClient),
         \/ reply.type = "CONNACK" /\ ConnackQuota
         \/ reply.type = "PUBACK" /\ AckCredit(reply.mid, 1)
         \/ reply.type = "PUBCOMP" /\ AckCredit(reply.mid, 2)
  PROVE  Agreement'
<1>1. ReplyAgrees(reply)
  <2>1. reply \in ToSet(toClient)
    BY TailElements DEF Underlying, SessionTypes
  <2>2. QED BY <2>1 DEF Agreement
<1>2. task = Idle /\ UNCHANGED <<inflight, wire, link, accepted, draft>>
  BY DEF ConnackQuota, AckCredit, Receiving
<1>3. Listed' = Listed
  BY <1>2 DEF Listed, Entries
<1>4. Tag(reply) = reply.mid
  BY DEF Tag, Replies
<1>5. /\ task'.op # "retry" /\ TaskTags' \subseteq {Tag(reply)} /\ TaskAgrees'
  <2>1. CASE reply.type = "CONNACK" /\ ConnackQuota
    <3>1. task'.op = "connack" /\ link' = "connected" /\ reply.mid = 0
      BY <1>1, <1>2, <2>1 DEF ConnackQuota, Task, ReplyAgrees
    <3>2. QED BY <1>4, <3>1 DEF TaskTags, TaskAgrees
  <2>2. CASE reply.type = "PUBACK" /\ AckCredit(reply.mid, 1)
    <3>1. /\ task'.op = "delete" /\ task'.mid = reply.mid /\ task'.qos = 1
          /\ link' = "active"
      BY <1>2, <2>2 DEF AckCredit, Task
    <3>2. \E m \in Listed' : InPublish(m, reply.mid, 1) /\ delivered'[1][m.id] > 0
      BY <1>1, <1>3, <2>2 DEF ReplyAgrees
    <3>3. QED BY <1>4, <3>1, <3>2 DEF TaskTags, TaskAgrees
  <2>3. CASE reply.type = "PUBCOMP" /\ AckCredit(reply.mid, 2)
    <3>1. /\ task'.op = "delete" /\ task'.mid = reply.mid /\ task'.qos = 2
          /\ link' = "active"
      BY <1>2, <2>3 DEF AckCredit, Task
    <3>2. reply.mid \notin held' /\ \E m \in Listed' : InRelease(m, reply.mid)
      BY <1>1, <1>3, <2>3 DEF ReplyAgrees
    <3>3. QED BY <1>4, <3>1, <3>2 DEF TaskTags, TaskAgrees
  <2>4. QED BY <2>1, <2>2, <2>3
<1>6. QED BY <1>2, <1>5, ReceiveStep

\* A PUBREC finds its message: handle__pubrec and message__out_update.
LEMMA PubrecAgrees ==
  ASSUME Underlying, Underlying', MidsApart, Agreement,
         toClient # <<>>, toClient' = Tail(toClient),
         UNCHANGED <<greeted, held, delivered, refused, demoted>>,
         NEW reply \in Replies, reply = Head(toClient),
         reply.type = "PUBREC", Pubrec(reply.mid)
  PROVE  Agreement'
<1>1. ReplyAgrees(reply)
  <2>1. reply \in ToSet(toClient)
    BY TailElements DEF Underlying, SessionTypes
  <2>2. QED BY <2>1 DEF Agreement
<1>2. PICK n \in Listed : InPublish(n, reply.mid, 2)
  BY <1>1 DEF ReplyAgrees
<1>3. /\ task = Idle /\ link = "active" /\ UNCHANGED <<task, link, accepted, draft>>
      /\ wire' = Append(wire, Pubrel(reply.mid))
  BY DEF Pubrec, Receiving, Send
<1>4. PICK i \in Entries :
        /\ inflight[i].mid = reply.mid /\ inflight[i].qos = 2
        /\ inflight' = [inflight EXCEPT ![i].state = "wait_for_pubcomp"]
  <2>1. ~Unknown(reply.mid)
    BY <1>2, ListedFacts DEF Unknown, Listed, InPublish
  <2>2. QED BY <2>1, ListedFacts DEF Pubrec, FirstWith
<1>5. PICK m \in Message : m = inflight[i]
  BY ListedFacts
<1>6. /\ m \in Listed /\ m.mid = reply.mid /\ m.qos = 2 /\ m = n
      /\ m.mid \in Mids /\ MessageAgrees(m)
  BY <1>2, <1>4, <1>5, ListedFacts DEF InPublish, Agreement
<1>7. PICK e \in Message :
        /\ e = [m EXCEPT !.state = "wait_for_pubcomp"]
        /\ e.id = m.id /\ e.mid = m.mid /\ e.qos = m.qos /\ e.state = "wait_for_pubcomp"
  <2>1. [m EXCEPT !.state = "wait_for_pubcomp"].state = "wait_for_pubcomp"
    BY DEF Message
  <2>2. "wait_for_pubcomp" \in States
    BY DEF States
  <2>3. QED BY <2>1, <2>2, NewState
<1>8. inflight' = [inflight EXCEPT ![i] = e]
  BY <1>4, <1>5, <1>7
<1>9. e.state \in Released /\ e.state \notin Resending /\ e.state # "invalid"
  BY <1>7 DEF Released, Resending
<1>10. delivered[2][m.id] > 0
  <2>1. PICK k \in Listed : k.mid = reply.mid /\ delivered[2][k.id] > 0
    <3>1. reply.mid \in held
      BY <1>1 DEF ReplyAgrees
    <3>2. QED BY <3>1 DEF Agreement, HeldAgrees
  <2>2. k = m
    BY <1>6, <2>1, ListedFacts
  <2>3. QED BY <2>1, <2>2
<1>11. MessageAgrees(e)'
  <2>1. delivered'[1][m.id] = 0 /\ delivered'[2][m.id] > 0
    BY <1>6, <1>10 DEF MessageAgrees
  <2>2. QED BY <1>6, <1>7, <1>9, <2>1 DEF MessageAgrees
<1>12. PICK packet \in Packet : packet = Pubrel(reply.mid)
  BY <1>6, PubrelType
<1>13. packet.type = "PUBREL" /\ packet.mid = reply.mid /\ Tag(packet) = Tag(reply)
       /\ Tag(packet) = e.mid
  BY <1>6, <1>7, <1>12 DEF Pubrel, Tag
<1>14. /\ OneUnderWay' /\ UnderWay' = UnderWay
       /\ ToSet(wire') = ToSet(wire) \cup {packet}
       /\ \A other \in ToSet(wire) : Tag(other) # e.mid
       /\ \A other \in ToSet(toClient') :
            other \in ToSet(toClient) /\ Tag(other) # e.mid
  <2>1. wire \in Seq(Packet) /\ toClient \in Seq(Replies)
    BY DEF Underlying, Identity, Basic, TypeOK, SessionTypes
  <2>2. TaskTags = {} /\ TaskTags' = {}
    BY <1>3, IdleTags
  <2>3. QED BY <1>3, <1>12, <1>13, <2>1, <2>2, PubrecMoves DEF Agreement
<1>15. PacketAgrees(packet)'
  <2>1. Listed' = (Listed \ {inflight[i]}) \cup {e}
    BY <1>8, ListedReplace
  <2>2. InRelease(e, reply.mid)
    BY <1>6, <1>7, <1>9 DEF InRelease
  <2>3. QED BY <1>13, <2>1, <2>2 DEF PacketAgrees
<1>16. ~Due(i)'
  <2>1. inflight'[i] = e
    BY <1>8, ListedReplace
  <2>2. QED BY <1>9, <2>1 DEF Due
<1>17. TaskAgrees' /\ LinkAgrees' /\ ~Restarting' /\ task'.op # "retry"
  <2>1. task'.op = "idle"
    BY <1>3, IdleTags
  <2>2. toClient # <<>> => greeted
    BY DEF Agreement, LinkAgrees
  <2>3. QED BY <1>3, <2>1, <2>2 DEF TaskAgrees, LinkAgrees, Restarting, Up
<1>18. QED BY <1>3, <1>5, <1>7, <1>8, <1>11, <1>14, <1>15, <1>16, <1>17, ReplaceStep

\* A PUBREC with an error finds its message, and takes it off the list.
LEMMA RejectedAgrees ==
  ASSUME Underlying, Underlying', MidsApart, Agreement,
         toClient # <<>>, toClient' = Tail(toClient),
         UNCHANGED <<greeted, held, delivered, refused, demoted>>,
         NEW reply \in Replies, reply = Head(toClient),
         reply.type = "PUBREC_ERROR", PubrecRejected(reply.mid)
  PROVE  /\ Agreement'
         /\ \E i \in Entries :
              /\ inflight[i].id \in refused
              /\ inflight' = RemoveAt(inflight, i)
              /\ notified' = [notified EXCEPT ![inflight[i].id] = @ + 1]
<1>1. ReplyAgrees(reply)
  <2>1. reply \in ToSet(toClient)
    BY TailElements DEF Underlying, SessionTypes
  <2>2. QED BY <2>1 DEF Agreement
<1>2. PICK n \in Listed : InPublish(n, reply.mid, 2) /\ n.id \in refused
  BY <1>1 DEF ReplyAgrees
<1>3. /\ task = Idle /\ link = "active" /\ UNCHANGED <<wire, link, accepted, draft>>
      /\ task' = Task("credit", 0, 0, quota)
  BY DEF PubrecRejected, Receiving
<1>4. \A i \in Entries : inflight[i].mid = reply.mid => inflight[i] = n
  BY <1>2, ListedFacts DEF InPublish
<1>5. PICK i \in Entries :
        /\ inflight[i].mid = reply.mid
        /\ inflight' = RemoveAt(inflight, i)
        /\ notified' = [notified EXCEPT ![inflight[i].id] = @ + 1]
  <2>1. ~Unknown(reply.mid)
    BY <1>2, ListedFacts DEF Unknown, Listed, InPublish
  <2>2. ~\E j \in DOMAIN inflight : FirstWith(j, reply.mid) /\ inflight[j].qos # 2
    BY <1>2, <1>4, ListedFacts DEF FirstWith, InPublish
  <2>3. QED BY <2>1, <2>2, ListedFacts DEF PubrecRejected, FirstWith, Unlink
<1>6. PICK m \in Listed : m = inflight[i] /\ m = n /\ m.mid = reply.mid
  BY <1>2, <1>4, <1>5 DEF InPublish
<1>7. Tag(reply) = m.mid
  BY <1>6 DEF Tag, Replies
<1>8. task'.op = "credit" /\ TaskTags = {} /\ TaskTags' = {}
  BY <1>3, IdleTags DEF Task, TaskTags
<1>9. /\ OneUnderWay' /\ UnderWay' \subseteq UnderWay
      /\ \A other \in ToSet(wire') : other \in ToSet(wire) /\ Tag(other) # m.mid
      /\ \A other \in ToSet(toClient') : other \in ToSet(toClient) /\ Tag(other) # m.mid
  BY <1>3, <1>7, <1>8, ReceiveMoves DEF Agreement, Underlying, SessionTypes
<1>10. m.mid \notin held
  BY <1>1, <1>6 DEF ReplyAgrees
<1>11. TaskAgrees' /\ LinkAgrees'
  <2>1. toClient # <<>> => greeted
    BY DEF Agreement, LinkAgrees
  <2>2. QED BY <1>3, <1>8, <2>1 DEF TaskAgrees, LinkAgrees, Up
<1>12. task.op # "retry"
  BY <1>3, IdleTags
<1>13. Agreement'
  BY <1>3, <1>5, <1>6, <1>8, <1>9, <1>10, <1>11, <1>12, RemoveStep
<1>14. QED BY <1>2, <1>5, <1>6, <1>13

\* Every packet of the broker.
LEMMA ReceiveAgrees ==
  ASSUME Underlying, Underlying', MidsApart, Agreement, Receive
  PROVE  Agreement'
<1>1. PICK reply \in Replies : reply = Head(toClient)
  BY TailElements DEF Receive, Underlying, SessionTypes
<1>2. /\ toClient # <<>> /\ toClient' = Tail(toClient)
      /\ UNCHANGED <<greeted, held, delivered, refused, demoted>>
      /\ \/ reply.type = "CONNACK" /\ ConnackQuota
         \/ reply.type = "PUBACK" /\ AckCredit(reply.mid, 1)
         \/ reply.type = "PUBCOMP" /\ AckCredit(reply.mid, 2)
         \/ reply.type = "PUBREC" /\ Pubrec(reply.mid)
         \/ reply.type = "PUBREC_ERROR" /\ PubrecRejected(reply.mid)
  BY <1>1 DEF Receive
<1>3. QED BY <1>1, <1>2, AcknowledgeAgrees, PubrecAgrees, RejectedAgrees

\* message__delete finds the message of the acknowledgement, which the broker has taken.
LEMMA DeleteAgrees ==
  ASSUME Underlying, Underlying', MidsApart, Agreement, Inside(AckDelete)
  PROVE  /\ Agreement'
         /\ \E i \in Entries :
              /\ Copies(inflight[i].id) > 0
              /\ inflight' = RemoveAt(inflight, i)
              /\ notified' = [notified EXCEPT ![inflight[i].id] = @ + 1]
<1>1. /\ task.op = "delete" /\ task'.op = "release"
      /\ UNCHANGED <<link, wire, draft, accepted>> /\ UNCHANGED brokerVars
  BY DEF Inside, AckDelete, Task
<1>2. PICK i \in Entries :
        /\ inflight[i].mid = task.mid /\ inflight[i].qos = task.qos
        /\ inflight' = RemoveAt(inflight, i)
        /\ notified' = [notified EXCEPT ![inflight[i].id] = @ + 1]
  BY ListedFacts DEF Inside, AckDelete, FirstWith, Unlink
<1>3. PICK m \in Listed : m = inflight[i]
  BY ListedFacts
<1>4. \A n \in Listed : n.mid = task.mid => n = m
  BY <1>2, <1>3, ListedFacts
<1>5. m.mid \notin held /\ Copies(m.id) > 0
  <2>1. /\ MessageAgrees(m) /\ TaskAgrees
        /\ delivered[1][m.id] \in Nat /\ delivered[2][m.id] \in Nat
    BY ListedFacts DEF Agreement, Underlying, SessionTypes
  <2>2. CASE m.qos = 1
    <3>1. delivered[1][m.id] > 0
      BY <1>1, <1>2, <1>3, <1>4, <2>1, <2>2 DEF TaskAgrees, InPublish
    <3>2. m.mid \notin held
      BY <1>2, <1>3, <1>4, <2>2 DEF Agreement, HeldAgrees
    <3>3. QED BY <2>1, <3>1, <3>2 DEF Copies
  <2>3. CASE m.qos = 2
    <3>1. m.mid \notin held /\ m.state \in Released
      BY <1>1, <1>2, <1>3, <1>4, <2>1, <2>3 DEF TaskAgrees, InRelease
    <3>2. delivered[2][m.id] > 0
      BY <2>1, <3>1 DEF MessageAgrees
    <3>3. QED BY <2>1, <3>1, <3>2 DEF Copies
  <2>4. QED BY <2>2, <2>3, ListedFacts
<1>6. TaskTags = {m.mid} /\ TaskTags' = {}
  BY <1>1, <1>2, <1>3 DEF TaskTags
<1>7. /\ OneUnderWay' /\ UnderWay' \subseteq UnderWay
      /\ \A other \in ToSet(wire) \cup ToSet(toClient) : Tag(other) # m.mid
  BY <1>1, <1>6, DoneMoves DEF Agreement
<1>8. TaskAgrees' /\ LinkAgrees'
  BY <1>1 DEF Agreement, TaskAgrees, LinkAgrees
<1>9. Agreement'
  BY <1>1, <1>2, <1>3, <1>5, <1>7, <1>8, RemoveStep
<1>10. QED BY <1>2, <1>3, <1>5, <1>9

\* A step of the connection: the packets of the handshake come or go.
LEMMA LinkStep ==
  ASSUME Underlying, Agreement,
         UNCHANGED <<inflight, toClient, greeted, held, delivered, refused, demoted,
                     accepted, draft>>,
         OneUnderWay', UnderWay' \subseteq UnderWay \cup {0},
         \A packet \in ToSet(wire') :
           \/ packet \in ToSet(wire) /\ packet.type # "CONNECT"
           \/ PacketAgrees(packet)',
         \A reply \in ToSet(toClient) : reply.type # "CONNACK",
         \A i \in Entries : Due(i)' => Due(i),
         TaskAgrees', LinkAgrees', Restarting' => Restarting
  PROVE  Agreement'
<1>1. Listed' = Listed /\ Entries' = Entries
  BY DEF Listed, Entries
<1>2. \A id : Copies(id)' = Copies(id)
  BY DEF Copies
<1>3. \A packet \in ToSet(wire') : PacketAgrees(packet)'
  BY <1>1, <1>2 DEF Agreement, PacketAgrees
<1>4. \A reply \in ToSet(toClient') : ReplyAgrees(reply)'
  BY <1>1 DEF Agreement, ReplyAgrees
<1>5. \A m \in Listed' : MessageAgrees(m)'
  BY <1>1, <1>2 DEF Agreement, MessageAgrees
<1>6. HeldAgrees' /\ TakenAgrees' /\ TwiceOnlyIfDemoted' /\ DraftsNew'
  BY <1>1, <1>2 DEF Agreement, HeldAgrees, TakenAgrees, TwiceOnlyIfDemoted, DraftsNew, Drafting
<1>7. RestartAgrees'
  BY <1>1 DEF Agreement, RestartAgrees
<1>8. DueSilent'
  <2>1. \A i \in Entries : inflight[i].mid # 0
    BY ListedFacts
  <2>2. QED BY <1>1, <2>1 DEF Agreement, DueSilent
<1>9. QED BY <1>3, <1>4, <1>5, <1>6, <1>7, <1>8 DEF Agreement

\* net__socket_connect and send__connect: CONNECT goes out once, with nothing under way
\* on the way back.
LEMMA OpenAgrees ==
  ASSUME Underlying, Agreement, Inside(SocketOpens) \/ Inside(SendConnect)
  PROVE  Agreement'
<1>1. /\ task = Idle /\ UNCHANGED <<inflight, accepted, draft, task>> /\ UNCHANGED brokerVars
      /\ link \in {"reset", "open"}
  BY DEF Inside, SocketOpens, SendConnect
<1>2. /\ TaskTags = {} /\ TaskTags' = {} /\ task.op = "idle" /\ TaskAgrees'
  BY <1>1, IdleTags DEF TaskAgrees
<1>3. ~greeted /\ toClient = <<>> /\ ToSet(toClient) = {}
  BY <1>1, NoTags DEF Agreement, LinkAgrees
<1>4. CASE Inside(SocketOpens)
  <2>1. link = "reset" /\ link' = "open" /\ UNCHANGED wire /\ wire = <<>> /\ ToSet(wire) = {}
    BY <1>4, NoTags DEF Inside, SocketOpens, Agreement, LinkAgrees, Up
  <2>2. OneUnderWay' /\ UnderWay' \subseteq UnderWay
    BY <1>1, <1>2, <2>1, DoneMoves DEF Agreement
  <2>3. \A i \in Entries : Due(i)' => Due(i)
    BY <1>1, <2>1 DEF Due
  <2>4. LinkAgrees' /\ (Restarting' => Restarting)
    BY <1>1, <1>3, <2>1 DEF LinkAgrees, Restarting, Up
  <2>5. QED BY <1>1, <1>2, <1>3, <2>1, <2>2, <2>3, <2>4, LinkStep
<1>5. CASE Inside(SendConnect)
  <2>1. PICK packet \in Packet : packet = Connect /\ packet.type = "CONNECT" /\ Tag(packet) = 0
    BY ConnectType DEF Connect, Tag
  <2>2. link = "open" /\ link' = "connected" /\ wire' = Append(wire, packet)
    BY <1>5, <2>1 DEF Inside, SendConnect, Send
  <2>3. wire \in Seq(Packet)
    BY DEF Underlying, Identity, Basic, TypeOK
  <2>4. \A other \in ToSet(wire) : other.type # "CONNECT" /\ Tag(other) # 0
    <3>1. ASSUME NEW other \in ToSet(wire) PROVE other.type # "CONNECT" /\ Tag(other) # 0
      <4>1. other \in Packet /\ PacketAgrees(other)
        BY <2>3, LenProperties, ElementOfSeq DEF ToSet, Agreement
      <4>2. other.type # "CONNECT"
        BY <2>2, <4>1 DEF PacketAgrees
      <4>3. QED BY <4>1, <4>2 DEF Packet, Tag, Mids
    <3>2. QED BY <3>1
  <2>5. Tag(packet) \notin UnderWay
    BY <1>2, <1>3, <2>1, <2>4, NoTags DEF UnderWay, Tags
  <2>6. /\ OneUnderWay' /\ UnderWay' = UnderWay \cup {0}
        /\ ToSet(wire') = ToSet(wire) \cup {packet}
    BY <1>1, <1>2, <2>1, <2>2, <2>3, <2>5, SendMoves DEF Agreement
  <2>7. PacketAgrees(packet)'
    BY <1>1, <1>3, <2>1, <2>2 DEF PacketAgrees
  <2>8. \A i \in Entries : Due(i)' => Due(i)
    BY <1>1, <2>2 DEF Due
  <2>9. LinkAgrees' /\ (Restarting' => Restarting)
    BY <1>1, <1>3, <2>2 DEF LinkAgrees, Restarting, Up
  <2>10. QED BY <1>1, <1>2, <1>3, <2>4, <2>6, <2>7, <2>8, <2>9, LinkStep
<1>6. QED BY <1>4, <1>5

\* handle__connack lets message__retry_check begin.
LEMMA ConnackAgrees ==
  ASSUME Underlying, Agreement, Inside(ConnackAccept)
  PROVE  Agreement'
<1>1. /\ task.op = "connack" /\ task'.op = "retry" /\ link' = "active"
      /\ UNCHANGED <<inflight, wire, accepted, draft>> /\ UNCHANGED brokerVars
  BY DEF Inside, ConnackAccept, Task
<1>2. link = "connected"
  BY <1>1 DEF Agreement, TaskAgrees
<1>3. TaskTags = {0} /\ TaskTags' = {}
  BY <1>1 DEF TaskTags
<1>4. /\ OneUnderWay' /\ UnderWay' \subseteq UnderWay
      /\ \A other \in ToSet(wire) \cup ToSet(toClient) : Tag(other) # 0
  BY <1>1, <1>3, DoneMoves DEF Agreement
<1>5. \A packet \in ToSet(wire) : packet.type # "CONNECT"
  BY <1>4 DEF Tag
<1>6. \A reply \in ToSet(toClient) : reply.type # "CONNACK"
  BY <1>4 DEF Tag, Agreement, ReplyAgrees
<1>7. \A i \in Entries : Due(i)' => Due(i)
  BY <1>1, <1>2 DEF Due
<1>8. TaskAgrees' /\ LinkAgrees' /\ (Restarting' => Restarting)
  BY <1>1, <1>2 DEF Agreement, TaskAgrees, LinkAgrees, Restarting, Up
<1>9. QED BY <1>1, <1>4, <1>5, <1>6, <1>7, <1>8, LinkStep

\* An iteration of message__retry_check: what it sends again has nothing under way, and
\* no message waits for a PUBCOMP before it has passed.
LEMMA RetryAgrees ==
  ASSUME Underlying, Underlying', MidsApart, Agreement, Inside(RetryStep)
  PROVE  Agreement'
<1>1. PICK i \in Entries : i = task.n
  BY ListedFacts DEF Inside, RetryStep
<1>2. PICK m \in Message : m = inflight[i]
  BY ListedFacts
<1>3. /\ task.op = "retry" /\ task'.op = "retry" /\ task'.n = i + 1 /\ i \in Nat
      /\ UNCHANGED <<link, draft, accepted>> /\ UNCHANGED brokerVars
  BY <1>1 DEF Inside, RetryStep, Underlying, Identity, Basic, TypeOK, Tasks, Entries
<1>4. link = "active" /\ TaskTags = {} /\ TaskTags' = {} /\ TaskAgrees' /\ Restarting
  BY <1>3 DEF Agreement, TaskAgrees, TaskTags, Restarting
<1>5. /\ m \in Listed /\ m.mid \in Mids /\ m.qos \in {1, 2} /\ MessageAgrees(m)
      /\ m.state # "wait_for_pubcomp" /\ m.mid # 0
  BY <1>2, <1>4, ListedFacts DEF Agreement, RestartAgrees
<1>6. CASE /\ m.state \in Resending
           /\ inflight' = [inflight EXCEPT ![i] = Again(m)]
           /\ \/ m.state = "resend_pubrel" /\ Send(Pubrel(m.mid))
              \/ m.state # "resend_pubrel" /\ Send(Publish(Again(m)))
              \/ UNCHANGED wire
  <2>1. PICK e \in Message :
          /\ e = Again(m) /\ e.id = m.id /\ e.mid = m.mid /\ e.qos = m.qos
          /\ e.state = m.state /\ e.dup = TRUE
    <3>1. Again(m).state = m.state /\ Again(m).qos = m.qos /\ Again(m).dup = TRUE
      BY DEF Again, Message
    <3>2. QED BY <3>1, AgainType
  <2>2. m.mid \notin UnderWay
    BY <1>1, <1>2, <1>3, <1>6 DEF Agreement, DueSilent, Due
  <2>3. inflight'[i] = e /\ Listed' = (Listed \ {inflight[i]}) \cup {e}
    BY <1>6, <2>1, ListedReplace
  <2>4. ~Due(i)'
    BY <1>3, <1>4, <1>6, <2>1, <2>3 DEF Due, Resending
  <2>5. MessageAgrees(e)'
    BY <1>3, <1>5, <2>1 DEF MessageAgrees, Copies
  <2>6. \/ UNCHANGED wire
        \/ \E packet \in Packet : /\ Tag(packet) = m.mid /\ wire' = Append(wire, packet)
                                 /\ PacketAgrees(packet)'
    <3>1. CASE m.state = "resend_pubrel" /\ Send(Pubrel(m.mid))
      <4>1. PICK packet \in Packet :
              /\ packet = Pubrel(m.mid) /\ packet.type = "PUBREL" /\ packet.mid = m.mid
              /\ Tag(packet) = m.mid
        BY <1>5, PubrelType DEF Pubrel, Tag
      <4>2. InRelease(e, m.mid)
        BY <1>5, <2>1, <3>1 DEF InRelease, Released, MessageAgrees
      <4>3. PacketAgrees(packet)'
        BY <2>3, <4>1, <4>2 DEF PacketAgrees
      <4>4. QED BY <3>1, <4>1, <4>3 DEF Send
    <3>2. CASE m.state # "resend_pubrel" /\ Send(Publish(Again(m)))
      <4>1. PICK packet \in Packet :
              /\ packet = Publish(e) /\ packet.type = "PUBLISH" /\ packet.mid = m.mid
              /\ packet.id = m.id /\ packet.qos = m.qos /\ packet.dup = TRUE
              /\ Tag(packet) = m.mid
        BY <2>1, PublishType DEF Publish, Tag
      <4>2. InPublish(e, m.mid, m.qos)
        BY <1>6, <2>1, <3>2 DEF InPublish, Resending, Published
      <4>3. PacketAgrees(packet)'
        BY <2>1, <2>3, <4>1, <4>2 DEF PacketAgrees
      <4>4. QED BY <2>1, <3>2, <4>1, <4>3 DEF Send
    <3>3. QED BY <1>6, <3>1, <3>2
  <2>7. /\ OneUnderWay' /\ UnderWay' \subseteq UnderWay \cup {e.mid}
        /\ \A packet \in ToSet(wire') :
             \/ packet \in ToSet(wire) /\ Tag(packet) # e.mid
             \/ PacketAgrees(packet)'
        /\ \A reply \in ToSet(toClient') : reply \in ToSet(toClient) /\ Tag(reply) # e.mid
    <3>1. CASE UNCHANGED wire
      <4>1. OneUnderWay' /\ UnderWay' \subseteq UnderWay
        BY <1>3, <1>4, <3>1, DoneMoves DEF Agreement
      <4>2. /\ \A packet \in ToSet(wire) : Tag(packet) # e.mid
            /\ \A reply \in ToSet(toClient) : Tag(reply) # e.mid
        BY <2>1, <2>2 DEF UnderWay, Tags
      <4>3. QED BY <1>3, <3>1, <4>1, <4>2
    <3>2. CASE \E packet \in Packet : /\ Tag(packet) = m.mid
                                      /\ wire' = Append(wire, packet)
                                      /\ PacketAgrees(packet)'
      <4>1. PICK packet \in Packet : /\ Tag(packet) = m.mid /\ wire' = Append(wire, packet)
                                     /\ PacketAgrees(packet)'
        BY <3>2
      <4>2. wire \in Seq(Packet)
        BY DEF Underlying, Identity, Basic, TypeOK
      <4>3. /\ OneUnderWay' /\ UnderWay' = UnderWay \cup {m.mid}
            /\ ToSet(wire') = ToSet(wire) \cup {packet}
            /\ \A other \in ToSet(wire) : Tag(other) # m.mid
            /\ \A reply \in ToSet(toClient) : Tag(reply) # m.mid
        BY <1>3, <1>4, <2>2, <4>1, <4>2, SendMoves DEF Agreement
      <4>4. QED BY <1>3, <2>1, <4>1, <4>3
    <3>3. QED BY <2>6, <3>1, <3>2
  <2>8. LinkAgrees'
    BY <1>3, <1>4 DEF Agreement, LinkAgrees, Up
  <2>9. inflight' = [inflight EXCEPT ![i] = e]
    BY <1>6, <2>1
  <2>10. e.state # "wait_for_pubcomp" /\ task.n \in Nat /\ task'.n \in Nat /\ task'.n >= task.n
    BY <1>1, <1>3, <1>5, <2>1
  <2>11. QED BY <1>2, <1>3, <1>4, <2>1, <2>4, <2>5, <2>7, <2>8, <2>9, <2>10, ReplaceStep
<1>7. CASE UNCHANGED <<inflight, wire>>
  <2>1. DraftsNew'
    BY <1>3 DEF Agreement, DraftsNew, Drafting
  <2>2. QED BY <1>1, <1>3, <1>4, <1>7, <2>1, QuietStep
<1>8. QED
  <2>1. CASE RetryPublish(m) \/ RetryPubrel(m)
    <3>1. m.state \in Resending
      BY <1>5, <2>1 DEF RetryPublish, RetryPubrel, Resending
    <3>2. RetryPubrel(m) <=> m.state = "resend_pubrel"
      BY <1>5 DEF RetryPubrel
    <3>3. inflight' = [inflight EXCEPT ![i] = Again(m)]
      BY <1>1, <1>2, <2>1 DEF Inside, RetryStep
    <3>4. IF RetryPubrel(m) THEN Send(Pubrel(m.mid))
          ELSE IF Sendable(m) THEN Send(Publish(Again(m))) ELSE UNCHANGED wire
      BY <1>1, <1>2, <2>1 DEF Inside, RetryStep
    <3>5. QED BY <1>6, <3>1, <3>2, <3>3, <3>4
  <2>2. CASE ~(RetryPublish(m) \/ RetryPubrel(m))
    BY <1>1, <1>2, <1>7, <2>2 DEF Inside, RetryStep
  <2>3. QED BY <2>1, <2>2

\* The steps of the handlers.
LEMMA HandleAgrees ==
  ASSUME Underlying, Underlying', MidsApart, Agreement, Handle
  PROVE  Agreement'
<1>1. UNCHANGED brokerVars
  BY DEF Handle, Inside
<1>2. CASE CreditUnlocked \/ AckLock \/ RetryReturn
  <2>1. /\ UNCHANGED <<inflight, wire, link, accepted, draft>>
        /\ task.op \in {"credit", "release", "retry"}
        /\ task'.op \in {"release", "releasing", "idle"}
    BY <1>2, IdleTags DEF CreditUnlocked, AckLock, RetryReturn, Task
  <2>2. TaskTags' = TaskTags /\ TaskAgrees' /\ DraftsNew'
    BY <2>1 DEF TaskTags, Agreement, TaskAgrees, DraftsNew, Drafting
  <2>3. QED BY <1>1, <2>1, <2>2, QuietStep
<1>3. CASE AckRelease \/ AckReturn
  <2>1. /\ UNCHANGED <<link, accepted, draft>>
        /\ task.op = "releasing" /\ task'.op \in {"releasing", "idle"}
        /\ UNCHANGED task \/ task'.op = "idle"
        /\ ReleaseNext \/ ReleaseFails \/ ReleaseEnds
    BY <1>3, IdleTags DEF AckRelease, AckReturn
  <2>2. TaskTags' = TaskTags /\ (UNCHANGED task \/ TaskAgrees')
    BY <2>1 DEF TaskTags, TaskAgrees
  <2>3. CASE ReleaseNext \/ ReleaseFails
    BY <1>1, <2>1, <2>2, <2>3, ReleaseAgrees
  <2>4. CASE ReleaseEnds
    <3>1. UNCHANGED <<inflight, wire>>
      BY <2>4 DEF ReleaseEnds
    <3>2. DraftsNew' /\ TaskAgrees'
      BY <1>1, <2>1, <2>2, <3>1, TaskUnchanged DEF Agreement, DraftsNew, Drafting
    <3>3. QED BY <1>1, <2>1, <2>2, <3>1, <3>2, QuietStep
  <2>5. QED BY <2>1, <2>3, <2>4
<1>4. CASE Inside(AckDelete)
  BY <1>4, DeleteAgrees
<1>5. CASE Inside(ConnackAccept) \/ Inside(RetryStep)
  BY <1>5, ConnackAgrees, RetryAgrees
<1>6. QED BY <1>2, <1>3, <1>4, <1>5 DEF Handle, Inside

\* What message__reconnect_reset makes of one message.
LEMMA ResetState ==
  ASSUME NEW m \in Message
  PROVE  /\ ResetMessage(m).qos = m.qos
         /\ ResetMessage(m).state =
              IF m.qos = 1 THEN "publish_qos1"
              ELSE IF m.state = "wait_for_pubrec" THEN "publish_qos2"
              ELSE IF m.state = "wait_for_pubcomp" THEN "resend_pubrel" ELSE m.state
  BY DEF ResetMessage, Message

\* message__reconnect_reset: nothing is under way; what it takes out of flight forgets
\* what the broker knows of it, and is demoted.
LEMMA ResetAgrees ==
  ASSUME Underlying, Underlying', Agreement, Reset
  PROVE  Agreement'
<1>1. /\ inflight' = ResetList /\ task = Idle /\ link = "down" /\ link' = "reset"
      /\ UNCHANGED <<task, wire, toClient, greeted, held, delivered, refused, accepted, draft>>
      /\ demoted' = demoted \cup
           {inflight[i].id : i \in {j \in Entries :
                                      inflight[j].state # "invalid" /\ j > maximum}}
  BY ListedFacts DEF Reset, ReconnectReset
<1>2. /\ maximum \in Nat /\ maximum \in Maximums /\ \A i \in Entries : i \in Nat
  BY MaximumsType DEF Underlying, Identity, Basic, TypeOK, Entries
<1>3. /\ Entries' = Entries
      /\ \A i \in Entries : /\ inflight'[i].id = inflight[i].id
                            /\ inflight'[i].mid = inflight[i].mid
  <2>1. Kept
    BY <1>1, <1>2, ListedFacts, ResetType
  <2>2. QED BY <2>1 DEF Kept, Entries
<1>4. \A i \in Entries :
        /\ inflight[i] \in Listed /\ MessageAgrees(inflight[i])
        /\ inflight'[i].qos = inflight[i].qos
        /\ i <= maximum =>
             inflight'[i].state =
               IF inflight[i].qos = 1 THEN "publish_qos1"
               ELSE IF inflight[i].state = "wait_for_pubrec" THEN "publish_qos2"
               ELSE IF inflight[i].state = "wait_for_pubcomp" THEN "resend_pubrel"
               ELSE inflight[i].state
        /\ i > maximum => inflight'[i].state = "invalid"
  <2>1. ASSUME NEW i \in Entries
        PROVE  inflight'[i] = IF i <= maximum THEN ResetMessage(inflight[i])
                              ELSE [inflight[i] EXCEPT !.state = "invalid"]
    BY <1>1, ListedFacts DEF ResetList
  <2>2. ASSUME NEW i \in Entries PROVE inflight[i] \in Message
    BY ListedFacts
  <2>3. ASSUME NEW m \in Message
        PROVE  /\ [m EXCEPT !.state = "invalid"].state = "invalid"
               /\ [m EXCEPT !.state = "invalid"].qos = m.qos
    BY DEF Message
  <2>4. ASSUME NEW i \in Entries PROVE inflight[i] \in Listed /\ MessageAgrees(inflight[i])
    BY ListedFacts DEF Agreement
  <2>5. ASSUME NEW i \in Entries, i <= maximum
        PROVE  /\ inflight'[i].qos = inflight[i].qos
               /\ inflight'[i].state =
                    IF inflight[i].qos = 1 THEN "publish_qos1"
                    ELSE IF inflight[i].state = "wait_for_pubrec" THEN "publish_qos2"
                    ELSE IF inflight[i].state = "wait_for_pubcomp" THEN "resend_pubrel"
                    ELSE inflight[i].state
    BY <2>1, <2>2, <2>5, ResetState
  <2>6. ASSUME NEW i \in Entries, ~(i <= maximum)
        PROVE  inflight'[i].qos = inflight[i].qos /\ inflight'[i].state = "invalid"
    BY ZenonT(60), <2>1, <2>2, <2>3, <2>6
  <2>7. QED BY <1>2, <2>4, <2>5, <2>6
<1>5. \A m \in Listed : m.id \in Ids /\ m.qos \in {1, 2}
  BY ListedFacts
<1>6. wire = <<>> /\ toClient = <<>> /\ ~greeted
  BY <1>1 DEF Agreement, LinkAgrees, Up
<1>7. TaskTags' = {} /\ task'.op = "idle"
  BY <1>1, IdleTags
<1>8. OneUnderWay' /\ UnderWay' = {} /\ ToSet(wire') = {} /\ ToSet(toClient') = {}
  BY <1>1, <1>6, <1>7, CloseMoves
<1>9. ASSUME NEW m \in Listed' PROVE MessageAgrees(m)' /\ m.state # "wait_for_pubcomp"
  <2>1. PICK i \in Entries : m = inflight'[i]
    BY <1>3 DEF Listed
  <2>2. PICK n \in Listed : n = inflight[i]
    BY <1>4
  <2>3. /\ MessageAgrees(n) /\ m.id = n.id /\ m.mid = n.mid /\ m.qos = n.qos
        /\ n.qos \in {1, 2} /\ i \in Nat
    BY <1>2, <1>3, <1>4, <1>5, <2>1, <2>2
  <2>4. Copies(n.id)' = Copies(n.id)
    BY <1>1 DEF Copies
  <2>5. CASE i <= maximum
    <3>1. m.state = IF n.qos = 1 THEN "publish_qos1"
                    ELSE IF n.state = "wait_for_pubrec" THEN "publish_qos2"
                    ELSE IF n.state = "wait_for_pubcomp" THEN "resend_pubrel"
                    ELSE n.state
      BY <1>4, <2>1, <2>2, <2>5
    <3>2. /\ m.state \in Released => n.state \in Released
          /\ n.state \in Released /\ n.qos = 2 => m.state \in Released
          /\ m.state = "invalid" => n.state = "invalid"
          /\ m.state # "wait_for_pubcomp"
      BY <2>3, <3>1 DEF Released
    <3>3. demoted \subseteq demoted'
      BY <1>1
    <3>4. MessageAgrees(m)'
      BY <1>1, <2>3, <2>4, <3>2, <3>3 DEF MessageAgrees
    <3>5. QED BY <3>2, <3>4
  <2>6. CASE ~(i <= maximum)
    <3>1. m.state = "invalid" /\ m.state \notin Released /\ i > maximum
      BY <1>2, <1>4, <2>1, <2>3, <2>6 DEF Released
    <3>2. n.state # "invalid" => m.id \in demoted'
      BY <1>1, <2>2, <2>3, <3>1
    <3>3. n.state = "invalid" => n.state \notin Released
      BY DEF Released
    <3>4. demoted \subseteq demoted'
      BY <1>1
    <3>5. MessageAgrees(m)'
      BY <1>1, <2>3, <2>4, <3>1, <3>2, <3>3, <3>4 DEF MessageAgrees
    <3>6. QED BY <3>1, <3>5
  <2>7. QED BY <2>5, <2>6
<1>10. HeldAgrees'
  <2>1. ASSUME NEW mid \in held'
        PROVE  \E m \in Listed' : m.mid = mid /\ m.qos = 2 /\ delivered'[2][m.id] > 0
    <3>1. PICK n \in Listed : n.mid = mid /\ n.qos = 2 /\ delivered[2][n.id] > 0
      BY <1>1 DEF Agreement, HeldAgrees
    <3>2. PICK i \in Entries : n = inflight[i]
      BY DEF Listed
    <3>3. /\ inflight'[i] \in Listed' /\ inflight'[i].mid = n.mid
          /\ inflight'[i].qos = n.qos /\ inflight'[i].id = n.id
      BY <1>3, <1>4, <3>2 DEF Listed
    <3>4. QED BY <1>1, <3>1, <3>3
  <2>2. QED BY <2>1 DEF HeldAgrees
<1>11. TakenAgrees' /\ TwiceOnlyIfDemoted' /\ DraftsNew'
  BY <1>1 DEF Agreement, TakenAgrees, TwiceOnlyIfDemoted, DraftsNew, Drafting, Copies
<1>12. TaskAgrees' /\ LinkAgrees'
  BY <1>1, <1>6, <1>7 DEF TaskAgrees, LinkAgrees
<1>13. RestartAgrees' /\ DueSilent'
  BY <1>8, <1>9 DEF RestartAgrees, DueSilent
<1>14. QED BY <1>8, <1>9, <1>10, <1>11, <1>12, <1>13 DEF Agreement

-----------------------------------------------------------------------------
(* Theorems about the agreement                                            *)

\* Nothing has been sent at first.
LEMMA AgreementInit == SessionInit => Agreement
<1> SUFFICES ASSUME SessionInit PROVE Agreement
  OBVIOUS
<1>1. /\ inflight = <<>> /\ wire = <<>> /\ toClient = <<>> /\ task = Idle /\ link = "down"
      /\ greeted = FALSE /\ held = {} /\ draft = [p \in Publishers |-> NoDraft]
      /\ delivered = [qos \in {1, 2} |-> [id \in Ids |-> 0]]
  BY DEF SessionInit, Init
<1>2. Entries = {} /\ Listed = {}
  BY <1>1 DEF Entries, Listed
<1>3. TaskTags = {} /\ task.op = "idle"
  BY <1>1, IdleTags
<1>4. OneUnderWay /\ ToSet(wire) = {} /\ ToSet(toClient) = {}
  BY <1>1, <1>3, NoTags DEF OneUnderWay
<1>5. \A id \in Ids : delivered[1][id] = 0 /\ delivered[2][id] = 0
  BY <1>1
<1>6. \A id \in Ids : ~(delivered[1][id] + delivered[2][id] > 0) /\ ~(delivered[2][id] > 1)
  BY <1>5
<1>7. TakenAgrees /\ TwiceOnlyIfDemoted
  BY <1>6 DEF TakenAgrees, TwiceOnlyIfDemoted, Copies
<1>8. DraftsNew
  BY <1>1 DEF DraftsNew, Drafting
<1>9. TaskAgrees /\ HeldAgrees /\ LinkAgrees /\ RestartAgrees /\ DueSilent
  BY <1>1, <1>2, <1>3
     DEF TaskAgrees, HeldAgrees, LinkAgrees, RestartAgrees, DueSilent
<1>10. QED BY <1>2, <1>4, <1>7, <1>8, <1>9 DEF Agreement

\* Nothing changes.
LEMMA AgreementUnchanged ==
  ASSUME Agreement, UNCHANGED sessionVars
  PROVE  Agreement'
<1>1. TaskAgrees' /\ DraftsNew' /\ TaskTags' = TaskTags
  BY TaskUnchanged DEF Agreement, DraftsNew, Drafting, TaskTags
<1>2. QED BY <1>1, QuietStep

\* Every step of a session, as long as no two messages of the list share an identifier.
LEMMA AgreementStep ==
  /\ Underlying /\ Underlying' /\ MidsApart /\ MidsApart' /\ Agreement
  /\ [SessionNext]_sessionVars
  => Agreement'
<1> SUFFICES ASSUME Underlying, Underlying', MidsApart, MidsApart', Agreement,
                    [SessionNext]_sessionVars
             PROVE  Agreement'
  OBVIOUS
<1>1. CASE \E p \in Publishers : Begin(p) \/ Enqueue(p) \/ Release(p)
  BY <1>1, BeginAgrees, EnqueueAgrees, PublisherReleaseAgrees
<1>2. CASE BrokerTakes
  BY <1>2, BrokerConnectAgrees, BrokerPublishAgrees, BrokerPubrelAgrees DEF BrokerTakes
<1>3. CASE BrokerDrops \/ LoseConnection
  BY <1>3, CloseAgrees
<1>4. CASE Receive
  BY <1>4, ReceiveAgrees
<1>5. CASE Handle
  BY <1>5, HandleAgrees
<1>6. CASE Dial
  BY <1>6, ResetAgrees, OpenAgrees DEF Dial
<1>7. CASE UNCHANGED sessionVars
  BY <1>7, AgreementUnchanged
<1>8. QED BY <1>1, <1>2, <1>3, <1>4, <1>5, <1>6, <1>7 DEF SessionNext

\* The ends agree about every packet identifier in every reachable state.
THEOREM AgreementAlways == SessionSpec /\ []MidsApart => []Agreement
  BY AgreementInit, AgreementStep, UnderlyingAlways, PTL DEF SessionSpec

\* A message of the list with an identifier is the first with it.
LEMMA ListedFound ==
  ASSUME Underlying, MidsApart, NEW m \in Listed
  PROVE  Finds(m.mid, m.qos)
<1>1. PICK i \in Entries : inflight[i] = m
  BY DEF Listed
<1>2. DOMAIN inflight = Entries /\ Entries \subseteq Nat
  BY ListedFacts DEF Entries
<1>3. FirstWith(i, m.mid)
  <2>1. ASSUME NEW j \in Entries, j < i PROVE inflight[j].mid # m.mid
    <3>1. i \in Nat /\ j \in Nat
      BY <1>2
    <3>2. j # i
      BY <2>1, <3>1
    <3>3. QED BY <1>1, <3>2 DEF MidsApart
  <2>2. QED BY <1>1, <1>2, <2>1 DEF FirstWith
<1>4. QED BY <1>1, <1>2, <1>3 DEF Finds

\* Every acknowledgement of a correct broker finds its message: AckUnknown, AckMismatch
\* and PubrecMismatch do not happen, across any losses, resets and repetitions, as long
\* as no two messages of the list share an identifier.
THEOREM AcksFindMessages == SessionSpec /\ []MidsApart => []AckFindsMessage
<1>1. Underlying /\ MidsApart /\ Agreement => AckFindsMessage
  <2> SUFFICES ASSUME Underlying, MidsApart, Agreement PROVE AckFindsMessage
    OBVIOUS
  <2>1. ASSUME task.op = "delete" PROVE Finds(task.mid, task.qos)
    <3>1. PICK m \in Listed : m.mid = task.mid /\ m.qos = task.qos
      BY <2>1 DEF Agreement, TaskAgrees, InPublish, InRelease
    <3>2. Finds(m.mid, m.qos)
      BY ListedFound
    <3>3. QED BY <3>1, <3>2
  <2>2. ASSUME NEW k \in DOMAIN toClient, toClient[k].type \in {"PUBREC", "PUBREC_ERROR"}
        PROVE  Finds(toClient[k].mid, 2)
    <3>1. ReplyAgrees(toClient[k])
      BY DEF Agreement, ToSet
    <3>2. PICK m \in Listed : m.mid = toClient[k].mid /\ m.qos = 2
      BY <2>2, <3>1 DEF ReplyAgrees, InPublish
    <3>3. Finds(m.mid, m.qos)
      BY ListedFound
    <3>4. QED BY <3>2, <3>3
  <2>3. QED BY <2>1, <2>2 DEF AckFindsMessage
<1>2. QED BY <1>1, UnderlyingAlways, AgreementAlways, PTL

\* A PUBLISH that the broker has seen carries the DUP flag, unless the message has been
\* demoted: message__retry_check sets it, message__release_to_inflight only sends what is
\* new or demoted.
THEOREM RepeatsAreMarked == SessionSpec /\ []MidsApart => []RepeatIsMarked
<1>1. Agreement => RepeatIsMarked
  <2> SUFFICES ASSUME Agreement,
                      NEW k \in DOMAIN wire, wire[k].type = "PUBLISH", Copies(wire[k].id) > 0
               PROVE  wire[k].dup \/ wire[k].id \in demoted
    BY DEF RepeatIsMarked
  <2>1. PacketAgrees(wire[k])
    BY DEF Agreement, ToSet
  <2>2. QED BY <2>1 DEF PacketAgrees
<1>2. QED BY <1>1, AgreementAlways, PTL

\* A QoS 2 message reaches the broker's subscribers twice only if a reset or a lost
\* session has demoted it.
THEOREM TwiceOnlyDemoted == SessionSpec /\ []MidsApart => []TwiceOnlyIfDemoted
<1>1. Agreement => TwiceOnlyIfDemoted
  BY DEF Agreement
<1>2. QED BY <1>1, AgreementAlways, PTL

\* As long as last_mid has not wrapped, no two messages share an identifier: what
\* MidReuseDistance gives is enough for the theorems of this module.
THEOREM MidsApartBeforeWrap ==
  ASSUME MaxIssue <= MaxMid
  PROVE  SessionSpec => []MidsApart
<1>1. Underlying /\ MidReuseDistance => MidsApart
  <2> SUFFICES ASSUME Underlying, MidReuseDistance,
                      NEW i \in Entries, NEW j \in Entries, inflight[i].mid = inflight[j].mid,
                      i # j
               PROVE  FALSE
    BY DEF MidsApart
  <2>1. inflight[i] \in Alive /\ inflight[j] \in Alive
    BY ListedFacts DEF Alive
  <2>2. inflight[i].id # inflight[j].id
    BY DEF Underlying, Identity, Placed
  <2>3. inflight[i].id \in 1..MaxIssue /\ inflight[j].id \in 1..MaxIssue
    BY ListedFacts DEF Ids
  <2>4. MaxMid \in Nat /\ MaxIssue \in Nat
    BY BoundsAssumption
  <2>5. /\ inflight[i].id < inflight[j].id => inflight[j].id - inflight[i].id >= MaxMid
        /\ inflight[j].id < inflight[i].id => inflight[i].id - inflight[j].id >= MaxMid
    BY <2>1 DEF MidReuseDistance
  <2>6. QED BY <2>2, <2>3, <2>4, <2>5
<1>2. QED BY <1>1, UnderlyingAlways, SessionIsOutMessages, MidsReusedLate, PTL

-----------------------------------------------------------------------------
(* The session implements Delivery: what the steps are for the promise of  *)
(* mosquitto_publish_v5.                                                   *)

Reported == {id \in Ids : notified[id] > 0}

\* The messages on the list, and those that have been reported.
LEMMA OnListFacts ==
  ASSUME Underlying
  PROVE  /\ OnList = {inflight[i].id : i \in Entries}
         /\ OnList \subseteq accepted /\ Reported \subseteq accepted
         /\ \A m \in Listed : m.id \in OnList /\ m.id \in Ids
<1>1. OnList = {inflight[i].id : i \in Entries}
  BY ListedFacts DEF OnList
<1>2. OnList \subseteq accepted /\ Reported \subseteq accepted
  BY <1>1 DEF Underlying, Identity, Placed, Reported
<1>3. QED BY <1>1, <1>2, ListedFacts DEF Listed

\* A message that joins the list is accepted.
LEMMA AppendAccepts ==
  ASSUME Underlying, Underlying', NEW p \in Publishers, StepAppends(p),
         UNCHANGED <<delivered, refused, demoted>>
  PROVE  Promise!Next
<1>1. PICK e \in Message : e = draft[p]
  BY DEF StepAppends
<1>2. e.id \in Ids /\ e.id \notin accepted
  BY <1>1 DEF Underlying, Identity, Drafted, Drafting, Message, NoDraft, Ids
<1>3. inflight' = Append(inflight, e) /\ UNCHANGED notified
  BY <1>1 DEF StepAppends
<1>4. OnList' = OnList \cup {e.id}
  <2>1. Listed' = Listed \cup {e}
    BY <1>3, ListedAppend
  <2>2. OnList = {m.id : m \in Listed}
    BY OnListFacts DEF Listed
  <2>3. OnList' = {m.id : m \in Listed'}
    <3>1. inflight' \in Seq(Message)
      BY DEF Underlying, Identity, Basic, TypeOK
    <3>2. DOMAIN inflight' = Entries'
      BY <3>1, LenProperties DEF Entries
    <3>3. QED BY <3>2 DEF OnList, Listed
  <2>4. QED BY <2>1, <2>2, <2>3
<1>5. e.id \notin OnList \cup Reported
  BY <1>2, OnListFacts
<1>6. Promise!Accept(e.id)
  BY <1>3, <1>4, <1>5 DEF Promise!Accept, Reported
<1>7. QED BY <1>2, <1>6 DEF Promise!Next

\* A message that leaves the list after the broker's verdict is reported.
LEMMA RemoveReports ==
  ASSUME Underlying, Underlying', NEW i \in Entries,
         Copies(inflight[i].id) > 0 \/ inflight[i].id \in refused,
         inflight' = RemoveAt(inflight, i),
         notified' = [notified EXCEPT ![inflight[i].id] = @ + 1],
         UNCHANGED <<delivered, refused, demoted>>
  PROVE  Promise!Next
<1>1. PICK m \in Listed : m = inflight[i]
  BY ListedFacts
<1>2. m.id \in Ids /\ m.id \in OnList /\ notified \in [Ids -> Nat]
  BY OnListFacts DEF Underlying, Identity, Basic, TypeOK
<1>3. OnList' = OnList \ {m.id}
  <2>1. Listed' = Listed \ {m}
    BY <1>1, ListedRemove
  <2>2. OnList = {n.id : n \in Listed} /\ \A n \in Listed : n.id = m.id => n = m
    BY <1>1, OnListFacts, ListedFacts DEF Listed
  <2>3. OnList' = {n.id : n \in Listed'}
    <3>1. inflight' \in Seq(Message)
      BY DEF Underlying, Identity, Basic, TypeOK
    <3>2. DOMAIN inflight' = Entries'
      BY <3>1, LenProperties DEF Entries
    <3>3. QED BY <3>2 DEF OnList, Listed
  <2>4. QED BY <2>1, <2>2, <2>3
<1>4. Reported' = Reported \cup {m.id}
  <2>1. \A id \in Ids : notified'[id] = IF id = m.id THEN notified[id] + 1 ELSE notified[id]
    BY <1>1, <1>2
  <2>2. \A id \in Ids : notified'[id] > 0 <=> id = m.id \/ notified[id] > 0
    BY <1>2, <2>1
  <2>3. QED BY <1>2, <2>2 DEF Reported
<1>5. Promise!Report(m.id)
  BY <1>1, <1>2, <1>3, <1>4 DEF Promise!Report, Reported, Copies
<1>6. QED BY <1>2, <1>5 DEF Promise!Next

\* The list keeps its messages: nothing of the promise changes but what the broker has
\* taken, refused or forgotten.
LEMMA KeepsOnList ==
  ASSUME Underlying, Underlying', StepKeeps
  PROVE  OnList' = OnList
<1>1. inflight \in Seq(Message) /\ inflight' \in Seq(Message) /\ Kept
  BY DEF Underlying, Identity, Basic, TypeOK, StepKeeps
<1>2. DOMAIN inflight = Entries /\ DOMAIN inflight' = Entries
  BY <1>1, LenProperties DEF Kept, Entries
<1>3. \A i \in Entries : inflight'[i].id = inflight[i].id
  BY <1>1 DEF Kept, Entries
<1>4. QED BY <1>2, <1>3 DEF OnList

\* A step that does not change what the broker knows, and reports only after its verdict.
LEMMA ClientPromise ==
  ASSUME Underlying, Underlying', [Next]_vars, UNCHANGED <<delivered, refused, demoted>>,
         \/ UNCHANGED notified
         \/ \E i \in Entries :
              /\ Copies(inflight[i].id) > 0 \/ inflight[i].id \in refused
              /\ inflight' = RemoveAt(inflight, i)
              /\ notified' = [notified EXCEPT ![inflight[i].id] = @ + 1]
  PROVE  Promise!Next \/ UNCHANGED Promise!vars
<1>1. CASE \E i \in Entries :
             /\ Copies(inflight[i].id) > 0 \/ inflight[i].id \in refused
             /\ inflight' = RemoveAt(inflight, i)
             /\ notified' = [notified EXCEPT ![inflight[i].id] = @ + 1]
  BY <1>1, RemoveReports
<1>2. CASE UNCHANGED notified
  <2>1. Steps
    BY AllSteps DEF Underlying, Identity
  <2>2. CASE \E p \in Publishers : StepAppends(p)
    BY <2>2, AppendAccepts
  <2>3. CASE StepKeeps
    <3>1. OnList' = OnList
      BY <2>3, KeepsOnList
    <3>2. QED BY <1>2, <3>1 DEF Promise!vars
  <2>4. CASE StepSkips \/ \E p \in Publishers : StepBegins(p)
    <3>1. UNCHANGED inflight
      BY <2>4 DEF StepSkips, StepBegins
    <3>2. OnList' = OnList
      BY <3>1 DEF OnList
    <3>3. QED BY <1>2, <3>2 DEF Promise!vars
  <2>5. ASSUME NEW i \in DOMAIN inflight, StepReports(i) PROVE FALSE
    <3>1. inflight[i].id \in Ids /\ notified \in [Ids -> Nat]
      BY Entry DEF Underlying, Identity, Basic, TypeOK
    <3>2. notified'[inflight[i].id] = notified[inflight[i].id] + 1
      BY <2>5, <3>1 DEF StepReports
    <3>3. QED BY <1>2, <3>1, <3>2
  <2>6. QED BY <2>1, <2>2, <2>3, <2>4, <2>5 DEF Steps
<1>3. QED BY <1>1, <1>2

\* PUBLISH: the broker takes a pending message, or refuses it.
LEMMA PublishPromise ==
  ASSUME Underlying, Underlying', MidsApart, Agreement, BrokerPublish
  PROVE  Promise!Next \/ UNCHANGED Promise!vars
<1>1. PICK packet \in Packet : packet = Head(wire)
  <2>1. wire # <<>> /\ wire \in Seq(Packet)
    BY DEF BrokerPublish, Transmit, Underlying, Identity, Basic, TypeOK
  <2>2. QED BY <2>1, HeadType
<1>2. /\ packet.type = "PUBLISH" /\ packet \in ToSet(wire)
      /\ UNCHANGED <<inflight, notified, demoted>>
  <2>1. wire # <<>> /\ wire \in Seq(Packet)
    BY DEF BrokerPublish, Transmit, Underlying, Identity, Basic, TypeOK
  <2>2. QED BY <1>1, <2>1, TailElements DEF BrokerPublish, Transmit
<1>3. PICK m \in Listed : InPublish(m, packet.mid, packet.qos) /\ m.id = packet.id
  BY <1>2 DEF Agreement, PacketAgrees
<1>4. /\ m.mid = packet.mid /\ m.qos = packet.qos /\ m.qos \in {1, 2}
      /\ MessageAgrees(m) /\ m.state \notin Released
      /\ m.id \in Ids /\ m.id \in OnList
      /\ delivered[1][m.id] \in Nat /\ delivered[2][m.id] \in Nat
  BY <1>3, ListedFacts, OnListFacts
     DEF InPublish, Agreement, Published, Released, Underlying, SessionTypes
<1>5. OnList' = OnList /\ Reported' = Reported
  BY <1>2 DEF OnList, Reported
<1>6. CASE Take(packet) /\ UNCHANGED refused /\ packet.qos = 1
  <2>1. Promise!AtLeastOnce(m.id)
    BY <1>2, <1>3, <1>4, <1>5, <1>6
       DEF Promise!AtLeastOnce, Reported, Take, MessageAgrees
  <2>2. QED BY <1>4, <2>1 DEF Promise!Next
<1>7. CASE Take(packet) /\ UNCHANGED refused /\ packet.qos = 2 /\ packet.mid \notin held
  <2>1. delivered[1][m.id] = 0 /\ (delivered[2][m.id] = 0 \/ m.id \in demoted)
    BY <1>4, <1>7 DEF MessageAgrees
  <2>2. Promise!ExactlyOnce(m.id)
    BY <1>2, <1>3, <1>4, <1>5, <1>7, <2>1 DEF Promise!ExactlyOnce, Reported, Take
  <2>3. QED BY <1>4, <2>2 DEF Promise!Next
<1>8. CASE UNCHANGED <<delivered, refused>>
  BY <1>2, <1>5, <1>8 DEF Promise!vars, Reported
<1>9. CASE refused' = refused \cup {packet.id} /\ UNCHANGED delivered
  <2>1. Promise!Refuse(m.id)
    BY <1>2, <1>3, <1>4, <1>5, <1>9 DEF Promise!Refuse, Reported
  <2>2. QED BY <1>4, <2>1 DEF Promise!Next
<1>10. QED BY <1>1, <1>6, <1>7, <1>8, <1>9 DEF BrokerPublish

\* A reset, or a session that the broker has lost, demotes messages of the list.
LEMMA DemotePromise ==
  ASSUME Underlying, Underlying', Reset \/ BrokerConnect \/ BrokerPubrel
  PROVE  Promise!Next
<1>1. StepKeeps
  <2>1. CASE Reset
    BY <2>1, ResetType
       DEF Reset, ReconnectReset, StepKeeps, Underlying, Identity, Basic, TypeOK
  <2>2. CASE BrokerConnect \/ BrokerPubrel
    BY <2>2, KeptUnchanged
       DEF BrokerConnect, BrokerPubrel, Transmit, StepKeeps, Underlying, Identity, Basic, TypeOK
  <2>3. QED BY <2>1, <2>2
<1>2. OnList' = OnList /\ UNCHANGED notified
  BY <1>1, KeepsOnList DEF StepKeeps
<1>3. /\ UNCHANGED <<delivered, refused>>
      /\ demoted \subseteq demoted' /\ demoted' \subseteq demoted \cup OnList
  BY DEF Reset, BrokerConnect, BrokerPubrel, OnList
<1>4. Promise!Demote
  BY <1>2, <1>3 DEF Promise!Demote
<1>5. QED BY <1>4 DEF Promise!Next

\* Every step of a session is a step of the promise or leaves it alone.
LEMMA PromiseStep ==
  /\ Underlying /\ Underlying' /\ MidsApart /\ Agreement
  /\ [SessionNext]_sessionVars
  => [Promise!Next]_(Promise!vars)
<1> SUFFICES ASSUME Underlying, Underlying', MidsApart, Agreement,
                    [SessionNext]_sessionVars
             PROVE  Promise!Next \/ UNCHANGED Promise!vars
  OBVIOUS
<1>1. [Next]_vars
  BY SessionImplements DEF Underlying, SessionTypes
<1>2. CASE BrokerPublish
  BY <1>2, PublishPromise
<1>3. CASE BrokerConnect \/ BrokerPubrel \/ Reset
  BY <1>3, DemotePromise
<1>4. CASE Inside(AckDelete)
  <2>1. UNCHANGED <<delivered, refused, demoted>>
    BY <1>4 DEF Inside
  <2>2. QED BY <1>1, <1>4, <2>1, DeleteAgrees, ClientPromise
<1>5. CASE Receive
  <2>1. UNCHANGED <<delivered, refused, demoted>>
    BY <1>5 DEF Receive
  <2>2. PICK reply \in Replies : reply = Head(toClient)
    BY <1>5, TailElements DEF Receive, Underlying, SessionTypes
  <2>3. CASE reply.type = "PUBREC_ERROR" /\ PubrecRejected(reply.mid)
    <3>1. /\ toClient # <<>> /\ toClient' = Tail(toClient)
          /\ UNCHANGED <<greeted, held, delivered, refused, demoted>>
      BY <1>5 DEF Receive
    <3>2. \E i \in Entries :
            /\ inflight[i].id \in refused
            /\ inflight' = RemoveAt(inflight, i)
            /\ notified' = [notified EXCEPT ![inflight[i].id] = @ + 1]
      BY <2>2, <2>3, <3>1, RejectedAgrees
    <3>3. QED BY <1>1, <2>1, <3>2, ClientPromise
  <2>4. CASE ConnackQuota \/ AckCredit(reply.mid, 1) \/ AckCredit(reply.mid, 2)
             \/ Pubrec(reply.mid)
    <3>1. UNCHANGED notified
      BY <2>4 DEF ConnackQuota, AckCredit, Pubrec
    <3>2. QED BY <1>1, <2>1, <3>1, ClientPromise
  <2>5. QED BY <1>5, <2>2, <2>3, <2>4 DEF Receive
<1>6. CASE \/ \E p \in Publishers : Begin(p) \/ Enqueue(p) \/ Release(p)
           \/ BrokerDrops \/ LoseConnection \/ UNCHANGED sessionVars
           \/ Inside(SocketOpens) \/ Inside(SendConnect)
           \/ Inside(CreditUnlocked \/ AckLock \/ AckRelease)
           \/ Inside(AckReturn \/ ConnackAccept \/ RetryStep \/ RetryReturn)
  <2>1. UNCHANGED <<delivered, refused, demoted, notified>>
    BY <1>6 DEF Begin, Enqueue, Release, BrokerDrops, LoseConnection, Inside,
                PublishBegin, PublishQueue, PublishRelease, PublishReturn, Lose,
                ConnackRefuse, SocketFails, SocketOpens, SendConnect, CreditUnlocked,
                AckLock, AckRelease, AckReturn, ConnackAccept, RetryStep, RetryReturn
  <2>2. QED BY <1>1, <2>1, ClientPromise
<1>7. Handle => \/ Inside(AckDelete)
                \/ Inside(CreditUnlocked \/ AckLock \/ AckRelease)
                \/ Inside(AckReturn \/ ConnackAccept \/ RetryStep \/ RetryReturn)
  BY DEF Handle, Inside
<1>8. QED BY <1>2, <1>3, <1>4, <1>5, <1>6, <1>7 DEF SessionNext, BrokerTakes, Dial

\* Nothing has been promised at first.
LEMMA PromiseInit == SessionInit => Promise!Init
<1> SUFFICES ASSUME SessionInit PROVE Promise!Init
  OBVIOUS
<1>1. /\ inflight = <<>> /\ notified = [id \in Ids |-> 0]
      /\ refused = {} /\ demoted = {}
      /\ delivered = [qos \in {1, 2} |-> [id \in Ids |-> 0]]
  BY DEF SessionInit, Init
<1>2. OnList = {}
  BY <1>1 DEF OnList
<1>3. {id \in Ids : notified[id] > 0} = {}
  BY <1>1
<1>4. QED BY <1>1, <1>2, <1>3 DEF Promise!Init

\* The client, its network and a correct broker implement Delivery: every message is
\* reported once, after the broker's verdict, is not taken again after the report, and a
\* QoS 2 message that has not been demoted is taken once.
THEOREM PromiseKept == SessionSpec /\ []MidsApart => KeepsPromise
  BY PromiseInit, PromiseStep, UnderlyingAlways, AgreementAlways, PTL
     DEF SessionSpec, KeepsPromise, Promise!Spec

-----------------------------------------------------------------------------
(* The send quota in a session                                             *)

\* The broker offers one RECEIVE_MAXIMUM, the one the client starts with, and does not
\* refuse messages: otherwise the CONNACK's store and the credit for a PUBREC with an
\* error, neither of which is made under msgs_out.mutex, can lose units of the quota.
SteadyBroker == ~Rejects /\ ReceiveMaximums \subseteq {SendMaximum}

\* No message becomes too big after it was accepted, and none is published between
\* message__reconnect_reset and the opening of the socket: otherwise a send__publish that
\* fails marks messages as sent without a charge of the quota.
SendsSucceed == TRUE \notin Sizes /\ "reset" \notin PublishPhases

-----------------------------------------------------------------------------
(* The messages that have been sent                                        *)

\* The first n messages of the list have been sent, the others wait.
SentUpTo(n) ==
  /\ n \in 0 .. Len(inflight)
  /\ \A i \in Entries : inflight[i].state # "invalid" <=> i <= n

\* The list and the numbers the reckoning is about.
LEMMA QuotaFacts ==
  ASSUME Underlying
  PROVE  /\ inflight \in Seq(Message) /\ DOMAIN inflight = Entries
         /\ Len(inflight) \in Nat /\ quota \in Nat /\ SendMaximum \in Nat
         /\ SteadyBroker => maximum = SendMaximum
<1>1. inflight \in Seq(Message) /\ DOMAIN inflight = Entries /\ Len(inflight) \in Nat
  BY ListedFacts
<1>2. quota \in Nat /\ maximum \in Maximums /\ SendMaximum \in Nat
  BY QuotaAssumption DEF Underlying, Identity, Basic, TypeOK
<1>3. QED BY <1>1, <1>2 DEF SteadyBroker, Maximums

\* A step that sends nothing and takes nothing back.
LEMMA SentKept ==
  ASSUME NEW n, SentUpTo(n), Len(inflight') = Len(inflight),
         \A i \in Entries : inflight'[i].state # "invalid" <=> inflight[i].state # "invalid"
  PROVE  SentUpTo(n)'
  BY DEF SentUpTo, Entries

\* message__release_to_inflight marks the first message that waits.
LEMMA SentOneMore ==
  ASSUME Underlying, NEW n, SentUpTo(n), NEW i, FirstWaiting(i), MarkSent(i)
  PROVE  /\ n < Len(inflight) /\ n + 1 \in Nat
         /\ Len(inflight') = Len(inflight)
         /\ SentUpTo(n + 1)'
<1>1. /\ inflight \in Seq(Message) /\ DOMAIN inflight = Entries /\ Len(inflight) \in Nat
      /\ i \in Entries
  BY ListedFacts DEF FirstWaiting
<1>2. n \in Nat /\ i \in Nat /\ n <= Len(inflight) /\ 1 <= i /\ i <= Len(inflight)
  BY <1>1 DEF SentUpTo, Entries
<1>3. ~(i <= n)
  BY <1>1 DEF SentUpTo, FirstWaiting
<1>4. ASSUME n + 1 < i
      PROVE  FALSE
  <2>1. n + 1 \in Entries /\ ~(n + 1 <= n)
    BY <1>2, <1>4 DEF Entries
  <2>2. inflight[n + 1].state = "invalid"
    BY <2>1 DEF SentUpTo
  <2>3. QED BY <1>1, <1>4, <2>1, <2>2 DEF FirstWaiting
<1>5. i = n + 1
  BY <1>2, <1>3, <1>4
<1>6. PICK e \in Message : /\ inflight' = [inflight EXCEPT ![i] = e]
                           /\ e.state # "invalid"
  <2>1. inflight[i] \in Message
    BY <1>1, ListedFacts
  <2>2. [inflight[i] EXCEPT !.state = Awaiting(inflight[i].qos)] \in Message
    BY <2>1 DEF Awaiting, Message, States
  <2>3. [inflight[i] EXCEPT !.state = Awaiting(inflight[i].qos)].state # "invalid"
    BY <2>1 DEF Awaiting, Message
  <2>4. inflight' = [inflight EXCEPT ![i] =
                       [inflight[i] EXCEPT !.state = Awaiting(inflight[i].qos)]]
    BY DEF MarkSent
  <2>5. QED BY <2>2, <2>3, <2>4
<1>7. /\ Len(inflight') = Len(inflight)
      /\ \A j \in Entries : inflight'[j] = IF j = i THEN e ELSE inflight[j]
  BY <1>1, <1>6, ReplaceEntry
<1>8. \A j \in Entries : inflight'[j].state # "invalid" <=> j <= n + 1
  <2> SUFFICES ASSUME NEW j \in Entries
               PROVE  inflight'[j].state # "invalid" <=> j <= n + 1
    OBVIOUS
  <2>1. j \in Nat
    BY <1>1 DEF Entries
  <2>2. CASE j = i
    BY <1>2, <1>5, <1>6, <1>7, <2>2
  <2>3. CASE j # i
    <3>1. j <= n + 1 <=> j <= n
      BY <1>2, <1>5, <2>1, <2>3
    <3>2. QED BY <1>7, <2>3, <3>1 DEF SentUpTo
  <2>4. QED BY <2>2, <2>3
<1>9. Entries' = Entries /\ n + 1 \in 0 .. Len(inflight)
  BY <1>2, <1>5, <1>7 DEF Entries
<1>10. QED BY <1>2, <1>5, <1>7, <1>8, <1>9 DEF SentUpTo
\* message__queue adds a message that waits.
LEMMA SentAppend ==
  ASSUME Underlying, NEW n, SentUpTo(n), NEW e \in Message, e.state = "invalid",
         inflight' = Append(inflight, e)
  PROVE  SentUpTo(n)' /\ Len(inflight') = Len(inflight) + 1
<1>1. inflight \in Seq(Message) /\ DOMAIN inflight = Entries /\ Len(inflight) \in Nat
  BY ListedFacts
<1>2. /\ Len(inflight') = Len(inflight) + 1
      /\ inflight'[Len(inflight) + 1] = e
      /\ \A j \in Entries : inflight'[j] = inflight[j]
  <2>1. /\ Len(Append(inflight, e)) = Len(inflight) + 1
        /\ Append(inflight, e)[Len(inflight) + 1] = e
        /\ \A j \in 1 .. Len(inflight) : Append(inflight, e)[j] = inflight[j]
    BY <1>1, AppendProperties
  <2>2. QED BY <2>1 DEF Entries
<1>3. /\ Entries' = Entries \cup {Len(inflight) + 1}
      /\ n \in 0 .. Len(inflight') /\ ~(Len(inflight) + 1 <= n)
  BY <1>1, <1>2 DEF Entries, SentUpTo
<1>4. QED BY <1>2, <1>3 DEF SentUpTo

\* message__remove takes a message that has been sent.
LEMMA SentRemove ==
  ASSUME Underlying, NEW n, SentUpTo(n), NEW i \in Entries, inflight[i].state # "invalid",
         inflight' = RemoveAt(inflight, i)
  PROVE  /\ 1 <= n /\ n - 1 \in Nat
         /\ SentUpTo(n - 1)' /\ Len(inflight') = Len(inflight) - 1
<1>1. inflight \in Seq(Message) /\ DOMAIN inflight = Entries /\ Len(inflight) \in Nat
  BY ListedFacts
<1>2. n \in Nat /\ n <= Len(inflight) /\ i \in Nat /\ 1 <= i /\ i <= n
  BY <1>1 DEF SentUpTo, Entries
<1>3. /\ Len(inflight') = Len(inflight) - 1
      /\ \A j \in 1 .. Len(inflight) - 1 :
           inflight'[j] = IF j < i THEN inflight[j] ELSE inflight[j + 1]
  BY <1>1, RemoveEntry
<1>4. ASSUME NEW j \in 1 .. Len(inflight) - 1
      PROVE  inflight'[j].state # "invalid" <=> j <= n - 1
  <2>1. CASE j < i
    <3>1. j \in Entries /\ j <= n /\ j <= n - 1
      BY <1>1, <1>2, <2>1 DEF Entries
    <3>2. QED BY <1>3, <2>1, <3>1 DEF SentUpTo
  <2>2. CASE ~(j < i)
    <3>1. j + 1 \in Entries /\ (j + 1 <= n <=> j <= n - 1)
      BY <1>1, <1>2, <2>2 DEF Entries
    <3>2. QED BY <1>3, <2>2, <3>1 DEF SentUpTo
  <2>3. QED BY <2>1, <2>2
<1>5. Entries' = 1 .. Len(inflight) - 1 /\ n - 1 \in 0 .. Len(inflight')
  BY <1>1, <1>2, <1>3 DEF Entries
<1>6. QED BY <1>2, <1>3, <1>4, <1>5 DEF SentUpTo

\* message__reconnect_reset puts as many messages in flight as the maximum allows, if no
\* message within the maximum waits.
LEMMA SentReset ==
  ASSUME Underlying, SteadyBroker, NEW n, SentUpTo(n), Reset,
         Len(inflight) = n \/ n >= SendMaximum
  PROVE  /\ Len(inflight') = Len(inflight)
         /\ SentUpTo(IF Len(inflight) <= SendMaximum THEN Len(inflight) ELSE SendMaximum)'
<1>1. /\ inflight \in Seq(Message) /\ DOMAIN inflight = Entries /\ Len(inflight) \in Nat
      /\ maximum = SendMaximum /\ SendMaximum \in Nat
      /\ inflight' = ResetList
  BY QuotaFacts DEF Reset, ReconnectReset
<1>2. PICK m \in Nat : m = IF Len(inflight) <= SendMaximum THEN Len(inflight) ELSE SendMaximum
  BY <1>1
<1>3. /\ inflight' = [i \in Entries |-> IF i <= SendMaximum THEN ResetMessage(inflight[i])
                                        ELSE [inflight[i] EXCEPT !.state = "invalid"]]
  BY <1>1 DEF ResetList
<1>4. Len(inflight') = Len(inflight)
  <2>1. Underlying => Kept
    BY <1>1, ResetType, ListedFacts DEF Underlying, Identity, Basic, TypeOK
  <2>2. QED BY <2>1 DEF Kept
<1>5. ASSUME NEW i \in Entries
      PROVE  inflight'[i].state # "invalid" <=> i <= m
  <2>1. inflight[i] \in Message /\ i \in Nat /\ 1 <= i /\ i <= Len(inflight)
    BY <1>1, ListedFacts DEF Entries
  <2>2. CASE i <= SendMaximum
    <3>1. i <= n /\ i <= m
      BY <1>1, <1>2, <2>1, <2>2 DEF SentUpTo
    <3>2. inflight[i].state # "invalid"
      BY <3>1 DEF SentUpTo
    <3>3. ResetMessage(inflight[i]).state # "invalid"
      BY <2>1, <3>2, ResetState
    <3>4. QED BY <1>3, <2>2, <3>1, <3>3
  <2>3. CASE ~(i <= SendMaximum)
    <3>1. [inflight[i] EXCEPT !.state = "invalid"].state = "invalid"
      BY <2>1 DEF Message
    <3>2. ~(i <= m)
      BY <1>1, <1>2, <2>1, <2>3
    <3>3. QED BY <1>3, <2>3, <3>1, <3>2
  <2>4. QED BY <2>2, <2>3
<1>6. m \in 0 .. Len(inflight') /\ Entries' = Entries
  <2>1. m \in 0 .. Len(inflight)
    BY <1>1, <1>2
  <2>2. QED BY <1>4, <2>1 DEF Entries
<1>7. SentUpTo(m)'
  BY <1>5, <1>6 DEF SentUpTo
<1>8. QED BY <1>1, <1>2, <1>4, <1>7

-----------------------------------------------------------------------------
(* The reckoning                                                           *)

\* The message whose acknowledgement Loop holds counts as sent, but no longer as in flight.
Debt == IF task.op = "delete" THEN 1 ELSE 0

\* From the credit of an acknowledgement to the end of its pass of
\* message__release_to_inflight one more message may be sent.
Owed == IF task.op \in {"delete", "release", "releasing"} THEN 1 ELSE 0

\* A publisher's own message is not counted before its pass has begun to send.
Fresh == IF \E p \in Publishers : pubPc[p] = "release" THEN 1 ELSE 0

\* With n of len messages sent and q left of the quota: what is not in flight can be
\* sent, and what waits has a full window in front of it.
Balance(n, len, q, debt, owed, fresh) ==
  /\ q + n >= SendMaximum + debt
  /\ len <= n + fresh \/ n + owed >= SendMaximum + debt

Reckoned ==
  /\ task.op # "credit"
  /\ \E n \in Nat : SentUpTo(n) /\ Balance(n, Len(inflight), quota, Debt, Owed, Fresh)

\* The numbers of the state after a step.
LEMMA ReckonedNext ==
  ASSUME NEW n \in Nat, NEW len \in Nat, NEW q \in Nat,
         NEW debt \in Nat, NEW owed \in Nat, NEW fresh \in Nat,
         SentUpTo(n)', Len(inflight') = len, quota' = q,
         Debt' = debt, Owed' = owed, Fresh' = fresh, task'.op # "credit",
         Balance(n, len, q, debt, owed, fresh)
  PROVE  Reckoned'
<1>1. Balance(n, Len(inflight), quota, Debt, Owed, Fresh)'
  BY DEF Balance
<1>2. QED BY <1>1 DEF Reckoned
\* The flags are 0 or 1.
LEMMA Flags ==
  /\ Debt \in {0, 1} /\ Owed \in {0, 1} /\ Fresh \in {0, 1}
  /\ Debt' \in {0, 1} /\ Owed' \in {0, 1} /\ Fresh' \in {0, 1}
  BY DEF Debt, Owed, Fresh

\* Reckoning a pass: one more message is sent, one more is marked without a charge, or the
\* pass ends because the quota is used up or nothing waits.
LEMMA PassBalance ==
  ASSUME NEW n \in Nat, NEW len \in Nat, NEW q \in Nat, NEW debt \in {0, 1},
         NEW owed \in {0, 1}, NEW fresh \in {0, 1}, NEW owed2 \in {0, 1},
         NEW fresh2 \in {0, 1}, owed <= owed2 + 1,
         Balance(n, len, q, debt, owed, fresh)
  PROVE  /\ n < len /\ q > 0 => Balance(n + 1, len, q - 1, debt, owed2, fresh2)
         /\ n < len => Balance(n + 1, len, q, debt, owed2, fresh2)
         /\ n = len => Balance(n, len, q, debt, owed2, fresh2)
         /\ q = 0 => Balance(n, len, q, debt, owed2, fresh2)
<1>1. SendMaximum \in Nat
  BY QuotaAssumption
<1>2. QED BY <1>1 DEF Balance

\* When no message is the first one that waits, none waits.
LEMMA NoneWaits ==
  ASSUME Underlying, NEW n \in Nat, SentUpTo(n), \A i \in DOMAIN inflight : ~FirstWaiting(i)
  PROVE  n = Len(inflight)
<1>1. DOMAIN inflight = Entries /\ Len(inflight) \in Nat
  BY ListedFacts
<1>2. ASSUME n < Len(inflight)
      PROVE  FALSE
  <2>1. n + 1 \in Entries /\ ~(n + 1 <= n)
    BY <1>1, <1>2 DEF Entries
  <2>2. inflight[n + 1].state = "invalid"
    BY <2>1 DEF SentUpTo
  <2>3. ASSUME NEW j \in Entries, j < n + 1
        PROVE  inflight[j].state # "invalid"
    <3>1. j <= n
      BY <1>1, <2>3 DEF Entries
    <3>2. QED BY <3>1 DEF SentUpTo
  <2>4. FirstWaiting(n + 1)
    BY <1>1, <2>1, <2>2, <2>3 DEF FirstWaiting
  <2>5. QED BY <1>1, <2>1, <2>4
<1>3. QED BY <1>1, <1>2 DEF SentUpTo

\* A step of message__release_to_inflight, whoever makes the pass.
LEMMA PassReckoned ==
  ASSUME Underlying, SteadyBroker, Reckoned, ReleaseNext \/ ReleaseFails \/ ReleaseEnds,
         Debt' = Debt, Owed <= Owed' + 1, task'.op # "credit"
  PROVE  Reckoned'
<1>1. PICK n \in Nat :
        SentUpTo(n) /\ Balance(n, Len(inflight), quota, Debt, Owed, Fresh)
  BY DEF Reckoned
<1>2. Len(inflight) \in Nat /\ quota \in Nat
  BY QuotaFacts
<1>3. PICK owed \in {0, 1}, fresh \in {0, 1} : owed = Owed' /\ fresh = Fresh'
  BY Flags
<1>4. /\ n < Len(inflight) /\ quota > 0 =>
           Balance(n + 1, Len(inflight), quota - 1, Debt, owed, fresh)
      /\ n < Len(inflight) => Balance(n + 1, Len(inflight), quota, Debt, owed, fresh)
      /\ n = Len(inflight) => Balance(n, Len(inflight), quota, Debt, owed, fresh)
      /\ quota = 0 => Balance(n, Len(inflight), quota, Debt, owed, fresh)
  <2>1. Debt \in {0, 1} /\ Owed \in {0, 1} /\ Fresh \in {0, 1} /\ Owed <= owed + 1
    BY <1>3, Flags
  <2>2. QED BY <1>1, <1>2, <2>1, PassBalance
<1>5. Debt \in Nat /\ owed \in Nat /\ fresh \in Nat
  BY Flags
<1>6. CASE ReleaseNext
  <2>1. PICK i : FirstWaiting(i) /\ MarkSent(i)
    BY <1>6 DEF ReleaseNext
  <2>2. /\ n < Len(inflight) /\ n + 1 \in Nat /\ Len(inflight') = Len(inflight)
        /\ SentUpTo(n + 1)'
    BY <1>1, <2>1, SentOneMore
  <2>3. quota > 0 /\ quota' = quota - 1 /\ quota - 1 \in Nat
    BY <1>2, <1>6 DEF ReleaseNext, Charged
  <2>4. QED BY <1>2, <1>3, <1>4, <1>5, <2>2, <2>3, ReckonedNext
<1>7. CASE ReleaseFails
  <2>1. PICK i : FirstWaiting(i) /\ MarkSent(i)
    BY <1>7 DEF ReleaseFails
  <2>2. /\ n < Len(inflight) /\ n + 1 \in Nat /\ Len(inflight') = Len(inflight)
        /\ SentUpTo(n + 1)'
    BY <1>1, <2>1, SentOneMore
  <2>3. quota' = quota
    BY <1>7 DEF ReleaseFails
  <2>4. QED BY <1>2, <1>3, <1>4, <1>5, <2>2, <2>3, ReckonedNext
<1>8. CASE ReleaseEnds
  <2>1. UNCHANGED <<inflight, quota>>
    BY <1>8 DEF ReleaseEnds
  <2>2. n = Len(inflight) \/ quota = 0
    BY <1>1, <1>8, NoneWaits DEF ReleaseEnds
  <2>3. SentUpTo(n)' /\ Len(inflight') = Len(inflight)
    BY <1>1, <2>1 DEF SentUpTo, Entries
  <2>4. QED BY <1>2, <1>3, <1>4, <1>5, <2>1, <2>2, <2>3, ReckonedNext
<1>9. QED BY <1>6, <1>7, <1>8

\* A step that neither sends, nor credits, nor takes a message off the list.
LEMMA QuietReckoned ==
  ASSUME Underlying, Reckoned, UNCHANGED quota, Len(inflight') = Len(inflight),
         \A i \in Entries : inflight'[i].state # "invalid" <=> inflight[i].state # "invalid",
         Debt' = Debt, Owed' = Owed, Fresh' = Fresh, task'.op # "credit"
  PROVE  Reckoned'
<1>1. PICK n \in Nat :
        SentUpTo(n) /\ Balance(n, Len(inflight), quota, Debt, Owed, Fresh)
  BY DEF Reckoned
<1>2. Len(inflight) \in Nat /\ quota \in Nat /\ Debt \in Nat /\ Owed \in Nat /\ Fresh \in Nat
  BY QuotaFacts, Flags
<1>3. SentUpTo(n)'
  BY <1>1, SentKept
<1>4. QED BY <1>1, <1>2, <1>3, ReckonedNext
\* A message of the list that has an identifier is the one an acknowledgement finds.
LEMMA FoundSent ==
  ASSUME Underlying, MidsApart, NEW m \in Listed, m.state # "invalid",
         NEW n \in Nat, SentUpTo(n)
  PROVE  /\ 1 <= n
         /\ \A i : FirstWith(i, m.mid) => i \in Entries /\ inflight[i] = m
<1>1. PICK k \in Entries : inflight[k] = m
  BY DEF Listed
<1>2. DOMAIN inflight = Entries /\ k \in Nat /\ 1 <= k
  BY ListedFacts DEF Entries
<1>3. k <= n
  BY <1>1 DEF SentUpTo
<1>4. ASSUME NEW i, FirstWith(i, m.mid)
      PROVE  i \in Entries /\ inflight[i] = m
  <2>1. i \in Entries /\ inflight[i].mid = m.mid
    BY <1>2, <1>4 DEF FirstWith
  <2>2. QED BY <1>1, <2>1 DEF MidsApart
<1>5. 1 <= n
  BY <1>2, <1>3
<1>6. QED BY <1>4, <1>5

\* A PUBREC is for a message that has been sent.
LEMMA PubrecKeepsStates ==
  ASSUME Underlying, MidsApart, NEW n \in Nat, SentUpTo(n),
         NEW reply, ReplyAgrees(reply), reply.type = "PUBREC", Pubrec(reply.mid)
  PROVE  /\ Len(inflight') = Len(inflight)
         /\ \A i \in Entries : inflight'[i].state # "invalid" <=> inflight[i].state # "invalid"
<1>1. CASE UNCHANGED inflight
  BY <1>1
<1>2. ASSUME NEW i, FirstWith(i, reply.mid),
             inflight' = [inflight EXCEPT ![i].state = "wait_for_pubcomp"]
      PROVE  /\ Len(inflight') = Len(inflight)
             /\ \A j \in Entries :
                  inflight'[j].state # "invalid" <=> inflight[j].state # "invalid"
  <2>1. PICK m \in Listed : m.mid = reply.mid /\ m.state \in Published
    BY DEF ReplyAgrees, InPublish
  <2>2. m.state # "invalid"
    BY <2>1 DEF Published
  <2>3. i \in Entries /\ inflight[i] = m
    BY <1>2, <2>1, <2>2, FoundSent
  <2>4. inflight \in Seq(Message) /\ DOMAIN inflight = Entries /\ m \in Message
    BY ListedFacts
  <2>5. PICK e \in Message : e = [m EXCEPT !.state = "wait_for_pubcomp"]
    BY <2>4 DEF Message, States
  <2>6. e.state # "invalid" /\ inflight' = [inflight EXCEPT ![i] = e]
    BY <1>2, <2>3, <2>4, <2>5 DEF Message
  <2>7. /\ Len(inflight') = Len(inflight)
        /\ \A j \in Entries : inflight'[j] = IF j = i THEN e ELSE inflight[j]
    BY <2>3, <2>4, <2>6, ReplaceEntry
  <2>8. QED BY <2>2, <2>3, <2>6, <2>7
<1>3. QED BY <1>1, <1>2 DEF Pubrec

\* message__delete takes a message that has been sent.
LEMMA DeleteSent ==
  ASSUME Underlying, MidsApart, Agreement, NEW n \in Nat, SentUpTo(n), AckDelete
  PROVE  /\ 1 <= n /\ n - 1 \in Nat
         /\ SentUpTo(n - 1)' /\ Len(inflight') = Len(inflight) - 1
<1>1. PICK i \in DOMAIN inflight :
        FirstWith(i, task.mid) /\ inflight' = RemoveAt(inflight, i)
  BY DEF AckDelete, Unlink
<1>2. PICK m \in Listed : m.mid = task.mid /\ m.state \in Published \cup Released
  BY DEF AckDelete, Agreement, TaskAgrees, InPublish, InRelease
<1>3. m.state # "invalid"
  BY <1>2 DEF Published, Released
<1>4. i \in Entries /\ inflight[i] = m
  BY <1>1, <1>2, <1>3, FoundSent
<1>5. QED BY <1>1, <1>3, <1>4, SentRemove

\* The publishers.
LEMMA PublishersReckoned ==
  ASSUME Underlying, Agreement, SteadyBroker, Reckoned, NEW p \in Publishers,
         Begin(p) \/ Enqueue(p) \/ Release(p)
  PROVE  Reckoned'
<1>1. /\ UNCHANGED task /\ task.op # "credit" /\ Debt' = Debt /\ Owed' = Owed
      /\ pubPc \in [Publishers -> {"idle", "queue", "release", "sent"}]
  BY DEF Begin, Enqueue, Release, Inside, PublishBegin, PublishQueue, PublishRelease,
         PublishReturn, Reckoned, Debt, Owed, Underlying, Identity, Basic, TypeOK
<1>2. CASE Begin(p)
  <2>1. UNCHANGED <<inflight, quota>> /\ pubPc[p] = "idle"
        /\ pubPc' = [pubPc EXCEPT ![p] = "queue"]
    BY <1>2 DEF Begin, Inside, PublishBegin
  <2>2. Fresh' = Fresh
    BY <1>1, <2>1 DEF Fresh
  <2>3. QED BY <1>1, <2>1, <2>2, QuietReckoned
<1>3. CASE Enqueue(p)
  <2>1. /\ pubPc[p] = "queue" /\ lock = Free /\ UNCHANGED quota
        /\ inflight' = Append(inflight, draft[p])
        /\ pubPc' = [pubPc EXCEPT ![p] = "release"]
    BY <1>3 DEF Enqueue, Inside, PublishQueue, Acquire
  <2>2. draft[p] \in Message /\ draft[p].state = "invalid"
    <3>1. draft[p] \in Message \cup {NoDraft} /\ draft[p] # NoDraft
      BY <2>1 DEF Underlying, Identity, Basic, TypeOK
    <3>2. QED BY <3>1 DEF Agreement, DraftsNew, Drafting
  <2>3. Fresh = 0 /\ Fresh' = 1
    <3>1. \A r \in Publishers : pubPc[r] # "release"
      BY <2>1, ThreadsAssumption DEF Underlying, Identity, Basic, MutexHeld
    <3>2. pubPc'[p] = "release"
      BY <1>1, <2>1
    <3>3. QED BY <3>1, <3>2 DEF Fresh
  <2>4. PICK n \in Nat :
          SentUpTo(n) /\ Balance(n, Len(inflight), quota, Debt, Owed, 0)
    BY <2>3 DEF Reckoned
  <2>5. SentUpTo(n)' /\ Len(inflight') = Len(inflight) + 1
    BY <2>1, <2>2, <2>4, SentAppend
  <2>6. Len(inflight) + 1 \in Nat /\ quota \in Nat /\ Debt \in Nat /\ Owed \in Nat
    BY QuotaFacts, Flags
  <2>7. Balance(n, Len(inflight) + 1, quota, Debt, Owed, 1)
    <3>1. SendMaximum \in Nat /\ Len(inflight) \in Nat
      BY QuotaFacts
    <3>2. QED BY <2>4, <2>6, <3>1 DEF Balance
  <2>8. QED BY <1>1, <2>1, <2>3, <2>5, <2>6, <2>7, ReckonedNext
<1>4. CASE Release(p)
  <2>1. ReleaseNext \/ ReleaseFails \/ ReleaseEnds
    BY <1>4 DEF Release, Inside, PublishRelease, PublishReturn
  <2>2. Owed <= Owed' + 1
    BY <1>1, Flags
  <2>3. QED BY <1>1, <2>1, <2>2, PassReckoned
<1>5. QED BY <1>2, <1>3, <1>4

\* The packets of the broker.
LEMMA ReceiveReckoned ==
  ASSUME Underlying, MidsApart, Agreement, SteadyBroker, Reckoned, Receive
  PROVE  Reckoned'
<1> DEFINE reply == Head(toClient)
<1>1. /\ toClient # <<>> /\ UNCHANGED pubPc
      /\ \/ ConnackQuota
         \/ reply.type = "PUBACK" /\ AckCredit(reply.mid, 1)
         \/ reply.type = "PUBCOMP" /\ AckCredit(reply.mid, 2)
         \/ reply.type = "PUBREC" /\ Pubrec(reply.mid)
  BY DEF Receive, ConnackQuota, AckCredit, Pubrec, PubrecRejected, SteadyBroker
<1>2. ReplyAgrees(reply)
  <2>1. reply \in ToSet(toClient)
    BY <1>1, TailElements DEF Underlying, SessionTypes
  <2>2. QED BY <2>1 DEF Agreement
<1> HIDE DEF reply
<1>3. PICK n \in Nat :
        SentUpTo(n) /\ Balance(n, Len(inflight), quota, Debt, Owed, Fresh)
  BY DEF Reckoned
<1>4. /\ Len(inflight) \in Nat /\ quota \in Nat /\ Fresh \in Nat /\ Fresh' = Fresh
      /\ maximum = SendMaximum /\ SendMaximum \in Nat
  BY <1>1, QuotaFacts, Flags DEF Fresh
<1>5. CASE ConnackQuota
  <2>1. /\ task = Idle /\ task' = Task("connack", 0, 0, 0) /\ UNCHANGED inflight
        /\ quota' = SendMaximum \/ quota' = quota
    BY <1>4, <1>5 DEF ConnackQuota, Receiving, SteadyBroker
  <2>2. Debt = 0 /\ Owed = 0 /\ Debt' = 0 /\ Owed' = 0 /\ task'.op # "credit"
    BY <2>1 DEF Debt, Owed, Idle, Task
  <2>3. SentUpTo(n)' /\ Len(inflight') = Len(inflight)
    BY <1>3, <2>1 DEF SentUpTo, Entries
  <2>4. /\ Balance(n, Len(inflight), quota, 0, 0, Fresh)
        /\ Balance(n, Len(inflight), SendMaximum, 0, 0, Fresh)
    BY <1>3, <1>4, <2>2 DEF Balance
  <2>5. QED BY <1>4, <2>1, <2>2, <2>3, <2>4, ReckonedNext
<1>6. ASSUME NEW qos \in {1, 2}, AckCredit(reply.mid, qos), reply.type \in {"PUBACK", "PUBCOMP"}
      PROVE  Reckoned'
  <2>1. /\ task = Idle /\ task' = Task("delete", reply.mid, qos, 0) /\ UNCHANGED inflight
        /\ quota' = IF quota < SendMaximum THEN quota + 1 ELSE quota
    BY <1>4, <1>6 DEF AckCredit, Receiving, Credited
  <2>2. Debt = 0 /\ Owed = 0 /\ Debt' = 1 /\ Owed' = 1 /\ task'.op # "credit"
    BY <2>1 DEF Debt, Owed, Idle, Task
  <2>3. SentUpTo(n)' /\ Len(inflight') = Len(inflight)
    BY <1>3, <2>1 DEF SentUpTo, Entries
  <2>4. 1 <= n
    <3>1. PICK m \in Listed : m.state \in Published \cup Released
      BY <1>2, <1>6 DEF ReplyAgrees, InPublish, InRelease
    <3>2. m.state # "invalid"
      BY <3>1 DEF Published, Released
    <3>3. QED BY <1>3, <3>2, FoundSent
  <2>5. PICK q \in Nat : q = IF quota < SendMaximum THEN quota + 1 ELSE quota
    BY <1>4
  <2>6. Balance(n, Len(inflight), q, 1, 1, Fresh)
    BY <1>3, <1>4, <2>2, <2>4, <2>5 DEF Balance
  <2>7. quota' = q
    BY <2>1, <2>5
  <2>8. QED BY <1>4, <2>2, <2>3, <2>6, <2>7, ReckonedNext
<1>7. ASSUME reply.type = "PUBREC", Pubrec(reply.mid)
      PROVE  Reckoned'
  <2>1. UNCHANGED <<task, quota>> /\ task.op # "credit"
    BY <1>7 DEF Pubrec, Reckoned
  <2>2. Debt' = Debt /\ Owed' = Owed
    BY <2>1 DEF Debt, Owed
  <2>3. /\ Len(inflight') = Len(inflight)
        /\ \A i \in Entries : inflight'[i].state # "invalid" <=> inflight[i].state # "invalid"
    BY <1>2, <1>3, <1>7, PubrecKeepsStates
  <2>4. QED BY <1>4, <2>1, <2>2, <2>3, QuietReckoned
<1>8. QED BY <1>1, <1>5, <1>6, <1>7
\* message__delete takes the acknowledged message off the list.
LEMMA DeleteReckoned ==
  ASSUME Underlying, MidsApart, Agreement, Reckoned, AckDelete
  PROVE  Reckoned'
<1>1. PICK n \in Nat :
        SentUpTo(n) /\ Balance(n, Len(inflight), quota, Debt, Owed, Fresh)
  BY DEF Reckoned
<1>2. /\ task.op = "delete" /\ task' = Task("release", 0, 0, 0)
      /\ UNCHANGED <<quota, pubPc>>
  BY DEF AckDelete
<1>3. /\ Debt = 1 /\ Owed = 1 /\ Debt' = 0 /\ Owed' = 1 /\ Fresh' = Fresh
      /\ task'.op # "credit"
  BY <1>2 DEF Debt, Owed, Fresh, Task
<1>4. /\ 1 <= n /\ n - 1 \in Nat
      /\ SentUpTo(n - 1)' /\ Len(inflight') = Len(inflight) - 1
  BY <1>1, DeleteSent
<1>5. /\ Len(inflight) \in Nat /\ n <= Len(inflight) /\ quota \in Nat /\ Fresh \in Nat
      /\ SendMaximum \in Nat
  BY <1>1, QuotaFacts, Flags DEF SentUpTo
<1>6. /\ Len(inflight) - 1 \in Nat
       /\ Balance(n - 1, Len(inflight) - 1, quota, 0, 1, Fresh)
  BY <1>1, <1>3, <1>4, <1>5 DEF Balance
<1>7. QED BY <1>2, <1>3, <1>4, <1>5, <1>6, ReckonedNext

\* message__retry_check leaves the states as they are.
LEMMA RetryKeepsStates ==
  ASSUME Underlying, RetryStep
  PROVE  /\ Len(inflight') = Len(inflight)
         /\ \A i \in Entries : inflight'[i].state # "invalid" <=> inflight[i].state # "invalid"
<1>1. /\ inflight \in Seq(Message) /\ DOMAIN inflight = Entries
      /\ \A i \in Entries : inflight[i] \in Message
  BY ListedFacts
<1>2. \/ UNCHANGED inflight
      \/ /\ task.n \in Entries
         /\ inflight' = [inflight EXCEPT ![task.n] = Again(inflight[task.n])]
  BY <1>1 DEF RetryStep
<1>3. ASSUME task.n \in Entries,
             inflight' = [inflight EXCEPT ![task.n] = Again(inflight[task.n])]
      PROVE  /\ Len(inflight') = Len(inflight)
             /\ \A i \in Entries :
                  inflight'[i].state # "invalid" <=> inflight[i].state # "invalid"
  <2>1. PICK e \in Message :
          e = Again(inflight[task.n]) /\ e.state = inflight[task.n].state
    <3>1. inflight[task.n] \in Message
      BY <1>1, <1>3
    <3>2. /\ Again(inflight[task.n]) \in Message
          /\ Again(inflight[task.n]).state = inflight[task.n].state
      BY <3>1 DEF Again, Message
    <3>3. QED BY <3>2
  <2>2. /\ Len(inflight') = Len(inflight)
        /\ \A j \in Entries : inflight'[j] = IF j = task.n THEN e ELSE inflight[j]
    BY <1>1, <1>3, <2>1, ReplaceEntry
  <2>3. QED BY <2>1, <2>2
<1>4. QED BY <1>2, <1>3

\* The handlers of Loop.
LEMMA HandleReckoned ==
  ASSUME Underlying, MidsApart, Agreement, SteadyBroker, Reckoned, Handle
  PROVE  Reckoned'
<1>1. CASE AckDelete
  BY <1>1, DeleteReckoned
<1>2. CASE CreditUnlocked
  BY <1>2 DEF CreditUnlocked, Reckoned
<1>3. CASE AckRelease \/ AckReturn
  <2>1. ReleaseNext \/ ReleaseFails \/ ReleaseEnds
    BY <1>3 DEF AckRelease, AckReturn
  <2>2. task.op = "releasing" /\ (task' = task \/ task' = Idle)
    BY <1>3 DEF AckRelease, AckReturn
  <2>3. Debt' = Debt /\ task'.op # "credit"
    BY <2>2 DEF Debt, Idle, Task
  <2>4. Owed <= Owed' + 1
    <3>1. PICK o \in {0, 1} : o = Owed'
      BY Flags
    <3>2. Owed \in {0, 1}
      BY Flags
    <3>3. Owed <= o + 1
      BY <3>2
    <3>4. QED BY <3>1, <3>3
  <2>5. QED BY <2>1, <2>3, <2>4, PassReckoned
<1>4. CASE AckLock \/ ConnackAccept \/ RetryReturn \/ RetryStep
  <2>1. /\ UNCHANGED <<quota, pubPc>>
        /\ Debt' = Debt /\ Owed' = Owed /\ task'.op # "credit"
    <3>1. CASE AckLock
      BY <3>1 DEF AckLock, Debt, Owed, Task
    <3>2. CASE ConnackAccept
      BY <3>2 DEF ConnackAccept, Debt, Owed, Task
    <3>3. CASE RetryReturn
      BY <3>3 DEF RetryReturn, Debt, Owed, Task, Idle
    <3>4. CASE RetryStep
      <4>1. task.op = "retry" /\ task' = [task EXCEPT !.n = @ + 1] /\ task \in Tasks
        BY <3>4 DEF RetryStep, Underlying, Identity, Basic, TypeOK
      <4>2. task'.op = "retry"
        BY <4>1 DEF Tasks
      <4>3. QED BY <3>4, <4>1, <4>2 DEF RetryStep, Debt, Owed
    <3>5. QED BY <1>4, <3>1, <3>2, <3>3, <3>4
  <2>2. Fresh' = Fresh
    BY <2>1 DEF Fresh
  <2>3. /\ Len(inflight') = Len(inflight)
        /\ \A i \in Entries : inflight'[i].state # "invalid" <=> inflight[i].state # "invalid"
    BY <1>4, RetryKeepsStates DEF AckLock, ConnackAccept, RetryReturn
  <2>4. QED BY <2>1, <2>2, <2>3, QuietReckoned
<1>5. QED BY <1>1, <1>2, <1>3, <1>4 DEF Handle, Inside

\* message__reconnect_reset: the quota is what the messages sent again leave of it.
LEMMA ResetReckoned ==
  ASSUME Underlying, SteadyBroker, Reckoned, Reset
  PROVE  Reckoned'
<1>1. /\ task = Idle /\ lock = Free /\ UNCHANGED <<task, pubPc>>
      /\ quota' = IF Len(inflight) <= SendMaximum THEN SendMaximum - Len(inflight) ELSE 0
  BY QuotaFacts DEF Reset, ReconnectReset, QuotaAfterReset
<1>2. /\ Debt = 0 /\ Owed = 0 /\ Fresh = 0 /\ task'.op # "credit"
      /\ Debt' = 0 /\ Owed' = 0 /\ Fresh' = 0
  <2>1. \A r \in Publishers : pubPc[r] # "release"
    BY <1>1, ThreadsAssumption DEF Underlying, Identity, Basic, MutexHeld
  <2>2. Fresh = 0 /\ Fresh' = 0
    BY <1>1, <2>1 DEF Fresh
  <2>3. QED BY <1>1, <2>2 DEF Debt, Owed, Idle, Task
<1>3. PICK n \in Nat : SentUpTo(n) /\ Balance(n, Len(inflight), quota, 0, 0, 0)
  BY <1>2 DEF Reckoned
<1>4. Len(inflight) \in Nat /\ SendMaximum \in Nat /\ n <= Len(inflight)
  BY <1>3, QuotaFacts DEF SentUpTo
<1>5. Len(inflight) = n \/ n >= SendMaximum
  BY <1>3, <1>4 DEF Balance
<1>6. PICK m \in Nat : m = IF Len(inflight) <= SendMaximum THEN Len(inflight) ELSE SendMaximum
  BY <1>4
<1>7. Len(inflight') = Len(inflight) /\ SentUpTo(m)'
  BY <1>3, <1>5, <1>6, SentReset
<1>8. PICK q \in Nat :
        q = IF Len(inflight) <= SendMaximum THEN SendMaximum - Len(inflight) ELSE 0
  <2>1. Len(inflight) <= SendMaximum => SendMaximum - Len(inflight) \in Nat
    BY <1>4
  <2>2. QED BY <2>1
<1>9. Balance(m, Len(inflight), q, 0, 0, 0)
  BY <1>4, <1>6, <1>8 DEF Balance
<1>10. quota' = q
  BY <1>1, <1>8
<1>11. QED BY <1>2, <1>4, <1>7, <1>9, <1>10, ReckonedNext

\* The steps that leave the list and the quota alone.
LEMMA ConnectionReckoned ==
  ASSUME Underlying, Reckoned,
         \/ BrokerTakes \/ BrokerDrops \/ LoseConnection
         \/ Inside(SocketOpens) \/ Inside(SendConnect) \/ UNCHANGED sessionVars
  PROVE  Reckoned'
<1>1. UNCHANGED <<inflight, quota, pubPc>>
  BY DEF BrokerTakes, BrokerConnect, BrokerPublish, BrokerPubrel, Transmit, BrokerDrops,
         LoseConnection, Lose, ConnackRefuse, SocketFails, Inside, SocketOpens, SendConnect
<1>2. task' = task \/ (task.op = "connack" /\ task' = Idle)
  BY DEF BrokerTakes, BrokerConnect, BrokerPublish, BrokerPubrel, Transmit, BrokerDrops,
         LoseConnection, Lose, ConnackRefuse, SocketFails, Inside, SocketOpens, SendConnect,
         Close
<1>3. Debt' = Debt /\ Owed' = Owed /\ Fresh' = Fresh /\ task'.op # "credit"
  BY <1>1, <1>2 DEF Debt, Owed, Fresh, Reckoned, Idle, Task
<1>4. QED BY <1>1, <1>3, QuietReckoned

\* Nothing has been sent at first.
LEMMA ReckonedInit == SessionInit => Reckoned
<1> SUFFICES ASSUME SessionInit PROVE Reckoned
  OBVIOUS
<1>1. /\ inflight = <<>> /\ Len(inflight) = 0 /\ quota = SendMaximum /\ task = Idle
      /\ \A p \in Publishers : pubPc[p] = "idle"
  BY DEF SessionInit, Init
<1>2. Debt = 0 /\ Owed = 0 /\ Fresh = 0 /\ task.op # "credit"
  BY <1>1 DEF Debt, Owed, Fresh, Idle, Task
<1>3. SentUpTo(0)
  BY <1>1 DEF SentUpTo, Entries
<1>4. Balance(0, 0, SendMaximum, 0, 0, 0)
  BY QuotaAssumption DEF Balance
<1>5. QED BY <1>1, <1>2, <1>3, <1>4 DEF Reckoned

\* Every step keeps the reckoning.
LEMMA ReckonedStep ==
  ASSUME SteadyBroker
  PROVE  Underlying /\ MidsApart /\ Agreement /\ Reckoned /\ [SessionNext]_sessionVars
           => Reckoned'
<1> SUFFICES ASSUME Underlying, MidsApart, Agreement, Reckoned, [SessionNext]_sessionVars
             PROVE  Reckoned'
  OBVIOUS
<1>1. CASE \E p \in Publishers : Begin(p) \/ Enqueue(p) \/ Release(p)
  BY <1>1, PublishersReckoned
<1>2. CASE Receive
  BY <1>2, ReceiveReckoned
<1>3. CASE Handle
  BY <1>3, HandleReckoned
<1>4. CASE Dial
  BY <1>4, ResetReckoned, ConnectionReckoned DEF Dial
<1>5. CASE BrokerTakes \/ BrokerDrops \/ LoseConnection \/ UNCHANGED sessionVars
  BY <1>5, ConnectionReckoned
<1>6. QED BY <1>1, <1>2, <1>3, <1>4, <1>5 DEF SessionNext
-----------------------------------------------------------------------------
(* The window: how much may be in flight                                   *)

\* Between the reset and the CONNACK the quota and what is in flight make up one maximum;
\* the CONNACK gives the quota back that is already used.
Cap == IF link = "active" \/ task.op = "connack" THEN 2 * SendMaximum ELSE SendMaximum

Windowed ==
  /\ limit = FALSE
  /\ link = "reset" => lock = Free
  /\ \E n \in Nat : SentUpTo(n) /\ (link # "down" => quota + n <= Cap + Debt)

\* The numbers of the state after a step.
LEMMA WindowedNext ==
  ASSUME NEW n \in Nat, NEW q \in Nat, NEW debt \in Nat, NEW cap \in Nat,
         SentUpTo(n)', quota' = q, Debt' = debt, Cap' = cap,
         link' = "down" \/ q + n <= cap + debt,
         limit' = FALSE, link' = "reset" => lock' = Free
  PROVE  Windowed'
  BY DEF Windowed

\* The window in numbers.
LEMMA WindowFacts ==
  ASSUME Underlying
  PROVE  /\ Len(inflight) \in Nat /\ quota \in Nat /\ SendMaximum \in Nat
         /\ Debt \in Nat /\ Cap \in Nat
         /\ Cap \in {SendMaximum, 2 * SendMaximum}
<1>1. Len(inflight) \in Nat /\ quota \in Nat /\ SendMaximum \in Nat /\ Debt \in Nat
  BY QuotaFacts, Flags
<1>2. Cap \in {SendMaximum, 2 * SendMaximum}
  BY DEF Cap
<1>3. QED BY <1>1, <1>2

\* A step that neither sends, nor credits, nor takes a message off the list.
LEMMA QuietWindow ==
  ASSUME Underlying, Windowed, UNCHANGED <<quota, limit>>, Len(inflight') = Len(inflight),
         \A i \in Entries : inflight'[i].state # "invalid" <=> inflight[i].state # "invalid",
         Debt' = Debt, link' = "down" \/ (Cap' = Cap /\ link # "down"),
         link' = "reset" => lock' = Free
  PROVE  Windowed'
<1>1. PICK n \in Nat : SentUpTo(n) /\ (link # "down" => quota + n <= Cap + Debt)
  BY DEF Windowed
<1>2. quota \in Nat /\ Debt \in Nat /\ Cap \in Nat /\ SendMaximum \in Nat
  BY WindowFacts
<1>3. SentUpTo(n)' /\ limit' = FALSE
  BY <1>1, SentKept DEF Windowed
<1>4. CASE link' = "down"
  BY <1>3, <1>4 DEF Windowed
<1>5. CASE link' # "down"
  BY <1>1, <1>2, <1>3, <1>5, WindowedNext
<1>6. QED BY <1>4, <1>5

\* A pass on a connection charges the quota for each message it marks.
LEMMA PassWindow ==
  ASSUME Underlying, Windowed, ReleaseNext \/ ReleaseFails \/ ReleaseEnds, lock # Free,
         UNCHANGED <<link, limit>>, Debt' = Debt, Cap' = Cap
  PROVE  Windowed'
<1>1. PICK n \in Nat : SentUpTo(n) /\ (link # "down" => quota + n <= Cap + Debt)
  BY DEF Windowed
<1>2. /\ quota \in Nat /\ Debt \in Nat /\ Cap \in Nat
      /\ limit' = FALSE /\ link' # "reset" /\ link \in Links
  BY WindowFacts DEF Windowed, Underlying, Identity, Basic, TypeOK
<1>3. CASE ReleaseNext
  <2>1. PICK i : FirstWaiting(i) /\ MarkSent(i)
    BY <1>3 DEF ReleaseNext
  <2>2. n + 1 \in Nat /\ SentUpTo(n + 1)'
    BY <1>1, <2>1, SentOneMore
  <2>3. quota > 0 /\ quota' = quota - 1 /\ quota - 1 \in Nat
    BY <1>2, <1>3 DEF ReleaseNext, Charged
  <2>4. link # "down" => quota - 1 + (n + 1) <= Cap + Debt
    BY <1>1, <1>2
  <2>5. QED BY <1>2, <2>2, <2>3, <2>4, WindowedNext
<1>4. CASE ReleaseFails
  <2>1. PICK i : FirstWaiting(i) /\ MarkSent(i) /\ ~Sendable(inflight[i])
    BY <1>4 DEF ReleaseFails
  <2>2. n + 1 \in Nat /\ SentUpTo(n + 1)'
    BY <1>1, <2>1, SentOneMore
  <2>3. link' = "down"
    BY <1>2, <2>1 DEF Sendable, Windowed, Links, Up
  <2>4. QED BY <1>2, <2>2, <2>3 DEF Windowed
<1>5. CASE ReleaseEnds
  <2>1. UNCHANGED <<inflight, quota>>
    BY <1>5 DEF ReleaseEnds
  <2>2. SentUpTo(n)'
    BY <1>1, <2>1 DEF SentUpTo, Entries
  <2>3. QED BY <1>1, <1>2, <2>1, <2>2, WindowedNext
<1>6. QED BY <1>3, <1>4, <1>5

\* The publishers.
LEMMA PublishersWindow ==
  ASSUME Underlying, Agreement, SendsSucceed, Windowed, NEW p \in Publishers,
         Begin(p) \/ Enqueue(p) \/ Release(p)
  PROVE  Windowed'
<1>1. UNCHANGED <<task, link, limit>> /\ Debt' = Debt /\ Cap' = Cap
  BY DEF Begin, Enqueue, Release, Inside, PublishBegin, PublishQueue, PublishRelease,
         PublishReturn, Debt, Cap
<1>2. CASE Begin(p)
  <2>1. UNCHANGED <<inflight, quota, lock>>
    BY <1>2 DEF Begin, Inside, PublishBegin
  <2>2. link' = "reset" => lock' = Free
    BY <1>1, <2>1 DEF Windowed
  <2>3. QED BY <1>1, <2>1, <2>2, QuietWindow
<1>3. CASE Enqueue(p)
  <2>1. /\ pubPc[p] = "queue" /\ UNCHANGED quota /\ link # "reset"
        /\ inflight' = Append(inflight, draft[p])
    BY <1>3 DEF Enqueue, Inside, PublishQueue, SendsSucceed
  <2>2. draft[p] \in Message /\ draft[p].state = "invalid"
    <3>1. draft[p] \in Message \cup {NoDraft} /\ draft[p] # NoDraft
      BY <2>1 DEF Underlying, Identity, Basic, TypeOK
    <3>2. QED BY <3>1 DEF Agreement, DraftsNew, Drafting
  <2>3. PICK n \in Nat : SentUpTo(n) /\ (link # "down" => quota + n <= Cap + Debt)
    BY DEF Windowed
  <2>4. SentUpTo(n)'
    BY <2>1, <2>2, <2>3, SentAppend
  <2>5. quota \in Nat /\ Debt \in Nat /\ Cap \in Nat
    BY WindowFacts
  <2>6. limit' = FALSE
    BY <1>1 DEF Windowed
  <2>7. QED BY <1>1, <2>1, <2>3, <2>4, <2>5, <2>6, WindowedNext
<1>4. CASE Release(p)
  <2>1. (ReleaseNext \/ ReleaseFails \/ ReleaseEnds) /\ lock = p
    BY <1>4 DEF Release, Inside, PublishRelease, PublishReturn
  <2>2. lock # Free
    BY <2>1, ThreadsAssumption
  <2>3. QED BY <1>1, <2>1, <2>2, PassWindow
<1>5. QED BY <1>2, <1>3, <1>4
\* The packets of the broker: the CONNACK refills the quota once on a connection.
LEMMA ReceiveWindow ==
  ASSUME Underlying, MidsApart, Agreement, SteadyBroker, SendsSucceed, Windowed, Receive
  PROVE  Windowed'
<1> DEFINE reply == Head(toClient)
<1>1. /\ toClient # <<>> /\ UNCHANGED <<link, lock>>
      /\ \/ reply.type = "CONNACK" /\ ConnackQuota
         \/ AckCredit(reply.mid, 1) \/ AckCredit(reply.mid, 2)
         \/ reply.type = "PUBREC" /\ Pubrec(reply.mid)
  BY DEF Receive, ConnackQuota, AckCredit, Pubrec, PubrecRejected, SteadyBroker
<1>2. ReplyAgrees(reply)
  <2>1. reply \in ToSet(toClient)
    BY <1>1, TailElements DEF Underlying, SessionTypes
  <2>2. QED BY <2>1 DEF Agreement
<1> HIDE DEF reply
<1>3. PICK n \in Nat : SentUpTo(n) /\ (link # "down" => quota + n <= Cap + Debt)
  BY DEF Windowed
<1>4. /\ quota \in Nat /\ SendMaximum \in Nat /\ maximum = SendMaximum /\ limit = FALSE
      /\ link' = "reset" => lock' = Free
  BY <1>1, QuotaFacts DEF Windowed
<1>5. CASE reply.type = "CONNACK" /\ ConnackQuota
  <2>1. /\ task = Idle /\ task' = Task("connack", 0, 0, 0) /\ UNCHANGED inflight
        /\ quota' = SendMaximum \/ quota' = quota
    BY <1>4, <1>5 DEF ConnackQuota, Receiving, SteadyBroker
  <2>2. link = "connected"
    BY <1>2, <1>5 DEF ReplyAgrees
  <2>3. /\ Debt = 0 /\ Debt' = 0 /\ Cap = SendMaximum /\ Cap' = 2 * SendMaximum
    BY <1>1, <2>1, <2>2 DEF Debt, Cap, Idle, Task
  <2>4. SentUpTo(n)'
    BY <1>3, <2>1 DEF SentUpTo, Entries
  <2>5. limit' = FALSE
    BY <1>4, <1>5, ChoiceAssumption DEF ConnackQuota, SendsSucceed
  <2>6. /\ quota + n <= 2 * SendMaximum + 0
        /\ SendMaximum + n <= 2 * SendMaximum + 0
        /\ 2 * SendMaximum \in Nat
    BY <1>3, <1>4, <2>2, <2>3
  <2>7. QED BY <1>4, <2>1, <2>3, <2>4, <2>5, <2>6, WindowedNext
<1>6. ASSUME NEW qos \in {1, 2}, AckCredit(reply.mid, qos)
      PROVE  Windowed'
  <2>1. /\ task = Idle /\ task' = Task("delete", reply.mid, qos, 0) /\ link = "active"
        /\ quota' = IF quota < SendMaximum THEN quota + 1 ELSE quota
        /\ UNCHANGED <<inflight, limit>>
    BY <1>4, <1>6 DEF AckCredit, Receiving, Credited
  <2>2. Debt = 0 /\ Debt' = 1 /\ Cap = 2 * SendMaximum /\ Cap' = 2 * SendMaximum
    BY <1>1, <2>1 DEF Debt, Cap, Idle, Task
  <2>3. SentUpTo(n)'
    BY <1>3, <2>1 DEF SentUpTo, Entries
  <2>4. PICK q \in Nat : q = IF quota < SendMaximum THEN quota + 1 ELSE quota
    BY <1>4
  <2>5. q + n <= 2 * SendMaximum + 1 /\ 2 * SendMaximum \in Nat
    BY <1>3, <1>4, <2>1, <2>2, <2>4
  <2>6. quota' = q /\ limit' = FALSE
    BY <1>4, <2>1, <2>4
  <2>7. QED BY <1>4, <2>2, <2>3, <2>5, <2>6, WindowedNext
<1>7. CASE reply.type = "PUBREC" /\ Pubrec(reply.mid)
  <2>1. UNCHANGED <<task, quota, limit>> /\ link = "active"
    BY <1>7 DEF Pubrec
  <2>2. Debt' = Debt /\ Cap' = Cap
    BY <1>1, <2>1 DEF Debt, Cap
  <2>3. /\ Len(inflight') = Len(inflight)
        /\ \A i \in Entries : inflight'[i].state # "invalid" <=> inflight[i].state # "invalid"
    BY <1>2, <1>3, <1>7, PubrecKeepsStates
  <2>4. QED BY <1>4, <2>1, <2>2, <2>3, QuietWindow
<1>8. QED BY <1>1, <1>5, <1>6, <1>7

\* The handlers of Loop.
LEMMA HandleWindow ==
  ASSUME Underlying, MidsApart, Agreement, Reckoned, Windowed, Handle
  PROVE  Windowed'
<1>1. /\ task.op \in {"delete", "release", "releasing", "retry", "connack"}
      /\ task.op # "connack" => link = "active" /\ link' = "active"
      /\ UNCHANGED limit
  BY DEF Handle, Inside, AckDelete, CreditUnlocked, AckLock, AckRelease, AckReturn,
         ConnackAccept, RetryStep, RetryReturn, Agreement, TaskAgrees, Reckoned
<1>2. CASE AckDelete
  <2>1. /\ task.op = "delete" /\ task' = Task("release", 0, 0, 0)
        /\ UNCHANGED quota
    BY <1>2 DEF AckDelete
  <2>2. Debt = 1 /\ Debt' = 0 /\ Cap' = Cap
    BY <1>1, <2>1 DEF Debt, Cap, Task
  <2>3. PICK n \in Nat : SentUpTo(n) /\ (link # "down" => quota + n <= Cap + Debt)
    BY DEF Windowed
  <2>4. n - 1 \in Nat /\ SentUpTo(n - 1)'
    BY <1>2, <2>3, DeleteSent
  <2>5. quota \in Nat /\ Cap \in Nat
    BY WindowFacts
  <2>6. quota + (n - 1) <= Cap + 0
    BY <1>1, <2>1, <2>2, <2>3, <2>5
  <2>7. limit' = FALSE /\ link' # "reset"
    BY <1>1, <2>1 DEF Windowed
  <2>8. QED BY <2>1, <2>2, <2>4, <2>5, <2>6, <2>7, WindowedNext
<1>3. CASE CreditUnlocked
  BY <1>1, <1>3 DEF CreditUnlocked
<1>4. CASE AckRelease \/ AckReturn
  <2>1. /\ ReleaseNext \/ ReleaseFails \/ ReleaseEnds
        /\ lock # Free /\ UNCHANGED link
    BY <1>4, ThreadsAssumption DEF AckRelease, AckReturn
  <2>2. task.op = "releasing" /\ (task' = task \/ task' = Idle)
    BY <1>4 DEF AckRelease, AckReturn
  <2>3. Debt' = Debt /\ Cap' = Cap
    BY <1>1, <2>2 DEF Debt, Cap, Idle, Task
  <2>4. QED BY <1>1, <2>1, <2>3, PassWindow
<1>5. CASE AckLock \/ ConnackAccept \/ RetryReturn \/ RetryStep
  <2>1. UNCHANGED quota /\ Debt' = Debt /\ Cap' = Cap /\ link # "down" /\ link' # "reset"
    <3>1. CASE AckLock
      BY <1>1, <3>1 DEF AckLock, Debt, Cap, Task
    <3>2. CASE ConnackAccept
      BY <3>2 DEF ConnackAccept, Debt, Cap, Task, Agreement, TaskAgrees
    <3>3. CASE RetryReturn
      BY <1>1, <3>3 DEF RetryReturn, Debt, Cap, Task, Idle
    <3>4. CASE RetryStep
      <4>1. task.op = "retry" /\ task' = [task EXCEPT !.n = @ + 1] /\ task \in Tasks
        BY <3>4 DEF RetryStep, Underlying, Identity, Basic, TypeOK
      <4>2. task'.op = "retry"
        BY <4>1 DEF Tasks
      <4>3. QED BY <1>1, <3>4, <4>1, <4>2 DEF RetryStep, Debt, Cap
    <3>5. QED BY <1>5, <3>1, <3>2, <3>3, <3>4
  <2>2. /\ Len(inflight') = Len(inflight)
        /\ \A i \in Entries : inflight'[i].state # "invalid" <=> inflight[i].state # "invalid"
    BY <1>5, RetryKeepsStates DEF AckLock, ConnackAccept, RetryReturn
  <2>3. QED BY <1>1, <2>1, <2>2, QuietWindow
<1>6. QED BY <1>2, <1>3, <1>4, <1>5 DEF Handle, Inside

\* message__reconnect_reset charges the quota for what will be sent again.
LEMMA ResetWindow ==
  ASSUME Underlying, SteadyBroker, Reckoned, Windowed, Reset
  PROVE  Windowed'
<1>1. /\ task = Idle /\ lock = Free /\ UNCHANGED <<task, pubPc, lock, limit>>
      /\ link' = "reset"
      /\ quota' = IF Len(inflight) <= SendMaximum THEN SendMaximum - Len(inflight) ELSE 0
  BY QuotaFacts DEF Reset, ReconnectReset, QuotaAfterReset
<1>2. Debt = 0 /\ Owed = 0 /\ Fresh = 0 /\ Debt' = 0 /\ Cap' = SendMaximum
  <2>1. \A r \in Publishers : pubPc[r] # "release"
    BY <1>1, ThreadsAssumption DEF Underlying, Identity, Basic, MutexHeld
  <2>2. Fresh = 0
    BY <2>1 DEF Fresh
  <2>3. QED BY <1>1, <2>2 DEF Debt, Owed, Cap, Idle, Task
<1>3. PICK n \in Nat : SentUpTo(n) /\ Balance(n, Len(inflight), quota, 0, 0, 0)
  BY <1>2 DEF Reckoned
<1>4. Len(inflight) \in Nat /\ SendMaximum \in Nat /\ n <= Len(inflight)
  BY <1>3, QuotaFacts DEF SentUpTo
<1>5. Len(inflight) = n \/ n >= SendMaximum
  BY <1>3, <1>4 DEF Balance
<1>6. PICK m \in Nat : m = IF Len(inflight) <= SendMaximum THEN Len(inflight) ELSE SendMaximum
  BY <1>4
<1>7. SentUpTo(m)'
  BY <1>3, <1>5, <1>6, SentReset
<1>8. PICK q \in Nat :
        q = IF Len(inflight) <= SendMaximum THEN SendMaximum - Len(inflight) ELSE 0
  <2>1. Len(inflight) <= SendMaximum => SendMaximum - Len(inflight) \in Nat
    BY <1>4
  <2>2. QED BY <2>1
<1>9. q + m <= SendMaximum + 0
  BY <1>4, <1>6, <1>8
<1>10. quota' = q /\ limit' = FALSE
  BY <1>1, <1>8 DEF Windowed
<1>11. QED BY <1>1, <1>2, <1>4, <1>7, <1>9, <1>10, WindowedNext

\* The steps that leave the list and the quota alone.
LEMMA ConnectionWindow ==
  ASSUME Underlying, Windowed,
         \/ BrokerTakes \/ BrokerDrops \/ LoseConnection
         \/ Inside(SocketOpens) \/ Inside(SendConnect) \/ UNCHANGED sessionVars
  PROVE  Windowed'
<1>1. UNCHANGED <<inflight, quota, limit, lock>>
  BY DEF BrokerTakes, BrokerConnect, BrokerPublish, BrokerPubrel, Transmit, BrokerDrops,
         LoseConnection, Lose, ConnackRefuse, SocketFails, Inside, SocketOpens, SendConnect
<1>2. \/ UNCHANGED <<task, link>>
      \/ link' = "down" /\ (task' = task \/ (task.op = "connack" /\ task' = Idle))
      \/ UNCHANGED task /\ task = Idle /\ link \in {"reset", "open"}
           /\ link' \in {"open", "connected"}
  BY DEF BrokerTakes, BrokerConnect, BrokerPublish, BrokerPubrel, Transmit, BrokerDrops,
         LoseConnection, Lose, ConnackRefuse, SocketFails, Inside, SocketOpens, SendConnect,
         Close
<1>3. /\ Debt' = Debt
      /\ link' = "down" \/ Cap' = Cap
      /\ link' = "reset" => lock' = Free
  BY <1>1, <1>2 DEF Debt, Cap, Idle, Task, Windowed
<1>4. CASE link' = "down" \/ link # "down"
  BY <1>1, <1>3, <1>4, QuietWindow
<1>5. CASE link = "down" /\ link' # "down"
  BY <1>2, <1>5
<1>6. QED BY <1>4, <1>5

\* There is no connection at first.
LEMMA WindowedInit == SessionInit => Windowed
<1> SUFFICES ASSUME SessionInit PROVE Windowed
  OBVIOUS
<1>1. inflight = <<>> /\ Len(inflight) = 0 /\ link = "down" /\ limit = FALSE
  BY DEF SessionInit, Init
<1>2. SentUpTo(0)
  BY <1>1 DEF SentUpTo, Entries
<1>3. QED BY <1>1, <1>2 DEF Windowed

\* Every step keeps within the window.
LEMMA WindowedStep ==
  ASSUME SteadyBroker, SendsSucceed
  PROVE  /\ Underlying /\ MidsApart /\ Agreement /\ Reckoned /\ Windowed
         /\ [SessionNext]_sessionVars
         => Windowed'
<1> SUFFICES ASSUME Underlying, MidsApart, Agreement, Reckoned, Windowed,
                    [SessionNext]_sessionVars
             PROVE  Windowed'
  OBVIOUS
<1>1. CASE \E p \in Publishers : Begin(p) \/ Enqueue(p) \/ Release(p)
  BY <1>1, PublishersWindow
<1>2. CASE Receive
  BY <1>2, ReceiveWindow
<1>3. CASE Handle
  BY <1>3, HandleWindow
<1>4. CASE Dial
  BY <1>4, ResetWindow, ConnectionWindow DEF Dial
<1>5. CASE BrokerTakes \/ BrokerDrops \/ LoseConnection \/ UNCHANGED sessionVars
  BY <1>5, ConnectionWindow
<1>6. QED BY <1>1, <1>2, <1>3, <1>4, <1>5 DEF SessionNext
-----------------------------------------------------------------------------
(* The theorems                                                            *)

\* What is in flight is what has been sent, without the message whose acknowledgement Loop
\* holds.
LEMMA InFlightCount ==
  ASSUME Underlying, MidsApart, Agreement, NEW n \in Nat, SentUpTo(n)
  PROVE  Cardinality(InFlight) = n - Debt
<1>1. /\ DOMAIN inflight = Entries /\ Len(inflight) \in Nat /\ n <= Len(inflight)
      /\ \A i, j \in Entries : inflight[i] = inflight[j] => i = j
  BY ListedFacts DEF SentUpTo
<1>2. {i \in Entries : inflight[i].state # "invalid"} = 1 .. n
  BY <1>1 DEF SentUpTo, Entries
<1>3. IsFiniteSet(1 .. n) /\ Cardinality(1 .. n) = n
  <2>1. n \in Int /\ 1 \in Int
    OBVIOUS
  <2>2. IsFiniteSet(1 .. n) /\ Cardinality(1 .. n) = IF 1 > n THEN 0 ELSE n - 1 + 1
    BY <2>1, FS_Interval, Zenon
  <2>3. QED BY <2>2
<1>4. CASE task.op # "delete"
  <2>1. InFlight = 1 .. n
    BY <1>1, <1>2, <1>4 DEF InFlight
  <2>2. QED BY <1>3, <1>4, <2>1 DEF Debt
<1>5. CASE task.op = "delete"
  <2>1. PICK m \in Listed : m.mid = task.mid /\ m.state \in Published \cup Released
    BY <1>5 DEF Agreement, TaskAgrees, InPublish, InRelease
  <2>2. m.state # "invalid"
    BY <2>1 DEF Published, Released
  <2>3. PICK k \in Entries : FirstWith(k, task.mid)
    <3>1. Finds(m.mid, m.qos)
      BY ListedFound
    <3>2. QED BY <1>1, <2>1, <3>1 DEF Finds
  <2>4. \A i : FirstWith(i, task.mid) => i \in Entries /\ inflight[i] = m
    BY <2>1, <2>2, FoundSent
  <2>5. \A i \in Entries : FirstWith(i, task.mid) <=> i = k
    BY <1>1, <2>3, <2>4
  <2>6. InFlight = (1 .. n) \ {k}
    BY <1>1, <1>2, <1>5, <2>5 DEF InFlight
  <2>7. k \in 1 .. n
    BY <1>2, <2>2, <2>3, <2>4
  <2>8. Cardinality((1 .. n) \ {k}) = n - 1
    BY <1>3, <2>7, FS_RemoveElement
  <2>9. QED BY <1>5, <2>6, <2>8 DEF Debt
<1>6. QED BY <1>4, <1>5

\* The reckoning holds in every reachable state.
THEOREM ReckonedAlways ==
  ASSUME SteadyBroker
  PROVE  SessionSpec /\ []MidsApart => []Reckoned
<1>1. Underlying /\ MidsApart /\ Agreement /\ Reckoned /\ [SessionNext]_sessionVars
        => Reckoned'
  BY ReckonedStep
<1>2. QED BY <1>1, ReckonedInit, UnderlyingAlways, AgreementAlways, PTL DEF SessionSpec

\* No unit of the send quota leaks: what is not in flight can be sent, over lost connections,
\* resets, sends that fail and the CONNACK's store of the quota without the mutex.
THEOREM QuotaNeverLeaks ==
  ASSUME SteadyBroker
  PROVE  SessionSpec /\ []MidsApart => []NoQuotaLeak
<1>1. Underlying /\ MidsApart /\ Agreement /\ Reckoned => NoQuotaLeak
  <2> SUFFICES ASSUME Underlying, MidsApart, Agreement, Reckoned
               PROVE  quota + Cardinality(InFlight) >= maximum
    BY DEF NoQuotaLeak
  <2>1. PICK n \in Nat :
          SentUpTo(n) /\ Balance(n, Len(inflight), quota, Debt, Owed, Fresh)
    BY DEF Reckoned
  <2>2. Cardinality(InFlight) = n - Debt
    BY <2>1, InFlightCount
  <2>3. quota \in Nat /\ SendMaximum \in Nat /\ maximum = SendMaximum /\ Debt \in Nat
    BY QuotaFacts, Flags
  <2>4. QED BY <2>1, <2>2, <2>3 DEF Balance
<1>2. QED BY <1>1, UnderlyingAlways, AgreementAlways, ReckonedAlways, PTL

\* Messages leave in the order of the list, also after message__reconnect_reset has put
\* some of them back among those that wait.
THEOREM ReleasedInOrder ==
  ASSUME SteadyBroker
  PROVE  SessionSpec /\ []MidsApart => []FifoRelease
<1>1. Underlying /\ Reckoned => FifoRelease
  <2> SUFFICES ASSUME Underlying, Reckoned,
                      NEW i \in DOMAIN inflight, NEW j \in DOMAIN inflight,
                      i < j, inflight[i].state = "invalid"
               PROVE  inflight[j].state = "invalid"
    BY DEF FifoRelease
  <2>1. PICK n \in Nat : SentUpTo(n)
    BY DEF Reckoned
  <2>2. i \in Entries /\ j \in Entries /\ i \in Nat /\ j \in Nat
    BY QuotaFacts DEF Entries
  <2>3. ~(i <= n)
    BY <2>1, <2>2 DEF SentUpTo
  <2>4. ~(j <= n)
    BY <2>2, <2>3
  <2>5. QED BY <2>1, <2>2, <2>4 DEF SentUpTo
<1>2. QED BY <1>1, UnderlyingAlways, ReckonedAlways, PTL

\* The window holds in every reachable state.
THEOREM WindowedAlways ==
  ASSUME SteadyBroker, SendsSucceed
  PROVE  SessionSpec /\ []MidsApart => []Windowed
<1>1. /\ Underlying /\ MidsApart /\ Agreement /\ Reckoned /\ Windowed
      /\ [SessionNext]_sessionVars
      => Windowed'
  BY WindowedStep
<1>2. QED
  BY <1>1, WindowedInit, UnderlyingAlways, AgreementAlways, ReckonedAlways, PTL
     DEF SessionSpec

\* The refill of the CONNACK puts at most twice the maximum in flight, however often the
\* connection is lost: it does not add up over connections.
THEOREM DoubleAtMost ==
  ASSUME SteadyBroker, SendsSucceed
  PROVE  SessionSpec /\ []MidsApart => []InFlightAtMostDouble
<1>1. Underlying /\ MidsApart /\ Agreement /\ Windowed => InFlightAtMostDouble
  <2> SUFFICES ASSUME Underlying, MidsApart, Agreement, Windowed, link = "active"
               PROVE  Cardinality(InFlight) <= 2 * LargestMaximum
    BY DEF InFlightAtMostDouble
  <2>1. PICK n \in Nat : SentUpTo(n) /\ quota + n <= Cap + Debt
    BY DEF Windowed
  <2>2. Cardinality(InFlight) = n - Debt
    BY <2>1, InFlightCount
  <2>3. quota \in Nat /\ SendMaximum \in Nat /\ Debt \in Nat /\ Cap = 2 * SendMaximum
    BY WindowFacts DEF Cap
  <2>4. LargestMaximum = SendMaximum
    <3>1. Maximums = {SendMaximum}
      BY DEF SteadyBroker, Maximums
    <3>2. Max({SendMaximum}) = SendMaximum
      BY <2>3 DEF Max
    <3>3. QED BY <3>1, <3>2 DEF LargestMaximum
  <2>5. QED BY <2>1, <2>2, <2>3, <2>4
<1>2. QED BY <1>1, UnderlyingAlways, AgreementAlways, WindowedAlways, PTL

=============================================================================
