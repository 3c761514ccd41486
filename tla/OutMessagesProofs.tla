------------------------- MODULE OutMessagesProofs -------------------------
(***************************************************************************)
(* Proofs about OutMessages, for any number of publishers, identifiers,    *)
(* messages and quotas and for a broker that sends anything at any time.   *)
(***************************************************************************)
EXTENDS OutMessages, SequenceLemmas, TLAPS

-----------------------------------------------------------------------------
(* Messages, packets and tasks                                             *)

\* A change of state keeps a message one, and its identity.
LEMMA NewState ==
  ASSUME NEW m \in Message, NEW st \in States
  PROVE  LET n == [m EXCEPT !.state = st] IN
           /\ n \in Message
           /\ n.id = m.id /\ n.mid = m.mid /\ n.qos = m.qos
  BY DEF Message

\* Setting the DUP flag keeps a message one, and its identity and state.
LEMMA AgainType ==
  ASSUME NEW m \in Message
  PROVE  /\ Again(m) \in Message
         /\ Again(m).id = m.id /\ Again(m).mid = m.mid /\ Again(m).qos = m.qos
  BY DEF Message, Again

\* message__reconnect_reset keeps a message one, and its identity.
LEMMA ResetMessageType ==
  ASSUME NEW m \in Message
  PROVE  /\ ResetMessage(m) \in Message
         /\ ResetMessage(m).id = m.id /\ ResetMessage(m).mid = m.mid
<1> DEFINE st == IF m.qos = 1 THEN "publish_qos1"
                 ELSE CASE m.state = "wait_for_pubrec"  -> "publish_qos2"
                        [] m.state = "wait_for_pubcomp" -> "resend_pubrel"
                        [] OTHER                        -> m.state
<1>1. m.state \in States
  BY DEF Message
<1>2. st \in States
  BY <1>1 DEF States
<1>3. ResetMessage(m) = [m EXCEPT !.state = st]
  BY DEF ResetMessage, Message
<1> HIDE DEF st
<1>4. QED BY <1>2, <1>3, NewState

\* The state a message takes when message__release_to_inflight sends it.
LEMMA AwaitingType ==
  ASSUME NEW m \in Message
  PROVE  Awaiting(m.qos) \in States
  BY DEF Awaiting, States

\* send__publish builds a packet from a message.
LEMMA PublishType ==
  ASSUME NEW m \in Message
  PROVE  Publish(m) \in Packet
  BY DEF Message, Publish, Packet

\* send__pubrel builds a packet from an identifier in use.
LEMMA PubrelType ==
  ASSUME NEW mid \in Mids
  PROVE  Pubrel(mid) \in Packet
  BY DEF Pubrel, Packet

\* send__connect builds a packet.
LEMMA ConnectType == Connect \in Packet
  BY DEF Connect, Packet

\* What packet__queue appends and what is sent keep the queue one of packets.
LEMMA SendType ==
  ASSUME wire \in Seq(Packet), NEW packet \in Packet, Send(packet)
  PROVE  wire' \in Seq(Packet)
  BY AppendProperties DEF Send

\* What a handler of Loop remembers is a task.
LEMMA TaskType ==
  ASSUME NEW op \in TaskOps, NEW mid \in 0..MaxMid, NEW qos \in 0..2, NEW n \in Nat
  PROVE  /\ Task(op, mid, qos, n) \in Tasks
         /\ Task(op, mid, qos, n).op = op
  BY DEF Task, Tasks

\* Loop outside a handler.
LEMMA IdleType == Idle \in Tasks /\ Idle.op = "idle"
<1>1. 0 \in 0..MaxMid
  BY BoundsAssumption
<1>2. QED BY <1>1, TaskType DEF Idle, TaskOps

\* mosquitto__mid_generate never gives 0 and never passes 65535 (MaxMid).
LEMMA NextMidType ==
  ASSUME lastMid \in 0..MaxMid
  PROVE  NextMid \in Mids
  BY BoundsAssumption DEF NextMid, Mids

\* What Accounting says of the quota: it is below one of the values the maximum can have
Bounded(q) == \E m \in Maximums : q <= m

\* Every value of inflight_maximum is a natural number.
LEMMA MaximumsType == Maximums \subseteq Nat
  BY QuotaAssumption DEF Maximums

\* The increment and the decrement of the send quota keep it a natural number, and the
\* increment keeps it within any bound that the maximum respects.
LEMMA QuotaType ==
  ASSUME NEW q \in Nat, maximum \in Maximums
  PROVE  /\ Credited(q) \in Nat /\ Charged(q) \in Nat /\ Charged(q) <= q
         /\ Bounded(q) => Bounded(Credited(q))
<1>1. maximum \in Nat
  BY MaximumsType
<1>2. Credited(q) \in Nat /\ Charged(q) \in Nat /\ Charged(q) <= q
  BY <1>1 DEF Credited, Charged
<1>3. Credited(q) = q \/ Credited(q) <= maximum
  BY <1>1 DEF Credited
<1>4. QED BY <1>2, <1>3 DEF Bounded

\* A quota that is not larger than a bounded one is bounded too.
LEMMA LowerBounded ==
  ASSUME NEW q \in Nat, NEW n \in Nat, n <= q, Bounded(q)
  PROVE  Bounded(n)
  BY MaximumsType DEF Bounded

-----------------------------------------------------------------------------
(* Types                                                                   *)

USE DEF vars, listVars, quotaVars, pubVars

\* mosquitto_reinitialise leaves every variable in its type.
LEMMA TypeInit == Init => TypeOK
<1> SUFFICES ASSUME Init PROVE TypeOK
  OBVIOUS
<1> USE BoundsAssumption, QuotaAssumption DEF Init
<1>1. draft \in [Publishers -> Message \cup {NoDraft}]
  OBVIOUS
<1>2. task \in Tasks
  BY IdleType
<1>3. notified \in [Ids -> Nat]
  OBVIOUS
<1>4. inflight \in Seq(Message) /\ wire \in Seq(Packet)
  OBVIOUS
<1>5. /\ pubPc \in [Publishers -> {"idle", "queue", "release", "sent"}]
      /\ \A p \in Publishers : pubPc[p] = "queue" <=> draft[p] # NoDraft
  OBVIOUS
<1>6. limit \in BOOLEAN
  OBVIOUS
<1>7. /\ queueLen \in Nat /\ quota \in Nat /\ maximum \in Maximums /\ lastMid \in 0..MaxMid
      /\ lock \in Publishers \cup {Loop, Free}
      /\ link \in Links /\ issued \in 0..MaxIssue /\ accepted \subseteq Ids
  BY DEF Links, Maximums
<1> HIDE DEF Init
<1>8. QED BY <1>1, <1>2, <1>3, <1>4, <1>5, <1>6, <1>7 DEF TypeOK

\* The list keeps its messages: their states and DUP flags may change.
Kept ==
  /\ inflight' \in Seq(Message)
  /\ Len(inflight') = Len(inflight)
  /\ \A i \in 1 .. Len(inflight) :
       inflight'[i].id = inflight[i].id /\ inflight'[i].mid = inflight[i].mid

\* A list that does not change keeps its messages.
LEMMA KeptUnchanged ==
  ASSUME inflight \in Seq(Message), UNCHANGED inflight
  PROVE  Kept
  BY DEF Kept

\* Replacing an entry by one of the same identity keeps the messages of the list.
LEMMA KeptReplace ==
  ASSUME inflight \in Seq(Message),
         NEW i \in DOMAIN inflight, NEW e \in Message,
         e.id = inflight[i].id, e.mid = inflight[i].mid,
         inflight' = [inflight EXCEPT ![i] = e]
  PROVE  Kept
<1>1. DOMAIN inflight = 1 .. Len(inflight)
  BY LenProperties
<1>2. QED BY <1>1, ReplaceEntry DEF Kept

\* An entry of the list is a message.
LEMMA Entry ==
  ASSUME inflight \in Seq(Message), NEW i \in DOMAIN inflight
  PROVE  inflight[i] \in Message /\ inflight[i].mid \in Mids
                                 /\ inflight[i].id \in Ids
<1>1. inflight[i] \in Message
  BY LenProperties, ElementOfSeq
<1>2. QED BY <1>1 DEF Message

\* Changing the state of one entry keeps the messages of the list.
LEMMA KeptState ==
  ASSUME inflight \in Seq(Message),
         NEW i \in DOMAIN inflight, NEW st \in States,
         inflight' = [inflight EXCEPT ![i].state = st]
  PROVE  Kept
<1> DEFINE e == [inflight[i] EXCEPT !.state = st]
<1>1. e \in Message /\ e.id = inflight[i].id /\ e.mid = inflight[i].mid
  BY Entry, NewState
<1>2. inflight' = [inflight EXCEPT ![i] = e]
  OBVIOUS
<1> HIDE DEF e
<1>3. QED BY <1>1, <1>2, KeptReplace

\* One iteration, or the end, of message__release_to_inflight.
LEMMA ReleaseType ==
  ASSUME inflight \in Seq(Message), wire \in Seq(Packet), quota \in Nat, maximum \in Maximums,
         ReleaseNext \/ ReleaseFails \/ ReleaseEnds
  PROVE  /\ Kept
         /\ wire' \in Seq(Packet)
         /\ quota' \in Nat
         /\ quota' <= quota
<1>1. ASSUME NEW i \in DOMAIN inflight, MarkSent(i) PROVE Kept
  <2>1. Awaiting(inflight[i].qos) \in States
    BY Entry, AwaitingType
  <2>2. QED BY <1>1, <2>1, KeptState DEF MarkSent
<1>2. CASE ReleaseNext
  <2>1. PICK i \in DOMAIN inflight : MarkSent(i) /\ Send(Publish(inflight[i]))
    BY <1>2 DEF ReleaseNext
  <2>2. wire' \in Seq(Packet)
    BY <2>1, Entry, PublishType, SendType
  <2>3. quota' = Charged(quota)
    BY <1>2 DEF ReleaseNext
  <2>4. QED BY <1>1, <2>1, <2>2, <2>3, QuotaType
<1>3. CASE ReleaseFails
  BY <1>1, <1>3 DEF ReleaseFails
<1>4. CASE ReleaseEnds
  BY <1>4, KeptUnchanged DEF ReleaseEnds
<1>5. QED BY <1>2, <1>3, <1>4

\* The reset keeps every message on the list.
LEMMA ResetType ==
  ASSUME inflight \in Seq(Message), maximum \in Maximums, inflight' = ResetList
  PROVE  Kept
<1>1. DOMAIN inflight = 1 .. Len(inflight) /\ Len(inflight) \in Nat
  BY LenProperties
<1>2. ASSUME NEW i \in 1 .. Len(inflight)
      PROVE  /\ inflight'[i] \in Message
             /\ inflight'[i].id = inflight[i].id /\ inflight'[i].mid = inflight[i].mid
  <2>1. CASE i <= maximum
    <3>1. inflight'[i] = ResetMessage(inflight[i])
      BY <1>1, <2>1 DEF ResetList
    <3>2. QED BY <1>1, <3>1, Entry, ResetMessageType
  <2>2. CASE ~(i <= maximum)
    <3>1. inflight'[i] = [inflight[i] EXCEPT !.state = "invalid"]
      BY <1>1, <2>2 DEF ResetList
    <3>2. "invalid" \in States
      BY DEF States
    <3>3. QED BY <1>1, <3>1, <3>2, Entry, NewState
  <2>3. QED BY <2>1, <2>2
<1>3. inflight' = [i \in 1 .. Len(inflight) |-> inflight'[i]]
  BY <1>1 DEF ResetList
<1>4. inflight' \in Seq(Message)
  BY <1>1, <1>2, <1>3, IsASeq
<1>5. Len(inflight') = Len(inflight)
  BY <1>1, <1>3, <1>4, LenProperties
<1>6. QED BY <1>2, <1>4, <1>5 DEF Kept

\* message__remove takes an entry off the list.
LEMMA UnlinkType ==
  ASSUME inflight \in Seq(Message), queueLen = Len(inflight),
         NEW i \in DOMAIN inflight, Unlink(i)
  PROVE  /\ inflight' \in Seq(Message)
         /\ queueLen' \in Nat /\ queueLen' = Len(inflight')
<1>1. i \in 1 .. Len(inflight) /\ Len(inflight) \in Nat
  BY LenProperties
<1>2. inflight' \in Seq(Message) /\ Len(inflight') = Len(inflight) - 1
  BY RemoveEntry DEF Unlink
<1>3. queueLen' = queueLen - 1
  BY DEF Unlink
<1>4. QED BY <1>1, <1>2, <1>3

\* What a call of on_publish_v5 adds to the count.
LEMMA NotifiedType ==
  ASSUME inflight \in Seq(Message), notified \in [Ids -> Nat],
         NEW i \in DOMAIN inflight,
         notified' = [notified EXCEPT ![inflight[i].id] = @ + 1]
  PROVE  notified' \in [Ids -> Nat]
  BY Entry

-----------------------------------------------------------------------------
(* Type correctness, the mutex and the accounting are inductive together:  *)
(* queue_len stays a natural number because it is the length of the list,  *)
(* and the quota that handle__pubrec has read for its unlocked increment   *)
(* is bounded like the quota itself when it is written.                    *)

Snapshot == task.op = "credit" => Bounded(task.n)

Basic == TypeOK /\ MutexHeld /\ Accounting /\ Snapshot

\* The first state satisfies Basic.
LEMMA BasicInit == Init => Basic
<1> SUFFICES ASSUME Init PROVE Basic
  OBVIOUS
<1>1. TypeOK
  BY TypeInit
<1>2. MutexHeld
  BY ThreadsAssumption, IdleType DEF Init, MutexHeld
<1>3. Accounting
  BY QuotaAssumption DEF Init, Accounting, Maximums
<1>4. Snapshot
  BY IdleType DEF Init, Snapshot
<1>5. QED BY <1>1, <1>2, <1>3, <1>4 DEF Basic

\* mosquitto__mid_generate keeps Basic.
LEMMA PublishBeginBasic ==
  ASSUME Basic, NEW p \in Publishers, PublishBegin(p)
  PROVE  Basic'
<1> USE DEF Basic, PublishBegin
<1>1. PICK qos \in {1, 2}, big \in Sizes :
        draft' = [draft EXCEPT ![p] =
                    [id |-> issued + 1, mid |-> NextMid, qos |-> qos, big |-> big,
                     state |-> "invalid", dup |-> FALSE]]
  OBVIOUS
<1> DEFINE d == [id |-> issued + 1, mid |-> NextMid, qos |-> qos, big |-> big,
                 state |-> "invalid", dup |-> FALSE]
<1>2. issued' \in Ids /\ NextMid \in Mids
  BY BoundsAssumption, NextMidType DEF TypeOK, Ids
<1>3. d \in Message
  BY <1>2, ChoiceAssumption DEF Message, States
<1>4. d # NoDraft
  BY <1>2 DEF Ids, NoDraft
<1> HIDE DEF d
<1>5. /\ draft' \in [Publishers -> Message \cup {NoDraft}]
      /\ pubPc' \in [Publishers -> {"idle", "queue", "release", "sent"}]
      /\ \A q \in Publishers : pubPc'[q] = "queue" <=> draft'[q] # NoDraft
  BY <1>1, <1>3, <1>4 DEF TypeOK, d
<1>6. TypeOK'
  BY <1>2, <1>5 DEF TypeOK, Ids, Mids
<1>7. MutexHeld'
  BY DEF TypeOK, MutexHeld
<1>8. Accounting' /\ Snapshot'
  BY DEF Accounting, Snapshot, Bounded
<1>9. QED BY <1>6, <1>7, <1>8

\* An identifier taken by QoS 0, subscribe or unsubscribe keeps Basic.
LEMMA OtherMidBasic ==
  ASSUME Basic, OtherMid
  PROVE  Basic'
<1> USE DEF Basic, OtherMid
<1>1. issued' \in 0..MaxIssue /\ NextMid \in Mids
  BY BoundsAssumption, NextMidType DEF TypeOK
<1>2. TypeOK'
  BY <1>1 DEF TypeOK, Mids
<1>3. MutexHeld' /\ Accounting' /\ Snapshot'
  BY DEF MutexHeld, Accounting, Snapshot, Bounded
<1>4. QED BY <1>2, <1>3

\* message__queue takes the mutex that was free, and counts the entry it appends.
LEMMA PublishQueueBasic ==
  ASSUME Basic, NEW p \in Publishers, PublishQueue(p)
  PROVE  Basic'
<1> USE DEF Basic, PublishQueue, Acquire
<1>1. draft[p] \in Message
  BY DEF TypeOK
<1>2. /\ inflight' \in Seq(Message)
      /\ Len(inflight') = Len(inflight) + 1
  BY <1>1, AppendProperties DEF TypeOK
<1>3. draft[p].id \in Ids
  BY <1>1 DEF Message
<1>4. /\ draft' \in [Publishers -> Message \cup {NoDraft}]
      /\ pubPc' \in [Publishers -> {"idle", "queue", "release", "sent"}]
      /\ \A q \in Publishers : pubPc'[q] = "queue" <=> draft'[q] # NoDraft
  BY DEF TypeOK
<1>5. TypeOK'
  BY <1>2, <1>3, <1>4 DEF TypeOK
<1>6. MutexHeld'
  BY ThreadsAssumption DEF TypeOK, MutexHeld
<1>7. Accounting' /\ Snapshot'
  BY <1>2 DEF Accounting, Snapshot, Bounded
<1>8. QED BY <1>5, <1>6, <1>7

\* A publisher's pass over the list, and its end, keep Basic.
LEMMA PublishReleaseBasic ==
  ASSUME Basic, NEW p \in Publishers, PublishRelease(p) \/ PublishReturn(p)
  PROVE  Basic'
<1> USE DEF Basic
<1>1. /\ Kept /\ wire' \in Seq(Packet)
      /\ quota' \in Nat /\ quota' <= quota
  BY ReleaseType DEF PublishRelease, PublishReturn, TypeOK
<1>2. UNCHANGED <<queueLen, maximum, limit, lastMid, draft, task, link,
                  issued, accepted, notified>>
  BY DEF PublishRelease, PublishReturn
<1>3. /\ pubPc[p] \in {"release", "sent"} /\ lock = p
      /\ \/ UNCHANGED lock /\ pubPc' = [pubPc EXCEPT ![p] = "sent"]
         \/ lock' = Free /\ pubPc' = [pubPc EXCEPT ![p] = "idle"]
  BY DEF PublishRelease, PublishReturn
<1>4. TypeOK'
  <2>1. /\ pubPc' \in [Publishers -> {"idle", "queue", "release", "sent"}]
        /\ \A q \in Publishers : pubPc'[q] = "queue" <=> draft'[q] # NoDraft
        /\ lock' \in Publishers \cup {Loop, Free}
    BY <1>2, <1>3 DEF TypeOK
  <2>2. QED BY <1>1, <1>2, <2>1 DEF TypeOK, Kept
<1>5. MutexHeld'
  BY <1>2, <1>3, ThreadsAssumption DEF TypeOK, MutexHeld
<1>6. Accounting' /\ Snapshot'
  <2>1. Bounded(quota) /\ quota \in Nat
    BY DEF TypeOK, Accounting, Bounded
  <2>2. Bounded(quota')
    BY <1>1, <2>1, LowerBounded
  <2>3. queueLen' = Len(inflight')
    BY <1>1, <1>2 DEF Accounting, Kept
  <2>4. Snapshot'
    BY <1>2 DEF Snapshot
  <2>5. QED BY <2>2, <2>3, <2>4 DEF Accounting, Bounded
<1>7. QED BY <1>4, <1>5, <1>6

\* Steps of Loop that leave the mutex, the list and the publishers alone.
LEMMA LoopBasic ==
  ASSUME Basic,
         UNCHANGED <<inflight, queueLen, lock, lastMid, pubPc, draft, issued, accepted,
                     notified>>,
         quota' \in Nat, maximum' \in Maximums, Bounded(quota'), limit' \in BOOLEAN,
         task' \in Tasks, link' \in Links, wire' \in Seq(Packet),
         task'.op \in {"releasing", "retry"} <=> task.op \in {"releasing", "retry"},
         task'.op = "credit" => Bounded(task'.n)
  PROVE  Basic'
<1>1. TypeOK'
  BY DEF Basic, TypeOK
<1>2. MutexHeld' /\ Accounting' /\ Snapshot'
  BY DEF Basic, MutexHeld, Accounting, Snapshot, Bounded
<1>3. QED BY <1>1, <1>2 DEF Basic

\* loop_rc_handle closes the socket: the handler that failed is over.
LEMMA CloseBasic ==
  ASSUME Basic, Close, UNCHANGED <<listVars, quotaVars, lock, pubVars, notified>>,
         task.op \notin {"releasing", "retry"}
  PROVE  Basic'
<1>1. task' = Idle /\ link' = "down" /\ wire' = <<>>
  BY DEF Close
<1>2. task' \in Tasks /\ task'.op = "idle" /\ link' \in Links /\ wire' \in Seq(Packet)
  BY <1>1, IdleType DEF Links
<1>3. quota' \in Nat /\ maximum' \in Maximums /\ Bounded(quota') /\ limit' \in BOOLEAN
  BY DEF Basic, TypeOK, Accounting, Bounded
<1>4. QED BY <1>2, <1>3, LoopBasic

\* The handlers that fail, a refused CONNACK and a lost connection keep Basic.
LEMMA ClosingBasic ==
  ASSUME Basic,
         \/ AckTooEarly
         \/ AckMismatch
         \/ \E mid \in 0..MaxMid : PubrecMismatch(mid)
         \/ ConnackRefuse
         \/ Lose
  PROVE  Basic'
<1>1. /\ Close
      /\ UNCHANGED <<listVars, quotaVars, lock, pubVars, notified>>
      /\ task.op \in {"idle", "delete", "connack"}
  BY IdleType
     DEF AckTooEarly, AckMismatch, PubrecMismatch, ConnackRefuse, Lose, Receiving
<1>2. QED BY <1>1, CloseBasic

\* The credit of handle__pubackcomp stays within the maximum.
LEMMA AckCreditBasic ==
  ASSUME Basic, NEW mid \in 0..MaxMid, NEW qos \in {1, 2}, AckCredit(mid, qos)
  PROVE  Basic'
<1> USE DEF AckCredit, Receiving
<1>1. quota' \in Nat /\ Bounded(quota')
  BY QuotaType DEF Basic, TypeOK, Accounting, Bounded
<1>2. task' \in Tasks /\ task'.op = "delete"
  BY TaskType DEF TaskOps
<1>3. QED BY <1>1, <1>2, IdleType, LoopBasic DEF Basic, TypeOK

\* An acknowledgement takes a message off the list and reports it.
LEMMA UnlinkBasic ==
  ASSUME Basic, NEW i \in DOMAIN inflight, Unlink(i),
         notified' = [notified EXCEPT ![inflight[i].id] = @ + 1],
         UNCHANGED <<quotaVars, lock, pubVars, link, wire>>,
         task' \in Tasks,
         task'.op \in {"releasing", "retry"} <=> task.op \in {"releasing", "retry"},
         task'.op = "credit" => Bounded(task'.n)
  PROVE  Basic'
<1>1. /\ inflight' \in Seq(Message)
      /\ queueLen' \in Nat /\ queueLen' = Len(inflight')
  BY UnlinkType DEF Basic, TypeOK, Accounting, Bounded
<1>2. notified' \in [Ids -> Nat]
  BY NotifiedType DEF Basic, TypeOK
<1>3. TypeOK'
  BY <1>1, <1>2 DEF Basic, TypeOK
<1>4. MutexHeld' /\ Accounting' /\ Snapshot'
  BY <1>1 DEF Basic, MutexHeld, Accounting, Snapshot, Bounded
<1>5. QED BY <1>3, <1>4 DEF Basic

\* message__delete in handle__pubackcomp keeps Basic.
LEMMA AckDeleteBasic ==
  ASSUME Basic, AckDelete
  PROVE  Basic'
<1>1. Task("release", 0, 0, 0) \in Tasks /\ Task("release", 0, 0, 0).op = "release"
  BY BoundsAssumption, TaskType DEF TaskOps
<1>2. PICK i \in DOMAIN inflight :
        Unlink(i) /\ notified' = [notified EXCEPT ![inflight[i].id] = @ + 1]
  BY DEF AckDelete
<1>3. QED BY <1>1, <1>2, UnlinkBasic DEF AckDelete

\* An acknowledgement that finds no message keeps Basic.
LEMMA AckUnknownBasic ==
  ASSUME Basic, AckUnknown
  PROVE  Basic'
<1>1. Task("release", 0, 0, 0) \in Tasks /\ Task("release", 0, 0, 0).op = "release"
  BY BoundsAssumption, TaskType DEF TaskOps
<1>2. QED BY <1>1, LoopBasic DEF AckUnknown, Basic, TypeOK, Accounting, Bounded

\* message__out_update in handle__pubrec keeps Basic.
LEMMA PubrecBasic ==
  ASSUME Basic, NEW mid \in 0..MaxMid, Pubrec(mid)
  PROVE  Basic'
<1> USE DEF Pubrec
<1>1. Kept
  <2>1. "wait_for_pubcomp" \in States
    BY DEF States
  <2>2. CASE UNCHANGED inflight
    BY <2>2, KeptUnchanged DEF Basic, TypeOK
  <2>3. CASE \E i \in DOMAIN inflight :
               inflight' = [inflight EXCEPT ![i].state = "wait_for_pubcomp"]
    BY <2>1, <2>3, KeptState DEF Basic, TypeOK
  <2>4. QED BY <2>2, <2>3
<1>2. wire' \in Seq(Packet)
  <2>1. mid \in Mids
    BY BoundsAssumption DEF Mids
  <2>2. QED BY <2>1, PubrelType, SendType DEF Basic, TypeOK
<1>3. TypeOK'
  BY <1>1, <1>2 DEF Basic, TypeOK, Kept
<1>4. MutexHeld' /\ Accounting' /\ Snapshot'
  BY <1>1 DEF Basic, TypeOK, MutexHeld, Accounting, Snapshot, Bounded, Kept
<1>5. QED BY <1>3, <1>4 DEF Basic

\* The removal by a rejected PUBREC keeps Basic; the quota it reads is a bounded one.
LEMMA PubrecRejectedBasic ==
  ASSUME Basic, NEW mid \in 0..MaxMid, PubrecRejected(mid)
  PROVE  Basic'
<1>1. /\ task = Idle
      /\ task' = Task("credit", 0, 0, quota)
      /\ UNCHANGED <<quotaVars, lock, pubVars, link, wire>>
      /\ \/ UNCHANGED <<listVars, notified>>
         \/ \E i \in DOMAIN inflight :
              Unlink(i) /\ notified' = [notified EXCEPT ![inflight[i].id] = @ + 1]
  BY DEF PubrecRejected, Receiving
<1>2. quota \in Nat /\ Bounded(quota)
  BY DEF Basic, TypeOK, Accounting, Bounded
<1>3. task' \in Tasks /\ task'.op = "credit" /\ task'.n = quota
  <2>1. 0 \in 0..MaxMid /\ 0 \in 0..2 /\ "credit" \in TaskOps
    BY BoundsAssumption DEF TaskOps
  <2>2. task' \in Tasks /\ task'.op = "credit"
    BY <1>1, <1>2, <2>1, TaskType
  <2>3. QED BY <1>1, <2>2 DEF Task
<1>4. CASE UNCHANGED <<listVars, notified>>
  <2>1. quota' \in Nat /\ maximum' \in Maximums /\ Bounded(quota') /\ limit' \in BOOLEAN
    BY <1>1 DEF Basic, TypeOK, Accounting, Bounded
  <2>2. link' \in Links /\ wire' \in Seq(Packet)
    BY <1>1 DEF Basic, TypeOK
  <2>3. QED BY <1>1, <1>2, <1>3, <1>4, <2>1, <2>2, IdleType, LoopBasic
<1>5. CASE \E i \in DOMAIN inflight :
             Unlink(i) /\ notified' = [notified EXCEPT ![inflight[i].id] = @ + 1]
  BY <1>1, <1>2, <1>3, <1>5, IdleType, UnlinkBasic
<1>6. QED BY <1>1, <1>4, <1>5

\* The increment without the mutex writes a bounded quota, whichever write stays.
LEMMA CreditUnlockedBasic ==
  ASSUME Basic, CreditUnlocked
  PROVE  Basic'
<1>1. Task("release", 0, 0, 0) \in Tasks /\ Task("release", 0, 0, 0).op = "release"
  BY BoundsAssumption, TaskType DEF TaskOps
<1>2. task.n \in Nat /\ Bounded(task.n) /\ Bounded(quota)
  BY DEF CreditUnlocked, Basic, TypeOK, Tasks, Snapshot, Accounting, Bounded
<1>3. quota' \in Nat /\ Bounded(quota')
  BY <1>2, QuotaType DEF CreditUnlocked, Basic, TypeOK, Accounting, Bounded
<1>4. QED BY <1>1, <1>3, LoopBasic DEF CreditUnlocked, Basic, TypeOK

\* Loop takes the mutex only when no publisher holds it.
LEMMA AckLockBasic ==
  ASSUME Basic, AckLock
  PROVE  Basic'
<1>1. task' \in Tasks /\ task'.op = "releasing"
  BY BoundsAssumption, TaskType DEF AckLock, TaskOps
<1>2. TypeOK'
  BY <1>1 DEF AckLock, Acquire, Basic, TypeOK
<1>3. MutexHeld'
  BY <1>1, ThreadsAssumption DEF AckLock, Acquire, Basic, TypeOK, MutexHeld
<1>4. Accounting' /\ Snapshot'
  BY <1>1 DEF AckLock, Basic, Accounting, Snapshot, Bounded
<1>5. QED BY <1>2, <1>3, <1>4 DEF Basic

\* Loop's pass over the list, and its end, keep Basic.
LEMMA AckReleaseBasic ==
  ASSUME Basic, AckRelease \/ AckReturn
  PROVE  Basic'
<1>1. /\ Kept /\ wire' \in Seq(Packet)
      /\ quota' \in Nat /\ quota' <= quota
  BY ReleaseType DEF AckRelease, AckReturn, Basic, TypeOK
<1>2. /\ UNCHANGED <<queueLen, maximum, limit, pubVars, link, notified>>
      /\ task.op = "releasing" /\ lock = Loop
      /\ \/ UNCHANGED <<lock, task>>
         \/ lock' = Free /\ task' = Idle
  BY DEF AckRelease, AckReturn
<1>3. TypeOK'
  BY <1>1, <1>2, IdleType DEF Basic, TypeOK, Kept
<1>4. MutexHeld'
  BY <1>2, IdleType, ThreadsAssumption DEF Basic, TypeOK, MutexHeld
<1>5. Accounting' /\ Snapshot'
  <2>1. Bounded(quota) /\ quota \in Nat
    BY DEF Basic, TypeOK, Accounting, Bounded
  <2>2. Bounded(quota')
    BY <1>1, <2>1, LowerBounded
  <2>3. queueLen' = Len(inflight')
    BY <1>1, <1>2 DEF Basic, Accounting, Kept
  <2>4. Snapshot'
    BY <1>2, IdleType DEF Snapshot
  <2>5. QED BY <2>2, <2>3, <2>4 DEF Accounting, Bounded
<1>6. QED BY <1>3, <1>4, <1>5 DEF Basic

\* The CONNACK stores a bounded quota, also when a publisher's write survives it.
LEMMA ConnackQuotaBasic ==
  ASSUME Basic, ConnackQuota
  PROVE  Basic'
<1>1. /\ task = Idle /\ task' = Task("connack", 0, 0, 0)
      /\ maximum' \in ReceiveMaximums \cup {maximum}
      /\ quota' = maximum' \/ quota' = quota
      /\ limit' \in Sizes \cup {limit}
      /\ UNCHANGED <<listVars, lock, pubVars, link, wire, notified>>
  BY DEF ConnackQuota, Receiving
<1>2. task' \in Tasks /\ task'.op = "connack"
  BY <1>1, BoundsAssumption, TaskType DEF TaskOps
<1>3. maximum' \in Maximums /\ quota' \in Nat /\ Bounded(quota')
  <2>1. maximum' \in Maximums /\ maximum' \in Nat
    BY <1>1, MaximumsType DEF Basic, TypeOK, Maximums
  <2>2. CASE quota' = maximum'
    BY <2>1, <2>2 DEF Bounded
  <2>3. CASE quota' = quota
    BY <1>1, <2>1, <2>3 DEF Basic, TypeOK, Accounting, Bounded
  <2>4. QED BY <1>1, <2>1, <2>2, <2>3
<1>4. limit' \in BOOLEAN
  <2>1. Sizes \cup {limit} \subseteq BOOLEAN
    BY ChoiceAssumption DEF Basic, TypeOK
  <2>2. QED BY <1>1, <2>1
<1>5. link' \in Links /\ wire' \in Seq(Packet)
  BY <1>1 DEF Basic, TypeOK
<1>6. QED BY <1>1, <1>2, <1>3, <1>4, <1>5, IdleType, LoopBasic

\* message__retry_check takes the mutex only when no publisher holds it.
LEMMA ConnackAcceptBasic ==
  ASSUME Basic, ConnackAccept
  PROVE  Basic'
<1>1. task' \in Tasks /\ task'.op = "retry"
  BY BoundsAssumption, TaskType DEF ConnackAccept, TaskOps
<1>2. TypeOK'
  BY <1>1 DEF ConnackAccept, Acquire, Basic, TypeOK, Links
<1>3. MutexHeld'
  BY <1>1, ThreadsAssumption DEF ConnackAccept, Acquire, Basic, TypeOK, MutexHeld
<1>4. Accounting' /\ Snapshot'
  BY <1>1 DEF ConnackAccept, Basic, Accounting, Snapshot, Bounded
<1>5. QED BY <1>2, <1>3, <1>4 DEF Basic

\* An iteration of message__retry_check keeps Basic.
LEMMA RetryStepBasic ==
  ASSUME Basic, RetryStep
  PROVE  Basic'
<1> DEFINE m == inflight[task.n]
<1>1. /\ task.op = "retry" /\ task.n \in DOMAIN inflight
      /\ task' = [task EXCEPT !.n = @ + 1]
      /\ UNCHANGED <<queueLen, quotaVars, lock, pubVars, link, notified>>
  BY DEF RetryStep
<1>2. m \in Message /\ m.mid \in Mids
  BY <1>1, Entry DEF Basic, TypeOK
<1>3. /\ \/ inflight' = [inflight EXCEPT ![task.n] = Again(m)]
         \/ UNCHANGED inflight
      /\ Send(Pubrel(m.mid)) \/ Send(Publish(Again(m))) \/ UNCHANGED wire
  BY DEF RetryStep
<1> HIDE DEF m
<1>4. Again(m) \in Message /\ Again(m).id = m.id /\ Again(m).mid = m.mid
  BY <1>2, AgainType
<1>5. Kept
  BY <1>1, <1>3, <1>4, KeptReplace, KeptUnchanged DEF Basic, TypeOK, m
<1>6. wire' \in Seq(Packet)
  BY <1>2, <1>3, <1>4, PubrelType, PublishType, SendType DEF Basic, TypeOK
<1>7. task' \in Tasks /\ task'.op = "retry"
  <2>1. task \in Tasks /\ task.n \in Nat
    BY DEF Basic, TypeOK, Tasks
  <2>2. QED BY <1>1, <2>1 DEF Tasks
<1>8. TypeOK'
  BY <1>1, <1>5, <1>6, <1>7 DEF Basic, TypeOK, Kept
<1>9. MutexHeld' /\ Accounting' /\ Snapshot'
  BY <1>1, <1>5, <1>7 DEF Basic, TypeOK, MutexHeld, Accounting, Snapshot, Bounded, Kept
<1>10. QED BY <1>8, <1>9 DEF Basic

\* The end of message__retry_check gives the mutex back.
LEMMA RetryReturnBasic ==
  ASSUME Basic, RetryReturn
  PROVE  Basic'
<1>1. TypeOK'
  BY IdleType DEF RetryReturn, Basic, TypeOK
<1>2. MutexHeld'
  <2>1. lock = Loop /\ task.op = "retry"
    BY DEF RetryReturn, Basic, MutexHeld
  <2>2. QED BY <2>1, IdleType, ThreadsAssumption
            DEF RetryReturn, Basic, TypeOK, MutexHeld
<1>3. Accounting' /\ Snapshot'
  BY IdleType DEF RetryReturn, Basic, Accounting, Snapshot, Bounded
<1>4. QED BY <1>1, <1>2, <1>3 DEF Basic

\* message__reconnect_reset counts the list and charges the quota, never below zero.
LEMMA ReconnectResetBasic ==
  ASSUME Basic, ReconnectReset
  PROVE  Basic'
<1> USE DEF ReconnectReset
<1>1. Kept /\ Len(inflight) \in Nat
  BY ResetType, LenProperties DEF Basic, TypeOK
<1>2. quota' \in Nat /\ quota' <= maximum /\ Bounded(quota')
  <2>1. maximum \in Nat /\ maximum \in Maximums
    BY MaximumsType DEF Basic, TypeOK
  <2>2. quota' \in Nat /\ quota' <= maximum
    BY <1>1, <2>1 DEF QuotaAfterReset
  <2>3. QED BY <2>1, <2>2 DEF Bounded
<1>3. TypeOK'
  BY <1>1, <1>2 DEF Basic, TypeOK, Kept, Links
<1>4. MutexHeld' /\ Accounting' /\ Snapshot'
  BY <1>1, <1>2 DEF Basic, MutexHeld, Accounting, Snapshot, Bounded, Kept
<1>5. QED BY <1>3, <1>4 DEF Basic

\* The steps that connect the socket, and the sending of packets, keep Basic.
LEMMA ConnectingBasic ==
  ASSUME Basic, SocketOpens \/ SocketFails \/ SendConnect \/ Transmit
  PROVE  Basic'
<1>1. /\ UNCHANGED <<listVars, quotaVars, lock, pubVars, task, notified>>
      /\ link' \in {link, "open", "down", "connected"}
      /\ UNCHANGED wire \/ Send(Connect) \/ (wire # <<>> /\ wire' = Tail(wire))
  BY DEF SocketOpens, SocketFails, SendConnect, Transmit
<1>2. link' \in Links
  BY <1>1 DEF Basic, TypeOK, Links
<1>3. wire' \in Seq(Packet)
  BY <1>1, ConnectType, SendType, HeadTailProperties DEF Basic, TypeOK
<1>4. QED BY <1>1, <1>2, <1>3, LoopBasic DEF Basic, TypeOK, Accounting, Snapshot, Bounded

\* Every step of the component keeps Basic.
LEMMA BasicStep == Basic /\ [Next]_vars => Basic'
<1> SUFFICES ASSUME Basic, [Next]_vars PROVE Basic'
  OBVIOUS
<1>1. CASE UNCHANGED vars
  BY <1>1 DEF Basic, TypeOK, MutexHeld, Accounting, Snapshot, Bounded
<1>2. CASE \E p \in Publishers : PublisherNext(p)
  BY <1>2, PublishBeginBasic, PublishQueueBasic, PublishReleaseBasic DEF PublisherNext
<1>3. CASE OtherMid
  BY <1>3, OtherMidBasic
<1>4. CASE HandlerNext
  BY <1>4, AckDeleteBasic, AckUnknownBasic, ClosingBasic, CreditUnlockedBasic,
     AckLockBasic, AckReleaseBasic, ConnackAcceptBasic, RetryStepBasic,
     RetryReturnBasic
     DEF HandlerNext
<1>5. CASE ConnectNext
  BY <1>5, ReconnectResetBasic, ConnectingBasic DEF ConnectNext
<1>6. CASE BrokerNext
  BY <1>6, ClosingBasic, AckCreditBasic, PubrecBasic, PubrecRejectedBasic,
     ConnackQuotaBasic
     DEF BrokerNext
<1>7. CASE Lose \/ SocketFails \/ Transmit
  BY <1>7, ClosingBasic, ConnectingBasic
<1>8. QED BY <1>1, <1>2, <1>3, <1>4, <1>5, <1>6, <1>7 DEF Next

\* Types, mutex, accounting and the snapshot of the quota hold in every reachable state
\* of the publish and acknowledgement code: Basic is inductive.
THEOREM BasicAlways == Spec => []Basic
<1>1. QED BY BasicInit, BasicStep, PTL DEF Spec

\* Type correctness, for every value of the constants.
THEOREM TypeCorrect == Spec => []TypeOK
<1>1. Basic => TypeOK
  BY DEF Basic
<1>2. QED BY <1>1, BasicAlways, PTL

\* The mutex protects every pass over the list and is given back on every path, for
\* any number of publishers.
THEOREM MutexCorrect == Spec => []MutexHeld
<1>1. Basic => MutexHeld
  BY DEF Basic
<1>2. QED BY <1>1, BasicAlways, PTL

\* queue_len and the quota are right, for any sequence of packets of the broker.
THEOREM AccountingCorrect == Spec => []Accounting
<1>1. Basic => Accounting
  BY DEF Basic
<1>2. QED BY <1>1, BasicAlways, PTL

-----------------------------------------------------------------------------
(* What a step does to the messages.  There are five kinds of steps, and   *)
(* the invariants on identities and identifiers need to know no more.      *)

StepKeeps ==
  Kept /\ UNCHANGED <<accepted, notified, issued, lastMid, draft>>

StepBegins(p) ==
  /\ draft[p] = NoDraft
  /\ draft'[p] \in Message /\ draft'[p].id = issued + 1 /\ draft'[p].mid = NextMid
  /\ \A q \in Publishers : q # p => draft'[q] = draft[q]
  /\ issued' = issued + 1
  /\ lastMid' = NextMid
  /\ UNCHANGED <<inflight, accepted, notified>>

StepSkips ==
  /\ issued' = issued + 1
  /\ lastMid' = NextMid
  /\ UNCHANGED <<inflight, accepted, notified, draft>>

StepAppends(p) ==
  /\ draft[p] \in Message
  /\ inflight' = Append(inflight, draft[p])
  /\ accepted' = accepted \cup {draft[p].id}
  /\ draft'[p] = NoDraft
  /\ \A q \in Publishers : q # p => draft'[q] = draft[q]
  /\ UNCHANGED <<notified, issued, lastMid>>

StepReports(i) ==
  /\ inflight' = RemoveAt(inflight, i)
  /\ notified' = [notified EXCEPT ![inflight[i].id] = @ + 1]
  /\ UNCHANGED <<accepted, issued, lastMid, draft>>

Steps ==
  \/ StepKeeps
  \/ \E p \in Publishers : StepBegins(p)
  \/ StepSkips
  \/ \E p \in Publishers : StepAppends(p)
  \/ \E i \in DOMAIN inflight : StepReports(i)

\* A step that leaves the list and the ghosts alone is one that keeps.
LEMMA StepKeepsUnchanged ==
  ASSUME Basic, UNCHANGED <<inflight, accepted, notified, issued, lastMid, draft>>
  PROVE  StepKeeps
  BY KeptUnchanged DEF StepKeeps, Basic, TypeOK

\* How the steps of mosquitto_publish_v5 are classified.
LEMMA PublisherSteps ==
  ASSUME Basic, NEW p \in Publishers, PublisherNext(p)
  PROVE  Steps
<1>1. CASE PublishBegin(p)
  <2> USE DEF PublishBegin
  <2>1. PICK qos \in {1, 2}, big \in Sizes :
          draft' = [draft EXCEPT ![p] =
                      [id |-> issued + 1, mid |-> NextMid, qos |-> qos, big |-> big,
                       state |-> "invalid", dup |-> FALSE]]
    BY <1>1
  <2> DEFINE d == [id |-> issued + 1, mid |-> NextMid, qos |-> qos, big |-> big,
                   state |-> "invalid", dup |-> FALSE]
  <2>2. issued + 1 \in Ids /\ NextMid \in Mids
    BY <1>1, BoundsAssumption, NextMidType DEF Basic, TypeOK, Ids
  <2>3. d \in Message
    BY <2>2, ChoiceAssumption DEF Message, States
  <2>4. d.id = issued + 1 /\ d.mid = NextMid
    OBVIOUS
  <2> HIDE DEF d
  <2>5. /\ draft'[p] = d
        /\ \A q \in Publishers : q # p => draft'[q] = draft[q]
    BY <2>1 DEF Basic, TypeOK, d
  <2>6. draft[p] = NoDraft
    BY <1>1 DEF Basic, TypeOK
  <2>7. UNCHANGED <<inflight, accepted, notified>> /\ issued' = issued + 1
                                                   /\ lastMid' = NextMid
    BY <1>1
  <2>8. StepBegins(p)
    BY <2>3, <2>4, <2>5, <2>6, <2>7 DEF StepBegins
  <2>9. QED BY <2>8 DEF Steps
<1>2. CASE PublishQueue(p)
  <2>1. draft[p] \in Message
    BY <1>2 DEF PublishQueue, Basic, TypeOK
  <2>2. StepAppends(p)
    BY <1>2, <2>1 DEF PublishQueue, StepAppends, Basic, TypeOK
  <2>3. QED BY <2>2 DEF Steps
<1>3. CASE PublishRelease(p) \/ PublishReturn(p)
  <2>1. Kept
    BY <1>3, ReleaseType DEF PublishRelease, PublishReturn, Basic, TypeOK
  <2>2. UNCHANGED <<accepted, notified, issued, lastMid, draft>>
    BY <1>3 DEF PublishRelease, PublishReturn
  <2>3. QED BY <2>1, <2>2 DEF Steps, StepKeeps
<1>4. QED BY <1>1, <1>2, <1>3 DEF PublisherNext

\* How the steps inside Loop's handlers are classified.
LEMMA HandlerSteps ==
  ASSUME Basic, HandlerNext
  PROVE  Steps
<1>1. CASE AckDelete
  <2>1. PICK i \in DOMAIN inflight :
          Unlink(i) /\ notified' = [notified EXCEPT ![inflight[i].id] = @ + 1]
    BY <1>1 DEF AckDelete
  <2>2. StepReports(i)
    BY <1>1, <2>1 DEF AckDelete, Unlink, StepReports
  <2>3. QED BY <2>2 DEF Steps
<1>2. CASE AckRelease \/ AckReturn
  <2>1. Kept
    BY <1>2, ReleaseType DEF AckRelease, AckReturn, Basic, TypeOK
  <2>2. UNCHANGED <<accepted, notified, issued, lastMid, draft>>
    BY <1>2 DEF AckRelease, AckReturn
  <2>3. QED BY <2>1, <2>2 DEF Steps, StepKeeps
<1>3. CASE RetryStep
  <2>1. PICK m \in Message :
          /\ task.n \in DOMAIN inflight
          /\ m = inflight[task.n]
          /\ inflight' = [inflight EXCEPT ![task.n] = Again(m)] \/ UNCHANGED inflight
    BY <1>3, Entry DEF RetryStep, Basic, TypeOK
  <2>2. Again(m) \in Message /\ Again(m).id = m.id /\ Again(m).mid = m.mid
    BY AgainType
  <2>3. Kept
    BY <2>1, <2>2, KeptReplace, KeptUnchanged DEF Basic, TypeOK
  <2>4. UNCHANGED <<accepted, notified, issued, lastMid, draft>>
    BY <1>3 DEF RetryStep
  <2>5. QED BY <2>3, <2>4 DEF Steps, StepKeeps
<1>4. CASE \/ AckUnknown \/ AckMismatch \/ CreditUnlocked \/ AckLock
           \/ ConnackAccept \/ RetryReturn
  <2>1. UNCHANGED <<inflight, accepted, notified, issued, lastMid, draft>>
    BY <1>4 DEF AckUnknown, AckMismatch, CreditUnlocked, AckLock, ConnackAccept,
                RetryReturn
  <2>2. QED BY <2>1, StepKeepsUnchanged DEF Steps
<1>5. QED BY <1>1, <1>2, <1>3, <1>4 DEF HandlerNext

\* How the arrival of a packet is classified.
LEMMA BrokerSteps ==
  ASSUME Basic, BrokerNext
  PROVE  Steps
<1>1. ASSUME NEW mid \in 0..MaxMid, Pubrec(mid) PROVE Steps
  <2>1. Kept
    <3>1. "wait_for_pubcomp" \in States
      BY DEF States
    <3>2. CASE UNCHANGED inflight
      BY <3>2, KeptUnchanged DEF Basic, TypeOK
    <3>3. CASE \E i \in DOMAIN inflight :
                 inflight' = [inflight EXCEPT ![i].state = "wait_for_pubcomp"]
      BY <3>1, <3>3, KeptState DEF Basic, TypeOK
    <3>4. QED BY <1>1, <3>2, <3>3 DEF Pubrec
  <2>2. UNCHANGED <<accepted, notified, issued, lastMid, draft>>
    BY <1>1 DEF Pubrec
  <2>3. QED BY <2>1, <2>2 DEF Steps, StepKeeps
<1>2. ASSUME NEW mid \in 0..MaxMid, PubrecRejected(mid) PROVE Steps
  <2>1. UNCHANGED <<accepted, issued, lastMid, draft>>
    BY <1>2 DEF PubrecRejected
  <2>2. \/ UNCHANGED <<listVars, notified>>
        \/ \E i \in DOMAIN inflight :
             Unlink(i) /\ notified' = [notified EXCEPT ![inflight[i].id] = @ + 1]
    BY <1>2 DEF PubrecRejected
  <2>3. CASE UNCHANGED <<listVars, notified>>
    BY <2>1, <2>3, StepKeepsUnchanged DEF Steps
  <2>4. CASE \E i \in DOMAIN inflight :
               Unlink(i) /\ notified' = [notified EXCEPT ![inflight[i].id] = @ + 1]
    <3>1. PICK i \in DOMAIN inflight :
            Unlink(i) /\ notified' = [notified EXCEPT ![inflight[i].id] = @ + 1]
      BY <2>4
    <3>2. StepReports(i)
      BY <2>1, <3>1 DEF Unlink, StepReports
    <3>3. QED BY <3>2 DEF Steps
  <2>5. QED BY <2>2, <2>3, <2>4
<1>3. CASE \/ AckTooEarly \/ ConnackQuota \/ ConnackRefuse
           \/ \E mid \in 0..MaxMid : \/ PubrecMismatch(mid)
                                     \/ \E qos \in {1, 2} : AckCredit(mid, qos)
  <2>1. UNCHANGED <<inflight, accepted, notified, issued, lastMid, draft>>
    BY <1>3 DEF AckTooEarly, ConnackQuota, ConnackRefuse, PubrecMismatch, AckCredit
  <2>2. QED BY <2>1, StepKeepsUnchanged DEF Steps
<1>4. QED BY <1>1, <1>2, <1>3 DEF BrokerNext

\* Every step of the component is of one of the five kinds.
LEMMA AllSteps ==
  ASSUME Basic, [Next]_vars
  PROVE  Steps
<1>1. CASE ReconnectReset
  BY <1>1, ResetType DEF ReconnectReset, Basic, TypeOK, Steps, StepKeeps
<1>2. CASE \/ SocketOpens \/ SendConnect \/ Lose \/ SocketFails \/ Transmit
           \/ UNCHANGED vars
  <2>1. UNCHANGED <<inflight, accepted, notified, issued, lastMid, draft>>
    BY <1>2 DEF SocketOpens, SendConnect, Lose, SocketFails, Transmit
  <2>2. QED BY <2>1, StepKeepsUnchanged DEF Steps
<1>3. CASE OtherMid
  BY <1>3 DEF OtherMid, Steps, StepSkips
<1>4. QED BY <1>1, <1>2, <1>3, PublisherSteps, HandlerSteps, BrokerSteps
          DEF Next, ConnectNext

-----------------------------------------------------------------------------
(* Every accepted message has one place: it is one entry of the list, or   *)
(* it has been reported once.  A draft is not accepted yet, and two drafts *)
(* are different messages.                                                 *)

Entries == 1 .. Len(inflight)
Drafting(p) == draft[p] # NoDraft

Placed ==
  /\ \A i, j \in Entries : inflight[i].id = inflight[j].id => i = j
  /\ \A i \in Entries : inflight[i].id \in accepted /\ notified[inflight[i].id] = 0
  /\ \A id \in accepted :
       id <= issued /\ (notified[id] > 0 \/ \E i \in Entries : inflight[i].id = id)
  /\ \A id \in Ids : notified[id] <= 1 /\ (notified[id] > 0 => id \in accepted)

Drafted ==
  /\ \A p \in Publishers :
       Drafting(p) => draft[p].id <= issued /\ draft[p].id \notin accepted
  /\ \A p, q \in Publishers :
       p # q /\ Drafting(p) /\ Drafting(q) => draft[p].id # draft[q].id

\* No message has an identity at first.
LEMMA IdentityInit == Init => Placed /\ Drafted
<1> SUFFICES ASSUME Init PROVE Placed /\ Drafted
  OBVIOUS
<1>1. Entries = {}
  BY DEF Init, Entries
<1>2. Placed
  BY <1>1 DEF Init, Placed
<1>3. Drafted
  BY DEF Init, Drafted, Drafting
<1>4. QED BY <1>2, <1>3

\* A step that keeps the messages keeps where they are.
LEMMA KeepsIdentity ==
  ASSUME Basic, Placed, Drafted, StepKeeps
  PROVE  Placed' /\ Drafted'
<1>1. Entries' = Entries
  BY DEF StepKeeps, Kept, Entries
<1>2. Placed'
  BY <1>1 DEF StepKeeps, Kept, Placed, Entries
<1>3. Drafted'
  BY DEF StepKeeps, Drafted, Drafting
<1>4. QED BY <1>2, <1>3

\* A message that a publisher begins is new.
LEMMA BeginsIdentity ==
  ASSUME Basic, Placed, Drafted, NEW p \in Publishers, StepBegins(p)
  PROVE  Placed' /\ Drafted'
<1> USE DEF StepBegins
<1>1. issued \in Nat /\ accepted \subseteq Nat
  BY BoundsAssumption DEF Basic, TypeOK, Ids
<1>2. Placed'
  BY <1>1 DEF Placed, Entries
<1>3. \A q \in Publishers : Drafting(q) => draft[q].id \in Nat
  BY DEF Basic, TypeOK, Message, Ids, Drafting
<1>4. ASSUME NEW q \in Publishers, Drafting(q)'
      PROVE  /\ draft'[q].id <= issued' /\ draft'[q].id \notin accepted'
             /\ q # p => Drafting(q) /\ draft'[q] = draft[q]
  <2>1. CASE q = p
    BY <1>1, <2>1 DEF Placed
  <2>2. CASE q # p
    BY <1>1, <1>3, <1>4, <2>2 DEF Drafted, Drafting
  <2>3. QED BY <2>1, <2>2
<1>5. ASSUME NEW q \in Publishers, NEW r \in Publishers, q # r,
             Drafting(q)', Drafting(r)'
      PROVE  draft'[q].id # draft'[r].id
  <2>1. CASE q # p /\ r # p
    BY <1>4, <1>5, <2>1 DEF Drafted
  <2>2. CASE q = p
    BY <1>1, <1>3, <1>4, <1>5, <2>2 DEF Drafted
  <2>3. CASE r = p
    BY <1>1, <1>3, <1>4, <1>5, <2>3 DEF Drafted
  <2>4. QED BY <2>1, <2>2, <2>3
<1>6. Drafted'
  BY <1>4, <1>5 DEF Drafted
<1>7. QED BY <1>2, <1>6

\* An identifier taken by another packet belongs to no message.
LEMMA SkipsIdentity ==
  ASSUME Basic, Placed, Drafted, StepSkips
  PROVE  Placed' /\ Drafted'
<1> USE DEF StepSkips
<1>1. issued \in Nat /\ accepted \subseteq Nat
  BY BoundsAssumption DEF Basic, TypeOK, Ids
<1>2. Placed'
  BY <1>1 DEF Placed, Entries
<1>3. \A q \in Publishers : Drafting(q) => draft[q].id \in Nat
  BY DEF Basic, TypeOK, Message, Ids, Drafting
<1>4. Drafted'
  BY <1>1, <1>3 DEF Drafted, Drafting
<1>5. QED BY <1>2, <1>4

\* message__queue moves a message from its publisher to the list.
LEMMA AppendsIdentity ==
  ASSUME Basic, Placed, Drafted, NEW p \in Publishers, StepAppends(p)
  PROVE  Placed' /\ Drafted'
<1> USE DEF StepAppends
<1> DEFINE n == Len(inflight) + 1
<1>1. /\ Len(inflight) \in Nat /\ inflight \in Seq(Message)
      /\ draft[p].id \in Ids /\ Drafting(p)
  BY LenProperties DEF Basic, TypeOK, Message, Ids, Drafting, NoDraft
<1>2. /\ Entries' = Entries \cup {n}
      /\ \A i \in Entries : i # n /\ inflight'[i] = inflight[i]
      /\ inflight'[n] = draft[p]
  BY <1>1, AppendProperties DEF Entries
<1>3. /\ draft[p].id \notin accepted /\ draft[p].id <= issued
      /\ notified[draft[p].id] = 0
  <2>1. draft[p].id \notin accepted /\ draft[p].id <= issued
    BY <1>1 DEF Drafted
  <2>2. notified[draft[p].id] \in Nat
    BY <1>1 DEF Basic, TypeOK
  <2>3. QED BY <1>1, <2>1, <2>2 DEF Placed
<1> HIDE DEF n
<1>4. Placed'
  <2>1. ASSUME NEW i \in Entries', NEW j \in Entries', inflight'[i].id = inflight'[j].id
        PROVE  i = j
    <3>1. \A e \in Entries : inflight'[e].id # inflight'[n].id
      BY <1>2, <1>3 DEF Placed
    <3>2. (i = n <=> j = n) /\ i \in Entries \cup {n} /\ j \in Entries \cup {n}
      BY <1>2, <2>1, <3>1
    <3>3. CASE i # n
      <4>1. i \in Entries /\ j \in Entries /\ inflight[i].id = inflight[j].id
        BY <1>2, <2>1, <3>2, <3>3
      <4>2. QED BY <4>1 DEF Placed
    <3>4. QED BY <3>2, <3>3
  <2>2. ASSUME NEW i \in Entries'
        PROVE  inflight'[i].id \in accepted' /\ notified'[inflight'[i].id] = 0
    BY <1>2, <1>3, <2>2 DEF Placed
  <2>3. ASSUME NEW id \in accepted'
        PROVE  /\ id <= issued'
               /\ notified'[id] > 0 \/ \E i \in Entries' : inflight'[i].id = id
    <3>1. CASE id = draft[p].id
      BY <1>2, <1>3, <3>1
    <3>2. CASE id \in accepted /\ notified[id] > 0
      BY <3>2 DEF Placed
    <3>3. CASE id \in accepted /\ \E i \in Entries : inflight[i].id = id
      <4>1. PICK i \in Entries : inflight[i].id = id
        BY <3>3
      <4>2. i \in Entries' /\ inflight'[i].id = id
        BY <1>2, <4>1
      <4>3. id <= issued'
        BY <3>3 DEF Placed
      <4>4. QED BY <4>2, <4>3
    <3>4. id = draft[p].id \/ id \in accepted
      OBVIOUS
    <3>5. QED BY <3>1, <3>2, <3>3, <3>4 DEF Placed
  <2>4. \A id \in Ids : notified'[id] <= 1 /\ (notified'[id] > 0 => id \in accepted')
    BY DEF Placed
  <2>5. QED BY <2>1, <2>2, <2>3, <2>4 DEF Placed
<1>5. Drafted'
  <2>1. ASSUME NEW q \in Publishers, Drafting(q)'
        PROVE  Drafting(q) /\ q # p /\ draft'[q] = draft[q]
    BY <2>1 DEF Drafting
  <2>2. QED BY <1>1, <2>1 DEF Drafted
<1>6. QED BY <1>4, <1>5

\* message__remove with on_publish_v5 moves a message from the list to the reported ones.
LEMMA ReportsIdentity ==
  ASSUME Basic, Placed, Drafted, NEW k \in DOMAIN inflight, StepReports(k)
  PROVE  Placed' /\ Drafted'
<1> USE DEF StepReports
<1>1. /\ k \in Entries /\ Len(inflight) \in Nat /\ inflight[k].id \in Ids
      /\ inflight \in Seq(Message) /\ notified \in [Ids -> Nat]
  BY LenProperties, Entry DEF Basic, TypeOK, Entries
<1>2. /\ Entries' = 1 .. Len(inflight) - 1
      /\ \A i \in Entries' :
           inflight'[i] = IF i < k THEN inflight[i] ELSE inflight[i + 1]
  BY <1>1, RemoveEntry DEF Entries
<1>3. ASSUME NEW i \in Entries'
      PROVE  \E j \in Entries : /\ inflight'[i] = inflight[j] /\ j # k
                                /\ j = IF i < k THEN i ELSE i + 1
  BY <1>1, <1>2 DEF Entries
<1>4. ASSUME NEW j \in Entries, j # k
      PROVE  \E i \in Entries' : inflight'[i] = inflight[j]
  <2>1. CASE j < k
    BY <1>1, <1>2, <1>4, <2>1 DEF Entries
  <2>2. CASE j > k
    <3>1. j - 1 \in Entries' /\ ~(j - 1 < k) /\ (j - 1) + 1 = j
      BY <1>1, <1>2, <1>4, <2>2 DEF Entries
    <3>2. QED BY <1>2, <3>1
  <2>3. QED BY <1>1, <1>4, <2>1, <2>2 DEF Entries
<1>5. /\ notified'[inflight[k].id] = 1
      /\ \A id \in Ids : id # inflight[k].id => notified'[id] = notified[id]
  BY <1>1 DEF Placed
<1>6. accepted \subseteq Ids
  BY DEF Basic, TypeOK
<1>7. Placed'
  <2>1. ASSUME NEW i \in Entries', NEW j \in Entries', inflight'[i].id = inflight'[j].id
        PROVE  i = j
    <3>1. PICK a \in Entries : /\ inflight'[i] = inflight[a]
                               /\ a = IF i < k THEN i ELSE i + 1
      BY <1>3
    <3>2. PICK b \in Entries : /\ inflight'[j] = inflight[b]
                               /\ b = IF j < k THEN j ELSE j + 1
      BY <1>3
    <3>3. a = b
      BY <2>1, <3>1, <3>2 DEF Placed
    <3>4. QED BY <1>1, <1>2, <3>1, <3>2, <3>3 DEF Entries
  <2>2. ASSUME NEW i \in Entries'
        PROVE  inflight'[i].id \in accepted' /\ notified'[inflight'[i].id] = 0
    <3>1. PICK a \in Entries : inflight'[i] = inflight[a] /\ a # k
      BY <1>3
    <3>2. /\ inflight[a].id # inflight[k].id /\ inflight[a].id \in accepted
          /\ notified[inflight[a].id] = 0
      BY <1>1, <3>1 DEF Placed
    <3>3. QED BY <1>5, <1>6, <3>1, <3>2
  <2>3. ASSUME NEW id \in accepted'
        PROVE  /\ id <= issued'
               /\ notified'[id] > 0 \/ \E i \in Entries' : inflight'[i].id = id
    <3>1. id \in accepted /\ id \in Ids
      BY <1>6
    <3>2. CASE id = inflight[k].id
      BY <1>5, <3>1, <3>2 DEF Placed
    <3>3. CASE id # inflight[k].id /\ notified[id] > 0
      BY <1>5, <3>1, <3>3 DEF Placed
    <3>4. CASE id # inflight[k].id /\ \E j \in Entries : inflight[j].id = id
      <4>1. PICK j \in Entries : inflight[j].id = id /\ j # k
        BY <3>4
      <4>2. PICK i \in Entries' : inflight'[i] = inflight[j]
        BY <1>4, <4>1
      <4>3. QED BY <3>1, <4>1, <4>2 DEF Placed
    <3>5. QED BY <3>1, <3>2, <3>3, <3>4 DEF Placed
  <2>4. ASSUME NEW id \in Ids
        PROVE  notified'[id] <= 1 /\ (notified'[id] > 0 => id \in accepted')
    BY <1>1, <1>5 DEF Placed
  <2>5. QED BY <2>1, <2>2, <2>3, <2>4 DEF Placed
<1>8. Drafted'
  BY DEF Drafted, Drafting
<1>9. QED BY <1>7, <1>8

Identity == Basic /\ Placed /\ Drafted

\* Every step of the component keeps Identity.
LEMMA IdentityStep == Identity /\ [Next]_vars => Identity'
<1> SUFFICES ASSUME Identity, [Next]_vars PROVE Identity'
  OBVIOUS
<1> USE DEF Identity
<1>1. Basic'
  BY BasicStep
<1>2. Placed' /\ Drafted'
  BY AllSteps, KeepsIdentity, BeginsIdentity, SkipsIdentity, AppendsIdentity,
     ReportsIdentity
     DEF Steps
<1>3. QED BY <1>1, <1>2

\* In every reachable state a message is in one place only: with its publisher, on
\* msgs_out.inflight, or reported by on_publish_v5.
THEOREM IdentityAlways == Spec => []Identity
<1>1. Init => Identity
  BY BasicInit, IdentityInit DEF Identity
<1>2. QED BY <1>1, IdentityStep, PTL DEF Spec

\* An accepted message is on the list until it is reported, for every run.
THEOREM NothingDiscarded == Spec => []NeverDiscarded
<1>1. Identity => NeverDiscarded
  <2> SUFFICES ASSUME Identity PROVE NeverDiscarded
    OBVIOUS
  <2>1. DOMAIN inflight = Entries
    BY LenProperties DEF Identity, Basic, TypeOK, Entries
  <2>2. accepted \subseteq Ids
    BY DEF Identity, Basic, TypeOK
  <2>3. QED BY <2>1, <2>2 DEF Identity, Placed, NeverDiscarded, OnList
<1>2. QED BY <1>1, IdentityAlways, PTL

\* on_publish_v5 is called once at most for a message, for every run.
THEOREM ReportedOnce == Spec => []NotifiedOnce
<1>1. Identity => NotifiedOnce
  <2> SUFFICES ASSUME Identity PROVE NotifiedOnce
    OBVIOUS
  <2>1. DOMAIN inflight = Entries
    BY LenProperties DEF Identity, Basic, TypeOK, Entries
  <2>2. QED BY <2>1 DEF Identity, Placed, NotifiedOnce, OnList
<1>2. QED BY <1>1, IdentityAlways, PTL

-----------------------------------------------------------------------------
(* Packet identifiers.  Of the last MaxMid identifiers handed out, the one *)
(* handed out k before the latest is Back(lastMid, k), because             *)
(* mosquitto__mid_generate counts up and wraps from MaxMid to 1.           *)

Back(last, k) == IF last > k THEN last - k ELSE last - k + MaxMid

Numbered ==
  \A x \in Alive :
    x.id <= issued /\ (issued - x.id < MaxMid => x.mid = Back(lastMid, issued - x.id))

\* The same message, whatever its state has become
Same(x, y) == x.id = y.id /\ x.mid = y.mid

\* The messages that are alive, as those of the list and those of the publishers.
LEMMA AliveAs ==
  ASSUME Basic
  PROVE  /\ \A x \in Alive : \/ \E i \in Entries : x = inflight[i]
                             \/ \E p \in Publishers : Drafting(p) /\ x = draft[p]
         /\ \A i \in Entries : inflight[i] \in Alive
         /\ \A p \in Publishers : Drafting(p) => draft[p] \in Alive
         /\ \A x \in Alive : x.id \in Nat /\ x.mid \in Nat
<1>1. DOMAIN inflight = Entries /\ inflight \in Seq(Message)
  BY LenProperties DEF Basic, TypeOK, Entries
<1>2. \A p \in Publishers : pubPc[p] = "queue" <=> Drafting(p)
  BY DEF Basic, TypeOK, Drafting
<1>3. /\ \A i \in Entries : inflight[i].id \in Nat /\ inflight[i].mid \in Nat
      /\ \A p \in Publishers : Drafting(p) => draft[p].id \in Nat /\ draft[p].mid \in Nat
  BY <1>1, Entry DEF Basic, TypeOK, Message, Ids, Mids, Drafting
<1>4. QED BY <1>1, <1>2, <1>3 DEF Alive

\* A step leaves the messages that are alive as they are, or takes the next identifier.
LEMMA AliveSteps ==
  ASSUME Basic, Basic', Steps
  PROVE  \/ /\ UNCHANGED <<issued, lastMid>>
            /\ \A y \in Alive' : \E x \in Alive : Same(x, y)
         \/ /\ issued' = issued + 1 /\ lastMid' = NextMid
            /\ \A y \in Alive' : \/ \E x \in Alive : Same(x, y)
                                 \/ y.id = issued + 1 /\ y.mid = NextMid
<1>1. \A y \in Alive' : \/ \E i \in Entries' : y = inflight'[i]
                        \/ \E p \in Publishers : Drafting(p)' /\ y = draft'[p]
  <2>1. DOMAIN inflight' = Entries'
    BY LenProperties DEF Basic, TypeOK, Entries
  <2>2. \A p \in Publishers : pubPc'[p] = "queue" <=> Drafting(p)'
    BY DEF Basic, TypeOK, Drafting
  <2>3. QED BY <2>1, <2>2 DEF Alive
<1>2. CASE StepKeeps
  <2>1. \A i \in Entries' : i \in Entries /\ Same(inflight[i], inflight'[i])
    BY <1>2 DEF StepKeeps, Kept, Entries, Same
  <2>2. \A p \in Publishers : Drafting(p)' => Drafting(p) /\ draft'[p] = draft[p]
    BY <1>2 DEF StepKeeps, Drafting
  <2>3. QED BY <1>1, <1>2, <2>1, <2>2, AliveAs DEF StepKeeps, Same
<1>3. ASSUME NEW p \in Publishers, StepBegins(p)
      PROVE  /\ issued' = issued + 1 /\ lastMid' = NextMid
             /\ \A y \in Alive' : \/ \E x \in Alive : Same(x, y)
                                  \/ y.id = issued + 1 /\ y.mid = NextMid
  <2>1. \A i \in Entries' : i \in Entries /\ inflight'[i] = inflight[i]
    BY <1>3 DEF StepBegins, Entries
  <2>2. \A q \in Publishers : Drafting(q)' =>
          \/ Drafting(q) /\ draft'[q] = draft[q]
          \/ draft'[q].id = issued + 1 /\ draft'[q].mid = NextMid
    BY <1>3 DEF StepBegins, Drafting
  <2>3. QED BY <1>1, <1>3, <2>1, <2>2, AliveAs DEF StepBegins, Same
<1>4. CASE StepSkips
  <2>1. \A i \in Entries' : i \in Entries /\ inflight'[i] = inflight[i]
    BY <1>4 DEF StepSkips, Entries
  <2>2. \A q \in Publishers : Drafting(q)' => Drafting(q) /\ draft'[q] = draft[q]
    BY <1>4 DEF StepSkips, Drafting
  <2>3. QED BY <1>1, <1>4, <2>1, <2>2, AliveAs DEF StepSkips, Same
<1>5. ASSUME NEW p \in Publishers, StepAppends(p)
      PROVE  /\ UNCHANGED <<issued, lastMid>>
             /\ \A y \in Alive' : \E x \in Alive : Same(x, y)
  <2>1. Drafting(p)
    BY <1>5 DEF StepAppends, Drafting, Message, NoDraft, Ids
  <2>2. \A i \in Entries' : \/ i \in Entries /\ inflight'[i] = inflight[i]
                            \/ inflight'[i] = draft[p]
    <3>1. inflight \in Seq(Message) /\ Len(inflight) \in Nat /\ draft[p] \in Message
      BY <1>5, LenProperties DEF StepAppends, Basic, TypeOK
    <3>2. QED BY <1>5, <3>1, AppendProperties DEF StepAppends, Entries
  <2>3. \A q \in Publishers : Drafting(q)' => Drafting(q) /\ draft'[q] = draft[q]
    BY <1>5 DEF StepAppends, Drafting
  <2>4. QED BY <1>1, <1>5, <2>1, <2>2, <2>3, AliveAs DEF StepAppends, Same
<1>6. ASSUME NEW k \in DOMAIN inflight, StepReports(k)
      PROVE  /\ UNCHANGED <<issued, lastMid>>
             /\ \A y \in Alive' : \E x \in Alive : Same(x, y)
  <2>1. \A i \in Entries' : \E j \in Entries : inflight'[i] = inflight[j]
    <3>1. inflight \in Seq(Message) /\ Len(inflight) \in Nat /\ k \in Entries
      BY LenProperties DEF Basic, TypeOK, Entries
    <3>2. Entries' = 1 .. Len(inflight) - 1
      BY <1>6, <3>1, RemoveEntry DEF StepReports, Entries
    <3>3. \A i \in Entries' : /\ i \in Entries /\ i + 1 \in Entries
                              /\ inflight'[i] = IF i < k THEN inflight[i]
                                                         ELSE inflight[i + 1]
      BY <1>6, <3>1, <3>2, RemoveEntry DEF StepReports, Entries
    <3>4. QED BY <3>3
  <2>2. \A q \in Publishers : Drafting(q)' => Drafting(q) /\ draft'[q] = draft[q]
    BY <1>6 DEF StepReports, Drafting
  <2>3. QED BY <1>1, <1>6, <2>1, <2>2, AliveAs DEF StepReports, Same
<1>7. QED BY <1>2, <1>3, <1>4, <1>5, <1>6 DEF Steps

\* Taking the next identifier moves every other one further back.
LEMMA BackStep ==
  ASSUME NEW last \in 0..MaxMid, NEW next,
         next = IF last = MaxMid THEN 1 ELSE last + 1
  PROVE  /\ Back(next, 0) = next
         /\ \A k \in Nat : k + 1 < MaxMid => Back(next, k + 1) = Back(last, k)
         /\ \A k \in 1 .. MaxMid - 1 : Back(next, k) # next
  BY BoundsAssumption DEF Back

\* Every step keeps the identifiers in the order they were handed out.
LEMMA NumberedStep ==
  ASSUME Basic, Basic', Steps, Numbered, MidReuseDistance
  PROVE  Numbered' /\ MidReuseDistance'
<1>1. \A x \in Alive : x.id \in Nat /\ x.mid \in Nat
  BY AliveAs
<1>2. issued \in Nat /\ lastMid \in 0..MaxMid /\ MaxMid \in Nat \ {0}
  BY BoundsAssumption DEF Basic, TypeOK
<1>3. CASE /\ UNCHANGED <<issued, lastMid>>
           /\ \A y \in Alive' : \E x \in Alive : Same(x, y)
  <2>1. Numbered'
    BY <1>3 DEF Numbered, Same
  <2>2. MidReuseDistance'
    BY <1>3 DEF MidReuseDistance, Same
  <2>3. QED BY <2>1, <2>2
<1>4. CASE /\ issued' = issued + 1 /\ lastMid' = NextMid
           /\ \A y \in Alive' : \/ \E x \in Alive : Same(x, y)
                                \/ y.id = issued + 1 /\ y.mid = NextMid
  <2>1. ASSUME NEW y \in Alive', NEW x \in Alive, Same(x, y)
        PROVE  /\ y.id \in Nat /\ y.id <= issued
               /\ issued' - y.id < MaxMid => /\ y.mid = Back(lastMid', issued' - y.id)
                                             /\ y.mid # NextMid
    <3>1. x.id = y.id /\ x.mid = y.mid /\ x.id \in Nat /\ x.id <= issued
      BY <1>1, <2>1 DEF Same, Numbered
    <3> DEFINE k == issued - x.id
    <3>2. k \in Nat /\ issued' - y.id = k + 1
      BY <1>2, <1>4, <3>1
    <3>3. k < MaxMid => x.mid = Back(lastMid, k)
      BY DEF Numbered
    <3> HIDE DEF k
    <3>4. ASSUME k + 1 < MaxMid
          PROVE  Back(lastMid', k + 1) = Back(lastMid, k) /\ Back(lastMid', k + 1) # NextMid
      <4>1. k + 1 \in 1 .. MaxMid - 1
        BY <1>2, <3>2, <3>4
      <4>2. QED BY <1>2, <1>4, <3>2, <3>4, <4>1, BackStep DEF NextMid
    <3>5. QED BY <1>2, <3>1, <3>2, <3>3, <3>4
  <2>2. Numbered'
    <3>1. ASSUME NEW y \in Alive', y.id = issued + 1, y.mid = NextMid
          PROVE  y.id <= issued' /\ y.mid = Back(lastMid', issued' - y.id)
      <4>1. issued' - y.id = 0
        BY <1>2, <1>4, <3>1
      <4>2. Back(lastMid', 0) = NextMid
        BY <1>2, <1>4, BackStep DEF NextMid
      <4>3. QED BY <1>2, <1>4, <3>1, <4>1, <4>2
    <3>2. ASSUME NEW y \in Alive', \E x \in Alive : Same(x, y)
          PROVE  /\ y.id <= issued'
                 /\ issued' - y.id < MaxMid => y.mid = Back(lastMid', issued' - y.id)
      BY <1>2, <1>4, <2>1, <3>2
    <3>3. QED BY <1>4, <3>1, <3>2 DEF Numbered
  <2>3. MidReuseDistance'
    <3>1. ASSUME NEW v \in Alive', NEW w \in Alive', v.mid = w.mid, v.id < w.id
          PROVE  w.id - v.id >= MaxMid
      <4>1. CASE \E x \in Alive : Same(x, w)
        <5>1. PICK x \in Alive : Same(x, w)
          BY <4>1
        <5>2. w.id <= issued
          BY <2>1, <5>1
        <5>3. PICK u \in Alive : Same(u, v)
          BY <1>1, <1>2, <1>4, <3>1, <5>1, <5>2 DEF Same
        <5>4. QED BY <3>1, <5>1, <5>3 DEF MidReuseDistance, Same
      <4>2. CASE w.id = issued + 1 /\ w.mid = NextMid
        <5>1. PICK u \in Alive : Same(u, v)
          BY <1>4, <3>1, <4>2
        <5>2. ~(issued' - v.id < MaxMid)
          BY <2>1, <3>1, <4>2, <5>1
        <5>3. v.id \in Nat
          BY <1>1, <5>1 DEF Same
        <5>4. QED BY <1>2, <1>4, <4>2, <5>2, <5>3
      <4>3. QED BY <1>4, <4>1, <4>2
    <3>2. QED BY <3>1 DEF MidReuseDistance
  <2>4. QED BY <2>2, <2>3
<1>5. QED BY <1>3, <1>4, AliveSteps

\* Two live messages share an identifier only after MaxMid others, for every MaxMid and
\* any number of publishers.
THEOREM MidsReusedLate == Spec => []MidReuseDistance
<1> DEFINE Inv == Basic /\ Numbered /\ MidReuseDistance
<1>1. Init => Inv
  <2> SUFFICES ASSUME Init PROVE Inv
    OBVIOUS
  <2>1. Basic
    BY BasicInit
  <2>2. Alive = {}
    BY DEF Init, Alive
  <2>3. QED BY <2>1, <2>2 DEF Numbered, MidReuseDistance
<1>2. Inv /\ [Next]_vars => Inv'
  BY BasicStep, AllSteps, NumberedStep
<1>3. QED BY <1>1, <1>2, PTL DEF Spec

=============================================================================
