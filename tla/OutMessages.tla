---------------------------- MODULE OutMessages ----------------------------
(***************************************************************************)
(* The outgoing half of the QoS 1 / QoS 2 machinery of the client: the     *)
(* list mosq->msgs_out and everything that reads or writes it.             *)
(*                                                                         *)
(* Threads.  Publishers call mosquitto_publish_v5 (Artemisia calls it from *)
(* its serial dispatch queue; callbacks may call it too).  One more thread,*)
(* Loop, runs mosquitto_loop_forever: it handles the broker's packets,     *)
(* closes the socket and reconnects.  msgs_out.mutex is the variable lock; *)
(* a pass of message__release_to_inflight or message__retry_check holds it *)
(* over several steps, every other critical section is one step.  What the *)
(* code does without the mutex (CONNACK storing the quota, the credit for a*)
(* rejected PUBREC) is a step that ignores lock.                           *)
(*                                                                         *)
(* The broker is the environment: it may send any acknowledgement with any *)
(* packet identifier.  Module PublishSession puts a real broker behind it. *)
(***************************************************************************)
EXTENDS Integers, Sequences, FiniteSets, SequencesExt

CONSTANTS
  Publishers,       \* threads that call mosquitto_publish_v5
  Loop,             \* the network thread
  Free,             \* value of lock when nobody holds msgs_out.mutex
  MaxMid,           \* largest packet identifier: 65535 in the code
  MaxIssue,         \* bound: identifiers handed out in a behaviour
  MaxWire,          \* bound: packets queued for sending at one time
  SendMaximum,      \* msgs_out.inflight_maximum before any CONNACK (20)
  ReceiveMaximums,  \* RECEIVE_MAXIMUM values a CONNACK may carry
  Sizes,            \* sizes a published message may have: BOOLEAN or {FALSE}
  Rejects           \* whether a PUBREC may carry a reason code >= 0x80

ASSUME ThreadsAssumption ==
  /\ Loop \notin Publishers
  /\ Free \notin Publishers \cup {Loop}
ASSUME BoundsAssumption ==
  /\ MaxMid \in Nat \ {0}
  /\ MaxIssue \in Nat
  /\ MaxWire \in Nat \ {0}
ASSUME QuotaAssumption ==
  /\ SendMaximum \in Nat
  /\ ReceiveMaximums \subseteq Nat
ASSUME ChoiceAssumption ==
  /\ Sizes \subseteq BOOLEAN
  /\ Rejects \in BOOLEAN

VARIABLES
  inflight,  \* mosq->msgs_out.inflight, in list order
  queueLen,  \* mosq->msgs_out.queue_len
  quota,     \* mosq->msgs_out.inflight_quota
  maximum,   \* mosq->msgs_out.inflight_maximum
  limit,     \* TRUE when maximum_packet_size excludes the big messages
  lastMid,   \* mosq->last_mid
  lock,      \* holder of msgs_out.mutex over a release or retry pass
  pubPc,     \* where each publisher is inside mosquitto_publish_v5
  draft,     \* the message each publisher is publishing
  task,      \* where Loop is inside a packet handler
  link,      \* mosq->sock and mosq->state, as far as msgs_out depends on them
  wire,      \* packets queued for sending on the current connection
  issued,    \* ghost: identifiers handed out so far
  accepted,  \* ghost: messages that publish has put on the list
  notified   \* ghost: how often on_publish_v5 has been called per message

listVars == <<inflight, queueLen>>
quotaVars == <<quota, maximum, limit>>
pubVars == <<lastMid, pubPc, draft, issued, accepted>>
vars == <<inflight, queueLen, quota, maximum, limit, lastMid, lock, pubPc,
          draft, task, link, wire, issued, accepted, notified>>

Ids == 1..MaxIssue
Mids == 1..MaxMid

\* The values msgs_out.inflight_maximum can have
Maximums == ReceiveMaximums \cup {SendMaximum}

\* enum mosquitto_msg_state, the members an outgoing message can take
States == {"invalid", "wait_for_puback", "wait_for_pubrec", "wait_for_pubcomp",
           "publish_qos1", "publish_qos2", "resend_pubrel"}

Message == [id : Ids, mid : Mids, qos : {1, 2}, big : BOOLEAN,
            state : States, dup : BOOLEAN]
NoDraft == [id |-> 0, mid |-> 0]

Packet == [type : {"PUBLISH"}, id : Ids, mid : Mids, qos : {1, 2}, dup : BOOLEAN]
            \cup [type : {"PUBREL"}, mid : Mids]
            \cup [type : {"CONNECT"}]

Links == {"down",       \* sock is INVALID_SOCKET
          "reset",      \* mosquitto__reconnect has run message__reconnect_reset
          "open",       \* net__socket_connect has set sock, CONNECT not queued
          "connected",  \* mosq_cs_connected, CONNACK not handled
          "active"}     \* mosq_cs_active
Up == {"open", "connected", "active"}

TaskOps == {"idle", "delete", "credit", "release", "releasing", "connack", "retry"}
Tasks == [op : TaskOps, mid : 0..MaxMid, qos : 0..2, n : Nat]
Task(op, mid, qos, n) == [op |-> op, mid |-> mid, qos |-> qos, n |-> n]
Idle == Task("idle", 0, 0, 0)

Init ==
  /\ inflight = <<>>
  /\ queueLen = 0
  /\ quota = SendMaximum
  /\ maximum = SendMaximum
  /\ limit = FALSE
  /\ lastMid = 0
  /\ lock = Free
  /\ pubPc = [p \in Publishers |-> "idle"]
  /\ draft = [p \in Publishers |-> NoDraft]
  /\ task = Idle
  /\ link = "down"
  /\ wire = <<>>
  /\ issued = 0
  /\ accepted = {}
  /\ notified = [id \in Ids |-> 0]

-----------------------------------------------------------------------------
(* Helpers on the list and the quota                                       *)

\* Mutant: the identifier 0 is not skipped when last_mid wraps
NextMidZero == IF lastMid = MaxMid THEN 0 ELSE lastMid + 1
\* Mutant: the identifiers wrap one too early
NextMidShort == IF lastMid + 1 >= MaxMid THEN 1 ELSE lastMid + 1

NextMid == IF lastMid = MaxMid THEN 1 ELSE lastMid + 1

\* Mutants: the increment is not capped; the acknowledgement gives no credit
CreditedFreely(q) == q + 1
CreditedNot(q) == q

\* util__increment_send_quota and util__decrement_send_quota
Credited(q) == IF q < maximum THEN q + 1 ELSE q

\* Mutant: sending does not use the quota
ChargedNot(q) == q

Charged(q) == IF q > 0 THEN q - 1 ELSE q

\* Mutant: the mutex is not waited for
AcquireAnyway(thread) == lock' = thread

Acquire(thread) == lock = Free /\ lock' = thread

\* i is the first message on the list with this identifier
FirstWith(i, mid) ==
  /\ i \in DOMAIN inflight
  /\ inflight[i].mid = mid
  /\ \A j \in DOMAIN inflight : j < i => inflight[j].mid # mid
Unknown(mid) == \A i \in DOMAIN inflight : inflight[i].mid # mid

\* Mutant: any message that has not been sent yet
AnyWaiting(i) == i \in DOMAIN inflight /\ inflight[i].state = "invalid"

\* i is the first message on the list that has not been sent yet
FirstWaiting(i) ==
  /\ i \in DOMAIN inflight
  /\ inflight[i].state = "invalid"
  /\ \A j \in DOMAIN inflight : j < i => inflight[j].state # "invalid"

Awaiting(qos) == IF qos = 1 THEN "wait_for_puback" ELSE "wait_for_pubrec"

\* send__publish: NO_CONN without a socket, OVERSIZE above the broker's limit
Sendable(m) == link \in Up /\ ~(m.big /\ limit)

Publish(m) ==
  [type |-> "PUBLISH", id |-> m.id, mid |-> m.mid, qos |-> m.qos, dup |-> m.dup]
Pubrel(mid) == [type |-> "PUBREL", mid |-> mid]
Connect == [type |-> "CONNECT"]
Send(packet) == Len(wire) < MaxWire /\ wire' = Append(wire, packet)

\* The client drops the connection: loop_rc_handle closes the socket
Close == link' = "down" /\ wire' = <<>> /\ task' = Idle

-----------------------------------------------------------------------------
(* mosquitto_publish_v5                                                    *)

\* mosquitto__mid_generate, for a publisher whose arguments passed the checks
PublishBegin(p) ==
  /\ pubPc[p] = "idle"
  /\ issued < MaxIssue
  /\ \E qos \in {1, 2}, big \in Sizes :
       /\ ~(big /\ limit)
       /\ draft' = [draft EXCEPT ![p] =
                      [id |-> issued + 1, mid |-> NextMid, qos |-> qos, big |-> big,
                       state |-> "invalid", dup |-> FALSE]]
  /\ lastMid' = NextMid
  /\ issued' = issued + 1
  /\ pubPc' = [pubPc EXCEPT ![p] = "queue"]
  /\ UNCHANGED <<listVars, quotaVars, lock, task, link, wire, accepted, notified>>

\* A QoS 0 publish, a subscribe or an unsubscribe takes an identifier as well
OtherMid ==
  /\ issued < MaxIssue
  /\ lastMid' = NextMid
  /\ issued' = issued + 1
  /\ UNCHANGED <<listVars, quotaVars, lock, pubPc, draft, task, link, wire,
                 accepted, notified>>

\* msgs_out.mutex is taken and message__queue appends the message
PublishQueue(p) ==
  /\ pubPc[p] = "queue"
  /\ Acquire(p)
  /\ inflight' = Append(inflight, draft[p])
  /\ queueLen' = queueLen + 1
  /\ accepted' = accepted \cup {draft[p].id}
  /\ pubPc' = [pubPc EXCEPT ![p] = "release"]
  /\ draft' = [draft EXCEPT ![p] = NoDraft]
  /\ UNCHANGED <<quotaVars, lastMid, task, link, wire, issued, notified>>

(* message__release_to_inflight: one iteration that sends, the iteration    *)
(* whose send__publish fails (the message keeps its new state, the quota is *)
(* not charged and the pass ends), and the end of the list or of the quota. *)
\* Mutant: the message is still taken for one that waits
MarkSentNot(i) == UNCHANGED inflight

MarkSent(i) ==
  inflight' = [inflight EXCEPT ![i].state = Awaiting(inflight[i].qos)]

ReleaseNext ==
  /\ quota > 0
  /\ \E i \in DOMAIN inflight :
       /\ FirstWaiting(i)
       /\ Sendable(inflight[i])
       /\ MarkSent(i)
       /\ Send(Publish(inflight[i]))
  /\ quota' = Charged(quota)

ReleaseFails ==
  /\ quota > 0
  /\ \E i \in DOMAIN inflight :
       /\ FirstWaiting(i)
       /\ ~Sendable(inflight[i])
       /\ MarkSent(i)
  /\ UNCHANGED <<quota, wire>>

ReleaseEnds ==
  /\ quota = 0 \/ \A i \in DOMAIN inflight : ~FirstWaiting(i)
  /\ UNCHANGED <<inflight, quota, wire>>

PublishRelease(p) ==
  /\ pubPc[p] \in {"release", "sent"}
  /\ lock = p
  /\ ReleaseNext
  /\ pubPc' = [pubPc EXCEPT ![p] = "sent"]
  /\ UNCHANGED <<queueLen, maximum, limit, lastMid, lock, draft, issued, accepted,
                 task, link, notified>>

PublishReturn(p) ==
  /\ pubPc[p] \in {"release", "sent"}
  /\ lock = p
  /\ ReleaseFails \/ ReleaseEnds
  /\ lock' = Free
  /\ pubPc' = [pubPc EXCEPT ![p] = "idle"]
  /\ UNCHANGED <<queueLen, maximum, limit, lastMid, draft, issued, accepted,
                 task, link, notified>>

-----------------------------------------------------------------------------
(* The packets the broker answers with                                     *)

Receiving == task = Idle /\ link \in {"connected", "active"}

\* handle__pubackcomp, handle__pubrec before CONNACK: MOSQ_ERR_PROTOCOL
AckTooEarly ==
  /\ Receiving
  /\ link # "active"
  /\ Close
  /\ UNCHANGED <<listVars, quotaVars, lock, pubVars, notified>>

\* handle__pubackcomp: the credit comes first, before the identifier is looked at
AckCredit(mid, qos) ==
  /\ Receiving
  /\ link = "active"
  /\ lock = Free
  /\ quota' = Credited(quota)
  /\ task' = Task("delete", mid, qos, 0)
  /\ UNCHANGED <<listVars, maximum, limit, lock, pubVars, link, wire, notified>>

\* Mutant: the entry stays on the list
UnlinkNot(i) == i \in DOMAIN inflight /\ UNCHANGED listVars

\* message__remove and message__cleanup of entry i
Unlink(i) ==
  /\ inflight' = RemoveAt(inflight, i)
  /\ queueLen' = queueLen - 1

\* message__delete and, when it finds the message, on_publish_v5
AckDelete ==
  /\ task.op = "delete"
  /\ lock = Free
  /\ \E i \in DOMAIN inflight :
       /\ FirstWith(i, task.mid)
       /\ inflight[i].qos = task.qos
       /\ Unlink(i)
       /\ notified' = [notified EXCEPT ![inflight[i].id] = @ + 1]
  /\ task' = Task("release", 0, 0, 0)
  /\ UNCHANGED <<quotaVars, lock, pubVars, link, wire>>

AckUnknown ==
  /\ task.op = "delete"
  /\ task.mid # 0
  /\ lock = Free
  /\ Unknown(task.mid)
  /\ task' = Task("release", 0, 0, 0)
  /\ UNCHANGED <<listVars, quotaVars, lock, pubVars, link, wire, notified>>

\* Identifier 0, a PUBACK for a QoS 2 message, a PUBCOMP for a QoS 1 one
AckMismatch ==
  /\ task.op = "delete"
  /\ lock = Free
  /\ \/ task.mid = 0
     \/ \E i \in DOMAIN inflight :
          FirstWith(i, task.mid) /\ inflight[i].qos # task.qos
  /\ Close
  /\ UNCHANGED <<listVars, quotaVars, lock, pubVars, notified>>

\* handle__pubrec with a reason code below 0x80: message__out_update, send__pubrel
Pubrec(mid) ==
  /\ Receiving
  /\ mid # 0
  /\ link = "active"
  /\ lock = Free
  /\ \/ \E i \in DOMAIN inflight :
          /\ FirstWith(i, mid)
          /\ inflight[i].qos = 2
          /\ inflight' = [inflight EXCEPT ![i].state = "wait_for_pubcomp"]
     \/ Unknown(mid) /\ UNCHANGED inflight
  /\ Send(Pubrel(mid))
  /\ UNCHANGED <<queueLen, quotaVars, lock, pubVars, task, link, notified>>

PubrecMismatch(mid) ==
  /\ Receiving
  /\ link = "active"
  /\ lock = Free
  /\ \/ mid = 0
     \/ \E i \in DOMAIN inflight : FirstWith(i, mid) /\ inflight[i].qos # 2
  /\ Close
  /\ UNCHANGED <<listVars, quotaVars, lock, pubVars, notified>>

\* handle__pubrec with an error: message__delete, on_publish_v5, and the quota is
\* read for an increment that is not made under msgs_out.mutex
PubrecRejected(mid) ==
  /\ Rejects
  /\ mid # 0
  /\ Receiving
  /\ link = "active"
  /\ lock = Free
  /\ \/ \E i \in DOMAIN inflight :
          /\ FirstWith(i, mid)
          /\ inflight[i].qos = 2
          /\ Unlink(i)
          /\ notified' = [notified EXCEPT ![inflight[i].id] = @ + 1]
     \/ /\ Unknown(mid) \/ \E i \in DOMAIN inflight :
                              FirstWith(i, mid) /\ inflight[i].qos # 2
        /\ UNCHANGED <<listVars, notified>>
  /\ task' = Task("credit", 0, 0, quota)
  /\ UNCHANGED <<quotaVars, lock, pubVars, link, wire>>

\* The unlocked util__increment_send_quota races with a publisher's decrement:
\* either write can be the one that stays
CreditUnlocked ==
  /\ task.op = "credit"
  /\ quota' \in IF quota = task.n THEN {Credited(quota)}
                                 ELSE {Credited(task.n), Credited(quota), quota}
  /\ task' = Task("release", 0, 0, 0)
  /\ UNCHANGED <<listVars, maximum, limit, lock, pubVars, link, wire, notified>>

\* message__release_to_inflight at the end of handle__pubackcomp and handle__pubrec
AckLock ==
  /\ task.op = "release"
  /\ Acquire(Loop)
  /\ task' = Task("releasing", 0, 0, 0)
  /\ UNCHANGED <<listVars, quotaVars, pubVars, link, wire, notified>>

AckRelease ==
  /\ task.op = "releasing"
  /\ lock = Loop
  /\ ReleaseNext
  /\ UNCHANGED <<queueLen, maximum, limit, lock, pubVars, task, link, notified>>

AckReturn ==
  /\ task.op = "releasing"
  /\ lock = Loop
  /\ ReleaseFails \/ ReleaseEnds
  /\ lock' = Free
  /\ task' = Idle
  /\ UNCHANGED <<queueLen, maximum, limit, pubVars, link, notified>>

-----------------------------------------------------------------------------
(* handle__connack                                                         *)

\* The properties of the CONNACK overwrite the options (a property that is absent
\* leaves them), the quota is refilled without looking at the list, on_connect runs.
\* The store is not made under msgs_out.mutex: the decrement of a publisher that has
\* just sent can have read the old quota and be written after it.
ConnackQuota ==
  /\ Receiving
  /\ maximum' \in ReceiveMaximums \cup {maximum}
  /\ limit' \in Sizes \cup {limit}
  /\ \/ quota' = maximum'
     \/ /\ \E p \in Publishers : pubPc[p] = "sent"
        /\ quota' = quota
  /\ task' = Task("connack", 0, 0, 0)
  /\ UNCHANGED <<listVars, lock, pubVars, link, wire, notified>>

\* Reason code 0: mosq_cs_active, then message__retry_check takes the mutex
ConnackAccept ==
  /\ task.op = "connack"
  /\ Acquire(Loop)
  /\ link' = "active"
  /\ task' = Task("retry", 0, 0, 1)
  /\ UNCHANGED <<listVars, quotaVars, pubVars, wire, notified>>

\* Any other reason code: MOSQ_ERR_CONN_REFUSED or MOSQ_ERR_PROTOCOL
ConnackRefuse ==
  /\ task.op = "connack"
  /\ Close
  /\ UNCHANGED <<listVars, quotaVars, lock, pubVars, notified>>

\* message__retry_check: what is sent again for the message it stands on.
\* A failed send__publish is ignored.
\* Mutants: what is sent on this connection already is sent again; a PUBREL is not
RetryPublishAll(m) ==
  m.state \in {"publish_qos1", "publish_qos2", "wait_for_puback", "wait_for_pubrec"}
RetryPubrelLate(m) == m.state = "wait_for_pubcomp"

RetryPublish(m) == m.state \in {"publish_qos1", "publish_qos2"}
RetryPubrel(m) == m.state \in {"resend_pubrel", "wait_for_pubcomp"}

\* Mutant: the DUP flag is not set
AgainPlain(m) == m

Again(m) == [m EXCEPT !.dup = TRUE]

RetryStep ==
  /\ task.op = "retry"
  /\ task.n \in DOMAIN inflight
  /\ LET m == inflight[task.n] IN
       IF RetryPublish(m) \/ RetryPubrel(m)
         THEN /\ inflight' = [inflight EXCEPT ![task.n] = Again(m)]
              /\ IF RetryPubrel(m) THEN Send(Pubrel(m.mid))
                 ELSE IF Sendable(m) THEN Send(Publish(Again(m)))
                 ELSE UNCHANGED wire
         ELSE UNCHANGED <<inflight, wire>>
  /\ task' = [task EXCEPT !.n = @ + 1]
  /\ UNCHANGED <<queueLen, quotaVars, lock, pubVars, link, notified>>

RetryReturn ==
  /\ task.op = "retry"
  /\ task.n \notin DOMAIN inflight
  /\ lock' = Free
  /\ task' = Idle
  /\ UNCHANGED <<listVars, quotaVars, pubVars, link, wire, notified>>

-----------------------------------------------------------------------------
(* The connection                                                          *)

\* The broker goes away, the keepalive expires, a read or a write fails
Lose ==
  /\ task = Idle
  /\ link \in Up
  /\ Close
  /\ UNCHANGED <<listVars, quotaVars, lock, pubVars, notified>>

\* Mutant: QoS 2 starts over even after the PUBREC
ResetMessageRestart(m) ==
  [m EXCEPT !.state = IF m.qos = 1 THEN "publish_qos1" ELSE "publish_qos2"]

ResetMessage(m) ==
  [m EXCEPT !.state =
     IF m.qos = 1 THEN "publish_qos1"
     ELSE CASE @ = "wait_for_pubrec"  -> "publish_qos2"
            [] @ = "wait_for_pubcomp" -> "resend_pubrel"
            [] OTHER                  -> @]

\* Mutant: only QoS 2 survives, as on the incoming list
ResetListQos2 == SelectSeq(inflight, LAMBDA m : m.qos = 2)

\* message__reconnect_reset: the first messages take the quota, the others wait
ResetList ==
  [i \in DOMAIN inflight |->
     IF i <= maximum THEN ResetMessage(inflight[i])
                     ELSE [inflight[i] EXCEPT !.state = "invalid"]]

\* Mutant: the quota goes below zero
QuotaAfterResetUnbounded == maximum - Len(inflight)

QuotaAfterReset ==
  IF Len(inflight) <= maximum THEN maximum - Len(inflight) ELSE 0

\* mosquitto__reconnect up to net__socket_connect
ReconnectReset ==
  /\ task = Idle
  /\ link = "down"
  /\ lock = Free
  /\ inflight' = ResetList
  /\ queueLen' = Len(inflight)
  /\ quota' = QuotaAfterReset
  /\ link' = "reset"
  /\ UNCHANGED <<maximum, limit, lock, pubVars, task, wire, notified>>

\* net__socket_connect returns
SocketOpens ==
  /\ task = Idle
  /\ link = "reset"
  /\ link' = "open"
  /\ UNCHANGED <<listVars, quotaVars, lock, pubVars, task, wire, notified>>

SocketFails ==
  /\ task = Idle
  /\ link = "reset"
  /\ link' = "down"
  /\ UNCHANGED <<listVars, quotaVars, lock, pubVars, task, wire, notified>>

\* mosquitto__set_state(mosq_cs_connected) and send__connect
SendConnect ==
  /\ task = Idle
  /\ link = "open"
  /\ link' = "connected"
  /\ Send(Connect)
  /\ UNCHANGED <<listVars, quotaVars, lock, pubVars, task, notified>>

\* The packet at the head of the queue leaves for the broker
Transmit ==
  /\ wire # <<>>
  /\ wire' = Tail(wire)
  /\ UNCHANGED <<listVars, quotaVars, lock, pubVars, task, link, notified>>

-----------------------------------------------------------------------------
\* What a publishing thread does
PublisherNext(p) ==
  PublishBegin(p) \/ PublishQueue(p) \/ PublishRelease(p) \/ PublishReturn(p)

\* What Loop does by itself, once a handler has been entered
HandlerNext ==
  \/ AckDelete \/ AckUnknown \/ AckMismatch \/ CreditUnlocked
  \/ AckLock \/ AckRelease \/ AckReturn
  \/ ConnackAccept \/ RetryStep \/ RetryReturn

\* What Loop does to connect
ConnectNext == ReconnectReset \/ SocketOpens \/ SendConnect

\* Packets a broker may send at any time
BrokerNext ==
  \/ AckTooEarly
  \/ \E mid \in 0..MaxMid :
       \/ \E qos \in {1, 2} : AckCredit(mid, qos)
       \/ Pubrec(mid)
       \/ PubrecMismatch(mid)
       \/ PubrecRejected(mid)
  \/ ConnackQuota
  \/ ConnackRefuse

Next ==
  \/ \E p \in Publishers : PublisherNext(p)
  \/ OtherMid
  \/ HandlerNext
  \/ ConnectNext
  \/ BrokerNext
  \/ Lose
  \/ SocketFails
  \/ Transmit

Spec == Init /\ [][Next]_vars

-----------------------------------------------------------------------------
(* Properties                                                              *)

\* Types of the variables, that is of msgs_out, its mutex and the two programs.
TypeOK ==
  /\ inflight \in Seq(Message)
  /\ queueLen \in Nat
  /\ quota \in Nat
  /\ maximum \in Maximums
  /\ limit \in BOOLEAN
  /\ lastMid \in 0..MaxMid
  /\ lock \in Publishers \cup {Loop, Free}
  /\ pubPc \in [Publishers -> {"idle", "queue", "release", "sent"}]
  /\ draft \in [Publishers -> Message \cup {NoDraft}]
  /\ \A p \in Publishers : pubPc[p] = "queue" <=> draft[p] # NoDraft
  /\ task \in Tasks
  /\ link \in Links
  /\ wire \in Seq(Packet)
  /\ issued \in 0..MaxIssue
  /\ accepted \subseteq Ids
  /\ notified \in [Ids -> Nat]

\* A pass over the list is made by one thread at a time, by the one that holds
\* msgs_out.mutex, and the mutex is never left locked (every return path of
\* mosquitto_publish_v5, handle__pubackcomp, handle__pubrec and handle__connack).
MutexHeld ==
  /\ \A p \in Publishers : lock = p <=> pubPc[p] \in {"release", "sent"}
  /\ lock = Loop <=> task.op \in {"releasing", "retry"}

\* queue_len is the length of the list, and the quota never exceeds the largest maximum
\* that was ever in force, whatever the broker acknowledges, duplicates or lowers, and
\* although the store of the CONNACK and one increment are not made under the mutex.
Accounting ==
  /\ queueLen = Len(inflight)
  /\ \E m \in Maximums : quota <= m

OnList == {inflight[i].id : i \in DOMAIN inflight}

\* "A client will never discard its own outgoing messages on disconnect": a message
\* that publish accepted is on the list until on_publish_v5 has reported it, across
\* any losses, resets, refused connections and protocol errors.
NeverDiscarded == accepted = OnList \cup {id \in Ids : notified[id] > 0}

\* "Only inform the client the message has been sent once": on_publish_v5 is called at
\* most once per message, and not for one that stays on the list to be sent again.
NotifiedOnce ==
  /\ \A id \in Ids : notified[id] <= 1
  /\ \A id \in OnList : notified[id] = 0

\* Two messages that are alive at the same time share a packet identifier only when
\* MaxMid identifiers or more were handed out between them: mosquitto__mid_generate
\* wraps without looking at the list, so this is all it gives.
Alive == {inflight[i] : i \in DOMAIN inflight}
           \cup {draft[p] : p \in {q \in Publishers : pubPc[q] = "queue"}}
MidReuseDistance ==
  \A x, y \in Alive : x.mid = y.mid /\ x.id < y.id => y.id - x.id >= MaxMid

=============================================================================
