----------------------------- MODULE Subscribers -----------------------------
(***************************************************************************)
(* Who is handed a message.  A subscriber of an Artemisia.Topic registers  *)
(* with the subject of the client, and the topic is subscribed to at the   *)
(* broker, by a call that waits on the serial queue.  The broker publishes *)
(* a message to its subscriptions; the client hands each copy around to    *)
(* all that have registered, and each looks at the topic of the message    *)
(* and at its subscription identifier, which Mosquitto+Properties.swift    *)
(* collects in a loop over the property list (Artemisia.swift:70-122).     *)
(*                                                                         *)
(* Quality of service is left out: a message that is under way when the    *)
(* connection ends is lost, as one of QoS 0.                               *)
(***************************************************************************)
EXTENDS Packets

CONSTANTS
  Groups,         \* sequences of subscribers: a pattern, and identifiers in its options
  Names,          \* the topics of messages
  UserProperties, \* how many user properties a message has
  MaxMessages,    \* bound: messages of the broker
  MaxConns        \* bound: connections

\* Any pattern, valid or not; a broker publishes only to topics without wildcards.
ASSUME SubscribersAssumption ==
  /\ Groups \subseteq Seq([pattern : CString, ids : Seq(Nat)])
  /\ \A name \in Names : name \in CString /\ name # <<>> /\ PubTopicValid(name)
  /\ UserProperties \subseteq Nat
  /\ MaxMessages \in Nat

VARIABLES
  version,    \* the protocol version
  clean,      \* the sessions are clean
  group,      \* the subscribers
  subject,    \* those that have registered, first come first
  queue,      \* the calls of subscribe that wait on the serial queue
  sock,       \* there is a connection
  outgoing,   \* SUBSCRIBE packets under way to the broker
  table,      \* the subscriptions of the broker
  wire,       \* copies of messages under way to the client
  callback,   \* where the message callback is
  conns,      \* connections so far
  published,  \* the messages so far
  owed,       \* ghost: who ought to be handed which message
  handed      \* ghost: how often who was handed which message

app == <<version, clean, group>>
broker == <<table, published, owed>>
vars == <<app, subject, queue, sock, outgoing, broker, wire, callback, conns, handed>>

Subscriber == DOMAIN group
Message == 1..MaxMessages

\* The properties of the options of a subscription
Options(s) == Built([i \in DOMAIN group[s].ids |-> Prop(SubscriptionIdentifier, group[s].ids[i])])

\* callback.at is the step it is at; it has yet to see the subscribers in todo
Idle == [at |-> "idle", message |-> 0, props |-> <<>>, todo |-> <<>>, next |-> 0,
         first |-> {}, theirs |-> {}]

Init ==
  /\ version \in {"v311", "v5"}
  /\ clean \in BOOLEAN
  /\ group \in Groups
  /\ subject = <<>>
  /\ queue = <<>>
  /\ sock = FALSE
  /\ outgoing = <<>>
  /\ table = {}
  /\ wire = <<>>
  /\ callback = Idle
  /\ conns = 0
  /\ published = <<>>
  /\ owed = {}
  /\ handed = [m \in Message |-> [s \in Subscriber |-> 0]]

-----------------------------------------------------------------------------
(* Application threads                                                     *)

\* Topic.receive(subscriber:)
Subscribe(s) ==
  /\ s \notin Range(subject)
  /\ s = 1 \/ s - 1 \in Range(subject)
  /\ subject' = Append(subject, s)
  /\ queue' = Append(queue, s)
  /\ UNCHANGED <<app, sock, outgoing, broker, wire, callback, conns, handed>>

Packet(s) ==
  [kind |-> "SUBSCRIBE", filters |-> <<group[s].pattern>>, options |-> 0,
   props |-> IF version = "v5" THEN Options(s) ELSE <<>>]

\* Mosquitto.subscribe and mosquitto_subscribe_v5.  A call that is refused, for want of a
\* connection or because of its arguments, is forgotten.
CallSubscribe ==
  /\ queue # <<>>
  /\ queue' = Tail(queue)
  /\ outgoing' =
       IF /\ sock
          /\ CallVerdict(version, [maximumPacketSize |-> 0], Packet(Head(queue))) = "SUCCESS"
       THEN Append(outgoing, Packet(Head(queue)))
       ELSE outgoing
  /\ UNCHANGED <<app, subject, sock, broker, wire, callback, conns, handed>>

-----------------------------------------------------------------------------
(* The broker                                                              *)

\* What a subscription is at the broker
Entry(p) == [pattern |-> p.filters[1], id |-> {p.props[i].value : i \in DOMAIN p.props}]

\* One that is there with the same pattern is replaced
TakesSubscribe ==
  /\ outgoing # <<>>
  /\ \E e \in {Entry(Head(outgoing))} :
       table' = {f \in table : f.pattern # e.pattern} \cup {e}
  /\ outgoing' = Tail(outgoing)
  /\ UNCHANGED <<app, subject, queue, sock, wire, callback, conns, published, owed, handed>>

\* The identifier that is asked for
IdOf(s) == IF version = "v5" THEN {p.value : p \in Range(Options(s))} ELSE {}
InPlace(s) == [pattern |-> group[s].pattern, id |-> IdOf(s)] \in table

\* One copy for each subscription, or one for all of them with all their identifiers
Copies(matching) ==
  LET Copy(ids) == [message |-> Len(published) + 1, ids |-> SetToSeq(ids)] IN
  { <<Copy(UNION {e.id : e \in matching})>>,
    [i \in 1..Cardinality(matching) |-> Copy(SetToSeq(matching)[i].id)] }

\* Whose subscription is in place is owed the message, if there is a copy with the identifier
Publishes ==
  /\ sock /\ Len(published) < MaxMessages
  /\ \E name \in Names, users \in UserProperties :
     \E matching \in {{e \in table : MatchesByLevel(e.pattern, name)}} :
       /\ matching # {}
       /\ version = "v5" \/ users = 0
       /\ \E copies \in Copies(matching) :
            /\ published' = Append(published, [name |-> name, users |-> users, copies |-> copies])
            /\ wire' = wire \o copies
            /\ owed' = owed \cup
                 { <<Len(published) + 1, s>> :
                     s \in {s \in Range(subject) :
                              /\ InPlace(s)
                              /\ MatchesByLevel(group[s].pattern, name)
                              /\ \E i \in DOMAIN copies : copies[i].ids = SetToSeq(IdOf(s))} }
  /\ UNCHANGED <<app, subject, queue, sock, outgoing, table, callback, conns, handed>>

-----------------------------------------------------------------------------
(* The network thread                                                      *)

\* The first connection and those after it; nothing subscribes again
Connects ==
  /\ ~sock /\ callback = Idle /\ conns < MaxConns
  /\ sock' = TRUE
  /\ conns' = conns + 1
  /\ table' = IF clean THEN {} ELSE table
  /\ UNCHANGED <<app, subject, queue, outgoing, wire, callback, published, owed, handed>>

\* mosquitto__loop_rc_handle
Closes ==
  /\ sock' = FALSE
  /\ outgoing' = <<>>
  /\ wire' = <<>>
  /\ owed' = {o \in owed : \A i \in DOMAIN wire : wire[i].message # o[1]}
  /\ UNCHANGED <<app, subject, queue, table, callback, conns, published, handed>>

Loses == sock /\ callback = Idle /\ Closes

\* The properties of a copy
PropsOf(copy) ==
  [i \in 1..published[copy.message].users |-> Prop(UserProperty, <<<<i>>, <<i>>>>)]
  \o [i \in DOMAIN copy.ids |-> Prop(SubscriptionIdentifier, copy.ids[i])]

\* handle__publish: the properties are checked, then the message callback is called, which
\* sends to all that have registered
Arrives ==
  /\ sock /\ callback = Idle /\ wire # <<>>
  /\ IF CheckAll("PUBLISH", PropsOf(Head(wire))) # "SUCCESS" THEN Closes
     ELSE /\ callback' = [Idle EXCEPT !.at = "filters", !.message = Head(wire).message,
                                      !.props = PropsOf(Head(wire)), !.todo = subject]
          /\ wire' = Tail(wire)
          /\ UNCHANGED <<app, subject, queue, sock, outgoing, broker, conns, handed>>

CallbackVars == <<app, subject, queue, sock, outgoing, broker, wire, conns>>

\* Mutant: the property that comes first is found, whether it is to be skipped or not
NeverSkips(props, id, skip) == SelectInSeq(props, LAMBDA p : p.id = id)

\* property__get_property: where the property is, 0 if there is none
GetProperty(props, id, skip) ==
  LET first == SelectInSeq(props, LAMBDA p : p.id = id) IN
  IF ~skip \/ first = 0 THEN first
  ELSE LET others == {i \in first + 1..Len(props) : props[i].id = id} IN
       IF others = {} THEN 0 ELSE Min(others)

\* read_prop_value begins: callback.next is what the reader has found
StartsReading(at, props, id) ==
  [callback EXCEPT !.at = at, !.first = {}, !.next = GetProperty(props, id, FALSE)]

NextSubscriber == [callback EXCEPT !.at = "filters", !.todo = Tail(@)]

\* The filter of Topic.receive
Filters ==
  /\ callback.at = "filters" /\ callback.todo # <<>>
  /\ callback' =
       IF ~TopicMatches(group[Head(callback.todo)].pattern, published[callback.message].name)
       THEN NextSubscriber
       ELSE IF version = "v5"
       THEN StartsReading("theirs", callback.props, SubscriptionIdentifier)
       ELSE [callback EXCEPT !.at = "hands"]
  /\ UNCHANGED CallbackVars /\ UNCHANGED handed

\* What read_prop_value reads: the identifier of the message, that of the options of the
\* subscription, or the user properties of the message
Reading ==
  CASE callback.at = "theirs" -> <<callback.props, SubscriptionIdentifier>>
    [] callback.at = "ours" -> <<Options(Head(callback.todo)), SubscriptionIdentifier>>
    [] callback.at = "reads" -> <<callback.props, UserProperty>>
IsReading == callback.at \in {"theirs", "ours", "reads"}

\* The loop of read_prop_value: a value is appended, and the next one is looked for in the
\* same list, but for the first
Collects ==
  /\ IsReading /\ callback.next # 0
  /\ callback' = [callback EXCEPT
       !.first = IF @ = {} THEN {Reading[1][callback.next].value} ELSE @,
       !.next = GetProperty(Reading[1], Reading[2], TRUE)]
  /\ UNCHANGED CallbackVars /\ UNCHANGED handed

\* The loop is over.  Only the first identifier of each side counts.
Collected ==
  /\ IsReading /\ callback.next = 0
  /\ callback' =
       CASE callback.at = "theirs" ->
              [StartsReading("ours", Options(Head(callback.todo)), SubscriptionIdentifier)
                 EXCEPT !.theirs = callback.first]
         [] callback.at = "ours" ->
              IF callback.first = callback.theirs THEN [callback EXCEPT !.at = "hands"]
              ELSE NextSubscriber
         [] callback.at = "reads" -> NextSubscriber
  /\ UNCHANGED CallbackVars /\ UNCHANGED handed

\* The subscriber is handed the message; it may look at the user properties
Hands ==
  /\ callback.at = "hands"
  /\ handed' = [handed EXCEPT ![callback.message][Head(callback.todo)] = @ + 1]
  /\ callback' \in {NextSubscriber, StartsReading("reads", callback.props, UserProperty)}
  /\ UNCHANGED CallbackVars

CallbackReturns ==
  /\ callback.at = "filters" /\ callback.todo = <<>>
  /\ callback' = Idle
  /\ UNCHANGED CallbackVars /\ UNCHANGED handed

InCallback == Filters \/ Collects \/ Collected \/ Hands \/ CallbackReturns

Next ==
  \/ \E s \in Subscriber : Subscribe(s)
  \/ CallSubscribe
  \/ TakesSubscribe \/ Publishes
  \/ Connects \/ Loses \/ Arrives
  \/ InCallback

\* The network thread goes on with the callback
Spec == Init /\ [][Next]_vars /\ WF_vars(InCallback)

-----------------------------------------------------------------------------
(* Properties                                                              *)

UnderWay(m) == callback.message = m \/ \E i \in DOMAIN wire : wire[i].message = m

\* A subscriber is handed only messages that match its valid pattern level by level, no more often
\* than the broker has sent copies with its identifier, and it misses none for which its
\* subscription is in place and the broker has sent such a copy, unless the connection was
\* lost or closed before it arrived (Artemisia.swift:104-122, util_topic.c:176-312).
HandedAsOwed ==
  \A m \in DOMAIN published, s \in Subscriber :
    LET mine == {i \in DOMAIN published[m].copies :
                   published[m].copies[i].ids = SetToSeq(IdOf(s))} IN
    /\ handed[m][s] > 0 /\ SubTopicValid(group[s].pattern)
         => MatchesByLevel(group[s].pattern, published[m].name)
    /\ handed[m][s] <= Cardinality(mine)
    /\ <<m, s>> \in owed => handed[m][s] > 0 \/ UnderWay(m)

Several(props, id) == Cardinality({i \in DOMAIN props : props[i].id = id}) > 1

\* The message callback comes to its end, so that the network thread goes on, unless there
\* are two properties of an identifier that is looked at: the reader is given the whole list
\* again each time and never finds an end (Mosquitto+Properties.swift:149-160, 207-220,
\* property_mosq.c:896-912).
CallbackEnds ==
  /\ callback # Idle
  /\ ~Several(callback.props, UserProperty)
  /\ \A s \in Subscriber : ~Several(Options(s), SubscriptionIdentifier)
  ~> callback = Idle

=============================================================================
