# A formal model of Artemisia

Artemisia is an MQTT 5 client for Swift (`src/Sources/Artemisia`) over the C client
library libmosquitto (`src/Sources/MosquittoC`). This directory holds TLA+ modules of
its protocol core, TLC configurations that check them on small instances and proofs,
checked by TLAPS, of the most important invariants for every value of the constants.

What is modelled is what `Package.swift` builds: threads are on, TLS, SOCKS, SRV and the
broker are not compiled. File names below are relative to `src/Sources/MosquittoC`.

## 1. The system

Two kinds of threads share one `struct mosquitto`. The *network thread*, started by
`mosquitto_loop_start`, runs `mosquitto_loop_forever`: it reads packets and calls their
handlers and, through them, the callbacks, writes queued packets, watches the keepalive
and reconnects. Any *other thread* may publish, subscribe or disconnect; the Swift client
does so from its serial dispatch queue (`Mosquitto.swift:63`), and callbacks may as well.

| Component | State | Operations | Correct when | Status |
|---|---|---|---|---|
| Outgoing messages `messages_mosq.c`, `actions.c`, `handle_pubackcomp.c`, `handle_pubrec.c`, `handle_connack.c`, `util_mosq.c` | `msgs_out`: list, length, quota, maximum, mutex; `last_mid` | publish, PUBACK/PUBREC/PUBCOMP, CONNACK refill, retry, reset | nothing lost, reported once, quota bounded and never leaking, identifiers told apart | `OutMessages`, proofs; partly, see 6 |
| Delivery over connections `connect.c`, `loop.c` | socket, state, packets under way, the broker's session | connect, lose, resend | QoS 1 at least once, QoS 2 exactly once, everything reported in the end | `PublishSession`, `Delivery`, proofs; partly |
| Incoming messages `handle_publish.c`, `handle_pubrel.c` | `msgs_in`: list, receive quota | PUBLISH, PUBREL, reset | every accepted PUBLISH is delivered once, nothing acknowledged is lost, the quota does not leak | `InMessages`, proofs |
| Outgoing packet queue `packet_mosq.c`, `handle_disconnect.c` | `out_packet`, `out_packet_last`, `current_out_packet`, two mutexes, the socket pair | queue, partial write, cleanup, hang up | bytes of packets never mix; FIFO; nothing used after it is freed; no wake-up lost | `OutPacketQueue`, proofs |
| Lifecycle and network thread `loop.c`, `thread_mosq.c`, `connect.c`, `handle_connack.c`, `mosquitto.c` | `state`, `sock`, `threaded` | connect, disconnect, destroy, the loop, reconnection | a requested disconnect ends the session, others are reconnected, `on_disconnect` balances | `ClientLifecycle`, proofs; partly, see 8 |
| Keepalive `util_mosq.c`, `handle_ping.c` | `ping_t`, `last_msg_in`, `next_msg_out` | ping, time out | a dead peer is noticed, a live one is not dropped for what an earlier one did | `ClientLifecycle`, proofs |
| Packet reader and data types `packet_mosq.c`, `packet_datatypes.c`, `read_handle.c`, `handle_*.c`, `send_*.c` | `in_packet`, cursor | piecewise read, encode, decode | what is read does not depend on how the bytes arrive; what is announced is written | `DataTypes`, `Packets`, `Wire`, proofs |
| Topics `util_topic.c` | none | match, check | agrees with the definition by levels | `Topics`, proofs |
| UTF-8 validation `utf8_mosq.c` | none | validate | no overlong form, surrogate or control passes | `DataTypes` |
| MQTT 5 properties `property_mosq.c`, `Mosquitto+Properties.swift` | the list that is built or read | read, write, length, check, build, look up | what is written is read again; lookups end | `Properties`; partly, see 8 |
| Subscriptions and authentication `actions.c`, `send_subscribe.c`, `handle_suback.c`, `handle_auth.c` | none | subscribe, unsubscribe, answers | a subscriber gets what it asked for | `Packets`, `Wire`, `Subscribers`, proofs |
| Swift client `Sources/Artemisia` | `connected`, the subject, the serial queue | wraps the above | the flag follows the connection; every matching subscriber is handed a message | `ClientLifecycle`, `Wire`, `Subscribers`; partly, see 8 |
| Options, callbacks, will `options.c`, `will_mosq.c` | fields of the handle | set | what is set is sent with the next CONNECT | `Packets`, `Wire`; partly, see 8 |
| Sockets, TLS, SOCKS, SRV; support; vendored lists | | | | not modelled, see 8 |

How they interact: a publish appends to `msgs_out` and sends what the quota allows, all
under `msgs_out.mutex`; sending appends to the outgoing packet queue. An acknowledgement
credits the quota, removes the message, calls `on_publish_v5` and sends what waits. A lost
connection empties the packet queue; `mosquitto__reconnect` first runs
`message__reconnect_reset`, which puts every message in the state it will be sent again
from, then opens the socket; the CONNACK sets the quota and `message__retry_check` sends.

What is hard here: the network thread and the publishers interleave at every mutex; some
steps are not under one (the CONNACK's store of the quota, the credit for a rejected
PUBREC, `sock`); two mutexes guard one list of packets and one of them is unlocked by a
thread that does not hold it; the connection can be lost between any two packets of the
QoS 2 handshake and in the middle of any packet, in either direction; the broker may lower
the maximum; identifiers wrap; a send may fail after the state has changed; a disconnect
races with connecting; the keepalive reckons with timestamps that several calls move; and
the client and the broker must agree on the length of everything they write.
`PROJECT.json` lists each hazard at its line with the properties that would catch it.

## 2. Modules

| Module | What it is |
|---|---|
| `OutMessages` | `msgs_out` with its mutex, the publishers and the network thread, under a broker that may send any acknowledgement with any identifier |
| `PublishSession` | EXTENDS `OutMessages`: the packets reach a real broker in order, its answers come back in order, a lost connection drops both |
| `Delivery` | the abstract specification: what publishing promises, without packets, connections or threads |
| `InMessages` | `msgs_in`, the handlers of PUBLISH and PUBREL, the reset, with a broker that keeps within RECEIVE_MAXIMUM |
| `OutPacketQueue` | the list of packets field by field, its two mutexes, the pieces in which it is written, the cleanup, the wake-up |
| `ClientLifecycle` | the client from connect to destroy: the network thread's loop, the keepalive in ticks, reconnection, the flag `connected` |
| `DataTypes` | operators: integers, variable byte integers, strings, UTF-8, from and to bytes |
| `Properties` | EXTENDS `DataTypes`: property lists, their lengths, checks, reading, writing, building and lookups |
| `Topics` | checks of topics and filters, the match as coded, and the match by levels it is compared with |
| `Packets` | EXTENDS both: every packet the client encodes and decodes, with the checks of the calls |
| `Wire` | EXTENDS `Packets`: the bytes of a connection, `packet__read` in pieces, the fields of the handle that encoders and decoders look at |
| `Subscribers` | EXTENDS `Packets`: from `Topic.receive(subscriber:)` over the broker's table to the message callback and its loops |
| `OutMessagesProofs`, `InMessagesProofs`, `OutPacketQueueProofs`, `ClientLifecycleProofs` | theorems about the module of that name |
| `PublishSessionProofs` | EXTENDS `OutMessagesProofs`: theorems about `PublishSession`, its implementation of `Delivery` and its send quota |
| `WireProofs` | theorems about `DataTypes`, `Properties` and `Packets`: integers, texts, properties and lists of them are read back, lengths are what is written, every packet is decoded as it was encoded; and about `Wire` |
| `SubscribersProofs` | theorems about `Topics`: the loop over characters matches as levels do; and about `Subscribers` |
| `SequenceLemmas` | what appending, replacing and removing an element and taking the tail of a sequence do, sums and joins of sequences, and functions defined by recursion over places |
| `MCOutMessages`, `MCPublishSession`, `MCWire`, `MCSubscribers` | instances for TLC |

How they fit together: `OutMessages` abstracts the packet queue to the sequence `wire` and
`PublishSession` gives it a broker; `OutPacketQueue` opens that abstraction and knows a
packet only by its kind; `ClientLifecycle` has both threads' control flow and knows of the
queue only which kinds of packets are in it; `Wire` has the bytes and leaves out the threads.

### OutMessages

| Variable | Code |
|---|---|
| `inflight`, `queueLen` | `msgs_out.inflight` as a sequence, `msgs_out.queue_len` |
| `quota`, `maximum` | `msgs_out.inflight_quota`, `msgs_out.inflight_maximum` |
| `limit` | `maximum_packet_size`: TRUE when the `big` messages do not fit |
| `lastMid` | `last_mid` |
| `lock` | holder of `msgs_out.mutex` |
| `pubPc`, `draft` | where a publisher is in `mosquitto_publish_v5`; the message it builds |
| `task` | where the network thread is in a handler, with the identifier and QoS of its packet, the quota it has read, or the list entry it stands on |
| `link` | `sock` and `state`: `down`, `reset` (after `message__reconnect_reset`), `open` (socket, no CONNECT yet), `connected`, `active` |
| `wire` | packets queued for sending on this connection |
| `issued`, `accepted`, `notified` | history: identifiers handed out, messages on which publish has put its hands, calls of `on_publish_v5` |

An entry has a ghost `id`, the number of its identifier; the code knows it only by `mid`,
and finds "the first with this `mid`" (`FirstWith`).

A critical section is one step when no step inside it can be seen from outside. Three are
not: the pass of `message__release_to_inflight` (one step per message sent, `lock` held),
the pass of `message__retry_check`, and the handlers, which take the mutex several times:
`handle__pubackcomp` credits (`AckCredit`), removes and reports (`AckDelete`), releases
(`AckLock`, `AckRelease`, `AckReturn`), and publishers run in between.
`handle__pubrec` with an error reads the quota for its increment outside the mutex
(`PubrecRejected`, `CreditUnlocked`): when a publisher wrote in between, either write may
be the one that stays. `ConnackQuota` races likewise with a publisher that has just sent
(`pubPc = "sent"`): its decrement of the old quota may be written after the store.

Identifier generation and the queueing are two steps of a publisher (`PublishBegin`,
`PublishQueue`): two publishers may append in another order than their identifiers.
A message is *waiting* in state `invalid`. When `send__publish` fails (no socket, or too
big) `message__release_to_inflight` has already changed the state, does not charge the
quota and stops: `ReleaseFails`.

`AckTooEarly`, `AckMismatch`, `PubrecMismatch` and `ConnackRefuse` are the handlers'
error returns: `mosquitto__loop_rc_handle` closes the socket (`Close`).

### PublishSession

`BrokerConnect`, `BrokerPublish`, `BrokerPubrel` take the head of `wire` and answer in
`toClient`; `Receive` hands the head to its handler; `Reset` is `ReconnectReset` with the
history of the messages it takes out of flight (`demoted`). The broker is not in the
repository: it takes a QoS 2 message once per identifier until its PUBREL, and may refuse
one with an error PUBREC where `Rejects` says so. Whether it resumes its session is a
choice (`Resumes`): the Swift client has `cleanSession` true by default
(`Mosquitto.swift:66`), and the CONNECT of `mosquitto_reconnect` (`connect.c:138`) has no
properties, hence no session expiry interval, even if the first one had. It closes a
connection that does not start with CONNECT (`BrokerDrops`).

### Delivery

Messages are accepted, taken by the broker (any number of times for QoS 1, once for QoS 2
unless demoted: one end has forgotten the handshake, the client in a reset or the broker
with its session), refused or reported, once and after the broker's verdict; a reported
message is never taken again. `PublishSession` implements it under the mapping `Promise`:
`pending` is the list, `reported` the messages `on_publish_v5` was called for, `copies`
what the broker took.

### InMessages

Only the network thread touches `msgs_in`, so each handler is one step: `PublishDelivers`
(QoS 0 and 1), `PublishStores` (QoS 2), `Pubrel`, `PublishRefused` (no quota left).
`list`, `queueLen`, `quota` are `msgs_in.inflight`, `queue_len` and `inflight_quota`.
An entry has a ghost `id`, because the code can tell messages apart only by `mid`.
`Reconnect` is the reset, the opening of the socket and the CONNECT in one; the quota it
leaves is the one of the reset or, when the application's CONNECT has a RECEIVE_MAXIMUM
property, the full one (`send_connect.c:73-76`). The broker has its messages in
`session`, never more than `ReceiveMaximum`, repeats them in order when it resumes the
session and forgets them otherwise.

The list holds QoS 2 messages only (`handle__publish` appends no others), so the branch
of the reset that drops messages of other QoS is never taken. Packets that are malformed,
have identifier 0 or come before the CONNACK do not occur with this broker.

### OutPacketQueue

| Variable | Code |
|---|---|
| `list`, `last`, `current` | `out_packet` and what is reachable from it, `out_packet_last`, `current_out_packet` |
| `kinds`, `left`, `freed` | a packet's command, `to_process`, whether it was given back |
| `outMutex`, `curMutex` | holders of `out_packet_mutex` and `current_out_packet_mutex` |
| `call`, `draft`, `mine` | where a thread is in `packet__queue` or `mosquitto__reconnect`, and the packet it queues |
| `netPc`, `ready`, `held` | where the network thread is, the descriptors of `select()`, the local `packet` of `packet__write` |
| `state`, `sock`, `bytes` | `state`, the number of the connection, the bytes in the socket pair |
| `wires`, `born`, `epoch`, `hangups`, `early` | ghosts: what each connection carried, since which cleanup a packet is queued, DISCONNECTs of the broker, whether the network thread started on a disconnect that came before the first connect |

`out_packet_last` is a pointer of its own that nothing clears in `packet__cleanup_all`:
`QueueLink` writes behind whatever it points at, and a packet written behind one that is
not on the list is out of reach (`LinkedAfter`). `packet__queue` is three steps
(`QueueLink`, `QueueLast`, `QueueWake`), the first two under the mutex; `mosquitto__reconnect`
is `CleanupLock`, `Cleanup`, `CloseOld`, then `Open` or `OpenFails`; `packet__write` is
`WriteEnter`, any number of `WriteBytes`, then `WriteReturns`, `WriteFails`, or `WriteDone`
and `WriteNext`. `do_client_disconnect` (`Hangup`, `HangupReturns`) shifts a packet and
unlocks `current_out_packet_mutex`, which its caller `handle__disconnect` does not hold:
unlocking a mutex of another thread is undefined, so `UnlockCurrent` lets it be released
or nothing happen.

`AppStarts` starts the network thread, `AppConnect` then sets the state to `new`, for which
`ThreadStarts` waits to pass. `Disconnect` asks for nothing but a thread that is not in a
call: before the first connect it sets the state as well, and then the network thread may go on
between the two steps. `early` remembers that; section 4 says what comes of it.

### ClientLifecycle

Time is a number of ticks. A client that was never connected has a keepalive of `NewInterval`
of them, the application asks for `Interval`, a CONNACK may set any of `ServerIntervals`, be
it longer, shorter or 0; `timeout` is what the keepalive was when the network thread started,
which `mosquitto_loop_forever` keeps for good. The timestamps are kept
as distances from now (`lastIn`, `nextOut`), so the state space is finite without a bound
on time. `Tick` is possible while the network thread waits in `select()`, is connecting or
does not run, and it does not pass a timeout that is due. The application is
one thread, the serial queue, with a place in its call (`app`); the network thread's place
is `net`, with one place for each function of the loop. `awaiting` is `ping_t # 0`;
`connected` is the Swift flag, set by the callbacks. Ghosts keep what the properties speak
of: `silence`, `said`, `greeted`, `goodbyes`, `hungUp`, and the reasons for which a
property is excused (`replaced`, `raced`, `excused`), each of which is one known race.

### DataTypes, Properties, Topics, Packets, Wire

A packet is a record; encoding it gives the length it announces and the bytes that follow,
computed as the code does it, one by `property__get_length_all` and the like and the other
by the writers, so that the two can differ. A decoder consumes bytes and fails as the code
does. Text is a sequence of bytes because its lengths, its UTF-8 and its separators are
what the checks are about. `Wire` runs `packet__read` byte by byte for the header and the
remaining length, and in pieces of any of the sizes `Pieces` for the rest; a connection may
end anywhere and `Clean` is `packet__cleanup`. In `Sends` the broker may send back
what the client has published, so the client decodes its own encoding. The handle `mosq` keeps
the fields set by options, will and CONNACK that later packets depend on.

`WireAssumption` says what the constants may be. Calls have the types of their arguments, of
any length. A packet of the broker is `Wellformed`, as the standard has it, or `Malformed`:
bytes of a whole packet that the client refuses, or a length of five digits. What the client
accepts although the standard does not allow it, a length with superfluous digits for
example, is in neither. `written` has the lengths of the packet a call has queued; two
ghosts are in it: `uncut`, whether each of its texts fits a length of two bytes, and
`dropped`, whether `send__real_publish` has left out its properties. Lengths are integers
without a width: those that the code keeps in an `int` or a `uint32_t` are taken to be below
2^31. A packet of the broker whose first byte is 0 does not occur; `packet__read`
(`packet_mosq.c:350`) takes such a command for one that it has not read yet.

### Subscribers

Subscribers of the Swift client register with `subject`, their SUBSCRIBE waits on the
serial queue (`queue`), travels (`outgoing`) and enters the broker's `table`; a message is
published in a copy per subscription or in one for all of them, as MQTT lets a broker
choose, and the callback goes around `subject` in order (`callback`), looking at topic,
identifier and user properties in the loops of `Mosquitto+Properties.swift`, one step per
turn, so that a loop that does not end is a behaviour. Quality of service is left out: a
copy under way when the connection ends is lost.

`SubscribersAssumption` says that patterns are strings, valid filters or not, and that topics
are valid and not empty. A pattern that is not valid is refused by `mosquitto_subscribe_v5`,
but its subscriber stays registered with `subject` and has every message matched against it.

## 3. Runs

| Run | Instance | Question | Result |
|---|---|---|---|
| `OutMessages` | 2 publishers, 2 identifiers and 3 messages or other packets, maximum 2 or 1, arbitrary broker | are types, mutex, accounting, the list and the reports right whatever the broker sends? | holds |
| `Session` | 1 publisher in any phase, 3 messages of two sizes, maximum 2 then 1, refusals, 1 loss, session resumed or not | is the promise of `Delivery` kept? | holds |
| `SessionProgress` | 2 publishers, maximum 1, 2 losses, fairness, no publish while the socket is being connected | does quota leak, is the order kept, is everything reported? | holds |
| `SessionInFlight` | 1 publisher, maximum 1, 1 loss | is the maximum respected? | violated |
| `SessionTwice` | 1 publisher, maximum 1, 2 losses | is QoS 2 exactly once? | violated |
| `InMessages` | 3 messages of any QoS, 2 identifiers, receive maximum 2, 2 losses, session resumed or not, fairness | is everything accepted delivered, once per copy; does quota leak; is a correct broker refused? | holds |
| `InTwice` | 2 messages of QoS 2, 1 identifier, 1 loss, session resumed | one callback per message? | violated |
| `SessionStuck` | as `SessionProgress` with 1 publisher, 1 loss, publishing in any phase | is everything reported? | violated |
| `OutPacketQueue` | 1 sender that also connects, 2 packets of 2 bytes besides the CONNECTs (1 once the thread has started early), a disconnect at any time, 2 connections, fairness | is a freed packet touched, do bytes mix, are connections kept apart, is what is queued written? | holds |
| `ClientLifecycle` | keepalive of 1 tick, or 1, 2 or none as the broker says, any calls of connect, send, disconnect and destroy, fairness | is the flag right, is a silent broker noticed, who reconnects and who ends? | holds |
| `Wire` | 3 versions, 5 wills, 4 ways to connect, 40 calls, 31 packets of the broker, 2 to a connection, 2 connections | is what is announced written, and what arrives in pieces read as it was sent? | holds |
| `Subscribers` | every pattern of up to 3 characters of `a / + #` and every valid one of 4, every topic of up to 3, pairs that overlap, 1 message with up to 2 user properties, 2 connections, fairness | who is handed a message, how often, and does the callback end? | holds |

What the properties say is in the comment above each one. The ones that took care:
`NeverDiscarded` relates `accepted`, the list and the reports over any sequence of losses;
`NotifiedOnce` holds although acknowledgements may be repeated and identifiers reused;
`AckFindsMessage` says that no acknowledgement of an earlier connection, or of an earlier
message with the same identifier, is taken for another; `NoQuotaLeak` that every unit of
the quota is either free or held by a message in flight, with a second counting in
`InFlightAtMostDouble`: the refill of the CONNACK makes it at most twice the maximum, not
once; `RepeatIsMarked` that what the broker has seen is marked DUP. `NoUseAfterFree` relates
`out_packet_last`, which keeps pointing at freed memory after a cleanup, to the list it is
used with; `LeakBounded` counts the packets that `do_client_disconnect` drops unfreed, which
nothing but a DISCONNECT of the broker can make more; `EventuallyWritten` is that no wake-up
is lost between the look at the queue and `select()`. `DeadPeerNoticed` gives the bound the
keepalive really has, twice the longest interval and the timeout of `select()` together (four
intervals if all are the same), because each packet the application sends puts off the moment
at which the silence is looked at, and a keepalive that the broker has shortened does not
shorten the timeout; `OnlyHangupTwice` says which connections may be
reported twice. `RoundTrip` compares whole packets over a lost connection that may have
ended in the middle of one; `HandedAsOwed` compares what a subscriber is handed with what the
broker sent, whatever else is subscribed.

Bounds. `MaxIssue` = 3 messages with `MaxMid` = 2 makes an identifier come back while its
first owner is alive; with a maximum of 1 or 2, three messages are one in flight, one
that comes on top of a refilled quota and one that waits, which is what the reset needs
to demote one. Two losses are needed to reach a reset with more messages in flight than
the maximum. `MaxWire` is 2 where the packets only leave, and 4 where more packets under
way at a time were needed; a bound that is reached delays the sender. `Transmit` may
empty the queue at any moment, so no behaviour of the list depends on the bound. The
session instances use `MaxMid` = `MaxIssue`: there a broker that mixes up two messages of
the same identifier is a wrap at 65535, which `OutMessages` covers.

In `InMessages` two losses leave a second copy of two messages or two copies of one, with
a maximum of 2 that is a full list, and with three messages and two identifiers one is
used again. `RefusedOnlyIfLeftOver` says what a refusal of a broker within its limit is
due to, `EventuallyAcknowledged` that nothing but a refusal keeps a message from being
acknowledged.

In `OutPacketQueue` two bytes are enough for a packet to be half written, two connections
for one to be carried over, two packets beside a CONNECT for one that is being written, one
that waits and one that is being linked (646,494 states). `MaxEarly` is 1: with the network
thread started early, a CONNECT of each thread and one packet more are all there is.
`MaxAppConnects` is 1: a second call of connect, while the network thread runs, is the race
of section 4 that breaks most of these properties. In `ClientLifecycle` an interval of one
tick that the broker may double, restore or switch off has each order of the old and the new
keepalive, and in the longer one a part of it has passed and not all; `MaxSilence` = 5 lies
beyond the bound of `DeadPeerNoticed`, which is reached (400,145 states). `MaxOut` = 1
delays the application's calls on a connection while a packet is queued; the client's own
packets come on top. The calls of `MCWire` lie on both sides of each limit: remaining
lengths of 127 and 128, a maximum packet size of 20, a will of 65,536 bytes, identifiers
around 127 and beyond four digits, overlong forms and surrogates (689,218 states). Two
connections are what a rest of a packet needs to reach the next one. Filters of four
characters reach every branch of the match: a level before, between and behind separators,
`+` and `#` in each of them (709,116 states).

Deadlock is checked in `OutMessages`, `OutPacketQueue` and `ClientLifecycle`. The sessions and
`InMessages` stop when every message has been issued and reported and no connection may be
lost any more, so it is not checked there; `EventuallyReported` and `EventuallyAcknowledged`
say that they do not stop before. `Wire` and `Subscribers` stop when the packets, messages
and connections of their bounds are used up; `Wire` also when the program has crashed.

Fairness (`FairSessionSpec`): weak fairness of a publisher that is inside its call, of the
network thread in a handler, in connecting and in receiving, and of the broker. The code
justifies it: a call of `mosquitto_publish_v5` returns, the network thread runs until the
client stops it, and `mosquitto_loop_forever` tries again to connect for ever. `InMessages` assumes
the same of connecting, of the handlers and of the broker's answers. No fairness
is assumed of `PublishBegin`, of `BrokerSend` or of losing a connection, and losses are bounded by
`MaxLosses`: nothing is promised for a connection that never stays up.

`OutPacketQueue` assumes weak fairness of the network thread, of calls under way, and of
`select()` when a byte is in the socket pair, which makes it return; strong fairness of
`select()` for a socket watched for writing and of `WriteBytes`, which is that the broker
goes on reading. `ClientLifecycle` assumes weak fairness of calls and of the network
thread, that time goes on (`SF_vars(Tick)`: the thread always comes back to `select()`),
and that of many attempts to connect one succeeds (`SF_vars(NetOpens)`); it assumes
nothing of what the broker sends or takes, so that `Leaves` and `Recovers` rest on the
keepalive. `Subscribers` assumes only that the callback goes on.

## 4. Where documentation and code disagree

* `SessionInFlight`. `include/mosquitto.h:1466-1469` calls `MOSQ_OPT_SEND_MAXIMUM` the
  largest number in flight at once. `message__reconnect_reset` charges the quota for what
  will be sent again; `handle__connack` (`:105`) then sets the quota to the maximum.
* `SessionTwice`. With more in flight than the maximum, the next reset sets those beyond
  it to `invalid` (`messages_mosq.c:181`) whatever handshake they were in; a QoS 2 message
  the broker has taken is published from the start and taken again. The comment above the
  line says the state should be preserved. `TwiceOnlyIfDemoted` and `KeepsPromise` show
  that this, and a broker that does not resume the session, are the only ways.
* `SessionStuck`. A message published between `message__reconnect_reset` and the opening
  of the socket is marked as sent although `send__publish` returned `MOSQ_ERR_NO_CONN`;
  `message__retry_check` passes over it. `include/mosquitto.h:243-245` promises that a
  connect resends. It is sent only after the connection has been lost once more.
* `InTwice`. `handle__publish` appends a repeated QoS 2 message to `msgs_in` although it
  is there (`handle_publish.c:154-162`). The copy that the PUBREL leaves behind is handed
  over when its identifier is used again, in place of the new message, against the comment
  `handle_pubrel.c:105-106`.
* Seen on the way, without a run of its own: those copies are charged to the quota at each
  reset, so that with a receive maximum of 1 the first repeated PUBLISH is answered with
  `MOSQ_ERR_PROTOCOL`, again after each connect whose CONNECT has no RECEIVE_MAXIMUM
  property of its own. `EventuallyAcknowledged` has to except messages the client refuses.
* Seen on the way, without a run of their own (here and below). Two calls of connect.
  Nothing keeps an application from calling `Mosquitto.connect` while it is connected; the
  call runs `mosquitto__reconnect` on the serial queue while the network thread may be in
  `packet__write` or in the same function. With `MaxAppConnects` = 2, `OutPacketQueue`
  loses `NothingCarriedOver`, `PacketsWhole` (a packet half written is freed, the old
  socket is still open and the next packet follows) and, after a DISCONNECT of the broker
  has unlocked `current_out_packet_mutex` for the other thread, `NoUseAfterFree`.
* A disconnect before the first connect (`connect.c:240`) leaves `mosq_cs_disconnected`. The
  network thread that `Mosquitto.connect` starts waits only while the state is `new`
  (`thread_mosq.c:109-120`); if it looks before `mosquitto__connect_init` has set that, it finds
  no socket. When it looks at the state again it ends, and the CONNECT that the connect queues is
  never written; or the state is `new` by then, and it reconnects besides the application, the
  race just named. `PacketsWhole`, `NothingCarriedOver` and `EventuallyWritten` except it
  (`early`); TLC checks the other invariants after it too.
* Lifecycle. A connect after the network thread has ended is never served: the thread is
  not started again, and `threaded` stays set. A CONNACK of MQTT 5 whose reason is 6 or
  more is answered with `MOSQ_ERR_PROTOCOL`, which ends the network thread for good, as a malformed
  packet does (`loop.c:264-285`), though `mosquitto_loop_start` is said to handle reconnecting;
  `Recovers` speaks only of the errors after which the thread goes on. With
  a server keepalive of 0 `select()` is called with a timeout of 0: the thread spins. The
  limits of an earlier CONNACK stay in force when a later one does not repeat them
  (`handle_connack.c:100-103`).
* Sizes. `packet__check_oversize` (`packet_mosq.c:187-199`) forgets the byte of the
  command, and its callers for SUBSCRIBE and UNSUBSCRIBE the length of the properties;
  `OversizeByHeader` bounds the excess. A will of more than 65,535 bytes is announced modulo
  65,536 (`send_connect.c:185`). The proof of `AnnouncedIsWritten` found more of the kind,
  which the instance is too small to meet: nothing checks the length of the password either,
  and `mosquitto_validate_utf8` (`utf8_mosq.c:31`), which checks the client's identifier, the
  user name and the texts of properties, lets 65,536 bytes pass, one too many. These are its
  exception (`uncut`). Properties of a PUBLISH that take five digits for their length are
  left out, and so is their length from what is announced, but `send_publish.c:201` writes it:
  five bytes more than were allocated, which is `dropped`, the other exception; an assertion
  in `packet__write_byte` or `packet__write_bytes`, where it is compiled, ends the program. That
  takes 268,435,456 bytes, so it is in the definitions and in the theorem and not in the run.
* Packets refused. A DISCONNECT that leaves out its reason, which MQTT 5 allows and the
  client itself sends, is malformed for `handle__disconnect`. A PUBLISH with several
  subscription identifiers, as a broker merges copies, is `MOSQ_ERR_DUPLICATE_PROPERTY`
  and closes the connection, again each time. A will with properties is refused before the
  first connect, when the handle still speaks 3.1.1.
* Properties. `mosquitto_property_copy_all` calls `strdup` on the null pointer of an empty
  text (`property_mosq.c:1145`, `:1165`): the outcome `crashed` of `Wire`. In
  `Mosquitto+Properties.swift` `read_prop_value` hands `property__get_property` the head
  of the list each time, where `mosquitto.h:2762` says to pass the value returned: with
  two user properties the callback never ends, the exception in `CallbackEnds`. There too,
  the pointer to the properties of a message is kept after the callback that owns them,
  the binary properties pass the address of the Swift value in place of its bytes, and
  `UInt16Id.MQTT_PROP_TOPIC_ALIAS` (`:177`) has the code of the assigned client
  identifier, though the global of the same name is the one in use.
* Subscribers. A subscriber without an identifier misses a merged copy that has one; two
  without identifiers and with overlapping filters are each handed every copy; a second
  subscription with the same pattern replaces the identifier of the first, who is then
  handed nothing. A subscribe without a socket, or lost with its connection, is forgotten,
  and nothing subscribes again after a reconnection with a clean session. `owed` in
  `HandedAsOwed` is what remains. For a pattern that is not valid `mosquitto_topic_matches_sub`
  should answer `MOSQ_ERR_INVAL` (`mosquitto.h:2282`). It does not always: a subscriber with
  `+/#b`, whose subscription was refused, is handed `a` when another one gets it, because the
  look behind a `+` (`util_topic.c:250-259`) stops at the `#`.

## 5. Proofs

`OutMessagesProofs` proves, from the assumptions in `OutMessages` only (the threads and
`Free` are distinct, `MaxMid` is at least 1, quotas are natural numbers), for any number
of publishers, identifiers, messages and maxima and an arbitrary broker:

| Theorem | Says |
|---|---|
| `TypeCorrect` | `Spec => []TypeOK`; the quota and the length never go below zero |
| `MutexCorrect` | `Spec => []MutexHeld` |
| `AccountingCorrect` | `Spec => []Accounting` |
| `NothingDiscarded` | `Spec => []NeverDiscarded` |
| `ReportedOnce` | `Spec => []NotifiedOnce` |
| `MidsReusedLate` | `Spec => []MidReuseDistance` |

*First invariant.* `Basic` is `TypeOK`, `MutexHeld`, `Accounting` and `Snapshot`. The
three that are checked are not inductive alone: between `PubrecRejected` and
`CreditUnlocked` the thread holds a quota it read earlier and may write it back plus one,
so that value must be bounded too (`Snapshot`). `MutexHeld` is needed for the types: only
the holder of the mutex is in a pass, so `queueLen` can be decremented only while it is
the length of a list that has an entry. One lemma per action (`...Basic`), combined in
`BasicStep`.

*Second invariant.* `Identity` adds `Placed` and `Drafted`: a message is in exactly one
place, with its publisher, on the list or reported, and its number is not above `issued`.
`NeverDiscarded` is the half of it that says it is somewhere, `NotifiedOnce` the half that
says it is not in two places; neither is inductive without the other, nor without the
drafts. To avoid one proof per action, `AllSteps` shows that every step keeps the
messages, begins one, skips a number, appends a draft or reports an entry
(`StepKeeps`, `StepBegins`, `StepSkips`, `StepAppends`, `StepReports`), and the invariants
are proved per kind.

*Third invariant.* `MidReuseDistance` needs `Numbered`: the identifier of a live message
is the one handed out `issued - id` steps before `lastMid`, counted modulo `MaxMid`.
`BackStep` is the arithmetic of one more step back.

`PublishSessionProofs` proves for any number of publishers, messages, identifiers and lost
connections, and a broker that resumes its session or forgets it at each connect:

| Theorem | Says |
|---|---|
| `SessionTypeCorrect` | `SessionSpec => []SessionTypeOK` |
| `SessionIsOutMessages` | `SessionSpec => Spec`: all that is proved of `OutMessages` holds here |
| `AcksFindMessages` | `SessionSpec /\ []MidsApart => []AckFindsMessage` |
| `RepeatsAreMarked` | `SessionSpec /\ []MidsApart => []RepeatIsMarked` |
| `TwiceOnlyDemoted` | `SessionSpec /\ []MidsApart => []TwiceOnlyIfDemoted` |
| `PromiseKept` | `SessionSpec /\ []MidsApart => KeepsPromise`, the implementation of `Delivery` |
| `MidsApartBeforeWrap` | `SessionSpec => []MidsApart`, when `MaxIssue <= MaxMid` |

*The hypothesis.* `MidsApart` says that no two messages of the list share an identifier.
It is not a property of the code: `mosquitto__mid_generate` counts on and wraps from 65535
to 1 without a look at the list, so a message that has waited through 65535 others shares
its identifier with a new one, and client and broker can take one for the other.
`MidsReusedLate` says when that can be at the earliest, and `MidsApartBeforeWrap` that the
hypothesis holds as long as the identifiers have not come round. The runs of
`PublishSession` have `MaxMid` = `MaxIssue`.

*Invariants.* `Underlying` is what `OutMessages` has of inductive invariants, with the types
of the channels. `Agreement` says that the two ends agree about each identifier: at most one
packet of a handshake is under way in either direction (`OneUnderWay`); each packet, each
answer, each handshake the broker holds open and each acknowledgement that `Loop` is
handling belongs to an entry of the list whose state is the one in which that may happen
(`PacketAgrees`, `ReplyAgrees`, `HeldAgrees`, `TaskAgrees`); what the broker has taken, and how
often, fits the state of the entry (`MessageAgrees`, `TakenAgrees`). None of the three safety
properties is inductive: that a PUBREC finds its message rests on the broker's handshake,
that on the PUBLISH which opened it, and that on the pass which sent it. `AgreementStep`
has one lemma per kind of step. The refinement then goes action by action
(`PromiseStep`): `PublishQueue` is `Accept`, a receipt by the broker `AtLeastOnce` or
`ExactlyOnce`, its error PUBREC `Refuse`, a reset or a forgotten session `Demote`, `AckDelete`
`Report`, and the rest is a stutter.

The second half of `PublishSessionProofs` is about the send quota, with the same hypothesis
`MidsApart`:

| Theorem | Says | From |
|---|---|---|
| `QuotaNeverLeaks` | `[]NoQuotaLeak` | `SteadyBroker` |
| `ReleasedInOrder` | `[]FifoRelease` | `SteadyBroker` |
| `DoubleAtMost` | `[]InFlightAtMostDouble` | `SteadyBroker`, `SendsSucceed` |

`SteadyBroker` is a broker that refuses no message with a PUBREC and offers one
RECEIVE_MAXIMUM, the one the client starts with. Without it `NoQuotaLeak` does not hold: the
quota read before the CONNACK's store, or before the credit for a rejected PUBREC, is
written back by a publisher, and a unit is lost (section 2). For the other two it is what the
proof needs (both rest on the account of the quota); TLC found no counterexample to them on
small instances without it. `SendsSucceed` excludes messages that have
become too big and publishing between the reset and the opening of the socket, both of
which mark a message as sent that was not and charge nothing for it; without it
`InFlightAtMostDouble` does not hold. The run
`SessionProgress` is within both.

The argument: the messages that have been sent are the first n of the list (`SentUpTo`),
because `message__release_to_inflight` marks the first that waits and `message__remove` takes
one that was sent. So one number stands for all of them, and the step of each action is
arithmetic about n, the length and the quota (`Balance`): with what a pass still owes, quota
and n make up at least the maximum, and a message waits only behind a full window.
`Windowed` is the bound from above: the quota and what is in flight make up one maximum
after the reset, and the CONNACK gives a second one. `Agreement` is needed to know that an
acknowledgement credits the quota for a message that was charged.

`InMessagesProofs` proves for any number of messages, identifiers and losses and any
receive maximum of at least 1:

| Theorem | Says |
|---|---|
| `InTypeCorrect` | `Spec => []InTypeOK` |
| `ReceiveQuotaCorrect` | `Spec => []ReceiveQuotaKept` |
| `CopiesDeliveredOnce` | `Spec => []EveryCopyOnce` |
| `AcknowledgedIsDelivered` | `Spec => []NothingLost` |
| `RefusalIsLeftOver` | `Spec => []RefusedOnlyIfLeftOver` |

Together the first three are inductive (`InInv`): the quota bound needs the length of the list,
the types need `queueLen` to be that length. `AppendCount` and `RemoveCount` say how the
number of a message's entries changes; the latter by the bijection of the entries that
remain.

The last two need `TokenInv`: at most one packet with an identifier is under way, in one
direction or the other (`OnePacket`), it is about a message the broker keeps and, unless it
is a PUBLISH, one the client has accepted (`Vouched`), and the broker keeps to distinct
identifiers and to its limit (`Kept`). What is acknowledged for good was accepted, so
by `EveryCopyOnce` it was delivered or is on the list. A refusal means that the list holds
as many entries as RECEIVE_MAXIMUM allows; were none of them left over, they would be one
each of messages the broker keeps, other than the one it sends, which it can keep only
within that maximum: `NoneLeftOver` is that count.

`OutPacketQueueProofs` proves, from `OneConnect` (the application connects at most once, for
the reason in section 4) and `QueueAssumption`, for any number of sending threads, packets
and connections and packets of any size:

| Theorem | Says |
|---|---|
| `QueueTypeCorrect` | `Spec => [](early \/ QueueTypeOK)` |
| `NothingUsedAfterFree` | `Spec => [](early \/ NoUseAfterFree)` |
| `PacketsStayWhole` | `Spec => []PacketsWhole` |
| `ConnectionsSeparate` | `Spec => []NothingCarriedOver` |
| `LeaksBounded` | `Spec => [](early \/ LeakBounded)` |

`early` is the disconnect before the first connect of section 4; it makes the network thread
reconnect besides the application, and the argument needs that they never do. `PacketsWhole` and
`NothingCarriedOver` except it themselves.

All five follow from one inductive invariant, `QueueInv`, of the states before that. Its
parts: `Roles` says which thread can be where (only the network thread and the first connect
are ever in `mosquitto__reconnect`, never both, and nothing is held there); `Watching` what
the network thread's place says of `ready` and `bytes`; `Linked` that the list is an
interval of packet numbers up to the last one linked, and that whoever has linked one and
not yet moved `out_packet_last` holds the mutex; `Owned` that list, `current`, `held` and
`freed` are apart; `Epochs` that what is alive was linked since the last cleanup; `Carried`
and `Whole` what a connection's bytes are: in order, complete but for the last, which is the
one in `current` with `left` bytes to go; `Accounted` that each packet in none of these
places has a DISCONNECT of the broker of its own. None is inductive alone: that
`out_packet_last` is right needs the mutex, that a write goes to the end of the right packet
needs the interval, and that a new connection starts empty needs both the roles and the
epochs. `StepCases` groups the steps by what they touch, so that most parts are proved per
group and not per action.

`ClientLifecycleProofs` proves for any keepalive, any intervals a broker may impose, longer or
shorter than the one asked for, and any bounds (room for at least one packet on the queue):

| Theorem | Says |
|---|---|
| `FlagCorrect` | `Spec => []FlagFollows` |
| `DismissedTwiceAtMost` | `Spec => []OnlyHangupTwice` |
| `DisconnectKept` | `Spec => DisconnectHonoured`, an action property |
| `AwaitedWasAsked` | `Spec => []AwaitedIsAsked` |
| `LifecycleTypeCorrect` | `Spec => []LifecycleTypeOK` |
| `SilenceIsNoticed` | `Spec => []DeadPeerNoticed` |

The first three need `LifecycleInv`: `Places` (the types the arguments need), `Racing`
(between the reset and the new socket there is no connection and nothing is awaited, or
both threads are there, which `raced` remembers), `Threads` (where there is none),
`Flagged` (what `connected` is at every place, not only in `select()`), `Dismissed` (how
often `on_disconnect` has been called by then) and `Parted` (what the state is when the
application wants to be disconnected). `AwaitedIsAsked` is inductive with them.

The last two need `TimedInv` besides. `Silent` bounds the silence at each place of the
network thread: until the keepalive is looked at it is what `last_msg_in` says, at the
latest at the end of the timeout `wait` of `select()`, and once a PINGREQ is awaited all of
that counts again from a `Base` of the longest interval and `timeout` less one. `Pinging`
says there is never a second PINGREQ on the queue, from which `Room` follows: the queue is
never longer than its bound and the two packets the threads may add to it.

`WireProofs` proves without any assumption that what the data types write is read
back, for every value and whatever follows it in the buffer:

| Theorem | Says |
|---|---|
| `Uint16RoundTrip` | reading after writing gives the integer and the rest of the buffer |
| `VarintLength` | the length `packet__varint_bytes` reckons is the number of bytes written |
| `VarintRoundTrip` | reading after writing gives the value and the rest of the buffer, up to 268,435,455 |
| `Uint32RoundTrip` | the same for four bytes, at any position of a buffer |
| `StringRoundTrip` | a text shorter than 65,536 bytes is read back unchanged at any position if it is valid UTF-8, and refused otherwise (from `BinaryRoundTrip`, the same without the validation) |
| `ReadersStayInside` | whatever the buffer holds, a reader that succeeds has advanced, does not stop behind the end, and returns a value of its type |

On them rest, for each kind of property and then for lists of any length, that it is read back
and that the length reckoned for it is the length written. The lists are read by a recursive
function over positions; `DownwardRecursion` of `SequenceLemmas` gives its recursive equation,
and the induction is over the properties still to be read.

From `WireAssumption` it proves, for any calls, wills, packets, pieces and connections:

| Theorem | Says |
|---|---|
| `PacketsRoundTrip` | `Spec => []RoundTrip` |
| `PacketsAsAnnounced` | `Spec => []AnnouncedIsWritten` |
| `PacketsWithinLimit` | `Spec => []OversizeByHeader` |

The first part is about one packet: for every packet that is `Wellformed` the decoder gives the
packet back, in the three versions (`WellformedDecoded`), and it is framed so that the reader
finds its end (`WellformedExact`). The second is about a connection. `RoundTrip` is not
inductive, because it says nothing of a packet that has been read in part. `IInv` does: it says
that the bytes read so far and those under way make up the packets sent and not yet handled
(`Stream`), which `in_packet` is cut into command, digits of the length and payload as far as
they have come (`Started`). Every step of the reader moves bytes from one part to the other,
and a lost connection empties both. `Blame` ties `failure` to the packet over which the
connection was closed. TLC checked `IInv` on the instance of the run before it was proved. For
the lengths, each encoder is compared with its own reckoning part by part (`Reckoned`), and the
limit follows from what `CallVerdict` and `Oversize` look at.

`SubscribersProofs` proves, from `SubscribersAssumption` and for any number of subscribers,
identifiers, user properties, messages and connections:

| Theorem | Says |
|---|---|
| `LoopMatchesByLevel` | for every valid filter, the empty one too, and every valid topic `TopicMatches`, the loop over characters, is `MatchesByLevel` |
| `SubscribersHandedAsOwed` | `Spec => []HandedAsOwed` |

The first compares two functions defined by recursion: `MatchesFrom` over the places of the
filter and of the topic, `LevelsFrom` over the places of one text. `BackwardRecursion` gives
their equations. The induction goes from the end of the filter to its beginning; its hypothesis
(`Says`) is that for every place of the topic the loop says what the levels that are left say,
but for two places that it leaves before it comes there: the end of both texts, and the end of
the topic with nothing but `/#` left of a filter. The cases are those of the loop: `+` jumps to the
end of a level, `#` takes all levels, and the three looks ahead (`foo/#`, `foo/+/#`, `foo/+`) are
where the topic comes to its end before the filter.

The second is an invariant that counts. `HandedAsOwed` bounds how often a subscriber has been
handed a message by the number of copies that are for it; the invariant `HandedOk` bounds by
that number the sum of three things: how often it was handed over, whether the subscriber has
yet to be seen by the callback that is handing the message around (`Awaits`), and how many
copies for it are under way (`InWire`). A publish adds as much on both sides, an arrival and
a hand-over move one from one place to the next, and whatever closes the connection or passes a
subscriber over makes the sum less. `OwedOk` says that a message owed is in one of the three.
For a subscriber to be passed over rightly, the reader of properties must have read what is
there: `CallbackOk` says what it has found at each turn of its loop (`Reads`), so that
when it ends it has the identifiers of the message and those of the options. That `SetToSeq`
gives different sequences for different sets of identifiers (`WhoseCopy`) ties the copy of the
broker to the comparison of the client. TLC checked the parts of the invariant on the instance
of the run before they were proved.

Every invariant and every action property of the passing runs is stated by a theorem. Not
proved, only checked by TLC, is liveness, which is beyond the prover: `EventuallyReported`,
`EventuallyAcknowledged`, `EventuallyWritten`, `Leaves`, `Recovers`, `CallbackEnds`.

## 6. Abstractions

* `OutMessages` and `InMessages` leave out payload, topic and properties of a message; its
  size is one bit. `Packets` has them.
* In `OutMessages` `send__publish`'s look at the socket and the queueing of the packet are
  one step, and `wire` stands for the packet queue. In the code a packet can also be
  queued after the network thread has emptied the queue; `OutPacketQueue` has that, byte
  by byte.
* The checks of a publish's arguments (topic, alias, UTF-8, `maximum_qos`, size) are the
  precondition of `PublishBegin`, where only the size can change its answer later; they
  are spelled out in `Packets`.
* `ClientLifecycle` counts ticks, not seconds, and knows of packets only their kind.
  Opening a connection is one step that succeeds or fails.
* In `Wire` what is written leaves at once, and a call is atomic: it is made between two
  packets that are read.
* `Subscribers` leaves out the quality of service and the acknowledgement of a SUBSCRIBE.
* Not in the model: running out of memory, changing options while connected.

## 7. Plan

What is left, in this order:

1. `QuotaNeverLeaks` with a broker that lowers its maximum: a bound on what is lost, by the
   number of CONNACKs that met a publisher.
2. `ClientLifecycle`: the growth of the reconnect delay, `mosquitto_loop_stop`.
3. `OutPacketQueue` with two calls of connect, once it is settled what the application may
   expect of one.

## 8. Not modelled, and why

Sockets (`net_mosq.c`) are operating system calls, of which the models have the outcomes;
the TLS, SOCKS and SRV files are not compiled. `logging`, `memory`, `time`, `helpers` hold no
protocol state. `uthash.h` and `utlist.h` are vendored; their lists are sequences here.

Of components that are modelled in part: `mosquitto_loop_stop` and
`mosquitto_string_to_property_info` are never called in the Swift client; the reconnect
delay is a sleep whose length no property sees, so neither does its growth show; freeing
property lists and failing allocations; `mosquitto_destroy` of the message lists; the TLS
options and the setters of callbacks of `options.c`, which store a value once;
`alias_mosq.c`, which the client does not call; and the accessors of a message in Swift,
which read fields.
