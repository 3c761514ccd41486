--------------------------- MODULE ClientLifecycle ---------------------------
(***************************************************************************)
(* A client from connect to destroy: the state of the client, the network  *)
(* thread that loops, closes and reconnects, the keepalive, and the flag   *)
(* "connected" of the Swift client.                                        *)
(*                                                                         *)
(* The application calls from one serial queue (Mosquitto.swift); the      *)
(* network thread is the one that mosquitto_loop_start creates.  Time is   *)
(* counted in ticks, of which an interval of the keepalive has a few; the  *)
(* steps of the network thread take no time unless it waits, sleeps or     *)
(* connects.  Timestamps are kept relative to now.  What the queue of      *)
(* packets and the messages do is in OutPacketQueue and OutMessages.       *)
(***************************************************************************)
EXTENDS Integers, Sequences

CONSTANTS
  Interval,        \* ticks of the keepalive that the application asks for
  NewInterval,     \* those of a client that was never connected
  ServerIntervals, \* those that a broker may impose in its CONNACK, 0 for none at all
  MaxInterval,     \* the longest of all these
  MaxOut,          \* bound: packets that are queued when the application sends another
  MaxSilence       \* bound: where the ghost silence stops counting

ASSUME LifecycleAssumption ==
  /\ MaxInterval \in Nat \ {0}
  /\ Interval \in 1..MaxInterval /\ NewInterval \in 1..MaxInterval
  /\ ServerIntervals \subseteq 0..MaxInterval
  /\ MaxOut \in Nat \ {0} /\ MaxSilence \in Nat

VARIABLES
  state,     \* mosq->state
  sock,      \* mosq->sock is a socket
  threaded,  \* mosq->threaded = mosq_ts_self
  keepalive, \* mosq->keepalive
  lastIn,    \* now - mosq->last_msg_in, up to MaxInterval
  nextOut,   \* mosq->next_msg_out - now, or 0 when it has passed
  awaiting,  \* mosq->ping_t # 0
  out,       \* the packets that are queued, by kind
  woken,     \* there is a byte in the socket pair
  app,       \* where the application is in its call
  net,       \* where the network thread is
  timeout,   \* the timeout that the network thread gives mosquitto_loop_forever
  wait,      \* what is left of the timeout of select()
  connected, \* CallbackWrapper.connected
  silence,   \* ghost: ticks since something arrived on this connection
  said,      \* ghost: packets sent on this connection that matter: "CONNECT", "PINGREQ"
  greeted,   \* ghost: a CONNACK has arrived on this connection
  goodbyes,  \* ghost: calls of on_disconnect since a connection was opened
  hungUp,    \* ghost: do_client_disconnect has ended this connection
  replaced,  \* ghost: connect has closed a connection without on_disconnect
  raced,     \* ghost: the two threads were in mosquitto__reconnect at once
  wanted,    \* ghost: the last call of the application
  excused    \* ghost: that call came while the client was connecting

clientVars == <<state, sock, threaded, keepalive>>
timeVars == <<lastIn, nextOut, awaiting>>
queueVars == <<out, woken>>
waitVars == <<timeout, wait>>
connGhosts == <<said, greeted, goodbyes, hungUp, replaced, raced>>
wishGhosts == <<wanted, excused>>
vars == <<state, sock, threaded, keepalive, lastIn, nextOut, awaiting, out, woken, app, net,
          timeout, wait, connected, silence, said, greeted, goodbyes, hungUp, replaced, raced,
          wanted, excused>>

States == {"new", "pending", "connected", "active", "disconnected"}
AppPlaces == {"idle", "connect", "reset", "open", "disconnect", "joining", "freed"}
\* Where mosquitto_loop_read goes on says whether mosquitto_loop_write follows
ReadPlaces == {"read", "read, write"}
NetPlaces == ReadPlaces \cup
             {"none", "waiting", "loop", "select", "write", "misc", "over", "sleep",
              "reset", "open", "ended"}
PacketKinds == {"CONNECT", "PINGREQ", "DISCONNECT", "other"}

AtMost(n, bound) == IF n > bound THEN bound ELSE n

\* Mutant: the timeout of select() is not cut off at 0
NotCutOff(n) == n - 1
Before(n) == IF n > 0 THEN n - 1 ELSE 0

\* mosquitto_lib_init, mosquitto_new, mosquitto_reinitialise
Init ==
  /\ state = "new" /\ sock = FALSE /\ threaded = FALSE /\ keepalive = NewInterval
  /\ lastIn = 0 /\ nextOut = NewInterval /\ awaiting = FALSE
  /\ out = <<>> /\ woken = FALSE
  /\ app = "idle" /\ net = "none" /\ timeout = 0 /\ wait = 0
  /\ connected = FALSE
  /\ silence = 0 /\ said = {} /\ greeted = FALSE /\ goodbyes = 0
  /\ hungUp = FALSE /\ replaced = FALSE /\ raced = FALSE
  /\ wanted = "nothing" /\ excused = FALSE

\* packet__queue: linked, and the network thread is woken up
Queue(kind) ==
  /\ out' = Append(out, kind)
  /\ woken' = TRUE

\* Mutant: the flag is left as it is
FlagKept ==
  /\ UNCHANGED connected
  /\ replaced' = FALSE
  /\ goodbyes' = AtMost(goodbyes + 1, 3)

\* on_disconnect, as Mosquitto.swift sets it
OnDisconnect ==
  /\ connected' = FALSE
  /\ replaced' = FALSE
  /\ goodbyes' = AtMost(goodbyes + 1, 3)

-----------------------------------------------------------------------------
(* mosquitto__reconnect, by "app" or by "net"                              *)

\* Mutant: the PINGREQ of the last connection is still awaited
StillAwaiting == awaiting
NotAwaiting == FALSE

\* The times, the packets and the old socket are cleared; other is where the other thread is
ReconnectReset(other) ==
  /\ lastIn' = 0
  /\ nextOut' = keepalive
  /\ awaiting' = NotAwaiting
  /\ out' = <<>>
  /\ sock' = FALSE
  /\ replaced' = (replaced \/ (sock /\ connected))
  /\ raced' = (other = "open")
  /\ UNCHANGED <<state, threaded, keepalive, woken, waitVars, connected, silence, said, greeted,
                 goodbyes, hungUp, wishGhosts>>

\* net__socket_connect succeeds and send__connect queues the CONNECT, whatever the state has
\* become meanwhile
SocketOpens ==
  /\ sock' = TRUE
  /\ state' = "connected"
  /\ Queue("CONNECT")
  /\ silence' = 0
  /\ said' = {} /\ greeted' = FALSE /\ goodbyes' = 0 /\ hungUp' = FALSE
  /\ UNCHANGED <<threaded, keepalive, timeVars, waitVars, connected, replaced, raced,
                 wishGhosts>>

SocketFails ==
  /\ state' = "pending"
  /\ UNCHANGED <<sock, threaded, keepalive, timeVars, queueVars, waitVars, connected, silence,
                 connGhosts, wishGhosts>>

-----------------------------------------------------------------------------
(* The application                                                         *)

\* Mosquitto.connect: setupMosquitto starts the thread, unless one was ever started
AppConnect ==
  /\ app = "idle"
  /\ app' = "connect"
  /\ threaded' = TRUE
  /\ net' = IF threaded THEN net ELSE "waiting"
  /\ UNCHANGED <<state, sock, keepalive, timeVars, queueVars, waitVars, connected, silence,
                 connGhosts, wishGhosts>>

\* mosquitto__connect_init; the state is new again
AppConnectInit ==
  /\ app = "connect"
  /\ app' = "reset"
  /\ keepalive' = Interval
  /\ state' = "new"
  /\ wanted' = "connect" /\ excused' = FALSE
  /\ UNCHANGED <<sock, threaded, timeVars, queueVars, net, waitVars, connected, silence,
                 connGhosts>>

AppReset == app = "reset" /\ app' = "open" /\ ReconnectReset(net) /\ UNCHANGED net
AppOpens == app = "open" /\ app' = "idle" /\ SocketOpens /\ UNCHANGED net
AppFails == app = "open" /\ app' = "idle" /\ SocketFails /\ UNCHANGED net

\* Any other call that sends a packet
AppSend ==
  /\ app = "idle"
  /\ sock
  /\ Len(out) < MaxOut
  /\ Queue("other")
  /\ UNCHANGED <<clientVars, timeVars, app, net, waitVars, connected, silence, connGhosts,
                 wishGhosts>>

\* mosquitto_disconnect_v5: the state first.  On a connection the bound MaxOut is kept.
AppDisconnect ==
  /\ app = "idle"
  /\ sock => Len(out) < MaxOut
  /\ app' = "disconnect"
  /\ excused' = ((sock /\ ~greeted) \/ net \in {"reset", "open"})
  /\ wanted' = "disconnect"
  /\ state' = "disconnected"
  /\ UNCHANGED <<sock, threaded, keepalive, timeVars, queueVars, net, waitVars, connected,
                 silence, connGhosts>>

AppSendDisconnect ==
  /\ app = "disconnect"
  /\ app' = "idle"
  /\ IF sock THEN Queue("DISCONNECT") ELSE UNCHANGED queueVars
  /\ UNCHANGED <<clientVars, timeVars, net, waitVars, connected, silence, connGhosts,
                 wishGhosts>>

\* mosquitto_destroy: the thread is cancelled and joined, what is left is freed
AppDestroy ==
  /\ app = "idle"
  /\ app' = "joining"
  /\ UNCHANGED <<clientVars, timeVars, queueVars, net, waitVars, connected, silence, connGhosts,
                 wishGhosts>>

AppJoined ==
  /\ app = "joining"
  /\ threaded => net = "ended"
  /\ app' = "freed"
  /\ threaded' = FALSE /\ sock' = FALSE /\ out' = <<>> /\ awaiting' = FALSE
  /\ UNCHANGED <<state, keepalive, lastIn, nextOut, woken, net, waitVars, connected, silence,
                 connGhosts, wishGhosts>>

AppSteps ==
  \/ AppConnectInit
  \/ AppReset
  \/ AppOpens
  \/ AppFails
  \/ AppSendDisconnect
  \/ AppJoined

-----------------------------------------------------------------------------
(* mosquitto__thread_main and mosquitto_loop_forever                       *)

\* The network thread moves on and touches nothing else
Goes(place) ==
  /\ net' = place
  /\ UNCHANGED <<clientVars, timeVars, app, connected, silence, connGhosts, wishGhosts>>

\* Mutant: the socket is not closed
HangsOpen(place) ==
  /\ sock' = sock
  /\ net' = place
  /\ OnDisconnect
  /\ UNCHANGED <<state, threaded, timeVars, queueVars, app, waitVars, silence, said, greeted,
                 hungUp, raced, wishGhosts>>

\* mosquitto__loop_rc_handle with an error, or the close of the keepalive
Closes(place) ==
  /\ sock' = FALSE
  /\ net' = place
  /\ OnDisconnect
  /\ UNCHANGED <<state, threaded, timeVars, queueVars, app, waitVars, silence, said, greeted,
                 hungUp, raced, wishGhosts>>

Hangs(place) == Closes(place) /\ UNCHANGED keepalive

\* An error that is no longer one when the application has disconnected
After(place) == IF state = "disconnected" THEN "loop" ELSE place

\* The keepalive of now is the timeout for good
ThreadStarts ==
  /\ net = "waiting"
  /\ state # "new"
  /\ timeout' = keepalive /\ wait' = 0
  /\ Goes("loop")
  /\ UNCHANGED queueVars

\* mosquitto_loop: nothing to wait for, or up to select()
LoopNoConn == net = "loop" /\ ~sock /\ Goes("over") /\ UNCHANGED <<queueVars, waitVars>>

LoopSelect ==
  /\ net = "loop"
  /\ sock
  /\ wait' = AtMost(nextOut, timeout)
  /\ Goes("select")
  /\ UNCHANGED <<timeout, queueVars>>

\* select() returns: the timeout, a byte in the socket pair, room to write, or data
SelectTimeout == net = "select" /\ wait = 0 /\ Goes("misc") /\ UNCHANGED <<queueVars, waitVars>>

SelectWoken ==
  /\ net = "select"
  /\ woken
  /\ woken' = FALSE
  /\ Goes(IF sock THEN "write" ELSE "misc")
  /\ UNCHANGED <<out, waitVars>>

SelectWritable ==
  /\ net = "select"
  /\ out # <<>>
  /\ woken' = FALSE
  /\ Goes(IF sock THEN "write" ELSE "misc")
  /\ UNCHANGED <<out, waitVars>>

SelectReadable ==
  /\ net = "select"
  /\ woken' = FALSE
  /\ \E both \in {woken, woken \/ out # <<>>} :
       Goes(IF ~sock THEN "misc" ELSE IF both THEN "read, write" ELSE "read")
  /\ UNCHANGED <<out, waitVars>>

\* mosquitto_loop_misc and mosquitto__check_keepalive
\* Mutant: only what was sent last counts
OutDue == keepalive # 0 /\ nextOut = 0
KeepaliveDue == keepalive # 0 /\ (nextOut = 0 \/ lastIn >= keepalive)

MiscNoConn == net = "misc" /\ ~sock /\ Goes("over") /\ UNCHANGED <<queueVars, waitVars>>

MiscNothing ==
  /\ net = "misc"
  /\ sock
  /\ ~KeepaliveDue
  /\ Goes("loop")
  /\ UNCHANGED <<queueVars, waitVars>>

\* Mutant: a client that has disconnected is left alone
GivesUpIfConnected == state \notin {"active", "disconnected"} \/ awaiting
GivesUp == state # "active" \/ awaiting

MiscPings ==
  /\ net = "misc"
  /\ sock
  /\ KeepaliveDue
  /\ state = "active" /\ ~awaiting
  /\ Queue("PINGREQ")
  /\ awaiting' = TRUE
  /\ lastIn' = 0
  /\ nextOut' = keepalive
  /\ net' = "loop"
  /\ UNCHANGED <<clientVars, app, waitVars, connected, silence, connGhosts, wishGhosts>>

MiscCloses ==
  /\ net = "misc"
  /\ sock
  /\ KeepaliveDue
  /\ GivesUp
  /\ Hangs("over")

\* The loop has failed with an error that is not fatal
OverEnds ==
  /\ net = "over"
  /\ state = "disconnected"
  /\ Goes("ended")
  /\ UNCHANGED <<queueVars, waitVars>>

OverSleeps ==
  /\ net = "over"
  /\ state # "disconnected"
  /\ Goes("sleep")
  /\ UNCHANGED <<queueVars, waitVars>>

\* Mutant: the sleep ends by a byte in the socket pair only
SleepWoken == woken
SleepOver == TRUE

\* Mutant: the state is not looked at again after the sleep
Awake == "reset"
AfterSleep == IF state = "disconnected" THEN "ended" ELSE "reset"

SleepEnds ==
  /\ net = "sleep"
  /\ SleepOver
  /\ woken' = FALSE
  /\ Goes(AfterSleep)
  /\ UNCHANGED <<out, waitVars>>

NetReset == net = "reset" /\ net' = "open" /\ ReconnectReset(app) /\ UNCHANGED app
NetOpens == net = "open" /\ net' = "loop" /\ SocketOpens /\ UNCHANGED app
NetFails == net = "open" /\ net' = "over" /\ SocketFails /\ UNCHANGED app

-----------------------------------------------------------------------------
(* mosquitto_loop_read: packet__read and the handlers                      *)

\* After the packets
Onwards == IF net = "read" THEN "misc" ELSE "write"

\* The loop over the packets that wait goes round again, or on; a closed socket ends
\* mosquitto_loop
ReadNext(open) == net' \in {net, IF open THEN Onwards ELSE "loop"}

\* packet__read gets to the socket
CanRead == net \in ReadPlaces /\ sock /\ state # "pending"

\* A packet has been handled
Heard ==
  /\ lastIn' = 0
  /\ silence' = 0

ReadNoConn == net \in ReadPlaces /\ ~sock /\ Hangs(After("over"))

\* Nothing to read any more
ReadNothing ==
  /\ net \in ReadPlaces
  /\ sock
  /\ Goes(Onwards)
  /\ UNCHANGED <<queueVars, waitVars>>

ReadLost == CanRead /\ Hangs(After("over"))

\* A packet that is malformed, or that is not expected in this state: MOSQ_ERR_PROTOCOL,
\* which is fatal
ReadProtocolError ==
  /\ CanRead
  /\ Hangs(After("ended"))

\* handle__connack, accepted; a broker of MQTT 5 may impose its keepalive
ReadConnack ==
  /\ CanRead
  /\ "CONNECT" \in said /\ ~greeted
  /\ keepalive' \in {keepalive} \cup ServerIntervals
  /\ state' = "active"
  /\ connected' = TRUE
  /\ greeted' = TRUE
  /\ replaced' = FALSE
  /\ Heard
  /\ ReadNext(TRUE)
  /\ UNCHANGED <<sock, threaded, nextOut, awaiting, queueVars, app, waitVars, said, goodbyes,
                 hungUp, raced, wishGhosts>>

\* Refused: the keepalive is taken over and on_connect sets the flag all the same, then the
\* socket is closed.  The reasons of MQTT 3 are tried again, those of MQTT 5 are
\* MOSQ_ERR_PROTOCOL.
ReadConnackRefused ==
  /\ CanRead
  /\ "CONNECT" \in said /\ ~greeted
  /\ keepalive' \in {keepalive} \cup ServerIntervals
  /\ \E place \in {"over", "ended"} : Closes(After(place))

\* handle__pingresp
ReadPingresp ==
  /\ CanRead
  /\ state = "active"
  /\ "PINGREQ" \in said
  /\ awaiting' = FALSE
  /\ said' = said \ {"PINGREQ"}
  /\ Heard
  /\ ReadNext(TRUE)
  /\ UNCHANGED <<clientVars, nextOut, queueVars, app, waitVars, connected, greeted, goodbyes,
                 hungUp, replaced, raced, wishGhosts>>

\* Any other packet, or the greater part of one
ReadOther ==
  /\ CanRead
  /\ state = "active"
  /\ Heard
  /\ ReadNext(TRUE)
  /\ UNCHANGED <<clientVars, nextOut, awaiting, queueVars, app, waitVars, connected, connGhosts,
                 wishGhosts>>

\* do_client_disconnect
HangUp ==
  /\ state' = "disconnected"
  /\ sock' = FALSE
  /\ nextOut' = keepalive
  /\ hungUp' = TRUE
  /\ OnDisconnect

\* handle__disconnect, MQTT 5
ReadDisconnect ==
  /\ CanRead
  /\ greeted
  /\ HangUp
  /\ Heard
  /\ ReadNext(FALSE)
  \* the packet that is half written is gone
  /\ out' \in {out} \cup (IF out = <<>> THEN {} ELSE {Tail(out)})
  /\ UNCHANGED <<threaded, keepalive, awaiting, woken, app, waitVars, said, greeted, raced,
                 wishGhosts>>

Reading ==
  \/ ReadNoConn
  \/ ReadNothing
  \/ ReadLost
  \/ ReadProtocolError
  \/ ReadConnack
  \/ ReadConnackRefused
  \/ ReadPingresp
  \/ ReadOther
  \/ ReadDisconnect

-----------------------------------------------------------------------------
(* mosquitto_loop_write and packet__write                                  *)

WriteNoConn == net = "write" /\ ~sock /\ Hangs(After("over"))

\* Nothing to write, the socket is full, or a reconnect of the other thread has failed
WriteNothing ==
  /\ net = "write"
  /\ sock
  /\ Goes("misc")
  /\ UNCHANGED <<queueVars, waitVars>>

CanWrite == net = "write" /\ sock /\ state # "pending" /\ out # <<>>

WriteLost == CanWrite /\ Hangs(After("over"))

WritePacket ==
  /\ CanWrite
  /\ Head(out) # "DISCONNECT"
  /\ out' = Tail(out)
  /\ nextOut' = keepalive
  /\ said' = said \cup ({Head(out)} \cap {"CONNECT", "PINGREQ"})
  /\ UNCHANGED <<clientVars, lastIn, awaiting, woken, app, net, waitVars, connected, silence,
                 greeted, goodbyes, hungUp, replaced, raced, wishGhosts>>

\* The loop over the packets goes round once more, or ends with the socket
WriteDisconnect ==
  /\ CanWrite
  /\ Head(out) = "DISCONNECT"
  /\ out' = Tail(out)
  /\ HangUp
  /\ net' \in {"write", "loop"}
  /\ UNCHANGED <<threaded, keepalive, lastIn, awaiting, woken, app, waitVars, silence, said,
                 greeted, raced, wishGhosts>>

Writing ==
  \/ WriteNoConn
  \/ WriteNothing
  \/ WriteLost
  \/ WritePacket
  \/ WriteDisconnect

\* mosquitto_destroy cancels the thread wherever it is
Cancelled ==
  /\ app = "joining"
  /\ net \notin {"none", "ended"}
  /\ Goes("ended")
  /\ UNCHANGED <<queueVars, waitVars>>

\* What the network thread does of itself; what the sockets do to select() is apart
NetSteps ==
  \/ ThreadStarts
  \/ LoopNoConn \/ LoopSelect
  \/ SelectTimeout \/ SelectWoken
  \/ MiscNoConn \/ MiscNothing \/ MiscPings \/ MiscCloses
  \/ OverEnds \/ OverSleeps \/ SleepEnds
  \/ NetReset \/ NetOpens \/ NetFails
  \/ Reading
  \/ Writing
  \/ Cancelled

\* Time passes while the network thread waits, connects, or is not there
Tick ==
  /\ \/ net \in {"none", "ended", "open"}
     \/ net = "select" /\ ~woken /\ (wait > 0 \/ keepalive = 0)
  /\ lastIn' = AtMost(lastIn + 1, MaxInterval)
  /\ nextOut' = Before(nextOut)
  /\ wait' = Before(wait)
  /\ silence' = AtMost(silence + 1, MaxSilence)
  /\ UNCHANGED <<clientVars, awaiting, queueVars, app, net, timeout, connected, connGhosts,
                 wishGhosts>>

Next ==
  \/ AppConnect \/ AppSend \/ AppDisconnect \/ AppDestroy
  \/ AppSteps
  \/ NetSteps
  \/ SelectWritable \/ SelectReadable
  \/ Tick

Spec == Init /\ [][Next]_vars

-----------------------------------------------------------------------------
(* Properties                                                              *)

\* The types.
LifecycleTypeOK ==
  /\ state \in States
  /\ {sock, threaded, awaiting, woken, connected} \subseteq BOOLEAN
  /\ keepalive \in 0..MaxInterval
  /\ {lastIn, nextOut, timeout, wait} \subseteq 0..MaxInterval
  /\ out \in Seq(PacketKinds) /\ Len(out) <= MaxOut + 2
  /\ app \in AppPlaces /\ net \in NetPlaces
  /\ silence \in 0..MaxSilence
  /\ said \subseteq {"CONNECT", "PINGREQ"}
  /\ {greeted, hungUp, replaced, raced, excused} \subseteq BOOLEAN
  /\ goodbyes \in 0..3
  /\ wanted \in {"nothing", "connect", "disconnect"}

\* When the application has disconnected, no connection is opened any more.  Excused: the
\* client was connecting when it was called, and its state is overwritten by the end of
\* mosquitto__reconnect or by the CONNACK (loop.c:289-321, connect.c:187-200,
\* handle_connack.c:110-117).
DisconnectHonoured == [][~sock /\ sock' => wanted # "disconnect" \/ excused]_vars

\* Whenever the network thread waits in select() the flag "connected" says whether a CONNACK
\* has been accepted on this connection.  Not so after connect was called while connected:
\* the old socket is closed without on_disconnect (Mosquitto.swift:131-141, loop.c:335-359).
FlagFollows ==
  net = "select" /\ sock /\ ~replaced /\ ~raced => (connected <=> greeted)

\* on_disconnect is called once for a connection, except that one ended by
\* do_client_disconnect may be reported again, when mosquitto_loop_read or
\* mosquitto_loop_write goes round (loop.c:335-359, loop.c:384-398, loop.c:418-426).
OnlyHangupTwice == goodbyes <= IF hungUp THEN 2 ELSE 1

\* A broker that has fallen silent is noticed: a connection is up for at most twice the
\* longest interval and the timeout of select() together while nothing arrives.  Not for two
\* intervals: what the application sends puts off the moment at which select() times out and
\* the silence is looked at, and a keepalive that the CONNACK has shortened does not bring
\* that moment forward (util_mosq.c:63-130, loop.c:108-117, packet_mosq.c:300-304,
\* handle_connack.c:102).
DeadPeerNoticed ==
  net = "select" /\ app = "idle" /\ sock /\ keepalive # 0 =>
    silence <= 2 * (MaxInterval + timeout) - 2

\* A PINGRESP is awaited only when a PINGREQ is queued or was sent on this connection and
\* is not answered: the keepalive never closes a connection for the silence of the one
\* before it (connect.c:167-175, util_mosq.c:94-100, handle_ping.c:68).
AwaitedIsAsked ==
  sock /\ awaiting => "PINGREQ" \in said \/ (\E i \in DOMAIN out : out[i] = "PINGREQ") \/ raced

\* Without a connection the network thread connects again; it ends instead only if the
\* client has disconnected or is being destroyed (loop.c:285-321).
Recovers ==
  net = "over" ~> sock \/ (net = "ended" /\ (state = "disconnected" \/ app \in {"joining", "freed"}))

\* After disconnect the network thread ends, even if the broker never takes the DISCONNECT:
\* the keepalive closes the socket then.  Not if it is switched off, if the call is excused
\* as above, or if the application connects again (loop.c:285-321, util_mosq.c:91-127,
\* packet_mosq.c:283-288).
Leaves ==
  wanted = "disconnect" /\ ~excused /\ threaded /\ keepalive # 0
    ~> net = "ended" \/ wanted # "disconnect"

\* Calls return, the network thread runs, time goes on, a connection is accepted sooner or
\* later.  Nothing is assumed of what the broker sends or takes.
FairSpec ==
  /\ Spec
  /\ WF_vars(AppSteps) /\ WF_vars(NetSteps) /\ WF_vars(Cancelled)
  /\ SF_vars(Tick)
  /\ SF_vars(NetOpens)

=============================================================================
