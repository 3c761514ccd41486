--------------------------- MODULE OutPacketQueue ---------------------------
(***************************************************************************)
(* The queue of outgoing packets: out_packet, out_packet_last,             *)
(* current_out_packet, the two mutexes over them, and the socket pair that *)
(* wakes the network thread.                                               *)
(*                                                                         *)
(* Any thread queues packets (packet__queue).  The network thread takes    *)
(* them off and writes them, in pieces when the socket is full             *)
(* (packet__write); whoever connects empties the queue                     *)
(* (packet__cleanup_all).  A DISCONNECT, sent or received, ends the        *)
(* connection in do_client_disconnect.                                     *)
(*                                                                         *)
(* Packets are numbered in the order in which they are linked.  The list   *)
(* is the sequence that can be reached from out_packet; out_packet_last is *)
(* kept apart, as a pointer that may point elsewhere.                      *)
(***************************************************************************)
EXTENDS Integers, Sequences, FiniteSets, SequencesExt

CONSTANTS
  Senders,      \* threads of the application that send and connect
  Net,          \* the network thread
  Free,         \* holder of a mutex that nobody holds
  Connector,    \* the sender that connects: the Swift client has one serial queue
  Size,         \* bytes of a packet
  MaxPackets,   \* bound: packets other than CONNECT
  MaxEarly,     \* bound: those when the network thread has started too early
  MaxConns,     \* bound: connections
  MaxAppConnects \* bound: calls of connect by the application

Threads == Senders \cup {Net}

ASSUME QueueAssumption ==
  /\ Net \notin Senders
  /\ Free \notin Threads
  /\ Connector \in Senders
  /\ Size \in Nat \ {0}
  /\ {MaxPackets, MaxConns, MaxAppConnects} \subseteq Nat /\ MaxEarly \in 0..MaxPackets

VARIABLES
  list,      \* packets reachable from mosq->out_packet
  last,      \* mosq->out_packet_last, 0 for NULL
  current,   \* mosq->current_out_packet, 0 for NULL
  kinds,     \* what packet number i is, in the order of linking
  left,      \* packet->to_process
  freed,     \* packets given back to the allocator
  outMutex,  \* holder of mosq->out_packet_mutex
  curMutex,  \* holder of mosq->current_out_packet_mutex
  call,      \* where a thread is in packet__queue or in mosquitto__reconnect
  draft,     \* the kind of the packet a thread is queueing
  mine,      \* the number of that packet, once it is linked
  netPc,     \* where the network thread is
  ready,     \* what select() has reported, or the descriptors it watches
  held,      \* the local variable packet of packet__write
  state,     \* mosq->state
  sock,      \* mosq->sock: 0, or the number of the connection
  conns,     \* connections opened so far
  bytes,     \* bytes in the socket pair
  wires,     \* ghost: per connection the packets whose bytes were written
  born,      \* ghost: the epoch in which packet i was linked
  epoch,     \* ghost: the connection that the last packet__cleanup_all was for
  hangups,   \* ghost: DISCONNECT packets of the broker
  early,     \* ghost: the network thread started before connect had set the state
  asked,     \* packets asked for so far
  appConnects \* calls of connect so far

listVars == <<list, last, current, kinds, left, freed>>
mutexVars == <<outMutex, curMutex>>
netVars == <<netPc, ready, held>>
sockVars == <<state, sock, conns>>
ghostVars == <<wires, born, epoch, hangups, early>>
boundVars == <<asked, appConnects>>
vars == <<list, last, current, kinds, left, freed, outMutex, curMutex, call, draft,
          mine, netPc, ready, held, state, sock, conns, bytes, wires, born, epoch,
          hangups, early, asked, appConnects>>

Kinds == {"CONNECT", "PUBLISH", "DISCONNECT", "other"}
States == {"new", "pending", "connected", "disconnected"}
Calls == {"none", "queue", "linked", "wake", "start", "reset", "clean", "close", "open"}
Places == {"waiting", "loop", "select", "read", "write", "writing", "written", "advance",
           "hangup", "unlock", "over", "sleep", "reconnect", "ended"}
Conns == 1..MaxConns
Packets == 1..Len(kinds)

\* mosquitto_reinitialise.  The network thread waits from the first connect on.
Init ==
  /\ list = <<>> /\ last = 0 /\ current = 0
  /\ kinds = <<>> /\ left = <<>> /\ freed = {}
  /\ outMutex = Free /\ curMutex = Free
  /\ call = [t \in Threads |-> "none"]
  /\ draft = [t \in Threads |-> "other"]
  /\ mine = [t \in Threads |-> 0]
  /\ netPc = "waiting" /\ ready = {} /\ held = 0
  /\ state = "new" /\ sock = 0 /\ conns = 0
  /\ bytes = 0
  /\ wires = [c \in Conns |-> <<>>]
  /\ born = <<>> /\ epoch = 0 /\ hangups = 0 /\ early = FALSE
  /\ asked = 0 /\ appConnects = 0

At(t, step) == call[t] = step
Go(t, step) == call' = [call EXCEPT ![t] = step]

-----------------------------------------------------------------------------
(* packet__queue                                                           *)

\* A call that sends a packet of kind k finds the socket open
Starts(t, k) ==
  /\ At(t, "none")
  /\ sock # 0
  /\ asked < IF early THEN MaxEarly ELSE MaxPackets
  /\ asked' = asked + 1
  /\ Go(t, "queue")
  /\ draft' = [draft EXCEPT ![t] = k]

\* mosquitto_publish_v5 of QoS 0: send__publish looks at the socket
Send(t) ==
  /\ t \in Senders
  /\ Starts(t, "PUBLISH")
  /\ UNCHANGED <<listVars, mutexVars, mine, netVars, sockVars, bytes, ghostVars, appConnects>>

\* mosquitto_disconnect_v5: the state first, whether or not there is a socket
Disconnect(t) ==
  /\ t \in Senders
  /\ state' = "disconnected"
  /\ \/ Starts(t, "DISCONNECT")
     \/ At(t, "none") /\ sock = 0 /\ UNCHANGED <<call, draft, asked>>
  /\ UNCHANGED <<listVars, mutexVars, mine, netVars, sock, conns, bytes, ghostVars, appConnects>>

\* Mutant: the packet is linked without the mutex
LinkUnlocked(t) == At(t, "queue")

QueueLock(t) == At(t, "queue") /\ outMutex = Free

\* What is reachable from out_packet once p is behind the last packet: if that one is
\* not on the list, p is out of reach
LinkedAfter(p) ==
  IF list = <<>> THEN <<p>>
  ELSE IF last \in ToSet(list)
       THEN Append(SubSeq(list, 1, CHOOSE i \in DOMAIN list : list[i] = last), p)
       ELSE list

QueueLink(t) ==
  /\ QueueLock(t)
  /\ outMutex' = t
  /\ Go(t, "linked")
  /\ kinds' = Append(kinds, draft[t])
  /\ left' = Append(left, Size)
  /\ mine' = [mine EXCEPT ![t] = Len(kinds) + 1]
  /\ list' = LinkedAfter(Len(kinds) + 1)
  /\ born' = Append(born, epoch)
  /\ UNCHANGED <<last, current, freed, curMutex, draft, netVars, sockVars, bytes,
                 wires, epoch, hangups, early, boundVars>>

QueueLast(t) ==
  /\ At(t, "linked")
  /\ last' = mine[t]
  /\ outMutex' = Free
  /\ Go(t, "wake")
  /\ UNCHANGED <<list, current, kinds, left, freed, curMutex, draft, mine, netVars,
                 sockVars, bytes, ghostVars, boundVars>>

\* Mutant: nobody is woken up
NotWoken == bytes

\* A byte into sockpairW; the client is threaded, so the packet is not written here
Woken == bytes + 1

QueueWake(t) ==
  /\ At(t, "wake")
  /\ bytes' = Woken
  /\ Go(t, "none")
  /\ draft' = [draft EXCEPT ![t] = "other"]
  /\ mine' = [mine EXCEPT ![t] = 0]
  /\ UNCHANGED <<listVars, mutexVars, netVars, sockVars, ghostVars, boundVars>>

Queueing(t) == QueueLink(t) \/ QueueLast(t) \/ QueueWake(t)

-----------------------------------------------------------------------------
(* mosquitto__reconnect, by the network thread or by a call of connect     *)

\* Mosquitto.connect: setupMosquitto starts the network thread, unless it was ever started
AppStarts ==
  /\ At(Connector, "none")
  /\ appConnects < MaxAppConnects
  /\ appConnects' = appConnects + 1
  /\ Go(Connector, "start")
  /\ UNCHANGED <<listVars, mutexVars, draft, mine, netVars, sockVars, bytes, ghostVars,
                 asked>>

\* mosquitto_connect_bind_v5
AppConnect ==
  /\ At(Connector, "start")
  /\ state' = "new"
  /\ Go(Connector, "reset")
  /\ UNCHANGED <<listVars, mutexVars, draft, mine, netVars, sock, conns, bytes, ghostVars,
                 boundVars>>

\* packet__cleanup_all: the two mutexes in this order
CleanupLock(t) ==
  /\ At(t, "reset")
  /\ curMutex = Free
  /\ curMutex' = t
  /\ Go(t, "clean")
  /\ UNCHANGED <<listVars, outMutex, draft, mine, netVars, sockVars, bytes, ghostVars,
                 boundVars>>

\* pthread_mutex_unlock of current_out_packet_mutex by t.  Unlocking a mutex that another
\* thread holds is undefined: it is released or nothing happens.
UnlockCurrent(t) ==
  curMutex' \in IF curMutex \in {t, Free} THEN {Free} ELSE {curMutex, Free}

\* Mutant: the packet that is half written survives
KeptCurrent == current
ClearedCurrent == 0

\* Mutant: the packet that is half written is forgotten
DroppedList == ToSet(list)
Dropped == ToSet(list) \cup ({current} \ {0})

\* Everything is freed; out_packet_last keeps pointing at what was freed
Cleanup(t) ==
  /\ At(t, "clean")
  /\ outMutex = Free
  /\ freed' = freed \cup Dropped
  /\ list' = <<>>
  /\ current' = ClearedCurrent
  /\ UnlockCurrent(t)
  /\ epoch' = conns + 1
  /\ Go(t, "close")
  /\ UNCHANGED <<last, kinds, left, outMutex, draft, mine, netVars, sockVars, bytes, wires,
                 born, hangups, early, boundVars>>

\* message__reconnect_reset is in OutMessages; the old socket is closed
CloseOld(t) ==
  /\ At(t, "close")
  /\ sock' = 0
  /\ Go(t, "open")
  /\ UNCHANGED <<listVars, mutexVars, draft, mine, netVars, state, conns, bytes, ghostVars,
                 boundVars>>

\* Where the network thread goes on when it has reconnected
Resumes(t, place) == netPc' = IF t = Net THEN place ELSE netPc

OpenFails(t) ==
  /\ At(t, "open")
  /\ state' = "pending"
  /\ Go(t, "none")
  /\ Resumes(t, "over")
  /\ UNCHANGED <<listVars, mutexVars, draft, mine, ready, held, sock, conns, bytes,
                 ghostVars, boundVars>>

\* net__socket_connect, then send__connect queues the CONNECT
Open(t) ==
  /\ At(t, "open")
  /\ conns < MaxConns
  /\ conns' = conns + 1
  /\ sock' = conns + 1
  /\ state' = "connected"
  /\ Go(t, "queue")
  /\ draft' = [draft EXCEPT ![t] = "CONNECT"]
  /\ Resumes(t, "loop")
  /\ UNCHANGED <<listVars, mutexVars, mine, ready, held, bytes, ghostVars, boundVars>>

Reconnecting(t) ==
  \/ CleanupLock(t)
  \/ Cleanup(t)
  \/ CloseOld(t)
  \/ OpenFails(t)
  \/ Open(t)

-----------------------------------------------------------------------------
(* The network thread: mosquitto__thread_main and mosquitto_loop_forever   *)

\* It goes on when no call of packet__queue by a handler or a callback is under way
NetAt(place) == netPc = place /\ At(Net, "none")

\* A step of the network thread that only moves on
MovesOn(place) ==
  /\ netPc' = place
  /\ UNCHANGED <<listVars, mutexVars, call, draft, mine, held, sockVars, ghostVars, boundVars>>

\* It waits for the first mosquitto__reconnect to end, but a disconnect before the first
\* connect is enough
ThreadStarts ==
  /\ NetAt("waiting")
  /\ appConnects > 0
  /\ state # "new"
  /\ netPc' = "loop"
  /\ early' = (early \/ At(Connector, "start"))
  /\ UNCHANGED <<listVars, mutexVars, call, draft, mine, ready, held, sockVars, bytes, wires,
                 born, epoch, hangups, boundVars>>

\* mosquitto_loop, packet__read and packet__write find no socket.  In the later two places
\* another thread has closed it: a connect while the client is connected.
NoConn ==
  /\ NetAt("loop") \/ NetAt("read") \/ NetAt("write")
  /\ sock = 0
  /\ MovesOn("over")
  /\ ready' = {}
  /\ UNCHANGED bytes

\* The descriptors for select(): writing only when there is something to write
Watched == IF list # <<>> \/ current # 0 THEN {"write"} ELSE {}

\* mosquitto_loop up to select(), under both mutexes
LoopSelect ==
  /\ NetAt("loop")
  /\ sock # 0
  /\ curMutex = Free /\ outMutex = Free
  /\ ready' = Watched
  /\ MovesOn("select")
  /\ UNCHANGED bytes

\* select() returns: a byte in the socket pair is always seen, the socket when the broker
\* has sent something or takes something
Selected ==
  /\ NetAt("select")
  /\ \E r \in SUBSET ({"read"} \cup ready) :
       LET seen == r \cup (IF bytes > 0 THEN {"wake"} ELSE {}) IN
       /\ seen # {}
       /\ ready' = seen
  /\ MovesOn("read")
  /\ UNCHANGED bytes

\* The timeout, an interval of the keepalive, or a signal: mosquitto_loop_misc only
SelectTimesOut ==
  /\ NetAt("select")
  /\ ready' = {}
  /\ MovesOn("loop")
  /\ UNCHANGED bytes

\* Mutant: a byte is taken whether or not there is one
DrainAlways ==
  /\ bytes' = bytes - 1
  /\ ready' = {}
  /\ netPc' = IF ready \cap {"wake", "write"} # {} THEN "write" ELSE "loop"

\* The byte is read; with it the socket counts as writable
AfterRead ==
  /\ bytes' = IF "wake" \in ready THEN bytes - 1 ELSE bytes
  /\ ready' = {}
  /\ netPc' = IF ready \cap {"wake", "write"} # {} THEN "write" ELSE "loop"

\* Nothing to read, or a packet that is not answered
ReadNothing ==
  /\ NetAt("read")
  /\ sock # 0
  /\ AfterRead
  /\ UNCHANGED <<listVars, mutexVars, call, draft, mine, held, sockVars, ghostVars,
                 boundVars>>

\* A handler sends a packet
ReadAnswers ==
  /\ NetAt("read")
  /\ "read" \in ready
  /\ Starts(Net, "other")
  /\ AfterRead
  /\ UNCHANGED <<listVars, mutexVars, mine, held, sockVars, ghostVars, appConnects>>

\* The connection is over: packet__read or packet__write fails.  mosquitto__loop_rc_handle
\* closes the socket and on_disconnect is called.
Fails(place) ==
  /\ NetAt(place)
  /\ sock' = 0
  /\ netPc' = "over"
  /\ ready' = {}
  /\ UNCHANGED <<listVars, outMutex, call, draft, mine, held, state, conns, bytes,
                 ghostVars, boundVars>>

ReadFails == Fails("read") /\ "read" \in ready /\ sock # 0 /\ UNCHANGED curMutex

\* handle__disconnect
ReadDisconnect ==
  /\ NetAt("read")
  /\ "read" \in ready
  /\ sock # 0
  /\ netPc' = "hangup"
  /\ hangups' = hangups + 1
  /\ ready' = {}
  /\ UNCHANGED <<listVars, mutexVars, call, draft, mine, held, sockVars, bytes,
                 wires, born, epoch, early, boundVars>>

\* out_packet is moved to current_out_packet
Shift ==
  /\ outMutex = Free
  /\ current' = IF list = <<>> THEN 0 ELSE Head(list)
  /\ list' = IF list = <<>> THEN <<>> ELSE Tail(list)
  /\ last' = IF Len(list) = 1 THEN 0 ELSE last

\* Mutant: a packet is taken although one is half written
ShiftAlways == Shift

ShiftIfNone ==
  IF current = 0 THEN Shift ELSE outMutex = Free /\ UNCHANGED <<current, list, last>>

\* packet__write: takes current_out_packet_mutex and a packet if it has none
WriteEnter ==
  /\ NetAt("write")
  /\ sock # 0
  /\ curMutex = Free
  /\ curMutex' = Net
  /\ ShiftIfNone
  /\ netPc' = "writing"
  /\ UNCHANGED <<kinds, left, freed, outMutex, call, draft, mine, ready, held, sockVars,
                 bytes, ghostVars, boundVars>>

\* net__write takes some bytes, or all
WriteBytes ==
  /\ NetAt("writing")
  /\ current # 0 /\ left[current] > 0
  /\ sock # 0
  /\ \E n \in 1..left[current] :
       /\ left' = [left EXCEPT ![current] = @ - n]
       /\ wires' = [wires EXCEPT ![sock] = @ \o [i \in 1..n |-> current]]
  /\ UNCHANGED <<list, last, current, kinds, freed, mutexVars, call, draft, mine, netVars,
                 sockVars, bytes, born, epoch, hangups, early, boundVars>>

\* EAGAIN, or nothing left to write
WriteReturns ==
  /\ NetAt("writing")
  /\ current = 0 \/ (current # 0 /\ left[current] > 0 /\ sock # 0)
  /\ UnlockCurrent(Net)
  /\ netPc' = "loop"
  /\ UNCHANGED <<listVars, outMutex, call, draft, mine, ready, held, sockVars, bytes,
                 ghostVars, boundVars>>

WriteFails ==
  /\ current # 0 /\ left[current] > 0
  /\ Fails("writing")
  /\ UnlockCurrent(Net)

\* All of it is written.  on_publish of a QoS 0 message may send again.
WriteDone ==
  /\ NetAt("writing")
  /\ current # 0 /\ left[current] = 0
  /\ held' = current
  /\ netPc' = IF kinds[current] = "DISCONNECT" THEN "hangup" ELSE "advance"
  /\ \/ UNCHANGED <<call, draft, asked>>
     \/ kinds[current] = "PUBLISH" /\ Starts(Net, "PUBLISH")
  /\ UNCHANGED <<listVars, mutexVars, mine, ready, sockVars, bytes, ghostVars, appConnects>>

\* The next one, and the packet is freed
WriteNext ==
  /\ NetAt("advance")
  /\ Shift
  /\ freed' = freed \cup {held}
  /\ held' = 0
  /\ netPc' = "writing"
  /\ UNCHANGED <<kinds, left, mutexVars, call, draft, mine, ready, sockVars, bytes,
                 ghostVars, boundVars>>

\* do_client_disconnect, from packet__write or from handle__disconnect: the socket is
\* closed and a packet shifted, whatever current_out_packet was
Hangup ==
  /\ NetAt("hangup")
  /\ Shift
  /\ state' = "disconnected"
  /\ sock' = 0
  /\ netPc' = "unlock"
  /\ UNCHANGED <<kinds, left, freed, mutexVars, call, draft, mine, ready, held, conns,
                 bytes, ghostVars, boundVars>>

\* on_disconnect, then the mutex is unlocked, which only packet__write has locked
HangupReturns ==
  /\ NetAt("unlock")
  /\ UnlockCurrent(Net)
  /\ freed' = freed \cup ({held} \ {0})
  /\ held' = 0
  /\ netPc' = "loop"
  /\ UNCHANGED <<list, last, current, kinds, left, outMutex, call, draft, mine, ready,
                 sockVars, bytes, ghostVars, boundVars>>

\* mosquitto_loop has failed: the client reconnects unless it has disconnected
LoopOver ==
  /\ NetAt("over")
  /\ MovesOn(IF state = "disconnected" THEN "ended" ELSE "sleep")
  /\ UNCHANGED <<ready, bytes>>

\* interruptible_sleep, a look at the state, mosquitto_reconnect
SleepEnds ==
  /\ NetAt("sleep")
  /\ bytes' = IF bytes > 0 THEN bytes - 1 ELSE 0
  /\ IF state = "disconnected"
     THEN netPc' = "ended" /\ UNCHANGED call
     ELSE netPc' = "reconnect" /\ Go(Net, "reset")
  /\ UNCHANGED <<listVars, mutexVars, draft, mine, ready, held, sockVars, ghostVars,
                 boundVars>>

Writing ==
  \/ WriteEnter
  \/ WriteBytes
  \/ WriteReturns
  \/ WriteFails
  \/ WriteDone
  \/ WriteNext

NetSteps ==
  \/ ThreadStarts
  \/ NoConn
  \/ LoopSelect
  \/ ReadNothing
  \/ ReadAnswers
  \/ ReadFails
  \/ ReadDisconnect
  \/ Writing
  \/ Hangup
  \/ HangupReturns
  \/ LoopOver
  \/ SleepEnds

\* The network thread has ended and nobody calls
Finished ==
  /\ netPc = "ended"
  /\ \A t \in Threads : At(t, "none")
  /\ UNCHANGED vars

Next ==
  \/ \E t \in Threads : Queueing(t) \/ Reconnecting(t)
  \/ \E t \in Senders : Send(t) \/ Disconnect(t)
  \/ AppStarts
  \/ AppConnect
  \/ NetSteps
  \/ Selected
  \/ SelectTimesOut
  \/ Finished

Spec == Init /\ [][Next]_vars

-----------------------------------------------------------------------------
(* Properties                                                              *)

\* The types.
QueueTypeOK ==
  /\ kinds \in Seq(Kinds)
  /\ list \in Seq(Packets)
  /\ last \in 0..Len(kinds) /\ current \in 0..Len(kinds) /\ held \in 0..Len(kinds)
  /\ left \in [Packets -> 0..Size]
  /\ freed \subseteq Packets
  /\ {outMutex, curMutex} \subseteq Threads \cup {Free}
  /\ call \in [Threads -> Calls]
  /\ draft \in [Threads -> Kinds]
  /\ mine \in [Threads -> 0..Len(kinds)]
  /\ netPc \in Places /\ ready \subseteq {"read", "write", "wake"}
  /\ state \in States /\ sock \in 0..conns /\ conns \in 0..MaxConns
  /\ bytes \in Nat
  /\ wires \in [Conns -> Seq(Packets)]
  /\ born \in [Packets -> 0..epoch] /\ epoch \in 0..conns + 1 /\ hangups \in Nat
  /\ early \in BOOLEAN
  /\ asked \in 0..MaxPackets /\ appConnects \in 0..MaxAppConnects

\* A packet is on the list, being written or freed, never two of them, and packet__queue
\* finds the last packet behind out_packet_last: no write to freed memory, no double
\* free, no packet that is lost behind another (packet_mosq.c:103-310, connect.c:255-263).
NoUseAfterFree ==
  /\ freed \cap (ToSet(list) \cup {current, held}) = {}
  /\ IsInjective(list)
  /\ current \notin ToSet(list)
  /\ outMutex = Free /\ list # <<>> => last = Last(list)

Written(c, p) == Cardinality({i \in DOMAIN wires[c] : wires[c][i] = p})

\* The bytes of a connection are packets in the order in which they were queued, each
\* complete before the next one begins, whatever the pieces they are written in and
\* whoever queues meanwhile (packet_mosq.c:202-310).  Not after a disconnect that came before
\* the first connect: the network thread has then started on "disconnected", finds the state
\* new when it looks again, and connects besides the application.
PacketsWhole ==
  \A c \in Conns : LET w == wires[c] IN
    \/ early
    \/ /\ \A i, j \in DOMAIN w : i < j => w[i] <= w[j]
       /\ \A i \in DOMAIN w : w[i] # Last(w) => Written(c, w[i]) = Size

\* A connection carries only packets that were queued after the cleanup it began with:
\* no packet, and no rest of a packet, of a connection that was lost
\* (connect.c:172-199).  The same disconnect is excepted.
NothingCarriedOver ==
  \A c \in Conns, p \in Packets : Written(c, p) > 0 => born[p] = c \/ early

\* What is neither reachable nor freed is a packet that do_client_disconnect dropped
\* while it was being written, one for each DISCONNECT of the broker
\* (handle_disconnect.c:56, connect.c:255-263).
LeakBounded ==
  Cardinality(Packets \ (freed \cup ToSet(list) \cup {current, held})) <= hangups

\* What is queued is written, or the connection ends: no wake-up is lost between the look
\* at the queue and select() (packet_mosq.c:162-173, loop.c:66-71, loop.c:150-160).  After a
\* disconnect that came before the first connect the network thread may have ended when that
\* one opens a connection: its CONNECT is never written.
EventuallyWritten ==
  list # <<>> \/ current # 0
    ~> sock = 0 \/ (list = <<>> /\ current = 0) \/ (early /\ netPc = "ended")

\* The network thread runs, calls return, connecting is tried again.  select() returns for
\* a byte in the socket pair and, the broker reading, again and again for a socket that it
\* watches for writing; nothing is assumed of what the broker sends or of the timeout.
FairSpec ==
  /\ Spec
  /\ WF_vars(NetSteps)
  /\ \A t \in Threads : WF_vars(Queueing(t)) /\ WF_vars(Reconnecting(t))
  /\ WF_vars(AppConnect)
  /\ WF_vars(Selected /\ "wake" \in ready')
  /\ SF_vars(Selected /\ "write" \in ready')
  /\ SF_vars(WriteBytes)

=============================================================================
