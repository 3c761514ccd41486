------------------------ MODULE ClientLifecycleProofs ------------------------
(***************************************************************************)
(* Proofs about ClientLifecycle, for any keepalive, any interval a broker  *)
(* imposes and any length of the queue.                                    *)
(***************************************************************************)
EXTENDS ClientLifecycle, SequenceTheorems, TLAPS

-----------------------------------------------------------------------------
(* The invariants                                                          *)

\* The places and the types that the arguments need.
Places ==
  /\ app \in AppPlaces
  /\ net \in NetPlaces
  /\ out \in Seq(PacketKinds)
  /\ goodbyes \in 0..3

\* Between the reset and the new socket there is no connection and nothing is awaited,
\* unless the two threads are there at once.
Racing ==
  /\ app = "open" /\ net = "open" => raced
  /\ (app = "open" \/ net = "open") /\ ~raced => ~sock /\ ~awaiting

\* No thread, and none after the client was freed.
Threads ==
  /\ ~threaded => net \in {"none", "ended"}
  /\ app = "freed" => net \in {"none", "ended"}

\* A thread that connects finds the queue as empty as it has left it, unless there is a
\* connection.
Bare == net = "open" /\ ~sock => out = <<>>

\* Without a connection on_disconnect has cleared the flag, or connect has replaced the
\* connection.
Flagged ==
  /\ ~sock /\ app # "freed" /\ connected => replaced
  /\ sock /\ ~replaced /\ ~raced => (connected <=> greeted)

\* on_disconnect is not called for a connection that is up, and before the handlers or
\* packet__write go round at most by do_client_disconnect.
Dismissed ==
  /\ sock => goodbyes = 0
  /\ net \in ReadPlaces \cup {"write"} => goodbyes = 0 \/ (goodbyes = 1 /\ hungUp)
  /\ goodbyes = 0 \/ goodbyes = 1 \/ (goodbyes = 2 /\ hungUp)

\* After a disconnect that is not excused nobody is on the way to a connection, and no
\* CONNACK is to come.
Parted ==
  /\ app \in {"reset", "open"} => wanted = "connect"
  /\ wanted = "disconnect" /\ ~excused =>
       /\ state = "disconnected"
       /\ net \notin {"reset", "open"}
       /\ sock => greeted

-----------------------------------------------------------------------------
(* The steps, by what they touch                                           *)

\* Calls of the application other than the reconnect.
AppCalls ==
  \/ AppConnect \/ AppConnectInit \/ AppSend \/ AppDisconnect \/ AppSendDisconnect
  \/ AppDestroy \/ AppJoined

\* The reset of a connection, by either thread.
Resets == AppReset \/ NetReset

\* The end of mosquitto__reconnect, by either thread.
Opens == AppOpens \/ NetOpens
Misses == AppFails \/ NetFails

\* The network thread moves on.
Moves ==
  \/ ThreadStarts \/ LoopNoConn \/ LoopSelect
  \/ SelectTimeout \/ SelectWoken \/ SelectWritable \/ SelectReadable
  \/ MiscNoConn \/ MiscNothing \/ OverEnds \/ OverSleeps \/ SleepEnds
  \/ ReadNothing \/ WriteNothing \/ Cancelled

\* The connection ends with an error.
Losses ==
  \/ MiscCloses \/ ReadNoConn \/ ReadLost \/ ReadProtocolError \/ ReadConnackRefused
  \/ WriteNoConn \/ WriteLost

\* do_client_disconnect.
Hangups == ReadDisconnect \/ WriteDisconnect

\* Packets that are read or written.
Traffic == MiscPings \/ ReadConnack \/ ReadPingresp \/ ReadOther \/ WritePacket

\* Every step is one of these.
LEMMA StepCases ==
  ASSUME Next
  PROVE  AppCalls \/ Resets \/ Opens \/ Misses \/ Moves \/ Losses \/ Hangups \/ Traffic \/ Tick
<1>1. NetSteps => Resets \/ Opens \/ Misses \/ Moves \/ Losses \/ Hangups \/ Traffic
  BY Zenon DEF NetSteps, Reading, Writing, Resets, Opens, Misses, Moves, Losses, Hangups, Traffic
<1>2. AppSteps => AppCalls \/ Resets \/ Opens \/ Misses
  BY Zenon DEF AppSteps, AppCalls, Resets, Opens, Misses
<1>3. QED BY Zenon, <1>1, <1>2 DEF Next, AppCalls, Moves

\* Where the network thread goes when it moves on, and what it leaves alone.
LEMMA MoveEffect ==
  ASSUME Places, Moves
  PROVE  /\ UNCHANGED <<clientVars, timeVars, app, connected, silence, connGhosts,
                        wishGhosts, out>>
         /\ net' \in NetPlaces \ {"open", "waiting", "none"}
         /\ net' \in ReadPlaces \cup {"write"} => sock
         /\ net' = "reset" => net = "sleep" /\ state # "disconnected"
         /\ net \notin {"none", "ended"}
  BY DEF Places, Moves, Goes, queueVars, waitVars, ThreadStarts, LoopNoConn, LoopSelect, SelectTimeout,
         SelectWoken, SelectWritable, SelectReadable, MiscNoConn, MiscNothing, OverEnds,
         OverSleeps, SleepEnds, SleepOver, AfterSleep, ReadNothing, WriteNothing, Cancelled,
         Onwards, NetPlaces, ReadPlaces

\* What a reset changes.
LEMMA ResetEffect ==
  ASSUME Resets
  PROVE  /\ ~sock' /\ ~awaiting'
         /\ ~replaced' => ~replaced /\ ~(sock /\ connected)
         /\ raced' <=> app' = "open" /\ net' = "open"
         /\ \/ app = "reset" /\ app' = "open" /\ net' = net
            \/ net = "reset" /\ net' = "open" /\ app' = app
         /\ UNCHANGED <<state, threaded, connected, greeted, goodbyes, hungUp, wanted, excused>>
  BY Zenon DEF Resets, AppReset, NetReset, ReconnectReset, NotAwaiting, wishGhosts

\* What the loss of a connection changes.
LEMMA LossEffect ==
  ASSUME Places, Losses
  PROVE  /\ sock' = FALSE /\ connected' = FALSE /\ replaced' = FALSE
         /\ goodbyes' = AtMost(goodbyes + 1, 3)
         /\ net' \in {"loop", "over", "ended"}
         /\ net \notin {"none", "ended", "open", "reset"}
         /\ sock \/ net \in ReadPlaces \cup {"write"}
         /\ keepalive' \in {keepalive} \cup ServerIntervals
         /\ UNCHANGED <<state, threaded, queueVars, timeVars, app, waitVars, silence,
                        said, greeted, hungUp, raced, wishGhosts>>
  BY DEF Places, Losses, MiscCloses, ReadNoConn, ReadLost, ReadProtocolError,
         ReadConnackRefused, WriteNoConn, WriteLost, Hangs, Closes, After, OnDisconnect, CanRead,
         CanWrite, ReadPlaces

\* What do_client_disconnect changes.
LEMMA HangupEffect ==
  ASSUME Places, Hangups
  PROVE  /\ sock /\ sock' = FALSE /\ connected' = FALSE /\ replaced' = FALSE
         /\ state' = "disconnected" /\ hungUp' = TRUE
         /\ goodbyes' = AtMost(goodbyes + 1, 3)
         /\ net \in ReadPlaces \cup {"write"} /\ net' \in {net, "loop"}
         /\ out' \in Seq(PacketKinds)
         /\ UNCHANGED <<threaded, awaiting, app, waitVars, said, greeted, raced, wishGhosts>>
<1>1. out # <<>> => Tail(out) \in Seq(PacketKinds)
  BY HeadTailProperties DEF Places
<1>2. QED
  BY <1>1 DEF Places, Hangups, ReadDisconnect, WriteDisconnect, HangUp, OnDisconnect, CanRead,
       CanWrite, ReadNext, ReadPlaces

-----------------------------------------------------------------------------
(* The first state, and what each step preserves                           *)

LifecycleInv == Places /\ Racing /\ Bare /\ Threads /\ Flagged /\ Dismissed /\ Parted

\* The first state satisfies the invariant.
LEMMA InitInv == Init => LifecycleInv
  BY DEF Init, LifecycleInv, Places, Racing, Bare, Threads, Flagged, Dismissed, Parted,
         AppPlaces, NetPlaces, ReadPlaces

\* A step that changes nothing preserves it.
LEMMA StutterInv == LifecycleInv /\ UNCHANGED vars => LifecycleInv'
  BY DEF vars, LifecycleInv, Places, Racing, Bare, Threads, Flagged, Dismissed, Parted

USE DEF clientVars, timeVars, queueVars, waitVars, connGhosts, wishGhosts

\* Packets are put on the queue and taken from it by kind.
LEMMA QueueTypes ==
  ASSUME out \in Seq(PacketKinds)
  PROVE  /\ \A kind \in PacketKinds : Append(out, kind) \in Seq(PacketKinds)
         /\ out # <<>> => Tail(out) \in Seq(PacketKinds)
  BY AppendProperties, HeadTailProperties

\* A call of on_disconnect is counted up to 3.
LEMMA Counted ==
  ASSUME NEW n \in 0..3
  PROVE  AtMost(n + 1, 3) \in 0..3 /\ (n < 3 => AtMost(n + 1, 3) = n + 1)
  BY DEF AtMost

\* The places and types.
LEMMA PlacesStep == LifecycleInv /\ Next => Places'
<1> SUFFICES ASSUME LifecycleInv, Next
             PROVE  Places'
  OBVIOUS
<1>1. Places
  BY DEF LifecycleInv
<1>2. /\ Append(out, "CONNECT") \in Seq(PacketKinds)
      /\ Append(out, "PINGREQ") \in Seq(PacketKinds)
      /\ Append(out, "DISCONNECT") \in Seq(PacketKinds)
      /\ Append(out, "other") \in Seq(PacketKinds)
      /\ out # <<>> => Tail(out) \in Seq(PacketKinds)
      /\ <<>> \in Seq(PacketKinds)
  BY <1>1, QueueTypes DEF Places, PacketKinds
<1>3. AtMost(goodbyes + 1, 3) \in 0..3
  BY <1>1, Counted DEF Places
<1>4. CASE AppCalls
  BY <1>1, <1>2, <1>4 DEF AppCalls, AppConnect, AppConnectInit, AppSend, AppDisconnect,
     AppSendDisconnect, AppDestroy, AppJoined, Queue, Places, AppPlaces, NetPlaces
<1>5. CASE Resets
  BY <1>1, <1>2, <1>5 DEF Resets, AppReset, NetReset, ReconnectReset, Places, AppPlaces,
     NetPlaces
<1>6. CASE Opens
  BY <1>1, <1>2, <1>6 DEF Opens, AppOpens, NetOpens, SocketOpens, Queue, Places, AppPlaces,
     NetPlaces
<1>7. CASE Misses
  BY <1>1, <1>7 DEF Misses, AppFails, NetFails, SocketFails, Places, AppPlaces, NetPlaces
<1>8. CASE Moves
  BY <1>1, <1>8, MoveEffect DEF Places
<1>9. CASE Losses
  BY <1>1, <1>3, <1>9, LossEffect DEF Places, NetPlaces
<1>10. CASE Hangups
  BY <1>1, <1>3, <1>10, HangupEffect DEF Places, NetPlaces
<1>11. CASE Traffic
  BY <1>1, <1>2, <1>11 DEF Traffic, MiscPings, ReadConnack, ReadPingresp, ReadOther,
     WritePacket, Queue, Heard, ReadNext, Onwards, CanRead, CanWrite, Places, NetPlaces,
     ReadPlaces
<1>12. CASE Tick
  BY <1>1, <1>12 DEF Tick, Places
<1>13. QED BY Zenon, <1>4, <1>5, <1>6, <1>7, <1>8, <1>9, <1>10, <1>11, <1>12, StepCases


\* Nobody is awaited where a connection begins.
LEMMA RacingStep == LifecycleInv /\ Next => Racing'
<1> SUFFICES ASSUME LifecycleInv, Next
             PROVE  Racing'
  OBVIOUS
<1>1. Places /\ Racing /\ Threads /\ Flagged /\ Dismissed /\ Parted
  BY DEF LifecycleInv
<1>2. CASE AppCalls
  BY <1>1, <1>2 DEF AppCalls, AppConnect, AppConnectInit, AppSend, AppDisconnect,
     AppSendDisconnect, AppDestroy, AppJoined, Racing
<1>3. CASE Resets
  BY <1>1, <1>3, ResetEffect DEF Racing
<1>4. CASE Opens
  BY <1>1, <1>4 DEF Opens, AppOpens, NetOpens, SocketOpens, Racing
<1>5. CASE Misses
  BY <1>1, <1>5 DEF Misses, AppFails, NetFails, SocketFails, Racing
<1>6. CASE Moves
  BY <1>1, <1>6, MoveEffect DEF Racing
<1>7. CASE Losses
  BY <1>1, <1>7, LossEffect DEF Racing
<1>8. CASE Hangups
  BY <1>1, <1>8, HangupEffect DEF Racing
<1>9. CASE Traffic
  BY <1>1, <1>9 DEF Traffic, MiscPings, ReadConnack, ReadPingresp, ReadOther,
     WritePacket, ReadNext, Onwards, CanRead, CanWrite, Racing
<1>10. CASE Tick
  BY <1>1, <1>10 DEF Tick, Racing
<1>11. QED BY Zenon, <1>2, <1>3, <1>4, <1>5, <1>6, <1>7, <1>8, <1>9, <1>10, StepCases

\* The queue of a thread that connects.
LEMMA BareStep == LifecycleInv /\ Next => Bare'
<1> SUFFICES ASSUME LifecycleInv, Next
             PROVE  Bare'
  OBVIOUS
<1>1. Places /\ Bare
  BY DEF LifecycleInv
<1>2. CASE AppCalls
  BY <1>1, <1>2 DEF AppCalls, AppConnect, AppConnectInit, AppSend, AppDisconnect,
     AppSendDisconnect, AppDestroy, AppJoined, Bare
<1>3. CASE Resets
  BY <1>3 DEF Resets, AppReset, NetReset, ReconnectReset, Bare
<1>4. CASE Opens
  BY <1>4 DEF Opens, AppOpens, NetOpens, SocketOpens, Bare
<1>5. CASE Misses
  BY <1>1, <1>5 DEF Misses, AppFails, NetFails, SocketFails, Bare
<1>6. CASE Moves
  BY <1>1, <1>6, MoveEffect DEF Bare
<1>7. CASE Losses
  BY <1>1, <1>7, LossEffect DEF Bare
<1>8. CASE Hangups
  BY <1>1, <1>8, HangupEffect DEF Bare, ReadPlaces
<1>9. CASE Traffic
  BY <1>1, <1>9 DEF Traffic, MiscPings, ReadConnack, ReadPingresp, ReadOther, WritePacket,
     CanRead, CanWrite, Bare
<1>10. CASE Tick
  BY <1>1, <1>10 DEF Tick, Bare
<1>11. QED BY Zenon, <1>2, <1>3, <1>4, <1>5, <1>6, <1>7, <1>8, <1>9, <1>10, StepCases

\* The thread is there once it was started, and gone when the client is freed.
LEMMA ThreadsStep == LifecycleInv /\ Next => Threads'
<1> SUFFICES ASSUME LifecycleInv, Next
             PROVE  Threads'
  OBVIOUS
<1>1. Places /\ Racing /\ Threads /\ Flagged /\ Dismissed /\ Parted
  BY DEF LifecycleInv
<1>2. CASE AppCalls
  BY <1>1, <1>2 DEF AppCalls, AppConnect, AppConnectInit, AppSend, AppDisconnect,
     AppSendDisconnect, AppDestroy, AppJoined, Threads
<1>3. CASE Resets
  BY <1>1, <1>3, ResetEffect DEF Threads
<1>4. CASE Opens
  BY <1>1, <1>4 DEF Opens, AppOpens, NetOpens, SocketOpens, Threads
<1>5. CASE Misses
  BY <1>1, <1>5 DEF Misses, AppFails, NetFails, SocketFails, Threads
<1>6. CASE Moves
  BY <1>1, <1>6, MoveEffect DEF Threads
<1>7. CASE Losses
  BY <1>1, <1>7, LossEffect DEF Threads
<1>8. CASE Hangups
  BY <1>1, <1>8, HangupEffect DEF Threads, ReadPlaces
<1>9. CASE Traffic
  BY <1>1, <1>9 DEF Traffic, MiscPings, ReadConnack, ReadPingresp, ReadOther,
     WritePacket, ReadNext, Onwards, CanRead, CanWrite, Threads, ReadPlaces
<1>10. CASE Tick
  BY <1>1, <1>10 DEF Tick, Threads
<1>11. QED BY Zenon, <1>2, <1>3, <1>4, <1>5, <1>6, <1>7, <1>8, <1>9, <1>10, StepCases

\* The flag.
LEMMA FlaggedStep == LifecycleInv /\ Next => Flagged'
<1> SUFFICES ASSUME LifecycleInv, Next
             PROVE  Flagged'
  OBVIOUS
<1>1. Places /\ Racing /\ Threads /\ Flagged /\ Dismissed /\ Parted
  BY DEF LifecycleInv
<1>2. CASE AppCalls
  BY <1>1, <1>2 DEF AppCalls, AppConnect, AppConnectInit, AppSend, AppDisconnect,
     AppSendDisconnect, AppDestroy, AppJoined, Flagged, Racing, Threads
<1>3. CASE Resets
  BY <1>1, <1>3, ResetEffect DEF Flagged, Racing, Threads
<1>4. CASE Opens
  BY <1>1, <1>4 DEF Opens, AppOpens, NetOpens, SocketOpens, Flagged, Racing, Threads
<1>5. CASE Misses
  BY <1>1, <1>5 DEF Misses, AppFails, NetFails, SocketFails, Flagged, Racing, Threads
<1>6. CASE Moves
  BY <1>1, <1>6, MoveEffect DEF Flagged, Racing, Threads
<1>7. CASE Losses
  BY <1>1, <1>7, LossEffect DEF Flagged, Racing, Threads
<1>8. CASE Hangups
  BY <1>1, <1>8, HangupEffect DEF Flagged, Racing, Threads
<1>9. CASE Traffic
  BY <1>1, <1>9 DEF Traffic, MiscPings, ReadConnack, ReadPingresp, ReadOther,
     WritePacket, ReadNext, Onwards, CanRead, CanWrite, Flagged, Racing, Threads
<1>10. CASE Tick
  BY <1>1, <1>10 DEF Tick, Flagged, Racing, Threads
<1>11. QED BY Zenon, <1>2, <1>3, <1>4, <1>5, <1>6, <1>7, <1>8, <1>9, <1>10, StepCases

\* A step that neither counts a call nor opens a connection keeps the count.
LEMMA DismissedFrame ==
  ASSUME Dismissed, UNCHANGED <<goodbyes, hungUp>>, sock' => sock,
         net' \in ReadPlaces \cup {"write"} => sock \/ net \in ReadPlaces \cup {"write"}
  PROVE  Dismissed'
  BY Zenon DEF Dismissed

\* The calls of on_disconnect.
LEMMA DismissedStep == LifecycleInv /\ Next => Dismissed'
<1> SUFFICES ASSUME LifecycleInv, Next
             PROVE  Dismissed'
  OBVIOUS
<1>1. Places /\ Dismissed
  BY DEF LifecycleInv
<1> DEFINE Quiet == /\ UNCHANGED <<goodbyes, hungUp>> /\ (sock' => sock)
                    /\ net' \in ReadPlaces \cup {"write"} =>
                         sock \/ net \in ReadPlaces \cup {"write"}
<1>2. CASE AppCalls
  <2>1. UNCHANGED <<goodbyes, hungUp>> /\ (sock' => sock)
    BY <1>2 DEF AppCalls, AppConnect, AppConnectInit, AppSend, AppDisconnect,
       AppSendDisconnect, AppDestroy, AppJoined
  <2>2. net' = net \/ net' = "waiting"
    BY <1>2 DEF AppCalls, AppConnect, AppConnectInit, AppSend, AppDisconnect,
       AppSendDisconnect, AppDestroy, AppJoined
  <2>3. Quiet
    BY <2>1, <2>2 DEF ReadPlaces
  <2>4. QED BY <1>1, <2>3, DismissedFrame
<1>3. CASE Resets
  <2>1. Quiet
    BY <1>3, ResetEffect DEF ReadPlaces
  <2>2. QED BY <1>1, <2>1, DismissedFrame
<1>4. CASE Opens
  <2>1. goodbyes' = 0
    BY <1>4 DEF Opens, AppOpens, NetOpens, SocketOpens
  <2>2. QED BY <2>1 DEF Dismissed
<1>5. CASE Misses
  <2>1. UNCHANGED <<goodbyes, hungUp, sock>> /\ (net' = net \/ net' = "over")
    BY <1>5 DEF Misses, AppFails, NetFails, SocketFails
  <2>2. Quiet
    BY <2>1 DEF ReadPlaces
  <2>3. QED BY <1>1, <2>2, DismissedFrame
<1>6. CASE Moves
  <2>1. Quiet
    BY <1>1, <1>6, MoveEffect
  <2>2. QED BY <1>1, <2>1, DismissedFrame
<1>7. CASE Losses
  <2>1. ~sock' /\ goodbyes' = AtMost(goodbyes + 1, 3) /\ hungUp' = hungUp
    BY <1>1, <1>7, LossEffect
  <2>2. goodbyes = 0 \/ (goodbyes = 1 /\ hungUp)
    BY <1>1, <1>7, LossEffect DEF Dismissed
  <2>3. net' \notin ReadPlaces \cup {"write"}
    BY <1>1, <1>7, LossEffect DEF ReadPlaces
  <2>4. AtMost(0 + 1, 3) = 1 /\ AtMost(1 + 1, 3) = 2
    BY DEF AtMost
  <2>5. QED BY Zenon, <2>1, <2>2, <2>3, <2>4 DEF Dismissed
<1>8. CASE Hangups
  <2>1. ~sock' /\ goodbyes' = AtMost(goodbyes + 1, 3) /\ hungUp'
    BY <1>1, <1>8, HangupEffect
  <2>2. goodbyes = 0
    BY <1>1, <1>8, HangupEffect DEF Dismissed
  <2>3. AtMost(0 + 1, 3) = 1
    BY DEF AtMost
  <2>4. QED BY Zenon, <2>1, <2>2, <2>3 DEF Dismissed
<1>9. CASE Traffic
  <2>1. Quiet
    BY <1>9 DEF Traffic, MiscPings, ReadConnack, ReadPingresp, ReadOther, WritePacket, Heard,
       CanRead, CanWrite
  <2>2. QED BY <1>1, <2>1, DismissedFrame
<1>10. CASE Tick
  <2>1. Quiet
    BY <1>10 DEF Tick
  <2>2. QED BY <1>1, <2>1, DismissedFrame
<1>11. QED BY Zenon, <1>2, <1>3, <1>4, <1>5, <1>6, <1>7, <1>8, <1>9, <1>10, StepCases

\* What the application wants.
LEMMA PartedStep == LifecycleInv /\ Next => Parted'
<1> SUFFICES ASSUME LifecycleInv, Next
             PROVE  Parted'
  OBVIOUS
<1>1. Places /\ Racing /\ Threads /\ Flagged /\ Dismissed /\ Parted
  BY DEF LifecycleInv
<1>2. CASE AppCalls
  <2>1. CASE AppConnectInit
    BY <1>1, <2>1 DEF AppConnectInit, Parted
  <2>2. CASE AppDisconnect
    <3>1. excused' <=> (sock /\ ~greeted) \/ net \in {"reset", "open"}
      BY Zenon, <2>2 DEF AppDisconnect
    <3>2. /\ app' = "disconnect" /\ state' = "disconnected"
          /\ net' = net /\ sock' = sock /\ greeted' = greeted
      BY <2>2 DEF AppDisconnect
    <3>3. QED BY Zenon, <3>1, <3>2 DEF Parted
  <2>3. CASE AppConnect
    BY <1>1, <2>3 DEF AppConnect, Parted
  <2>4. CASE AppJoined
    BY <1>1, <2>4 DEF AppJoined, Parted
  <2>5. CASE AppSend \/ AppSendDisconnect \/ AppDestroy
    BY <1>1, <2>5 DEF AppSend, AppSendDisconnect, AppDestroy, Parted
  <2>6. QED BY <1>2, <2>1, <2>2, <2>3, <2>4, <2>5 DEF AppCalls
<1>3. CASE Resets
  BY <1>1, <1>3, ResetEffect DEF Parted, Racing
<1>4. CASE Opens
  BY <1>1, <1>4 DEF Opens, AppOpens, NetOpens, SocketOpens, Parted, Racing
<1>5. CASE Misses
  BY <1>1, <1>5 DEF Misses, AppFails, NetFails, SocketFails, Parted, Racing
<1>6. CASE Moves
  BY <1>1, <1>6, MoveEffect DEF Parted, Racing
<1>7. CASE Losses
  BY <1>1, <1>7, LossEffect DEF Parted, Racing
<1>8. CASE Hangups
  BY <1>1, <1>8, HangupEffect DEF Parted, Racing
<1>9. CASE Traffic
  BY <1>1, <1>9 DEF Traffic, MiscPings, ReadConnack, ReadPingresp, ReadOther,
     WritePacket, ReadNext, Onwards, CanRead, CanWrite, Parted, Racing
<1>10. CASE Tick
  BY <1>1, <1>10 DEF Tick, Parted, Racing
<1>11. QED BY Zenon, <1>2, <1>3, <1>4, <1>5, <1>6, <1>7, <1>8, <1>9, <1>10, StepCases

-----------------------------------------------------------------------------
(* The PINGREQ that is awaited                                             *)

\* A PINGREQ is on the queue.
Queued == \E i \in DOMAIN out : out[i] = "PINGREQ"

\* What is queued behind it or written before it leaves it there.
LEMMA QueuedKept ==
  ASSUME out \in Seq(PacketKinds)
  PROVE  /\ \A kind \in PacketKinds : out' = Append(out, kind) /\ Queued => Queued'
         /\ out' = Append(out, "PINGREQ") => Queued'
         /\ out # <<>> /\ out' = Tail(out) /\ Queued => Head(out) = "PINGREQ" \/ Queued'
<1>1. Len(out) \in Nat /\ DOMAIN out = 1..Len(out)
  BY LenProperties
<1>2. ASSUME NEW kind \in PacketKinds, out' = Append(out, kind)
      PROVE  (Queued => Queued') /\ (kind = "PINGREQ" => Queued')
  <2>1. /\ out' \in Seq(PacketKinds) /\ Len(out') = Len(out) + 1
        /\ \A i \in 1..Len(out) : out'[i] = out[i]
        /\ out'[Len(out) + 1] = kind
    BY <1>2, AppendProperties
  <2>2. DOMAIN out' = 1..Len(out) + 1
    BY <2>1, LenProperties
  <2>3. QED BY <1>1, <2>1, <2>2 DEF Queued
<1>3. ASSUME out # <<>>, out' = Tail(out), Queued, Head(out) # "PINGREQ"
      PROVE  Queued'
  <2>1. /\ out' \in Seq(PacketKinds) /\ Len(out') = Len(out) - 1
        /\ \A i \in 1..Len(out') : out'[i] = out[i + 1]
    BY <1>3, HeadTailProperties
  <2>2. DOMAIN out' = 1..Len(out) - 1
    BY <2>1, LenProperties
  <2>3. PICK i \in 1..Len(out) : out[i] = "PINGREQ"
    BY <1>1, <1>3 DEF Queued
  <2>4. Head(out) = out[1]
    BY <1>3, HeadTailProperties
  <2>5. i # 1
    BY <1>3, <2>3, <2>4
  <2>6. i - 1 \in 1..Len(out) - 1 /\ (i - 1) + 1 = i
    BY <1>1, <2>3, <2>5
  <2>7. out'[i - 1] = "PINGREQ"
    BY <2>1, <2>3, <2>6
  <2>8. QED BY <2>2, <2>6, <2>7 DEF Queued
<1>4. "PINGREQ" \in PacketKinds
  BY DEF PacketKinds
<1>5. QED BY <1>2, <1>3, <1>4

\* A step preserves AwaitedIsAsked.
LEMMA AwaitedStep == LifecycleInv /\ AwaitedIsAsked /\ Next => AwaitedIsAsked'
<1> SUFFICES ASSUME LifecycleInv, AwaitedIsAsked, Next
             PROVE  AwaitedIsAsked'
  OBVIOUS
<1>1. Places /\ Racing /\ out \in Seq(PacketKinds)
  BY DEF LifecycleInv, Places
<1>2. sock /\ awaiting => "PINGREQ" \in said \/ Queued \/ raced
  BY DEF AwaitedIsAsked, Queued
<1> DEFINE Goal == sock' /\ awaiting' => "PINGREQ" \in said' \/ Queued' \/ raced'
           Calm == UNCHANGED <<sock, awaiting, said, raced>>
<1>3. SUFFICES Goal
  BY DEF AwaitedIsAsked, Queued
<1>4. ASSUME out' = out, Queued
      PROVE  Queued'
  BY <1>4 DEF Queued
<1>5. {"CONNECT", "PINGREQ", "DISCONNECT", "other"} \subseteq PacketKinds
  BY DEF PacketKinds
<1>6. CASE AppCalls
  <2>1. CASE AppJoined
    BY <2>1 DEF AppJoined
  <2>2. CASE AppSend \/ AppSendDisconnect
    <3>1. Calm /\ (out' = out \/ (\E kind \in PacketKinds : out' = Append(out, kind)))
      BY <1>5, <2>2 DEF AppSend, AppSendDisconnect, Queue
    <3>2. QED BY <1>1, <1>2, <1>4, <3>1, QueuedKept
  <2>3. CASE AppConnect \/ AppConnectInit \/ AppDisconnect \/ AppDestroy
    <3>1. Calm /\ out' = out
      BY <2>3 DEF AppConnect, AppConnectInit, AppDisconnect, AppDestroy
    <3>2. QED BY <1>2, <1>4, <3>1
  <2>4. QED BY <1>6, <2>1, <2>2, <2>3 DEF AppCalls
<1>7. CASE Resets
  BY <1>7, ResetEffect
<1>8. CASE Opens
  <2>1. app = "open" \/ net = "open"
    BY <1>8 DEF Opens, AppOpens, NetOpens
  <2>2. awaiting' = awaiting /\ raced' = raced
    BY <1>8 DEF Opens, AppOpens, NetOpens, SocketOpens
  <2>3. QED BY <1>1, <2>1, <2>2 DEF Racing
<1>9. CASE Misses
  <2>1. Calm /\ out' = out
    BY <1>9 DEF Misses, AppFails, NetFails, SocketFails
  <2>2. QED BY <1>2, <1>4, <2>1
<1>10. CASE Moves
  <2>1. Calm /\ out' = out
    BY <1>1, <1>10, MoveEffect
  <2>2. QED BY <1>2, <1>4, <2>1
<1>11. CASE Losses
  BY <1>1, <1>11, LossEffect
<1>12. CASE Hangups
  BY <1>1, <1>12, HangupEffect
<1>13. CASE Traffic
  <2>1. CASE MiscPings
    <3>1. out' = Append(out, "PINGREQ")
      BY <2>1 DEF MiscPings, Queue
    <3>2. QED BY <1>1, <3>1, QueuedKept
  <2>2. CASE ReadConnack \/ ReadOther
    <3>1. Calm /\ out' = out
      BY <2>2 DEF ReadConnack, ReadOther
    <3>2. QED BY <1>2, <1>4, <3>1
  <2>3. CASE ReadPingresp
    BY <2>3 DEF ReadPingresp
  <2>4. CASE WritePacket
    <3>1. /\ UNCHANGED <<sock, awaiting, raced>>
          /\ out # <<>> /\ out' = Tail(out)
          /\ said' = said \cup ({Head(out)} \cap {"CONNECT", "PINGREQ"})
      BY <2>4 DEF WritePacket, CanWrite
    <3>2. Queued => Head(out) = "PINGREQ" \/ Queued'
      BY <1>1, <3>1, QueuedKept
    <3>3. QED BY <1>2, <3>1, <3>2
  <2>5. QED BY <1>13, <2>1, <2>2, <2>3, <2>4 DEF Traffic
<1>14. CASE Tick
  <2>1. Calm /\ out' = out
    BY <1>14 DEF Tick
  <2>2. QED BY <1>2, <1>4, <2>1
<1>15. QED
  BY Zenon, <1>6, <1>7, <1>8, <1>9, <1>10, <1>11, <1>12, <1>13, <1>14, StepCases

-----------------------------------------------------------------------------
(* The types that the arguments above did not need                         *)

\* What is one of a few words.
Words ==
  /\ state \in States
  /\ said \subseteq {"CONNECT", "PINGREQ"}
  /\ wanted \in {"nothing", "connect", "disconnect"}

\* The flags.
Flags ==
  /\ sock \in BOOLEAN /\ threaded \in BOOLEAN /\ awaiting \in BOOLEAN /\ woken \in BOOLEAN
  /\ connected \in BOOLEAN /\ greeted \in BOOLEAN /\ hungUp \in BOOLEAN
  /\ replaced \in BOOLEAN /\ raced \in BOOLEAN /\ excused \in BOOLEAN

\* The times.
Times ==
  /\ keepalive \in 0..MaxInterval
  /\ lastIn \in 0..MaxInterval /\ nextOut \in 0..MaxInterval
  /\ timeout \in 0..MaxInterval /\ wait \in 0..timeout
  /\ silence \in 0..MaxSilence

\* A step preserves the words.
LEMMA WordsStep == Places /\ Words /\ Next => Words'
<1> SUFFICES ASSUME Places, Words, Next
             PROVE  Words'
  OBVIOUS
<1>1. CASE AppCalls
  BY <1>1 DEF AppCalls, AppConnect, AppConnectInit, AppSend, AppDisconnect, AppSendDisconnect,
     AppDestroy, AppJoined, Words, States
<1>2. CASE Resets
  BY <1>2 DEF Resets, AppReset, NetReset, ReconnectReset, Words
<1>3. CASE Opens
  BY <1>3 DEF Opens, AppOpens, NetOpens, SocketOpens, Words, States
<1>4. CASE Misses
  BY <1>4 DEF Misses, AppFails, NetFails, SocketFails, Words, States
<1>5. CASE Moves
  BY <1>5, MoveEffect DEF Words
<1>6. CASE Losses
  BY <1>6, LossEffect DEF Words
<1>7. CASE Hangups
  BY <1>7, HangupEffect DEF Words, States
<1>8. CASE Traffic
  BY <1>8 DEF Traffic, MiscPings, ReadConnack, ReadPingresp, ReadOther, WritePacket, Words, States
<1>9. CASE Tick
  BY <1>9 DEF Tick, Words
<1>10. QED BY Zenon, <1>1, <1>2, <1>3, <1>4, <1>5, <1>6, <1>7, <1>8, <1>9, StepCases

\* A step preserves the flags.
LEMMA FlagsStep == Places /\ Flags /\ Next => Flags'
<1> SUFFICES ASSUME Places, Flags, Next
             PROVE  Flags'
  OBVIOUS
<1>1. CASE AppCalls
  <2>1. CASE AppDisconnect
    BY Zenon, <2>1 DEF AppDisconnect, Flags
  <2>2. CASE AppConnect
    BY Zenon, <2>2 DEF AppConnect, Flags
  <2>3. CASE AppConnectInit
    BY Zenon, <2>3 DEF AppConnectInit, Flags
  <2>4. CASE AppSend
    BY Zenon, <2>4 DEF AppSend, Queue, Flags
  <2>5. CASE AppSendDisconnect
    BY Zenon, <2>5 DEF AppSendDisconnect, Queue, Flags
  <2>6. CASE AppDestroy
    BY Zenon, <2>6 DEF AppDestroy, Flags
  <2>7. CASE AppJoined
    BY Zenon, <2>7 DEF AppJoined, Flags
  <2>8. QED BY Zenon, <1>1, <2>1, <2>2, <2>3, <2>4, <2>5, <2>6, <2>7 DEF AppCalls
<1>2. CASE Resets
  BY Zenon, <1>2 DEF Resets, AppReset, NetReset, ReconnectReset, NotAwaiting, Flags
<1>3. CASE Opens
  BY Zenon, <1>3 DEF Opens, AppOpens, NetOpens, SocketOpens, Queue, Flags
<1>4. CASE Misses
  BY ZenonT(60), <1>4 DEF Misses, AppFails, NetFails, SocketFails, Flags
<1>5. CASE Moves
  <2>1. woken' = woken \/ woken' = FALSE
    BY <1>5 DEF Moves, ThreadStarts, LoopNoConn, LoopSelect, SelectTimeout, SelectWoken,
       SelectWritable, SelectReadable, MiscNoConn, MiscNothing, OverEnds, OverSleeps, SleepEnds,
       ReadNothing, WriteNothing, Cancelled
  <2>2. UNCHANGED <<clientVars, timeVars, connected, connGhosts, wishGhosts>>
    BY <1>5, MoveEffect
  <2>3. QED BY Zenon, <2>1, <2>2 DEF Flags
<1>6. CASE Losses
  BY Zenon, <1>6, LossEffect DEF Flags
<1>7. CASE Hangups
  <2>1. woken' = woken
    BY <1>7 DEF Hangups, ReadDisconnect, WriteDisconnect
  <2>2. QED BY Zenon, <1>7, <2>1, HangupEffect DEF Flags
<1>8. CASE Traffic
  <2>1. CASE MiscPings
    BY Zenon, <2>1 DEF MiscPings, Queue, Flags
  <2>2. CASE ReadConnack
    BY Zenon, <2>2 DEF ReadConnack, Flags
  <2>3. CASE ReadPingresp
    BY Zenon, <2>3 DEF ReadPingresp, Flags
  <2>4. CASE ReadOther
    BY Zenon, <2>4 DEF ReadOther, Flags
  <2>5. CASE WritePacket
    BY Zenon, <2>5 DEF WritePacket, Flags
  <2>6. QED BY Zenon, <1>8, <2>1, <2>2, <2>3, <2>4, <2>5 DEF Traffic
<1>9. CASE Tick
  BY Zenon, <1>9 DEF Tick, Flags
<1>10. QED BY Zenon, <1>1, <1>2, <1>3, <1>4, <1>5, <1>6, <1>7, <1>8, <1>9, StepCases

\* A step preserves the ranges of the times.
LEMMA TimesStep == Places /\ Times /\ Next => Times'
<1> SUFFICES ASSUME Places, Times, Next
             PROVE  Times'
  OBVIOUS
<1>1. /\ MaxInterval \in Nat \ {0} /\ Interval \in 0..MaxInterval
      /\ ServerIntervals \subseteq 0..MaxInterval /\ MaxSilence \in Nat
  BY LifecycleAssumption
<1>2. CASE AppCalls
  BY <1>1, <1>2 DEF AppCalls, AppConnect, AppConnectInit, AppSend, AppDisconnect,
     AppSendDisconnect, AppDestroy, AppJoined, Times
<1>3. CASE Resets
  BY <1>1, <1>3 DEF Resets, AppReset, NetReset, ReconnectReset, Times
<1>4. CASE Opens
  BY <1>1, <1>4 DEF Opens, AppOpens, NetOpens, SocketOpens, Times
<1>5. CASE Misses
  BY <1>5 DEF Misses, AppFails, NetFails, SocketFails, Times
<1>6. CASE Moves
  <2>1. /\ timeout' = timeout \/ timeout' = keepalive
        /\ \/ timeout' = timeout /\ wait' = wait
           \/ timeout' = timeout /\ wait' = AtMost(nextOut, timeout)
           \/ wait' = 0
    BY <1>6 DEF Moves, ThreadStarts, LoopNoConn, LoopSelect, SelectTimeout, SelectWoken,
       SelectWritable, SelectReadable, MiscNoConn, MiscNothing, OverEnds, OverSleeps, SleepEnds,
       ReadNothing, WriteNothing, Cancelled
  <2>2. AtMost(nextOut, timeout) \in 0..timeout
    BY <1>1 DEF Times, AtMost
  <2>3. QED BY <1>6, <2>1, <2>2, MoveEffect DEF Times
<1>7. CASE Losses
  BY <1>1, <1>7, LossEffect DEF Times
<1>8. CASE Hangups
  <2>1. CASE ReadDisconnect
    BY <1>1, <2>1 DEF ReadDisconnect, HangUp, Heard, Times
  <2>2. CASE WriteDisconnect
    BY <1>1, <2>2 DEF WriteDisconnect, HangUp, Times
  <2>3. QED BY <1>8, <2>1, <2>2 DEF Hangups
<1>9. CASE Traffic
  <2>1. CASE MiscPings
    BY <1>1, <2>1 DEF MiscPings, Times
  <2>2. CASE ReadConnack
    BY <1>1, <2>2 DEF ReadConnack, Heard, Times
  <2>3. CASE ReadPingresp
    BY <1>1, <2>3 DEF ReadPingresp, Heard, Times
  <2>4. CASE ReadOther
    BY <1>1, <2>4 DEF ReadOther, Heard, Times
  <2>5. CASE WritePacket
    BY <1>1, <2>5 DEF WritePacket, Times
  <2>6. QED BY <1>9, <2>1, <2>2, <2>3, <2>4, <2>5 DEF Traffic
<1>10. CASE Tick
  BY <1>1, <1>10 DEF Tick, AtMost, Before, Times
<1>11. QED BY Zenon, <1>2, <1>3, <1>4, <1>5, <1>6, <1>7, <1>8, <1>9, <1>10, StepCases

-----------------------------------------------------------------------------
(* At most one PINGREQ, and the length of the queue                        *)

\* No two packets on the queue are a PINGREQ.
OnePing == \A i, j \in DOMAIN out : out[i] = "PINGREQ" /\ out[j] = "PINGREQ" => i = j

\* A PINGREQ is on the queue or was sent on this connection only as long as its answer is
\* awaited, and not both.
Pinging ==
  /\ OnePing
  /\ Queued => awaiting /\ "PINGREQ" \notin said
  /\ sock /\ "PINGREQ" \in said => awaiting

One(b) == IF b THEN 1 ELSE 0
Leaving == One(app = "disconnect" /\ (sock \/ net = "open"))
AppOpening == One(app = "open")
NetOpening == One(net = "open")
NoPing == One(~awaiting \/ "PINGREQ" \in said)

\* There is room for the packets that are about to be queued: the DISCONNECT, if there is or
\* will be a connection, the CONNECT of either thread, and a PINGREQ when none is on the queue.
Room == Len(out) + Leaving + AppOpening + NetOpening + NoPing <= MaxOut + 2

\* One more packet at the end.
LEMMA PingAppended ==
  ASSUME out \in Seq(PacketKinds), NEW kind \in PacketKinds, out' = Append(out, kind), OnePing
  PROVE  /\ kind # "PINGREQ" => OnePing' /\ (Queued' => Queued)
         /\ ~Queued => OnePing'
         /\ Len(out') = Len(out) + 1
<1>1. Len(out) \in Nat /\ DOMAIN out = 1..Len(out)
  BY LenProperties
<1>2. /\ out' \in Seq(PacketKinds) /\ Len(out') = Len(out) + 1
      /\ \A i \in 1..Len(out) : out'[i] = out[i]
      /\ out'[Len(out) + 1] = kind
  BY AppendProperties
<1>3. DOMAIN out' = 1..Len(out) + 1
  BY <1>2, LenProperties
<1>4. ASSUME NEW i \in DOMAIN out', out'[i] = "PINGREQ"
      PROVE  (i = Len(out) + 1 /\ kind = "PINGREQ") \/ (i \in DOMAIN out /\ out[i] = "PINGREQ")
  BY <1>1, <1>2, <1>3, <1>4
<1>5. kind # "PINGREQ" => OnePing'
  BY <1>4 DEF OnePing
<1>6. kind # "PINGREQ" => (Queued' => Queued)
  BY <1>4 DEF Queued
<1>7. ~Queued => OnePing'
  BY <1>4 DEF OnePing, Queued
<1>8. QED BY <1>2, <1>5, <1>6, <1>7

\* The first packet is taken off.
LEMMA PingTaken ==
  ASSUME out \in Seq(PacketKinds), out # <<>>, out' = Tail(out), OnePing
  PROVE  /\ OnePing'
         /\ Queued' => Queued /\ Head(out) # "PINGREQ"
         /\ Head(out) = "PINGREQ" => Queued
         /\ Len(out') = Len(out) - 1
<1>1. Len(out) \in Nat /\ DOMAIN out = 1..Len(out)
  BY LenProperties
<1>2. /\ out' \in Seq(PacketKinds) /\ Len(out') = Len(out) - 1
      /\ \A i \in 1..Len(out') : out'[i] = out[i + 1]
      /\ Head(out) = out[1]
  BY HeadTailProperties
<1>3. Len(out) # 0 /\ 1 \in DOMAIN out
  BY <1>1, EmptySeq
<1>4. DOMAIN out' = 1..Len(out) - 1
  BY <1>2, LenProperties
<1>5. ASSUME NEW i \in DOMAIN out', out'[i] = "PINGREQ"
      PROVE  i \in Int /\ i + 1 \in DOMAIN out /\ out[i + 1] = "PINGREQ" /\ i + 1 # 1
  BY <1>1, <1>2, <1>4, <1>5
<1>6. OnePing'
  <2>1. ASSUME NEW i \in DOMAIN out', NEW j \in DOMAIN out', out'[i] = "PINGREQ",
               out'[j] = "PINGREQ"
        PROVE  i = j
    <3>1. i + 1 = j + 1
      BY <1>5, <2>1 DEF OnePing
    <3>2. QED BY <1>5, <2>1, <3>1
  <2>2. QED BY <2>1 DEF OnePing
<1>7. Queued' => Queued
  BY <1>5 DEF Queued
<1>8. Queued' => Head(out) # "PINGREQ"
  BY <1>2, <1>3, <1>5 DEF Queued, OnePing
<1>9. Head(out) = "PINGREQ" => Queued
  BY <1>2, <1>3 DEF Queued
<1>10. QED BY <1>2, <1>6, <1>7, <1>8, <1>9

\* An empty queue.
LEMMA PingCleared ==
  ASSUME out' = <<>>
  PROVE  OnePing' /\ ~Queued' /\ Len(out') = 0
<1>1. DOMAIN out' = {} /\ Len(out') = 0
  OBVIOUS
<1>2. QED BY <1>1 DEF OnePing, Queued

\* A queue that stays as it is.
LEMMA PingKept ==
  ASSUME out' = out
  PROVE  (OnePing => OnePing') /\ (Queued' <=> Queued) /\ Len(out') = Len(out)
  BY DEF OnePing, Queued

\* A step preserves the one PINGREQ.
LEMMA PingingStep == Places /\ Pinging /\ Next => Pinging'
<1> SUFFICES ASSUME Places, Pinging, Next
             PROVE  Pinging'
  OBVIOUS
<1>1. out \in Seq(PacketKinds) /\ OnePing
  BY DEF Places, Pinging
<1>2. {"CONNECT", "PINGREQ", "DISCONNECT", "other"} \subseteq PacketKinds
  BY DEF PacketKinds
<1> DEFINE Fewer == OnePing' /\ (Queued' => Queued)
           Calm == UNCHANGED <<awaiting, said>> /\ (sock' => sock)
<1>3. ASSUME Fewer, Calm
      PROVE  Pinging'
  BY Zenon, <1>3 DEF Pinging
<1>4. CASE AppCalls
  <2>1. CASE AppJoined
    <3>1. out' = <<>> /\ ~sock'
      BY <2>1 DEF AppJoined
    <3>2. QED BY Zenon, <3>1, PingCleared DEF Pinging
  <2>2. CASE AppSend \/ AppSendDisconnect
    <3>1. Calm /\ (out' = out \/ out' = Append(out, "other") \/ out' = Append(out, "DISCONNECT"))
      BY <2>2 DEF AppSend, AppSendDisconnect, Queue
    <3>2. Fewer
      BY <1>1, <1>2, <3>1, PingAppended, PingKept
    <3>3. QED BY <1>3, <3>1, <3>2
  <2>3. CASE AppConnect \/ AppConnectInit \/ AppDisconnect \/ AppDestroy
    <3>1. Calm /\ out' = out
      BY <2>3 DEF AppConnect, AppConnectInit, AppDisconnect, AppDestroy
    <3>2. QED BY Zenon, <1>1, <1>3, <3>1, PingKept
  <2>4. QED BY Zenon, <1>4, <2>1, <2>2, <2>3 DEF AppCalls
<1>5. CASE Resets
  <2>1. out' = <<>> /\ ~sock'
    BY <1>5 DEF Resets, AppReset, NetReset, ReconnectReset
  <2>2. QED BY Zenon, <2>1, PingCleared DEF Pinging
<1>6. CASE Opens
  <2>1. out' = Append(out, "CONNECT") /\ awaiting' = awaiting /\ said' = {}
    BY <1>6 DEF Opens, AppOpens, NetOpens, SocketOpens, Queue
  <2>2. Fewer
    BY <1>1, <1>2, <2>1, PingAppended
  <2>3. "PINGREQ" \notin said'
    BY <2>1
  <2>4. QED BY Zenon, <2>1, <2>2, <2>3 DEF Pinging
<1>7. CASE Misses
  <2>1. Calm /\ out' = out
    BY <1>7 DEF Misses, AppFails, NetFails, SocketFails
  <2>2. QED BY Zenon, <1>1, <1>3, <2>1, PingKept
<1>8. CASE Moves
  <2>1. Calm /\ out' = out
    BY <1>8, MoveEffect
  <2>2. QED BY Zenon, <1>1, <1>3, <2>1, PingKept
<1>9. CASE Losses
  <2>1. Calm /\ out' = out
    BY <1>9, LossEffect
  <2>2. QED BY Zenon, <1>1, <1>3, <2>1, PingKept
<1>10. CASE Hangups
  <2>1. UNCHANGED <<awaiting, said>> /\ ~sock'
    BY <1>10, HangupEffect
  <2>2. out' = out \/ (out # <<>> /\ out' = Tail(out))
    BY <1>10 DEF Hangups, ReadDisconnect, WriteDisconnect, CanWrite
  <2>3. Fewer
    BY Zenon, <1>1, <2>2, PingTaken, PingKept
  <2>4. QED BY Zenon, <1>3, <2>1, <2>3
<1>11. CASE Traffic
  <2>1. CASE MiscPings
    <3>1. out' = Append(out, "PINGREQ") /\ awaiting' /\ ~awaiting /\ sock /\ said' = said
      BY <2>1 DEF MiscPings, Queue
    <3>2. ~Queued /\ "PINGREQ" \notin said
      BY Zenon, <3>1 DEF Pinging
    <3>3. OnePing'
      BY <1>1, <1>2, <3>1, <3>2, PingAppended
    <3>4. QED BY Zenon, <3>1, <3>2, <3>3 DEF Pinging
  <2>2. CASE ReadConnack \/ ReadOther
    <3>1. Calm /\ out' = out
      BY <2>2 DEF ReadConnack, ReadOther, CanRead
    <3>2. QED BY Zenon, <1>1, <1>3, <3>1, PingKept
  <2>3. CASE ReadPingresp
    <3>1. out' = out /\ "PINGREQ" \in said /\ said' = said \ {"PINGREQ"}
      BY <2>3 DEF ReadPingresp
    <3>2. ~Queued' /\ OnePing' /\ "PINGREQ" \notin said'
      BY <1>1, <3>1, PingKept DEF Pinging
    <3>3. QED BY Zenon, <3>2 DEF Pinging
  <2>4. CASE WritePacket
    <3>1. /\ sock' = sock /\ awaiting' = awaiting
          /\ out # <<>> /\ out' = Tail(out)
          /\ said' = said \cup ({Head(out)} \cap {"CONNECT", "PINGREQ"})
      BY <2>4 DEF WritePacket, CanWrite
    <3>2. /\ OnePing'
          /\ Queued' => Queued /\ Head(out) # "PINGREQ"
          /\ Head(out) = "PINGREQ" => Queued
      BY <1>1, <3>1, PingTaken
    <3>3. "PINGREQ" \in said' <=> "PINGREQ" \in said \/ Head(out) = "PINGREQ"
      BY <3>1
    <3>4. QED BY Zenon, <3>1, <3>2, <3>3 DEF Pinging
  <2>5. QED BY Zenon, <1>11, <2>1, <2>2, <2>3, <2>4 DEF Traffic
<1>12. CASE Tick
  <2>1. Calm /\ out' = out
    BY <1>12 DEF Tick
  <2>2. QED BY Zenon, <1>1, <1>3, <2>1, PingKept
<1>13. QED
  BY Zenon, <1>4, <1>5, <1>6, <1>7, <1>8, <1>9, <1>10, <1>11, <1>12, StepCases

\* What the terms of Room stand for, before and after a step.
LEMMA Ones ==
  /\ Leaving = IF app = "disconnect" /\ (sock \/ net = "open") THEN 1 ELSE 0
  /\ AppOpening = IF app = "open" THEN 1 ELSE 0
  /\ NetOpening = IF net = "open" THEN 1 ELSE 0
  /\ NoPing = IF ~awaiting \/ "PINGREQ" \in said THEN 1 ELSE 0
  /\ Leaving' = IF app' = "disconnect" /\ (sock' \/ net' = "open") THEN 1 ELSE 0
  /\ AppOpening' = IF app' = "open" THEN 1 ELSE 0
  /\ NetOpening' = IF net' = "open" THEN 1 ELSE 0
  /\ NoPing' = IF ~awaiting' \/ "PINGREQ" \in said' THEN 1 ELSE 0
  BY DEF One, Leaving, AppOpening, NetOpening, NoPing

\* A step preserves the room on the queue.
LEMMA RoomStep == Places /\ Pinging /\ Bare /\ Room /\ Next => Room'
<1> SUFFICES ASSUME Places, Pinging, Bare, Room, Next
             PROVE  Room'
  OBVIOUS
<1>1. out \in Seq(PacketKinds) /\ OnePing /\ MaxOut \in Nat \ {0}
  BY LifecycleAssumption DEF Places, Pinging
<1>2. {"CONNECT", "PINGREQ", "DISCONNECT", "other"} \subseteq PacketKinds
  BY DEF PacketKinds
<1>3. Len(out) \in Nat
  BY <1>1, LenProperties
<1>4. Len(out) + Leaving + AppOpening + NetOpening + NoPing <= MaxOut + 2
  BY DEF Room
<1>5. SUFFICES Len(out') + Leaving' + AppOpening' + NetOpening' + NoPing' <= MaxOut + 2
  BY Zenon DEF Room
<1> DEFINE Free == ~awaiting \/ "PINGREQ" \in said
<1>bits. /\ {Leaving, AppOpening, NetOpening, NoPing} \subseteq {0, 1}
         /\ {Leaving', AppOpening', NetOpening', NoPing'} \subseteq {0, 1}
  BY Ones
<1>ends. /\ app' = app => AppOpening' = AppOpening
         /\ app' = app /\ (sock' \/ net' = "open" => sock \/ net = "open") => Leaving' <= Leaving
         /\ app' \notin {"disconnect", "open"} => Leaving' = 0 /\ AppOpening' = 0
         /\ app = "disconnect" /\ sock => Leaving = 1
         /\ app' = "disconnect" /\ ~sock' /\ net' # "open" => Leaving' = 0
         /\ app = "open" => AppOpening = 1
         /\ app' = "disconnect" => AppOpening' = 0
         /\ app' = "open" => Leaving' = 0
         /\ net' = net => NetOpening' = NetOpening
         /\ net = "open" => NetOpening = 1
         /\ net' # "open" => NetOpening' = 0
         /\ Leaving' = 0 \/ AppOpening' = 0
  BY Ones
<1>calm. UNCHANGED <<awaiting, said>> => NoPing' = NoPing
  BY Ones
<1>free. /\ Free => NoPing = 1
         /\ ~Free' => NoPing' = 0
         /\ ((Free' => Free) => NoPing' <= NoPing)
  BY Ones
<1>bound. MaxOut + 2 \in Int /\ 3 <= MaxOut + 2
  BY LifecycleAssumption
<1>7. CASE AppCalls
  <2>1. CASE AppConnect \/ AppConnectInit \/ AppDestroy
    <3>1. /\ out' = out /\ UNCHANGED <<awaiting, said>>
          /\ app' \notin {"disconnect", "open"}
          /\ net' = net \/ net' = "waiting"
      BY <2>1 DEF AppConnect, AppConnectInit, AppDestroy
    <3>2. /\ Len(out') = Len(out) /\ NoPing' = NoPing
          /\ Leaving' = 0 /\ AppOpening' = 0 /\ NetOpening' <= NetOpening
      BY <1>bits, <1>ends, <1>calm, <3>1
    <3>3. QED BY <1>1, <1>3, <1>4, <1>bits, <3>2
  <2>2. CASE AppSend
    <3>1. /\ out' = Append(out, "other") /\ Len(out) < MaxOut
          /\ app' \notin {"disconnect", "open"}
      BY <2>2 DEF AppSend, Queue
    <3>2. Len(out') = Len(out) + 1
      BY <1>1, <1>2, <3>1, PingAppended
    <3>3. QED BY <1>1, <1>3, <3>1, <3>2, <1>bits, <1>ends, <1>calm, <1>free
  <2>3. CASE AppDisconnect
    <3>1. /\ out' = out /\ app = "idle" /\ app' = "disconnect"
          /\ UNCHANGED <<sock, net, awaiting, said>>
      BY <2>3 DEF AppDisconnect
    <3>2. CASE sock
      <4>1. Len(out) < MaxOut
        BY <2>3, <3>2 DEF AppDisconnect
      <4>2. QED BY <1>1, <1>3, <3>1, <4>1, <1>bits, <1>ends, <1>calm, <1>free
    <3>3. CASE ~sock /\ net = "open"
      <4>1. out' = <<>>
        BY <3>1, <3>3 DEF Bare
      <4>2. Len(out') = 0 /\ AppOpening' = 0
        BY <3>1, <4>1, <1>ends, PingCleared
      <4>3. Leaving' + AppOpening' + NetOpening' + NoPing' <= MaxOut + 2
        BY <1>bits, <1>bound, <4>2
      <4>4. QED BY <1>bits, <4>2, <4>3
    <3>4. CASE ~sock /\ net # "open"
      <4>1. Leaving' = 0 /\ AppOpening' = 0 /\ NetOpening' = NetOpening /\ NoPing' = NoPing
        BY <3>1, <3>4, <1>ends, <1>calm
      <4>2. Len(out') = Len(out)
        BY <3>1
      <4>3. QED BY <1>1, <1>3, <1>4, <4>1, <4>2, <1>bits
    <3>5. QED BY <3>2, <3>3, <3>4
  <2>4. CASE AppSendDisconnect
    <3>1. /\ out' = out \/ (sock /\ out' = Append(out, "DISCONNECT"))
          /\ app = "disconnect" /\ app' = "idle"
          /\ UNCHANGED <<net, awaiting, said>>
      BY <2>4 DEF AppSendDisconnect, Queue
    <3>2. /\ Len(out') = Len(out) \/ (sock /\ Len(out') = Len(out) + 1)
          /\ Len(out') \in Nat
      BY <1>1, <1>2, <1>3, <3>1, PingAppended, PingKept
    <3>3. QED BY <1>1, <1>3, <1>4, <3>1, <3>2, <1>bits, <1>ends, <1>calm, <1>free
  <2>5. CASE AppJoined
    <3>1. out' = <<>> /\ app' = "freed"
      BY <2>5 DEF AppJoined
    <3>2. Len(out') = 0
      BY <3>1, PingCleared
    <3>3. Leaving' = 0 /\ AppOpening' = 0
      BY <1>ends, <3>1
    <3>4. Leaving' + AppOpening' + NetOpening' + NoPing' <= MaxOut + 2
      BY <1>bits, <1>bound, <3>3
    <3>5. QED BY <1>bits, <3>2, <3>4
  <2>6. QED BY Zenon, <1>7, <2>1, <2>2, <2>3, <2>4, <2>5 DEF AppCalls
<1>8. CASE Resets
  <2>1. out' = <<>> /\ (app' = "open" \/ app' = app)
    BY <1>8 DEF Resets, AppReset, NetReset, ReconnectReset
  <2>2. Len(out') = 0
    BY <2>1, PingCleared
  <2>3. Leaving' = 0 \/ AppOpening' = 0
    BY <1>ends
  <2>4. Leaving' + AppOpening' + NetOpening' + NoPing' <= MaxOut + 2
    BY <1>bits, <1>bound, <2>3
  <2>5. QED BY <1>bits, <2>2, <2>4
<1>9. CASE Opens
  <2>1. /\ out' = Append(out, "CONNECT") /\ awaiting' = awaiting /\ said' = {}
        /\ \/ app = "open" /\ app' = "idle" /\ net' = net
           \/ net = "open" /\ net' = "loop" /\ app' = app
    BY <1>9 DEF Opens, AppOpens, NetOpens, SocketOpens, Queue
  <2>2. Len(out') = Len(out) + 1 /\ (Free' => Free)
    BY <1>1, <1>2, <2>1, PingAppended
  <2>3. QED BY <1>1, <1>3, <1>4, <2>1, <2>2, <1>bits, <1>ends, <1>calm, <1>free
<1> DEFINE Calm == /\ UNCHANGED <<awaiting, said, app>> /\ (net' = "open" => net = "open")
                   /\ sock' => sock
<1>10. ASSUME Calm, Len(out') <= Len(out), Len(out') \in Nat
       PROVE  Len(out') + Leaving' + AppOpening' + NetOpening' + NoPing' <= MaxOut + 2
  BY <1>1, <1>3, <1>4, <1>10, <1>bits, <1>ends, <1>calm, <1>free
<1>11. ASSUME Calm, out' = out
       PROVE  Len(out') + Leaving' + AppOpening' + NetOpening' + NoPing' <= MaxOut + 2
  BY <1>3, <1>10, <1>11, PingKept
<1>12. CASE Misses
  <2>1. /\ UNCHANGED <<out, awaiting, said>>
        /\ \/ app = "open" /\ app' = "idle" /\ net' = net
           \/ net = "open" /\ net' = "over" /\ app' = app
    BY <1>12 DEF Misses, AppFails, NetFails, SocketFails
  <2>2. QED BY <1>1, <1>3, <1>4, <2>1, <1>bits, <1>ends, <1>calm, <1>free
<1>13. CASE Moves
  BY <1>11, <1>13, MoveEffect
<1>14. CASE Losses
  BY <1>11, <1>14, LossEffect
<1>15. CASE Hangups
  <2>1. Calm
    BY <1>15, HangupEffect
  <2>2. out' = out \/ (out # <<>> /\ out' = Tail(out))
    BY <1>15 DEF Hangups, ReadDisconnect, WriteDisconnect, CanWrite
  <2>3. Len(out') <= Len(out) /\ Len(out') \in Nat
    BY <1>1, <1>3, <2>2, HeadTailProperties, LenProperties
  <2>4. QED BY <1>10, <2>1, <2>3
<1>16. CASE Traffic
  <2>1. CASE MiscPings
    <3>1. /\ out' = Append(out, "PINGREQ") /\ awaiting' /\ ~awaiting /\ sock
          /\ UNCHANGED <<said, app>> /\ net' = "loop"
      BY <2>1 DEF MiscPings, Queue
    <3>2. ~Free' /\ Free
      BY Zenon, <3>1 DEF Pinging
    <3>3. Len(out') = Len(out) + 1
      BY <1>1, <1>2, <3>1, PingAppended
    <3>4. QED BY <1>1, <1>3, <1>4, <3>1, <3>2, <3>3, <1>bits, <1>ends, <1>calm, <1>free
  <2>2. CASE ReadConnack \/ ReadOther
    <3>1. Calm /\ out' = out
      BY <2>2 DEF ReadConnack, ReadOther, ReadNext, Onwards
    <3>2. QED BY <1>11, <3>1
  <2>3. CASE ReadPingresp
    <3>1. /\ out' = out /\ "PINGREQ" \in said /\ app' = app /\ sock' = sock
          /\ net \in ReadPlaces /\ (net' = net \/ net' = Onwards)
      BY <2>3 DEF ReadPingresp, CanRead, ReadNext
    <3>2. net' # "open"
      BY <3>1 DEF ReadPlaces, Onwards
    <3>3. Free /\ Len(out') = Len(out)
      BY <3>1
    <3>4. QED BY <1>1, <1>3, <1>4, <3>1, <3>2, <3>3, <1>bits, <1>ends, <1>calm, <1>free
  <2>4. CASE WritePacket
    <3>1. /\ UNCHANGED <<awaiting, app, net>>
          /\ out # <<>> /\ out' = Tail(out)
          /\ said' = said \cup ({Head(out)} \cap {"CONNECT", "PINGREQ"})
      BY <2>4 DEF WritePacket, CanWrite
    <3>2. Len(out') = Len(out) - 1
      BY <1>1, <3>1, PingTaken
    <3>3. Free => Free'
      BY <3>1
    <3>4. QED BY <1>1, <1>3, <1>4, <3>1, <3>2, <3>3, <1>bits, <1>ends, <1>calm, <1>free
  <2>5. QED BY Zenon, <1>16, <2>1, <2>2, <2>3, <2>4 DEF Traffic
<1>17. CASE Tick
  BY <1>11, <1>17 DEF Tick
<1>18. QED
  BY Zenon, <1>7, <1>8, <1>9, <1>12, <1>13, <1>14, <1>15, <1>16, <1>17, StepCases

-----------------------------------------------------------------------------
(* How long a silent connection can last                                   *)

\* Where the network thread has a connection.
Live == ReadPlaces \cup {"waiting", "loop", "select", "write", "misc"}

\* The connection whose silence is bounded: not the one that connect is about to close, for
\* which the keepalive was set anew.
Watched == sock /\ app # "reset" /\ keepalive # 0 /\ net \in Live

\* How long it may have been silent when the PINGREQ was queued.
Base == IF awaiting THEN MaxInterval + timeout - 1 ELSE 0

\* The silence lasts no longer than last_msg_in says, and that is looked at whenever select()
\* returns, at the latest at the end of its timeout.
Silent ==
  Watched =>
    /\ silence <= Base + MaxInterval + timeout - 1
    /\ lastIn < MaxInterval => silence <= Base + lastIn
    /\ net = "waiting" => silence = 0
    /\ net = "loop" => silence <= Base + MaxInterval - 1
    /\ net = "select" => silence + wait <= Base + MaxInterval + timeout - 1

\* Whoever connects has started the thread, and there is no connection without it.
Started ==
  /\ ~threaded => ~sock
  /\ app \in {"connect", "reset", "open"} => threaded

\* A step preserves Started.
LEMMA StartedStep == LifecycleInv /\ Started /\ Next => Started'
<1> SUFFICES ASSUME LifecycleInv, Started, Next
             PROVE  Started'
  OBVIOUS
<1>1. Places /\ Threads
  BY DEF LifecycleInv
<1>2. CASE AppCalls
  BY <1>2 DEF AppCalls, AppConnect, AppConnectInit, AppSend, AppDisconnect, AppSendDisconnect,
     AppDestroy, AppJoined, Started
<1>3. CASE Resets
  BY <1>3, ResetEffect DEF Started
<1>4. CASE Opens
  BY <1>1, <1>4 DEF Opens, AppOpens, NetOpens, SocketOpens, Started, Threads
<1>5. CASE Misses
  BY <1>5 DEF Misses, AppFails, NetFails, SocketFails, Started
<1>6. CASE Moves
  BY <1>1, <1>6, MoveEffect DEF Started
<1>7. CASE Losses
  BY <1>1, <1>7, LossEffect DEF Started
<1>8. CASE Hangups
  BY <1>1, <1>8, HangupEffect DEF Started
<1>9. CASE Traffic
  <2>1. threaded' = threaded /\ app' = app /\ sock' = sock
    BY <1>9 DEF Traffic, MiscPings, ReadConnack, ReadPingresp, ReadOther, WritePacket
  <2>2. QED BY <2>1 DEF Started
<1>10. CASE Tick
  BY <1>10 DEF Tick, Started
<1>11. QED BY Zenon, <1>2, <1>3, <1>4, <1>5, <1>6, <1>7, <1>8, <1>9, <1>10, StepCases

\* Right after something arrived, or on a new connection.
LEMMA NoSilence ==
  ASSUME Times', silence' = 0
  PROVE  Silent'
<1>1. PICK longest \in Nat \ {0} : longest = MaxInterval
  BY LifecycleAssumption
<1>2. PICK most \in Nat : most = timeout'
  BY <1>1 DEF Times
<1>3. PICK left \in 0..most : left = wait'
  BY <1>2 DEF Times
<1>4. PICK last \in Nat : last = lastIn'
  BY <1>1 DEF Times
<1>5. longest + most - 1 \in Nat /\ 0 \in Nat
  BY <1>1, longest \in Nat \ {0}, most \in Nat
<1>6. Base' \in Nat
  <2>1. Base' = IF awaiting' THEN longest + most - 1 ELSE 0
    BY <1>1, <1>2 DEF Base
  <2>2. QED BY <1>5, <2>1
<1>7. PICK base \in Nat : base = Base'
  BY <1>6
<1>8. /\ longest \in Nat /\ 1 <= longest /\ most \in Nat /\ base \in Nat /\ last \in Nat
      /\ left \in Nat /\ left <= most
  BY <1>1, <1>2, <1>3, <1>4, <1>7
<1>9. /\ 0 <= base + longest + most - 1 /\ 0 <= base + last /\ 0 <= base + longest - 1
      /\ 0 + left <= base + longest + most - 1
  BY <1>8
<1>10. QED BY <1>1, <1>2, <1>3, <1>4, <1>7, <1>9 DEF Silent

\* A step that leaves the times alone.
LEMMA SilenceKept ==
  ASSUME Silent, UNCHANGED <<keepalive, awaiting, lastIn, silence, timeout>>, sock' => sock,
         app' # "reset" => app # "reset",
         net' \in Live => net \in Live,
         net' = "waiting" => net = "waiting",
         net' = "loop" => net = "loop",
         net' = "select" => net = "select" /\ wait' = wait
  PROVE  Silent'
<1>1. Base' = Base
  BY DEF Base
<1>2. Watched' => Watched
  BY DEF Watched
<1>3. QED BY <1>1, <1>2 DEF Silent

\* A step preserves Silent.
LEMMA SilentStep == LifecycleInv /\ Started /\ Times /\ Times' /\ Silent /\ Next => Silent'
<1> SUFFICES ASSUME LifecycleInv, Started, Times, Times', Silent, Next
             PROVE  Silent'
  OBVIOUS
<1>1. Places /\ Threads
  BY DEF LifecycleInv
<1>2. MaxInterval \in Nat \ {0}
  BY LifecycleAssumption
<1>3. /\ keepalive \in 0..MaxInterval /\ lastIn \in 0..MaxInterval /\ nextOut \in 0..MaxInterval
      /\ timeout \in 0..MaxInterval /\ wait \in 0..timeout /\ silence \in Nat
      /\ lastIn' \in 0..MaxInterval /\ wait' \in Nat
  BY <1>2 DEF Times
<1>4. Base \in Int /\ 0 <= Base
  BY <1>2, <1>3 DEF Base
<1>5. ASSUME ~sock' \/ net' \notin Live
      PROVE  Silent'
  BY <1>5 DEF Silent, Watched
<1>6. CASE AppCalls
  <2>1. CASE AppConnect
    <3>1. CASE threaded
      <4>1. /\ UNCHANGED <<keepalive, awaiting, lastIn, silence, sock, net, timeout, wait>>
            /\ app # "reset"
        BY <2>1, <3>1 DEF AppConnect
      <4>2. QED BY <4>1, SilenceKept
    <3>2. CASE ~threaded
      BY <1>5, <2>1, <3>2 DEF AppConnect, Started
    <3>3. QED BY <3>1, <3>2
  <2>2. CASE AppConnectInit
    BY <2>2 DEF AppConnectInit, Silent, Watched
  <2>3. CASE AppSend \/ AppDisconnect \/ AppSendDisconnect \/ AppDestroy
    <3>1. /\ UNCHANGED <<keepalive, awaiting, lastIn, silence, sock, net, timeout, wait>>
          /\ app # "reset"
      BY <2>3 DEF AppSend, AppDisconnect, AppSendDisconnect, AppDestroy
    <3>2. QED BY <3>1, SilenceKept
  <2>4. CASE AppJoined
    BY <1>5, <2>4 DEF AppJoined
  <2>5. QED BY Zenon, <1>6, <2>1, <2>2, <2>3, <2>4 DEF AppCalls
<1>7. CASE Resets
  BY <1>5, <1>7, ResetEffect
<1>8. CASE Opens
  <2>1. silence' = 0
    BY <1>8 DEF Opens, AppOpens, NetOpens, SocketOpens
  <2>2. QED BY <1>2, <1>3, <2>1, NoSilence
<1>9. CASE Misses
  <2>1. CASE AppFails
    <3>1. /\ UNCHANGED <<keepalive, awaiting, lastIn, silence, sock, net, timeout, wait>>
          /\ app # "reset"
      BY <2>1 DEF AppFails, SocketFails
    <3>2. QED BY <3>1, SilenceKept
  <2>2. CASE NetFails
    BY <1>5, <2>2 DEF NetFails, Live, ReadPlaces
  <2>3. QED BY <1>9, <2>1, <2>2 DEF Misses
<1>10. CASE Moves
  <2>1. UNCHANGED <<keepalive, awaiting, lastIn, silence, sock, app>>
    BY <1>1, <1>10, MoveEffect
  <2>2. CASE ThreadStarts
    <3>1. net = "waiting" /\ net' = "loop"
      BY <2>2 DEF ThreadStarts, Goes
    <3>2. CASE Watched'
      <4>1. Watched
        BY <2>1, <3>1, <3>2 DEF Watched, Live
      <4>2. silence' = 0
        BY <2>1, <3>1, <4>1 DEF Silent
      <4>3. QED BY <4>2, NoSilence
    <3>3. CASE ~Watched'
      BY <3>3 DEF Silent
    <3>4. QED BY <3>2, <3>3
  <2>timeout. net # "waiting" => timeout' = timeout
    BY <1>10 DEF Moves, ThreadStarts, LoopNoConn, LoopSelect, SelectTimeout, SelectWoken, SelectWritable,
       SelectReadable, MiscNoConn, MiscNothing, OverEnds, OverSleeps, SleepEnds, ReadNothing,
       WriteNothing, Cancelled
  <2>3. CASE LoopSelect
    <3>1. net = "loop" /\ net' = "select" /\ timeout' = timeout
      BY <2>3 DEF LoopSelect, Goes
    <3>2. Base' = Base /\ (Watched' => Watched)
      BY <2>1, <3>1 DEF Base, Watched, Live
    <3>3. PICK most \in Nat : most = timeout
      BY <1>2, <1>3
    <3>4. PICK left \in 0..most : left = wait'
      BY <3>1, <3>3 DEF Times
    <3>5. PICK longest \in Nat \ {0} : longest = MaxInterval
      BY <1>2
    <3>6. PICK base \in Nat : base = Base
      BY <1>4
    <3>7. PICK now \in Nat : now = silence
      BY <1>3
    <3>types. /\ longest \in Nat /\ 1 <= longest /\ most \in Nat /\ base \in Nat /\ now \in Nat
              /\ left \in Nat /\ left <= most
      BY <3>3, <3>4, <3>5, <3>6, <3>7
    <3>8. now <= base + longest - 1 =>
            now + left <= base + longest + most - 1 /\ now <= base + longest + most - 1
      BY <3>types
    <3>9. QED BY <2>1, <3>1, <3>2, <3>3, <3>4, <3>5, <3>6, <3>7, <3>8 DEF Silent
  <2>4. CASE MiscNothing
    <3>1. net = "misc" /\ net' = "loop" /\ ~(keepalive # 0 /\ (nextOut = 0 \/ lastIn >= keepalive))
      BY <2>4 DEF MiscNothing, Goes, KeepaliveDue
    <3>2. Base' = Base /\ timeout' = timeout
      BY <2>1, <2>timeout, <3>1 DEF Base
    <3>3. Watched' => Watched /\ lastIn < keepalive
      BY <1>2, <1>3, <2>1, <3>1 DEF Watched, Live
    <3>4. Watched' => silence <= Base + lastIn /\ lastIn <= MaxInterval - 1
      BY <1>2, <1>3, <3>3 DEF Silent
    <3>5. Watched' => silence <= Base + MaxInterval - 1
      BY <1>2, <1>3, <1>4, <3>4
    <3>6. Watched' => silence <= Base + MaxInterval + timeout - 1
      BY <3>3 DEF Silent
    <3>7. QED BY <2>1, <3>1, <3>2, <3>3, <3>4, <3>5, <3>6 DEF Silent
  <2>5. CASE SelectTimeout \/ SelectWoken \/ SelectWritable \/ SelectReadable
    <3>1. net = "select" /\ net' \in ReadPlaces \cup {"misc", "write"}
      BY <2>5 DEF SelectTimeout, SelectWoken, SelectWritable, SelectReadable, Goes, ReadPlaces
    <3>2. net' \notin {"loop", "waiting", "select"} /\ net \in Live
      BY <3>1 DEF ReadPlaces, Live
    <3>3. QED BY <2>1, <2>timeout, <3>1, <3>2, SilenceKept
  <2>6. CASE ReadNothing \/ WriteNothing
    <3>1. net \in ReadPlaces \cup {"write"} /\ net' \in {"misc", "write"}
      BY <2>6 DEF ReadNothing, WriteNothing, Goes, Onwards
    <3>2. net \in Live /\ net # "waiting" /\ net' \notin {"waiting", "loop", "select"}
      BY <3>1 DEF Live, ReadPlaces
    <3>3. QED BY <2>1, <2>timeout, <3>2, SilenceKept
  <2>7. CASE LoopNoConn \/ MiscNoConn \/ OverEnds \/ OverSleeps \/ SleepEnds \/ Cancelled
    <3>1. net' \in {"over", "ended", "sleep", "reset"}
      BY <2>7 DEF LoopNoConn, MiscNoConn, OverEnds, OverSleeps, SleepEnds, Cancelled, Goes,
         AfterSleep
    <3>2. QED BY <1>5, <3>1 DEF Live, ReadPlaces
  <2>8. QED BY Zenon, <1>10, <2>2, <2>3, <2>4, <2>5, <2>6, <2>7 DEF Moves
<1>11. CASE Losses
  BY <1>1, <1>5, <1>11, LossEffect
<1>12. CASE Hangups
  BY <1>1, <1>5, <1>12, HangupEffect
<1>13. CASE Traffic
  <2>1. CASE MiscPings
    <3>1. /\ net = "misc" /\ net' = "loop" /\ ~awaiting /\ awaiting' = TRUE /\ lastIn' = 0
          /\ UNCHANGED <<keepalive, sock, app, silence, timeout>>
      BY <2>1 DEF MiscPings
    <3>2. Base = 0 /\ Base' = MaxInterval + timeout - 1
      BY <3>1 DEF Base
    <3>3. Watched' => Watched
      BY <3>1 DEF Watched, Live
    <3>4. Watched' => silence <= Base'
      BY <1>2, <1>3, <3>2, <3>3 DEF Silent
    <3>5. PICK later \in Nat : later = Base'
      BY <1>2, <1>3, <3>2
    <3>6. PICK longest \in Nat \ {0} : longest = MaxInterval
      BY <1>2
    <3>7. PICK most \in Nat : most = timeout
      BY <1>2, <1>3
    <3>8. PICK now \in Nat : now = silence
      BY <1>3
    <3>types. /\ longest \in Nat /\ 1 <= longest /\ most \in Nat /\ later \in Nat /\ now \in Nat
      BY <3>5, <3>6, <3>7, <3>8
    <3>9. now <= later => /\ now <= later + longest + most - 1
                          /\ now <= later + 0
                          /\ now <= later + longest - 1
      BY <3>types
    <3>10. QED BY <3>1, <3>3, <3>4, <3>5, <3>6, <3>7, <3>8, <3>9 DEF Silent
  <2>2. CASE ReadConnack \/ ReadPingresp \/ ReadOther
    <3>1. silence' = 0
      BY <2>2 DEF ReadConnack, ReadPingresp, ReadOther, Heard
    <3>2. QED BY <1>2, <1>3, <3>1, NoSilence
  <2>3. CASE WritePacket
    <3>1. UNCHANGED <<keepalive, awaiting, lastIn, silence, sock, app, net, timeout, wait>>
      BY <2>3 DEF WritePacket
    <3>2. QED BY <3>1, SilenceKept
  <2>4. QED BY Zenon, <1>13, <2>1, <2>2, <2>3 DEF Traffic
<1>14. CASE Tick
  <2>1. CASE net \in {"none", "ended", "open"}
    BY <1>5, <1>14, <2>1 DEF Tick, Live, ReadPlaces
  <2>2. CASE net = "select" /\ (wait > 0 \/ keepalive = 0)
    <3>1. /\ UNCHANGED <<keepalive, awaiting, sock, app, net, timeout>>
          /\ lastIn' = AtMost(lastIn + 1, MaxInterval) /\ wait' = Before(wait)
          /\ silence' = AtMost(silence + 1, MaxSilence)
      BY <1>14, <2>2 DEF Tick
    <3>2. Base' = Base
      BY <3>1 DEF Base
    <3>3. CASE Watched'
      <4>1. Watched /\ wait > 0
        BY <2>2, <3>1, <3>3 DEF Watched
      <4>2. PICK now \in Nat : now = silence
        BY <1>3
      <4>3. PICK after \in Int : after = silence' /\ after <= now + 1
        BY <3>1, <4>2, LifecycleAssumption DEF AtMost
      <4>4. PICK left \in Nat : left = wait /\ 1 <= left
        BY <1>2, <1>3, <4>1
      <4>5. wait' = left - 1
        BY <3>1, <4>1, <4>4 DEF Before
      <4>6. PICK most \in Int : most = Base + MaxInterval + timeout - 1
        BY <1>2, <1>3, <1>4
      <4>7. now + left <= most
        BY <2>2, <4>1, <4>2, <4>4, <4>6 DEF Silent
      <4>types. /\ now \in Nat /\ after \in Int /\ left \in Nat /\ most \in Int
                /\ after <= now + 1 /\ 1 <= left
        BY <4>2, <4>3, <4>4, <4>6
      <4>8. after + (left - 1) <= most /\ after <= most
        BY <4>types, <4>7
      <4>9. ASSUME lastIn' < MaxInterval
            PROVE  silence' <= Base + lastIn'
        <5>1. PICK last \in Nat : last = lastIn
          BY <1>3
        <5>2. lastIn' = last + 1 /\ lastIn < MaxInterval
          BY <1>2, <1>3, <3>1, <4>9, <5>1 DEF AtMost
        <5>3. now <= Base + last
          BY <4>1, <4>2, <5>1, <5>2 DEF Silent
        <5>4. PICK base \in Int : base = Base
          BY <1>4
        <5>types. last \in Nat /\ base \in Int
          BY <5>1, <5>4
        <5>5. after <= base + (last + 1)
          BY <4>types, <5>types, <5>3, <5>4
        <5>6. QED BY <4>3, <5>2, <5>4, <5>5
      <4>10. net' \notin {"loop", "waiting"}
        BY <2>2, <3>1
      <4>11. QED BY <3>1, <3>2, <4>3, <4>5, <4>6, <4>8, <4>9, <4>10 DEF Silent
    <3>4. CASE ~Watched'
      BY <3>4 DEF Silent
    <3>5. QED BY <3>3, <3>4
  <2>3. QED BY <1>14, <2>1, <2>2 DEF Tick
<1>15. QED
  BY Zenon, <1>6, <1>7, <1>8, <1>9, <1>10, <1>11, <1>12, <1>13, <1>14, StepCases

-----------------------------------------------------------------------------
(* Theorems                                                                *)

\* The invariant holds in every state.
LEMMA Invariance == Spec => []LifecycleInv
<1>1. LifecycleInv /\ [Next]_vars => LifecycleInv'
  BY Zenon, PlacesStep, RacingStep, BareStep, ThreadsStep, FlaggedStep, DismissedStep, PartedStep,
     StutterInv DEF LifecycleInv
<1>2. QED BY InitInv, <1>1, PTL DEF Spec

\* While a connection is up the flag "connected" of the Swift client says whether a CONNACK
\* was accepted on it, whatever the two threads do, unless connect has replaced a connection
\* or they were in mosquitto__reconnect at once (Mosquitto.swift:131-141, loop.c:335-359).
THEOREM FlagCorrect == Spec => []FlagFollows
<1>1. LifecycleInv => FlagFollows
  BY Zenon DEF LifecycleInv, Flagged, FlagFollows
<1>2. QED BY Invariance, <1>1, PTL

\* on_disconnect is called at most once for a connection, or twice for one that
\* do_client_disconnect has ended (loop.c:335-359, loop.c:384-398, loop.c:418-426).
THEOREM DismissedTwiceAtMost == Spec => []OnlyHangupTwice
<1>1. LifecycleInv => OnlyHangupTwice
  <2> SUFFICES ASSUME LifecycleInv
               PROVE  OnlyHangupTwice
    OBVIOUS
  <2>1. goodbyes = 0 \/ goodbyes = 1 \/ (goodbyes = 2 /\ hungUp)
    BY DEF LifecycleInv, Dismissed
  <2>2. CASE hungUp
    BY <2>1, <2>2 DEF OnlyHangupTwice
  <2>3. CASE ~hungUp
    BY <2>1, <2>3 DEF OnlyHangupTwice
  <2>4. QED BY <2>2, <2>3
<1>2. QED BY Invariance, <1>1, PTL

\* After disconnect no connection is opened any more, unless the client was connecting when
\* it was called (loop.c:289-321, connect.c:187-200, handle_connack.c:110-117).
THEOREM DisconnectKept == Spec => DisconnectHonoured
<1>1. LifecycleInv /\ [Next]_vars => [~sock /\ sock' => wanted # "disconnect" \/ excused]_vars
  <2> SUFFICES ASSUME LifecycleInv, Next, ~sock, sock'
               PROVE  wanted # "disconnect" \/ excused
    BY DEF vars
  <2>1. Places /\ Parted
    BY DEF LifecycleInv
  <2>2. CASE AppCalls
    BY <2>2 DEF AppCalls, AppConnect, AppConnectInit, AppSend, AppDisconnect,
       AppSendDisconnect, AppDestroy, AppJoined
  <2>3. CASE Opens
    <3>1. app = "open" \/ net = "open"
      BY <2>3 DEF Opens, AppOpens, NetOpens
    <3>2. QED BY <2>1, <3>1 DEF Parted
  <2>4. CASE Misses
    BY <2>4 DEF Misses, AppFails, NetFails, SocketFails
  <2>5. CASE Traffic
    BY <2>5 DEF Traffic, MiscPings, ReadConnack, ReadPingresp, ReadOther, WritePacket, CanRead,
       CanWrite
  <2>6. CASE Tick
    BY <2>6 DEF Tick
  <2>7. QED
    BY <2>1, <2>2, <2>3, <2>4, <2>5, <2>6, StepCases, ResetEffect, MoveEffect, LossEffect,
       HangupEffect
<1>2. QED BY Invariance, <1>1, PTL DEF Spec, DisconnectHonoured

\* A PINGRESP is awaited only for a PINGREQ that is queued or was sent on this connection
\* (connect.c:167-175, util_mosq.c:94-100, handle_ping.c:68).
THEOREM AwaitedWasAsked == Spec => []AwaitedIsAsked
<1>1. Init => AwaitedIsAsked
  BY DEF Init, AwaitedIsAsked
<1>2. AwaitedIsAsked /\ UNCHANGED vars => AwaitedIsAsked'
  BY DEF AwaitedIsAsked, vars
<1>3. LifecycleInv /\ AwaitedIsAsked /\ [Next]_vars => AwaitedIsAsked'
  BY <1>2, AwaitedStep
<1>4. QED BY Invariance, <1>1, <1>3, PTL DEF Spec

\* The rest of the invariant: the types, the one PINGREQ, the room on the queue and the time
\* for which a connection has been silent.
TimedInv == Words /\ Flags /\ Times /\ Pinging /\ Room /\ Started /\ Silent

\* It holds in every state.
LEMMA TimedInvariance == Spec => []TimedInv
<1>1. Init => TimedInv
  <2> SUFFICES ASSUME Init
               PROVE  TimedInv
    OBVIOUS
  <2>1. /\ MaxInterval \in Nat \ {0} /\ NewInterval \in 0..MaxInterval
        /\ MaxOut \in Nat \ {0} /\ MaxSilence \in Nat
    BY LifecycleAssumption
  <2>2. Words /\ Flags /\ Started /\ Silent
    BY DEF Init, Words, States, Flags, Started, Silent, Watched
  <2>3. Times
    BY <2>1 DEF Init, Times
  <2>4. out = <<>> /\ ~awaiting /\ said = {} /\ app = "idle" /\ net = "none"
    BY DEF Init
  <2>5. Len(out) = 0 /\ DOMAIN out = {}
    BY <2>4
  <2>6. Pinging
    BY <2>4, <2>5 DEF Pinging, OnePing, Queued
  <2>7. Leaving = 0 /\ AppOpening = 0 /\ NetOpening = 0 /\ NoPing = 1
    BY <2>4, Ones
  <2>8. Room
    BY <2>1, <2>5, <2>7 DEF Room
  <2>9. QED BY Zenon, <2>2, <2>3, <2>6, <2>8 DEF TimedInv
<1>2. LifecycleInv /\ TimedInv /\ Next => TimedInv'
  BY Zenon, WordsStep, FlagsStep, TimesStep, PingingStep, RoomStep, StartedStep, SilentStep
     DEF TimedInv, LifecycleInv
<1>3. TimedInv /\ UNCHANGED vars => TimedInv'
  <2> SUFFICES ASSUME TimedInv, UNCHANGED vars
               PROVE  TimedInv'
    OBVIOUS
  <2>1. Words' /\ Flags' /\ Times' /\ Started'
    BY DEF vars, TimedInv, Words, Flags, Times, Started
  <2>2. Pinging'
    BY DEF vars, TimedInv, Pinging, OnePing, Queued
  <2>3. /\ Len(out') = Len(out) /\ Leaving' = Leaving /\ AppOpening' = AppOpening
        /\ NetOpening' = NetOpening /\ NoPing' = NoPing
    BY DEF vars, One, Leaving, AppOpening, NetOpening, NoPing
  <2>4. Room'
    BY Zenon, <2>3 DEF TimedInv, Room
  <2>5. Base' = Base /\ (Watched' <=> Watched)
    BY DEF vars, Base, Watched
  <2>6. Silent'
    BY <2>5 DEF vars, TimedInv, Silent
  <2>7. QED BY Zenon, <2>1, <2>2, <2>4, <2>6 DEF TimedInv
<1>4. LifecycleInv /\ TimedInv /\ [Next]_vars => TimedInv'
  BY Zenon, <1>2, <1>3
<1>5. QED BY Invariance, <1>1, <1>4, PTL DEF Spec

\* Every variable keeps its type.  The queue is never longer by more than two packets than
\* what the application may fill it to: a reconnect empties it first, and a PINGREQ is queued
\* only when the last one was answered (connect.c:167-175, util_mosq.c:94-100).
THEOREM LifecycleTypeCorrect == Spec => []LifecycleTypeOK
<1>1. LifecycleInv /\ TimedInv => LifecycleTypeOK
  <2> SUFFICES ASSUME LifecycleInv, TimedInv
               PROVE  LifecycleTypeOK
    OBVIOUS
  <2>1. Places /\ Words /\ Flags /\ Times /\ Room
    BY DEF LifecycleInv, TimedInv
  <2>2. Len(out) \in Nat /\ MaxOut \in Nat
    BY <2>1, LenProperties, LifecycleAssumption DEF Places
  <2>3. /\ Leaving \in {0, 1} /\ AppOpening \in {0, 1}
        /\ NetOpening \in {0, 1} /\ NoPing \in {0, 1}
    BY DEF One, Leaving, AppOpening, NetOpening, NoPing
  <2>4. Len(out) + Leaving + AppOpening + NetOpening + NoPing <= MaxOut + 2
    BY <2>1 DEF Room
  <2>5. Len(out) <= MaxOut + 2
    BY <2>2, <2>3, <2>4
  <2>6. {sock, threaded, awaiting, woken, connected} \subseteq BOOLEAN
    BY Zenon, <2>1 DEF Flags
  <2>7. {greeted, hungUp, replaced, raced, excused} \subseteq BOOLEAN
    BY Zenon, <2>1 DEF Flags
  <2>8. {lastIn, nextOut, timeout, wait} \subseteq 0..MaxInterval
    BY <2>1, LifecycleAssumption DEF Times
  <2>9. QED
    BY Zenon, <2>1, <2>5, <2>6, <2>7, <2>8 DEF Places, Words, Times, LifecycleTypeOK
<1>2. QED BY Invariance, TimedInvariance, <1>1, PTL

\* A broker that has fallen silent is noticed within twice the longest interval and the timeout
\* of select() together, whatever intervals the broker imposes, shorter or longer than what was
\* asked for, whatever the application sends meanwhile and whenever the two threads reconnect
\* (util_mosq.c:63-130, loop.c:108-117, packet_mosq.c:300-304, handle_connack.c:102).
THEOREM SilenceIsNoticed == Spec => []DeadPeerNoticed
<1>1. TimedInv => DeadPeerNoticed
  <2> SUFFICES ASSUME TimedInv, net = "select", app = "idle", sock, keepalive # 0
               PROVE  silence <= 2 * (MaxInterval + timeout) - 2
    BY DEF DeadPeerNoticed
  <2>1. Times /\ Silent
    BY DEF TimedInv
  <2>2. MaxInterval \in Nat \ {0} /\ timeout \in Nat /\ silence \in Nat
    BY <2>1, LifecycleAssumption DEF Times
  <2>3. Watched
    BY DEF Watched, Live
  <2>4. silence <= Base + MaxInterval + timeout - 1
    BY <2>1, <2>3 DEF Silent
  <2>5. Base \in Int /\ Base <= MaxInterval + timeout - 1
    BY <2>2 DEF Base
  <2>6. QED BY <2>2, <2>4, <2>5
<1>2. QED BY TimedInvariance, <1>1, PTL

=============================================================================
