------------------------- MODULE OutPacketQueueProofs -------------------------
(***************************************************************************)
(* Proofs about OutPacketQueue, for any number of threads that send, of    *)
(* packets, of bytes to a packet and of connections.  The application      *)
(* calls connect once: called again while the network thread runs it       *)
(* empties the queue under the feet of packet__write.  So it does when the *)
(* network thread has started early, which is excepted too.                *)
(***************************************************************************)
EXTENDS OutPacketQueue, SequenceTheorems, FiniteSetTheorems, TLAPS

\* The application calls connect at most once.
OneConnect == MaxAppConnects \in {0, 1}

-----------------------------------------------------------------------------
(* The invariant                                                           *)

Reconnects == {"start", "reset", "clean", "close", "open"}

\* Only the network thread and the application's first connect are in
\* mosquitto__reconnect, never both; the network thread waits until the connect has set the
\* state.
Roles ==
  /\ \A t \in Threads : call[t] \in Reconnects => t \in {Net, Connector}
  /\ call[Net] \in Reconnects <=> netPc = "reconnect"
  /\ call[Connector] \in Reconnects =>
       /\ conns = 0 /\ appConnects = 1
       /\ netPc \in {"waiting", "loop", "over", "ended"}
       /\ state \in {"new", "disconnected"}
       /\ netPc \in {"loop", "over"} => state = "disconnected"
  /\ call[Connector] = "start" => netPc = "waiting"
  /\ appConnects = 0 =>
       /\ netPc = "waiting" /\ state \in {"new", "disconnected"} /\ conns = 0
       /\ \A t \in Threads : call[t] = "none"
  /\ conns = 0 =>
       /\ kinds = <<>>
       /\ \A t \in Threads : call[t] \in Reconnects \cup {"none"}

\* What select() has reported is read before the next look.
Watching == "wake" \in ready => netPc = "read" /\ bytes > 0

\* The number of the last packet that has left the list.
Low == Len(kinds) - Len(list)

\* The list holds the last packets that were linked, in order; whoever has linked one holds
\* the mutex until out_packet_last points at it.
Linked ==
  /\ Len(list) <= Len(kinds)
  /\ \A i \in 1..Len(list) : list[i] = Low + i
  /\ \A t \in Threads : call[t] = "linked" <=> outMutex = t
  /\ \A t \in Threads : call[t] = "linked" => list # <<>> /\ mine[t] = Len(kinds)
  /\ outMutex = Free /\ list # <<>> => last = Len(kinds)
  /\ \A p \in Packets : p > Low => left[p] = Size

\* The packet that is being written is neither on the list nor freed, nor is the one that
\* packet__write is about to free.
Owned ==
  /\ current <= Low /\ held <= Low
  /\ \A p \in freed : p <= Low
  /\ current \notin freed /\ held \notin freed
  /\ held # 0 => netPc \in {"advance", "hangup", "unlock"}
  /\ netPc = "advance" => held # 0 /\ held = current /\ left[current] = 0
  /\ netPc = "hangup" => held \in {0, current}
  /\ netPc = "unlock" /\ held # 0 => held # current

\* What is queued belongs to the connection that the last cleanup was for, which is the one
\* that is open.
Epochs ==
  /\ \A p \in Packets : p > Low \/ p = current => born[p] = epoch
  /\ \A t \in Threads : call[t] \in {"close", "open"} => epoch = conns + 1 /\ current = 0
  /\ \A t \in Threads : call[t] = "open" => sock = 0
  /\ sock # 0 /\ call[Net] # "close" => sock = conns /\ epoch = conns

\* What a connection has carried.
Carried ==
  /\ \A c \in Conns : c > conns => wires[c] = <<>>
  /\ \A c \in Conns : \A i \in DOMAIN wires[c] : wires[c][i] <= Low /\ born[wires[c][i]] = c

\* How often p occurs in the sequence w.
Count(w, p) == Cardinality({i \in DOMAIN w : w[i] = p})

\* The bytes of the packets are in the order of the packets.
Ordered(w) == \A i, j \in DOMAIN w : i < j => w[i] <= w[j]

\* Every packet is complete, but perhaps the last.
Complete(w) == \A i \in DOMAIN w : w[i] # Last(w) => Count(w, w[i]) = Size

\* What is on the connection while a packet is being written, or none.
Progress(w) ==
  /\ \A i \in DOMAIN w : /\ w[i] # current => Count(w, w[i]) = Size
                         /\ current # 0 => w[i] <= current
  /\ current # 0 => Count(w, current) = Size - left[current]

Live == sock # 0 /\ call[Net] # "close"

Whole ==
  /\ \A c \in Conns : Ordered(wires[c]) /\ Complete(wires[c])
  /\ Live => Progress(wires[sock])

\* The packets that nothing points at; one more is due when a DISCONNECT of the broker is
\* being handled.
Lost == Packets \ (freed \cup ToSet(list) \cup {current, held})

Accounted ==
  Cardinality(Lost) + (IF netPc = "hangup" /\ held = 0 THEN 1 ELSE 0) <= hangups

QueueInv ==
  QueueTypeOK /\ Roles /\ Watching /\ Linked /\ Owned /\ Epochs /\ Carried /\ Whole /\ Accounted

-----------------------------------------------------------------------------
(* The steps, by what they touch                                           *)

USE DEF listVars, mutexVars, netVars, sockVars, ghostVars, boundVars

\* The network thread moves on: no packet moves, no call begins or ends.
Moves ==
  \/ ThreadStarts \/ NoConn \/ LoopSelect \/ Selected \/ SelectTimesOut
  \/ ReadNothing \/ ReadFails
  \/ WriteReturns \/ WriteFails \/ LoopOver

\* The network thread begins a call, or has written a packet.
Begins == ReadAnswers \/ WriteDone \/ SleepEnds

\* A call goes on, or begins, and no packet moves.
Calling(t) ==
  \/ QueueLast(t) \/ QueueWake(t) \/ CleanupLock(t) \/ CloseOld(t) \/ OpenFails(t) \/ Open(t)
  \/ t \in Senders /\ (Send(t) \/ Disconnect(t))
  \/ t = Connector /\ (AppStarts \/ AppConnect)

\* Packets move.
Shifts == WriteEnter \/ WriteNext \/ Hangup

\* Every step is one of these.
LEMMA StepCases ==
  ASSUME Next
  PROVE  \/ Moves \/ Begins \/ (\E t \in Threads : Calling(t))
         \/ (\E t \in Threads : QueueLink(t)) \/ (\E t \in Threads : Cleanup(t))
         \/ Shifts \/ WriteBytes \/ HangupReturns \/ ReadDisconnect
         \/ UNCHANGED vars
<1>1. Connector \in Threads /\ \A t \in Senders : t \in Threads
  BY QueueAssumption DEF Threads
<1>2. NetSteps => Moves \/ Begins \/ Shifts \/ WriteBytes \/ HangupReturns \/ ReadDisconnect
  BY Zenon DEF NetSteps, Writing, Moves, Begins, Shifts
<1>3. ASSUME NEW t \in Threads, Queueing(t) \/ Reconnecting(t)
      PROVE  Calling(t) \/ QueueLink(t) \/ Cleanup(t)
  BY Zenon, <1>3 DEF Queueing, Reconnecting, Calling
<1>4. ASSUME NEW t \in Senders, Send(t) \/ Disconnect(t)
      PROVE  Calling(t)
  BY Zenon, <1>4 DEF Calling
<1>5. AppStarts \/ AppConnect => Calling(Connector)
  BY Zenon DEF Calling
<1>6. Selected \/ SelectTimesOut => Moves
  BY Zenon DEF Moves
<1>7. Finished => UNCHANGED vars
  BY Zenon DEF Finished
<1>8. QED BY Zenon, <1>1, <1>2, <1>3, <1>4, <1>5, <1>6, <1>7 DEF Next

\* What stays when the network thread moves on.
LEMMA MoveEffect ==
  ASSUME QueueTypeOK, Moves
  PROVE  /\ UNCHANGED <<list, last, current, kinds, left, freed, outMutex, call, draft, mine,
                        held, state, conns, wires, born, epoch, hangups, asked, appConnects>>
         /\ sock' \in {sock, 0}
         /\ curMutex' \in {curMutex, Free}
         /\ netPc' \in Places \ {"waiting", "reconnect", "advance", "hangup", "unlock"}
         /\ netPc \notin {"reconnect", "advance", "hangup", "unlock", "ended", "sleep"}
         /\ call[Net] = "none"
         /\ \/ netPc \in {"select", "read", "write", "writing"}
            \/ /\ netPc = "waiting" /\ state # "new" /\ netPc' = "loop" /\ appConnects > 0
               /\ call[Connector] = "start" => early'
            \/ netPc = "loop" /\ (sock = 0 => netPc' = "over")
            \/ netPc = "over" /\ netPc' = (IF state = "disconnected" THEN "ended" ELSE "sleep")
<1>1. CASE ThreadStarts \/ NoConn \/ LoopOver
  BY <1>1 DEF ThreadStarts, NoConn, LoopOver, MovesOn, NetAt, At, Places
<1>2. CASE LoopSelect \/ Selected \/ SelectTimesOut
  BY <1>2 DEF LoopSelect, Selected, SelectTimesOut, MovesOn, NetAt, At, Places
<1>3. CASE ReadNothing \/ ReadFails
  BY <1>3 DEF ReadNothing, ReadFails, AfterRead, Fails, NetAt, At, Places
<1>4. CASE WriteReturns \/ WriteFails
  BY <1>4 DEF WriteReturns, WriteFails, UnlockCurrent, Fails, NetAt, At, Places
<1>5. QED BY Zenon, <1>1, <1>2, <1>3, <1>4 DEF Moves

-----------------------------------------------------------------------------
(* What happens to the list                                                *)

\* A sequence over a set is one over a larger set.
LEMMA WiderSeq ==
  ASSUME NEW S, NEW T, S \subseteq T, NEW s \in Seq(S)
  PROVE  s \in Seq(T)
<1>1. Len(s) \in Nat /\ s \in [1..Len(s) -> S]
  BY LenProperties
<1>2. s \in [1..Len(s) -> T]
  BY <1>1
<1>3. QED BY <1>1, <1>2

\* The lengths and the positions of the list.
LEMMA ListFacts ==
  ASSUME QueueTypeOK
  PROVE  /\ Len(kinds) \in Nat /\ Len(list) \in Nat /\ Low \in Int
         /\ DOMAIN list = 1..Len(list)
         /\ list = <<>> <=> Len(list) = 0
         /\ \A i \in 1..Len(list) : list[i] \in Packets
         /\ Packets = 1..Len(kinds)
<1>1. kinds \in Seq(Kinds) /\ list \in Seq(Packets)
  BY DEF QueueTypeOK
<1>2. Len(kinds) \in Nat
  BY <1>1, LenProperties
<1>3. Len(list) \in Nat /\ DOMAIN list = 1..Len(list)
  BY <1>1, LenProperties
<1>4. list = <<>> <=> Len(list) = 0
  BY <1>1, EmptySeq
<1>5. \A i \in 1..Len(list) : list[i] \in Packets
  BY <1>1, ElementOfSeq
<1>6. QED BY <1>2, <1>3, <1>4, <1>5 DEF Low, Packets

\* The members of a sequence that ends with k and has no gap.
LEMMA TailSet ==
  ASSUME NEW k \in Nat, NEW l \in Seq(1..k), Len(l) <= k,
         \A i \in 1..Len(l) : l[i] = k - Len(l) + i
  PROVE  \A p \in 1..k : p \in ToSet(l) <=> p > k - Len(l)
<1>1. Len(l) \in Nat /\ DOMAIN l = 1..Len(l)
  BY LenProperties
<1>2. ASSUME NEW p \in 1..k, p \in ToSet(l)
      PROVE  p > k - Len(l)
  <2>1. PICK i \in 1..Len(l) : p = l[i]
    BY <1>1, <1>2 DEF ToSet
  <2>2. QED BY <1>1, <2>1
<1>3. ASSUME NEW p \in 1..k, p > k - Len(l)
      PROVE  p \in ToSet(l)
  <2>1. p - (k - Len(l)) \in 1..Len(l) /\ k - Len(l) + (p - (k - Len(l))) = p
    BY <1>1, <1>3
  <2>2. l[p - (k - Len(l))] = p
    BY <2>1
  <2>3. QED BY <1>1, <2>1, <2>2 DEF ToSet
<1>4. QED BY <1>2, <1>3

\* What is on the list.
LEMMA ListSet ==
  ASSUME QueueTypeOK, Linked
  PROVE  \A p \in Packets : p \in ToSet(list) <=> p > Low
<1>1. Len(kinds) \in Nat /\ Packets = 1..Len(kinds)
  BY ListFacts
<1>2. list \in Seq(1..Len(kinds))
  BY <1>1 DEF QueueTypeOK
<1>3. Len(list) <= Len(kinds) /\ \A i \in 1..Len(list) : list[i] = Len(kinds) - Len(list) + i
  BY DEF Linked, Low
<1>4. QED BY <1>1, <1>2, <1>3, TailSet DEF Low

\* The packet is linked behind the last one: out_packet_last is never stale when a packet is
\* linked behind it.
LEMMA LinkAppends ==
  ASSUME QueueTypeOK, Linked, outMutex = Free
  PROVE  LinkedAfter(Len(kinds) + 1) = Append(list, Len(kinds) + 1)
<1> DEFINE p == Len(kinds) + 1
<1>1. /\ Len(kinds) \in Nat /\ Len(list) \in Nat /\ DOMAIN list = 1..Len(list)
      /\ list = <<>> <=> Len(list) = 0
  BY ListFacts
<1>2. list \in Seq(Packets)
  BY DEF QueueTypeOK
<1>3. CASE list = <<>>
  BY <1>3 DEF LinkedAfter
<1>4. CASE list # <<>>
  <2>1. last = Len(kinds)
    BY <1>4 DEF Linked
  <2>2. \A i \in 1..Len(list) : list[i] = Len(kinds) - Len(list) + i
    BY DEF Linked, Low
  <2>3. Len(list) \in DOMAIN list /\ list[Len(list)] = last
    BY <1>1, <1>4, <2>1, <2>2
  <2>4. \A i \in DOMAIN list : list[i] = last => i = Len(list)
    BY <1>1, <2>1, <2>2
  <2>5. (CHOOSE i \in DOMAIN list : list[i] = last) = Len(list)
    BY <2>3, <2>4
  <2>6. last \in ToSet(list)
    BY <1>1, <2>3 DEF ToSet
  <2>7. SubSeq(list, 1, Len(list)) = list
    BY <1>2, SubSeqFull
  <2>8. QED BY <1>4, <2>5, <2>6, <2>7 DEF LinkedAfter
<1>5. QED BY <1>3, <1>4

\* Taking the head off the list.
LEMMA ShiftEffect ==
  ASSUME QueueTypeOK, Linked, Shift
  PROVE  /\ outMutex = Free
         /\ list' \in Seq(Packets) /\ Len(list') \in Nat
         /\ \/ list = <<>> /\ list' = <<>> /\ Len(list') = 0 /\ current' = 0 /\ last' = last
            \/ /\ list # <<>> /\ Len(list') = Len(list) - 1
               /\ current' = Low + 1 /\ current' \in Packets
               /\ last' = IF Len(list) = 1 THEN 0 ELSE last
         /\ \A i \in 1..Len(list') : list'[i] = list[i + 1]
<1>1. list \in Seq(Packets)
  BY DEF QueueTypeOK
<1>2. /\ Len(kinds) \in Nat /\ Len(list) \in Nat
      /\ list = <<>> <=> Len(list) = 0
      /\ \A i \in 1..Len(list) : list[i] \in Packets
  BY ListFacts
<1>3. CASE list = <<>>
  <2>1. list' = <<>> /\ current' = 0 /\ outMutex = Free
    BY <1>3 DEF Shift
  <2>2. last' = last
    BY <1>2, <1>3 DEF Shift
  <2>3. list' = list /\ Len(list') = 0
    BY <1>2, <1>3, <2>1
  <2>4. QED BY <1>1, <1>3, <2>1, <2>2, <2>3
<1>4. CASE list # <<>>
  <2>1. /\ outMutex = Free /\ list' = Tail(list) /\ current' = Head(list)
        /\ last' = IF Len(list) = 1 THEN 0 ELSE last
    BY <1>4 DEF Shift
  <2>2. /\ list' \in Seq(Packets) /\ Len(list') = Len(list) - 1
        /\ \A i \in 1..Len(list') : list'[i] = list[i + 1]
    BY <1>1, <1>4, <2>1, HeadTailProperties
  <2>3. 1 \in 1..Len(list) /\ Len(list') \in Nat
    BY <1>2, <1>4, <2>2
  <2>4. Head(list) = list[1]
    BY <1>1, <1>4
  <2>5. current' = Low + 1 /\ current' \in Packets
    <3>1. \A i \in 1..Len(list) : list[i] = Low + i
      BY DEF Linked
    <3>2. QED BY <1>2, <2>1, <2>3, <2>4, <3>1
  <2>6. QED BY <1>4, <2>1, <2>2, <2>3, <2>5
<1>5. QED BY <1>3, <1>4

-----------------------------------------------------------------------------
(* Types                                                                   *)

\* What select() has reported, and the bytes in the socket pair.
LEMMA WatchingStep ==
  ASSUME QueueTypeOK, Watching, Roles, Next
  PROVE  Watching' /\ bytes' \in Nat /\ ready' \subseteq {"read", "write", "wake"}
<1>1. bytes \in Nat /\ ready \subseteq {"read", "write", "wake"}
  BY DEF QueueTypeOK
<1>2. CASE Moves
  <2>1. CASE ThreadStarts \/ NoConn \/ LoopOver
    BY <1>1, <2>1 DEF Watching, ThreadStarts, NoConn, LoopOver, MovesOn, NetAt
  <2>2. CASE LoopSelect \/ SelectTimesOut
    BY <1>1, <2>2 DEF Watching, LoopSelect, SelectTimesOut, MovesOn, NetAt, Watched
  <2>3. CASE Selected
    <3>1. netPc = "select" /\ bytes' = bytes /\ netPc' = "read"
      BY <2>3 DEF Selected, MovesOn, NetAt
    <3>2. PICK r \in SUBSET ({"read"} \cup ready) :
            ready' = r \cup (IF bytes > 0 THEN {"wake"} ELSE {})
      BY <2>3 DEF Selected
    <3>3. "wake" \notin r
      BY <3>1, <3>2 DEF Watching
    <3>4. QED BY <1>1, <3>1, <3>2, <3>3 DEF Watching
  <2>4. CASE ReadNothing
    BY <1>1, <2>4 DEF Watching, ReadNothing, AfterRead
  <2>5. CASE ReadFails \/ WriteFails
    BY <1>1, <2>5 DEF Watching, ReadFails, WriteFails, Fails
  <2>6. CASE WriteReturns
    BY <1>1, <2>6 DEF Watching, WriteReturns, NetAt
  <2>7. QED BY Zenon, <1>2, <2>1, <2>2, <2>3, <2>4, <2>5, <2>6 DEF Moves
<1>3. CASE Begins
  <2>1. CASE ReadAnswers
    BY <1>1, <2>1 DEF Watching, ReadAnswers, AfterRead
  <2>2. CASE WriteDone
    BY <1>1, <2>2 DEF Watching, WriteDone, NetAt
  <2>3. CASE SleepEnds
    BY <1>1, <2>3 DEF Watching, SleepEnds, NetAt
  <2>4. QED BY Zenon, <1>3, <2>1, <2>2, <2>3 DEF Begins
<1>4. ASSUME NEW t \in Threads, Calling(t)
      PROVE  Watching' /\ bytes' \in Nat /\ ready' \subseteq {"read", "write", "wake"}
  <2>1. CASE QueueLast(t) \/ QueueWake(t) \/ CleanupLock(t) \/ CloseOld(t)
    <3>1. netPc' = netPc /\ ready' = ready /\ bytes' \in {bytes, bytes + 1}
      BY <2>1 DEF QueueLast, QueueWake, Woken, CleanupLock, CloseOld
    <3>2. QED BY <1>1, <3>1 DEF Watching
  <2>2. CASE OpenFails(t) \/ Open(t)
    <3>1. bytes' = bytes /\ ready' = ready
      BY <2>2 DEF OpenFails, Open
    <3>2. netPc' = netPc \/ t = Net
      BY <2>2 DEF OpenFails, Open, Resumes
    <3>3. call[t] = "open"
      BY <2>2 DEF OpenFails, Open, At
    <3>4. t = Net => "wake" \notin ready
      BY <3>3 DEF Roles, Reconnects, Watching
    <3>5. QED BY <1>1, <3>1, <3>2, <3>4 DEF Watching
  <2>3. CASE Send(t) \/ Disconnect(t) \/ AppStarts \/ AppConnect
    BY <1>1, <2>3 DEF Watching, Send, Disconnect, AppStarts, AppConnect
  <2>4. QED BY Zenon, <1>4, <2>1, <2>2, <2>3 DEF Calling
<1>5. ASSUME NEW t \in Threads, QueueLink(t) \/ Cleanup(t)
      PROVE  Watching' /\ bytes' \in Nat /\ ready' \subseteq {"read", "write", "wake"}
  BY <1>1, <1>5 DEF Watching, QueueLink, Cleanup
<1>6. CASE Shifts
  BY <1>1, <1>6 DEF Watching, Shifts, WriteEnter, WriteNext, Hangup, NetAt
<1>7. CASE WriteBytes \/ HangupReturns \/ ReadDisconnect
  BY <1>1, <1>7 DEF Watching, WriteBytes, HangupReturns, ReadDisconnect, NetAt
<1>8. CASE UNCHANGED vars
  BY <1>1, <1>8 DEF Watching, vars
<1>9. QED BY Zenon, <1>2, <1>3, <1>4, <1>5, <1>6, <1>7, <1>8, StepCases

\* A call goes to another place.
LEMMA CallType ==
  ASSUME QueueTypeOK, NEW t \in Threads, NEW step \in Calls, Go(t, step)
  PROVE  /\ call' \in [Threads -> Calls]
         /\ \A u \in Threads : call'[u] = IF u = t THEN step ELSE call[u]
  BY DEF QueueTypeOK, Go

\* The types of what concerns the packets.
ContentOK ==
  /\ kinds \in Seq(Kinds)
  /\ list \in Seq(Packets)
  /\ current \in 0..Len(kinds) /\ held \in 0..Len(kinds)
  /\ left \in [Packets -> 0..Size]
  /\ freed \subseteq Packets
  /\ wires \in [Conns -> Seq(Packets)]
  /\ born \in [Packets -> 0..epoch] /\ epoch \in 0..conns + 1 /\ hangups \in Nat

\* The types of the rest.
ControlOK ==
  /\ last \in 0..Len(kinds)
  /\ {outMutex, curMutex} \subseteq Threads \cup {Free}
  /\ call \in [Threads -> Calls]
  /\ draft \in [Threads -> Kinds]
  /\ mine \in [Threads -> 0..Len(kinds)]
  /\ netPc \in Places
  /\ state \in States /\ sock \in 0..conns /\ conns \in 0..MaxConns
  /\ asked \in 0..MaxPackets /\ appConnects \in 0..MaxAppConnects

\* The two and the rest are all of it.
LEMMA TypeParts ==
  QueueTypeOK <=> ContentOK /\ ControlOK /\ bytes \in Nat
                    /\ ready \subseteq {"read", "write", "wake"} /\ early \in BOOLEAN
  BY Zenon DEF QueueTypeOK, ContentOK, ControlOK

Content == <<list, current, kinds, left, freed, held, wires, born, epoch, hangups>>

\* Steps that move no packet keep the types of the packets, when connections only grow.
LEMMA ContentKept ==
  ASSUME QueueTypeOK, conns' \in Nat, conns' >= conns,
         UNCHANGED <<list, current, kinds, left, freed, wires, born, epoch, hangups>>,
         held' \in {held, current}
  PROVE  ContentOK'
<1>1. ContentOK /\ conns \in Nat
  BY QueueAssumption DEF QueueTypeOK, ContentOK
<1>2. epoch' \in 0..conns' + 1
  <2>1. epoch \in 0..conns + 1 /\ epoch' = epoch
    BY <1>1 DEF ContentOK
  <2>2. \A a, b \in Nat : b >= a => \A e \in 0..a + 1 : e \in 0..b + 1
    OBVIOUS
  <2>3. QED BY <1>1, <2>1, <2>2
<1>3. held' \in 0..Len(kinds')
  BY <1>1 DEF ContentOK
<1>4. Packets' = Packets
  BY DEF Packets
<1>5. QED BY <1>1, <1>2, <1>3, <1>4 DEF ContentOK

\* A step of a call that moves no packet.
LEMMA CallingTypes ==
  ASSUME QueueTypeOK, Linked, NEW t \in Threads, Calling(t)
  PROVE  /\ UNCHANGED <<list, current, kinds, left, freed, held, wires, born, epoch, hangups>>
         /\ ControlOK' /\ conns' \in Nat /\ conns' >= conns
<1>1. ControlOK /\ conns \in Nat /\ MaxConns \in Nat /\ 0 \in 0..Len(kinds)
  <2>1. Len(kinds) \in Nat
    BY ListFacts
  <2>2. QED BY <2>1, QueueAssumption DEF QueueTypeOK, ControlOK
<1>2. /\ t \in Threads \cup {Free} /\ Free \in Threads \cup {Free}
      /\ asked < (IF early THEN MaxEarly ELSE MaxPackets) => asked + 1 \in 0..MaxPackets
      /\ appConnects < MaxAppConnects => appConnects + 1 \in 0..MaxAppConnects
      /\ conns < MaxConns => conns + 1 \in 0..MaxConns /\ conns + 1 \in 0..conns + 1
      /\ 0 \in 0..conns
  BY <1>1, QueueAssumption DEF ControlOK
<1>3. CASE QueueLast(t)
  BY <1>1, <1>2, <1>3, CallType DEF QueueLast, ControlOK, Calls
<1>4. CASE QueueWake(t)
  BY <1>1, <1>2, <1>4, CallType DEF QueueWake, ControlOK, Calls, Kinds
<1>5. CASE CleanupLock(t)
  BY <1>1, <1>2, <1>5, CallType DEF CleanupLock, ControlOK, Calls
<1>6. CASE CloseOld(t)
  BY <1>1, <1>2, <1>6, CallType DEF CloseOld, ControlOK, Calls
<1>7. CASE OpenFails(t)
  BY <1>1, <1>2, <1>7, CallType DEF OpenFails, Resumes, ControlOK, Calls, States, Places
<1>8. CASE Open(t)
  BY <1>1, <1>2, <1>8, CallType DEF Open, Resumes, ControlOK, Calls, States, Places, Kinds
<1>9. CASE Send(t)
  BY <1>1, <1>2, <1>9, CallType DEF Send, Starts, ControlOK, Calls, Kinds
<1>10. CASE Disconnect(t)
  BY <1>1, <1>2, <1>10, CallType DEF Disconnect, Starts, ControlOK, Calls, Kinds, States
<1>11. CASE t = Connector /\ (AppStarts \/ AppConnect)
  BY <1>1, <1>2, <1>11, CallType DEF AppStarts, AppConnect, ControlOK, Calls, States
<1>12. QED BY Zenon, <1>3, <1>4, <1>5, <1>6, <1>7, <1>8, <1>9, <1>10, <1>11 DEF Calling

\* A packet that is linked.
LEMMA LinkTypes ==
  ASSUME QueueTypeOK, Linked, NEW t \in Threads, QueueLink(t)
  PROVE  ContentOK' /\ ControlOK'
<1>1. ContentOK /\ ControlOK /\ Len(kinds) \in Nat
  BY TypeParts, ListFacts
<1> DEFINE n == Len(kinds) + 1
<1>2. draft[t] \in Kinds /\ Size \in 0..Size /\ epoch \in 0..epoch
  BY <1>1, QueueAssumption DEF ControlOK, ContentOK
<1>3. kinds' \in Seq(Kinds) /\ Len(kinds') = n
  <2>1. kinds' = Append(kinds, draft[t]) /\ kinds \in Seq(Kinds)
    BY <1>1 DEF QueueLink, ContentOK
  <2>2. QED BY <1>2, <2>1, AppendProperties
<1>4. Packets = 1..Len(kinds) /\ Packets' = 1..n /\ Packets \subseteq Packets' /\ n \in Packets'
  BY <1>1, <1>3 DEF Packets
<1>5. list' = Append(list, n)
  BY LinkAppends DEF QueueLink, QueueLock
<1>6. list' \in Seq(Packets')
  <2>1. list \in Seq(Packets')
    BY <1>1, <1>4, WiderSeq DEF ContentOK
  <2>2. QED BY <1>4, <1>5, <2>1, AppendProperties
<1>7. ASSUME NEW S, NEW f \in [Packets -> S], NEW e \in S
      PROVE  Append(f, e) \in [Packets' -> S]
  <2>1. f \in Seq(S) /\ Len(f) = Len(kinds)
    BY <1>1, <1>4
  <2>2. Append(f, e) \in Seq(S) /\ Len(Append(f, e)) = n
    BY <2>1, AppendProperties
  <2>3. QED BY <1>4, <2>2, LenProperties
<1>8. left' \in [Packets' -> 0..Size]
  <2>1. left' = Append(left, Size) /\ left \in [Packets -> 0..Size]
    BY <1>1 DEF QueueLink, ContentOK
  <2>2. QED BY <1>2, <1>7, <2>1
<1>9. born' \in [Packets' -> 0..epoch]
  <2>1. born' = Append(born, epoch) /\ born \in [Packets -> 0..epoch]
    BY <1>1 DEF QueueLink, ContentOK
  <2>2. QED BY <1>2, <1>7, <2>1
<1>10. wires' \in [Conns -> Seq(Packets')]
  <2>1. wires' = wires /\ wires \in [Conns -> Seq(Packets)]
    BY <1>1 DEF QueueLink, ContentOK
  <2>2. \A c \in Conns : wires[c] \in Seq(Packets')
    BY <1>4, <2>1, WiderSeq
  <2>3. QED BY <2>1, <2>2
<1>11. /\ freed' = freed /\ current' = current /\ held' = held /\ epoch' = epoch
       /\ hangups' = hangups /\ conns' = conns
  BY DEF QueueLink
<1>12. 0..Len(kinds) \subseteq 0..n /\ n \in 0..n
  BY <1>1
<1>13. ContentOK'
  BY <1>1, <1>3, <1>4, <1>6, <1>8, <1>9, <1>10, <1>11, <1>12 DEF ContentOK
<1>14. ControlOK'
  <2>1. call' \in [Threads -> Calls]
    BY CallType DEF QueueLink, Calls
  <2>2. mine' \in [Threads -> 0..n]
    BY <1>1, <1>12 DEF QueueLink, ControlOK
  <2>3. last' \in 0..n
    BY <1>1, <1>12 DEF QueueLink, ControlOK
  <2>4. outMutex' = t /\ UNCHANGED <<curMutex, draft, netPc, state, sock, conns, asked, appConnects>>
    BY DEF QueueLink
  <2>5. QED BY <1>1, <1>3, <2>1, <2>2, <2>3, <2>4 DEF ControlOK
<1>15. QED BY <1>13, <1>14

\* packet__cleanup_all.
LEMMA CleanupTypes ==
  ASSUME QueueTypeOK, NEW t \in Threads, Cleanup(t)
  PROVE  ContentOK' /\ ControlOK'
<1>1. ContentOK /\ ControlOK /\ Len(kinds) \in Nat /\ Packets = 1..Len(kinds) /\ conns \in Nat
  BY TypeParts, ListFacts, QueueAssumption DEF ControlOK
<1>2. /\ list' = <<>> /\ current' = 0 /\ epoch' = conns + 1
      /\ freed' = freed \cup ToSet(list) \cup ({current} \ {0})
      /\ UNCHANGED <<last, kinds, left, outMutex, draft, mine, netPc, held, state, sock, conns,
                     wires, born, hangups, asked, appConnects>>
  BY DEF Cleanup, Dropped, ClearedCurrent
<1>3. ToSet(list) \subseteq Packets
  BY ListFacts DEF ToSet
<1>4. {current} \ {0} \subseteq Packets
  BY <1>1 DEF ContentOK
<1>5. epoch' \in 0..conns + 1 /\ 0..epoch \subseteq 0..epoch'
  BY <1>1, <1>2 DEF ContentOK
<1>6. born' \in [Packets -> 0..epoch']
  BY <1>1, <1>2, <1>5 DEF ContentOK
<1>7. <<>> \in Seq(Packets) /\ Packets' = Packets /\ 0 \in 0..Len(kinds)
  BY <1>1, <1>2 DEF Packets
<1>8. ContentOK'
  BY <1>1, <1>2, <1>3, <1>4, <1>5, <1>6, <1>7 DEF ContentOK
<1>9. call' \in [Threads -> Calls]
  BY CallType DEF Cleanup, Calls
<1>10. curMutex' \in Threads \cup {Free}
  BY <1>1 DEF Cleanup, UnlockCurrent, ControlOK
<1>11. ControlOK'
  BY <1>1, <1>2, <1>9, <1>10 DEF ControlOK
<1>12. QED BY <1>8, <1>11

\* What stays when a packet leaves the list.
LEMMA ShiftsEffect ==
  ASSUME QueueTypeOK, Owned, Shifts
  PROVE  /\ UNCHANGED <<kinds, left, outMutex, call, draft, mine, wires, born, epoch, hangups,
                        conns, asked, appConnects>>
         /\ curMutex' \in {curMutex, Net}
         /\ netPc' \in Places /\ state' \in {state, "disconnected"} /\ sock' \in {sock, 0}
         /\ netPc \notin {"reconnect", "waiting", "loop", "over", "ended", "unlock"}
         /\ netPc' \notin {"reconnect", "waiting", "loop", "over", "advance", "hangup"}
         /\ call[Net] = "none"
         /\ held' \in {held, 0}
         /\ \/ freed' = freed
            \/ freed' = freed \cup {held} /\ held # 0 /\ held' = 0 /\ held = current /\ Shift
         /\ Shift \/ UNCHANGED <<list, last, current>>
<1>1. CASE WriteEnter
  BY <1>1 DEF WriteEnter, ShiftIfNone, Shift, Places, NetAt, At
<1>2. CASE WriteNext
  BY <1>2 DEF WriteNext, Shift, NetAt, At, Places, Owned
<1>3. CASE Hangup
  BY <1>3 DEF Hangup, Shift, Places, NetAt, At
<1>4. QED BY Zenon, <1>1, <1>2, <1>3 DEF Shifts

\* Taking a packet off the list keeps the types.
LEMMA ShiftTypes ==
  ASSUME QueueTypeOK, Linked, Owned, Shifts
  PROVE  ContentOK' /\ ControlOK'
<1>1. ContentOK /\ ControlOK /\ Len(kinds) \in Nat /\ Packets = 1..Len(kinds)
  BY TypeParts, ListFacts
<1>2. list' \in Seq(Packets) /\ current' \in 0..Len(kinds) /\ last' \in 0..Len(kinds)
  <2>1. CASE Shift
    <3>1. 0 \in 0..Len(kinds) /\ \A p \in Packets : p \in 0..Len(kinds)
      BY <1>1
    <3>2. list' \in Seq(Packets)
      BY <2>1, ShiftEffect
    <3>3. current' = 0 \/ current' \in Packets
      BY <2>1, ShiftEffect
    <3>4. last' \in {last, 0}
      BY <2>1, ShiftEffect
    <3>5. QED BY <1>1, <3>1, <3>2, <3>3, <3>4 DEF ControlOK
  <2>2. CASE UNCHANGED <<list, last, current>>
    BY <1>1, <2>2 DEF ContentOK, ControlOK
  <2>3. QED BY Zenon, <2>1, <2>2, ShiftsEffect
<1>3. Packets' = Packets /\ 0 \in 0..Len(kinds) /\ 0 \in 0..conns
      /\ Net \in Threads /\ "disconnected" \in States
  BY <1>1, QueueAssumption, ShiftsEffect DEF Packets, Threads, States, ControlOK
<1>4. ControlOK'
  BY <1>1, <1>2, <1>3, ShiftsEffect DEF ControlOK
<1>5. freed' \subseteq Packets
  <2>1. freed \subseteq Packets /\ held \in 0..Len(kinds)
    BY <1>1 DEF ContentOK
  <2>2. held # 0 => held \in Packets
    BY <1>1, <2>1
  <2>3. freed' = freed \/ (freed' = freed \cup {held} /\ held # 0)
    BY ShiftsEffect
  <2>4. QED BY <2>1, <2>2, <2>3
<1>6. held' \in 0..Len(kinds)
  BY <1>1, <1>3, ShiftsEffect DEF ContentOK
<1>7. ContentOK'
  BY <1>1, <1>2, <1>3, <1>5, <1>6, ShiftsEffect DEF ContentOK
<1>8. QED BY <1>4, <1>7

\* net__write takes n bytes of the packet.
LEMMA WriteTypes ==
  ASSUME QueueTypeOK, WriteBytes
  PROVE  /\ sock \in Conns /\ current \in Packets
         /\ \E n \in 1..left[current] :
              /\ left' = [left EXCEPT ![current] = @ - n]
              /\ wires' = [wires EXCEPT ![sock] = @ \o [i \in 1..n |-> current]]
              /\ [i \in 1..n |-> current] \in Seq(Packets)
         /\ UNCHANGED <<list, last, current, kinds, freed, mutexVars, call, draft, mine, netVars,
                        sockVars, bytes, born, epoch, hangups, boundVars>>
         /\ netPc = "writing" /\ call[Net] = "none" /\ sock # 0
         /\ ContentOK'
<1>1. /\ ContentOK /\ ControlOK /\ Len(kinds) \in Nat /\ Packets = 1..Len(kinds)
      /\ MaxConns \in Nat
  BY TypeParts, ListFacts, QueueAssumption
<1>2. sock \in Conns /\ current \in Packets
  BY <1>1 DEF WriteBytes, ContentOK, ControlOK, Conns
<1>3. PICK n \in 1..left[current] :
        /\ left' = [left EXCEPT ![current] = @ - n]
        /\ wires' = [wires EXCEPT ![sock] = @ \o [i \in 1..n |-> current]]
  BY DEF WriteBytes
<1>4. [i \in 1..n |-> current] \in Seq(Packets)
  BY <1>2
<1>5. left[current] - n \in 0..Size
  <2>1. left[current] \in 0..Size /\ Size \in Nat
    BY <1>1, <1>2, QueueAssumption DEF ContentOK
  <2>2. QED BY <2>1
<1>6. left' \in [Packets -> 0..Size]
  BY <1>1, <1>2, <1>3, <1>5 DEF ContentOK
<1>7. wires[sock] \o [i \in 1..n |-> current] \in Seq(Packets)
  BY <1>1, <1>2, <1>4, ConcatProperties DEF ContentOK
<1>8. wires' \in [Conns -> Seq(Packets)]
  BY <1>1, <1>2, <1>3, <1>7 DEF ContentOK
<1>9. UNCHANGED <<list, last, current, kinds, freed, mutexVars, call, draft, mine, netVars,
                  sockVars, bytes, born, epoch, hangups, boundVars>>
      /\ netPc = "writing" /\ call[Net] = "none" /\ sock # 0
  BY DEF WriteBytes, NetAt, At
<1>10. ContentOK'
  BY <1>1, <1>6, <1>8, <1>9 DEF ContentOK, Packets
<1>11. QED BY <1>2, <1>3, <1>4, <1>9, <1>10

\* The network thread has started early for good.
LEMMA EarlyStep ==
  ASSUME Next, early \in BOOLEAN
  PROVE  early' \in BOOLEAN /\ (early => early')
<1>1. CASE Moves
  <2>1. CASE ThreadStarts
    BY <2>1 DEF ThreadStarts, At
  <2>2. CASE NoConn \/ LoopSelect \/ Selected \/ SelectTimesOut \/ LoopOver
    BY <2>2 DEF NoConn, LoopSelect, Selected, SelectTimesOut, LoopOver, MovesOn
  <2>3. CASE ReadNothing \/ ReadFails \/ WriteReturns \/ WriteFails
    BY <2>3 DEF ReadNothing, ReadFails, WriteReturns, WriteFails, Fails
  <2>4. QED BY Zenon, <1>1, <2>1, <2>2, <2>3 DEF Moves
<1>2. CASE Begins
  BY <1>2 DEF Begins, ReadAnswers, WriteDone, SleepEnds
<1>3. ASSUME NEW t \in Threads, Calling(t)
      PROVE  early' = early
  BY <1>3 DEF Calling, QueueLast, QueueWake, CleanupLock, CloseOld, OpenFails, Open, Send,
     Disconnect, AppStarts, AppConnect
<1>4. ASSUME NEW t \in Threads, QueueLink(t) \/ Cleanup(t)
      PROVE  early' = early
  BY <1>4 DEF QueueLink, Cleanup
<1>5. CASE Shifts \/ WriteBytes \/ HangupReturns \/ ReadDisconnect
  BY <1>5 DEF Shifts, WriteEnter, WriteNext, Hangup, WriteBytes, HangupReturns, ReadDisconnect
<1>6. CASE UNCHANGED vars
  BY <1>6 DEF vars
<1>7. QED BY Zenon, <1>1, <1>2, <1>3, <1>4, <1>5, <1>6, StepCases

\* The types.
LEMMA TypeStep ==
  ASSUME QueueTypeOK, Roles, Watching, Linked, Owned, Next
  PROVE  QueueTypeOK'
<1>1. ContentOK /\ ControlOK /\ Len(kinds) \in Nat /\ conns \in Nat /\ Net \in Threads
  BY TypeParts, ListFacts, QueueAssumption DEF Threads, ControlOK
<1>2. SUFFICES ContentOK' /\ ControlOK'
  <2>1. QueueTypeOK' <=> ContentOK' /\ ControlOK' /\ bytes' \in Nat
                           /\ ready' \subseteq {"read", "write", "wake"} /\ early' \in BOOLEAN
    BY Zenon DEF QueueTypeOK, ContentOK, ControlOK
  <2>2. early \in BOOLEAN
    BY DEF QueueTypeOK
  <2>3. QED BY Zenon, <2>1, <2>2, WatchingStep, EarlyStep
<1>3. CASE Moves
  <2>1. ContentOK'
    BY <1>1, <1>3, MoveEffect DEF ContentOK, Packets
  <2>2. last' = last /\ draft' = draft /\ outMutex' = outMutex
    BY <1>3, MoveEffect DEF Moves, ThreadStarts, NoConn, LoopSelect, Selected,
       SelectTimesOut, ReadNothing, ReadFails, Fails, WriteReturns, WriteFails, LoopOver,
       MovesOn
  <2>3. 0 \in 0..conns
    BY <1>1
  <2>4. ControlOK'
    BY <1>1, <1>3, <2>2, <2>3, MoveEffect DEF ControlOK
  <2>5. QED BY <2>1, <2>4
<1>4. CASE Begins
  <2>1. asked < (IF early THEN MaxEarly ELSE MaxPackets) => asked + 1 \in 0..MaxPackets
    BY <1>1, QueueAssumption DEF ControlOK
  <2>2. CASE ReadAnswers
    <3>1. ControlOK'
      BY SMTT(30), <1>1, <2>1, <2>2, CallType DEF ReadAnswers, AfterRead, Starts, ControlOK,
         Calls, Kinds, Places
    <3>2. conns' = conns /\ held' = held
      BY <2>2 DEF ReadAnswers
    <3>3. UNCHANGED <<list, current, kinds, left, freed, wires, born, epoch, hangups>>
      BY <2>2 DEF ReadAnswers
    <3>4. QED BY <1>1, <3>1, <3>2, <3>3 DEF ContentOK, Packets
  <2>3. CASE WriteDone
    <3>1. ControlOK'
      BY SMTT(30), <1>1, <2>1, <2>3, CallType DEF WriteDone, Starts, ControlOK, Calls, Kinds, Places
    <3>2. /\ conns' = conns /\ held' = current
          /\ UNCHANGED <<list, current, kinds, left, freed, wires, born, epoch, hangups>>
      BY <2>3 DEF WriteDone
    <3>3. QED BY <1>1, <3>1, <3>2 DEF ContentOK, Packets
  <2>4. CASE SleepEnds
    <3>1. ControlOK'
      BY <1>1, <2>4, CallType DEF SleepEnds, ControlOK, Calls, Places
    <3>2. /\ conns' = conns /\ held' = held
          /\ UNCHANGED <<list, current, kinds, left, freed, wires, born, epoch, hangups>>
      BY <2>4 DEF SleepEnds
    <3>3. QED BY <1>1, <3>1, <3>2 DEF ContentOK, Packets
  <2>5. QED BY Zenon, <1>4, <2>2, <2>3, <2>4 DEF Begins
<1>5. ASSUME NEW t \in Threads, Calling(t)
      PROVE  ContentOK' /\ ControlOK'
  BY <1>1, <1>5, CallingTypes, ContentKept
<1>6. ASSUME NEW t \in Threads, QueueLink(t)
      PROVE  ContentOK' /\ ControlOK'
  BY <1>6, LinkTypes
<1>7. ASSUME NEW t \in Threads, Cleanup(t)
      PROVE  ContentOK' /\ ControlOK'
  BY <1>7, CleanupTypes
<1>8. CASE Shifts
  BY <1>8, ShiftTypes
<1>9. CASE WriteBytes
  BY <1>1, <1>9, WriteTypes DEF ControlOK
<1>10. CASE HangupReturns
  <2>1. /\ held' = 0 /\ freed' = freed \cup ({held} \ {0}) /\ curMutex' \in {curMutex, Free}
        /\ netPc' = "loop"
        /\ UNCHANGED <<list, last, current, kinds, left, outMutex, call, draft, mine, sockVars,
                       wires, born, epoch, hangups, asked, appConnects>>
    BY <1>10 DEF HangupReturns, UnlockCurrent
  <2>2. {held} \ {0} \subseteq Packets /\ 0 \in 0..Len(kinds)
    BY <1>1 DEF ContentOK, Packets
  <2>3. QED BY <1>1, <2>1, <2>2 DEF ContentOK, ControlOK, Packets, Places
<1>11. CASE ReadDisconnect
  <2>1. /\ hangups' = hangups + 1 /\ netPc' = "hangup"
        /\ UNCHANGED <<list, last, current, kinds, left, freed, held, outMutex, curMutex, call,
                       draft, mine, sockVars, wires, born, epoch, asked, appConnects>>
    BY <1>11 DEF ReadDisconnect
  <2>2. hangups' \in Nat
    BY <1>1, <2>1 DEF ContentOK
  <2>3. QED BY <1>1, <2>1, <2>2 DEF ContentOK, ControlOK, Packets, Places
<1>12. CASE UNCHANGED vars
  BY <1>1, <1>12 DEF vars, ContentOK, ControlOK, Packets
<1>13. QED BY Zenon, <1>3, <1>4, <1>5, <1>6, <1>7, <1>8, <1>9, <1>10, <1>11, <1>12, StepCases


-----------------------------------------------------------------------------
(* Who reconnects                                                          *)

\* What the network thread does when it begins a call.
LEMMA BeginsEffect ==
  ASSUME QueueTypeOK, Owned, Begins
  PROVE  /\ UNCHANGED <<list, last, current, kinds, left, freed, outMutex, curMutex, mine, state,
                        sock, conns, wires, born, epoch, hangups, appConnects>>
         /\ netPc \in {"read", "writing", "sleep"} /\ held = 0
         /\ call[Net] = "none"
         /\ call'[Net] \in {"none", "queue", "reset"}
         /\ \A t \in Threads : t # Net => call'[t] = call[t]
         /\ call'[Net] = "reset" <=> netPc' = "reconnect"
         /\ netPc = "sleep" \/ conns # 0 \/ kinds # <<>>
         /\ netPc' # "waiting" /\ netPc' # "unlock"
         /\ \/ held' = 0 /\ netPc' \notin {"advance", "hangup"}
            \/ held' = current /\ current # 0 /\ left[current] = 0
<1>1. /\ Len(kinds) \in Nat /\ Net \in Threads /\ conns \in Nat /\ sock \in 0..conns
      /\ call \in [Threads -> Calls]
  <2>1. Len(kinds) \in Nat
    BY ListFacts
  <2>2. QED BY <2>1, QueueAssumption DEF Threads, QueueTypeOK
<1>2. CASE ReadAnswers
  <2>1. sock # 0 /\ Go(Net, "queue")
    BY <1>2 DEF ReadAnswers, Starts
  <2>2. conns # 0
    BY <1>1, <2>1
  <2>3. call'[Net] = "queue" /\ \A t \in Threads : t # Net => call'[t] = call[t]
    BY <1>1, <2>1 DEF Go
  <2>4. netPc = "read" /\ netPc' \in {"write", "loop"} /\ call[Net] = "none"
    BY <1>2 DEF ReadAnswers, AfterRead, NetAt, At
  <2>5. held' = held /\ held = 0
    BY <1>2, <2>4 DEF ReadAnswers, Owned
  <2>6. UNCHANGED <<list, last, current, kinds, left, freed, outMutex, curMutex, mine, state,
                    sock, conns, wires, born, epoch, hangups, appConnects>>
    BY <1>2 DEF ReadAnswers
  <2>7. QED BY <2>2, <2>3, <2>4, <2>5, <2>6
<1>3. CASE WriteDone
  <2>1. /\ netPc = "writing" /\ call[Net] = "none" /\ netPc' \in {"hangup", "advance"}
        /\ held' = current /\ current # 0 /\ left[current] = 0
        /\ UNCHANGED <<list, last, current, kinds, left, freed, outMutex, curMutex, mine, state,
                       sock, conns, wires, born, epoch, hangups, appConnects>>
    BY <1>3 DEF WriteDone, NetAt, At
  <2>2. held = 0
    BY <2>1 DEF Owned
  <2>3. call' = call \/ Go(Net, "queue")
    BY <1>3 DEF WriteDone, Starts
  <2>4. call'[Net] \in {"none", "queue"} /\ \A t \in Threads : t # Net => call'[t] = call[t]
    BY <1>1, <2>1, <2>3 DEF Go
  <2>5. conns # 0 \/ sock = 0
    BY <1>1
  <2>6. kinds # <<>>
    BY <1>1, <2>1 DEF QueueTypeOK
  <2>7. QED BY <2>1, <2>2, <2>4, <2>6
<1>4. CASE SleepEnds
  <2>1. /\ netPc = "sleep" /\ call[Net] = "none" /\ held' = held
        /\ \/ netPc' = "ended" /\ call' = call
           \/ netPc' = "reconnect" /\ Go(Net, "reset")
        /\ UNCHANGED <<list, last, current, kinds, left, freed, outMutex, curMutex, mine, state,
                       sock, conns, wires, born, epoch, hangups, appConnects>>
    BY <1>4 DEF SleepEnds, NetAt, At
  <2>2. held = 0
    BY <2>1 DEF Owned
  <2>3. /\ call'[Net] \in {"none", "reset"} /\ call'[Net] = "reset" <=> netPc' = "reconnect"
        /\ \A t \in Threads : t # Net => call'[t] = call[t]
    BY <1>1, <2>1 DEF Go
  <2>4. QED BY <2>1, <2>2, <2>3
<1>5. QED BY Zenon, <1>2, <1>3, <1>4 DEF Begins

\* A step of a call, by what it does to the places of the threads.
LEMMA CallSteps ==
  ASSUME QueueTypeOK, NEW t \in Threads, Calling(t)
  PROVE  /\ \A u \in Threads : u # t => call'[u] = call[u] /\ mine'[u] = mine[u]
         /\ UNCHANGED <<list, current, kinds, left, freed, held, wires, born, epoch, hangups>>
         /\ \/ QueueLast(t) /\ call[t] = "linked" /\ call'[t] = "wake"
            \/ QueueWake(t) /\ call[t] = "wake" /\ call'[t] = "none"
            \/ CleanupLock(t) /\ call[t] = "reset" /\ call'[t] = "clean"
            \/ CloseOld(t) /\ call[t] = "close" /\ call'[t] = "open"
            \/ OpenFails(t) /\ call[t] = "open" /\ call'[t] = "none"
            \/ Open(t) /\ call[t] = "open" /\ call'[t] = "queue"
            \/ t \in Senders /\ Send(t) /\ call[t] = "none" /\ call'[t] = "queue" /\ sock # 0
            \/ t \in Senders /\ Disconnect(t) /\ call[t] = "none"
                 /\ (call'[t] = "none" \/ (call'[t] = "queue" /\ sock # 0))
            \/ t = Connector /\ AppStarts /\ call[t] = "none" /\ call'[t] = "start"
            \/ t = Connector /\ AppConnect /\ call[t] = "start" /\ call'[t] = "reset"
<1>1. mine \in [Threads -> 0..Len(kinds)] /\ call \in [Threads -> Calls]
  BY DEF QueueTypeOK
<1>2. CASE QueueLast(t)
  BY <1>1, <1>2, CallType DEF QueueLast, Calls, At
<1>3. CASE QueueWake(t)
  BY <1>1, <1>3, CallType DEF QueueWake, Calls, At
<1>4. CASE CleanupLock(t)
  BY <1>1, <1>4, CallType DEF CleanupLock, Calls, At
<1>5. CASE CloseOld(t)
  BY <1>1, <1>5, CallType DEF CloseOld, Calls, At
<1>6. CASE OpenFails(t)
  BY <1>1, <1>6, CallType DEF OpenFails, Calls, At
<1>7. CASE Open(t)
  BY <1>1, <1>7, CallType DEF Open, Calls, At
<1>8. CASE t \in Senders /\ Send(t)
  BY <1>1, <1>8, CallType DEF Send, Starts, Calls, At
<1>9. CASE t \in Senders /\ Disconnect(t)
  BY <1>1, <1>9, CallType DEF Disconnect, Starts, Calls, At
<1>10. CASE t = Connector /\ AppConnect
  BY <1>1, <1>10, CallType DEF AppConnect, Calls, At
<1>11. CASE t = Connector /\ AppStarts
  BY <1>1, <1>11, CallType DEF AppStarts, Calls, At
<1>12. QED BY Zenon, <1>2, <1>3, <1>4, <1>5, <1>6, <1>7, <1>8, <1>9, <1>10, <1>11 DEF Calling

\* A packet that is linked, a queue that is emptied.
LEMMA LinkEffect ==
  ASSUME QueueTypeOK, Linked, NEW t \in Threads, QueueLink(t)
  PROVE  /\ call[t] = "queue" /\ call'[t] = "linked" /\ outMutex = Free /\ outMutex' = t
         /\ \A u \in Threads : u # t => call'[u] = call[u] /\ mine'[u] = mine[u]
         /\ mine'[t] = Len(kinds) + 1 /\ Len(kinds') = Len(kinds) + 1
         /\ list' = Append(list, Len(kinds) + 1) /\ Len(list') = Len(list) + 1
         /\ \A i \in 1..Len(list) : list'[i] = list[i]
         /\ list'[Len(list) + 1] = Len(kinds) + 1
         /\ \A p \in Packets : left'[p] = left[p] /\ born'[p] = born[p]
         /\ left'[Len(kinds) + 1] = Size /\ born'[Len(kinds) + 1] = epoch
         /\ UNCHANGED <<last, current, freed, held, netPc, ready, state, sock, conns, wires,
                        epoch, hangups, appConnects>>
<1>1. /\ mine \in [Threads -> 0..Len(kinds)] /\ call \in [Threads -> Calls]
      /\ kinds \in Seq(Kinds) /\ list \in Seq(Packets) /\ draft[t] \in Kinds
      /\ left \in [Packets -> 0..Size] /\ born \in [Packets -> 0..epoch]
      /\ epoch \in Nat
  BY DEF QueueTypeOK
<1>2. Len(kinds) \in Nat /\ Len(list) \in Nat /\ Packets = 1..Len(kinds)
  BY ListFacts
<1>3. /\ call[t] = "queue" /\ call'[t] = "linked" /\ outMutex = Free /\ outMutex' = t
      /\ \A u \in Threads : u # t => call'[u] = call[u] /\ mine'[u] = mine[u]
      /\ mine'[t] = Len(kinds) + 1
  BY <1>1, CallType DEF QueueLink, QueueLock, At, Calls
<1>4. kinds' = Append(kinds, draft[t]) /\ Len(kinds') = Len(kinds) + 1
  BY <1>1, AppendProperties DEF QueueLink
<1>5. /\ list' = Append(list, Len(kinds) + 1) /\ Len(list') = Len(list) + 1
      /\ \A i \in 1..Len(list) : list'[i] = list[i]
      /\ list'[Len(list) + 1] = Len(kinds) + 1
  <2>1. list' = Append(list, Len(kinds) + 1)
    BY LinkAppends DEF QueueLink, QueueLock
  <2>2. list \in Seq(Nat)
    BY <1>1, <1>2, WiderSeq
  <2>3. QED BY <1>2, <2>1, <2>2, AppendProperties
<1>6. \A p \in Packets : left'[p] = left[p] /\ born'[p] = born[p]
  <2>1. left' = Append(left, Size) /\ born' = Append(born, epoch)
    BY DEF QueueLink
  <2>2. Len(left) = Len(kinds) /\ Len(born) = Len(kinds)
    BY <1>1, <1>2
  <2>3. QED BY <1>2, <2>1, <2>2
<1>7. left'[Len(kinds) + 1] = Size /\ born'[Len(kinds) + 1] = epoch
  <2>1. left' = Append(left, Size) /\ born' = Append(born, epoch)
    BY DEF QueueLink
  <2>2. Len(left) = Len(kinds) /\ Len(born) = Len(kinds)
    BY <1>1, <1>2
  <2>3. QED BY <1>2, <2>1, <2>2
<1>8. UNCHANGED <<last, current, freed, held, netPc, ready, state, sock, conns, wires,
                  epoch, hangups, appConnects>>
  BY DEF QueueLink
<1>9. QED BY <1>3, <1>4, <1>5, <1>6, <1>7, <1>8

\* The queue is emptied.
LEMMA CleanupEffect ==
  ASSUME QueueTypeOK, NEW t \in Threads, Cleanup(t)
  PROVE  /\ call[t] = "clean" /\ call'[t] = "close" /\ outMutex = Free
         /\ \A u \in Threads : u # t => call'[u] = call[u]
         /\ list' = <<>> /\ current' = 0 /\ epoch' = conns + 1
         /\ freed' = freed \cup ToSet(list) \cup ({current} \ {0})
         /\ UNCHANGED <<last, kinds, left, outMutex, mine, netPc, held, state, sock, conns, wires,
                        born, hangups, appConnects>>
  BY CallType DEF Cleanup, Dropped, ClearedCurrent, At, Calls

\* A thread that stays in mosquitto__reconnect, or outside.
LEMMA RolesCall ==
  ASSUME Roles, NEW t \in Threads, \A u \in Threads : u # t => call'[u] = call[u],
         call[t] \in Reconnects <=> call'[t] \in Reconnects, call'[t] # "start",
         UNCHANGED <<netPc, conns, appConnects>>, appConnects # 0,
         state' \in {state, "disconnected"},
         conns = 0 => kinds' = <<>> /\ call'[t] \in Reconnects \cup {"none"},
         Net \in Threads, Connector \in Threads
  PROVE  Roles'
<1>1. \A u \in Threads : call'[u] \in Reconnects <=> call[u] \in Reconnects
  OBVIOUS
<1>2. /\ \A u \in Threads : call'[u] \in Reconnects => u \in {Net, Connector}
      /\ call'[Net] \in Reconnects <=> netPc' = "reconnect"
  BY <1>1 DEF Roles
<1>3. call'[Connector] \in Reconnects =>
        /\ conns' = 0 /\ appConnects' = 1
        /\ netPc' \in {"waiting", "loop", "over", "ended"}
        /\ state' \in {"new", "disconnected"}
        /\ netPc' \in {"loop", "over"} => state' = "disconnected"
  BY <1>1 DEF Roles
<1>4. conns' = 0 => kinds' = <<>> /\ \A u \in Threads : call'[u] \in Reconnects \cup {"none"}
  BY DEF Roles
<1>5. call'[Connector] = "start" => netPc' = "waiting"
  BY DEF Roles
<1>6. QED BY Zenon, <1>2, <1>3, <1>4, <1>5 DEF Roles

\* Who is in mosquitto__reconnect.
LEMMA RolesStep ==
  ASSUME OneConnect, QueueTypeOK, Roles, Linked, Owned, Next, ~early'
  PROVE  Roles'
<1>1. /\ Net \in Threads /\ Connector \in Threads /\ Connector # Net
      /\ conns \in Nat /\ sock \in 0..conns /\ Net \notin Senders
      /\ appConnects \in 0..MaxAppConnects
  BY QueueAssumption DEF Threads, QueueTypeOK
<1>2. conns = 0 => sock = 0
  BY <1>1
<1>3. ASSUME UNCHANGED <<conns, kinds, state, appConnects>>,
             \A u \in Threads : u # Net => call'[u] = call[u],
             netPc \notin {"waiting", "loop", "over", "ended"},
             call'[Net] \in Reconnects <=> netPc' = "reconnect",
             call'[Net] \in Reconnects \cup {"none"} \/ conns # 0 \/ kinds # <<>>
      PROVE  Roles'
  <2>1. call'[Connector] \notin Reconnects /\ appConnects' # 0
    BY <1>1, <1>3 DEF Roles
  <2>2. conns' = 0 => kinds' = <<>> /\ \A u \in Threads : call'[u] \in Reconnects \cup {"none"}
    BY <1>3 DEF Roles
  <2>3. \A u \in Threads : call'[u] \in Reconnects => u \in {Net, Connector}
    BY <1>3 DEF Roles
  <2>4. call'[Connector] # "start"
    BY <2>1 DEF Reconnects
  <2>5. QED BY <1>3, <2>1, <2>2, <2>3, <2>4 DEF Roles
<1>4. CASE Moves
  <2>1. call[Connector] # "start"
    BY <1>4, MoveEffect DEF Roles
  <2>2. UNCHANGED <<call, kinds, conns, state, appConnects>>
    BY <1>4, MoveEffect
  <2>3. call[Net] \notin Reconnects /\ netPc' # "reconnect" /\ netPc # "ended"
    BY <1>4, MoveEffect DEF Reconnects
  <2>4. appConnects # 0
    BY <1>1, <1>4, MoveEffect DEF Roles
  <2>5. ASSUME call[Connector] \in Reconnects
        PROVE  /\ netPc' \in {"waiting", "loop", "over", "ended"}
               /\ netPc' \in {"loop", "over"} => state = "disconnected"
    <3>1. /\ netPc \in {"waiting", "loop", "over", "ended"} /\ state \in {"new", "disconnected"}
          /\ netPc \in {"loop", "over"} => state = "disconnected"
          /\ conns = 0
      BY <2>5 DEF Roles
    <3>2. \/ netPc = "waiting" /\ state # "new" /\ netPc' = "loop"
          \/ netPc = "loop" /\ (sock = 0 => netPc' = "over")
          \/ netPc = "over" /\ netPc' = (IF state = "disconnected" THEN "ended" ELSE "sleep")
      BY <1>4, <3>1, MoveEffect
    <3>3. QED BY <1>2, <3>1, <3>2
  <2>6. QED BY <2>1, <2>2, <2>3, <2>4, <2>5 DEF Roles
<1>5. CASE Begins
  <2>1. call'[Net] \in Reconnects <=> netPc' = "reconnect"
    BY <1>5, BeginsEffect DEF Reconnects
  <2>2. call'[Net] \in Reconnects \cup {"none"} \/ conns # 0 \/ kinds # <<>>
    <3>1. netPc = "sleep" => call'[Net] # "queue"
      BY <1>1, <1>5, CallType DEF Begins, ReadAnswers, WriteDone, SleepEnds, NetAt, At, Calls
    <3>2. QED BY <1>5, <3>1, BeginsEffect DEF Reconnects
  <2>3. QED BY <1>3, <1>5, <2>1, <2>2, BeginsEffect
<1>6. ASSUME NEW t \in Threads, Calling(t)
      PROVE  Roles'
  <2>1. /\ \A u \in Threads : u # t => call'[u] = call[u]
        /\ kinds' = kinds
    BY <1>6, CallSteps
  <2>2. CASE (QueueLast(t) \/ QueueWake(t)) /\ call[t] \in {"linked", "wake"}
                /\ call'[t] \in {"wake", "none"}
    <3>1. UNCHANGED <<netPc, state, conns, appConnects>>
      BY <2>2 DEF QueueLast, QueueWake
    <3>2. conns # 0 /\ appConnects # 0
      BY <2>2 DEF Roles, Reconnects
    <3>3. call[t] \notin Reconnects /\ call'[t] \notin Reconnects
      BY <2>2 DEF Reconnects
    <3>4. call'[t] # "start"
      BY <2>2
    <3>5. QED BY <1>1, <2>1, <3>1, <3>2, <3>3, <3>4, RolesCall
  <2>3. CASE (CleanupLock(t) \/ CloseOld(t)) /\ call[t] \in {"reset", "close"}
                /\ call'[t] \in {"clean", "open"}
    <3>1. UNCHANGED <<netPc, state, conns, appConnects>>
      BY <2>3 DEF CleanupLock, CloseOld
    <3>2. appConnects # 0
      BY <2>3 DEF Roles
    <3>3. call[t] \in Reconnects /\ call'[t] \in Reconnects
      BY <2>3 DEF Reconnects
    <3>4. conns = 0 => kinds' = <<>>
      BY <2>1 DEF Roles
    <3>5. call'[t] # "start"
      BY <2>3
    <3>6. QED BY <1>1, <2>1, <3>1, <3>2, <3>3, <3>4, <3>5, RolesCall
  <2>4. CASE OpenFails(t) /\ call[t] = "open" /\ call'[t] = "none"
    <3>1. /\ state' = "pending" /\ netPc' = (IF t = Net THEN "over" ELSE netPc)
          /\ UNCHANGED <<conns, appConnects>>
      BY <2>4 DEF OpenFails, Resumes
    <3>2. appConnects # 0 /\ t \in {Net, Connector}
      BY <2>4 DEF Roles, Reconnects
    <3>3. t = Net => call[Connector] \notin Reconnects
      BY <2>4 DEF Roles, Reconnects
    <3>4. QED BY <1>1, <2>1, <2>4, <3>1, <3>2, <3>3 DEF Roles, Reconnects
  <2>5. CASE Open(t) /\ call[t] = "open" /\ call'[t] = "queue"
    <3>1. /\ state' = "connected" /\ netPc' = (IF t = Net THEN "loop" ELSE netPc)
          /\ conns' = conns + 1 /\ UNCHANGED appConnects
      BY <2>5 DEF Open, Resumes
    <3>2. appConnects # 0 /\ t \in {Net, Connector} /\ conns' # 0
      BY <1>1, <2>5, <3>1 DEF Roles, Reconnects
    <3>3. t = Net => call[Connector] \notin Reconnects
      BY <2>5 DEF Roles, Reconnects
    <3>4. QED BY <1>1, <2>1, <2>5, <3>1, <3>2, <3>3 DEF Roles, Reconnects
  <2>6. CASE t \in Senders /\ (Send(t) \/ Disconnect(t)) /\ call[t] = "none"
                /\ (call'[t] = "none" \/ (call'[t] = "queue" /\ sock # 0))
    <3>1. UNCHANGED <<netPc, conns, appConnects>> /\ state' \in {state, "disconnected"}
      BY <2>6 DEF Send, Disconnect
    <3>2. CASE appConnects = 0
      <4>1. sock = 0 /\ call'[t] = "none"
        BY <1>2, <2>6, <3>2 DEF Roles
      <4>2. \A u \in Threads : call'[u] = call[u]
        BY <2>1, <2>6, <4>1
      <4>3. QED BY <1>1, <2>1, <3>1, <3>2, <4>2 DEF Roles, Reconnects
    <3>3. t # Net /\ (conns = 0 => call'[t] = "none")
      BY <1>1, <1>2, <2>6
    <3>4. call[t] \notin Reconnects /\ call'[t] \notin Reconnects
      BY <2>6 DEF Reconnects
    <3>5. conns = 0 => kinds' = <<>>
      BY <2>1 DEF Roles
    <3>6. call'[t] # "start"
      BY <2>6
    <3>7. CASE appConnects # 0
      BY <1>1, <2>1, <3>1, <3>3, <3>4, <3>5, <3>6, <3>7, RolesCall
    <3>8. QED BY <3>2, <3>7
  <2>7. CASE t = Connector /\ AppStarts /\ call[t] = "none" /\ call'[t] = "start"
    <3>1. /\ appConnects < MaxAppConnects /\ appConnects' = appConnects + 1
          /\ UNCHANGED <<netPc, conns, state>>
      BY <2>7 DEF AppStarts
    <3>2. appConnects = 0 /\ appConnects' = 1
      BY <1>1, <3>1 DEF OneConnect
    <3>3. QED BY <1>1, <2>1, <2>7, <3>1, <3>2 DEF Roles, Reconnects
  <2>8. CASE t = Connector /\ AppConnect /\ call[t] = "start" /\ call'[t] = "reset"
    <3>1. state' = "new" /\ UNCHANGED <<netPc, conns, appConnects>>
      BY <2>8 DEF AppConnect
    <3>2. netPc = "waiting" /\ appConnects = 1
      BY <2>8 DEF Roles, Reconnects
    <3>3. QED BY <1>1, <2>1, <2>8, <3>1, <3>2 DEF Roles, Reconnects
  <2>9. QED BY <1>6, <2>2, <2>3, <2>4, <2>5, <2>6, <2>7, <2>8, CallSteps
<1>7. ASSUME NEW t \in Threads, QueueLink(t)
      PROVE  Roles'
  <2>1. conns # 0 /\ appConnects # 0
    BY <1>7, LinkEffect DEF Roles, Reconnects
  <2>2. call[t] \notin Reconnects /\ call'[t] \notin Reconnects
    BY <1>7, LinkEffect DEF Reconnects
  <2>3. UNCHANGED <<netPc, conns, appConnects, state>>
    BY <1>7, LinkEffect
  <2>4. \A u \in Threads : u # t => call'[u] = call[u]
    BY <1>7, LinkEffect
  <2>5. call'[t] # "start"
    BY <1>7, LinkEffect
  <2>6. QED BY <1>1, <2>1, <2>2, <2>3, <2>4, <2>5, RolesCall
<1>8. ASSUME NEW t \in Threads, Cleanup(t)
      PROVE  Roles'
  <2>1. appConnects # 0
    BY <1>8, CleanupEffect DEF Roles
  <2>2. call[t] \in Reconnects /\ call'[t] \in Reconnects
    BY <1>8, CleanupEffect DEF Reconnects
  <2>3. UNCHANGED <<netPc, conns, appConnects, state, kinds>>
    BY <1>8, CleanupEffect
  <2>4. \A u \in Threads : u # t => call'[u] = call[u]
    BY <1>8, CleanupEffect
  <2>5. conns = 0 => kinds' = <<>>
    BY <2>3 DEF Roles
  <2>6. call'[t] # "start"
    BY <1>8, CleanupEffect
  <2>7. QED BY <1>1, <2>1, <2>2, <2>3, <2>4, <2>5, <2>6, RolesCall
<1>9. CASE Shifts
  <2>1. /\ UNCHANGED <<call, conns, kinds, appConnects>>
        /\ netPc \notin {"waiting", "loop", "over", "ended", "reconnect"}
        /\ netPc' # "reconnect" /\ call[Net] = "none"
    BY <1>9, ShiftsEffect
  <2>2. QED BY <1>1, <2>1 DEF Roles, Reconnects
<1>10. CASE WriteBytes
  BY <1>10 DEF WriteBytes, Roles
<1>11. CASE HangupReturns \/ ReadDisconnect
  <2>1. /\ UNCHANGED <<call, conns, kinds, state, appConnects>>
        /\ netPc \in {"unlock", "read"} /\ netPc' \in {"loop", "hangup"} /\ call[Net] = "none"
    BY <1>11 DEF HangupReturns, ReadDisconnect, NetAt, At
  <2>2. QED BY <1>3, <2>1 DEF Reconnects
<1>12. CASE UNCHANGED vars
  BY <1>12 DEF vars, Roles
<1>13. QED BY Zenon, <1>4, <1>5, <1>6, <1>7, <1>8, <1>9, <1>10, <1>11, <1>12, StepCases


-----------------------------------------------------------------------------
(* The list                                                                *)

\* A step that leaves the list and whoever links a packet alone.
LEMMA LinkedFrame ==
  ASSUME QueueTypeOK, Linked, UNCHANGED <<list, last, kinds, left, outMutex>>,
         \A u \in Threads : \/ call'[u] = call[u] /\ mine'[u] = mine[u]
                            \/ call[u] # "linked" /\ call'[u] # "linked"
  PROVE  Linked'
<1>1. Low' = Low /\ Packets' = Packets
  BY DEF Low, Packets
<1>2. \A u \in Threads : call'[u] = "linked" <=> outMutex' = u
  BY DEF Linked
<1>3. \A u \in Threads : call'[u] = "linked" => list' # <<>> /\ mine'[u] = Len(kinds')
  BY DEF Linked
<1>4. \A p \in Packets' : p > Low' => left'[p] = Size
  BY <1>1 DEF Linked
<1>5. Len(list') <= Len(kinds') /\ \A i \in 1..Len(list') : list'[i] = Low' + i
  BY <1>1 DEF Linked
<1>6. outMutex' = Free /\ list' # <<>> => last' = Len(kinds')
  BY DEF Linked
<1>7. QED BY Zenon, <1>2, <1>3, <1>4, <1>5, <1>6 DEF Linked

\* packet__queue links the packet behind the last one.
LEMMA LinkedLink ==
  ASSUME QueueTypeOK, Linked, NEW t \in Threads, QueueLink(t)
  PROVE  Linked'
<1>1. Len(kinds) \in Nat /\ Len(list) \in Nat /\ Packets = 1..Len(kinds)
  BY ListFacts
<1>2. Free \notin Threads
  BY QueueAssumption
<1>3. Low' = Low /\ Low = Len(kinds) - Len(list)
  <2>1. Len(kinds') = Len(kinds) + 1 /\ Len(list') = Len(list) + 1
    BY LinkEffect
  <2>2. QED BY <1>1, <2>1 DEF Low
<1>4. Packets' = 1..Len(kinds) + 1
  BY LinkEffect DEF Packets
<1>5. Len(list') <= Len(kinds')
  BY <1>1, LinkEffect DEF Linked
<1>6. ASSUME NEW i \in 1..Len(list')
      PROVE  list'[i] = Low' + i
  <2>1. CASE i \in 1..Len(list)
    BY <1>3, <2>1, LinkEffect DEF Linked
  <2>2. CASE i = Len(list) + 1
    BY <1>1, <1>3, <2>2, LinkEffect
  <2>3. Len(list') = Len(list) + 1
    BY LinkEffect
  <2>4. QED BY <1>1, <1>6, <2>1, <2>2, <2>3
<1>7. ASSUME NEW u \in Threads
      PROVE  /\ call'[u] = "linked" <=> outMutex' = u
             /\ call'[u] = "linked" => mine'[u] = Len(kinds')
  <2>1. call[u] # "linked"
    BY <1>2, LinkEffect DEF Linked
  <2>2. QED BY <2>1, LinkEffect
<1>8. list' # <<>>
  <2>1. Len(list') # 0
    BY <1>1, LinkEffect
  <2>2. QED BY <2>1
<1>9. outMutex' # Free
  BY <1>2, LinkEffect
<1>10. ASSUME NEW p \in Packets', p > Low'
       PROVE  left'[p] = Size
  <2>1. CASE p \in Packets
    BY <1>3, <1>10, <2>1, LinkEffect DEF Linked
  <2>2. CASE p = Len(kinds) + 1
    BY <2>2, LinkEffect
  <2>3. QED BY <1>1, <1>4, <2>1, <2>2
<1>11. QED BY <1>5, <1>6, <1>7, <1>8, <1>9, <1>10 DEF Linked

\* The head is taken off.
LEMMA LinkedShift ==
  ASSUME QueueTypeOK, Linked, Shift, UNCHANGED <<kinds, left, outMutex, call, mine>>
  PROVE  Linked' /\ Low' >= Low
<1>1. Len(kinds) \in Nat /\ Len(list) \in Nat /\ Low = Len(kinds) - Len(list) /\ Low \in Int
  <2>1. Len(kinds) \in Nat /\ Len(list) \in Nat
    BY ListFacts
  <2>2. QED BY <2>1 DEF Low
<1>2. CASE list = <<>>
  <2>1. list' = list /\ last' = last
    BY <1>2, ShiftEffect
  <2>2. Linked'
    BY <2>1, LinkedFrame
  <2>3. QED BY <1>1, <2>1, <2>2 DEF Low
<1>3. CASE list # <<>>
  <2>1. Len(list') = Len(list) - 1 /\ outMutex = Free
    BY <1>3, ShiftEffect
  <2>2. Low' = Low + 1
    BY <1>1, <2>1 DEF Low
  <2>3. \A u \in Threads : call'[u] # "linked" /\ outMutex' # u
    BY <2>1, QueueAssumption DEF Linked
  <2>4. \A i \in 1..Len(list') : list'[i] = Low' + i
    <3>1. \A i \in 1..Len(list') : i + 1 \in 1..Len(list)
      BY <1>1, <2>1
    <3>2. \A i \in 1..Len(list') : list'[i] = list[i + 1]
      BY ShiftEffect
    <3>3. \A i \in 1..Len(list) : list[i] = Low + i
      BY DEF Linked
    <3>4. QED BY <1>1, <2>2, <3>1, <3>2, <3>3
  <2>5. list' # <<>> => last' = Len(kinds')
    <3>1. list' # <<>> => Len(list') # 0
      <4>1. list' \in Seq(Packets)
        BY ShiftEffect
      <4>2. QED BY <4>1, EmptySeq
    <3>2. last' = IF Len(list) = 1 THEN 0 ELSE last
      BY <1>3, ShiftEffect
    <3>3. last = Len(kinds)
      BY <1>3, <2>1 DEF Linked
    <3>4. QED BY <2>1, <3>1, <3>2, <3>3
  <2>6. \A p \in Packets' : p > Low' => left'[p] = Size
    <3>1. \A p \in Packets : p > Low + 1 => left[p] = Size
      BY <1>1 DEF Linked, Packets
    <3>2. Packets' = Packets
      BY DEF Packets
    <3>3. QED BY <2>2, <3>1, <3>2
  <2>7. Len(list') <= Len(kinds')
    BY <1>1, <2>1 DEF Linked
  <2>8. QED BY <1>1, <2>2, <2>3, <2>4, <2>5, <2>6, <2>7 DEF Linked
<1>4. QED BY <1>2, <1>3

\* The list.
LEMMA LinkedStep ==
  ASSUME QueueTypeOK, Linked, Owned, Next
  PROVE  Linked'
<1>1. Net \in Threads /\ Free \notin Threads /\ Len(kinds) \in Nat /\ Len(list) \in Nat
  BY ListFacts, QueueAssumption DEF Threads
<1>2. CASE Moves
  BY <1>2, MoveEffect, LinkedFrame
<1>3. CASE Begins
  <2>1. UNCHANGED <<list, last, kinds, left, outMutex, mine>>
    BY <1>3, BeginsEffect
  <2>2. \A u \in Threads : \/ call'[u] = call[u]
                           \/ call[u] # "linked" /\ call'[u] # "linked"
    BY <1>3, BeginsEffect
  <2>3. QED BY <2>1, <2>2, LinkedFrame
<1>4. ASSUME NEW t \in Threads, Calling(t)
      PROVE  Linked'
  <2>1. \A u \in Threads : u # t => call'[u] = call[u] /\ mine'[u] = mine[u]
    BY <1>4, CallSteps
  <2>2. CASE QueueLast(t) /\ call[t] = "linked" /\ call'[t] = "wake"
    <3>1. /\ last' = mine[t] /\ outMutex' = Free
          /\ UNCHANGED <<list, kinds, left>>
      BY <2>2 DEF QueueLast
    <3>2. outMutex = t /\ list # <<>> /\ mine[t] = Len(kinds)
      BY <2>2 DEF Linked
    <3>3. \A u \in Threads : call'[u] # "linked"
      BY <2>1, <2>2, <3>2 DEF Linked
    <3>4. Low' = Low /\ Packets' = Packets
      BY <3>1 DEF Low, Packets
    <3>5. QED BY <1>1, <3>1, <3>2, <3>3, <3>4 DEF Linked
  <2>3. CASE call[t] # "linked" /\ call'[t] # "linked" /\ ~ QueueLast(t)
    <3>1. UNCHANGED <<list, last, kinds, left, outMutex>>
      BY <1>4, <2>3 DEF Calling, QueueWake, CleanupLock, CloseOld, OpenFails, Open, Send,
         Disconnect, AppStarts, AppConnect
    <3>2. QED BY <2>1, <2>3, <3>1, LinkedFrame
  <2>4. (QueueLast(t) /\ call[t] = "linked" /\ call'[t] = "wake")
          \/ (call[t] # "linked" /\ call'[t] # "linked")
    BY <1>4, CallSteps
  <2>5. QueueLast(t) => call[t] = "linked"
    BY DEF QueueLast, At
  <2>6. QED BY <2>2, <2>3, <2>4, <2>5
<1>5. ASSUME NEW t \in Threads, QueueLink(t)
      PROVE  Linked'
  BY <1>5, LinkedLink
<1>6. ASSUME NEW t \in Threads, Cleanup(t)
      PROVE  Linked'
  <2>1. /\ list' = <<>> /\ outMutex = Free /\ UNCHANGED <<kinds, left, outMutex>>
        /\ call'[t] = "close" /\ \A u \in Threads : u # t => call'[u] = call[u]
    BY <1>6, CleanupEffect
  <2>2. \A u \in Threads : call'[u] # "linked" /\ outMutex' # u
    BY <1>1, <2>1 DEF Linked
  <2>3. Len(list') = 0 /\ Low' = Len(kinds) /\ Packets' = 1..Len(kinds)
    BY <1>1, <2>1 DEF Low, Packets
  <2>4. Len(list') <= Len(kinds') /\ \A i \in 1..Len(list') : list'[i] = Low' + i
    BY <1>1, <2>1, <2>3
  <2>5. \A p \in Packets' : ~ (p > Low')
    BY <1>1, <2>3
  <2>6. QED BY <2>1, <2>2, <2>4, <2>5 DEF Linked
<1>7. CASE Shifts
  <2>1. UNCHANGED <<kinds, left, outMutex, call, mine>>
    BY <1>7, ShiftsEffect
  <2>2. CASE Shift
    BY <2>1, <2>2, LinkedShift
  <2>3. CASE UNCHANGED <<list, last, current>>
    BY <2>1, <2>3, LinkedFrame
  <2>4. QED BY <1>7, <2>2, <2>3, ShiftsEffect
<1>8. CASE WriteBytes
  <2>1. UNCHANGED <<list, last, kinds, outMutex, call, mine>>
    BY <1>8, WriteTypes
  <2>2. PICK n \in 1..left[current] : left' = [left EXCEPT ![current] = @ - n]
    BY <1>8, WriteTypes
  <2>3. Low' = Low /\ Packets' = Packets
    BY <2>1 DEF Low, Packets
  <2>4. left \in [Packets -> 0..Size] /\ current <= Low /\ Low \in Int /\ current \in Packets
    BY <1>8, ListFacts, WriteTypes DEF QueueTypeOK, Owned
  <2>5. \A p \in Packets' : p > Low' => left'[p] = Size
    <3>1. ASSUME NEW p \in Packets, p > Low
          PROVE  left'[p] = left[p]
      <4>1. p # current
        BY <1>1, <2>4, <3>1 DEF Packets
      <4>2. QED BY <2>2, <2>4, <4>1
    <3>2. QED BY <2>3, <3>1 DEF Linked
  <2>6. QED BY <2>1, <2>3, <2>5 DEF Linked
<1>9. CASE HangupReturns \/ ReadDisconnect
  <2>1. UNCHANGED <<list, last, kinds, left, outMutex, call, mine>>
    BY <1>9 DEF HangupReturns, ReadDisconnect
  <2>2. QED BY <2>1, LinkedFrame
<1>10. CASE UNCHANGED vars
  BY <1>10, LinkedFrame DEF vars
<1>11. QED BY Zenon, <1>2, <1>3, <1>4, <1>5, <1>6, <1>7, <1>8, <1>9, <1>10, StepCases


-----------------------------------------------------------------------------
(* The packet being written and the packets that are freed                 *)

\* A step that leaves the packets alone.
LEMMA OwnedFrame ==
  ASSUME Owned, UNCHANGED <<current, freed, held>>, Low' >= Low, Low \in Int, Low' \in Int,
         current \in Nat, held \in Nat, \A p \in freed : p \in Nat,
         held = 0 => netPc' \notin {"advance"},
         held # 0 => netPc' = netPc,
         netPc = "advance" => left'[current] = left[current]
  PROVE  Owned'
<1>1. current' <= Low' /\ held' <= Low' /\ \A p \in freed' : p <= Low'
  <2>1. \A p \in Nat : p <= Low => p <= Low'
    OBVIOUS
  <2>2. QED BY <2>1 DEF Owned
<1>2. current' \notin freed' /\ held' \notin freed'
  BY DEF Owned
<1>3. held' # 0 => netPc' \in {"advance", "hangup", "unlock"}
  BY DEF Owned
<1>4. /\ netPc' = "advance" => held' # 0 /\ held' = current' /\ left'[current'] = 0
      /\ netPc' = "hangup" => held' \in {0, current'}
      /\ netPc' = "unlock" /\ held' # 0 => held' # current'
  BY DEF Owned
<1>5. QED BY Zenon, <1>1, <1>2, <1>3, <1>4 DEF Owned

\* Whoever reconnects, packet__write is not holding a packet.
LEMMA NothingHeld ==
  ASSUME QueueTypeOK, Roles, Owned, NEW t \in Threads, call[t] \in Reconnects
  PROVE  held = 0
<1>1. t \in {Net, Connector}
  BY DEF Roles
<1>2. CASE t = Net
  BY <1>2 DEF Roles, Owned
<1>3. CASE t = Connector
  BY <1>3 DEF Roles, Owned
<1>4. QED BY <1>1, <1>2, <1>3

\* A packet is taken off the list, the one before it is freed or dropped.
LEMMA OwnedShift ==
  ASSUME QueueTypeOK, Linked, Owned, Shift, Low' >= Low, Low' \in Int,
         UNCHANGED kinds, held' \in {held, 0},
         \/ freed' = freed
         \/ freed' = freed \cup {held} /\ held # 0 /\ held' = 0,
         netPc' \notin {"advance", "hangup"},
         held' # 0 => netPc' = "unlock"
  PROVE  Owned'
<1>1. /\ Len(kinds) \in Nat /\ Len(list) \in Nat /\ Len(list') \in Nat /\ Low \in Int
      /\ Low = Len(kinds) - Len(list) /\ Low' = Len(kinds) - Len(list')
  BY ListFacts, ShiftEffect DEF Low
<1>2. /\ \A p \in freed : p \in Nat /\ p # 0 /\ p <= Low
      /\ held \in Nat /\ held <= Low /\ held \notin freed
  BY <1>1 DEF QueueTypeOK, Owned, Packets
<1>3. current' = 0 \/ (current' = Low + 1 /\ Low' = Low + 1)
  <2>1. \/ current' = 0
        \/ Len(list') = Len(list) - 1 /\ current' = Low + 1
    BY ShiftEffect
  <2>2. QED BY <1>1, <2>1
<1>4. Low' >= 0
  BY <1>1, <1>2
<1>5. current' <= Low' /\ held' <= Low'
  BY <1>1, <1>2, <1>3, <1>4
<1>6. \A p \in freed' : p <= Low' /\ p <= Low /\ p # 0
  BY <1>1, <1>2
<1>7. current' \notin freed'
  BY <1>1, <1>3, <1>6
<1>8. held' \notin freed'
  BY <1>2, <1>6
<1>9. held' # 0 => held' # current'
  BY <1>1, <1>2, <1>3
<1>10. QED BY <1>5, <1>6, <1>7, <1>8, <1>9 DEF Owned

\* The packet being written, the one about to be freed, and those that are.
LEMMA OwnedStep ==
  ASSUME QueueTypeOK, Roles, Linked, Owned, QueueTypeOK', Linked', Next
  PROVE  Owned'
<1>1. /\ Net \in Threads /\ Len(kinds) \in Nat /\ Len(list) \in Nat /\ Low \in Int
      /\ Low = Len(kinds) - Len(list) /\ Packets = 1..Len(kinds) /\ Low >= 0
  BY ListFacts, QueueAssumption DEF Threads, Low, Linked
<1>2. /\ current \in Nat /\ held \in Nat /\ freed \subseteq Packets
      /\ \A p \in freed : p \in Nat
  <2>1. current \in 0..Len(kinds) /\ held \in 0..Len(kinds) /\ freed \subseteq Packets
    BY DEF QueueTypeOK
  <2>2. QED BY <1>1, <2>1
<1>3. CASE Moves
  <2>1. UNCHANGED <<list, kinds, current, freed, held, left>> /\ netPc' # "advance"
    BY <1>3, MoveEffect
  <2>2. held = 0
    BY <1>3, MoveEffect DEF Owned
  <2>3. Low' = Low
    BY <2>1 DEF Low
  <2>4. QED BY <1>1, <1>2, <2>1, <2>2, <2>3, OwnedFrame
<1>4. CASE Begins
  <2>1. /\ UNCHANGED <<list, kinds, current, freed, left>>
        /\ held = 0 /\ netPc' # "unlock"
        /\ \/ held' = 0 /\ netPc' \notin {"advance", "hangup"}
           \/ held' = current /\ current # 0 /\ left[current] = 0
    BY <1>4, BeginsEffect
  <2>2. Low' = Low
    BY <2>1 DEF Low
  <2>3. held' # 0 => netPc' \in {"advance", "hangup"}
    <3>1. WriteDone => netPc' \in {"advance", "hangup"}
      BY DEF WriteDone
    <3>2. ReadAnswers \/ SleepEnds => held' = held
      BY DEF ReadAnswers, SleepEnds
    <3>3. QED BY <1>4, <2>1, <3>1, <3>2 DEF Begins
  <2>4. QED BY <2>1, <2>2, <2>3 DEF Owned
<1>5. ASSUME NEW t \in Threads, Calling(t)
      PROVE  Owned'
  <2>1. UNCHANGED <<list, kinds, current, freed, held, left>>
    BY <1>5, CallSteps
  <2>2. Low' = Low
    BY <2>1 DEF Low
  <2>3. CASE netPc' = netPc
    BY <1>1, <1>2, <2>1, <2>2, <2>3, OwnedFrame DEF Owned
  <2>4. CASE netPc' \in {"over", "loop"} /\ call[t] = "open"
    <3>1. held = 0
      BY <2>4, NothingHeld DEF Reconnects
    <3>2. QED BY <1>1, <1>2, <2>1, <2>2, <2>4, <3>1, OwnedFrame
  <2>5. netPc' = netPc \/ (netPc' \in {"over", "loop"} /\ call[t] = "open")
    <3>1. CASE OpenFails(t) \/ Open(t)
      BY <3>1 DEF OpenFails, Open, Resumes, At
    <3>2. CASE ~ (OpenFails(t) \/ Open(t))
      BY <1>5, <3>2 DEF Calling, QueueLast, QueueWake, CleanupLock, CloseOld, Send, Disconnect,
         AppStarts, AppConnect
    <3>3. QED BY <3>1, <3>2
  <2>6. QED BY <2>3, <2>4, <2>5
<1>6. ASSUME NEW t \in Threads, QueueLink(t)
      PROVE  Owned'
  <2>1. UNCHANGED <<current, freed, held, netPc>>
    BY <1>6, LinkEffect
  <2>2. Low' = Low
    <3>1. Len(kinds') = Len(kinds) + 1 /\ Len(list') = Len(list) + 1
      BY <1>6, LinkEffect
    <3>2. QED BY <1>1, <3>1 DEF Low
  <2>3. netPc = "advance" => left'[current] = left[current]
    <3>1. netPc = "advance" => current \in Packets
      BY <1>1 DEF Owned, QueueTypeOK
    <3>2. QED BY <1>6, <3>1, LinkEffect
  <2>4. held = 0 => netPc' # "advance"
    BY <2>1 DEF Owned
  <2>5. QED BY <1>1, <1>2, <2>1, <2>2, <2>3, <2>4, OwnedFrame
<1>7. ASSUME NEW t \in Threads, Cleanup(t)
      PROVE  Owned'
  <2>1. /\ list' = <<>> /\ current' = 0 /\ UNCHANGED <<held, netPc, kinds>>
        /\ call[t] = "clean"
    BY <1>7, CleanupEffect
  <2>2. held = 0
    BY <2>1, NothingHeld DEF Reconnects
  <2>3. Low' = Len(kinds) /\ Packets' = Packets
    BY <1>1, <2>1 DEF Low, Packets
  <2>4. freed' \subseteq Packets
    BY <2>3 DEF QueueTypeOK
  <2>5. /\ \A p \in freed' : p <= Low'
        /\ 0 \notin freed' /\ 0 <= Low'
    BY <1>1, <2>3, <2>4
  <2>6. netPc' # "advance"
    BY <2>1, <2>2 DEF Owned
  <2>7. QED BY <2>1, <2>2, <2>5, <2>6 DEF Owned
<1>8. CASE Shifts
  <2>1. UNCHANGED <<kinds, left, outMutex, call, mine>>
    BY <1>8, ShiftsEffect
  <2>2. CASE Shift
    <3>1. Low' >= Low /\ Low' \in Int
      <4>1. Len(list') \in Nat
        BY <2>2, ShiftEffect
      <4>2. Low' \in Int
        BY <1>1, <2>1, <4>1 DEF Low
      <4>3. QED BY <2>1, <2>2, <4>2, LinkedShift
    <3>2. netPc' \notin {"advance", "hangup"} /\ held' \in {held, 0}
      BY <1>8, ShiftsEffect
    <3>3. \/ freed' = freed
          \/ freed' = freed \cup {held} /\ held # 0 /\ held' = 0
      BY <1>8, ShiftsEffect
    <3>4. held' # 0 => netPc' = "unlock"
      BY <1>8 DEF Shifts, WriteEnter, WriteNext, Hangup, Owned, NetAt
    <3>5. QED BY <2>1, <2>2, <3>1, <3>2, <3>3, <3>4, OwnedShift
  <2>3. CASE ~ Shift
    <3>1. WriteEnter
      BY <1>8, <2>3 DEF Shifts, WriteNext, Hangup
    <3>2. UNCHANGED <<list, last, current>> /\ freed' = freed /\ held' = held
          /\ netPc = "write" /\ netPc' = "writing"
      BY <2>3, <3>1 DEF WriteEnter, ShiftIfNone, NetAt
    <3>3. held = 0 /\ Low' = Low
      BY <2>1, <3>2 DEF Owned, Low
    <3>4. Low' >= Low /\ Low' \in Int
      BY <1>1, <3>3
    <3>5. QED BY <1>1, <1>2, <3>2, <3>3, <3>4, OwnedFrame
  <2>4. QED BY <2>2, <2>3
<1>9. CASE WriteBytes
  <2>1. UNCHANGED <<list, kinds, current, freed, held, netPc>> /\ netPc = "writing"
    BY <1>9, WriteTypes
  <2>2. Low' = Low
    BY <2>1 DEF Low
  <2>3. QED BY <1>1, <1>2, <2>1, <2>2, OwnedFrame DEF Owned
<1>10. CASE HangupReturns
  <2>1. /\ netPc = "unlock" /\ freed' = freed \cup ({held} \ {0}) /\ held' = 0 /\ netPc' = "loop"
        /\ UNCHANGED <<list, kinds, current, left>>
    BY <1>10 DEF HangupReturns, NetAt
  <2>2. Low' = Low
    BY <2>1 DEF Low
  <2>3. \A p \in freed' : p <= Low' /\ p # 0
    BY <1>1, <1>2, <2>1, <2>2 DEF Owned
  <2>4. current' \notin freed'
    BY <2>1 DEF Owned
  <2>5. QED BY <1>1, <2>1, <2>2, <2>3, <2>4 DEF Owned
<1>11. CASE ReadDisconnect
  <2>1. /\ netPc = "read" /\ netPc' = "hangup"
        /\ UNCHANGED <<list, kinds, current, freed, held, left>>
    BY <1>11 DEF ReadDisconnect, NetAt
  <2>2. held = 0 /\ Low' = Low
    BY <2>1 DEF Owned, Low
  <2>3. QED BY <1>1, <1>2, <2>1, <2>2, OwnedFrame
<1>12. CASE UNCHANGED vars
  BY <1>12 DEF vars, Owned, Low
<1>13. QED BY Zenon, <1>3, <1>4, <1>5, <1>6, <1>7, <1>8, <1>9, <1>10, <1>11, <1>12, StepCases


-----------------------------------------------------------------------------
(* Which connection a packet is for                                        *)

\* Two threads are never in mosquitto__reconnect at once.
LEMMA OneReconnects ==
  ASSUME Roles, NEW t \in Threads, NEW u \in Threads,
         call[t] \in Reconnects, call[u] \in Reconnects
  PROVE  t = u
<1>1. t \in {Net, Connector} /\ u \in {Net, Connector}
  BY DEF Roles
<1>2. ~ (call[Net] \in Reconnects /\ call[Connector] \in Reconnects)
  BY DEF Roles
<1>3. QED BY <1>1, <1>2

\* A step that closes the socket or leaves it, and neither empties the queue nor opens a
\* connection.
LEMMA EpochsFrame ==
  ASSUME Epochs, Low' >= Low, Low \in Int, Low' \in Int, Packets \subseteq Int,
         Packets' = Packets,
         UNCHANGED <<born, epoch, conns>>, sock' \in {sock, 0},
         current' = current \/ current' = 0 \/ current' > Low,
         \A u \in Threads : call'[u] \in {"close", "open"} => call'[u] = call[u],
         (\E u \in Threads : call'[u] \in {"close", "open"}) => current' = current,
         call[Net] # "close" \/ sock' = 0 \/ call'[Net] = "close", 0 \notin Packets
  PROVE  Epochs'
<1>1. \A p \in Packets' : p > Low' \/ p = current' => born'[p] = epoch'
  <2>1. SUFFICES ASSUME NEW p \in Packets, p > Low' \/ p = current'
                 PROVE  born[p] = epoch
    OBVIOUS
  <2>2. p > Low' => p > Low
    <3>1. p \in Int
      OBVIOUS
    <3>2. \A a, b, c \in Int : c >= b /\ a > c => a > b
      OBVIOUS
    <3>3. QED BY <3>1, <3>2
  <2>3. p > Low \/ p = current
    BY <2>1, <2>2
  <2>4. QED BY <2>3 DEF Epochs
<1>2. \A u \in Threads : call'[u] \in {"close", "open"} => epoch' = conns' + 1 /\ current' = 0
  BY DEF Epochs
<1>3. \A u \in Threads : call'[u] = "open" => sock' = 0
  BY DEF Epochs
<1>4. sock' # 0 /\ call'[Net] # "close" => sock' = conns' /\ epoch' = conns'
  BY DEF Epochs
<1>5. QED BY Zenon, <1>1, <1>2, <1>3, <1>4 DEF Epochs

\* What is queued is for the connection that is open or about to be.
LEMMA EpochsStep ==
  ASSUME QueueTypeOK, Roles, Linked, Owned, Epochs, QueueTypeOK', Roles', Linked', Next
  PROVE  Epochs'
<1>1. /\ Net \in Threads /\ Len(kinds) \in Nat /\ Len(list) \in Nat /\ Low \in Int
      /\ Packets = 1..Len(kinds) /\ Packets \subseteq Int /\ 0 \notin Packets
  <2>1. Len(kinds) \in Nat /\ Len(list) \in Nat
    BY ListFacts
  <2>2. QED BY <2>1, QueueAssumption DEF Threads, Low, Packets
<1>2. conns \in Nat /\ sock \in 0..conns
  BY DEF QueueTypeOK
<1>3. ASSUME UNCHANGED <<list, kinds, current, born, epoch, conns>>, sock' \in {sock, 0},
             \A u \in Threads : call'[u] \in {"close", "open"} => call'[u] = call[u],
             call[Net] # "close" \/ sock' = 0 \/ call'[Net] = "close"
      PROVE  Epochs'
  <2>1. Low' = Low /\ Packets' = Packets /\ Low' >= Low
    BY <1>1, <1>3 DEF Low, Packets
  <2>2. QED BY <1>1, <1>3, <2>1, EpochsFrame
<1>4. CASE Moves
  <2>1. /\ UNCHANGED <<list, kinds, current, born, epoch, conns, call>>
        /\ sock' \in {sock, 0} /\ call[Net] = "none"
    BY <1>4, MoveEffect
  <2>2. QED BY <1>3, <2>1
<1>5. CASE Begins
  <2>1. /\ UNCHANGED <<list, kinds, current, born, epoch, conns, sock>>
        /\ call[Net] = "none" /\ call'[Net] \in {"none", "queue", "reset"}
        /\ \A u \in Threads : u # Net => call'[u] = call[u]
    BY <1>5, BeginsEffect
  <2>2. \A u \in Threads : call'[u] \in {"close", "open"} => call'[u] = call[u]
    BY <2>1
  <2>3. QED BY <1>3, <2>1, <2>2
<1>6. ASSUME NEW t \in Threads, Calling(t)
      PROVE  Epochs'
  <2>1. /\ UNCHANGED <<list, kinds, current, born, epoch>>
        /\ \A u \in Threads : u # t => call'[u] = call[u]
    BY <1>6, CallSteps
  <2>2. CASE CloseOld(t) /\ call[t] = "close" /\ call'[t] = "open"
    <3>1. sock' = 0 /\ conns' = conns
      BY <2>2 DEF CloseOld
    <3>2. \A u \in Threads : u # t => call[u] \notin {"close", "open"}
      BY <2>2, OneReconnects DEF Reconnects
    <3>3. epoch = conns + 1 /\ current = 0
      BY <2>2 DEF Epochs
    <3>4. \A p \in Packets' : p > Low' \/ p = current' => born'[p] = epoch'
      BY <2>1 DEF Epochs, Low, Packets
    <3>5. QED BY <2>1, <3>1, <3>3, <3>4 DEF Epochs
  <2>3. CASE Open(t) /\ call[t] = "open" /\ call'[t] = "queue"
    <3>1. conns' = conns + 1 /\ sock' = conns + 1
      BY <2>3 DEF Open
    <3>2. \A u \in Threads : call'[u] \notin {"close", "open"}
      BY <2>1, <2>3, OneReconnects DEF Reconnects
    <3>3. epoch = conns + 1
      BY <2>3 DEF Epochs
    <3>4. \A p \in Packets' : p > Low' \/ p = current' => born'[p] = epoch'
      BY <2>1 DEF Epochs, Low, Packets
    <3>5. QED BY <2>1, <3>1, <3>2, <3>3, <3>4 DEF Epochs
  <2>4. CASE ~ CloseOld(t) /\ ~ Open(t)
    <3>1. UNCHANGED <<sock, conns>>
      BY <1>6, <2>4 DEF Calling, QueueLast, QueueWake, CleanupLock, OpenFails, Send, Disconnect,
         AppStarts, AppConnect
    <3>2. call[t] # "close" /\ call'[t] \notin {"close", "open"}
      BY <1>6, <2>4, CallSteps
    <3>3. \A u \in Threads : call'[u] \in {"close", "open"} => call'[u] = call[u]
      BY <2>1, <3>2
    <3>4. call[Net] = "close" => call'[Net] = "close"
      BY <1>1, <2>1, <3>2
    <3>5. QED BY <1>3, <2>1, <3>1, <3>3, <3>4
  <2>5. (CloseOld(t) => call[t] = "close" /\ call'[t] = "open")
          /\ (Open(t) => call[t] = "open" /\ call'[t] = "queue")
    BY CallType DEF CloseOld, Open, At, Calls
  <2>6. QED BY <2>2, <2>3, <2>4, <2>5
<1>7. ASSUME NEW t \in Threads, QueueLink(t)
      PROVE  Epochs'
  <2>1. /\ call'[t] = "linked" /\ call[t] = "queue"
        /\ \A u \in Threads : u # t => call'[u] = call[u]
        /\ UNCHANGED <<current, sock, conns, epoch>>
        /\ \A p \in Packets : born'[p] = born[p]
        /\ born'[Len(kinds) + 1] = epoch
        /\ Len(kinds') = Len(kinds) + 1 /\ Len(list') = Len(list) + 1
    BY <1>7, LinkEffect
  <2>2. Low' = Low /\ Packets' = 1..Len(kinds) + 1
    BY <1>1, <2>1 DEF Low, Packets
  <2>3. ASSUME NEW p \in Packets', p > Low' \/ p = current'
        PROVE  born'[p] = epoch'
    <3>1. CASE p \in Packets
      BY <2>1, <2>2, <2>3, <3>1 DEF Epochs
    <3>2. CASE p = Len(kinds) + 1
      BY <2>1, <3>2
    <3>3. QED BY <1>1, <2>2, <3>1, <3>2
  <2>4. \A u \in Threads : call'[u] \in {"close", "open"} => call'[u] = call[u]
    BY <2>1
  <2>5. \A u \in Threads : call'[u] \in {"close", "open"} => epoch' = conns' + 1 /\ current' = 0
    BY <2>1, <2>4 DEF Epochs
  <2>6. \A u \in Threads : call'[u] = "open" => sock' = 0
    BY <2>1, <2>4 DEF Epochs
  <2>7. sock' # 0 /\ call'[Net] # "close" => sock' = conns' /\ epoch' = conns'
    BY <1>1, <2>1 DEF Epochs
  <2>8. QED BY Zenon, <2>3, <2>5, <2>6, <2>7 DEF Epochs
<1>8. ASSUME NEW t \in Threads, Cleanup(t)
      PROVE  Epochs'
  <2>1. /\ call[t] = "clean" /\ call'[t] = "close"
        /\ \A u \in Threads : u # t => call'[u] = call[u]
        /\ list' = <<>> /\ current' = 0 /\ epoch' = conns + 1
        /\ UNCHANGED <<kinds, sock, conns>>
    BY <1>8, CleanupEffect
  <2>2. Packets' = 1..Len(kinds) /\ Low' = Len(kinds)
    BY <1>1, <2>1 DEF Low, Packets
  <2>3. \A p \in Packets' : ~ (p > Low') /\ p # current'
    BY <1>1, <2>1, <2>2
  <2>4. \A u \in Threads : call'[u] = "open" => sock' = 0
    BY <2>1 DEF Epochs
  <2>5. sock' # 0 => call'[Net] = "close"
    <3>1. t \in {Net, Connector}
      BY <2>1 DEF Roles, Reconnects
    <3>2. t = Connector => conns = 0
      BY <2>1 DEF Roles, Reconnects
    <3>3. QED BY <1>2, <2>1, <3>1, <3>2
  <2>6. QED BY <2>1, <2>3, <2>4, <2>5 DEF Epochs
<1>9. CASE Shifts
  <2>1. /\ UNCHANGED <<kinds, left, outMutex, call, mine, born, epoch, conns>>
        /\ sock' \in {sock, 0} /\ call[Net] = "none"
        /\ netPc \notin {"reconnect", "waiting", "loop", "over", "ended"}
    BY <1>9, ShiftsEffect
  <2>2. \A u \in Threads : call[u] \notin {"close", "open"}
    BY <2>1 DEF Roles, Reconnects
  <2>3. CASE Shift
    <3>1. Low' >= Low
      BY <2>1, <2>3, LinkedShift
    <3>2. Len(list') \in Nat
      BY <2>3, ShiftEffect
    <3>3. Low' \in Int /\ Packets' = Packets
      BY <1>1, <2>1, <3>2 DEF Low, Packets
    <3>4. current' = 0 \/ current' = Low + 1
      BY <2>3, ShiftEffect
    <3>5. current' = 0 \/ current' > Low
      BY <1>1, <3>4
    <3>6. QED BY <1>1, <2>1, <2>2, <3>1, <3>3, <3>5, EpochsFrame
  <2>4. CASE UNCHANGED <<list, last, current>>
    BY <1>3, <2>1, <2>4
  <2>5. QED BY <1>9, <2>3, <2>4, ShiftsEffect
<1>10. CASE WriteBytes
  <2>1. UNCHANGED <<list, kinds, current, born, epoch, conns, call, sock>>
    BY <1>10, WriteTypes
  <2>2. QED BY <1>3, <2>1
<1>11. CASE HangupReturns \/ ReadDisconnect
  <2>1. UNCHANGED <<list, kinds, current, born, epoch, conns, call, sock>>
    BY <1>11 DEF HangupReturns, ReadDisconnect
  <2>2. QED BY <1>3, <2>1
<1>12. CASE UNCHANGED vars
  BY <1>3, <1>12 DEF vars
<1>13. QED BY Zenon, <1>4, <1>5, <1>6, <1>7, <1>8, <1>9, <1>10, <1>11, <1>12, StepCases

\* A step that writes nothing: the packets that have left the list stay off it.
LEMMA CarriedFrame ==
  ASSUME Carried, UNCHANGED wires, conns \in Int, conns' \in Int, conns' >= conns,
         Low \in Int, Low' \in Int, Low' >= Low, Conns \subseteq Int,
         \A c \in Conns : \A i \in DOMAIN wires[c] :
            wires[c][i] \in Int /\ born'[wires[c][i]] = born[wires[c][i]]
  PROVE  Carried'
<1>1. \A c \in Conns : c > conns' => wires'[c] = <<>>
  <2>1. \A a, b, c \in Int : c >= b /\ a > c => a > b
    OBVIOUS
  <2>2. \A c \in Conns : c > conns' => c > conns
    BY <2>1
  <2>3. QED BY <2>2 DEF Carried
<1>2. ASSUME NEW c \in Conns, NEW i \in DOMAIN wires'[c]
      PROVE  wires'[c][i] <= Low' /\ born'[wires'[c][i]] = c
  <2>1. wires[c][i] <= Low /\ born[wires[c][i]] = c /\ wires[c][i] \in Int
    BY <1>2 DEF Carried
  <2>2. wires[c][i] <= Low'
    BY <2>1
  <2>3. QED BY <1>2, <2>1, <2>2
<1>3. QED BY <1>1, <1>2 DEF Carried

\* The packets that have left the list stay off it.
LEMMA LowGrows ==
  ASSUME QueueTypeOK, Linked, QueueTypeOK', Owned, Next
  PROVE  Low \in Int /\ Low' \in Int /\ Low' >= Low
<1>1. /\ Len(kinds) \in Nat /\ Len(list) \in Nat /\ Low = Len(kinds) - Len(list)
      /\ Len(list) <= Len(kinds)
  <2>1. Len(kinds) \in Nat /\ Len(list) \in Nat
    BY ListFacts
  <2>2. QED BY <2>1 DEF Low, Linked
<1>2. Len(kinds') \in Nat /\ Len(list') \in Nat /\ Low' = Len(kinds') - Len(list')
  <2>1. kinds' \in Seq(Kinds) /\ list' \in Seq(Packets')
    BY DEF QueueTypeOK
  <2>2. Len(kinds') \in Nat /\ Len(list') \in Nat
    BY <2>1, LenProperties
  <2>3. QED BY <2>2 DEF Low
<1>3. CASE UNCHANGED <<list, kinds>>
  BY <1>1, <1>2, <1>3
<1>4. CASE Moves
  BY <1>3, <1>4, MoveEffect
<1>5. CASE Begins
  BY <1>3, <1>5, BeginsEffect
<1>6. ASSUME NEW t \in Threads, Calling(t)
      PROVE  Low' >= Low
  BY <1>1, <1>2, <1>6, CallSteps
<1>7. ASSUME NEW t \in Threads, QueueLink(t)
      PROVE  Low' >= Low
  <2>1. Len(kinds') = Len(kinds) + 1 /\ Len(list') = Len(list) + 1
    BY <1>7, LinkEffect
  <2>2. QED BY <1>1, <1>2, <2>1
<1>8. ASSUME NEW t \in Threads, Cleanup(t)
      PROVE  Low' >= Low
  <2>1. list' = <<>> /\ kinds' = kinds
    BY <1>8, CleanupEffect
  <2>2. QED BY <1>1, <1>2, <2>1
<1>9. CASE Shifts
  <2>1. UNCHANGED <<kinds, left, outMutex, call, mine>>
    BY <1>9, ShiftsEffect
  <2>2. Shift \/ UNCHANGED list
    BY <1>9, ShiftsEffect
  <2>3. Shift => Low' >= Low
    BY <2>1, LinkedShift
  <2>4. QED BY <1>1, <1>2, <1>3, <2>1, <2>2, <2>3
<1>10. CASE WriteBytes
  BY <1>3, <1>10, WriteTypes
<1>11. CASE HangupReturns \/ ReadDisconnect
  <2>1. UNCHANGED <<list, kinds>>
    BY <1>11 DEF HangupReturns, ReadDisconnect
  <2>2. QED BY <1>3, <2>1
<1>12. CASE UNCHANGED vars
  <2>1. UNCHANGED <<list, kinds>>
    BY <1>12 DEF vars
  <2>2. QED BY <1>3, <2>1
<1>13. Low \in Int /\ Low' \in Int
  BY <1>1, <1>2
<1>14. Low' >= Low
  BY Zenon, <1>4, <1>5, <1>6, <1>7, <1>8, <1>9, <1>10, <1>11, <1>12, StepCases
<1>15. QED BY <1>13, <1>14


-----------------------------------------------------------------------------
(* What the connections carry                                              *)

\* Only net__write adds to what a connection has carried.
LEMMA BytesKept ==
  ASSUME QueueTypeOK, Linked, Owned, Next
  PROVE  /\ WriteBytes \/ UNCHANGED wires
         /\ \A p \in Packets : born'[p] = born[p]
         /\ conns \in Nat /\ conns' \in Nat /\ conns' >= conns
<1>1. conns \in Nat
  BY DEF QueueTypeOK
<1>2. CASE Moves
  BY <1>1, <1>2, MoveEffect
<1>3. CASE Begins
  BY <1>1, <1>3, BeginsEffect
<1>4. ASSUME NEW t \in Threads, Calling(t)
      PROVE  UNCHANGED <<wires, born>> /\ conns' \in Nat /\ conns' >= conns
  BY <1>4, CallingTypes
<1>5. ASSUME NEW t \in Threads, QueueLink(t)
      PROVE  UNCHANGED <<wires, conns>> /\ \A p \in Packets : born'[p] = born[p]
  BY <1>5, LinkEffect
<1>6. ASSUME NEW t \in Threads, Cleanup(t)
      PROVE  UNCHANGED <<wires, conns, born>>
  BY <1>6, CleanupEffect
<1>7. CASE Shifts
  BY <1>1, <1>7, ShiftsEffect
<1>8. CASE WriteBytes
  BY <1>1, <1>8, WriteTypes
<1>9. CASE HangupReturns \/ ReadDisconnect
  BY <1>1, <1>9 DEF HangupReturns, ReadDisconnect
<1>10. CASE UNCHANGED vars
  BY <1>1, <1>10 DEF vars
<1>11. QED
  <2>1. CASE \E t \in Threads : Calling(t)
    BY <1>1, <1>4, <2>1
  <2>2. CASE \E t \in Threads : QueueLink(t)
    BY <1>1, <1>5, <2>2
  <2>3. CASE \E t \in Threads : Cleanup(t)
    BY <1>1, <1>6, <2>3
  <2>4. QED BY Zenon, <1>2, <1>3, <1>7, <1>8, <1>9, <1>10, <2>1, <2>2, <2>3, StepCases

\* A sequence that is followed by n times p.
LEMMA CountGrows ==
  ASSUME NEW w, NEW v, NEW p, NEW m \in Nat, NEW n \in Nat \ {0},
         DOMAIN w = 1..m, DOMAIN v = 1..m + n,
         \A i \in 1..m : v[i] = w[i],
         \A i \in m + 1..m + n : v[i] = p
  PROVE  Count(v, p) = Count(w, p) + n
<1> DEFINE W == {i \in DOMAIN w : w[i] = p}
           V == {i \in DOMAIN v : v[i] = p}
           B == m + 1..m + n
<1>1. \A i \in DOMAIN v : i \in DOMAIN w \/ i \in B
  OBVIOUS
<1>2. \A i \in DOMAIN w : i \in DOMAIN v /\ i \notin B
  OBVIOUS
<1>3. B \subseteq DOMAIN v
  OBVIOUS
<1>4. V = W \cup B
  BY <1>1, <1>2, <1>3
<1>5. W \cap B = {}
  BY <1>2
<1>6. IsFiniteSet(W) /\ IsFiniteSet(B) /\ Cardinality(B) = n /\ Cardinality(W) \in Nat
  <2>1. IsFiniteSet(1..m)
    BY FS_Interval
  <2>2. IsFiniteSet(W)
    BY <2>1, FS_Subset
  <2>3. Cardinality(W) \in Nat
    BY <2>2, FS_CardinalityType
  <2>4. m + 1 \in Int /\ m + n \in Int /\ ~ (m + 1 > m + n) /\ m + n - (m + 1) + 1 = n
    OBVIOUS
  <2>5. IsFiniteSet(B) /\ Cardinality(B) = n
    <3>1. PICK a \in Int, b \in Int : a = m + 1 /\ b = m + n
      BY <2>4
    <3>2. IsFiniteSet(a..b) /\ Cardinality(a..b) = IF a > b THEN 0 ELSE b - a + 1
      BY FS_Interval
    <3>3. ~ (a > b) /\ b - a + 1 = n
      BY <2>4, <3>1
    <3>4. QED BY <3>1, <3>2, <3>3
  <2>6. QED BY <2>2, <2>3, <2>5
<1>7. Cardinality({}) = 0
  BY FS_EmptySet
<1>8. Cardinality(W \cup B) = Cardinality(W) + Cardinality(B) - Cardinality(W \cap B)
  BY <1>6, FS_Union
<1>9. Cardinality(W \cup B) = Cardinality(W) + n - 0
  BY <1>5, <1>6, <1>7, <1>8
<1>10. \A a, b \in Nat : a + b - 0 = a + b
  OBVIOUS
<1>11. Cardinality(W \cup B) = Cardinality(W) + n
  BY <1>6, <1>9, <1>10
<1>12. QED BY <1>4, <1>11 DEF Count

\* A sequence that is followed by what is not q.
LEMMA CountStays ==
  ASSUME NEW w, NEW v, NEW q, NEW m \in Nat, NEW n \in Nat \ {0},
         DOMAIN w = 1..m, DOMAIN v = 1..m + n,
         \A i \in 1..m : v[i] = w[i],
         \A i \in m + 1..m + n : v[i] # q
  PROVE  Count(v, q) = Count(w, q)
<1>1. \A i \in DOMAIN v : i \in DOMAIN w \/ v[i] # q
  <2>1. \A i \in 1..m + n : i \in 1..m \/ i \in m + 1..m + n
    OBVIOUS
  <2>2. QED BY <2>1
<1>2. \A i \in DOMAIN w : i \in DOMAIN v /\ v[i] = w[i]
  OBVIOUS
<1>3. {i \in DOMAIN v : v[i] = q} = {i \in DOMAIN w : w[i] = q}
  BY <1>1, <1>2
<1>4. QED BY <1>3 DEF Count

\* What net__write adds.
LEMMA WireGrows ==
  ASSUME QueueTypeOK, WriteBytes
  PROVE  \E n \in Nat \ {0} :
           /\ n <= left[current] /\ left[current] \in 0..Size /\ left'[current] = left[current] - n
           /\ Len(wires'[sock]) = Len(wires[sock]) + n
           /\ \A i \in 1..Len(wires[sock]) : wires'[sock][i] = wires[sock][i]
           /\ \A i \in Len(wires[sock]) + 1..Len(wires[sock]) + n : wires'[sock][i] = current
           /\ wires[sock] \in Seq(Packets) /\ wires'[sock] \in Seq(Packets)
           /\ \A c \in Conns : c # sock => wires'[c] = wires[c]
<1>1. sock \in Conns /\ current \in Packets
  BY WriteTypes
<1>2. PICK n \in 1..left[current] :
        /\ left' = [left EXCEPT ![current] = @ - n]
        /\ wires' = [wires EXCEPT ![sock] = @ \o [i \in 1..n |-> current]]
        /\ [i \in 1..n |-> current] \in Seq(Packets)
  BY WriteTypes
<1>3. left \in [Packets -> 0..Size] /\ wires \in [Conns -> Seq(Packets)]
  BY DEF QueueTypeOK
<1>4. left[current] \in 0..Size /\ n \in Nat \ {0} /\ n <= left[current]
  BY <1>1, <1>3, QueueAssumption
<1>5. left'[current] = left[current] - n
  BY <1>1, <1>2, <1>3
<1> DEFINE w == wires[sock]
           s == [i \in 1..n |-> current]
<1>6. wires'[sock] = w \o s /\ \A c \in Conns : c # sock => wires'[c] = wires[c]
  BY <1>1, <1>2, <1>3
<1>7. w \in Seq(Packets) /\ s \in Seq(Packets) /\ Len(w) \in Nat /\ Len(s) = n
  BY <1>1, <1>2, <1>3, <1>4, LenProperties
<1>8. w \o s \in Seq(Packets) /\ Len(w \o s) = Len(w) + n
  BY <1>7, ConcatProperties
<1>9. \A i \in 1..Len(w) : (w \o s)[i] = w[i]
  BY <1>4, <1>7
<1>10. \A i \in Len(w) + 1..Len(w) + n : (w \o s)[i] = current
  BY <1>4, <1>7
<1>11. QED BY <1>4, <1>5, <1>6, <1>7, <1>8, <1>9, <1>10

\* A connection carries packets that were queued for it.
LEMMA CarriedStep ==
  ASSUME QueueTypeOK, Roles, Linked, Owned, Epochs, Carried, QueueTypeOK', Next
  PROVE  Carried'
<1>1. /\ conns \in Nat /\ conns' \in Nat /\ conns' >= conns
      /\ \A p \in Packets : born'[p] = born[p]
  BY BytesKept
<1>2. Low \in Int /\ Low' \in Int /\ Low' >= Low
  BY LowGrows
<1>3. /\ Conns \subseteq Int /\ Len(kinds) \in Nat /\ Packets = 1..Len(kinds)
      /\ wires \in [Conns -> Seq(Packets)]
  <2>1. Len(kinds) \in Nat
    BY ListFacts
  <2>2. QED BY <2>1 DEF Conns, Packets, QueueTypeOK
<1>4. CASE UNCHANGED wires
  <2>1. ASSUME NEW c \in Conns, NEW i \in DOMAIN wires[c]
        PROVE  wires[c][i] \in Int /\ born'[wires[c][i]] = born[wires[c][i]]
    <3>1. wires[c] \in Seq(Packets)
      BY <1>3
    <3>2. wires[c][i] \in Packets
      BY <2>1, <3>1
    <3>3. QED BY <1>1, <1>3, <3>2
  <2>2. QED BY <1>1, <1>2, <1>3, <1>4, <2>1, CarriedFrame
<1>5. CASE WriteBytes
  <2>1. /\ UNCHANGED <<list, current, kinds, born, sock, conns, call>>
        /\ sock \in Conns /\ current \in Packets /\ call[Net] = "none" /\ sock # 0
    BY <1>5, WriteTypes
  <2>2. PICK n \in Nat \ {0} :
           /\ Len(wires'[sock]) = Len(wires[sock]) + n
           /\ \A i \in 1..Len(wires[sock]) : wires'[sock][i] = wires[sock][i]
           /\ \A i \in Len(wires[sock]) + 1..Len(wires[sock]) + n : wires'[sock][i] = current
           /\ wires[sock] \in Seq(Packets) /\ wires'[sock] \in Seq(Packets)
           /\ \A c \in Conns : c # sock => wires'[c] = wires[c]
    BY <1>5, WireGrows
  <2>3. Low' = Low
    BY <2>1 DEF Low
  <2>4. born[current] = sock /\ sock = conns /\ current <= Low
    BY <2>1 DEF Epochs, Owned
  <2>5. ASSUME NEW c \in Conns, c > conns'
        PROVE  wires'[c] = <<>>
    <3>1. c # sock /\ c > conns
      BY <1>1, <1>3, <2>1, <2>4, <2>5
    <3>2. QED BY <2>2, <3>1 DEF Carried
  <2>6. ASSUME NEW c \in Conns, NEW i \in DOMAIN wires'[c]
        PROVE  wires'[c][i] <= Low /\ born[wires'[c][i]] = c
    <3>1. CASE c # sock
      BY <2>2, <2>6, <3>1 DEF Carried
    <3>2. CASE c = sock
      <4>1. /\ DOMAIN wires'[sock] = 1..Len(wires[sock]) + n /\ Len(wires[sock]) \in Nat
            /\ DOMAIN wires[sock] = 1..Len(wires[sock])
        BY <2>2, LenProperties
      <4>2. CASE i \in 1..Len(wires[sock])
        <5>1. wires'[sock][i] = wires[sock][i]
          BY <2>2, <4>2
        <5>2. wires[sock][i] <= Low /\ born[wires[sock][i]] = sock
          BY <2>1, <4>1, <4>2 DEF Carried
        <5>3. QED BY <3>2, <5>1, <5>2
      <4>3. CASE i \in Len(wires[sock]) + 1..Len(wires[sock]) + n
        BY <2>2, <2>4, <3>2, <4>3
      <4>4. i \in 1..Len(wires[sock]) + n
        BY <2>6, <3>2, <4>1
      <4>5. QED BY <4>1, <4>2, <4>3, <4>4
    <3>3. QED BY <3>1, <3>2
  <2>7. QED BY <2>1, <2>3, <2>5, <2>6 DEF Carried
<1>6. QED BY <1>4, <1>5, BytesKept


-----------------------------------------------------------------------------
(* Packets stay whole                                                      *)

\* A step that writes nothing and leaves the packet being written alone, or closes the
\* socket.
LEMMA WholeFrame ==
  ASSUME Whole, UNCHANGED wires,
         Live' => Live /\ sock' = sock /\ current' = current
                    /\ (current # 0 => left'[current] = left[current])
  PROVE  Whole'
<1>1. \A c \in Conns : Ordered(wires'[c]) /\ Complete(wires'[c])
  BY DEF Whole
<1>2. Live' => Progress(wires[sock])'
  BY DEF Whole, Progress
<1>3. QED BY <1>1, <1>2 DEF Whole

\* A packet is taken off the list when all that was written before it is complete.
LEMMA WholeShift ==
  ASSUME QueueTypeOK, Linked, Carried, Whole, Shift,
         UNCHANGED <<wires, sock, call, left>>,
         Live => /\ sock \in Conns
                 /\ \A i \in DOMAIN wires[sock] : Count(wires[sock], wires[sock][i]) = Size
  PROVE  Whole'
<1>1. \A c \in Conns : Ordered(wires'[c]) /\ Complete(wires'[c])
  BY DEF Whole
<1>2. Len(kinds) \in Nat /\ Packets = 1..Len(kinds) /\ Low \in Int /\ Size \in Nat
  BY ListFacts, QueueAssumption
<1>3. ASSUME Live
      PROVE  Progress(wires[sock])'
  <2> DEFINE w == wires[sock]
  <2>1. w \in Seq(Packets) /\ \A i \in DOMAIN w : Count(w, w[i]) = Size
    BY <1>3 DEF QueueTypeOK
  <2>2. \A i \in DOMAIN w : w[i] <= Low /\ w[i] \in Int
    BY <1>2, <1>3, <2>1 DEF Carried
  <2>3. current' = 0 \/ (current' = Low + 1 /\ current' \in Packets)
    BY ShiftEffect
  <2>4. current' # 0 => \A i \in DOMAIN w : w[i] <= current' /\ w[i] # current'
    BY <1>2, <2>2, <2>3
  <2>5. ASSUME current' # 0
        PROVE  Count(w, current') = Size - left[current']
    <3>1. left[current'] = Size
      BY <1>2, <2>3, <2>5 DEF Linked
    <3>2. {i \in DOMAIN w : w[i] = current'} = {}
      BY <2>4, <2>5
    <3>3. Count(w, current') = 0
      BY <3>2, FS_EmptySet DEF Count
    <3>4. QED BY <1>2, <3>1, <3>3
  <2>6. QED BY <2>1, <2>4, <2>5 DEF Progress
<1>4. Live' => Live /\ sock' = sock
  BY DEF Live
<1>5. QED BY <1>1, <1>3, <1>4 DEF Whole

\* net__write adds bytes of the packet being written.
LEMMA WholeWrite ==
  ASSUME QueueTypeOK, Whole, WriteBytes
  PROVE  Whole'
<1>1. /\ sock \in Conns /\ current \in Packets /\ sock # 0 /\ call[Net] = "none"
      /\ UNCHANGED <<current, sock, call>>
  BY WriteTypes
<1>2. Len(kinds) \in Nat /\ Packets = 1..Len(kinds) /\ Size \in Nat /\ current # 0
      /\ current \in Nat
  <2>1. Len(kinds) \in Nat /\ Packets = 1..Len(kinds)
    BY ListFacts
  <2>2. QED BY <1>1, <2>1, QueueAssumption
<1> DEFINE w == wires[sock]
           v == wires'[sock]
<1>3. PICK n \in Nat \ {0} :
        /\ left[current] \in 0..Size /\ left'[current] = left[current] - n
        /\ Len(v) = Len(w) + n
        /\ \A i \in 1..Len(w) : v[i] = w[i]
        /\ \A i \in Len(w) + 1..Len(w) + n : v[i] = current
        /\ w \in Seq(Packets) /\ v \in Seq(Packets)
        /\ \A c \in Conns : c # sock => wires'[c] = wires[c]
  BY WireGrows
<1>4. Progress(w) /\ Ordered(w)
  BY <1>1 DEF Whole, Live
<1>5. /\ Count(v, current) = Count(w, current) + n
      /\ \A q : q # current => Count(v, q) = Count(w, q)
  <2>1. PICK m \in Nat : m = Len(w)
    BY <1>3, LenProperties
  <2>2. /\ DOMAIN w = 1..m /\ DOMAIN v = 1..m + n
        /\ \A i \in 1..m : v[i] = w[i]
        /\ \A i \in m + 1..m + n : v[i] = current
    BY <1>3, <2>1, LenProperties
  <2> HIDE DEF w, v
  <2>3. Count(v, current) = Count(w, current) + n
    BY <2>2, CountGrows
  <2>4. ASSUME NEW q, q # current
        PROVE  Count(v, q) = Count(w, q)
    BY <2>2, <2>4, CountStays
  <2>5. QED BY <2>3, <2>4
<1>6. Len(w) \in Nat /\ DOMAIN w = 1..Len(w) /\ DOMAIN v = 1..Len(w) + n
  BY <1>3, LenProperties
<1>7. \A i \in DOMAIN v :
        \/ i \in DOMAIN w /\ v[i] = w[i]
        \/ i > Len(w) /\ v[i] = current
  BY <1>3, <1>6
<1>8. \A i \in DOMAIN v : v[i] <= current /\ (v[i] # current => Count(v, v[i]) = Size)
  <2>1. ASSUME NEW i \in DOMAIN v, i \in DOMAIN w, v[i] = w[i]
        PROVE  v[i] <= current /\ (v[i] # current => Count(v, v[i]) = Size)
    <3>1. w[i] <= current /\ (w[i] # current => Count(w, w[i]) = Size)
      BY <1>2, <1>4, <2>1 DEF Progress
    <3>2. QED BY <1>5, <2>1, <3>1
  <2>2. current <= current
    BY <1>2
  <2>3. QED BY <1>7, <2>1, <2>2
<1>9. Ordered(v)
  <2>1. SUFFICES ASSUME NEW i \in DOMAIN v, NEW j \in DOMAIN v, i < j
                 PROVE  v[i] <= v[j]
    BY DEF Ordered
  <2>2. CASE j \in DOMAIN w /\ v[j] = w[j]
    <3>1. i \in 1..Len(w)
      BY <1>6, <2>1, <2>2
    <3>2. QED BY <1>3, <1>4, <1>6, <2>1, <2>2, <3>1 DEF Ordered
  <2>3. CASE v[j] = current
    BY <1>8, <2>3
  <2>4. QED BY <1>7, <2>2, <2>3
<1>10. Complete(v)
  <2>1. Len(w) + n \in Len(w) + 1..Len(w) + n
    BY <1>6
  <2>2. Last(v) = current
    BY <1>3, <2>1 DEF Last
  <2>3. QED BY <1>8, <2>2 DEF Complete
<1>11. Count(v, current) = Size - left'[current]
  <2>1. Count(w, current) = Size - left[current]
    BY <1>2, <1>4 DEF Progress
  <2>2. \A a, b \in Int : a - b + n = a - (b - n)
    OBVIOUS
  <2>3. QED BY <1>2, <1>3, <1>5, <2>1, <2>2
<1>12. Progress(wires[sock])'
  BY <1>1, <1>8, <1>11 DEF Progress
<1>13. \A c \in Conns : Ordered(wires'[c]) /\ Complete(wires'[c])
  BY <1>3, <1>9, <1>10 DEF Whole
<1>14. QED BY <1>12, <1>13 DEF Whole

\* The packets of a connection are complete and in order.
LEMMA WholeStep ==
  ASSUME QueueTypeOK, Roles, Linked, Owned, Epochs, Carried, Whole, Epochs', Next
  PROVE  Whole'
<1>1. /\ Net \in Threads /\ conns \in Nat /\ sock \in 0..conns /\ conns \in 0..MaxConns
      /\ Conns = 1..MaxConns /\ MaxConns \in Nat /\ current \in 0..Len(kinds)
  BY QueueAssumption DEF Threads, QueueTypeOK, Conns
<1>2. sock # 0 => sock \in Conns
  BY <1>1
<1>3. Len(kinds) \in Nat /\ Packets = 1..Len(kinds) /\ Size \in Nat
  BY ListFacts, QueueAssumption
<1>4. CASE Moves
  <2>1. UNCHANGED <<wires, current, left, call>> /\ sock' \in {sock, 0}
    BY <1>4, MoveEffect
  <2>2. QED BY <2>1, WholeFrame DEF Live
<1>5. CASE Begins
  <2>1. UNCHANGED <<wires, current, left, sock>> /\ call[Net] = "none"
    BY <1>5, BeginsEffect
  <2>2. QED BY <2>1, WholeFrame DEF Live
<1>6. ASSUME NEW t \in Threads, Calling(t)
      PROVE  Whole'
  <2>1. /\ UNCHANGED <<list, current, kinds, left, wires>>
        /\ \A u \in Threads : u # t => call'[u] = call[u]
    BY <1>6, CallSteps
  <2>2. CASE Open(t)
    <3>1. sock' = conns + 1 /\ conns + 1 \in Conns /\ call[t] = "open"
      BY <1>1, <2>2 DEF Open, At
    <3>2. wires[conns + 1] = <<>>
      BY <1>1, <3>1 DEF Carried
    <3>3. current = 0
      BY <3>1 DEF Epochs
    <3>4. Progress(wires[sock])'
      BY <2>1, <3>1, <3>2, <3>3 DEF Progress
    <3>5. QED BY <2>1, <3>4 DEF Whole
  <2>3. CASE CloseOld(t)
    <3>1. sock' = 0
      BY <2>3 DEF CloseOld
    <3>2. QED BY <2>1, <3>1, WholeFrame DEF Live
  <2>4. CASE ~ Open(t) /\ ~ CloseOld(t)
    <3>1. sock' = sock
      BY <1>6, <2>4 DEF Calling, QueueLast, QueueWake, CleanupLock, OpenFails, Send, Disconnect,
         AppStarts, AppConnect
    <3>2. call[t] # "close"
      BY <1>6, <2>4, CallSteps
    <3>3. call[Net] = "close" => call'[Net] = "close"
      BY <1>1, <2>1, <3>2
    <3>4. QED BY <2>1, <3>1, <3>3, WholeFrame DEF Live
  <2>5. QED BY <2>2, <2>3, <2>4
<1>7. ASSUME NEW t \in Threads, QueueLink(t)
      PROVE  Whole'
  <2>1. /\ UNCHANGED <<wires, current, sock>>
        /\ \A u \in Threads : u # t => call'[u] = call[u]
        /\ call[t] = "queue"
        /\ \A p \in Packets : left'[p] = left[p]
    BY <1>7, LinkEffect
  <2>2. current # 0 => left'[current] = left[current]
    BY <1>1, <1>3, <2>1
  <2>3. call[Net] = "close" => call'[Net] = "close"
    BY <1>1, <2>1
  <2>4. QED BY <2>1, <2>2, <2>3, WholeFrame DEF Live
<1>8. ASSUME NEW t \in Threads, Cleanup(t)
      PROVE  Whole'
  <2>1. /\ call[t] = "clean" /\ call'[t] = "close" /\ UNCHANGED <<wires, sock>>
    BY <1>8, CleanupEffect
  <2>2. t \in {Net, Connector}
    BY <2>1 DEF Roles, Reconnects
  <2>3. t = Connector => conns = 0
    BY <2>1 DEF Roles, Reconnects
  <2>4. ~ Live'
    BY <1>1, <2>1, <2>2, <2>3 DEF Live
  <2>5. QED BY <2>1, <2>4, WholeFrame
<1>9. CASE Shifts
  <2>1. UNCHANGED <<left, wires, call>>
    BY <1>9, ShiftsEffect
  <2>2. CASE WriteEnter /\ current # 0
    <3>1. UNCHANGED <<current, sock>>
      BY <2>2 DEF WriteEnter, ShiftIfNone
    <3>2. QED BY <2>1, <3>1, WholeFrame DEF Live
  <2>3. CASE WriteEnter /\ current = 0
    <3>1. Shift /\ sock' = sock
      BY <2>3 DEF WriteEnter, ShiftIfNone
    <3>2. ASSUME Live
          PROVE  \A i \in DOMAIN wires[sock] : Count(wires[sock], wires[sock][i]) = Size
      <4>1. sock \in Conns /\ Progress(wires[sock])
        BY <1>2, <3>2 DEF Live, Whole
      <4>2. wires[sock] \in Seq(Packets)
        BY <4>1 DEF QueueTypeOK
      <4>3. \A i \in DOMAIN wires[sock] : wires[sock][i] # 0
        BY <1>3, <4>2
      <4>4. QED BY <2>3, <4>1, <4>3 DEF Progress
    <3>3. QED BY <1>2, <2>1, <3>1, <3>2, WholeShift DEF Live
  <2>4. CASE WriteNext
    <3>1. Shift /\ sock' = sock /\ netPc = "advance"
      BY <2>4 DEF WriteNext, NetAt
    <3>2. current # 0 /\ left[current] = 0
      BY <3>1 DEF Owned
    <3>3. ASSUME Live
          PROVE  \A i \in DOMAIN wires[sock] : Count(wires[sock], wires[sock][i]) = Size
      <4>1. Progress(wires[sock])
        BY <3>3 DEF Whole
      <4>2. Count(wires[sock], current) = Size
        BY <1>3, <3>2, <4>1 DEF Progress
      <4>3. QED BY <4>1, <4>2 DEF Progress
    <3>4. QED BY <1>2, <2>1, <3>1, <3>3, WholeShift DEF Live
  <2>5. CASE Hangup
    <3>1. sock' = 0
      BY <2>5 DEF Hangup
    <3>2. QED BY <2>1, <3>1, WholeFrame DEF Live
  <2>6. QED BY Zenon, <1>9, <2>2, <2>3, <2>4, <2>5 DEF Shifts
<1>10. CASE WriteBytes
  BY <1>10, WholeWrite
<1>11. CASE HangupReturns \/ ReadDisconnect
  <2>1. UNCHANGED <<current, left, wires, call, sock>>
    BY <1>11 DEF HangupReturns, ReadDisconnect
  <2>2. QED BY <2>1, WholeFrame DEF Live
<1>12. CASE UNCHANGED vars
  <2>1. UNCHANGED <<current, left, wires, call, sock>>
    BY <1>12 DEF vars
  <2>2. QED BY <2>1, WholeFrame DEF Live
<1>13. QED BY Zenon, <1>4, <1>5, <1>6, <1>7, <1>8, <1>9, <1>10, <1>11, <1>12, StepCases


-----------------------------------------------------------------------------
(* What is lost                                                            *)

\* What is lost can be counted.
LEMMA LostFinite ==
  ASSUME QueueTypeOK
  PROVE  IsFiniteSet(Lost) /\ Cardinality(Lost) \in Nat
<1>1. Packets = 1..Len(kinds) /\ Len(kinds) \in Int
  BY ListFacts
<1>2. IsFiniteSet(Packets)
  BY <1>1, FS_Interval
<1>3. IsFiniteSet(Lost)
  BY <1>2, FS_Subset DEF Lost
<1>4. QED BY <1>3, FS_CardinalityType

\* A step by which no packet is lost and no DISCONNECT begins to be handled.
LEMMA AccountedFrame ==
  ASSUME QueueTypeOK, Accounted, hangups' = hangups,
         \A p \in Packets' : p \in Packets \/ p \in ToSet(list'),
         \A p \in Packets : p \in freed \cup ToSet(list) \cup {current, held}
                              => p \in (freed \cup ToSet(list) \cup {current, held})',
         netPc' = "hangup" /\ held' = 0 => netPc = "hangup" /\ held = 0
  PROVE  Accounted'
<1>1. Lost' \subseteq Lost
  BY DEF Lost
<1>2. IsFiniteSet(Lost)
  BY LostFinite
<1>3. /\ Cardinality(Lost) \in Nat /\ Cardinality(Lost') \in Nat
      /\ Cardinality(Lost') <= Cardinality(Lost)
  BY <1>1, <1>2, FS_Subset, FS_CardinalityType
<1>4. hangups \in Nat
  BY DEF QueueTypeOK
<1>5. Cardinality(Lost') + (IF netPc' = "hangup" /\ held' = 0 THEN 1 ELSE 0) <= hangups'
  BY <1>3, <1>4 DEF Accounted
<1>6. QED BY <1>5 DEF Accounted

\* Taking the head off the list loses at most the packet that was being written.
LEMMA ShiftKeeps ==
  ASSUME QueueTypeOK, Linked, Shift
  PROVE  \A p \in ToSet(list) : p \in ToSet(list') \/ p = current'
<1>1. DOMAIN list = 1..Len(list) /\ Len(list) \in Nat /\ (list = <<>> <=> Len(list) = 0)
  BY ListFacts
<1>2. list' \in Seq(Packets) /\ Len(list') \in Nat /\ DOMAIN list' = 1..Len(list')
  BY ShiftEffect, LenProperties
<1>3. SUFFICES ASSUME NEW i \in 1..Len(list)
               PROVE  list[i] \in ToSet(list') \/ list[i] = current'
  BY <1>1 DEF ToSet
<1>4. list # <<>> /\ Len(list') = Len(list) - 1 /\ current' = Low + 1
  <2>1. list # <<>>
    BY <1>1, <1>3
  <2>2. QED BY <2>1, ShiftEffect
<1>5. CASE i = 1
  BY <1>3, <1>4, <1>5 DEF Linked
<1>6. CASE i # 1
  <2>1. i - 1 \in 1..Len(list') /\ i - 1 + 1 = i
    BY <1>1, <1>3, <1>4, <1>6
  <2>2. list'[i - 1] = list[i - 1 + 1]
    BY <2>1, ShiftEffect
  <2>3. QED BY <1>2, <2>1, <2>2 DEF ToSet
<1>7. QED BY <1>5, <1>6

\* Only a DISCONNECT of the broker makes a packet get lost.
LEMMA AccountedStep ==
  ASSUME QueueTypeOK, Roles, Linked, Owned, Accounted, Next
  PROVE  Accounted'
<1>1. ASSUME UNCHANGED <<kinds, list, freed, current, held, hangups>>,
             netPc' # "hangup" \/ netPc' = netPc
      PROVE  Accounted'
  <2>1. Packets' = Packets
    BY <1>1 DEF Packets
  <2>2. QED BY <1>1, <2>1, AccountedFrame
<1>2. CASE Moves
  BY <1>1, <1>2, MoveEffect
<1>3. CASE Begins
  <2>1. /\ UNCHANGED <<kinds, list, freed, current, hangups>> /\ held = 0
        /\ \/ held' = 0 /\ netPc' \notin {"advance", "hangup"}
           \/ held' = current /\ current # 0
    BY <1>3, BeginsEffect
  <2>2. Packets' = Packets /\ 0 \notin Packets
    BY <2>1, ListFacts DEF Packets
  <2>3. QED BY <2>1, <2>2, AccountedFrame
<1>4. ASSUME NEW t \in Threads, Calling(t)
      PROVE  Accounted'
  <2>1. UNCHANGED <<kinds, list, freed, current, held, hangups>>
    BY <1>4, CallSteps
  <2>2. netPc' \in {netPc, "over", "loop"}
    BY <1>4 DEF Calling, QueueLast, QueueWake, CleanupLock, CloseOld, OpenFails, Open, Send,
       Disconnect, AppStarts, AppConnect, Resumes
  <2>3. QED BY <1>1, <2>1, <2>2
<1>5. ASSUME NEW t \in Threads, QueueLink(t)
      PROVE  Accounted'
  <2>1. /\ Len(kinds') = Len(kinds) + 1 /\ Len(list') = Len(list) + 1
        /\ \A i \in 1..Len(list) : list'[i] = list[i]
        /\ list'[Len(list) + 1] = Len(kinds) + 1
        /\ UNCHANGED <<current, freed, held, netPc, hangups>>
    BY <1>5, LinkEffect
  <2>2. Len(kinds) \in Nat /\ Len(list) \in Nat /\ DOMAIN list = 1..Len(list)
    BY ListFacts
  <2>3. list' = Append(list, Len(kinds) + 1)
    BY <1>5, LinkEffect
  <2>4. DOMAIN list' = 1..Len(list) + 1
    BY <2>1, <2>2, <2>3
  <2>5. Packets = 1..Len(kinds) /\ Packets' = 1..Len(kinds) + 1
    BY <2>1 DEF Packets
  <2>6. Len(kinds) + 1 \in ToSet(list')
    BY <2>1, <2>2, <2>4 DEF ToSet
  <2>7. \A p \in ToSet(list) : p \in ToSet(list')
    BY <2>1, <2>2, <2>4 DEF ToSet
  <2>8. \A p \in Packets' : p \in Packets \/ p \in ToSet(list')
    BY <2>2, <2>5, <2>6
  <2>9. QED BY <2>1, <2>7, <2>8, AccountedFrame
<1>6. ASSUME NEW t \in Threads, Cleanup(t)
      PROVE  Accounted'
  <2>1. /\ freed' = freed \cup ToSet(list) \cup ({current} \ {0})
        /\ UNCHANGED <<kinds, held, netPc, hangups>>
    BY <1>6, CleanupEffect
  <2>2. Packets' = Packets /\ 0 \notin Packets
    BY <2>1, ListFacts DEF Packets
  <2>3. QED BY <2>1, <2>2, AccountedFrame
<1>7. CASE Shifts
  <2>1. UNCHANGED <<kinds, hangups>>
    BY <1>7, ShiftsEffect
  <2>2. Packets' = Packets /\ 0 \notin Packets
    BY <2>1, ListFacts DEF Packets
  <2>3. CASE WriteEnter
    <3>1. UNCHANGED <<freed, held>> /\ netPc' = "writing"
      BY <2>3 DEF WriteEnter
    <3>2. (current = 0 /\ Shift) \/ UNCHANGED <<list, current>>
      BY <2>3 DEF WriteEnter, ShiftIfNone
    <3>3. \A p \in ToSet(list) : p \in ToSet(list') \/ p = current'
      BY <3>2, ShiftKeeps
    <3>4. QED BY <2>1, <2>2, <3>1, <3>2, <3>3, AccountedFrame
  <2>4. CASE WriteNext
    <3>1. freed' = freed \cup {held} /\ netPc' = "writing" /\ netPc = "advance" /\ Shift
      BY <2>4 DEF WriteNext, NetAt
    <3>2. held = current
      BY <3>1 DEF Owned
    <3>3. QED BY <2>1, <2>2, <3>1, <3>2, ShiftKeeps, AccountedFrame
  <2>5. CASE Hangup
    <3>1. UNCHANGED <<freed, held>> /\ netPc = "hangup" /\ netPc' = "unlock" /\ Shift
      BY <2>5 DEF Hangup, NetAt
    <3>2. held \in {0, current}
      BY <3>1 DEF Owned
    <3>3. CASE held # 0
      <4>1. held = current
        BY <3>2, <3>3
      <4>2. QED BY <2>1, <2>2, <3>1, <4>1, ShiftKeeps, AccountedFrame
    <3>4. CASE held = 0
      <4>1. Lost' \subseteq Lost \cup {current}
        BY <2>2, <3>1, <3>4, ShiftKeeps DEF Lost
      <4>2. IsFiniteSet(Lost)
        BY LostFinite
      <4>3. Cardinality(Lost) \in Nat
        BY LostFinite
      <4>4. /\ IsFiniteSet(Lost \cup {current})
            /\ Cardinality(Lost \cup {current}) <= Cardinality(Lost) + 1
            /\ Cardinality(Lost \cup {current}) \in Nat
        BY <4>2, <4>3, FS_AddElement
      <4>5. Cardinality(Lost') \in Nat /\ Cardinality(Lost') <= Cardinality(Lost \cup {current})
        BY <4>1, <4>4, FS_Subset, FS_CardinalityType
      <4>6. Cardinality(Lost) + 1 <= hangups /\ hangups \in Nat
        BY <3>1, <3>4 DEF Accounted, QueueTypeOK
      <4>7. Cardinality(Lost') <= hangups'
        BY <2>1, <4>3, <4>4, <4>5, <4>6
      <4>8. QED BY <2>1, <3>1, <4>5, <4>6, <4>7 DEF Accounted
    <3>5. QED BY <3>3, <3>4
  <2>6. QED BY Zenon, <1>7, <2>3, <2>4, <2>5 DEF Shifts
<1>8. CASE WriteBytes
  BY <1>1, <1>8, WriteTypes
<1>9. CASE HangupReturns
  <2>1. /\ freed' = freed \cup ({held} \ {0}) /\ held' = 0 /\ netPc' = "loop"
        /\ UNCHANGED <<kinds, list, current, hangups>>
    BY <1>9 DEF HangupReturns
  <2>2. Packets' = Packets /\ 0 \notin Packets
    BY <2>1, ListFacts DEF Packets
  <2>3. QED BY <2>1, <2>2, AccountedFrame
<1>10. CASE ReadDisconnect
  <2>1. /\ netPc = "read" /\ hangups' = hangups + 1
        /\ UNCHANGED <<kinds, list, freed, current, held>>
    BY <1>10 DEF ReadDisconnect, NetAt
  <2>2. Lost' = Lost
    BY <2>1 DEF Lost, Packets
  <2>3. Cardinality(Lost) + 0 <= hangups /\ hangups \in Nat
    BY <2>1 DEF Accounted, QueueTypeOK
  <2>4. Cardinality(Lost) \in Nat
    BY LostFinite
  <2>5. Cardinality(Lost) + 1 <= hangups + 1 /\ Cardinality(Lost) + 0 <= hangups + 1
    BY <2>3, <2>4
  <2>6. QED BY <2>1, <2>2, <2>5 DEF Accounted
<1>11. CASE UNCHANGED vars
  <2>1. UNCHANGED <<kinds, list, freed, current, held, hangups, netPc>>
    BY <1>11 DEF vars
  <2>2. QED BY <1>1, <2>1
<1>12. QED BY Zenon, <1>2, <1>3, <1>4, <1>5, <1>6, <1>7, <1>8, <1>9, <1>10, <1>11, StepCases


-----------------------------------------------------------------------------
(* The theorems                                                            *)

\* The invariant holds at the start.
LEMMA InitInv ==
  ASSUME Init
  PROVE  QueueInv
<1>1. /\ list = <<>> /\ last = 0 /\ current = 0 /\ kinds = <<>> /\ left = <<>> /\ freed = {}
      /\ outMutex = Free /\ curMutex = Free
      /\ call = [t \in Threads |-> "none"] /\ draft = [t \in Threads |-> "other"]
      /\ mine = [t \in Threads |-> 0]
      /\ netPc = "waiting" /\ ready = {} /\ held = 0 /\ state = "new" /\ sock = 0 /\ conns = 0
      /\ bytes = 0 /\ wires = [c \in Conns |-> <<>>] /\ born = <<>> /\ epoch = 0 /\ hangups = 0
      /\ early = FALSE /\ asked = 0 /\ appConnects = 0
  BY DEF Init
<1>2. Packets = {} /\ Len(kinds) = 0 /\ Len(list) = 0 /\ Low = 0
  BY <1>1 DEF Packets, Low
<1>3. /\ Net \in Threads /\ Connector \in Threads /\ Free \notin Threads
      /\ {MaxPackets, MaxConns, MaxAppConnects} \subseteq Nat
  BY QueueAssumption DEF Threads
<1>4. QueueTypeOK
  <2>1. list \in Seq(Packets) /\ kinds \in Seq(Kinds) /\ wires \in [Conns -> Seq(Packets)]
    BY <1>1
  <2>2. left \in [Packets -> 0..Size] /\ born \in [Packets -> 0..epoch]
    BY <1>1, <1>2
  <2>3. ContentOK
    BY <1>1, <1>2, <2>1, <2>2 DEF ContentOK
  <2>4. ControlOK
    BY <1>1, <1>2, <1>3 DEF ControlOK, Calls, Kinds, Places, States
  <2>5. QED BY <1>1, <2>3, <2>4, TypeParts
<1>5. Roles
  BY <1>1, <1>3 DEF Roles, Reconnects
<1>6. Watching
  BY <1>1 DEF Watching
<1>7. Linked
  BY <1>1, <1>2, <1>3 DEF Linked
<1>8. Owned
  BY <1>1, <1>2 DEF Owned
<1>9. Epochs
  BY <1>1, <1>2, <1>3 DEF Epochs
<1>10. Carried
  BY <1>1 DEF Carried
<1>11. Whole
  BY <1>1 DEF Whole, Ordered, Complete, Live
<1>12. Accounted
  <2>1. Lost = {}
    BY <1>2 DEF Lost
  <2>2. Cardinality({}) = 0
    BY FS_EmptySet
  <2>3. QED BY <1>1, <2>1, <2>2 DEF Accounted
<1>13. QED BY <1>4, <1>5, <1>6, <1>7, <1>8, <1>9, <1>10, <1>11, <1>12 DEF QueueInv

\* A step in which nothing happens.
LEMMA StutterInv ==
  ASSUME QueueInv, UNCHANGED vars
  PROVE  QueueInv'
<1>1. UNCHANGED <<list, last, current, kinds, left, freed, outMutex, curMutex, call, draft,
                  mine, netPc, ready, held, state, sock, conns, bytes, wires, born, epoch,
                  hangups, early, asked, appConnects>>
  BY DEF vars
<1>2. QueueTypeOK'
  BY <1>1 DEF QueueInv, QueueTypeOK, Packets
<1>3. Roles' /\ Watching' /\ Linked' /\ Owned'
  BY <1>1 DEF QueueInv, Roles, Watching, Linked, Owned, Low, Packets
<1>4. Epochs' /\ Carried' /\ Accounted'
  BY <1>1 DEF QueueInv, Epochs, Carried, Accounted, Lost, Low, Packets
<1>5. Whole'
  BY <1>1, WholeFrame DEF QueueInv, Live
<1>6. QED BY <1>2, <1>3, <1>4, <1>5 DEF QueueInv

\* The invariant, unless the network thread has started before connect was called.
QueueSafe == early \in BOOLEAN /\ (~early => QueueInv)

\* The invariant holds in every state until the network thread starts early: the list, the
\* packet that is being written and the bytes on the wire agree (packet_mosq.c:103-310,
\* connect.c:155-275).
THEOREM QueueInvariant == OneConnect => (Spec => []QueueSafe)
<1> SUFFICES ASSUME OneConnect
             PROVE  Spec => []QueueSafe
  OBVIOUS
<1>1. QueueSafe /\ [Next]_vars => QueueSafe'
  <2>1. ASSUME QueueInv, Next, ~early'
        PROVE  QueueInv'
    <3>1. QueueTypeOK /\ Roles /\ Watching /\ Linked /\ Owned /\ Epochs /\ Carried /\ Whole
            /\ Accounted
      BY <2>1 DEF QueueInv
    <3>2. QueueTypeOK' /\ Watching'
      BY <2>1, <3>1, TypeStep, WatchingStep
    <3>3. Roles' /\ Linked'
      BY <2>1, <3>1, RolesStep, LinkedStep
    <3>4. Owned'
      BY <2>1, <3>1, <3>2, <3>3, OwnedStep
    <3>5. Epochs'
      BY <2>1, <3>1, <3>2, <3>3, EpochsStep
    <3>6. Carried' /\ Whole' /\ Accounted'
      BY <2>1, <3>1, <3>2, <3>5, CarriedStep, WholeStep, AccountedStep
    <3>7. QED BY <3>2, <3>3, <3>4, <3>5, <3>6 DEF QueueInv
  <2>2. ASSUME QueueSafe, Next
        PROVE  QueueSafe'
    <3>1. early' \in BOOLEAN /\ (early => early')
      BY <2>2, EarlyStep DEF QueueSafe
    <3>2. ~early' => QueueInv'
      BY <2>1, <2>2, <3>1 DEF QueueSafe
    <3>3. QED BY <3>1, <3>2 DEF QueueSafe
  <2>3. ASSUME QueueSafe, UNCHANGED vars
        PROVE  QueueSafe'
    <3>1. early' = early
      BY <2>3 DEF vars
    <3>2. QED BY <2>3, <3>1, StutterInv DEF QueueSafe
  <2>4. QED BY <2>2, <2>3
<1>2. Init => QueueSafe
  BY InitInv DEF Init, QueueSafe
<1>3. QED BY <1>1, <1>2, PTL DEF Spec

\* Every variable keeps to its type, unless the network thread has started early.
THEOREM QueueTypeCorrect == OneConnect => (Spec => [](early \/ QueueTypeOK))
<1>1. QueueSafe => early \/ QueueTypeOK
  BY DEF QueueSafe, QueueInv
<1>2. QED BY <1>1, QueueInvariant, PTL

\* No packet is used or freed after it was freed, and packet__queue finds the last packet
\* behind out_packet_last (packet_mosq.c:103-310, connect.c:255-263), unless the network
\* thread has started early.
THEOREM NothingUsedAfterFree == OneConnect => (Spec => [](early \/ NoUseAfterFree))
<1>1. ASSUME QueueSafe, ~early
      PROVE  NoUseAfterFree
  <2>1. QueueTypeOK /\ Linked /\ Owned
    BY <1>1 DEF QueueSafe, QueueInv
  <2>2. /\ Len(kinds) \in Nat /\ Len(list) \in Nat /\ DOMAIN list = 1..Len(list)
        /\ Packets = 1..Len(kinds) /\ (list = <<>> <=> Len(list) = 0)
    BY <2>1, ListFacts
  <2>3. Low = Len(kinds) - Len(list) /\ \A i \in 1..Len(list) : list[i] = Low + i
    BY <2>1 DEF Linked, Low
  <2>4. \A p \in ToSet(list) : p > Low
    BY <2>2, <2>3 DEF ToSet
  <2>5. freed \cap (ToSet(list) \cup {current, held}) = {}
    <3>1. \A p \in freed : p <= Low /\ p \in Int
      BY <2>1, <2>2 DEF Owned, QueueTypeOK
    <3>2. \A p \in freed : p \notin ToSet(list)
      BY <2>2, <2>3, <2>4, <3>1
    <3>3. QED BY <2>1, <3>2 DEF Owned
  <2>6. IsInjective(list)
    BY <2>2, <2>3 DEF IsInjective
  <2>7. current \notin ToSet(list)
    <3>1. current <= Low /\ current \in Int
      BY <2>1, <2>2 DEF Owned, QueueTypeOK
    <3>2. QED BY <2>2, <2>3, <2>4, <3>1
  <2>8. outMutex = Free /\ list # <<>> => last = Last(list)
    BY <2>1, <2>2, <2>3 DEF Linked, Last
  <2>9. QED BY <2>5, <2>6, <2>7, <2>8 DEF NoUseAfterFree
<1>2. QueueSafe => early \/ NoUseAfterFree
  BY <1>1
<1>3. QED BY <1>2, QueueInvariant, PTL

\* A connection carries only what was queued after the cleanup it began with
\* (connect.c:172-199), unless the network thread has started early, which the property says.
THEOREM ConnectionsSeparate == OneConnect => (Spec => []NothingCarriedOver)
<1>1. ASSUME QueueSafe, ~early
      PROVE  NothingCarriedOver
  <2>1. SUFFICES ASSUME NEW c \in Conns, NEW p \in Packets, Written(c, p) > 0
                 PROVE  born[p] = c
    BY DEF NothingCarriedOver
  <2>2. {i \in DOMAIN wires[c] : wires[c][i] = p} # {}
    <3>1. Cardinality({}) = 0
      BY FS_EmptySet
    <3>2. QED BY <2>1, <3>1 DEF Written
  <2>3. PICK i \in DOMAIN wires[c] : wires[c][i] = p
    BY <2>2
  <2>4. QED BY <1>1, <2>3 DEF QueueSafe, QueueInv, Carried
<1>2. early => NothingCarriedOver
  BY DEF NothingCarriedOver
<1>3. QED BY <1>1, <1>2, QueueInvariant, PTL

\* The bytes of a connection are packets in the order in which they were queued, each
\* complete before the next one begins (packet_mosq.c:202-310), with the same exception.
THEOREM PacketsStayWhole == OneConnect => (Spec => []PacketsWhole)
<1>1. ASSUME QueueSafe, ~early
      PROVE  PacketsWhole
  <2>1. \A c \in Conns : Ordered(wires[c]) /\ Complete(wires[c])
    BY <1>1 DEF QueueSafe, QueueInv, Whole
  <2>2. \A c, p : Written(c, p) = Count(wires[c], p)
    BY DEF Written, Count
  <2>3. QED BY <2>1, <2>2 DEF PacketsWhole, Ordered, Complete
<1>2. early => PacketsWhole
  BY DEF PacketsWhole
<1>3. QED BY <1>1, <1>2, QueueInvariant, PTL

\* At most one packet is lost for each DISCONNECT of the broker
\* (handle_disconnect.c:56, connect.c:255-263), unless the network thread has started early.
THEOREM LeaksBounded == OneConnect => (Spec => [](early \/ LeakBounded))
<1>1. ASSUME QueueSafe, ~early
      PROVE  LeakBounded
  <2>1. Cardinality(Lost) + (IF netPc = "hangup" /\ held = 0 THEN 1 ELSE 0) <= hangups
    BY <1>1 DEF QueueSafe, QueueInv, Accounted
  <2>2. Cardinality(Lost) \in Nat /\ hangups \in Nat
    BY <1>1, LostFinite DEF QueueSafe, QueueInv, QueueTypeOK
  <2>3. Cardinality(Lost) <= hangups
    BY <2>1, <2>2
  <2>4. QED BY <2>3 DEF LeakBounded, Lost
<1>2. QueueSafe => early \/ LeakBounded
  BY <1>1
<1>3. QED BY <1>1, <1>2, QueueInvariant, PTL

=============================================================================
