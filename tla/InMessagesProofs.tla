-------------------------- MODULE InMessagesProofs --------------------------
(***************************************************************************)
(* Proofs about InMessages, for any number of messages, identifiers and    *)
(* lost connections and any receive maximum.                               *)
(***************************************************************************)
EXTENDS InMessages, SequenceLemmas, FiniteSetTheorems, TLAPS

-----------------------------------------------------------------------------
(* How many entries of a list belong to a message                          *)

At(s, id) == {i \in DOMAIN s : s[i].id = id}

\* The entries of a message are finitely many.
LEMMA AtFinite ==
  ASSUME NEW S, NEW s \in Seq(S), NEW id
  PROVE  IsFiniteSet(At(s, id)) /\ Cardinality(At(s, id)) \in Nat
<1>1. DOMAIN s = 1..Len(s) /\ Len(s) \in Nat
  BY LenProperties
<1>2. IsFiniteSet(1..Len(s))
  BY <1>1, FS_Interval
<1>3. At(s, id) \in SUBSET (1..Len(s))
  BY <1>1 DEF At
<1>4. IsFiniteSet(At(s, id))
  BY <1>2, <1>3, FS_Subset
<1>5. QED BY <1>4, FS_CardinalityType

\* message__queue adds one entry, to one message.
LEMMA AppendCount ==
  ASSUME NEW S, NEW s \in Seq(S), NEW e \in S, NEW id
  PROVE  Cardinality(At(Append(s, e), id)) =
           Cardinality(At(s, id)) + IF e.id = id THEN 1 ELSE 0
<1> DEFINE t == Append(s, e)
           n == Len(s) + 1
<1>1. DOMAIN s = 1..Len(s) /\ Len(s) \in Nat
  BY LenProperties
<1>2. /\ t \in Seq(S) /\ Len(t) = n /\ t[n] = e
      /\ \A i \in 1..Len(s) : t[i] = s[i]
  BY AppendProperties
<1>3. DOMAIN t = 1..n
  BY <1>2, LenProperties
<1> HIDE DEF t
<1>4. IsFiniteSet(At(s, id)) /\ Cardinality(At(s, id)) \in Nat
  BY AtFinite
<1>5. n \notin At(s, id)
  BY <1>1 DEF At
<1>6. CASE e.id = id
  <2>1. At(t, id) = At(s, id) \cup {n}
    BY <1>1, <1>2, <1>3, <1>6 DEF At
  <2>2. QED BY <1>4, <1>5, <1>6, <2>1, FS_AddElement DEF t
<1>7. CASE e.id # id
  <2>1. At(t, id) = At(s, id)
    BY <1>1, <1>2, <1>3, <1>7 DEF At
  <2>2. QED BY <1>4, <1>7, <2>1 DEF t
<1>8. QED BY <1>6, <1>7

\* message__remove takes one entry, of one message.
LEMMA RemoveCount ==
  ASSUME NEW S, NEW s \in Seq(S), NEW i \in DOMAIN s, NEW id
  PROVE  Cardinality(At(s, id)) =
           Cardinality(At(RemoveAt(s, i), id)) + IF s[i].id = id THEN 1 ELSE 0
<1> DEFINE t == RemoveAt(s, i)
           f == [j \in At(t, id) |-> IF j < i THEN j ELSE j + 1]
<1>1. DOMAIN s = 1..Len(s) /\ Len(s) \in Nat /\ i \in 1..Len(s)
  BY LenProperties
<1>2. /\ t \in Seq(S) /\ Len(t) = Len(s) - 1
      /\ \A j \in 1..Len(s) - 1 : t[j] = IF j < i THEN s[j] ELSE s[j + 1]
  BY RemoveEntry
<1>3. DOMAIN t = 1..Len(s) - 1
  BY <1>2, LenProperties
<1>4. /\ IsFiniteSet(At(s, id)) /\ Cardinality(At(s, id)) \in Nat
      /\ IsFiniteSet(At(t, id)) /\ Cardinality(At(t, id)) \in Nat
  BY <1>2, AtFinite
<1> HIDE DEF t
<1>5. ASSUME NEW j \in At(t, id)
      PROVE  f[j] \in At(s, id) \ {i}
  <2>1. j \in 1..Len(s) - 1 /\ t[j].id = id
    BY <1>3 DEF At
  <2>2. CASE j < i
    BY <1>1, <1>2, <2>1, <2>2 DEF At
  <2>3. CASE ~(j < i)
    BY <1>1, <1>2, <2>1, <2>3 DEF At
  <2>4. QED BY <2>2, <2>3
<1>6. ASSUME NEW j \in At(t, id), NEW k \in At(t, id), f[j] = f[k]
      PROVE  j = k
  <2>1. j \in Int /\ k \in Int /\ i \in Int
    BY <1>1, <1>3 DEF At
  <2>2. QED BY <1>6, <2>1
<1>7. ASSUME NEW k \in At(s, id) \ {i}
      PROVE  \E j \in At(t, id) : f[j] = k
  <2>1. k \in 1..Len(s) /\ s[k].id = id /\ k # i
    BY <1>1 DEF At
  <2>2. CASE k < i
    <3>1. k \in 1..Len(s) - 1 /\ t[k].id = id
      BY <1>1, <1>2, <2>1, <2>2
    <3>2. k \in At(t, id)
      BY <1>3, <3>1 DEF At
    <3>3. f[k] = k
      BY <2>2, <3>2
    <3>4. QED BY <3>2, <3>3
  <2>3. CASE ~(k < i)
    <3>1. k - 1 \in 1..Len(s) - 1 /\ ~(k - 1 < i) /\ (k - 1) + 1 = k
      BY <1>1, <2>1, <2>3
    <3>2. k - 1 \in At(t, id)
      BY <1>2, <1>3, <2>1, <3>1 DEF At
    <3>3. f[k - 1] = k
      BY <3>1, <3>2
    <3>4. QED BY <3>2, <3>3
  <2>4. QED BY <2>2, <2>3
<1>8. f \in Bijection(At(t, id), At(s, id) \ {i})
  <2>1. f \in [At(t, id) -> At(s, id) \ {i}]
    BY <1>5
  <2> HIDE DEF f
  <2>2. f \in Injection(At(t, id), At(s, id) \ {i})
    BY <1>6, <2>1 DEF Injection, IsInjective
  <2>3. f \in Surjection(At(t, id), At(s, id) \ {i})
    BY <1>7, <2>1 DEF Surjection
  <2>4. QED BY <2>2, <2>3 DEF Bijection
<1>9. Cardinality(At(s, id) \ {i}) = Cardinality(At(t, id))
  BY <1>4, <1>8, FS_Bijection DEF ExistsBijection
<1>10. Cardinality(At(s, id) \ {i}) =
         IF s[i].id = id THEN Cardinality(At(s, id)) - 1 ELSE Cardinality(At(s, id))
  BY <1>4, FS_RemoveElement DEF At
<1>11. QED BY <1>4, <1>9, <1>10 DEF t

-----------------------------------------------------------------------------
(* Types                                                                   *)

USE DEF vars, listVars, sessionVars, ghostVars

\* The packets the two ends make.
LEMMA PacketTypes ==
  /\ \A id \in Ids : PublishPacket(id, 0, 0) \in PublishPackets
  /\ \A id \in Ids, mid \in Mids, qos \in {1, 2} :
       PublishPacket(id, mid, qos) \in PublishPackets
  /\ \A type \in {"CONNECT", "CONNACK", "PUBACK", "PUBREC", "PUBREL", "PUBCOMP"},
        mid \in 0..MaxMid : Command(type, mid) \in Commands
  /\ Connect \in Commands /\ Connack \in Commands
<1>1. 0 \in 0..MaxMid
  BY InAssumption
<1>2. /\ \A id \in Ids : PublishPacket(id, 0, 0) \in PublishPackets
      /\ \A id \in Ids, mid \in Mids, qos \in {1, 2} :
           PublishPacket(id, mid, qos) \in PublishPackets
  BY DEF PublishPacket, PublishPackets
<1>3. \A type \in {"CONNECT", "CONNACK", "PUBACK", "PUBREC", "PUBREL", "PUBCOMP"},
         mid \in 0..MaxMid : Command(type, mid) \in Commands
  BY DEF Command, Commands
<1>4. QED BY <1>1, <1>2, <1>3 DEF Connect, Connack

\* A packet at the head of the channel is of the type its handler was chosen for.
LEMMA HeadTypes ==
  ASSUME toClient \in Seq(PublishPackets \cup Commands), toClient # <<>>
  PROVE  /\ Tail(toClient) \in Seq(PublishPackets \cup Commands)
         /\ Head(toClient).mid \in 0..MaxMid
         /\ Head(toClient).type = "PUBLISH" =>
              /\ Head(toClient).id \in Ids
              /\ Head(toClient).qos = 2 => Head(toClient).mid \in Mids
<1>1. /\ Head(toClient) \in PublishPackets \cup Commands
      /\ Tail(toClient) \in Seq(PublishPackets \cup Commands)
  BY HeadTailProperties
<1>2. Head(toClient).mid \in 0..MaxMid
  BY <1>1, InAssumption DEF PublishPackets, Commands, Mids
<1>3. ASSUME Head(toClient).type = "PUBLISH"
      PROVE  /\ Head(toClient).id \in Ids
             /\ Head(toClient).qos = 2 => Head(toClient).mid \in Mids
  BY <1>1, <1>3 DEF PublishPackets, Commands
<1>4. QED BY <1>1, <1>2, <1>3

\* send__command_with_mid queues a command for the broker.
LEMMA ReplyType ==
  ASSUME toBroker \in Seq(Commands), NEW mid \in 0..MaxMid,
         NEW type \in {"PUBACK", "PUBREC", "PUBCOMP"}, Reply(type, mid)
  PROVE  toBroker' \in Seq(Commands)
<1>1. Command(type, mid) \in Commands
  BY PacketTypes
<1>2. QED BY <1>1, AppendProperties DEF Reply

\* The increment and the decrement of the receive quota keep it within its bounds.
LEMMA QuotaBounds ==
  ASSUME NEW q \in Nat, q <= ReceiveMaximum
  PROVE  /\ Credited(q) \in Nat /\ Credited(q) <= ReceiveMaximum /\ Credited(q) >= q
         /\ Credited(q) = q => q = ReceiveMaximum
         /\ Charged(q) \in Nat /\ Charged(q) <= q /\ Charged(q) >= q - 1
         /\ Credited(q) <= q + 1
         /\ q > 0 => Charged(q) = q - 1
  BY InAssumption DEF Credited, Charged

\* One more for a message is a count still.
LEMMA CountType ==
  ASSUME NEW f \in [Ids -> Nat], NEW id \in Ids
  PROVE  /\ [f EXCEPT ![id] = @ + 1] \in [Ids -> Nat]
         /\ \A m \in Ids : [f EXCEPT ![id] = @ + 1][m] =
                             f[m] + IF m = id THEN 1 ELSE 0
  OBVIOUS

-----------------------------------------------------------------------------
(* The invariant                                                           *)

InInv == InTypeOK /\ ReceiveQuotaKept /\ EveryCopyOnce

\* The first state satisfies the invariant.
LEMMA InInvInit == Init => InInv
<1> SUFFICES ASSUME Init PROVE InInv
  OBVIOUS
<1>1. InTypeOK
  <2> USE InAssumption DEF Init
  <2>1. /\ list \in Seq(Entry) /\ session \in Seq(Message) /\ toBroker \in Seq(Commands)
        /\ toClient \in Seq(PublishPackets \cup Commands)
    OBVIOUS
  <2>2. received \in [Ids -> Nat] /\ callbacks \in [Ids -> Nat]
    OBVIOUS
  <2>3. /\ queueLen \in Nat /\ quota \in Nat /\ link \in {"down", "connected", "active"}
        /\ begun \in 0..MaxMessages /\ done \subseteq Ids /\ losses \in 0..MaxLosses
    OBVIOUS
  <2>4. refused \in BOOLEAN
    OBVIOUS
  <2>5. QED BY <2>1, <2>2, <2>3, <2>4 DEF InTypeOK
<1>2. ReceiveQuotaKept
  BY InAssumption DEF Init, ReceiveQuotaKept
<1>3. EveryCopyOnce
  <2>1. \A id : {i \in DOMAIN list : list[i].id = id} = {}
    BY DEF Init
  <2>2. \A id \in Ids : Copies(id) = 0
    BY <2>1, FS_EmptySet DEF Copies
  <2>3. QED BY <2>2 DEF Init, EveryCopyOnce
<1>4. QED BY <1>1, <1>2, <1>3 DEF InInv

\* Steps that leave msgs_in and the two counts alone keep what the invariant says of them.
LEMMA ListUnchanged ==
  ASSUME InInv, UNCHANGED <<list, queueLen, quota, received, callbacks>>
  PROVE  ReceiveQuotaKept' /\ EveryCopyOnce'
  BY DEF InInv, ReceiveQuotaKept, EveryCopyOnce, Copies

\* message__reconnect_reset counts the list and charges the quota for it.
LEMMA ReconnectInv ==
  ASSUME InInv, Reconnect
  PROVE  InInv'
<1> USE DEF Reconnect
<1>1. list' = list /\ Len(list) \in Nat /\ queueLen' = Len(list)
  BY LenProperties DEF InInv, InTypeOK, KeptList
<1>2. quota' \in Nat /\ quota' <= ReceiveMaximum /\ quota' + Len(list) >= ReceiveMaximum
  BY <1>1, InAssumption DEF QuotaAfterReset
<1>3. toBroker' \in Seq(Commands)
  BY PacketTypes
<1>4. InTypeOK'
  BY <1>1, <1>2, <1>3 DEF InInv, InTypeOK
<1>5. ReceiveQuotaKept'
  BY <1>1, <1>2 DEF ReceiveQuotaKept
<1>6. EveryCopyOnce'
  BY <1>1 DEF InInv, EveryCopyOnce, Copies
<1>7. QED BY <1>4, <1>5, <1>6 DEF InInv

\* A CONNACK, a refusal and a lost connection leave msgs_in alone.
LEMMA LinkInv ==
  ASSUME InInv, Accepted \/ PublishRefused \/ Lose
  PROVE  InInv'
<1>1. UNCHANGED <<list, queueLen, quota, received, callbacks, session, begun, done>>
  BY DEF Accepted, PublishRefused, Lose
<1>2. /\ link' \in {"down", "connected", "active"}
      /\ refused' \in BOOLEAN
  BY DEF InInv, InTypeOK, Accepted, PublishRefused, Lose, Closed
<1>3. losses' \in 0..MaxLosses
  BY InAssumption DEF InInv, InTypeOK, Accepted, PublishRefused, Lose
<1>4. /\ toClient' \in Seq(PublishPackets \cup Commands)
      /\ toBroker' \in Seq(Commands)
  <2>1. CASE Accepted
    BY <2>1, HeadTypes DEF InInv, InTypeOK, Accepted, Packet
  <2>2. CASE Closed
    BY <2>2 DEF Closed
  <2>3. QED BY <2>1, <2>2 DEF PublishRefused, Lose
<1>5. InTypeOK'
  BY <1>1, <1>2, <1>3, <1>4 DEF InInv, InTypeOK
<1>6. QED BY <1>1, <1>5, ListUnchanged DEF InInv

\* QoS 0 and QoS 1: a PUBLISH is delivered at once, and its charge is given back.
LEMMA PublishDeliversInv ==
  ASSUME InInv, PublishDelivers
  PROVE  InInv'
<1> DEFINE p == Head(toClient)
<1>1. /\ Tail(toClient) \in Seq(PublishPackets \cup Commands)
      /\ p.id \in Ids /\ p.mid \in 0..MaxMid
  BY HeadTypes DEF InInv, InTypeOK, PublishDelivers, Packet
<1> HIDE DEF p
<1>2. /\ UNCHANGED <<list, queueLen, link, session, begun, done, refused, losses>>
      /\ toClient' = Tail(toClient)
      /\ \/ UNCHANGED <<quota, toBroker>>
         \/ quota > 0 /\ quota' = Credited(Charged(quota)) /\ Reply("PUBACK", p.mid)
      /\ received' = [received EXCEPT ![p.id] = @ + 1]
      /\ callbacks' = [callbacks EXCEPT ![p.id] = @ + 1]
  BY DEF PublishDelivers, Count, Admits, p
<1>3. quota \in Nat /\ quota <= ReceiveMaximum
  BY DEF InInv, InTypeOK, ReceiveQuotaKept
<1>4. quota' = quota
  BY <1>2, <1>3, InAssumption DEF Credited, Charged
<1>5. toBroker' \in Seq(Commands)
  BY <1>1, <1>2, ReplyType DEF InInv, InTypeOK
<1>6. /\ received' \in [Ids -> Nat] /\ callbacks' \in [Ids -> Nat]
      /\ \A m \in Ids : /\ received'[m] = received[m] + IF m = p.id THEN 1 ELSE 0
                        /\ callbacks'[m] = callbacks[m] + IF m = p.id THEN 1 ELSE 0
  BY <1>1, <1>2, CountType DEF InInv, InTypeOK
<1>7. InTypeOK'
  BY <1>1, <1>2, <1>4, <1>5, <1>6 DEF InInv, InTypeOK
<1>8. ReceiveQuotaKept'
  BY <1>2, <1>4 DEF InInv, ReceiveQuotaKept
<1>9. EveryCopyOnce'
  <2> SUFFICES ASSUME NEW m \in Ids PROVE received'[m] = callbacks'[m] + Copies(m)'
    BY DEF EveryCopyOnce
  <2>1. Copies(m)' = Copies(m)
    BY <1>2 DEF Copies
  <2>2. Cardinality(At(list, m)) \in Nat
    BY AtFinite DEF InInv, InTypeOK
  <2>3. Copies(m) \in Nat
    BY <2>2 DEF Copies, At
  <2>4. callbacks[m] \in Nat /\ received[m] = callbacks[m] + Copies(m)
    BY DEF InInv, InTypeOK, EveryCopyOnce
  <2>5. QED BY <1>6, <2>1, <2>3, <2>4
<1>10. QED BY <1>7, <1>8, <1>9 DEF InInv

\* QoS 2: a PUBLISH takes a unit of the quota and one entry of the list.
LEMMA PublishStoresInv ==
  ASSUME InInv, PublishStores
  PROVE  InInv'
<1> DEFINE p == Head(toClient)
           e == [id |-> p.id, mid |-> p.mid]
<1>1. /\ UNCHANGED <<link, session, begun, done, callbacks, refused, losses>>
      /\ toClient' = Tail(toClient)
      /\ quota > 0 /\ quota' = Charged(quota) /\ Reply("PUBREC", p.mid)
      /\ list' = Append(list, e) /\ queueLen' = queueLen + 1
      /\ received' = [received EXCEPT ![p.id] = @ + 1]
  BY DEF PublishStores, Count, Admits
<1>2. /\ Tail(toClient) \in Seq(PublishPackets \cup Commands)
      /\ p.id \in Ids /\ p.mid \in Mids /\ p.mid \in 0..MaxMid
  BY HeadTypes DEF InInv, InTypeOK, PublishStores, Packet
<1>3. e \in Entry /\ e.id = p.id
  BY <1>2 DEF Entry
<1> HIDE DEF p, e
<1>4. /\ list \in Seq(Entry) /\ Len(list) \in Nat /\ queueLen = Len(list)
      /\ quota \in Nat /\ quota <= ReceiveMaximum
      /\ quota + Len(list) >= ReceiveMaximum
  BY LenProperties DEF InInv, InTypeOK, ReceiveQuotaKept
<1>5. list' \in Seq(Entry) /\ Len(list') = Len(list) + 1
  BY <1>1, <1>3, <1>4, AppendProperties
<1>6. quota' \in Nat /\ quota' = quota - 1
  BY <1>1, <1>4 DEF Charged
<1>7. toBroker' \in Seq(Commands)
  BY <1>1, <1>2, ReplyType DEF InInv, InTypeOK
<1>8. /\ received' \in [Ids -> Nat]
      /\ \A m \in Ids : received'[m] = received[m] + IF m = p.id THEN 1 ELSE 0
  BY <1>1, <1>2, CountType DEF InInv, InTypeOK
<1>9. InTypeOK'
  BY SMTT(30), <1>1, <1>2, <1>4, <1>5, <1>6, <1>7, <1>8 DEF InInv, InTypeOK
<1>10. ReceiveQuotaKept'
  BY <1>1, <1>4, <1>5, <1>6, InAssumption DEF ReceiveQuotaKept
<1>11. EveryCopyOnce'
  <2> SUFFICES ASSUME NEW m \in Ids PROVE received'[m] = callbacks'[m] + Copies(m)'
    BY DEF EveryCopyOnce
  <2>1. Cardinality(At(Append(list, e), m)) =
          Cardinality(At(list, m)) + IF e.id = m THEN 1 ELSE 0
    BY <1>3, <1>4, AppendCount
  <2>2. Copies(m)' = Copies(m) + IF p.id = m THEN 1 ELSE 0
    BY <1>1, <1>3, <2>1 DEF Copies, At
  <2>3. Cardinality(At(list, m)) \in Nat
    BY <1>4, AtFinite
  <2>4. Copies(m) \in Nat
    BY <2>3 DEF Copies, At
  <2>5. callbacks[m] \in Nat /\ received[m] = callbacks[m] + Copies(m)
    BY DEF InInv, InTypeOK, EveryCopyOnce
  <2>6. QED BY <1>1, <1>8, <2>2, <2>4, <2>5
<1>12. QED BY <1>9, <1>10, <1>11 DEF InInv

\* A PUBREL that finds its message moves a copy from the list to on_message_v5.
LEMMA TakenInv ==
  ASSUME InInv, NEW i \in DOMAIN list, Taken(i), Count(callbacks, list[i].id),
         UNCHANGED <<received>>
  PROVE  /\ list' \in Seq(Entry) /\ Len(list') = Len(list) - 1
         /\ queueLen' = Len(list') /\ queueLen' \in Nat
         /\ callbacks' \in [Ids -> Nat]
         /\ EveryCopyOnce'
<1>1. /\ list \in Seq(Entry) /\ queueLen = Len(list)
      /\ list' = RemoveAt(list, i) /\ queueLen' = queueLen - 1
      /\ callbacks' = [callbacks EXCEPT ![list[i].id] = @ + 1]
  BY DEF InInv, InTypeOK, ReceiveQuotaKept, Taken, Count
<1>2. /\ DOMAIN list = 1..Len(list) /\ Len(list) \in Nat /\ i \in 1..Len(list)
      /\ list[i] \in Entry
  BY <1>1, LenProperties, ElementOfSeq
<1>3. list[i].id \in Ids
  BY <1>2 DEF Entry
<1>4. list' \in Seq(Entry) /\ Len(list') = Len(list) - 1
  BY <1>1, RemoveEntry
<1>5. queueLen' = Len(list') /\ queueLen' \in Nat
  BY <1>1, <1>2, <1>4
<1>6. /\ callbacks' \in [Ids -> Nat]
      /\ \A m \in Ids : callbacks'[m] = callbacks[m] + IF m = list[i].id THEN 1 ELSE 0
  BY <1>1, <1>3, CountType DEF InInv, InTypeOK
<1>7. EveryCopyOnce'
  <2> SUFFICES ASSUME NEW m \in Ids PROVE received'[m] = callbacks'[m] + Copies(m)'
    BY DEF EveryCopyOnce
  <2>1. Cardinality(At(list, m)) =
          Cardinality(At(RemoveAt(list, i), m)) + IF list[i].id = m THEN 1 ELSE 0
    BY <1>1, RemoveCount
  <2>2. Copies(m) = Copies(m)' + IF list[i].id = m THEN 1 ELSE 0
    BY <1>1, <2>1 DEF Copies, At
  <2>3. Cardinality(At(list', m)) \in Nat
    BY <1>4, AtFinite
  <2>4. Copies(m)' \in Nat
    BY <2>3 DEF Copies, At
  <2>5. callbacks[m] \in Nat /\ received[m] = callbacks[m] + Copies(m)
    BY DEF InInv, InTypeOK, EveryCopyOnce
  <2>6. QED BY <1>6, <2>2, <2>4, <2>5
<1>8. QED BY <1>4, <1>5, <1>6, <1>7

\* PUBREL: a unit of the quota comes back, and an entry leaves the list or there is none.
LEMMA PubrelInv ==
  ASSUME InInv, Pubrel
  PROVE  InInv'
<1> DEFINE mid == Head(toClient).mid
<1>1. /\ UNCHANGED <<link, session, begun, done, received, refused, losses>>
      /\ toClient' = Tail(toClient)
      /\ quota' = Credited(quota) /\ Reply("PUBCOMP", mid)
      /\ \/ \E i \in DOMAIN list : Taken(i) /\ Count(callbacks, list[i].id)
         \/ UNCHANGED <<list, queueLen, callbacks>>
  BY DEF Pubrel, Complete
<1>2. Tail(toClient) \in Seq(PublishPackets \cup Commands) /\ mid \in 0..MaxMid
  BY HeadTypes DEF InInv, InTypeOK, Pubrel, Packet
<1> HIDE DEF mid
<1>3. toBroker' \in Seq(Commands)
  BY <1>1, <1>2, ReplyType DEF InInv, InTypeOK
<1>4. /\ Len(list) \in Nat /\ queueLen = Len(list)
      /\ quota \in Nat /\ quota <= ReceiveMaximum
      /\ quota + Len(list) >= ReceiveMaximum
  BY LenProperties DEF InInv, InTypeOK, ReceiveQuotaKept
<1>5. /\ quota' \in Nat /\ quota' <= ReceiveMaximum
      /\ quota' = quota + 1 \/ quota' = ReceiveMaximum
      /\ quota' >= quota
  BY <1>1, <1>4, InAssumption DEF Credited
<1>6. /\ list' \in Seq(Entry) /\ Len(list') \in {Len(list), Len(list) - 1}
      /\ queueLen' = Len(list') /\ queueLen' \in Nat
      /\ Len(list') = Len(list) - 1 => Len(list) > 0
      /\ callbacks' \in [Ids -> Nat]
      /\ EveryCopyOnce'
  <2>1. CASE \E i \in DOMAIN list : Taken(i) /\ Count(callbacks, list[i].id)
    <3>1. PICK i \in DOMAIN list : Taken(i) /\ Count(callbacks, list[i].id)
      BY <2>1
    <3>2. UNCHANGED <<received>>
      BY <1>1
    <3>3. QED BY <1>4, <3>1, <3>2, TakenInv
  <2>2. CASE UNCHANGED <<list, queueLen, callbacks>>
    BY <1>1, <1>4, <2>2 DEF InInv, InTypeOK, EveryCopyOnce, Copies
  <2>3. QED BY <1>1, <2>1, <2>2
<1>7. InTypeOK'
  BY <1>1, <1>2, <1>3, <1>5, <1>6 DEF InInv, InTypeOK
<1>8. quota' + Len(list') >= ReceiveMaximum
  <2>1. Len(list') \in Nat
    BY <1>6
  <2>2. QED BY <1>4, <1>5, <1>6, <2>1, InAssumption
<1>9. ReceiveQuotaKept'
  BY <1>5, <1>6, <1>8 DEF ReceiveQuotaKept
<1>10. QED BY <1>6, <1>7, <1>9 DEF InInv

\* The broker repeats its session on a new connection.
LEMMA BrokerConnectInv ==
  ASSUME InInv, BrokerConnect
  PROVE  InInv'
<1>1. /\ UNCHANGED <<list, queueLen, quota, link, begun, done, received, callbacks,
                     refused, losses>>
      /\ toBroker' = Tail(toBroker) /\ toBroker # <<>>
      /\ \/ /\ toClient' = <<Connack>> \o [i \in DOMAIN session |-> Again(session[i])]
            /\ session' = session
         \/ toClient' = <<Connack>> /\ session' = <<>>
  BY DEF BrokerConnect
<1>2. toBroker' \in Seq(Commands)
  BY <1>1, HeadTailProperties DEF InInv, InTypeOK
<1>3. session' \in Seq(Message)
  <2>1. session' = session \/ session' = <<>>
    BY <1>1
  <2>2. session \in Seq(Message) /\ <<>> \in Seq(Message)
    BY EmptySeq DEF InInv, InTypeOK
  <2>3. QED BY <2>1, <2>2
<1>4. <<Connack>> \in Seq(PublishPackets \cup Commands)
  <2>1. Connack \in PublishPackets \cup Commands
    BY PacketTypes
  <2> HIDE DEF Connack
  <2>2. QED BY <2>1
<1>5. [i \in DOMAIN session |-> Again(session[i])] \in Seq(PublishPackets \cup Commands)
  <2>1. /\ session \in Seq(Message) /\ Len(session) \in Nat
        /\ DOMAIN session = 1..Len(session)
    BY LenProperties DEF InInv, InTypeOK
  <2>2. ASSUME NEW i \in 1..Len(session)
        PROVE  Again(session[i]) \in PublishPackets \cup Commands
    <3>1. session[i] \in Message
      BY <2>1, ElementOfSeq
    <3>2. /\ session[i].id \in Ids /\ session[i].mid \in Mids
          /\ session[i].qos \in {1, 2} /\ session[i].mid \in 0..MaxMid
      BY <3>1, InAssumption DEF Message, Mids
    <3>3. QED BY <3>2, PacketTypes DEF Again
  <2>3. QED BY <2>1, <2>2
<1>6. toClient' \in Seq(PublishPackets \cup Commands)
  BY <1>1, <1>4, <1>5, ConcatProperties
<1>7. InTypeOK'
  BY <1>1, <1>2, <1>3, <1>6 DEF InInv, InTypeOK
<1>8. QED BY <1>1, <1>7, ListUnchanged DEF InInv

\* The broker sends a new message.
LEMMA BrokerSendInv ==
  ASSUME InInv, BrokerSend
  PROVE  InInv'
<1>1. /\ UNCHANGED <<list, queueLen, quota, link, toBroker, done, received, callbacks,
                     refused, losses>>
      /\ begun < MaxMessages /\ begun' = begun + 1
  BY DEF BrokerSend
<1>2. begun' \in 0..MaxMessages /\ begun + 1 \in Ids
  BY <1>1, InAssumption DEF InInv, InTypeOK, Ids
<1>3. /\ toClient' \in Seq(PublishPackets \cup Commands)
      /\ session' \in Seq(Message)
  <2>1. CASE /\ toClient' = Append(toClient, PublishPacket(begun + 1, 0, 0))
             /\ UNCHANGED session
    <3>1. PublishPacket(begun + 1, 0, 0) \in PublishPackets \cup Commands
      BY <1>2, PacketTypes
    <3>2. QED BY <2>1, <3>1, AppendProperties DEF InInv, InTypeOK
  <2>2. ASSUME NEW qos \in Levels \ {0}, NEW mid \in Mids,
               session' = Append(session, [id |-> begun + 1, mid |-> mid, qos |-> qos,
                                           phase |-> "publish"]),
               toClient' = Append(toClient, PublishPacket(begun + 1, mid, qos))
        PROVE  /\ toClient' \in Seq(PublishPackets \cup Commands)
               /\ session' \in Seq(Message)
    <3>1. qos \in {1, 2}
      BY InAssumption
    <3>2. PublishPacket(begun + 1, mid, qos) \in PublishPackets \cup Commands
      BY <1>2, <3>1, PacketTypes
    <3>3. [id |-> begun + 1, mid |-> mid, qos |-> qos, phase |-> "publish"] \in Message
      BY <1>2, <3>1 DEF Message
    <3>4. QED BY <2>2, <3>2, <3>3, AppendProperties DEF InInv, InTypeOK
  <2>3. QED BY <2>1, <2>2 DEF BrokerSend
<1>4. InTypeOK'
  BY <1>1, <1>2, <1>3 DEF InInv, InTypeOK
<1>5. QED BY <1>1, <1>4, ListUnchanged DEF InInv

\* The broker gets an acknowledgement.
LEMMA BrokerAcknowledgedInv ==
  ASSUME InInv, BrokerAcknowledged
  PROVE  InInv'
<1>1. PICK i \in DOMAIN session :
        \/ /\ session' = RemoveAt(session, i)
           /\ done' = done \cup {session[i].id}
           /\ UNCHANGED toClient
        \/ /\ session' = [session EXCEPT ![i].phase = "release"]
           /\ toClient' = Append(toClient, Command("PUBREL", session[i].mid))
           /\ UNCHANGED done
  BY DEF BrokerAcknowledged
<1>2. /\ UNCHANGED <<list, queueLen, quota, link, begun, received, callbacks, refused,
                     losses>>
      /\ toBroker' = Tail(toBroker) /\ toBroker # <<>>
  BY DEF BrokerAcknowledged
<1>3. session \in Seq(Message) /\ session[i] \in Message
  BY LenProperties, ElementOfSeq DEF InInv, InTypeOK
<1>4. toBroker' \in Seq(Commands)
  BY <1>2, HeadTailProperties DEF InInv, InTypeOK
<1>5. session' \in Seq(Message)
  <2>1. RemoveAt(session, i) \in Seq(Message)
    BY <1>3, RemoveEntry
  <2>2. [session[i] EXCEPT !.phase = "release"] \in Message
    BY <1>3 DEF Message
  <2>3. [session EXCEPT ![i].phase = "release"] \in Seq(Message)
    <3>1. [session EXCEPT ![i].phase = "release"] =
            [session EXCEPT ![i] = [session[i] EXCEPT !.phase = "release"]]
      OBVIOUS
    <3>2. QED BY <1>3, <2>2, <3>1, ReplaceEntry
  <2>4. QED BY <1>1, <2>1, <2>3
<1>6. done' \subseteq Ids /\ toClient' \in Seq(PublishPackets \cup Commands)
  <2>1. session[i].id \in Ids /\ session[i].mid \in 0..MaxMid
    BY <1>3, InAssumption DEF Message, Mids
  <2>2. Command("PUBREL", session[i].mid) \in PublishPackets \cup Commands
    BY <2>1, PacketTypes
  <2>3. /\ toClient \in Seq(PublishPackets \cup Commands)
        /\ done \subseteq Ids
    BY DEF InInv, InTypeOK
  <2>4. toClient' \in Seq(PublishPackets \cup Commands)
    BY <1>1, <2>2, <2>3, AppendProperties
  <2>5. done' \subseteq Ids
    BY <1>1, <2>1, <2>3
  <2>6. QED BY <2>4, <2>5
<1>7. InTypeOK'
  BY <1>2, <1>4, <1>5, <1>6 DEF InInv, InTypeOK
<1>8. QED BY <1>2, <1>7, ListUnchanged DEF InInv

\* Every step keeps the invariant.
LEMMA InInvStep == InInv /\ [Next]_vars => InInv'
<1> SUFFICES ASSUME InInv, [Next]_vars PROVE InInv'
  OBVIOUS
<1>1. CASE UNCHANGED vars
  BY <1>1 DEF InInv, InTypeOK, ReceiveQuotaKept, EveryCopyOnce, Copies
<1>2. CASE Reconnect
  BY <1>2, ReconnectInv
<1>3. CASE Handle
  BY <1>3, LinkInv, PublishDeliversInv, PublishStoresInv, PubrelInv DEF Handle
<1>4. CASE BrokerAnswers
  BY <1>4, BrokerConnectInv, BrokerAcknowledgedInv DEF BrokerAnswers
<1>5. CASE BrokerSend
  BY <1>5, BrokerSendInv
<1>6. CASE Lose
  BY <1>6, LinkInv
<1>7. QED BY <1>1, <1>2, <1>3, <1>4, <1>5, <1>6 DEF Next

-----------------------------------------------------------------------------
(* One packet of a message at a time                                       *)

\* No two packets of a channel carry the same identifier; those without one carry 0.
Single(s) == \A k, l \in DOMAIN s : s[k].mid = s[l].mid /\ s[k].mid # 0 => k = l

\* No packet of one channel carries the identifier of one of the other.
Apart(s, t) == \A k \in DOMAIN s, l \in DOMAIN t : s[k].mid = t[l].mid => s[k].mid = 0

\* One packet more, whose identifier no other has.
LEMMA SingleAppend ==
  ASSUME NEW S, NEW s \in Seq(S), NEW e \in S, Single(s),
         e.mid = 0 \/ (\A k \in DOMAIN s : s[k].mid # e.mid)
  PROVE  Single(Append(s, e))
<1> DEFINE a == Append(s, e)
           n == Len(s) + 1
<1>1. /\ DOMAIN a = DOMAIN s \cup {n} /\ n \notin DOMAIN s /\ a[n] = e
      /\ \A k \in DOMAIN s : a[k] = s[k]
  BY AppendElements
<1> HIDE DEF a, n
<1>2. ASSUME NEW k \in DOMAIN a, NEW l \in DOMAIN a, a[k].mid = a[l].mid, a[k].mid # 0
      PROVE  k = l
  <2>1. CASE k \in DOMAIN s /\ l \in DOMAIN s
    BY <1>1, <1>2, <2>1 DEF Single
  <2>2. CASE k \in DOMAIN s /\ l = n
    BY <1>1, <1>2, <2>2
  <2>3. CASE k = n /\ l \in DOMAIN s
    BY <1>1, <1>2, <2>3
  <2>4. CASE k = n /\ l = n
    BY <2>4
  <2>5. QED BY <1>1, <1>2, <2>1, <2>2, <2>3, <2>4
<1>3. QED BY <1>2 DEF Single, a

LEMMA ApartAppend ==
  ASSUME NEW S, NEW s \in Seq(S), NEW e \in S, NEW t, Apart(s, t),
         e.mid = 0 \/ (\A l \in DOMAIN t : t[l].mid # e.mid)
  PROVE  Apart(Append(s, e), t) /\ Apart(t, Append(s, e))
<1>1. /\ DOMAIN Append(s, e) = DOMAIN s \cup {Len(s) + 1}
      /\ Append(s, e)[Len(s) + 1] = e
      /\ \A k \in DOMAIN s : Append(s, e)[k] = s[k]
  BY AppendElements
<1>2. Apart(Append(s, e), t)
  BY <1>1 DEF Apart
<1>3. QED BY <1>2 DEF Apart

\* The first packet is taken from its channel: no other has its identifier.
LEMMA TokenTaken ==
  ASSUME NEW S, NEW s \in Seq(S), s # <<>>, NEW t, Single(s), Apart(s, t)
  PROVE  /\ Single(Tail(s)) /\ Apart(Tail(s), t) /\ Apart(t, Tail(s))
         /\ Head(s).mid = 0 \/ (\A k \in DOMAIN Tail(s) : Tail(s)[k].mid # Head(s).mid)
         /\ Head(s).mid = 0 \/ (\A l \in DOMAIN t : t[l].mid # Head(s).mid)
<1>1. /\ 1 \in DOMAIN s /\ s[1] = Head(s)
      /\ \A k \in DOMAIN Tail(s) : k + 1 \in DOMAIN s /\ Tail(s)[k] = s[k + 1] /\ k + 1 # 1
  BY TailElements
<1>2. \A k \in DOMAIN Tail(s) : k \in Int
  <2>1. Tail(s) \in Seq(S)
    BY TailElements
  <2>2. QED BY <2>1, LenProperties
<1>3. Single(Tail(s))
  <2>1. ASSUME NEW k \in DOMAIN Tail(s), NEW l \in DOMAIN Tail(s),
               Tail(s)[k].mid = Tail(s)[l].mid, Tail(s)[k].mid # 0
        PROVE  k = l
    <3>1. k + 1 = l + 1
      BY <1>1, <2>1 DEF Single
    <3>2. QED BY <1>2, <3>1
  <2>2. QED BY <2>1 DEF Single
<1>4. Apart(Tail(s), t) /\ Apart(t, Tail(s))
  <2>1. Apart(Tail(s), t)
    BY <1>1 DEF Apart
  <2>2. QED BY <2>1 DEF Apart
<1>5. Head(s).mid = 0 \/ (\A k \in DOMAIN Tail(s) : Tail(s)[k].mid # Head(s).mid)
  BY <1>1 DEF Single
<1>6. Head(s).mid = 0 \/ (\A l \in DOMAIN t : t[l].mid # Head(s).mid)
  BY <1>1 DEF Apart
<1>7. QED BY <1>3, <1>4, <1>5, <1>6

\* A packet is answered by one with its identifier.
LEMMA TokenMoved ==
  ASSUME NEW S, NEW s \in Seq(S), s # <<>>, NEW T, NEW t \in Seq(T), NEW e \in T,
         e.mid = Head(s).mid, Single(s), Single(t), Apart(s, t)
  PROVE  /\ Single(Tail(s)) /\ Single(Append(t, e))
         /\ Apart(Tail(s), Append(t, e)) /\ Apart(Append(t, e), Tail(s))
<1>1. /\ Single(Tail(s)) /\ Apart(t, Tail(s))
      /\ Head(s).mid = 0 \/ (\A k \in DOMAIN Tail(s) : Tail(s)[k].mid # Head(s).mid)
      /\ Head(s).mid = 0 \/ (\A l \in DOMAIN t : t[l].mid # Head(s).mid)
  BY TokenTaken
<1>2. Single(Append(t, e))
  BY <1>1, SingleAppend
<1>3. QED BY <1>1, <1>2, ApartAppend

\* The broker's record of the message that a packet is about, and what the packet says of it.
Backed(p) ==
  \E i \in DOMAIN session :
    /\ session[i].mid = p.mid
    /\ IF p.type = "PUBLISH" THEN session[i].id = p.id ELSE received[session[i].id] > 0

\* A CONNECT travels alone, and nothing without a connection.
Clear ==
  /\ link = "down" => toClient = <<>> /\ toBroker = <<>>
  /\ \A p \in ToSet(toBroker) : p.type = "CONNECT" => toBroker = <<Connect>> /\ toClient = <<>>

OnePacket == Single(toClient) /\ Single(toBroker) /\ Apart(toClient, toBroker)

\* Each packet with an identifier is about a message that the broker keeps, and all but a
\* PUBLISH about one that the client has accepted.
Vouched ==
  /\ \A p \in ToSet(toClient) : p.mid # 0 => Backed(p)
  /\ \A p \in ToSet(toBroker) : p.mid # 0 => Backed(p)

\* The broker keeps to its identifiers and to RECEIVE_MAXIMUM, and releases what was received.
Kept ==
  /\ \A i, j \in DOMAIN session : session[i].mid = session[j].mid => i = j
  /\ \A i \in DOMAIN session : session[i].phase = "release" => received[session[i].id] > 0
  /\ Len(session) <= ReceiveMaximum

Received == \A id \in done : received[id] > 0

TokenInv == Clear /\ OnePacket /\ Vouched /\ Kept /\ Received

\* The first state satisfies it.
LEMMA TokenInit == Init => TokenInv
<1> SUFFICES ASSUME Init
             PROVE  TokenInv
  OBVIOUS
<1>1. toClient = <<>> /\ toBroker = <<>> /\ session = <<>> /\ done = {}
  BY DEF Init
<1>2. DOMAIN toClient = {} /\ DOMAIN toBroker = {} /\ DOMAIN session = {} /\ Len(session) = 0
  BY <1>1
<1>3. ToSet(toClient) = {} /\ ToSet(toBroker) = {}
  BY <1>2 DEF ToSet
<1>4. QED
  BY <1>1, <1>2, <1>3, InAssumption DEF TokenInv, Clear, OnePacket, Vouched, Kept, Received,
     Single, Apart

\* What was received stays received.
Remembered == \A id \in Ids : received[id] > 0 => received'[id] > 0

\* The messages of the session are the broker's.
LEMMA SessionIds ==
  ASSUME InTypeOK, NEW i \in DOMAIN session
  PROVE  session[i] \in Message /\ session[i].id \in Ids /\ session[i].mid \in Mids
<1>1. session[i] \in Message
  BY LenProperties, ElementOfSeq DEF InTypeOK
<1>2. QED BY <1>1 DEF Message

\* A packet that is on its way stays backed while the session stays the same.
LEMMA StillBacked ==
  ASSUME InTypeOK, UNCHANGED session, Remembered, NEW p, Backed(p)
  PROVE  Backed(p)'
<1>1. PICK i \in DOMAIN session :
        /\ session[i].mid = p.mid
        /\ IF p.type = "PUBLISH" THEN session[i].id = p.id ELSE received[session[i].id] > 0
  BY DEF Backed
<1>2. session[i].id \in Ids
  BY SessionIds
<1>3. received[session[i].id] > 0 => received'[session[i].id] > 0
  BY <1>2 DEF Remembered
<1>4. QED BY <1>1, <1>3 DEF Backed

\* A step that leaves the session alone.
LEMMA SameSession ==
  ASSUME InTypeOK, Kept, Received, UNCHANGED <<session, done>>, Remembered
  PROVE  Kept' /\ Received'
<1>1. \A i \in DOMAIN session : session[i].id \in Ids
  BY SessionIds
<1>2. done \subseteq Ids
  BY DEF InTypeOK
<1>3. Kept'
  BY <1>1 DEF Kept, Remembered
<1>4. Received'
  BY <1>2 DEF Received, Remembered
<1>5. QED BY <1>3, <1>4

\* Both channels are empty, or the broker is about to see a CONNECT.
LEMMA ClearedTokens ==
  ASSUME InTypeOK, TokenInv, UNCHANGED <<session, done, received>>,
         toClient' = <<>>, toBroker' = <<>> \/ (toBroker' = <<Connect>> /\ link' # "down")
  PROVE  TokenInv'
<1>1. Remembered
  BY DEF Remembered
<1>2. Kept' /\ Received'
  BY <1>1, SameSession DEF TokenInv
<1>3. Connect.mid = 0
  BY DEF Connect, Command
<1>4. /\ DOMAIN toClient' = {} /\ ToSet(toClient') = {}
      /\ \A k \in DOMAIN toBroker' : toBroker'[k] = Connect /\ k = 1
      /\ \A p \in ToSet(toBroker') : p = Connect /\ toBroker' = <<Connect>>
  <2>1. DOMAIN toClient' = {}
    OBVIOUS
  <2>2. CASE toBroker' = <<>>
    <3>1. DOMAIN toBroker' = {}
      BY <2>2
    <3>2. QED BY <2>1, <3>1 DEF ToSet
  <2>3. CASE toBroker' = <<Connect>>
    <3> HIDE DEF Connect
    <3>1. DOMAIN toBroker' = {1} /\ toBroker'[1] = Connect
      BY <2>3
    <3>2. QED BY <2>1, <2>3, <3>1 DEF ToSet
  <2>4. QED BY <2>2, <2>3
<1>5. Clear'
  <2>1. link' = "down" => toBroker' = <<>>
    OBVIOUS
  <2>2. ToSet(toBroker)' = ToSet(toBroker')
    BY DEF ToSet
  <2>3. QED BY <1>4, <2>1, <2>2 DEF Clear
<1>6. OnePacket'
  BY <1>3, <1>4 DEF OnePacket, Single, Apart
<1>7. Vouched'
  BY <1>3, <1>4 DEF Vouched
<1>8. QED BY <1>2, <1>5, <1>6, <1>7 DEF TokenInv

\* A handler takes a packet and answers it or not.
LEMMA HandlerTokens ==
  ASSUME InTypeOK, TokenInv, UNCHANGED <<session, done>>, Remembered,
         toClient # <<>>, toClient' = Tail(toClient), link' # "down",
         \/ toBroker' = toBroker
         \/ /\ \E type \in {"PUBACK", "PUBREC", "PUBCOMP"} : Reply(type, Head(toClient).mid)
            /\ Head(toClient).type = "PUBLISH" => received'[Head(toClient).id] > 0
  PROVE  TokenInv'
<1> DEFINE head == Head(toClient)
<1>1. /\ toClient \in Seq(PublishPackets \cup Commands) /\ toBroker \in Seq(Commands)
      /\ Clear /\ OnePacket /\ Vouched /\ Kept /\ Received
  BY DEF InTypeOK, TokenInv
<1>2. Kept' /\ Received'
  BY <1>1, SameSession
<1>3. /\ ToSet(toClient) = ToSet(Tail(toClient)) \cup {head}
      /\ Tail(toClient) \in Seq(PublishPackets \cup Commands)
  BY <1>1, TailElements
<1>4. head.mid \in 0..MaxMid
  BY <1>1, HeadTypes
<1>5. \A p \in ToSet(toBroker) : p.type # "CONNECT"
  BY <1>1 DEF Clear
<1>6. \A p \in ToSet(toClient') : p.mid # 0 => Backed(p)'
  BY <1>1, <1>3, StillBacked DEF Vouched
<1> HIDE DEF head
<1>7. CASE toBroker' = toBroker
  <2>1. Clear'
    BY <1>5, <1>7 DEF Clear
  <2>2. OnePacket'
    BY <1>1, <1>7, TokenTaken DEF OnePacket
  <2>3. Vouched'
    BY <1>1, <1>6, <1>7, StillBacked DEF Vouched
  <2>4. QED BY <1>2, <2>1, <2>2, <2>3 DEF TokenInv
<1>8. ASSUME NEW type \in {"PUBACK", "PUBREC", "PUBCOMP"}, Reply(type, head.mid),
             head.type = "PUBLISH" => received'[head.id] > 0
      PROVE  TokenInv'
  <2>1. Command(type, head.mid) \in Commands
    BY <1>4, PacketTypes
  <2>2. PICK e \in Commands :
          e = Command(type, head.mid) /\ e.mid = head.mid /\ e.type = type
    BY <2>1 DEF Command
  <2>3. toBroker' = Append(toBroker, e)
    BY <1>8, <2>2 DEF Reply
  <2>4. ToSet(toBroker') = ToSet(toBroker) \cup {e}
    BY <1>1, <2>2, <2>3, AppendElements
  <2>5. Clear'
    BY <1>5, <1>8, <2>2, <2>4 DEF Clear
  <2>6. OnePacket'
    BY <1>1, <2>2, <2>3, TokenMoved DEF OnePacket, head
  <2>7. head.mid # 0 => Backed(e)'
    <3> SUFFICES ASSUME head.mid # 0
                 PROVE  Backed(e)'
      OBVIOUS
    <3>1. Backed(head)
      BY <1>1, <1>3 DEF Vouched
    <3>2. PICK i \in DOMAIN session :
            /\ session[i].mid = head.mid
            /\ IF head.type = "PUBLISH" THEN session[i].id = head.id
                                        ELSE received[session[i].id] > 0
      BY <3>1 DEF Backed
    <3>3. session[i].id \in Ids
      BY SessionIds
    <3>4. received'[session[i].id] > 0
      BY <1>8, <3>2, <3>3 DEF Remembered
    <3>5. e.type # "PUBLISH"
      BY <2>2
    <3>6. QED BY <2>2, <3>2, <3>4, <3>5 DEF Backed
  <2>8. Vouched'
    BY <1>1, <1>6, <2>2, <2>4, <2>7, StillBacked DEF Vouched
  <2>9. QED BY <1>2, <2>5, <2>6, <2>8 DEF TokenInv
<1>9. QED BY <1>7, <1>8 DEF head

\* The handlers of the client.
LEMMA HandleTokens ==
  ASSUME InInv, TokenInv, Accepted \/ PublishDelivers \/ PublishStores \/ Pubrel
  PROVE  TokenInv'
<1>1. InTypeOK
  BY DEF InInv
<1>2. /\ UNCHANGED <<session, done>> /\ toClient # <<>> /\ toClient' = Tail(toClient)
      /\ link' = "active"
  BY DEF Accepted, PublishDelivers, PublishStores, Pubrel, Packet
<1>3. /\ received \in [Ids -> Nat]
      /\ Head(toClient).type = "PUBLISH" => Head(toClient).id \in Ids
  BY <1>1, <1>2, HeadTypes DEF InTypeOK
<1>4. CASE Accepted
  <2>1. Remembered /\ toBroker' = toBroker
    BY <1>4 DEF Accepted, Remembered
  <2>2. QED BY <1>1, <1>2, <2>1, HandlerTokens
<1>5. CASE PublishDelivers \/ PublishStores
  <2>1. /\ Head(toClient).type = "PUBLISH"
        /\ received' = [received EXCEPT ![Head(toClient).id] = @ + 1]
        /\ \/ toBroker' = toBroker
           \/ Reply("PUBACK", Head(toClient).mid)
           \/ Reply("PUBREC", Head(toClient).mid)
    BY <1>5 DEF PublishDelivers, PublishStores, Packet, Count
  <2>2. Remembered /\ received'[Head(toClient).id] > 0
    BY <1>3, <2>1 DEF Remembered
  <2>3. QED BY <1>1, <1>2, <2>1, <2>2, HandlerTokens
<1>6. CASE Pubrel
  <2>1. /\ Head(toClient).type = "PUBREL" /\ received' = received
        /\ Reply("PUBCOMP", Head(toClient).mid)
    BY <1>6 DEF Pubrel, Packet, Complete
  <2>2. Remembered
    BY <2>1 DEF Remembered
  <2>3. QED BY <1>1, <1>2, <2>1, <2>2, HandlerTokens
<1>7. QED BY <1>4, <1>5, <1>6

\* The broker repeats its session: one packet for each message.
LEMMA BrokerConnectTokens ==
  ASSUME InInv, TokenInv, BrokerConnect
  PROVE  TokenInv'
<1>1. /\ toBroker \in Seq(Commands) /\ session \in Seq(Message) /\ InTypeOK
      /\ Clear /\ OnePacket /\ Vouched /\ Kept /\ Received
  BY DEF InInv, InTypeOK, TokenInv
<1>2. /\ UNCHANGED <<link, done, received>> /\ toBroker # <<>> /\ Head(toBroker) = Connect
      /\ toBroker' = Tail(toBroker)
      /\ \/ /\ toClient' = <<Connack>> \o [i \in DOMAIN session |-> Again(session[i])]
            /\ session' = session
         \/ toClient' = <<Connack>> /\ session' = <<>>
  BY DEF BrokerConnect
<1>3. toBroker = <<Connect>> /\ link # "down"
  <2>1. Connect \in ToSet(toBroker)
    BY <1>1, <1>2, TailElements
  <2>2. Connect.type = "CONNECT"
    BY DEF Connect, Command
  <2>3. QED BY <1>1, <1>2, <2>1, <2>2 DEF Clear
<1>4. DOMAIN toBroker' = {} /\ ToSet(toBroker') = {}
  <2>1. toBroker' = <<>>
    BY <1>2, <1>3 DEF Connect
  <2>2. QED BY <2>1 DEF ToSet
<1>5. Remembered
  BY <1>2 DEF Remembered
<1>6. Clear'
  BY <1>2, <1>3, <1>4 DEF Clear
<1>7. Connack.mid = 0
  BY DEF Connack, Command
<1>8. CASE toClient' = <<Connack>> /\ session' = <<>>
  <2>1. DOMAIN session' = {} /\ Len(session') = 0
    BY <1>8
  <2>2. DOMAIN toClient' = {1} /\ toClient'[1] = Connack
    BY <1>8 DEF Connack
  <2>3. \A p \in ToSet(toClient') : p.mid = 0
    BY <1>7, <2>2 DEF ToSet
  <2>4. Kept' /\ Received'
    BY <1>1, <1>2, <2>1, InAssumption DEF Kept, Received
  <2>5. OnePacket'
    BY <1>4, <1>7, <2>2 DEF OnePacket, Single, Apart
  <2>6. Vouched'
    BY <1>4, <2>3 DEF Vouched
  <2>7. QED BY <1>6, <2>4, <2>5, <2>6 DEF TokenInv
<1>9. CASE /\ toClient' = <<Connack>> \o [i \in DOMAIN session |-> Again(session[i])]
           /\ session' = session
  <2> DEFINE a == [i \in DOMAIN session |-> Again(session[i])]
  <2>1. DOMAIN session = 1..Len(session) /\ Len(session) \in Nat
    BY <1>1, LenProperties
  <2>2. a \in Seq({Again(session[i]) : i \in DOMAIN session}) /\ Len(a) = Len(session)
    BY <2>1
  <2>3. \A i \in DOMAIN session : a[i] = Again(session[i])
    OBVIOUS
  <2> HIDE DEF a
  <2>4. <<Connack>> \in Seq({Connack}) /\ Len(<<Connack>>) = 1 /\ <<Connack>>[1] = Connack
    BY DEF Connack
  <2>5. /\ Len(toClient') = 1 + Len(session)
        /\ DOMAIN toClient' = 1..1 + Len(session)
        /\ toClient'[1] = Connack
        /\ \A k \in 2..1 + Len(session) : toClient'[k] = a[k - 1]
    <3> DEFINE T == {Again(session[i]) : i \in DOMAIN session} \cup {Connack}
    <3> HIDE DEF Connack
    <3>1. <<Connack>> \in Seq(T) /\ a \in Seq(T)
      BY <2>1, <2>2, <2>3 DEF a
    <3>2. toClient' = <<Connack>> \o a
      BY <1>9 DEF a
    <3>3. /\ toClient' \in Seq(T) /\ Len(toClient') = 1 + Len(session)
          /\ \A k \in 1..1 + Len(session) :
               toClient'[k] = IF k <= 1 THEN <<Connack>>[k] ELSE a[k - 1]
      BY <2>2, <2>4, <3>1, <3>2, ConcatProperties
    <3>4. DOMAIN toClient' = 1..1 + Len(session)
      BY <3>3, LenProperties
    <3>5. QED BY <2>1, <2>4, <3>3, <3>4
  <2>6. ASSUME NEW k \in DOMAIN toClient', toClient'[k].mid # 0
        PROVE  /\ k - 1 \in DOMAIN session /\ k \in Int
               /\ toClient'[k] = Again(session[k - 1])
               /\ toClient'[k].mid = session[k - 1].mid
    <3>1. k \in 2..1 + Len(session)
      BY <1>7, <2>1, <2>5, <2>6
    <3>2. k - 1 \in DOMAIN session /\ k \in Int /\ toClient'[k] = a[k - 1]
      BY <2>1, <2>5, <3>1
    <3>3. toClient'[k] = Again(session[k - 1])
      BY <2>3, <3>2
    <3>4. QED BY <3>2, <3>3 DEF Again, PublishPacket, Command
  <2>7. Single(toClient')
    <3>1. ASSUME NEW k \in DOMAIN toClient', NEW l \in DOMAIN toClient',
                 toClient'[k].mid = toClient'[l].mid, toClient'[k].mid # 0
          PROVE  k = l
      <4>1. k - 1 = l - 1
        BY <1>1, <2>6, <3>1 DEF Kept
      <4>2. QED BY <2>6, <3>1, <4>1
    <3>2. QED BY <3>1 DEF Single
  <2>8. OnePacket'
    BY <1>4, <2>7 DEF OnePacket, Single, Apart
  <2>9. ASSUME NEW p \in ToSet(toClient'), p.mid # 0
        PROVE  Backed(p)'
    <3>1. PICK k \in DOMAIN toClient' : p = toClient'[k]
      BY DEF ToSet
    <3>2. PICK i \in DOMAIN session : p = Again(session[i]) /\ p.mid = session[i].mid
      BY <2>6, <2>9, <3>1
    <3>3. CASE session[i].phase = "publish"
      <4>1. p.type = "PUBLISH" /\ p.id = session[i].id
        BY <3>2, <3>3 DEF Again, PublishPacket
      <4>2. QED BY <1>9, <3>2, <4>1 DEF Backed
    <3>4. CASE session[i].phase # "publish"
      <4>1. p.type # "PUBLISH"
        BY <3>2, <3>4 DEF Again, Command
      <4>2. session[i].phase = "release"
        BY <1>1, <3>4, SessionIds DEF Message
      <4>3. received'[session[i].id] > 0
        BY <1>1, <1>2, <4>2 DEF Kept
      <4>4. QED BY <1>9, <3>2, <4>1, <4>3 DEF Backed
    <3>5. QED BY <3>3, <3>4
  <2>10. Vouched'
    BY <1>4, <2>9 DEF Vouched
  <2>11. Kept' /\ Received'
    BY <1>1, <1>2, <1>5, <1>9, SameSession
  <2>12. QED BY <1>6, <2>8, <2>10, <2>11 DEF TokenInv
<1>10. QED BY <1>2, <1>8, <1>9

\* A new message has an identifier that no packet carries.
LEMMA BrokerSendTokens ==
  ASSUME InInv, TokenInv, BrokerSend
  PROVE  TokenInv'
<1>1. /\ toBroker \in Seq(Commands) /\ session \in Seq(Message) /\ InTypeOK
      /\ toClient \in Seq(PublishPackets \cup Commands)
      /\ Clear /\ OnePacket /\ Vouched /\ Kept /\ Received
  BY DEF InInv, InTypeOK, TokenInv
<1>2. /\ UNCHANGED <<link, toBroker, done, received>> /\ link # "down"
      /\ Connect \notin ToSet(toBroker)
      /\ begun + 1 \in Ids
  <2>1. Range(toBroker) = ToSet(toBroker)
    BY DEF Range, ToSet
  <2>2. QED BY <1>1, <2>1, InAssumption DEF BrokerSend, InTypeOK, Ids
<1>3. Remembered
  BY <1>2 DEF Remembered
<1>4. \A p \in ToSet(toBroker) : p.type # "CONNECT"
  <2> SUFFICES ASSUME NEW p \in ToSet(toBroker), p.type = "CONNECT"
               PROVE  FALSE
    OBVIOUS
  <2>1. toBroker = <<Connect>>
    BY <1>1 DEF Clear
  <2>2. DOMAIN toBroker = {1} /\ toBroker[1] = Connect
    BY <2>1 DEF Connect
  <2>3. Connect \in ToSet(toBroker)
    BY <2>2 DEF ToSet
  <2>4. QED BY <1>2, <2>3
<1>5. Clear'
  BY <1>2, <1>4 DEF Clear
<1>6. CASE /\ toClient' = Append(toClient, PublishPacket(begun + 1, 0, 0))
           /\ UNCHANGED session
  <2>0. PublishPacket(begun + 1, 0, 0) \in PublishPackets
    BY <1>2, PacketTypes
  <2>1. PICK e \in PublishPackets \cup Commands :
          e = PublishPacket(begun + 1, 0, 0) /\ e.mid = 0
    BY <2>0 DEF PublishPacket
  <2>2. toClient' = Append(toClient, e) /\ ToSet(toClient') = ToSet(toClient) \cup {e}
    BY <1>1, <1>6, <2>1, AppendElements
  <2>3. OnePacket'
    BY <1>1, <1>2, <2>1, <2>2, SingleAppend, ApartAppend DEF OnePacket
  <2>4. Vouched'
    BY <1>1, <1>2, <1>3, <1>6, <2>1, <2>2, StillBacked DEF Vouched
  <2>5. Kept' /\ Received'
    BY <1>1, <1>2, <1>3, <1>6, SameSession
  <2>6. QED BY <1>5, <2>3, <2>4, <2>5 DEF TokenInv
<1>7. ASSUME NEW qos \in Levels \ {0}, NEW mid \in Mids \ MidsInUse,
             Len(session) < ReceiveMaximum,
             session' = Append(session, [id |-> begun + 1, mid |-> mid, qos |-> qos,
                                         phase |-> "publish"]),
             toClient' = Append(toClient, PublishPacket(begun + 1, mid, qos))
      PROVE  TokenInv'
  <2>1. qos \in {1, 2} /\ mid # 0
    BY InAssumption DEF Mids
  <2>2. PublishPacket(begun + 1, mid, qos) \in PublishPackets
    BY <1>2, <2>1, PacketTypes
  <2>3. PICK e \in PublishPackets \cup Commands :
          /\ e = PublishPacket(begun + 1, mid, qos)
          /\ e.mid = mid /\ e.type = "PUBLISH" /\ e.id = begun + 1
    BY <2>2 DEF PublishPacket
  <2>4. PICK m \in Message :
          /\ m = [id |-> begun + 1, mid |-> mid, qos |-> qos, phase |-> "publish"]
          /\ m.id = begun + 1 /\ m.mid = mid /\ m.phase = "publish"
    <3>1. [id |-> begun + 1, mid |-> mid, qos |-> qos, phase |-> "publish"] \in Message
      BY <1>2, <2>1 DEF Message
    <3>2. QED BY <3>1
  <2>5. /\ toClient' = Append(toClient, e) /\ session' = Append(session, m)
        /\ ToSet(toClient') = ToSet(toClient) \cup {e}
    BY <1>1, <1>7, <2>3, <2>4, AppendElements
  <2>6. /\ DOMAIN session' = DOMAIN session \cup {Len(session) + 1}
        /\ session'[Len(session) + 1] = m
        /\ \A i \in DOMAIN session : session'[i] = session[i]
    BY <1>1, <2>5, AppendElements
  <2>7. \A i \in DOMAIN session : session[i].mid # mid
    BY DEF MidsInUse
  <2>8. ASSUME NEW p, Backed(p)
        PROVE  Backed(p)' /\ p.mid # mid
    BY <1>2, <2>6, <2>7, <2>8 DEF Backed
  <2>9. /\ \A k \in DOMAIN toClient : toClient[k].mid # mid
        /\ \A k \in DOMAIN toBroker : toBroker[k].mid # mid
    BY <1>1, <2>1, <2>8 DEF Vouched, ToSet
  <2>10. OnePacket'
    BY <1>1, <1>2, <2>3, <2>5, <2>9, SingleAppend, ApartAppend DEF OnePacket
  <2>11. Backed(e)'
    BY <2>3, <2>4, <2>6 DEF Backed
  <2>12. Vouched'
    BY <1>1, <1>2, <2>5, <2>8, <2>11 DEF Vouched
  <2>13. Len(session') = Len(session) + 1 /\ Len(session) \in Nat
    BY <1>1, <2>5, AppendProperties, LenProperties
  <2>14. Kept'
    <3>1. \A i, j \in DOMAIN session' : session'[i].mid = session'[j].mid => i = j
      BY <1>1, <2>4, <2>6, <2>7 DEF Kept
    <3>2. \A i \in DOMAIN session' :
            session'[i].phase = "release" => received'[session'[i].id] > 0
      BY <1>1, <1>2, <2>4, <2>6 DEF Kept
    <3>3. Len(session') <= ReceiveMaximum
      BY <1>7, <2>13, InAssumption
    <3>4. QED BY <3>1, <3>2, <3>3 DEF Kept
  <2>15. Received'
    BY <1>1, <1>2 DEF Received
  <2>16. QED BY <1>5, <2>10, <2>12, <2>14, <2>15 DEF TokenInv
<1>8. QED BY <1>6, <1>7 DEF BrokerSend

\* The broker takes an acknowledgement of what was received.
LEMMA BrokerAcknowledgedTokens ==
  ASSUME InInv, TokenInv, BrokerAcknowledged
  PROVE  TokenInv'
<1>1. /\ toBroker \in Seq(Commands) /\ session \in Seq(Message) /\ InTypeOK
      /\ toClient \in Seq(PublishPackets \cup Commands)
      /\ Clear /\ OnePacket /\ Vouched /\ Kept /\ Received
  BY DEF InInv, InTypeOK, TokenInv
<1>2. PICK i \in DOMAIN session :
        /\ session[i].mid = Head(toBroker).mid
        /\ \/ /\ session' = RemoveAt(session, i)
              /\ done' = done \cup {session[i].id}
              /\ UNCHANGED toClient
           \/ /\ session' = [session EXCEPT ![i].phase = "release"]
              /\ toClient' = Append(toClient, Command("PUBREL", session[i].mid))
              /\ UNCHANGED done
        /\ Head(toBroker).type \in {"PUBACK", "PUBCOMP", "PUBREC"}
  BY DEF BrokerAcknowledged
<1>3. /\ UNCHANGED <<link, received>> /\ toBroker # <<>> /\ toBroker' = Tail(toBroker)
  BY DEF BrokerAcknowledged
<1>4. PICK head \in Commands : head = Head(toBroker)
  BY <1>1, <1>3, TailElements
<1>5. ToSet(toBroker) = ToSet(toBroker') \cup {head}
  BY <1>1, <1>3, <1>4, TailElements
<1>6. session[i] \in Message /\ session[i].mid \in 1..MaxMid /\ head.mid # 0
  BY <1>1, <1>2, <1>4, SessionIds, InAssumption DEF Mids
<1>7. received[session[i].id] > 0
  <2>1. Backed(head) /\ head.type # "PUBLISH"
    BY <1>1, <1>2, <1>4, <1>5, <1>6 DEF Vouched
  <2>2. PICK j \in DOMAIN session :
          session[j].mid = head.mid /\ received[session[j].id] > 0
    BY <2>1 DEF Backed
  <2>3. j = i
    BY <1>1, <1>2, <1>4, <2>2 DEF Kept
  <2>4. QED BY <2>2, <2>3
<1>8. \A p \in ToSet(toBroker) : p.type # "CONNECT"
  <2> SUFFICES ASSUME NEW p \in ToSet(toBroker), p.type = "CONNECT"
               PROVE  FALSE
    OBVIOUS
  <2>1. toBroker = <<Connect>>
    BY <1>1 DEF Clear
  <2>2. head = Connect
    BY <1>4, <2>1 DEF Connect
  <2>3. head.type = "CONNECT"
    BY <2>2 DEF Connect, Command
  <2>4. QED BY <1>2, <1>4, <2>3
<1>9. link # "down"
  BY <1>1, <1>3 DEF Clear
<1>10. Clear'
  BY <1>3, <1>5, <1>8, <1>9 DEF Clear
<1>11. /\ Single(toBroker') /\ Apart(toBroker', toClient) /\ Apart(toClient, toBroker')
       /\ \A k \in DOMAIN toBroker' : toBroker'[k].mid # head.mid
       /\ \A k \in DOMAIN toClient : toClient[k].mid # head.mid
  <2>1. Apart(toBroker, toClient)
    BY <1>1 DEF OnePacket, Apart
  <2>2. QED BY <1>1, <1>3, <1>4, <1>6, <2>1, TokenTaken DEF OnePacket
<1>12. /\ \A p \in ToSet(toBroker') : p.mid # head.mid
       /\ \A p \in ToSet(toClient) : p.mid # head.mid
  BY <1>11 DEF ToSet
<1>13. CASE /\ session' = RemoveAt(session, i)
            /\ done' = done \cup {session[i].id}
            /\ UNCHANGED toClient
  <2>1. /\ session' \in Seq(Message) /\ Len(session') = Len(session) - 1
        /\ \A j \in 1..Len(session) - 1 :
             session'[j] = IF j < i THEN session[j] ELSE session[j + 1]
    BY <1>1, <1>13, RemoveEntry
  <2>2. /\ DOMAIN session = 1..Len(session) /\ Len(session) \in Nat
        /\ DOMAIN session' = 1..Len(session) - 1
    BY <1>1, <2>1, LenProperties
  <2>3. \A j \in DOMAIN session' :
          \E k \in DOMAIN session : /\ session'[j] = session[k]
                                    /\ k = IF j < i THEN j ELSE j + 1
    BY <2>1, <2>2
  <2>4. \A k \in DOMAIN session \ {i} : \E j \in DOMAIN session' : session'[j] = session[k]
    <3> SUFFICES ASSUME NEW k \in DOMAIN session \ {i}
                 PROVE  \E j \in DOMAIN session' : session'[j] = session[k]
      OBVIOUS
    <3>1. CASE k < i
      BY <2>1, <2>2, <3>1
    <3>2. CASE ~(k < i)
      <4>1. k - 1 \in DOMAIN session' /\ ~(k - 1 < i) /\ (k - 1) + 1 = k
        BY <2>2, <3>2
      <4>2. QED BY <2>1, <2>2, <4>1
    <3>3. QED BY <3>1, <3>2
  <2>5. ASSUME NEW p, Backed(p), p.mid # head.mid
        PROVE  Backed(p)'
    <3>1. PICK k \in DOMAIN session :
            /\ session[k].mid = p.mid
            /\ IF p.type = "PUBLISH" THEN session[k].id = p.id ELSE received[session[k].id] > 0
      BY <2>5 DEF Backed
    <3>2. k # i
      BY <1>2, <1>4, <2>5, <3>1
    <3>3. PICK j \in DOMAIN session' : session'[j] = session[k]
      BY <2>4, <3>2
    <3>4. QED BY <1>3, <3>1, <3>3 DEF Backed
  <2>6. Vouched'
    BY <1>1, <1>5, <1>12, <1>13, <2>5 DEF Vouched
  <2>7. OnePacket'
    BY <1>1, <1>11, <1>13 DEF OnePacket
  <2>8. Kept'
    <3>1. ASSUME NEW j \in DOMAIN session', NEW k \in DOMAIN session',
                 session'[j].mid = session'[k].mid
          PROVE  j = k
      <4>1. PICK l \in DOMAIN session : session'[j] = session[l] /\ l = IF j < i THEN j ELSE j + 1
        BY <2>3
      <4>2. PICK m \in DOMAIN session : session'[k] = session[m] /\ m = IF k < i THEN k ELSE k + 1
        BY <2>3
      <4>3. l = m
        BY <1>1, <3>1, <4>1, <4>2 DEF Kept
      <4>4. j \in Int /\ k \in Int /\ i \in Int
        BY <2>2
      <4>5. QED BY <4>1, <4>2, <4>3, <4>4
    <3>2. \A j \in DOMAIN session' :
            session'[j].phase = "release" => received'[session'[j].id] > 0
      BY <1>1, <1>3, <2>3 DEF Kept
    <3>3. Len(session') <= ReceiveMaximum
      BY <1>1, <2>1, <2>2, InAssumption DEF Kept
    <3>4. QED BY <3>1, <3>2, <3>3 DEF Kept
  <2>9. Received'
    BY <1>1, <1>3, <1>7, <1>13 DEF Received
  <2>10. QED BY <1>10, <2>6, <2>7, <2>8, <2>9 DEF TokenInv
<1>14. CASE /\ session' = [session EXCEPT ![i].phase = "release"]
            /\ toClient' = Append(toClient, Command("PUBREL", session[i].mid))
            /\ UNCHANGED done
  <2>1. /\ DOMAIN session' = DOMAIN session /\ Len(session') = Len(session)
        /\ \A j \in DOMAIN session :
             /\ session'[j].mid = session[j].mid /\ session'[j].id = session[j].id
             /\ j # i => session'[j] = session[j]
    <3>1. session' = [session EXCEPT ![i] = [session[i] EXCEPT !.phase = "release"]]
      BY <1>14
    <3>2. PICK m \in Message : m = [session[i] EXCEPT !.phase = "release"]
      BY <1>6 DEF Message
    <3>3. m.mid = session[i].mid /\ m.id = session[i].id
      BY <1>6, <3>2 DEF Message
    <3>4. session' = [session EXCEPT ![i] = m]
      BY <3>1, <3>2
    <3>5. QED BY <1>1, <3>3, <3>4, ReplaceEntry
  <2>2. Command("PUBREL", session[i].mid) \in Commands
    BY <1>6, PacketTypes
  <2>3. PICK e \in PublishPackets \cup Commands :
          e = Command("PUBREL", session[i].mid) /\ e.mid = head.mid /\ e.type = "PUBREL"
    BY <1>2, <1>4, <2>2 DEF Command
  <2>4. /\ toClient' = Append(toClient, e)
        /\ ToSet(toClient') = ToSet(toClient) \cup {e}
    BY <1>1, <1>14, <2>3, AppendElements
  <2>5. ASSUME NEW p, Backed(p)
        PROVE  Backed(p)'
    BY <1>3, <2>1, <2>5 DEF Backed
  <2>6. Backed(e)'
    BY <1>2, <1>3, <1>4, <1>7, <2>1, <2>3 DEF Backed
  <2>7. Vouched'
    BY <1>1, <1>5, <2>4, <2>5, <2>6 DEF Vouched
  <2>8. OnePacket'
    BY <1>1, <1>11, <2>3, <2>4, SingleAppend, ApartAppend DEF OnePacket
  <2>9. Kept'
    BY <1>1, <1>3, <1>7, <2>1 DEF Kept
  <2>10. Received'
    BY <1>1, <1>3, <1>14 DEF Received
  <2>11. QED BY <1>10, <2>7, <2>8, <2>9, <2>10 DEF TokenInv
<1>15. QED BY <1>2, <1>13, <1>14

\* Every step keeps one packet of a message at a time.
LEMMA TokenStep == InInv /\ TokenInv /\ [Next]_vars => TokenInv'
<1> SUFFICES ASSUME InInv, TokenInv, [Next]_vars
             PROVE  TokenInv'
  OBVIOUS
<1>1. CASE UNCHANGED vars
  BY <1>1 DEF TokenInv, Clear, OnePacket, Vouched, Kept, Received, Backed
<1>2. CASE Reconnect
  <2>1. /\ UNCHANGED <<session, done, received, toClient>> /\ link = "down"
        /\ toBroker' = <<Connect>> /\ link' = "connected"
    BY <1>2 DEF Reconnect
  <2>2. toClient = <<>>
    BY <2>1 DEF TokenInv, Clear
  <2>3. QED BY <2>1, <2>2, ClearedTokens DEF InInv
<1>3. CASE PublishRefused \/ Lose
  <2>1. UNCHANGED <<session, done, received>> /\ toClient' = <<>> /\ toBroker' = <<>>
    BY <1>3 DEF PublishRefused, Lose, Closed
  <2>2. QED BY <2>1, ClearedTokens DEF InInv
<1>4. CASE Accepted \/ PublishDelivers \/ PublishStores \/ Pubrel
  BY <1>4, HandleTokens
<1>5. CASE BrokerConnect
  BY <1>5, BrokerConnectTokens
<1>6. CASE BrokerSend
  BY <1>6, BrokerSendTokens
<1>7. CASE BrokerAcknowledged
  BY <1>7, BrokerAcknowledgedTokens
<1>8. QED
  BY <1>1, <1>2, <1>3, <1>4, <1>5, <1>6, <1>7 DEF Next, Handle, BrokerAnswers
\* A list on which every entry is about another message that the broker keeps is shorter
\* than the broker's session, which also holds the message it sends.
LEMMA NoneLeftOver ==
  ASSUME InTypeOK, NEW id, InSession(id), \A i \in DOMAIN list : ~LeftOver(i, id)
  PROVE  Len(list) < Len(session)
<1> DEFINE About(i) == IF i = 0 THEN id ELSE list[i].id
           f == [i \in 0..Len(list) |-> CHOOSE k \in DOMAIN session : session[k].id = About(i)]
<1>1. /\ DOMAIN list = 1..Len(list) /\ Len(list) \in Nat
      /\ DOMAIN session = 1..Len(session) /\ Len(session) \in Nat
  BY LenProperties DEF InTypeOK
<1>2. ASSUME NEW i \in 0..Len(list)
      PROVE  f[i] \in DOMAIN session /\ session[f[i]].id = About(i)
  <2>1. \E k \in DOMAIN session : session[k].id = About(i)
    <3>1. CASE i = 0
      BY <3>1 DEF InSession
    <3>2. CASE i # 0
      <4>1. i \in DOMAIN list
        BY <1>1, <3>2
      <4>2. InSession(list[i].id)
        BY <4>1 DEF LeftOver
      <4>3. QED BY <3>2, <4>2 DEF InSession
    <3>3. QED BY <3>1, <3>2
  <2>2. QED BY <2>1
<1>3. f \in [0..Len(list) -> DOMAIN session]
  BY <1>2
<1>4. ASSUME NEW i \in 0..Len(list), NEW j \in 0..Len(list), f[i] = f[j]
      PROVE  i = j
  <2>1. About(i) = About(j)
    BY <1>2, <1>4
  <2>2. \A k \in 1..Len(list) :
          list[k].id # id /\ \A l \in DOMAIN list : l # k => list[l].id # list[k].id
    BY <1>1 DEF LeftOver
  <2>3. CASE i = 0
    BY <2>1, <2>2, <2>3
  <2>4. CASE j = 0
    BY <2>1, <2>2, <2>4
  <2>5. CASE i # 0 /\ j # 0
    BY <1>1, <2>1, <2>2, <2>5
  <2>6. QED BY <2>3, <2>4, <2>5
<1> HIDE DEF f
<1>5. f \in Injection(0..Len(list), 1..Len(session))
  BY <1>1, <1>3, <1>4 DEF Injection, IsInjective
<1>6. /\ IsFiniteSet(1..Len(session))
      /\ Cardinality(1..Len(session)) = Len(session)
      /\ Cardinality(0..Len(list)) = Len(list) + 1
  <2>1. ASSUME NEW n \in Nat
        PROVE  /\ IsFiniteSet(1..n) /\ Cardinality(1..n) = n
               /\ Cardinality(0..n) = n + 1
    <3>1. n \in Int /\ 0 \in Int /\ 1 \in Int /\ ~(0 > n)
      OBVIOUS
    <3>2. IsFiniteSet(1..n) /\ Cardinality(1..n) = IF 1 > n THEN 0 ELSE n - 1 + 1
      BY <3>1, FS_Interval, Zenon
    <3>3. Cardinality(0..n) = IF 0 > n THEN 0 ELSE n - 0 + 1
      BY <3>1, FS_Interval, Zenon
    <3>4. QED BY <3>1, <3>2, <3>3
  <2>2. QED BY <1>1, <2>1
<1>7. Cardinality(0..Len(list)) <= Cardinality(1..Len(session))
  BY <1>5, <1>6, FS_Injection
<1>8. QED BY <1>1, <1>6, <1>7

\* A PUBLISH is refused for want of quota only because of what is left over on the list.
LEMMA Refusal == InInv /\ TokenInv => RefusedOnlyIfLeftOver
<1> SUFFICES ASSUME InInv, TokenInv, Packet("PUBLISH"), ~Admits(Head(toClient)),
                    \A i \in DOMAIN list : ~LeftOver(i, Head(toClient).id)
             PROVE  FALSE
  BY DEF RefusedOnlyIfLeftOver
<1>1. /\ InTypeOK /\ ReceiveQuotaKept /\ Vouched /\ Kept
      /\ toClient \in Seq(PublishPackets \cup Commands) /\ toClient # <<>>
      /\ Head(toClient).type = "PUBLISH"
  BY DEF InInv, InTypeOK, TokenInv, Packet
<1>2. PICK packet \in PublishPackets \cup Commands : packet = Head(toClient)
  BY <1>1, TailElements
<1>3. packet.mid # 0 /\ quota = 0
  <2>1. packet.qos # 0 /\ ~(quota > 0)
    BY <1>2 DEF Admits
  <2>2. packet \in PublishPackets
    BY <1>1, <1>2 DEF Commands
  <2>3. packet.mid \in Mids
    BY <2>1, <2>2 DEF PublishPackets
  <2>4. QED BY <1>1, <2>1, <2>3 DEF InTypeOK, Mids
<1>4. packet \in ToSet(toClient)
  BY <1>1, <1>2, TailElements
<1>5. InSession(packet.id)
  BY <1>1, <1>2, <1>3, <1>4 DEF Vouched, Backed, InSession
<1>6. Len(list) < Len(session)
  BY <1>1, <1>2, <1>5, NoneLeftOver
<1>7. Len(list) \in Nat /\ Len(session) \in Nat
  BY <1>1, LenProperties DEF InTypeOK
<1>8. Len(list) >= ReceiveMaximum /\ Len(session) <= ReceiveMaximum
  BY <1>1, <1>3, <1>7, InAssumption DEF ReceiveQuotaKept, Kept
<1>9. QED BY <1>6, <1>7, <1>8, InAssumption

\* What was accepted has been handed over, or a copy of it is on the list.
LEMMA Delivered == InInv /\ TokenInv => NothingLost
<1> SUFFICES ASSUME InInv, TokenInv, NEW id \in done
             PROVE  callbacks[id] > 0 \/ Copies(id) > 0
  BY DEF NothingLost
<1>1. /\ list \in Seq(Entry) /\ id \in Ids /\ callbacks \in [Ids -> Nat]
      /\ EveryCopyOnce /\ received[id] > 0
  BY DEF InInv, InTypeOK, TokenInv, Received
<1>2. Copies(id) \in Nat
  BY <1>1, AtFinite DEF Copies, At
<1>3. received[id] = callbacks[id] + Copies(id) /\ callbacks[id] \in Nat
  BY <1>1 DEF EveryCopyOnce
<1>4. QED BY <1>1, <1>2, <1>3

-----------------------------------------------------------------------------
(* The theorems                                                            *)

\* The invariant holds in every reachable state of the receiving code.
THEOREM InAlways == Spec => []InInv
<1>1. QED BY InInvInit, InInvStep, PTL DEF Spec

\* Type correctness: the receive quota and the length never go below zero.
THEOREM InTypeCorrect == Spec => []InTypeOK
<1>1. InInv => InTypeOK
  BY DEF InInv
<1>2. QED BY <1>1, InAlways, PTL

\* No unit of the receive quota is lost, over repeated PUBLISH and PUBREL packets, lost
\* connections and sessions that are not resumed.
THEOREM ReceiveQuotaCorrect == Spec => []ReceiveQuotaKept
<1>1. InInv => ReceiveQuotaKept
  BY DEF InInv
<1>2. QED BY <1>1, InAlways, PTL

\* Each accepted PUBLISH leads to one call of on_message_v5 or is on the list.
THEOREM CopiesDeliveredOnce == Spec => []EveryCopyOnce
<1>1. InInv => EveryCopyOnce
  BY DEF InInv
<1>2. QED BY <1>1, InAlways, PTL

\* The broker's session, the packets of both directions and the ghost of what was accepted
\* agree in every reachable state.
THEOREM TokenAlways == Spec => []TokenInv
<1>1. QED BY TokenInit, TokenStep, InAlways, PTL DEF Spec

\* What the client has acknowledged for good (PUBACK, PUBCOMP) it has delivered to
\* on_message_v5 or still holds on the list, over lost connections and lost sessions.
THEOREM AcknowledgedIsDelivered == Spec => []NothingLost
<1>1. QED BY Delivered, InAlways, TokenAlways, PTL

\* handle__publish refuses a broker that keeps within RECEIVE_MAXIMUM only because of an
\* entry that an earlier connection left on the list.
THEOREM RefusalIsLeftOver == Spec => []RefusedOnlyIfLeftOver
<1>1. QED BY Refusal, InAlways, TokenAlways, PTL

=============================================================================
