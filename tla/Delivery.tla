------------------------------ MODULE Delivery ------------------------------
(***************************************************************************)
(* What mosquitto_publish_v5 promises for QoS 1 and QoS 2, without packets,*)
(* connections or threads.  A message is accepted, the broker takes it -   *)
(* any number of times for QoS 1, once for QoS 2 - or refuses it, and      *)
(* on_publish_v5 reports it once, after the broker's verdict; a reported   *)
(* message never reaches the broker again.  The promise has one hole: a    *)
(* QoS 2 message may be demoted, and is then as good as QoS 1.             *)
(***************************************************************************)
EXTENDS Naturals

CONSTANT Messages     \* identities of the messages

VARIABLES
  pending,    \* accepted and not reported
  reported,   \* reported by on_publish_v5
  refused,    \* the broker has answered with an error
  demoted,    \* QoS 2 messages that may be taken twice
  copies      \* copies[qos][m]: how often the broker has taken m with that QoS

vars == <<pending, reported, refused, demoted, copies>>

Init ==
  /\ pending = {}
  /\ reported = {}
  /\ refused = {}
  /\ demoted = {}
  /\ copies = [qos \in {1, 2} |-> [m \in Messages |-> 0]]

Accept(m) ==
  /\ m \notin pending \cup reported
  /\ pending' = pending \cup {m}
  /\ UNCHANGED <<reported, refused, demoted, copies>>

AtLeastOnce(m) ==
  /\ m \in pending
  /\ copies[2][m] = 0
  /\ copies' = [copies EXCEPT ![1][m] = @ + 1]
  /\ UNCHANGED <<pending, reported, refused, demoted>>

ExactlyOnce(m) ==
  /\ m \in pending
  /\ copies[1][m] = 0
  /\ copies[2][m] = 0 \/ m \in demoted
  /\ copies' = [copies EXCEPT ![2][m] = @ + 1]
  /\ UNCHANGED <<pending, reported, refused, demoted>>

Refuse(m) ==
  /\ m \in pending
  /\ refused' = refused \cup {m}
  /\ UNCHANGED <<pending, reported, demoted, copies>>

\* One reset demotes several messages
Demote ==
  /\ demoted' \in SUBSET (demoted \cup pending)
  /\ demoted \subseteq demoted'
  /\ UNCHANGED <<pending, reported, refused, copies>>

Report(m) ==
  /\ m \in pending
  /\ copies[1][m] + copies[2][m] > 0 \/ m \in refused
  /\ pending' = pending \ {m}
  /\ reported' = reported \cup {m}
  /\ UNCHANGED <<refused, demoted, copies>>

Next ==
  \/ \E m \in Messages :
       Accept(m) \/ AtLeastOnce(m) \/ ExactlyOnce(m) \/ Refuse(m) \/ Report(m)
  \/ Demote

Spec == Init /\ [][Next]_vars
=============================================================================
