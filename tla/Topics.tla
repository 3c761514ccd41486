-------------------------------- MODULE Topics --------------------------------
(***************************************************************************)
(* Topics and topic filters: which of them are valid, and which topics a   *)
(* filter matches, as util_topic.c decides it character by character.      *)
(***************************************************************************)
EXTENDS Integers, Sequences

\* A string of C, which 0 would end
CString == Seq(1..255)

Hash == 35
Dollar == 36
Plus == 43
Slash == 47

\* The character at i, 0 behind the end
CharAt(s, i) == IF i \in DOMAIN s THEN s[i] ELSE 0
Rest(s, i) == SubSeq(s, i, Len(s))
Wildcards == {Plus, Hash}

\* mosquitto_pub_topic_check
PubTopicValid(s) == Len(s) <= 65535 /\ \A i \in DOMAIN s : s[i] \notin Wildcards

\* mosquitto_sub_topic_check
SubTopicValid(s) ==
  /\ Len(s) <= 65535
  /\ \A i \in DOMAIN s :
       /\ s[i] \in Wildcards => CharAt(s, i - 1) \in {0, Slash}
       /\ s[i] = Plus => CharAt(s, i + 1) \in {0, Slash}
       /\ s[i] = Hash => i = Len(s)

-----------------------------------------------------------------------------
(* mosquitto_topic_matches_sub.  The topic has no wildcard, so that the    *)
(* branches for one are out of reach.  A filter that is found invalid on   *)
(* the way (MOSQ_ERR_INVAL) does not match.  s and t are where sub and     *)
(* topic point.                                                            *)

\* Where the level of the topic ends that t points into
LevelEnd(topic, t) ==
  CHOOSE e \in t..Len(topic) + 1 :
    /\ CharAt(topic, e) \in {0, Slash}
    /\ \A i \in t..e - 1 : topic[i] # Slash

\* Mutant: a filter that ends in /# does not match its parent
ParentNot(sub, s) == FALSE

\* foo matches foo/#
ParentMatches(sub, s) == Rest(sub, s) = <<Slash, Hash>>

\* What is left of the filter when the topic has come to its end behind a '+'
PlusParentMatches(sub, s) ==
  /\ s > 1 /\ CharAt(sub, s - 1) = Plus
  /\ CharAt(sub, s) = Slash /\ CharAt(sub, s + 1) = Hash

\* Next to a wildcard there must be a separator, or the end of the filter
Bounds(sub, s) == CharAt(sub, s) \in {0, Slash}

\* The loop over the filter
MatchesFrom(sub, topic) ==
  LET From[s \in 1..Len(sub) + 1] ==
        [t \in 1..Len(topic) + 1 |->
           IF s > Len(sub) THEN FALSE
           ELSE IF sub[s] # CharAt(topic, t)
           THEN CASE sub[s] = Plus ->
                       LET e == LevelEnd(topic, t) IN
                       /\ Bounds(sub, s - 1) /\ Bounds(sub, s + 1)
                       /\ (e > Len(topic) /\ s = Len(sub)) \/ From[s + 1][e]
                  [] sub[s] = Hash -> Bounds(sub, s - 1) /\ s = Len(sub)
                  [] OTHER -> t > Len(topic) /\ PlusParentMatches(sub, s)
           ELSE \/ t = Len(topic) /\ ParentMatches(sub, s + 1)
                \/ s = Len(sub) /\ t = Len(topic)
                \/ t = Len(topic) /\ Rest(sub, s + 1) = <<Plus>> /\ sub[s] = Slash
                \/ From[s + 1][t + 1]]
  IN From

TopicMatches(sub, topic) ==
  /\ sub # <<>> /\ topic # <<>>
  /\ sub[1] = Dollar <=> topic[1] = Dollar
  /\ MatchesFrom(sub, topic)[1][1]

-----------------------------------------------------------------------------
(* The reference: a filter matches level by level                          *)

\* The levels of what begins at each place of a text: a separator ends a level, another
\* character belongs to the first one
LevelsFrom(s) ==
  LET From[i \in 1..Len(s) + 1] ==
        IF i > Len(s) THEN << <<>> >>
        ELSE IF s[i] = Slash THEN << <<>> >> \o From[i + 1]
        ELSE << <<s[i]>> \o Head(From[i + 1]) >> \o Tail(From[i + 1])
  IN From
Levels(s) == LevelsFrom(s)[1]

\* Levels match those of a filter; a last level "#" stands for any number of them
MatchesLevels(filter, levels) ==
  LET fixed == IF filter[Len(filter)] = <<Hash>> THEN Len(filter) - 1 ELSE Len(filter) IN
  /\ IF fixed = Len(filter) THEN Len(levels) = fixed ELSE Len(levels) >= fixed
  /\ \A k \in 1..fixed : filter[k] \in {<<Plus>>, levels[k]}

MatchesByLevel(sub, topic) ==
  /\ MatchesLevels(Levels(sub), Levels(topic))
  /\ topic[1] = Dollar => sub[1] = Dollar

=============================================================================
