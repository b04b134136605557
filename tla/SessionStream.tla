---------------------------- MODULE SessionStream ----------------------------
(* What every input promises the rest of the pipeline about its transport    *)
(* sessions: a session is announced before its first message, closed after   *)
(* its last one, and freed by a garbage message that follows the close; or   *)
(* it is destroyed at once when nobody has ever heard of it.  If the message *)
(* that should announce, close or free it cannot be allocated, the input     *)
(* says so in its log ("lost", "leak") and keeps the order of the others.    *)
(* How inputs come to their sessions is left to the modules that refine it.  *)
EXTENDS Naturals, Sequences, SequencesExt, TLAPS

CONSTANT Sessions   \* sessions in the order of their creation
VARIABLE told       \* what was said of each session, a run of messages once

Rank(e) == CASE e \in {"open", "lost"} -> 1
             [] e = "data"             -> 2
             [] e = "close"            -> 3
             [] e = "garbage"          -> 4
             [] e = "leak"             -> 5
             [] e = "destroy"          -> 6

\* The sequence t is the beginning of the life of one session.
Orderly(t) ==
    /\ \A i, j \in DOMAIN t : i < j => Rank(t[i]) < Rank(t[j])
    /\ t # <<>> => t[1] \in {"open", "lost", "destroy"}
    /\ \A i \in DOMAIN t : /\ t[i] = "garbage" => i > 1 /\ t[i - 1] = "close"
                           /\ t[i] = "destroy" => i = 1

\* Nothing will be said of the session any more.
Ended(t) == t # <<>> /\ Last(t) \in {"garbage", "leak", "destroy"}

\* The log t after the events ev (at most one run of messages) of session s.
Say(t, s, ev) ==
    [t EXCEPT ![s] = IF ev # <<>> /\ @ # <<>> /\ Head(ev) = "data" /\ Last(@) = "data"
                     THEN @ \o Tail(ev) ELSE @ \o ev]

Init == told = [s \in Sessions |-> <<>>]

\* Some sessions go on in their lives, none looks back.
Next ==
    /\ DOMAIN told' = Sessions
    /\ \A s \in Sessions : IsPrefix(told[s], told'[s]) /\ Orderly(told'[s])
Spec == Init /\ [][Next]_told

-----------------------------------------------------------------------------
(* The life of a session.  What the pipeline hears of one that lives, and of *)
(* one that has ended.                                                       *)

Event == {"open", "lost", "data", "close", "garbage", "leak", "destroy"}
Living == {<<"open">>, <<"lost">>, <<"open", "data">>, <<"lost", "data">>}
Endings == {<<"leak">>, <<"close", "leak">>, <<"close", "garbage">>}
Over == {<<"destroy">>} \cup {t \o e : t \in Living, e \in Endings}
Life == {<<>>} \cup Living \cup Over

\* The ranks.
LEMMA RankOf ==
    /\ Rank("open") = 1 /\ Rank("lost") = 1 /\ Rank("data") = 2
    /\ Rank("close") = 3 /\ Rank("garbage") = 4 /\ Rank("leak") = 5
    /\ Rank("destroy") = 6
  BY DEF Rank

\* Two sequences one after the other.
LEMMA Joined ==
    ASSUME NEW T, NEW s \in Seq(T), NEW t \in Seq(T)
    PROVE  /\ s \o t \in Seq(T) /\ Len(s \o t) = Len(s) + Len(t)
           /\ \A i \in 1 .. Len(s) : (s \o t)[i] = s[i]
           /\ \A i \in 1 .. Len(t) : (s \o t)[Len(s) + i] = t[i]
           /\ DOMAIN (s \o t) = 1 .. Len(s) + Len(t)
  OBVIOUS

\* What a living session was said, place by place.
LEMMA LivingShape ==
    ASSUME NEW t \in Living
    PROVE  /\ t \in Seq(Event) /\ Len(t) \in {1, 2} /\ DOMAIN t = 1 .. Len(t)
           /\ t[1] \in {"open", "lost"} /\ (Len(t) = 2 => t[2] = "data")
<1>1. CASE t = <<"open">>
  BY <1>1 DEF Event
<1>2. CASE t = <<"lost">>
  BY <1>2 DEF Event
<1>3. CASE t = <<"open", "data">>
  BY <1>3 DEF Event
<1>4. CASE t = <<"lost", "data">>
  BY <1>4 DEF Event
<1>5. QED
  BY <1>1, <1>2, <1>3, <1>4 DEF Living

\* What is said at its end, place by place.
LEMMA EndingShape ==
    ASSUME NEW t \in Endings
    PROVE  /\ t \in Seq(Event) /\ Len(t) \in {1, 2} /\ DOMAIN t = 1 .. Len(t)
           /\ (Len(t) = 1 => t[1] = "leak")
           /\ (Len(t) = 2 => t[1] = "close" /\ t[2] \in {"leak", "garbage"})
<1>1. CASE t = <<"leak">>
  BY <1>1 DEF Event
<1>2. CASE t = <<"close", "leak">>
  BY <1>2 DEF Event
<1>3. CASE t = <<"close", "garbage">>
  BY <1>3 DEF Event
<1>4. QED
  BY <1>1, <1>2, <1>3 DEF Endings

\* A living session is orderly and not ended ...
LEMMA LivingOrderly ==
    ASSUME NEW t \in Living
    PROVE  Orderly(t) /\ t # <<>> /\ ~Ended(t)
<1>1. /\ t \in Seq(Event) /\ Len(t) \in {1, 2} /\ DOMAIN t = 1 .. Len(t)
      /\ t[1] \in {"open", "lost"} /\ (Len(t) = 2 => t[2] = "data")
  BY LivingShape
<1>2. \A i, j \in DOMAIN t : i < j => Rank(t[i]) < Rank(t[j])
  BY <1>1, RankOf
<1>3. \A i \in DOMAIN t : t[i] \in {"open", "lost", "data"}
  BY <1>1
<1>4. Orderly(t)
  BY <1>1, <1>2, <1>3 DEF Orderly
<1>5. ~Ended(t)
  BY <1>1, <1>3 DEF Ended, Last
<1>6. QED
  BY <1>1, <1>4, <1>5

\* ... one that is over is orderly and ended ...
LEMMA OverOrderly ==
    ASSUME NEW t \in Over
    PROVE  Orderly(t) /\ t \in Seq(Event) /\ t # <<>> /\ Ended(t)
<1>1. CASE t = <<"destroy">>
  BY <1>1, RankOf DEF Event, Orderly, Ended, Last
<1>2. ASSUME NEW l \in Living, NEW e \in Endings, t = l \o e
      PROVE  Orderly(t) /\ t \in Seq(Event) /\ t # <<>> /\ Ended(t)
  <2>1. /\ l \in Seq(Event) /\ Len(l) \in {1, 2}
        /\ l[1] \in {"open", "lost"} /\ (Len(l) = 2 => l[2] = "data")
    BY LivingShape
  <2>2. /\ e \in Seq(Event) /\ Len(e) \in {1, 2}
        /\ (Len(e) = 1 => e[1] = "leak")
        /\ (Len(e) = 2 => e[1] = "close" /\ e[2] \in {"leak", "garbage"})
    BY EndingShape
  <2>3. /\ t \in Seq(Event) /\ Len(t) = Len(l) + Len(e) /\ DOMAIN t = 1 .. Len(t)
        /\ \A i \in 1 .. Len(l) : t[i] = l[i]
        /\ \A i \in 1 .. Len(e) : t[Len(l) + i] = e[i]
    BY <2>1, <2>2, <1>2, Joined
  <2>4. /\ t[1] \in {"open", "lost"} /\ (Len(l) = 2 => t[2] = "data")
        /\ (Len(e) = 1 => t[Len(l) + 1] = "leak")
        /\ (Len(e) = 2 => t[Len(l) + 1] = "close" /\ t[Len(l) + 2] \in {"leak", "garbage"})
    BY <2>1, <2>2, <2>3
  <2>5. \A i, j \in DOMAIN t : i < j => Rank(t[i]) < Rank(t[j])
    <3>1. CASE Len(l) = 1 /\ Len(e) = 1
      BY <3>1, <2>3, <2>4, RankOf
    <3>2. CASE Len(l) = 1 /\ Len(e) = 2
      BY <3>2, <2>3, <2>4, RankOf
    <3>3. CASE Len(l) = 2 /\ Len(e) = 1
      BY <3>3, <2>3, <2>4, RankOf
    <3>4. CASE Len(l) = 2 /\ Len(e) = 2
      BY <3>4, <2>3, <2>4, RankOf
    <3>5. QED
      BY <3>1, <3>2, <3>3, <3>4, <2>1, <2>2
  <2>6. \A i \in DOMAIN t : /\ t[i] = "garbage" => i > 1 /\ t[i - 1] = "close"
                            /\ t[i] = "destroy" => i = 1
    <3>1. CASE Len(l) = 1 /\ Len(e) = 1
      BY <3>1, <2>3, <2>4
    <3>2. CASE Len(l) = 1 /\ Len(e) = 2
      BY <3>2, <2>3, <2>4
    <3>3. CASE Len(l) = 2 /\ Len(e) = 1
      BY <3>3, <2>3, <2>4
    <3>4. CASE Len(l) = 2 /\ Len(e) = 2
      BY <3>4, <2>3, <2>4
    <3>5. QED
      BY <3>1, <3>2, <3>3, <3>4, <2>1, <2>2
  <2>7. Orderly(t)
    BY <2>4, <2>5, <2>6 DEF Orderly
  <2>8. t[Len(t)] \in {"garbage", "leak"}
    BY <2>1, <2>2, <2>3, <2>4
  <2>9. QED
    BY <2>1, <2>2, <2>3, <2>7, <2>8 DEF Ended, Last
<1>3. QED
  BY <1>1, <1>2 DEF Over

\* ... and so is every life at any time.
LEMMA LifeOrderly ==
    ASSUME NEW t \in Life
    PROVE  /\ Orderly(t) /\ t \in Seq(Event)
           /\ (t \in Living => t # <<>> /\ ~Ended(t)) /\ (t \in Over => t # <<>> /\ Ended(t))
           /\ ~Ended(<<>>)
<1>1. /\ Orderly(<<>>) /\ <<>> \in Seq(Event) /\ ~Ended(<<>>)
  BY DEF Orderly, Ended
<1>2. QED
  BY <1>1, LivingOrderly, LivingShape, OverOrderly DEF Life

\* What is said of one session: the log t after the events ev.
Told(t, ev) ==
    IF ev # <<>> /\ t # <<>> /\ Head(ev) = "data" /\ t[Len(t)] = "data"
    THEN t \o Tail(ev) ELSE t \o ev

\* Say changes the log of one session.
LEMMA SayIsTold ==
    ASSUME NEW t, NEW s, NEW ev
    PROVE  Say(t, s, ev) = [t EXCEPT ![s] = Told(@, ev)]
  BY DEF Say, Last, Told

\* Nothing said, nothing changed.
LEMMA TellNothing ==
    ASSUME NEW t \in Life
    PROVE  Told(t, <<>>) = t
  BY LifeOrderly DEF Told

\* The first words.
LEMMA TellFirst ==
    ASSUME NEW h \in {"open", "lost"}
    PROVE  /\ Told(<<>>, <<h>>) \in Living /\ Told(<<>>, <<h, "data">>) \in Living
           /\ Told(<<>>, <<"destroy">>) \in Over
<1>1. ASSUME NEW ev \in Seq(Event) PROVE Told(<<>>, ev) = ev
  BY <1>1 DEF Told
<1>2. /\ <<h>> \in Seq(Event) /\ <<h, "data">> \in Seq(Event) /\ <<"destroy">> \in Seq(Event)
  BY DEF Event
<1>3. /\ Told(<<>>, <<h>>) = <<h>> /\ Told(<<>>, <<h, "data">>) = <<h, "data">>
      /\ Told(<<>>, <<"destroy">>) = <<"destroy">>
  BY <1>1, <1>2
<1>4. CASE h = "open"
  BY <1>3, <1>4 DEF Living, Over
<1>5. CASE h = "lost"
  BY <1>3, <1>5 DEF Living, Over
<1>6. QED
  BY <1>4, <1>5

\* Sequences are equal when they agree everywhere.
LEMMA Same ==
    ASSUME NEW T, NEW s \in Seq(T), NEW t \in Seq(T),
           Len(s) = Len(t), \A i \in 1 .. Len(s) : s[i] = t[i]
    PROVE  s = t
  OBVIOUS

\* Two events one after the other.
LEMMA Pair ==
    ASSUME NEW T, NEW a \in T, NEW b \in T
    PROVE  <<a>> \o <<b>> = <<a, b>> /\ <<a>>[Len(<<a>>)] = a
<1>1. PICK s, t, v \in Seq(T) : s = <<a>> /\ t = <<b>> /\ v = <<a, b>>
  <2>1. <<a>> \in Seq(T) /\ <<b>> \in Seq(T) /\ <<a, b>> \in Seq(T)
    OBVIOUS
  <2>2. QED
    BY <2>1
<1>2. /\ Len(s) = 1 /\ s[1] = a /\ Len(t) = 1 /\ t[1] = b
      /\ Len(v) = 2 /\ v[1] = a /\ v[2] = b
  BY <1>1
<1>3. s \o t = v
  <2>1. s \o t \in Seq(T) /\ Len(s \o t) = 2 /\ (s \o t)[1] = a /\ (s \o t)[2] = b
    BY <1>2, Joined
  <2>2. \A i \in 1 .. 2 : (s \o t)[i] = v[i]
    BY <1>2, <2>1
  <2>3. QED
    BY <1>2, <2>1, <2>2, Same
<1>4. QED
  BY <1>1, <1>2, <1>3

\* Data are told once between other events.
LEMMA TellData ==
    ASSUME NEW t \in Living
    PROVE  Told(t, <<"data">>) \in Living
<1>1. /\ <<"data">> \in Seq(Event) /\ <<"data">> # <<>> /\ Head(<<"data">>) = "data"
      /\ Tail(<<"data">>) = <<>>
  BY DEF Event
<1>2. CASE t = <<"open">>
  <2>1. t[Len(t)] # "data" /\ t \o <<"data">> = <<"open", "data">>
    <3>1. "open" \in Event /\ "data" \in Event /\ "open" # "data"
      BY DEF Event
    <3>2. <<"open">> \o <<"data">> = <<"open", "data">> /\ <<"open">>[Len(<<"open">>)] = "open"
      BY <3>1, Pair
    <3>3. QED
      BY <3>1, <3>2, <1>2 
  <2>2. QED
    BY <2>1 DEF Told, Living
<1>3. CASE t = <<"lost">>
  <2>1. t[Len(t)] # "data" /\ t \o <<"data">> = <<"lost", "data">>
    <3>1. "lost" \in Event /\ "data" \in Event /\ "lost" # "data"
      BY DEF Event
    <3>2. <<"lost">> \o <<"data">> = <<"lost", "data">> /\ <<"lost">>[Len(<<"lost">>)] = "lost"
      BY <3>1, Pair
    <3>3. QED
      BY <3>1, <3>2, <1>3 
  <2>2. QED
    BY <2>1 DEF Told, Living
<1>4. CASE t \in {<<"open", "data">>, <<"lost", "data">>}
  <2>1. t # <<>> /\ t[Len(t)] = "data" /\ t \in Seq(Event)
    <3>1. <<"open", "data">>[Len(<<"open", "data">>)] = "data"
      OBVIOUS
    <3>2. <<"lost", "data">>[Len(<<"lost", "data">>)] = "data"
      OBVIOUS
    <3>3. QED
      BY <1>4, <3>1, <3>2, LivingShape, LivingOrderly
  <2>2. Told(t, <<"data">>) = t
    BY <1>1, <2>1 DEF Told
  <2>3. QED
    BY <2>2
<1>5. QED
  BY <1>2, <1>3, <1>4 DEF Living

\* The last words.
LEMMA TellEnd ==
    ASSUME NEW t \in Living, NEW e \in Endings
    PROVE  Told(t, e) \in Over /\ t \o e \in Over
<1>1. e # <<>> /\ Head(e) # "data"
  BY EndingShape
<1>2. QED
  BY <1>1 DEF Told, Over

\* What has been said stays said.
LEMMA ToldGrows ==
    ASSUME NEW t \in Seq(Event), NEW ev \in Seq(Event)
    PROVE  IsPrefix(t, t) /\ IsPrefix(t, t \o ev) /\ IsPrefix(t, Told(t, ev))
<1>1. ASSUME NEW u \in Seq(Event) PROVE IsPrefix(t, t \o u)
  <2>1. /\ t \o u \in Seq(Event) /\ Len(t) <= Len(t \o u)
        /\ \A i \in 1 .. Len(t) : (t \o u)[i] = t[i]
    BY <1>1, Joined
  <2>2. SubSeq(t, 1, Len(t)) = SubSeq(t \o u, 1, Len(t))
    BY <1>1, <2>1
  <2>3. QED
    BY <2>1, <2>2 DEF IsPrefix
<1>2. IsPrefix(t, t)
  BY DEF IsPrefix
<1>3. ev # <<>> => Tail(ev) \in Seq(Event)
  <2>1. ASSUME NEW u \in Seq(Event), u # <<>> PROVE Tail(u) \in Seq(Event)
    BY <2>1
  <2>2. QED
    BY <2>1
<1>4. Told(t, ev) = t \o ev \/ (ev # <<>> /\ Told(t, ev) = t \o Tail(ev))
  BY Zenon DEF Told
<1>5. IsPrefix(t, t \o ev) /\ (ev # <<>> => IsPrefix(t, t \o Tail(ev)))
  BY <1>1, <1>3, Zenon
<1>6. QED
  BY <1>2, <1>4, <1>5

-----------------------------------------------------------------------------
(* Steps of what implements this: every session goes on in its life, or one  *)
(* does.                                                                     *)

Follows(t, u) == \E ev \in Seq(Event) : u = Told(t, ev) \/ u = t \o ev

\* A session of which nothing is said goes on.
LEMMA Stays ==
    ASSUME NEW t \in Life
    PROVE  Follows(t, t)
<1>1. <<>> \in Seq(Event) /\ Told(t, <<>>) = t
  BY TellNothing
<1>2. QED
  BY <1>1 DEF Follows

\* All sessions may go on at once ...
LEMMA FollowsIsNext ==
    ASSUME told' \in [Sessions -> Life], told \in [Sessions -> Life],
           \A s \in Sessions : Follows(told[s], told'[s])
    PROVE  Next
<1>1. ASSUME NEW s \in Sessions PROVE IsPrefix(told[s], told'[s]) /\ Orderly(told'[s])
  <2>1. PICK ev \in Seq(Event) : told'[s] = Told(told[s], ev) \/ told'[s] = told[s] \o ev
    BY DEF Follows
  <2>2. told[s] \in Life /\ told'[s] \in Life
    BY <1>1
  <2>3. told[s] \in Seq(Event) /\ Orderly(told'[s])
    BY <2>2, LifeOrderly
  <2>4. IsPrefix(told[s], Told(told[s], ev)) /\ IsPrefix(told[s], told[s] \o ev)
    BY <2>3, ToldGrows
  <2>5. QED
    BY <2>1, <2>3, <2>4
<1>2. DOMAIN told' = Sessions
  OBVIOUS
<1>3. QED
  BY <1>1, <1>2 DEF Next

\* ... or one.
LEMMA SayIsNext ==
    ASSUME told \in [Sessions -> Life], NEW s \in Sessions, NEW ev \in Seq(Event),
           Told(told[s], ev) \in Life, told' = Say(told, s, ev)
    PROVE  /\ told' \in [Sessions -> Life] /\ told'[s] = Told(told[s], ev)
           /\ \A r \in Sessions : r # s => told'[r] = told[r]
           /\ Next
<1>1. told' = [told EXCEPT ![s] = Told(@, ev)]
  BY SayIsTold
<1>2. /\ told' \in [Sessions -> Life] /\ told'[s] = Told(told[s], ev)
      /\ \A r \in Sessions : r # s => told'[r] = told[r]
  BY <1>1
<1>3. ASSUME NEW r \in Sessions PROVE Follows(told[r], told'[r])
  BY <1>2, Stays DEF Follows
<1>4. QED
  BY <1>2, <1>3, FollowsIsNext
=============================================================================
