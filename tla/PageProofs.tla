------------------------------ MODULE PageProofs ------------------------------
(***************************************************************************)
(* Proofs about BrowserDeadman for any room on the port and any time out of   *)
(* the dead-man.  What is under way is one sequence of words: an action takes *)
(* its first word, adds one behind it, or leaves it alone.                    *)
(***************************************************************************)
EXTENDS BrowserDeadman, TLAPS, SequenceTheorems, FiniteSetTheorems, FunctionTheorems

-----------------------------------------------------------------------------
(* What is inductive about the page *)

\* A heartbeat is that of a hold.  The rest of a line is left in the Teensy only by
\* a page that is gone, and the next page comes to a stale dead-man.
PageInv ==
    /\ PageTypeOK /\ SpaceDecides
    /\ heartbeat = spaceHeld
    /\ connected /\ plugged /\ teensy.cut =>
            teensy.age = DeadmanBeats /\ teensy.mode # "TRIAL"

-----------------------------------------------------------------------------
(* The types of what waits *)

Writes == [word : Words, then : Continuations]
Teensys == [mode : {"DISARMED", "TRIAL", "FAULT"}, held : BOOLEAN,
            age : 0 .. DeadmanBeats, cut : BOOLEAN]

-----------------------------------------------------------------------------
(* What is on its way *)

WordsOf(list) == [i \in DOMAIN list |-> list[i].word]

LEMMA WordsOfType ==
    ASSUME NEW list \in Seq(Writes)
    PROVE  /\ WordsOf(list) \in Seq(Words) /\ Len(WordsOf(list)) = Len(list)
           /\ \A i \in 1 .. Len(list) : WordsOf(list)[i] = list[i].word
<1>1. /\ Len(list) \in Nat /\ DOMAIN list = 1 .. Len(list)
      /\ \A i \in 1 .. Len(list) : list[i] \in Writes
    BY LenProperties, ElementOfSeq
<1>2. WordsOf(list) \in [1 .. Len(list) -> Words]
    BY <1>1 DEF WordsOf, Writes
<1>3. WordsOf(list) \in Seq(Words)
    BY <1>1, <1>2
<1> QED
    BY <1>1, <1>2, <1>3 DEF WordsOf

\* A write that is queued adds its word at the end.
LEMMA QueueWay ==
    ASSUME NEW ls \in Seq(Words), NEW list \in Seq(Writes), NEW w \in Writes
    PROVE  ls \o WordsOf(Append(list, w)) = Append(ls \o WordsOf(list), w.word)
<1>1. Append(list, w) \in Seq(Writes) /\ Len(Append(list, w)) = Len(list) + 1
      /\ \A i \in 1 .. Len(list) + 1 :
            Append(list, w)[i] = IF i = Len(list) + 1 THEN w ELSE list[i]
    OBVIOUS
<1>2. w.word \in Words /\ Len(ls) \in Nat /\ Len(list) \in Nat
    BY DEF Writes
<1> DEFINE old == WordsOf(list)
           new == WordsOf(Append(list, w))
<1>3. /\ old \in Seq(Words) /\ Len(old) = Len(list)
      /\ \A i \in 1 .. Len(list) : old[i] = list[i].word
    BY WordsOfType
<1>4. /\ new \in Seq(Words) /\ Len(new) = Len(list) + 1
      /\ \A i \in 1 .. Len(list) + 1 : new[i] = Append(list, w)[i].word
    BY <1>1, WordsOfType
<1> HIDE DEF old, new
<1>5. new = Append(old, w.word)
  <2>1. Append(old, w.word) \in Seq(Words) /\ Len(Append(old, w.word)) = Len(new)
      BY <1>2, <1>3, <1>4
  <2>2. ASSUME NEW i \in 1 .. Len(new) PROVE new[i] = Append(old, w.word)[i]
      BY <1>1, <1>2, <1>3, <1>4
  <2> QED
      BY <2>1, <2>2, <1>4, SeqEqual
<1>6. ls \o Append(old, w.word) = Append(ls \o old, w.word)
    BY <1>2, <1>3
<1> QED
    BY <1>5, <1>6 DEF old, new

\* A write that goes out stays under way, at the same place.
LEMMA WriteWay ==
    ASSUME NEW ls \in Seq(Words), NEW list \in Seq(Writes), list # <<>>
    PROVE  Append(ls, Head(list).word) \o WordsOf(Tail(list)) = ls \o WordsOf(list)
<1> DEFINE w == Head(list).word
           rest == WordsOf(Tail(list))
           old == WordsOf(list)
<1>1. /\ Tail(list) \in Seq(Writes) /\ Len(Tail(list)) = Len(list) - 1
      /\ \A i \in 1 .. Len(Tail(list)) : Tail(list)[i] = list[i + 1]
    BY HeadTailProperties
<1>2. Head(list) = list[1] /\ w \in Words /\ Len(list) \in Nat \ {0} /\ Len(ls) \in Nat
  <2>1. Head(list) \in Writes
      BY HeadTailProperties
  <2>2. Len(list) \in Nat \ {0} /\ Len(ls) \in Nat
      BY EmptySeq
  <2> QED
      BY <2>1, <2>2 DEF Writes
<1>3. /\ old \in Seq(Words) /\ Len(old) = Len(list)
      /\ \A i \in 1 .. Len(list) : old[i] = list[i].word
    BY WordsOfType
<1>4. /\ rest \in Seq(Words) /\ Len(rest) = Len(list) - 1
      /\ \A i \in 1 .. Len(list) - 1 : rest[i] = list[i + 1].word
    BY <1>1, <1>2, WordsOfType
<1>5. w = list[1].word
    BY <1>2
<1> HIDE DEF w, rest, old
<1>6. Append(ls, w) \in Seq(Words) /\ Len(Append(ls, w)) = Len(ls) + 1
      /\ \A i \in 1 .. Len(ls) + 1 :
            Append(ls, w)[i] = IF i = Len(ls) + 1 THEN w ELSE ls[i]
    BY <1>2
<1>7. /\ Append(ls, w) \o rest \in Seq(Words)
      /\ Len(Append(ls, w) \o rest) = Len(ls) + Len(list)
      /\ \A i \in 1 .. Len(ls) + Len(list) : (Append(ls, w) \o rest)[i]
            = IF i <= Len(ls) + 1 THEN Append(ls, w)[i] ELSE rest[i - (Len(ls) + 1)]
  <2>1. PICK more \in Seq(Words) : more = Append(ls, w)
      BY <1>6
  <2>2. /\ more \o rest \in Seq(Words) /\ Len(more \o rest) = Len(more) + Len(rest)
        /\ \A i \in 1 .. Len(more) + Len(rest) : (more \o rest)[i]
              = IF i <= Len(more) THEN more[i] ELSE rest[i - Len(more)]
      BY <1>4, ConcatProperties
  <2>3. Len(more) = Len(ls) + 1 /\ Len(more) + Len(rest) = Len(ls) + Len(list)
      BY <2>1, <1>2, <1>4, <1>6
  <2> QED
      BY <2>1, <2>2, <2>3, Zenon
<1>8. /\ ls \o old \in Seq(Words) /\ Len(ls \o old) = Len(ls) + Len(list)
      /\ \A i \in 1 .. Len(ls) + Len(list) :
            (ls \o old)[i] = IF i <= Len(ls) THEN ls[i] ELSE old[i - Len(ls)]
  <2>1. /\ ls \o old \in Seq(Words) /\ Len(ls \o old) = Len(ls) + Len(old)
        /\ \A i \in 1 .. Len(ls) + Len(old) :
              (ls \o old)[i] = IF i <= Len(ls) THEN ls[i] ELSE old[i - Len(ls)]
      BY <1>3, ConcatProperties
  <2> QED
      BY <2>1, <1>3, Zenon
<1>9. ASSUME NEW i \in 1 .. Len(ls) + Len(list)
      PROVE  (Append(ls, w) \o rest)[i] = (ls \o old)[i]
  <2>1. CASE i <= Len(ls)
      BY <2>1, <1>2, <1>6, <1>7, <1>8
  <2>2. CASE i = Len(ls) + 1
      BY <2>2, <1>2, <1>3, <1>5, <1>6, <1>7, <1>8
  <2>3. CASE i > Len(ls) + 1
    <3>1. i - (Len(ls) + 1) \in 1 .. Len(list) - 1 /\ i - Len(ls) \in 1 .. Len(list)
          /\ i - (Len(ls) + 1) + 1 = i - Len(ls)
        BY <2>3, <1>2
    <3>2. rest[i - (Len(ls) + 1)] = list[i - Len(ls)].word
        BY <3>1, <1>4
    <3>3. old[i - Len(ls)] = list[i - Len(ls)].word
        BY <3>1, <1>3
    <3> QED
        BY <2>3, <3>2, <3>3, <1>2, <1>7, <1>8
  <2>4. i <= Len(ls) \/ i = Len(ls) + 1 \/ i > Len(ls) + 1
      BY <1>2
  <2> QED
      BY <2>1, <2>2, <2>3, <2>4, Zenon
<1>10. Append(ls, w) \o rest = ls \o old
    BY <1>7, <1>8, <1>9, SeqEqual
<1> QED
    BY <1>10 DEF w, rest, old

\* A line that is executed was the first word.
LEMMA ExecuteWay ==
    ASSUME NEW ls \in Seq(Words), NEW words \in Seq(Words), ls # <<>>
    PROVE  /\ ls \o words \in Seq(Words) /\ ls \o words # <<>>
           /\ Head(ls \o words) = Head(ls)
           /\ Tail(ls \o words) = Tail(ls) \o words
<1>1. Len(ls) \in Nat \ {0} /\ Len(words) \in Nat /\ Head(ls) = ls[1]
    BY EmptySeq
<1>2. /\ Tail(ls) \in Seq(Words) /\ Len(Tail(ls)) = Len(ls) - 1
      /\ \A i \in 1 .. Len(Tail(ls)) : Tail(ls)[i] = ls[i + 1]
    BY HeadTailProperties
<1> DEFINE all == ls \o words
<1>3. /\ all \in Seq(Words) /\ Len(all) = Len(ls) + Len(words)
      /\ \A i \in 1 .. Len(ls) + Len(words) :
            all[i] = IF i <= Len(ls) THEN ls[i] ELSE words[i - Len(ls)]
    BY ConcatProperties
<1>4. /\ Tail(ls) \o words \in Seq(Words)
      /\ Len(Tail(ls) \o words) = Len(ls) - 1 + Len(words)
      /\ \A i \in 1 .. Len(ls) - 1 + Len(words) : (Tail(ls) \o words)[i]
            = IF i <= Len(ls) - 1 THEN Tail(ls)[i] ELSE words[i - (Len(ls) - 1)]
    BY <1>1, <1>2, ConcatProperties
<1> HIDE DEF all
<1>5. all # <<>> /\ Head(all) = all[1]
    BY <1>1, <1>3
<1>6. /\ Tail(all) \in Seq(Words) /\ Len(Tail(all)) = Len(ls) - 1 + Len(words)
      /\ \A i \in 1 .. Len(ls) - 1 + Len(words) : Tail(all)[i] = all[i + 1]
    BY <1>1, <1>3, <1>5, HeadTailProperties
<1>7. ASSUME NEW i \in 1 .. Len(ls) - 1 + Len(words)
      PROVE  Tail(all)[i] = (Tail(ls) \o words)[i]
  <2>1. CASE i <= Len(ls) - 1
      BY <2>1, <1>1, <1>2, <1>3, <1>4, <1>6
  <2>2. CASE i > Len(ls) - 1
    <3>1. (i + 1) - Len(ls) = i - (Len(ls) - 1)
        BY <1>1
    <3>2. all[i + 1] = words[(i + 1) - Len(ls)]
        BY <2>2, <1>1, <1>3
    <3>3. (Tail(ls) \o words)[i] = words[i - (Len(ls) - 1)]
        BY <2>2, <1>1, <1>4
    <3> QED
        BY <3>1, <3>2, <3>3, <1>6, Zenon
  <2>3. i <= Len(ls) - 1 \/ i > Len(ls) - 1
      BY <1>1
  <2> QED
      BY <2>1, <2>2, <2>3, Zenon
<1>8. Tail(all) = Tail(ls) \o words
    BY <1>4, <1>6, <1>7, SeqEqual
<1>9. Head(all) = Head(ls)
    BY <1>1, <1>3, <1>5
<1> QED
    BY <1>3, <1>5, <1>8, <1>9 DEF all

-----------------------------------------------------------------------------
(* The room on the port *)

LEMMA StartsType ==
    ASSUME NEW list \in Seq(Writes)
    PROVE  /\ IsFiniteSet(Starts(list)) /\ Cardinality(Starts(list)) \in Nat
           /\ Starts(list) \subseteq 1 .. Len(list)
<1>1. Starts(list) \subseteq 1 .. Len(list)
    BY DEF Starts
<1>2. Len(list) \in Int
    OBVIOUS
<1>3. IsFiniteSet(1 .. Len(list))
    BY <1>2, FS_Interval
<1> QED
    BY <1>1, <1>3, FS_Subset, FS_CardinalityType

\* A queued write counts once more if it is the hold of a start.
LEMMA StartsOfAppend ==
    ASSUME NEW list \in Seq(Writes), NEW w \in Writes
    PROVE  Cardinality(Starts(Append(list, w)))
             = Cardinality(Starts(list)) + (IF w.then = "start" THEN 1 ELSE 0)
<1> DEFINE more == Append(list, w)
<1>1. /\ Len(list) \in Nat /\ Len(more) = Len(list) + 1
      /\ DOMAIN more = 1 .. Len(list) + 1 /\ DOMAIN list = 1 .. Len(list)
      /\ more[Len(list) + 1] = w
      /\ \A i \in 1 .. Len(list) : more[i] = list[i]
    OBVIOUS
<1> HIDE DEF more
<1>2. CASE w.then = "start"
  <2>1. Starts(more) = Starts(list) \cup {Len(list) + 1}
      BY <1>1, <1>2 DEF Starts
  <2>2. Len(list) + 1 \notin Starts(list)
      BY <1>1 DEF Starts
  <2>3. Cardinality(Starts(list) \cup {Len(list) + 1}) = Cardinality(Starts(list)) + 1
      BY <2>2, StartsType, FS_AddElement
  <2> QED
      BY <2>1, <2>3, <1>2, Zenon DEF more
<1>3. CASE w.then # "start"
  <2>1. Starts(more) = Starts(list)
      BY <1>1, <1>3 DEF Starts
  <2> QED
      BY <2>1, <1>3, StartsType DEF more
<1> QED
    BY <1>2, <1>3

\* One that is taken counts once less.
LEMMA StartsOfTail ==
    ASSUME NEW list \in Seq(Writes), list # <<>>
    PROVE  Cardinality(Starts(Tail(list))) + (IF Head(list).then = "start" THEN 1 ELSE 0)
             = Cardinality(Starts(list))
<1> DEFINE rest == Tail(list)
           later == Starts(list) \ {1}
           down == [i \in Starts(rest) |-> i + 1]
<1>1. /\ rest \in Seq(Writes) /\ Len(rest) = Len(list) - 1
      /\ \A i \in 1 .. Len(rest) : rest[i] = list[i + 1]
    BY HeadTailProperties
<1>2. Len(list) \in Nat \ {0} /\ Head(list) = list[1]
    BY EmptySeq
<1>3. DOMAIN rest = 1 .. Len(list) - 1 /\ DOMAIN list = 1 .. Len(list)
    BY <1>1, LenProperties
<1> HIDE DEF rest
<1>4. down \in Bijection(Starts(rest), later)
  <2>1. down \in [Starts(rest) -> later]
      BY <1>1, <1>2, <1>3 DEF Starts
  <2>2. \A a, b \in Starts(rest) : down[a] = down[b] => a = b
      BY <1>1, <1>2, <1>3 DEF Starts
  <2>3. ASSUME NEW j \in later PROVE \E i \in Starts(rest) : down[i] = j
    <3>1. j \in 2 .. Len(list) /\ list[j].then = "start"
        BY <1>2, <1>3 DEF Starts
    <3>2. j - 1 \in 1 .. Len(list) - 1 /\ (j - 1) + 1 = j
        BY <3>1, <1>2
    <3>3. rest[j - 1] = list[j]
        BY <3>2, <1>1
    <3>4. j - 1 \in Starts(rest)
        BY <3>1, <3>2, <3>3, <1>3 DEF Starts
    <3>5. down[j - 1] = j
        BY <3>2, <3>4
    <3> QED
        BY <3>4, <3>5
  <2> HIDE DEF down, later
  <2> QED
      BY <2>1, <2>2, <2>3, Fun_IsBij
<1>5. Cardinality(later) = Cardinality(Starts(rest))
    BY <1>1, <1>4, StartsType, Fun_ExistsBij, FS_Bijection
<1>6. 1 \in Starts(list) <=> Head(list).then = "start"
    BY <1>2, <1>3 DEF Starts
<1>7. Cardinality(later)
        = IF 1 \in Starts(list) THEN Cardinality(Starts(list)) - 1
          ELSE Cardinality(Starts(list))
    BY StartsType, FS_RemoveElement
<1>8. Cardinality(Starts(list)) \in Nat
    BY StartsType
<1> QED
    BY <1>5, <1>6, <1>7, <1>8 DEF rest

-----------------------------------------------------------------------------
(* What it leaves of a hold *)

\* A word that is no hold does no harm at the end.
LEMMA EndsWithMore ==
    ASSUME NEW t \in Teensys, NEW way \in Seq(Words), NEW w \in Words,
           w # "deadman_hold", EndsBy(t, way)
    PROVE  EndsBy(t, Append(way, w))
<1>1. /\ Len(way) \in Nat /\ Len(Append(way, w)) = Len(way) + 1
      /\ \A i \in 1 .. Len(way) + 1 :
            Append(way, w)[i] = IF i = Len(way) + 1 THEN w ELSE way[i]
    OBVIOUS
<1> DEFINE more == Append(way, w)
<1> HIDE DEF more
<1>2. t.cut \in BOOLEAN
    BY DEF Teensys
<1>3. CASE \E k \in (IF t.cut THEN 2 ELSE 1) .. Len(way) :
                /\ way[k] = "deadman_release"
                /\ \A i \in k .. Len(way) : way[i] # "deadman_hold"
  <2>1. PICK k \in (IF t.cut THEN 2 ELSE 1) .. Len(way) :
                /\ way[k] = "deadman_release"
                /\ \A i \in k .. Len(way) : way[i] # "deadman_hold"
      BY <1>3
  <2>2. k \in 1 .. Len(way) /\ k \in (IF t.cut THEN 2 ELSE 1) .. Len(more)
      BY <2>1, <1>1, <1>2 DEF more
  <2>3. more[k] = "deadman_release"
      BY <2>1, <2>2, <1>1 DEF more
  <2>4. \A i \in k .. Len(more) : more[i] # "deadman_hold"
      BY <2>1, <2>2, <1>1 DEF more
  <2> QED
      BY <2>2, <2>3, <2>4 DEF EndsBy, more
<1>4. CASE /\ ~Fresh(t) /\ t.mode # "TRIAL"
           /\ \A i \in (IF t.cut THEN 2 ELSE 1) .. Len(way) : way[i] # "deadman_hold"
  <2>1. \A i \in (IF t.cut THEN 2 ELSE 1) .. Len(more) : more[i] # "deadman_hold"
      BY <1>4, <1>1, <1>2 DEF more
  <2> QED
      BY <1>4, <2>1 DEF EndsBy, more
<1> QED
    BY <1>3, <1>4 DEF EndsBy

\* A release at the end is enough, but for one that is lost on the rest of a line.
LEMMA ReleaseEnds ==
    ASSUME NEW t \in Teensys, NEW way \in Seq(Words),
           t.cut => ~Fresh(t) /\ t.mode # "TRIAL"
    PROVE  EndsBy(t, Append(way, "deadman_release"))
<1> DEFINE more == Append(way, "deadman_release")
<1>1. /\ Len(way) \in Nat /\ Len(more) = Len(way) + 1
      /\ more[Len(way) + 1] = "deadman_release"
    BY DEF Words
<1>2. t.cut \in BOOLEAN
    BY DEF Teensys
<1> HIDE DEF more
<1>3. CASE t.cut /\ Len(way) = 0
  <2>1. \A i \in (IF t.cut THEN 2 ELSE 1) .. Len(more) : more[i] # "deadman_hold"
      BY <1>3, <1>1
  <2> QED
      BY <1>3, <2>1 DEF EndsBy, more
<1>4. CASE ~(t.cut /\ Len(way) = 0)
  <2>1. Len(way) + 1 \in (IF t.cut THEN 2 ELSE 1) .. Len(more)
      BY <1>4, <1>1, <1>2
  <2>2. \A i \in Len(way) + 1 .. Len(more) : more[i] # "deadman_hold"
      BY <1>1
  <2> QED
      BY <2>1, <2>2, <1>1 DEF EndsBy, more
<1> QED
    BY <1>3, <1>4

\* Executing the first word leaves what the rest will do.
LEMMA EndsAfterWord ==
    ASSUME NEW t \in Teensys, NEW way \in Seq(Words), way # <<>>,
           NEW allowed \in BOOLEAN, EndsBy(t, way)
    PROVE  EndsBy(Executed(t, Head(way), allowed), Tail(way))
<1> DEFINE word == Head(way)
           after == Executed(t, word, allowed)
           rest == Tail(way)
<1>1. /\ Len(way) \in Nat \ {0} /\ Len(rest) = Len(way) - 1
      /\ \A i \in 1 .. Len(rest) : rest[i] = way[i + 1]
      /\ word = way[1] /\ word \in Words
    BY EmptySeq, HeadTailProperties
<1>2. /\ t.cut \in BOOLEAN /\ t.held \in BOOLEAN /\ t.age \in 0 .. DeadmanBeats
    BY DEF Teensys
<1> HIDE DEF word, rest
<1>3. ~after.cut
    BY <1>1, <1>2 DEF Executed, Teensys, Words
<1>4. ASSUME ~Fresh(t), t.mode # "TRIAL", t.cut \/ word # "deadman_hold"
      PROVE  ~Fresh(after) /\ after.mode # "TRIAL"
    BY <1>1, <1>2, <1>4 DEF Executed, Teensys, Words, Fresh
<1>5. ASSUME ~t.cut, word = "deadman_release"
      PROVE  ~Fresh(after) /\ after.mode # "TRIAL"
    BY <1>1, <1>2, <1>5 DEF Executed, Teensys, Words, Fresh
<1> HIDE DEF after
\* A release further on moves up; the first word, if it is the release, is done.
<1>6. CASE \E k \in (IF t.cut THEN 2 ELSE 1) .. Len(way) :
                /\ way[k] = "deadman_release"
                /\ \A i \in k .. Len(way) : way[i] # "deadman_hold"
  <2>1. PICK k \in (IF t.cut THEN 2 ELSE 1) .. Len(way) :
                /\ way[k] = "deadman_release"
                /\ \A i \in k .. Len(way) : way[i] # "deadman_hold"
      BY <1>6
  <2>2. k \in 1 .. Len(way) /\ (t.cut => k # 1)
      BY <2>1, <1>1, <1>2
  <2>3. CASE k = 1
    <3>1. \A i \in 1 .. Len(rest) : rest[i] # "deadman_hold"
        BY <2>1, <2>3, <1>1
    <3>2. ~Fresh(after) /\ after.mode # "TRIAL"
        BY <2>1, <2>2, <2>3, <1>1, <1>5
    <3> QED
        BY <3>1, <3>2, <1>3 DEF EndsBy, after, word, rest
  <2>4. CASE k # 1
    <3>1. k - 1 \in 1 .. Len(rest) /\ rest[k - 1] = "deadman_release"
        BY <2>1, <2>2, <2>4, <1>1
    <3>2. \A i \in k - 1 .. Len(rest) : rest[i] # "deadman_hold"
        BY <2>1, <2>2, <2>4, <1>1
    <3> QED
        BY <3>1, <3>2, <1>3 DEF EndsBy, after, word, rest
  <2> QED
      BY <2>3, <2>4
<1>7. CASE /\ ~Fresh(t) /\ t.mode # "TRIAL"
           /\ \A i \in (IF t.cut THEN 2 ELSE 1) .. Len(way) : way[i] # "deadman_hold"
  <2>1. \A i \in 2 .. Len(way) : way[i] # "deadman_hold"
      BY <1>7, <1>1, <1>2
  <2>2. \A i \in 1 .. Len(rest) : rest[i] # "deadman_hold"
      BY <2>1, <1>1
  <2>3. t.cut \/ word # "deadman_hold"
      BY <1>7, <1>1, <1>2
  <2>4. ~Fresh(after) /\ after.mode # "TRIAL"
      BY <1>4, <1>7, <2>3
  <2> QED
      BY <2>2, <2>4, <1>3 DEF EndsBy, after, word, rest
<1> QED
    BY <1>6, <1>7 DEF EndsBy

\* What happens on the Teensy by itself makes no hold.
LEMMA EndsLater ==
    ASSUME NEW t, NEW u, NEW way, u.cut = t.cut, Fresh(u) => Fresh(t),
           u.mode = "TRIAL" => t.mode = "TRIAL", EndsBy(t, way)
    PROVE  EndsBy(u, way)
    BY DEF EndsBy

-----------------------------------------------------------------------------
(* The state *)

\* What the type invariant says, but for the room, with the record sets named.
StateOK ==
    /\ {spaceHeld, heartbeat, focused, connected, startSent, plugged} \subseteq BOOLEAN
    /\ shown \in {"none", "ready", "DISARMED", "TRIAL", "FAULT"}
    /\ writes \in Seq(Writes) /\ lines \in Seq(Words) /\ teensy \in Teensys

\* The key and the timer go together; the rest of a line meets no trial.
KeyOK == heartbeat = spaceHeld
CutOK == connected /\ plugged /\ teensy.cut =>
             teensy.age = DeadmanBeats /\ teensy.mode # "TRIAL"

LEMMA PageParts ==
    PageInv <=> StateOK /\ Load <= MaxWrites /\ SpaceDecides /\ KeyOK /\ CutOK
    BY DEF PageInv, PageTypeOK, StateOK, KeyOK, CutOK, Writes, Teensys

LoadOf(ls, list) == Len(list) + Len(ls) + Cardinality(Starts(list))

LEMMA Loads == Load = LoadOf(lines, writes) /\ Load' = LoadOf(lines', writes')
    BY DEF Load, LoadOf

LEMMA Ways == Way = lines \o WordsOf(writes) /\ Way' = lines' \o WordsOf(writes')
    BY DEF Way, WordsOf

LEMMA LoadType ==
    ASSUME StateOK
    PROVE  /\ Load \in Nat /\ Len(writes) \in Nat /\ Len(lines) \in Nat
           /\ Cardinality(Starts(writes)) \in Nat
    BY StartsType, LenProperties DEF StateOK, Load

LEMMA WayType ==
    ASSUME StateOK
    PROVE  Way \in Seq(Words)
<1>1. WordsOf(writes) \in Seq(Words) /\ lines \in Seq(Words)
    BY WordsOfType DEF StateOK
<1> QED
    BY <1>1, Ways, ConcatProperties

\* A handler queues one write.
LEMMA LoadAppend ==
    ASSUME NEW ls \in Seq(Words), NEW list \in Seq(Writes), NEW w \in Writes
    PROVE  /\ Append(list, w) \in Seq(Writes)
           /\ LoadOf(ls, list) \in Nat
           /\ LoadOf(ls, Append(list, w))
                = LoadOf(ls, list) + 1 + (IF w.then = "start" THEN 1 ELSE 0)
<1> DEFINE more == IF w.then = "start" THEN 1 ELSE 0
           new == Append(list, w)
<1>1. more \in Nat
    OBVIOUS
<1>2. new \in Seq(Writes) /\ Len(new) = Len(list) + 1
      /\ Len(list) \in Nat /\ Len(ls) \in Nat
    OBVIOUS
<1>3. Cardinality(Starts(new)) = Cardinality(Starts(list)) + more
    BY StartsOfAppend, Zenon
<1>4. Cardinality(Starts(list)) \in Nat
    BY StartsType
<1> HIDE DEF more, new
<1>5. LoadOf(ls, new) = LoadOf(ls, list) + 1 + more /\ LoadOf(ls, list) \in Nat
    BY <1>1, <1>2, <1>3, <1>4 DEF LoadOf
<1> QED
    BY <1>2, <1>5 DEF more, new

LEMMA LoadTail ==
    ASSUME NEW ls \in Seq(Words), NEW list \in Seq(Writes), list # <<>>
    PROVE  /\ Tail(list) \in Seq(Writes)
           /\ LoadOf(ls, Tail(list)) \in Nat
           /\ LoadOf(ls, Tail(list)) + 1 + (IF Head(list).then = "start" THEN 1 ELSE 0)
                = LoadOf(ls, list)
<1> DEFINE more == IF Head(list).then = "start" THEN 1 ELSE 0
           rest == Tail(list)
<1>1. more \in Nat
    OBVIOUS
<1>2. rest \in Seq(Writes) /\ Len(rest) = Len(list) - 1
    BY HeadTailProperties
<1>3. Len(list) \in Nat \ {0} /\ Len(ls) \in Nat
    BY EmptySeq
<1>4. Cardinality(Starts(rest)) + more = Cardinality(Starts(list))
    BY StartsOfTail, Zenon
<1>5. Cardinality(Starts(rest)) \in Nat /\ Cardinality(Starts(list)) \in Nat
    BY <1>2, StartsType
<1> HIDE DEF more, rest
<1>6. LoadOf(ls, rest) + 1 + more = LoadOf(ls, list) /\ LoadOf(ls, rest) \in Nat
    BY <1>1, <1>2, <1>3, <1>4, <1>5 DEF LoadOf
<1> QED
    BY <1>2, <1>6 DEF more, rest

LEMMA Queued ==
    ASSUME StateOK, NEW w \in Writes, writes' = Append(writes, w), lines' = lines
    PROVE  /\ writes' \in Seq(Writes)
           /\ Load' = Load + 1 + (IF w.then = "start" THEN 1 ELSE 0)
           /\ Way' = Append(Way, w.word)
<1>1. writes \in Seq(Writes) /\ lines \in Seq(Words)
    BY DEF StateOK
<1>2. Way' = Append(Way, w.word)
    BY <1>1, QueueWay, Ways, Zenon
<1>3. Load' = LoadOf(lines, Append(writes, w)) /\ Load = LoadOf(lines, writes)
    BY Loads
<1> QED
    BY <1>1, <1>2, <1>3, LoadAppend, Zenon

LEMMA SentOne ==
    ASSUME StateOK, connected, NEW w
    PROVE  Sent(<<w>>) = Append(writes, w)
    BY DEF StateOK, Sent

-----------------------------------------------------------------------------
(* The Teensy's steps *)

\* The dead-man is out at the rest of a line.
LEMMA CutStale ==
    ASSUME StateOK, CutOK, connected, plugged, teensy.cut
    PROVE  ~Fresh(teensy) /\ teensy.mode # "TRIAL"
    BY PageAssumption DEF StateOK, CutOK, Fresh, Teensys

LEMMA ExecutedType ==
    ASSUME NEW t \in Teensys, NEW word \in Words, NEW allowed \in BOOLEAN
    PROVE  Executed(t, word, allowed) \in Teensys /\ ~Executed(t, word, allowed).cut
<1>1. CASE t.cut
    BY <1>1 DEF Executed, Teensys
<1>2. CASE ~t.cut /\ word = "deadman_hold"
  <2>1. 0 \in 0 .. DeadmanBeats
      BY PageAssumption
  <2>2. Executed(t, word, allowed) = [t EXCEPT !.held = TRUE, !.age = 0]
      BY <1>2 DEF Executed
  <2> QED
      BY <1>2, <2>1, <2>2 DEF Teensys
<1>3. CASE ~t.cut /\ word = "deadman_release"
    BY <1>3 DEF Executed, Teensys
<1>4. CASE ~t.cut /\ word = "disarm"
    BY <1>4 DEF Executed, Teensys
<1>5. CASE ~t.cut /\ word = "start"
    BY <1>5 DEF Executed, Teensys
<1> QED
    BY <1>1, <1>2, <1>3, <1>4, <1>5 DEF Words

LEMMA ExecuteStep ==
    ASSUME PageInv, Execute
    PROVE  PageInv'
<1>1. StateOK /\ Load <= MaxWrites /\ SpaceDecides /\ KeyOK /\ CutOK
    BY PageParts
<1>2. PICK allowed \in BOOLEAN : teensy' = Executed(teensy, Head(lines), allowed)
    BY DEF Execute
<1>3. /\ lines # <<>> /\ lines' = Tail(lines)
      /\ UNCHANGED <<spaceHeld, heartbeat, focused, connected, startSent, shown, writes,
                     plugged>>
    BY DEF Execute, pageVars
<1>4. lines' \in Seq(Words) /\ Len(lines') = Len(lines) - 1 /\ Head(lines) \in Words
    BY <1>1, <1>3, HeadTailProperties DEF StateOK
<1>5. teensy' \in Teensys /\ ~teensy'.cut
    BY <1>1, <1>2, <1>4, ExecutedType DEF StateOK
<1>6. StateOK'
    BY <1>1, <1>3, <1>4, <1>5 DEF StateOK
<1>7. Load' <= MaxWrites
    BY <1>1, <1>3, <1>4, LoadType, PageAssumption DEF Load
<1>8. SpaceDecides'
  <2>1. WordsOf(writes) \in Seq(Words) /\ lines \in Seq(Words)
      BY <1>1, WordsOfType DEF StateOK
  <2>2. Way' = Tail(Way) /\ Head(Way) = Head(lines) /\ Way # <<>> /\ Way \in Seq(Words)
      BY <2>1, <1>3, ExecuteWay, Ways, Zenon
  <2>3. EndsBy(teensy, Way) => EndsBy(Executed(teensy, Head(Way), allowed), Tail(Way))
      BY <2>2, <1>1, EndsAfterWord DEF StateOK
  <2>4. EndsBy(teensy, Way) => EndsBy(teensy', Way')
      BY <2>2, <2>3, <1>2, Zenon
  <2> QED
      BY <2>4, <1>1, <1>3 DEF SpaceDecides
<1>9. KeyOK' /\ CutOK'
    BY <1>1, <1>3, <1>5 DEF KeyOK, CutOK
<1> QED
    BY <1>6, <1>7, <1>8, <1>9 DEF PageInv, PageTypeOK, StateOK, KeyOK, CutOK, Writes, Teensys

LEMMA TeensyStep ==
    ASSUME PageInv, Age \/ TickFaults \/ TrialFaults
    PROVE  PageInv'
<1>1. StateOK /\ Load <= MaxWrites /\ SpaceDecides /\ KeyOK /\ CutOK
    BY PageParts
<1>2. UNCHANGED <<spaceHeld, heartbeat, focused, connected, startSent, shown, writes,
                  plugged, lines>>
    BY DEF Age, TickFaults, TrialFaults, pageVars
<1>3. /\ teensy' \in Teensys /\ teensy'.cut = teensy.cut
      /\ Fresh(teensy') => Fresh(teensy)
      /\ teensy'.mode = "TRIAL" => teensy.mode = "TRIAL"
      /\ teensy.age = DeadmanBeats => teensy'.age = DeadmanBeats
    BY <1>1, PageAssumption DEF StateOK, Age, TickFaults, TrialFaults, Teensys, Fresh
<1>4. StateOK'
    BY <1>1, <1>2, <1>3 DEF StateOK
<1>5. Load' = Load /\ Way' = Way
    BY <1>2 DEF Load, Way
<1>6. SpaceDecides'
  <2>1. EndsBy(teensy, Way) => EndsBy(teensy', Way)
      BY <1>3, EndsLater
  <2> QED
      BY <2>1, <1>1, <1>2, <1>5 DEF SpaceDecides
<1>7. KeyOK' /\ CutOK'
    BY <1>1, <1>2, <1>3 DEF KeyOK, CutOK
<1> QED
    BY <1>1, <1>4, <1>5, <1>6, <1>7
       DEF PageInv, PageTypeOK, StateOK, KeyOK, CutOK, Writes, Teensys

-----------------------------------------------------------------------------
(* The page's steps *)

\* Space is let go with a release behind everything, or there is no connection.
LEMMA Released ==
    ASSUME PageInv, ReleaseDeadman, spaceHeld, Room(1),
           UNCHANGED <<focused, connected, shown, portVars>>
    PROVE  PageInv'
<1>1. StateOK /\ Load <= MaxWrites /\ SpaceDecides /\ KeyOK /\ CutOK
    BY PageParts
<1>2. UNCHANGED <<focused, connected, shown, plugged, lines, teensy>>
    BY DEF portVars
<1>3. spaceHeld' = FALSE /\ heartbeat' = FALSE /\ startSent' = FALSE
    BY DEF ReleaseDeadman
<1>4. KeyOK' /\ CutOK'
  <2>1. KeyOK'
      BY <1>3, Zenon DEF KeyOK
  <2>2. CutOK'
      BY <1>1, <1>2 DEF CutOK
  <2> QED
      BY <2>1, <2>2
<1>5. Load \in Nat /\ Load + 1 <= MaxWrites
    BY <1>1, LoadType DEF Room
<1>6. CASE connected
  <2>1. Release \in Writes /\ Release.word = "deadman_release" /\ Release.then # "start"
      BY DEF Release, WriteOf, Writes, Words, Continuations
  <2>2. writes' = Append(writes, Release)
      BY <1>1, <1>6, SentOne DEF ReleaseDeadman
  <2>3. /\ writes' \in Seq(Writes) /\ Way' = Append(Way, "deadman_release")
        /\ Load' = Load + 1 + 0
      BY <2>1, <2>2, <1>1, <1>2, Queued, Zenon
  <2>4. StateOK'
      BY <2>3, <1>1, <1>2, <1>3 DEF StateOK
  <2>5. plugged => EndsBy(teensy, Append(Way, "deadman_release"))
      BY <1>1, <1>6, WayType, CutStale, ReleaseEnds DEF StateOK
  <2>6. SpaceDecides'
      BY <2>3, <2>5, <1>2 DEF SpaceDecides
  <2> QED
      BY <2>3, <2>4, <2>6, <1>4, <1>5
         DEF PageInv, PageTypeOK, StateOK, KeyOK, CutOK, Writes, Teensys
<1>7. CASE ~connected
  <2>1. writes' = writes
      BY <1>7 DEF ReleaseDeadman, Sent
  <2>2. Load' = Load
      BY <2>1, <1>2 DEF Load
  <2>3. StateOK'
      BY <2>1, <1>1, <1>2, <1>3 DEF StateOK
  <2>4. SpaceDecides'
      BY <1>2, <1>7 DEF SpaceDecides
  <2> QED
      BY <2>2, <2>3, <2>4, <1>1, <1>4
         DEF PageInv, PageTypeOK, StateOK, KeyOK, CutOK, Writes, Teensys
<1> QED
    BY <1>6, <1>7

\* What is queued while Space is held, or is no hold, leaves the rest as it was.
LEMMA QueueStep ==
    ASSUME PageInv, NEW w \in Writes, writes' = Append(writes, w),
           Room(1 + (IF w.then = "start" THEN 1 ELSE 0)),
           UNCHANGED <<connected, plugged, lines, teensy, spaceHeld, heartbeat, focused>>,
           spaceHeld \/ w.word # "deadman_hold",
           startSent' \in BOOLEAN,
           shown' \in {"none", "ready", "DISARMED", "TRIAL", "FAULT"}
    PROVE  PageInv'
<1>1. StateOK /\ Load <= MaxWrites /\ SpaceDecides /\ KeyOK /\ CutOK
    BY PageParts
<1>2. /\ writes' \in Seq(Writes) /\ Way' = Append(Way, w.word)
      /\ Load' = Load + 1 + (IF w.then = "start" THEN 1 ELSE 0)
    BY <1>1, Queued, Zenon
<1>3. StateOK'
    BY <1>1, <1>2 DEF StateOK
<1>4. Load' <= MaxWrites
    BY <1>1, <1>2, LoadType DEF Room
<1>5. SpaceDecides'
  <2>1. w.word \in Words
      BY DEF Writes
  <2>2. w.word # "deadman_hold" /\ EndsBy(teensy, Way)
            => EndsBy(teensy, Append(Way, w.word))
      BY <2>1, <1>1, WayType, EndsWithMore DEF StateOK
  <2> QED
      BY <2>2, <1>1, <1>2 DEF SpaceDecides
<1>6. KeyOK' /\ CutOK'
    BY <1>1 DEF KeyOK, CutOK
<1> QED
    BY <1>3, <1>4, <1>5, <1>6
       DEF PageInv, PageTypeOK, StateOK, KeyOK, CutOK, Writes, Teensys

\* Nothing is queued, and the key stays as it is or is gone with the connection.
LEMMA QuietStep ==
    ASSUME PageInv,
           UNCHANGED <<connected, plugged, lines, teensy, spaceHeld, heartbeat, writes>>,
           startSent' \in BOOLEAN, focused' \in BOOLEAN,
           shown' \in {"none", "ready", "DISARMED", "TRIAL", "FAULT"}
    PROVE  PageInv'
<1>1. StateOK /\ Load <= MaxWrites /\ SpaceDecides /\ KeyOK /\ CutOK
    BY PageParts
<1>2. StateOK'
    BY <1>1 DEF StateOK
<1>3. Load' = Load /\ Way' = Way
    BY DEF Load, Way
<1>4. SpaceDecides' /\ KeyOK' /\ CutOK'
    BY <1>1, <1>3 DEF SpaceDecides, KeyOK, CutOK
<1> QED
    BY <1>1, <1>2, <1>3, <1>4
       DEF PageInv, PageTypeOK, StateOK, KeyOK, CutOK, Writes, Teensys

LEMMA SomeWrites ==
    /\ Hold \in Writes /\ Hold.then = "none"
    /\ WriteOf("deadman_hold", "start") \in Writes
    /\ WriteOf("deadman_hold", "start").then = "start"
    /\ WriteOf("disarm", "none") \in Writes
    /\ WriteOf("disarm", "none").word = "disarm"
    /\ WriteOf("disarm", "none").then = "none"
    /\ WriteOf("start", "started") \in Writes
    /\ WriteOf("start", "started").word = "start"
    /\ WriteOf("start", "started").then = "started"
    /\ WriteOf("deadman_release", "close") \in Writes
    /\ WriteOf("deadman_release", "close").word = "deadman_release"
    /\ WriteOf("deadman_release", "close").then = "close"
    BY DEF Hold, WriteOf, Writes, Words, Continuations

LEMMA PressStep ==
    ASSUME PageInv, Press
    PROVE  PageInv'
<1>1. StateOK /\ Load <= MaxWrites /\ SpaceDecides /\ KeyOK /\ CutOK
    BY PageParts
<1>2. /\ spaceHeld' = TRUE /\ heartbeat' = TRUE
      /\ UNCHANGED <<focused, connected, shown, plugged, lines, teensy>>
    BY DEF Press, portVars
<1> DEFINE one == Append(writes, Hold)
           two == Append(one, WriteOf("deadman_hold", "start"))
<1>3. Sent(<<Hold>>) = one
    BY <1>1, SentOne DEF Press
<1>4. writes' \in {one, two} /\ startSent' \in BOOLEAN
    BY <1>3 DEF Press, Render
<1>5. writes \in Seq(Writes) /\ lines \in Seq(Words)
    BY <1>1 DEF StateOK
<1>6. one \in Seq(Writes) /\ LoadOf(lines, one) = LoadOf(lines, writes) + 1
      /\ LoadOf(lines, writes) \in Nat
    BY <1>5, LoadAppend, SomeWrites
<1> HIDE DEF one
<1>7. two \in Seq(Writes) /\ LoadOf(lines, two) = LoadOf(lines, one) + 2
      /\ LoadOf(lines, one) \in Nat
    BY <1>5, <1>6, LoadAppend, SomeWrites
<1> HIDE DEF two
<1>8. Load' <= MaxWrites /\ writes' \in Seq(Writes)
  <2>1. LoadOf(lines, writes) + 3 <= MaxWrites
      BY Loads DEF Press, Room
  <2>2. LoadOf(lines, one) <= MaxWrites /\ LoadOf(lines, two) <= MaxWrites
      BY <2>1, <1>6, <1>7, PageAssumption
  <2>3. Load' = LoadOf(lines, writes')
      BY <1>2, Loads
  <2> QED
      BY <2>2, <2>3, <1>4, <1>6, <1>7, Zenon
<1>9. StateOK'
    BY <1>1, <1>2, <1>4, <1>8 DEF StateOK
<1>10. SpaceDecides' /\ KeyOK' /\ CutOK'
    BY <1>1, <1>2 DEF SpaceDecides, KeyOK, CutOK
<1> QED
    BY <1>8, <1>9, <1>10 DEF PageInv, PageTypeOK, StateOK, KeyOK, CutOK, Writes, Teensys

LEMMA BeatStep ==
    ASSUME PageInv, Beat
    PROVE  PageInv'
<1>1. StateOK /\ KeyOK
    BY PageParts
<1>2. spaceHeld /\ Room(1)
    BY <1>1 DEF StateOK, KeyOK, Beat
<1>3. CASE SpaceControlIsActive /\ connected
  <2>1. writes' = Append(writes, Hold)
      BY <1>1, <1>3, SentOne DEF Beat
  <2> QED
      BY <2>1, <1>1, <1>2, <1>3, QueueStep, SomeWrites DEF Beat, portVars, StateOK, Hold
<1>4. CASE SpaceControlIsActive /\ ~connected
    BY <1>1, <1>4, QuietStep DEF Beat, Sent, portVars, StateOK
<1>5. CASE ~SpaceControlIsActive
    BY <1>2, <1>5, Released DEF Beat
<1> QED
    BY <1>3, <1>4, <1>5

LEMMA ButtonStep ==
    ASSUME PageInv, Click \/ DisarmClick \/ Disconnect
    PROVE  PageInv'
<1>1. StateOK
    BY PageParts
<1>2. CASE Click
  <2>1. spaceHeld /\ Room(1 + 1)
      BY <1>2 DEF Click, StartEnabled, SpaceControlIsActive
  <2> QED
      BY <1>1, <1>2, <2>1, QueueStep, SomeWrites DEF Click, portVars, StateOK
<1>3. CASE DisarmClick
    BY <1>1, <1>3, QueueStep, SomeWrites DEF DisarmClick, portVars, StateOK, Room
<1>4. CASE Disconnect
    BY <1>1, <1>4, QueueStep, SomeWrites DEF Disconnect, portVars, StateOK, Room
<1> QED
    BY <1>2, <1>3, <1>4

LEMMA TelemetryStep ==
    ASSUME PageInv, Telemetry
    PROVE  PageInv'
<1>1. StateOK
    BY PageParts
<1>2. /\ UNCHANGED <<spaceHeld, heartbeat, focused, connected, plugged, lines, teensy>>
      /\ Room(1 + 1)
    BY DEF Telemetry, portVars
<1>3. shown' \in {"none", "ready", "DISARMED", "TRIAL", "FAULT"}
    BY <1>1 DEF Telemetry, StateOK, Teensys
<1>4. startSent' \in BOOLEAN
    BY <1>1 DEF Telemetry, Render, StateOK
<1>5. CASE writes' = writes
    BY <1>1, <1>2, <1>3, <1>4, <1>5, QuietStep DEF StateOK
<1>6. CASE writes' # writes
  <2>1. writes' = Append(writes, WriteOf("deadman_hold", "start")) /\ StartEnabled'
      BY <1>6 DEF Telemetry, Render
  <2>2. spaceHeld
      BY <2>1, <1>2 DEF StartEnabled, SpaceControlIsActive
  <2> QED
      BY <2>1, <2>2, <1>2, <1>3, <1>4, QueueStep, SomeWrites
<1> QED
    BY <1>5, <1>6

\* What a resolved write does to the page: it is gone, and a start follows its hold.
LEMMA ContinueStep ==
    ASSUME StateOK, writes # <<>>, NEW written \in BOOLEAN,
           Continue(Head(writes).then, written)
    PROVE  /\ {spaceHeld', heartbeat', startSent', connected'} \subseteq BOOLEAN
           /\ shown' \in {"none", "ready", "DISARMED", "TRIAL", "FAULT"}
           /\ KeyOK => KeyOK'
           /\ connected' => connected /\ spaceHeld' = spaceHeld
           /\ \/ writes' = Tail(writes)
              \/ /\ written /\ Head(writes).then = "start"
                 /\ writes' = Append(Tail(writes), WriteOf("start", "started"))
<1>1. {spaceHeld, heartbeat, startSent, connected} \subseteq BOOLEAN
      /\ shown \in {"none", "ready", "DISARMED", "TRIAL", "FAULT"}
    BY DEF StateOK
<1>2. \/ writes' = Tail(writes)
      \/ /\ written /\ Head(writes).then = "start"
         /\ writes' = Append(Tail(writes), WriteOf("start", "started"))
    BY DEF Continue
<1>3. CASE Close
  <2>1. /\ spaceHeld' = FALSE /\ heartbeat' = FALSE /\ startSent' = FALSE
        /\ connected' = FALSE /\ shown' = "none"
      BY <1>3 DEF Close
  <2>2. KeyOK'
      BY <2>1, Zenon DEF KeyOK
  <2> QED
      BY <2>1, <2>2, <1>2
<1>4. CASE UNCHANGED <<spaceHeld, heartbeat, connected, shown>> /\ startSent' \in BOOLEAN
    BY <1>1, <1>2, <1>4 DEF KeyOK
<1>5. Close \/ (UNCHANGED <<spaceHeld, heartbeat, connected, shown>>
                 /\ startSent' \in BOOLEAN)
    BY <1>1 DEF Continue
<1> QED
    BY <1>3, <1>4, <1>5

LEMMA WrittenStep ==
    ASSUME PageInv, Written
    PROVE  PageInv'
<1>1. StateOK /\ Load <= MaxWrites /\ SpaceDecides /\ KeyOK /\ CutOK
    BY PageParts
<1> DEFINE head == Head(writes)
           rest == Tail(writes)
           start == WriteOf("start", "started")
           more == IF head.then = "start" THEN 1 ELSE 0
<1>2. /\ writes # <<>> /\ plugged /\ Continue(head.then, TRUE)
      /\ lines' = Append(lines, head.word)
      /\ UNCHANGED <<focused, plugged, teensy>>
    BY DEF Written
<1>3. /\ {spaceHeld', heartbeat', startSent', connected'} \subseteq BOOLEAN
      /\ shown' \in {"none", "ready", "DISARMED", "TRIAL", "FAULT"}
      /\ KeyOK' /\ (connected' => connected /\ spaceHeld' = spaceHeld)
      /\ \/ writes' = rest
         \/ head.then = "start" /\ writes' = Append(rest, start)
    BY <1>1, <1>2, ContinueStep
<1>4. writes \in Seq(Writes) /\ lines \in Seq(Words) /\ head \in Writes
      /\ rest \in Seq(Writes)
    BY <1>1, <1>2, HeadTailProperties DEF StateOK
<1>5. lines' \in Seq(Words) /\ Len(lines') = Len(lines) + 1 /\ Len(lines) \in Nat
    BY <1>2, <1>4 DEF Writes
<1>6. start \in Writes /\ start.word = "start" /\ start.then # "start"
    BY SomeWrites
<1>7. /\ LoadOf(lines', rest) + more = Load /\ LoadOf(lines', rest) \in Nat
      /\ Append(rest, start) \in Seq(Writes)
      /\ LoadOf(lines', Append(rest, start)) = LoadOf(lines', rest) + 1
  <2>1. LoadOf(lines, rest) + 1 + more = LoadOf(lines, writes)
        /\ LoadOf(lines, rest) \in Nat
      BY <1>2, <1>4, LoadTail, Zenon
  <2>2. Len(rest) \in Nat /\ Cardinality(Starts(rest)) \in Nat
    <3> HIDE DEF rest
    <3> QED
        BY <1>4, StartsType
  <2>3. more \in Nat
      OBVIOUS
  <2>4. Append(rest, start) \in Seq(Writes)
        /\ LoadOf(lines', Append(rest, start)) = LoadOf(lines', rest) + 1
    <3>1. LoadOf(lines', Append(rest, start)) = LoadOf(lines', rest) + 1 + 0
          /\ LoadOf(lines', rest) \in Nat /\ Append(rest, start) \in Seq(Writes)
        BY <1>4, <1>5, <1>6, LoadAppend, Zenon
    <3> HIDE DEF rest, start
    <3> QED
        BY <3>1
  <2> HIDE DEF rest, more, start
  <2>5. LoadOf(lines', rest) = LoadOf(lines, rest) + 1
      BY <1>5, <2>2 DEF LoadOf
  <2> QED
      BY <2>1, <2>3, <2>4, <2>5, Loads
<1>8. writes' \in Seq(Writes) /\ Load' <= MaxWrites
  <2>1. CASE writes' = rest
    <3>1. Load' = LoadOf(lines', rest) /\ more \in Nat
        BY <2>1, Loads
    <3> HIDE DEF rest, more
    <3> QED
        BY <2>1, <3>1, <1>1, <1>4, <1>7, PageAssumption
  <2>2. CASE head.then = "start" /\ writes' = Append(rest, start)
    <3>1. Load' = LoadOf(lines', Append(rest, start)) /\ more = 1
        BY <2>2, Loads
    <3> HIDE DEF rest, more, start
    <3> QED
        BY <2>2, <3>1, <1>1, <1>7, PageAssumption
  <2> QED
      BY <2>1, <2>2, <1>3
<1>9. SpaceDecides'
  <2>1. lines' \o WordsOf(rest) = Way
      BY <1>2, <1>4, WriteWay, Ways, Zenon
  <2>2. Way \in Seq(Words)
      BY <1>1, WayType
  <2>3. CASE writes' = rest
    <3>1. Way' = Way
        BY <2>1, <2>3, Ways, Zenon
    <3> QED
        BY <3>1, <1>1, <1>2, <1>3 DEF SpaceDecides
  <2>4. CASE writes' = Append(rest, start)
    <3>1. Way' = Append(Way, start.word)
        BY <2>1, <2>4, <1>4, <1>5, <1>6, QueueWay, Ways, Zenon
    <3>2. start.word \in Words /\ start.word # "deadman_hold"
        BY <1>6 DEF Words
    <3>3. EndsBy(teensy, Way) => EndsBy(teensy, Append(Way, start.word))
        BY <3>2, <2>2, <1>1, EndsWithMore DEF StateOK
    <3> HIDE DEF start
    <3> QED
        BY <3>1, <3>3, <1>1, <1>2, <1>3 DEF SpaceDecides
  <2> QED
      BY <2>3, <2>4, <1>3
<1>10. StateOK' /\ CutOK'
    BY <1>1, <1>2, <1>3, <1>5, <1>8 DEF StateOK, CutOK
<1> QED
    BY <1>3, <1>8, <1>9, <1>10 DEF PageInv, PageTypeOK, StateOK, KeyOK, CutOK, Writes, Teensys

LEMMA RejectedStep ==
    ASSUME PageInv, Rejected
    PROVE  PageInv'
<1>1. StateOK /\ Load <= MaxWrites /\ KeyOK
    BY PageParts
<1>2. /\ writes # <<>> /\ ~(plugged /\ connected) /\ Continue(Head(writes).then, FALSE)
      /\ UNCHANGED <<focused, plugged, lines, teensy>>
    BY DEF Rejected, portVars
<1>3. /\ {spaceHeld', heartbeat', startSent', connected'} \subseteq BOOLEAN
      /\ shown' \in {"none", "ready", "DISARMED", "TRIAL", "FAULT"}
      /\ KeyOK' /\ (connected' => connected) /\ writes' = Tail(writes)
    BY <1>1, <1>2, ContinueStep
<1>4. writes \in Seq(Writes) /\ lines \in Seq(Words)
    BY <1>1 DEF StateOK
<1>5. writes' \in Seq(Writes) /\ Load' <= MaxWrites
  <2> DEFINE more == IF Head(writes).then = "start" THEN 1 ELSE 0
  <2>1. /\ Tail(writes) \in Seq(Writes) /\ LoadOf(lines, Tail(writes)) \in Nat
        /\ LoadOf(lines, Tail(writes)) + 1 + more = LoadOf(lines, writes)
      BY <1>2, <1>4, LoadTail, Zenon
  <2>2. more \in Nat
      OBVIOUS
  <2> HIDE DEF more
  <2> QED
      BY <2>1, <2>2, <1>1, <1>2, <1>3, Loads, PageAssumption
<1>6. StateOK'
    BY <1>1, <1>2, <1>3, <1>5 DEF StateOK
<1>7. SpaceDecides' /\ CutOK'
    BY <1>2, <1>3 DEF SpaceDecides, CutOK
<1> QED
    BY <1>3, <1>5, <1>6, <1>7 DEF PageInv, PageTypeOK, StateOK, KeyOK, CutOK, Writes, Teensys

-----------------------------------------------------------------------------
(* Around the page *)

LEMMA NothingQueued == <<>> \in Seq(Writes) /\ LoadOf(<<>>, <<>>) = 0 /\ WordsOf(<<>>) = <<>>
<1>1. Starts(<<>>) = {}
    BY DEF Starts
<1>2. LoadOf(<<>>, <<>>) = 0
    BY <1>1, FS_EmptySet DEF LoadOf
<1>3. <<>> \in Seq(Writes)
    OBVIOUS
<1>4. WordsOf(<<>>) = <<>>
  <2>1. WordsOf(<<>>) \in Seq(Words) /\ Len(WordsOf(<<>>)) = 0
      BY <1>3, WordsOfType
  <2> QED
      BY <2>1
<1> QED
    BY <1>2, <1>3, <1>4

\* No port is open, or none answers.
LEMMA CutOffStep ==
    ASSUME PageInv, ~(connected' /\ plugged'), KeyOK',
           writes' \in {writes, <<>>}, lines' \in {lines, <<>>}, teensy' \in Teensys,
           {spaceHeld', heartbeat', focused', connected', startSent', plugged'}
              \subseteq BOOLEAN,
           shown' \in {"none", "ready", "DISARMED", "TRIAL", "FAULT"}
    PROVE  PageInv'
<1>1. StateOK /\ Load <= MaxWrites
    BY PageParts
<1>2. <<>> \in Seq(Writes) /\ <<>> \in Seq(Words)
    OBVIOUS
<1>3. StateOK'
    BY <1>1, <1>2 DEF StateOK
<1>4. Load' <= MaxWrites
  <2>1. /\ Len(writes') \in Nat /\ Len(writes') <= Len(writes)
        /\ Len(lines') \in Nat /\ Len(lines') <= Len(lines)
      BY <1>1 DEF StateOK
  <2>2. Cardinality(Starts(writes')) \in Nat
        /\ Cardinality(Starts(writes')) <= Cardinality(Starts(writes))
    <3>1. CASE writes' = writes
        BY <3>1, <1>1, StartsType DEF StateOK
    <3>2. CASE writes' = <<>>
      <4>1. Starts(writes') = {}
          BY <3>2 DEF Starts
      <4> QED
          BY <4>1, <1>1, LoadType, FS_EmptySet
    <3> QED
        BY <3>1, <3>2
  <2> QED
      BY <2>1, <2>2, <1>1, LoadType, PageAssumption DEF Load
<1>5. SpaceDecides' /\ CutOK'
    BY DEF SpaceDecides, CutOK
<1> QED
    BY <1>3, <1>4, <1>5 DEF PageInv, PageTypeOK, StateOK, KeyOK, CutOK, Writes, Teensys

LEMMA PortStep ==
    ASSUME PageInv, Connect \/ Unplug \/ Plug \/ Vanish
    PROVE  PageInv'
<1>1. StateOK /\ Load <= MaxWrites /\ SpaceDecides /\ KeyOK /\ CutOK
    BY PageParts
<1>2. CASE Connect
  <2>1. /\ plugged /\ writes = <<>> /\ lines = <<>>
        /\ teensy.age = DeadmanBeats /\ teensy.mode # "TRIAL"
        /\ connected' = TRUE /\ shown' = "none"
        /\ UNCHANGED <<spaceHeld, heartbeat, focused, startSent, writes, plugged, lines,
                       teensy>>
      BY <1>2 DEF Connect, portVars
  <2>2. StateOK' /\ KeyOK' /\ CutOK'
      BY <2>1, <1>1 DEF StateOK, KeyOK, CutOK
  <2>3. Load' = Load
      BY <2>1 DEF Load
  <2>4. ~Fresh(teensy)
      BY <2>1, PageAssumption DEF Fresh
  <2>5. Way' = <<>>
    <3>1. lines' = <<>> /\ writes' = <<>>
        BY <2>1
    <3>2. <<>> \o <<>> = <<>>
        OBVIOUS
    <3> QED
        BY <3>1, <3>2, Ways, NothingQueued, Zenon
  <2>6. EndsBy(teensy', Way')
    <3>1. \A i \in (IF teensy'.cut THEN 2 ELSE 1) .. Len(Way') : FALSE
        BY <2>5
    <3> QED
        BY <3>1, <2>1, <2>4 DEF EndsBy
  <2>7. SpaceDecides'
      BY <2>6 DEF SpaceDecides
  <2> QED
      BY <2>2, <2>3, <2>7, <1>1
         DEF PageInv, PageTypeOK, StateOK, KeyOK, CutOK, Writes, Teensys
<1>3. CASE Unplug
  <2>1. /\ ~plugged' /\ plugged' \in BOOLEAN /\ lines' \in {lines, <<>>}
        /\ UNCHANGED pageVars
      BY <1>3 DEF Unplug
  <2>2. teensy' \in Teensys
      BY <1>3, <1>1 DEF Unplug, StateOK, Teensys
  <2>3. KeyOK'
      BY <1>1, <2>1 DEF KeyOK, pageVars
  <2> QED
      BY <2>1, <2>2, <2>3, <1>1, CutOffStep DEF pageVars, StateOK
<1>4. CASE Plug
  <2>1. ~connected' /\ plugged' \in BOOLEAN /\ UNCHANGED <<pageVars, lines, teensy>>
      BY <1>4 DEF Plug, pageVars
  <2>2. KeyOK'
      BY <1>1, <2>1 DEF KeyOK, pageVars
  <2> QED
      BY <2>1, <2>2, <1>1, CutOffStep DEF pageVars, StateOK
<1>5. CASE Vanish
  <2>1. /\ spaceHeld' = FALSE /\ heartbeat' = FALSE /\ startSent' = FALSE
        /\ connected' = FALSE /\ shown' = "none" /\ writes' = <<>>
        /\ UNCHANGED <<focused, plugged, lines, teensy>>
      BY <1>5 DEF Vanish, Close, portVars
  <2>2. KeyOK'
      BY <2>1, Zenon DEF KeyOK
  <2> QED
      BY <2>1, <2>2, <1>1, CutOffStep DEF StateOK
<1> QED
    BY <1>2, <1>3, <1>4, <1>5

-----------------------------------------------------------------------------
(* The theorems *)

LEMMA PageStart == PageInit => PageInv
<1> SUFFICES ASSUME PageInit PROVE PageInv
    OBVIOUS
<1>1. /\ spaceHeld = FALSE /\ heartbeat = FALSE /\ focused = TRUE
      /\ connected = FALSE /\ startSent = FALSE /\ shown = "none"
      /\ writes = <<>> /\ plugged = TRUE /\ lines = <<>>
      /\ teensy = [mode |-> "DISARMED", held |-> FALSE, age |-> DeadmanBeats,
                   cut |-> FALSE]
    BY DEF PageInit
<1>2. DeadmanBeats \in 0 .. DeadmanBeats
    BY PageAssumption
<1>3. teensy \in Teensys
    BY <1>1, <1>2 DEF Teensys
<1>4. StateOK
  <2>1. writes \in Seq(Writes) /\ lines \in Seq(Words)
      BY <1>1
  <2> QED
      BY <1>1, <1>3, <2>1 DEF StateOK
<1>5. Load <= MaxWrites
  <2>1. Load = 0
      BY <1>1, Loads, NothingQueued, Zenon
  <2> QED
      BY <2>1, PageAssumption
<1>6. KeyOK
    BY <1>1, Zenon DEF KeyOK
<1>7. SpaceDecides /\ CutOK
    BY <1>1 DEF SpaceDecides, CutOK
<1> QED
    BY <1>4, <1>5, <1>6, <1>7, PageParts

LEMMA PageStep ==
    ASSUME PageInv, [PageNext]_browserVars
    PROVE  PageInv'
<1>1. StateOK
    BY PageParts
<1>2. CASE Execute
    BY <1>2, ExecuteStep
<1>3. CASE Age \/ TickFaults \/ TrialFaults
    BY <1>3, TeensyStep
<1>4. CASE Press
    BY <1>4, PressStep
<1>5. CASE KeyUp
    BY <1>5, Released DEF KeyUp
<1>6. CASE LoseFocus \/ GainFocus
    BY <1>1, <1>6, QuietStep DEF LoseFocus, GainFocus, portVars, StateOK
<1>7. CASE Blur
    BY <1>7, Released DEF Blur
<1>8. CASE Beat
    BY <1>8, BeatStep
<1>9. CASE Click \/ DisarmClick \/ Disconnect
    BY <1>9, ButtonStep
<1>10. CASE Telemetry
    BY <1>10, TelemetryStep
<1>11. CASE Written
    BY <1>11, WrittenStep
<1>12. CASE Rejected
    BY <1>12, RejectedStep
<1>13. CASE Connect \/ Unplug \/ Plug \/ Vanish
    BY <1>13, PortStep
<1>14. CASE UNCHANGED browserVars
    BY <1>1, <1>14, QuietStep DEF browserVars, pageVars, portVars, StateOK
<1> QED
    BY <1>2, <1>3, <1>4, <1>5, <1>6, <1>7, <1>8, <1>9, <1>10, <1>11, <1>12, <1>13, <1>14
       DEF PageNext

\* The types of the page, its room on the port included, and with them what is
\* under way, what goes with the key, and what the rest of a line meets.
THEOREM PageInductive == PageSpec => []PageInv
<1>1. PageInit => PageInv
    BY PageStart
<1>2. PageInv /\ [PageNext]_browserVars => PageInv'
    BY PageStep
<1> QED
    BY <1>1, <1>2, PTL DEF PageSpec

\* The types alone: what is queued and promised never exceeds the room.
THEOREM PageTyped == PageSpec => []PageTypeOK
<1>1. PageInv => PageTypeOK
    BY DEF PageInv
<1> QED
    BY <1>1, PageInductive, PTL

\* app.js:381 and :407: whoever let Space go under whatever start, what is on its way
\* ends hold and trial, with any number of words under way.
THEOREM SpaceDecided == PageSpec => []SpaceDecides
<1>1. PageInv => SpaceDecides
    BY DEF PageInv
<1> QED
    BY <1>1, PageInductive, PTL

=============================================================================
