-------------------------- MODULE StreamSession_proofs --------------------------
(***************************************************************************)
(* What a client may rely on whatever is said, however it is decoded, and  *)
(* for every window, step and tolerance: its final words never change.     *)
(*                                                                         *)
(* Of a recording that is decoded as a whole, what the decoder is given:   *)
(* the speech segments follow the speech (SegmentsFollowTheSpeech), and    *)
(* the windows cover the audio (WindowsCoverTheAudio).  These two are      *)
(* about Vad and BatchTranscription, with the constants declared beside    *)
(* them: a hop and a context of voice probabilities, a sample rate and     *)
(* what a decoder hears.                                                   *)
(***************************************************************************)
EXTENDS StreamSession, Outcome, FiniteSetTheorems, SequenceTheorems, WellFoundedInduction, TLAPS

----------------------------------------------------------------------------
(* Least and greatest elements. *)

\* A set of naturals has a least element.
LEMMA LeastExists ==
    ASSUME NEW T \in SUBSET Nat, T # {}
    PROVE  \E x \in T : \A y \in T : x <= y
<1>. DEFINE R == {ss \in Nat \X Nat : ss[1] < ss[2]}
<1>1. IsWellFoundedOn(R, Nat)
  BY NatLessThanWellFounded, Zenon DEF OpToRel
<1>. HIDE DEF R
<1>2. PICK x \in T : \A y \in T : ~ (<<y, x>> \in R)
  BY <1>1, WFMin
<1>3. \A y \in T : ~ (y < x)
  BY <1>2 DEF R
<1>. QED  BY <1>3

\* Max of a bounded set of naturals is its greatest element.
LEMMA MaxInRange ==
    ASSUME NEW n \in Nat, NEW S \in SUBSET (0..n), S # {}
    PROVE  Max(S) \in S /\ \A y \in S : y <= Max(S)
<1>. DEFINE T == {n - x : x \in S}
<1>1. T \in SUBSET Nat /\ T # {}
  <2>1. \A x \in S : n - x \in Nat
    OBVIOUS
  <2>. QED  BY <2>1
<1>2. PICK t \in T : \A y \in T : t <= y
  BY <1>1, LeastExists
<1>3. PICK x \in S : t = n - x
  BY <1>2
<1>4. \A y \in S : x >= y
  <2>. TAKE y \in S
  <2>1. n - x <= n - y
    BY <1>2, <1>3
  <2>. QED  BY <2>1
<1>. QED  BY <1>4 DEF Max

LEMMA OfTwo ==
    ASSUME NEW a \in Int, NEW b \in Int
    PROVE  /\ Max({a, b}) \in {a, b} /\ Max({a, b}) >= a /\ Max({a, b}) >= b
           /\ Min({a, b}) \in {a, b} /\ Min({a, b}) <= a /\ Min({a, b}) <= b
<1>1. \E x \in {a, b} : \A y \in {a, b} : x >= y
  OBVIOUS
<1>2. \E x \in {a, b} : \A y \in {a, b} : x <= y
  OBVIOUS
<1>. QED  BY <1>1, <1>2 DEF Max, Min

LEMMA LeastOfThree ==
    ASSUME NEW a \in Int, NEW b \in Int, NEW c \in Int
    PROVE  /\ Min({a, b, c}) \in {a, b, c}
           /\ Min({a, b, c}) <= a /\ Min({a, b, c}) <= b /\ Min({a, b, c}) <= c
<1>1. \E x \in {a, b, c} : \A y \in {a, b, c} : x <= y
  OBVIOUS
<1>. QED  BY <1>1 DEF Min

\* Leading is the longest run of good positions from the first one on.
LEMMA LeadingBound ==
    ASSUME NEW n \in Nat, NEW good
    PROVE  /\ Leading(n, good) \in 0..n
           /\ 1..Leading(n, good) \subseteq good
           /\ \A k \in 0..n : 1..k \subseteq good => k <= Leading(n, good)
<1>. DEFINE S == {k \in 0..n : 1..k \subseteq good}
<1>1. S \in SUBSET (0..n) /\ 0 \in S
  OBVIOUS
<1>2. Max(S) \in S /\ \A y \in S : y <= Max(S)
  BY <1>1, MaxInRange
<1>. QED  BY <1>2 DEF Leading

----------------------------------------------------------------------------
(* Sequences. *)

\* A function on 1..n is a sequence.
LEMMA SeqOfFunction ==
    ASSUME NEW S, NEW n \in Nat, NEW f, f \in [1..n -> S]
    PROVE  f \in Seq(S) /\ Len(f) = n
BY SeqDef

\* Every set of positions has a first, a second, ..., a last element.
LEMMA NthExists ==
    ASSUME NEW n \in Nat, NEW p \in SUBSET (1..n), NEW k \in 1..Cardinality(p)
    PROVE  \E i \in p : Cardinality({j \in p : j < i}) = k - 1
<1>. DEFINE Holds(q, l) == \E i \in q : Cardinality({j \in q : j < i}) = l - 1
            Bad == {m \in Nat : \E q \in SUBSET (1..m) :
                                  \E l \in 1..Cardinality(q) : ~ Holds(q, l)}
<1>. SUFFICES ASSUME ~ Holds(p, k) PROVE FALSE
  OBVIOUS
<1>1. n \in Bad
  OBVIOUS
<1>2. PICK m \in Bad : \A o \in Bad : m <= o
  <2>1. Bad \in SUBSET Nat /\ Bad # {}
    BY <1>1
  <2>. HIDE DEF Bad
  <2>. QED  BY <2>1, LeastExists
<1>3. PICK q \in SUBSET (1..m) : \E l \in 1..Cardinality(q) : ~ Holds(q, l)
  BY <1>2
<1>4. PICK l \in 1..Cardinality(q) : ~ Holds(q, l)
  BY <1>3
<1>5. m \in Nat /\ IsFiniteSet(q)
  <2>1. m \in Nat
    BY <1>2
  <2>2. IsFiniteSet(1..m)
    BY <2>1, FS_Interval
  <2>. QED  BY <2>1, <2>2, <1>3, FS_Subset
<1>6. m - 1 \notin Bad
  <2>. HIDE DEF Bad
  <2>1. ~ (m <= m - 1)
    BY <1>5
  <2>. QED  BY <2>1, <1>2
<1>7. m # 0
  <2>. SUFFICES ASSUME m = 0 PROVE FALSE
    OBVIOUS
  <2>1. q = {}
    OBVIOUS
  <2>. QED  BY <2>1, FS_EmptySet
<1>. DEFINE r == q \ {m}
<1>8. r \in SUBSET (1..(m - 1)) /\ m - 1 \in Nat
  BY <1>5, <1>7
<1>9. \A o \in 1..Cardinality(r) : Holds(r, o)
  BY <1>6, <1>8
<1>10. m \in q
  <2>. SUFFICES ASSUME m \notin q PROVE FALSE
    OBVIOUS
  <2>1. r = q
    OBVIOUS
  <2>. QED  BY <2>1, <1>9, <1>4
<1>11. Cardinality(r) = Cardinality(q) - 1 /\ Cardinality(q) \in Nat
  BY <1>5, <1>10, FS_RemoveElement, FS_CardinalityType
<1>12. CASE l \in 1..Cardinality(r)
  <2>1. PICK i \in r : Cardinality({j \in r : j < i}) = l - 1
    BY <1>9, <1>12
  <2>2. {j \in r : j < i} = {j \in q : j < i}
    BY <1>8
  <2>. QED  BY <2>1, <2>2, <1>4
<1>13. CASE l = Cardinality(q)
  <2>1. \A j \in q : j < m <=> j # m
    BY <1>3, <1>5
  <2>2. {j \in q : j < m} = r
    BY <2>1
  <2>. QED  BY <2>2, <1>10, <1>11, <1>13, <1>4
<1>. QED  BY <1>4, <1>11, <1>12, <1>13

\* Chosen returns words of the sequence it is given.
LEMMA ChosenType ==
    ASSUME NEW S, NEW ws \in Seq(S), NEW p \in SUBSET (DOMAIN ws)
    PROVE  Chosen(ws, p) \in Seq(S)
<1>. DEFINE Nth(k) == CHOOSE i \in p : Cardinality({j \in p : j < i}) = k - 1
<1>1. Len(ws) \in Nat /\ DOMAIN ws = 1..Len(ws) /\ ws \in [1..Len(ws) -> S]
  BY LenProperties
<1>2. IsFiniteSet(p) /\ Cardinality(p) \in Nat
  <2>1. IsFiniteSet(1..Len(ws))
    BY <1>1, FS_Interval
  <2>. QED  BY <1>1, <2>1, FS_Subset, FS_CardinalityType
<1>3. \A k \in 1..Cardinality(p) : Nth(k) \in p
  BY <1>1, NthExists
<1>. HIDE DEF Nth
<1>4. \A k \in 1..Cardinality(p) : ws[Nth(k)] \in S
  BY <1>1, <1>3
<1>5. [k \in 1..Cardinality(p) |-> ws[Nth(k)]] \in [1..Cardinality(p) -> S]
  BY <1>4
<1>. QED  BY <1>2, <1>5, SeqOfFunction DEF Chosen, Nth

\* A piece of a sequence is a sequence of the same things.
LEMMA PieceType ==
    ASSUME NEW S, NEW ws \in Seq(S), NEW m \in Nat \ {0}, NEW n \in 0..Len(ws)
    PROVE  /\ SubSeq(ws, m, n) \in Seq(S)
           /\ Len(SubSeq(ws, m, n)) = IF m <= n THEN n - m + 1 ELSE 0
           /\ \A i \in 1..(n - m + 1) : SubSeq(ws, m, n)[i] = ws[m + i - 1]
<1>1. \A i \in m..n : ws[i] \in S
  BY LenProperties
<1>. QED  BY <1>1, LenProperties, SubSeqProperties

\* Two sequences, one after the other.
LEMMA JoinedType ==
    ASSUME NEW S, NEW v \in Seq(S), NEW w \in Seq(S)
    PROVE  /\ v \o w \in Seq(S) /\ Len(v \o w) = Len(v) + Len(w)
           /\ \A i \in 1..Len(v) : (v \o w)[i] = v[i]
<1>1. Len(v) \in Nat /\ Len(w) \in Nat
  BY LenProperties
<1>2. \A i \in 1..Len(v) : i \in 1..(Len(v) + Len(w))
  BY <1>1
<1>. QED  BY <1>1, <1>2, ConcatProperties

----------------------------------------------------------------------------
(* The seam of two windows. *)

\* A set of positions has no more members than the sequence has words.
LEMMA PositionsBound ==
    ASSUME NEW n \in Nat, NEW p \in SUBSET (1..n)
    PROVE  Cardinality(p) \in 0..n
<1>1. IsFiniteSet(1..n) /\ Cardinality(1..n) = n
  BY FS_Interval
<1>2. IsFiniteSet(p) /\ Cardinality(p) <= Cardinality(1..n)
  BY <1>1, FS_Subset
<1>. QED  BY <1>1, <1>2, FS_CardinalityType

\* Any set of pairs of positions holds one that Preferred puts first.
LEMMA PreferredExists ==
    ASSUME NEW ws \in Seq(Word), NEW doubled \in Int,
           NEW ms \in SUBSET ((DOMAIN ws) \X Nat), ms # {}
    PROVE  \E m \in ms : \A l \in ms : Preferred(m, l, ws, doubled)
<1>. DEFINE near(m) == FromMidpoint(ws[m[1]], doubled)
<1>1. \A m \in ms : near(m) \in Nat /\ m[1] \in Nat /\ m[2] \in Nat
  <2>. TAKE m \in ms
  <2>1. m[1] \in 1..Len(ws) /\ ws[m[1]] \in Word
    BY LenProperties
  <2>2. ws[m[1]].start \in Int
    BY <2>1 DEF Word
  <2>. QED  BY <2>1, <2>2, LenProperties DEF FromMidpoint
<1>. HIDE DEF near
<1>2. PICK d \in {near(m) : m \in ms} : \A e \in {near(m) : m \in ms} : d <= e
  <2>1. {near(m) : m \in ms} \in SUBSET Nat /\ {near(m) : m \in ms} # {}
    BY <1>1
  <2>. QED  BY <2>1, LeastExists
<1>. DEFINE As == {m \in ms : near(m) = d}
<1>3. PICK i \in {m[1] : m \in As} : \A j \in {m[1] : m \in As} : i <= j
  <2>1. {m[1] : m \in As} \in SUBSET Nat /\ {m[1] : m \in As} # {}
    BY <1>1, <1>2
  <2>. QED  BY <2>1, LeastExists
<1>. DEFINE Bs == {m \in As : m[1] = i}
<1>4. PICK k \in {m[2] : m \in Bs} : \A j \in {m[2] : m \in Bs} : k <= j
  <2>1. {m[2] : m \in Bs} \in SUBSET Nat /\ {m[2] : m \in Bs} # {}
    BY <1>1, <1>3
  <2>. QED  BY <2>1, LeastExists
<1>5. PICK m \in Bs : m[2] = k
  BY <1>4
<1>6. \A l \in ms : \/ near(m) < near(l)
                    \/ near(m) = near(l) /\ m[1] < l[1]
                    \/ near(m) = near(l) /\ m[1] = l[1] /\ m[2] <= l[2]
  <2>. TAKE l \in ms
  <2>1. near(m) = d /\ m[1] = i /\ m \in ms
    BY <1>5
  <2>2. CASE near(l) # d
    <3>1. d <= near(l) /\ d \in Nat /\ near(l) \in Nat
      BY <1>1, <1>2
    <3>. QED  BY <3>1, <2>1, <2>2
  <2>3. CASE near(l) = d /\ l[1] # i
    <3>1. l \in As
      BY <2>3
    <3>2. i <= l[1] /\ i \in Nat /\ l[1] \in Nat
      BY <3>1, <1>1, <1>3
    <3>. QED  BY <3>2, <2>1, <2>3, SMTT(30)
  <2>4. CASE near(l) = d /\ l[1] = i
    <3>1. l \in Bs
      BY <2>4
    <3>2. k <= l[2]
      BY <3>1, <1>4
    <3>. QED  BY <3>2, <1>5, <2>1, <2>4
  <2>. QED  BY <2>2, <2>3, <2>4
<1>. QED  BY <1>5, <1>6 DEF Preferred, near

\* The seam cuts off a prefix of the previous words and one of the current.
LEMMA SeamType ==
    ASSUME NEW prev \in Seq(Word), NEW prevEnd \in Int,
           NEW cur \in Seq(Word), NEW curStart \in Int
    PROVE  /\ Seam(prev, prevEnd, cur, curStart).count \in 0..Len(prev)
           /\ Seam(prev, prevEnd, cur, curStart).skip \in 0..Len(cur)
<1>. DEFINE doubled   == curStart + prevEnd
            ms        == Matches(prev, prevEnd, cur, curStart)
            early(ws) == Cardinality({i \in DOMAIN ws : 2 * ws[i].start < doubled})
            best      == CHOOSE m \in ms :
                           \A l \in ms : Preferred(m, l, prev, doubled)
<1>1. Len(prev) \in Nat /\ DOMAIN prev = 1..Len(prev)
      /\ Len(cur) \in Nat /\ DOMAIN cur = 1..Len(cur)
  BY LenProperties
<1>2. CASE ms = {}
  <2>1. early(prev) \in 0..Len(prev) /\ early(cur) \in 0..Len(cur)
    <3>1. {i \in DOMAIN prev : 2 * prev[i].start < doubled} \in SUBSET (1..Len(prev))
      BY <1>1
    <3>2. {i \in DOMAIN cur : 2 * cur[i].start < doubled} \in SUBSET (1..Len(cur))
      BY <1>1
    <3>. QED  BY <1>1, <3>1, <3>2, PositionsBound
  <2>2. Seam(prev, prevEnd, cur, curStart) = [count |-> early(prev), skip |-> early(cur)]
    BY <1>2 DEF Seam
  <2>. QED  BY <2>1, <2>2
<1>3. CASE ms # {}
  <2>1. ms \in SUBSET ((1..Len(prev)) \X (1..Len(cur)))
    <3>. DEFINE reach == Leading(Len(cur), {j \in DOMAIN cur : cur[j].start <= prevEnd})
    <3>1. reach \in 0..Len(cur)
      BY <1>1, LeadingBound
    <3>. HIDE DEF reach
    <3>2. (DOMAIN prev) \X (1..reach) \subseteq (1..Len(prev)) \X (1..Len(cur))
      BY <1>1, <3>1
    <3>3. ms \subseteq (DOMAIN prev) \X (1..reach)
      BY DEF Matches, reach
    <3>. QED  BY <3>2, <3>3
  <2>2. ms \in SUBSET ((DOMAIN prev) \X Nat) /\ doubled \in Int
    BY <2>1, <1>1
  <2>. HIDE DEF ms, doubled
  <2>3. best \in ms
    BY <1>3, <2>2, PreferredExists
  <2>. HIDE DEF best
  <2>4. best[1] \in 1..Len(prev) /\ best[2] \in 1..Len(cur)
    BY <2>1, <2>3
  <2>5. Seam(prev, prevEnd, cur, curStart) = [count |-> best[1] - 1, skip |-> best[2] - 1]
    BY <1>3 DEF Seam, ms, doubled, best
  <2>. QED  BY <1>1, <2>4, <2>5
<1>. QED  BY <1>2, <1>3

LEMMA JoinType ==
    ASSUME NEW prev \in Seq(Word), NEW prevEnd \in Int,
           NEW cur \in Seq(Word), NEW curStart \in Int
    PROVE  Join(prev, prevEnd, cur, curStart) \in Seq(Word)
<1>. DEFINE seam == Seam(prev, prevEnd, cur, curStart)
<1>1. seam.count \in 0..Len(prev) /\ seam.skip \in 0..Len(cur)
  BY SeamType
<1>. HIDE DEF seam
<1>2. SubSeq(prev, 1, seam.count) \in Seq(Word)
  BY <1>1, PieceType
<1>3. SubSeq(cur, seam.skip + 1, Len(cur)) \in Seq(Word)
  <2>1. seam.skip + 1 \in Nat \ {0} /\ Len(cur) \in 0..Len(cur)
    BY <1>1, LenProperties
  <2>. QED  BY <2>1, PieceType
<1>4. SubSeq(prev, 1, seam.count) \o SubSeq(cur, seam.skip + 1, Len(cur)) \in Seq(Word)
  BY <1>2, <1>3, JoinedType
<1>. QED  BY <1>4 DEF Join, seam

----------------------------------------------------------------------------
(* The parts of a tick. *)

LEMMA WordType ==
    /\ \A w \in Word : w.text \in Texts /\ w.start \in Int /\ w.end \in Int
    /\ \A t \in Texts, s \in Int, e \in Int : WordAt(t, s, e) \in Word
BY DEF Word, WordAt

\* The decoder writes words.
LEMMA HearingType ==
    ASSUME TypeOK, NEW now \in Nat, NEW raw \in Hearings(now)
    PROVE  raw \in Seq(Word)
<1>1. speech \in Seq(Word) /\ start \in Int
  BY StreamAssumption DEF TypeOK
<1>2. \A i \in DOMAIN speech : speech[i] \in Word /\ speech[i].start \in Int
                               /\ speech[i].end \in Int
  <2>. TAKE i \in DOMAIN speech
  <2>1. speech[i] \in Word
    BY <1>1, LenProperties
  <2>. QED  BY <2>1, WordType
<1>3. Whole(now) \in Seq(Word)
  BY <1>1, ChosenType DEF Whole
<1>4. \A h \in Heads \union {<<>>} : h \in Seq(Word)
  <2>1. \A t \in Edge, i \in DOMAIN speech : WordAt(t, start, speech[i].end) \in Word
    BY <1>1, <1>2, StreamAssumption, WordType
  <2>2. \A t \in Edge, i \in DOMAIN speech : <<WordAt(t, start, speech[i].end)>> \in Seq(Word)
    BY <2>1
  <2>3. \A h \in Heads : \E t \in Edge, i \in DOMAIN speech :
           h = <<WordAt(t, start, speech[i].end)>>
    BY DEF Heads
  <2>4. <<>> \in Seq(Word)
    OBVIOUS
  <2>. QED  BY <2>2, <2>3, <2>4
<1>5. \A t \in Tails(now) \union {<<>>} : t \in Seq(Word)
  <2>1. \A t \in Edge, i \in DOMAIN speech :
           WordAt(t, speech[i].start, speech[i].end) \in Word
    BY <1>2, StreamAssumption, WordType
  <2>2. \A t \in Edge, i \in DOMAIN speech :
           <<WordAt(t, speech[i].start, speech[i].end)>> \in Seq(Word)
    BY <2>1
  <2>3. \A w \in Tails(now) : \E t \in Edge, i \in DOMAIN speech :
           w = <<WordAt(t, speech[i].start, speech[i].end)>>
    BY DEF Tails
  <2>4. <<>> \in Seq(Word)
    OBVIOUS
  <2>. QED  BY <2>2, <2>3, <2>4
<1>. DEFINE inside == Whole(now)
<1>6. \A o \in [DOMAIN inside -> Jitter] : Moved(inside, o) \in Seq(Word)
  <2>. HIDE DEF inside
  <2>. TAKE o \in [DOMAIN inside -> Jitter]
  <2>1. Len(inside) \in Nat /\ DOMAIN inside = 1..Len(inside) /\ inside \in Seq(Word)
    BY <1>3, LenProperties DEF inside
  <2>2. \A i \in DOMAIN inside :
           WordAt(inside[i].text, Max({start, inside[i].start + o[i]}),
                  inside[i].end + o[i]) \in Word
    <3>. TAKE i \in DOMAIN inside
    <3>1. inside[i] \in Word
      BY <2>1
    <3>2. o[i] \in Int
      BY StreamAssumption
    <3>3. /\ inside[i].start + o[i] \in Int /\ inside[i].end + o[i] \in Int
          /\ inside[i].text \in Texts
      BY <3>1, <3>2, WordType
    <3>4. Max({start, inside[i].start + o[i]}) \in {start, inside[i].start + o[i]}
      BY <1>1, <3>3, OfTwo
    <3>5. Max({start, inside[i].start + o[i]}) \in Int
      BY <1>1, <3>3, <3>4
    <3>. QED  BY <3>3, <3>5, WordType
  <2>3. Moved(inside, o) \in [1..Len(inside) -> Word]
    BY <2>1, <2>2 DEF Moved
  <2>. QED  BY <2>1, <2>3, SeqOfFunction
<1>7. PICK h \in Heads \union {<<>>}, o \in [DOMAIN Whole(now) -> Jitter],
           t \in Tails(now) \union {<<>>} : raw = h \o Moved(Whole(now), o) \o t
  <2>. DEFINE Hs == Heads \union {<<>>}
              Os == [DOMAIN Whole(now) -> Jitter]
              Ts == Tails(now) \union {<<>>}
  <2>1. Hearings(now) = {h \o Moved(Whole(now), o) \o t : h \in Hs, o \in Os, t \in Ts}
    BY DEF Hearings
  <2>. HIDE DEF Hs, Os, Ts
  <2>2. \E h \in Hs, o \in Os, t \in Ts : raw = h \o Moved(Whole(now), o) \o t
    BY <2>1
  <2>. QED  BY <2>2 DEF Hs, Os, Ts
<1>8. h \o Moved(Whole(now), o) \in Seq(Word)
  BY <1>4, <1>6, <1>7, JoinedType
<1>. QED  BY <1>5, <1>7, <1>8, JoinedType

LEMMA InBufferType ==
    ASSUME NEW now \in Nat, NEW raw \in Seq(Word)
    PROVE  InBuffer(raw, now) \in Seq(Word)
<1>. DEFINE kept == Chosen(raw, {i \in DOMAIN raw : raw[i].start < now})
<1>1. kept \in Seq(Word)
  BY ChosenType
<1>. HIDE DEF kept
<1>2. Len(kept) \in Nat /\ DOMAIN kept = 1..Len(kept)
  BY <1>1, LenProperties
<1>3. \A i \in DOMAIN kept :
        WordAt(kept[i].text, kept[i].start, Min({kept[i].end, now})) \in Word
  <2>. TAKE i \in DOMAIN kept
  <2>1. kept[i] \in Word
    BY <1>1, <1>2
  <2>2. Min({kept[i].end, now}) \in Int
    <3>1. kept[i].end \in Int /\ now \in Int
      BY <2>1, WordType
    <3>2. Min({kept[i].end, now}) \in {kept[i].end, now}
      BY <3>1, OfTwo
    <3>. QED  BY <3>1, <3>2
  <2>. QED  BY <2>1, <2>2, WordType
<1>4. InBuffer(raw, now) \in [1..Len(kept) -> Word]
  BY <1>2, <1>3 DEF InBuffer, kept
<1>. QED  BY <1>2, <1>4, SeqOfFunction

LEMMA OpenWordsType ==
    ASSUME NEW heard \in Seq(Word), NEW done, NEW c
    PROVE  OpenWords(heard, done, c) \in Seq(Word)
<1>. DEFINE kept == Chosen(heard, {i \in DOMAIN heard : heard[i].start >= c - CutSlack})
            last == {i \in DOMAIN done : i > Len(done) - Recent}
            repeats == {i \in DOMAIN kept : \E j \in last :
                          /\ Near(done[j].start, kept[i].start, RepeatTolerance)
                          /\ SameSpoken(done[j], kept[i])}
<1>1. kept \in Seq(Word)
  BY ChosenType
<1>. HIDE DEF kept, repeats
<1>2. Len(kept) \in Nat
  BY <1>1, LenProperties
<1>3. Leading(Len(kept), repeats) \in 0..Len(kept)
  BY <1>2, LeadingBound
<1>4. Leading(Len(kept), repeats) + 1 \in Nat \ {0} /\ Len(kept) \in 0..Len(kept)
  BY <1>2, <1>3
<1>5. SubSeq(kept, Leading(Len(kept), repeats) + 1, Len(kept)) \in Seq(Word)
  BY <1>1, <1>4, PieceType
<1>. QED  BY <1>5 DEF OpenWords, kept, repeats

\* What a tick may settle: more is committed, never less.
Settles(s) ==
    /\ s.done \in Seq(Word) /\ Len(committed) <= Len(s.done)
    /\ \A i \in 1..Len(committed) : s.done[i] = committed[i]
    /\ s.cut \in Int
    /\ s.waiting \in [words : Seq(Word), end : Int] \union {NoWindow}

\* More words behind those that are done.
LEMMA SettlesMore ==
    ASSUME TypeOK, NEW done \in Seq(Word), Len(committed) <= Len(done),
           \A i \in 1..Len(committed) : done[i] = committed[i],
           NEW more \in Seq(Word)
    PROVE  /\ done \o more \in Seq(Word) /\ Len(done) <= Len(done \o more)
           /\ Len(committed) <= Len(done \o more)
           /\ \A i \in 1..Len(committed) : (done \o more)[i] = committed[i]
           /\ \A i \in 1..Len(done) : (done \o more)[i] = done[i]
<1>1. /\ done \o more \in Seq(Word) /\ Len(done \o more) = Len(done) + Len(more)
      /\ \A i \in 1..Len(done) : (done \o more)[i] = done[i]
  BY JoinedType
<1>2. Len(done) \in Nat /\ Len(more) \in Nat /\ Len(committed) \in Nat
  BY LenProperties DEF TypeOK
<1>. QED  BY <1>1, <1>2

\* The seam commits a prefix of the waiting window.
LEMMA AfterSeamSettles ==
    ASSUME TypeOK, previous # NoWindow, NEW heard \in Seq(Word), NEW now \in Nat
    PROVE  Settles(AfterSeam(heard, now))
<1>. DEFINE current == OpenWords(heard, committed, cut)
            seam    == Seam(previous.words, previous.end, current, start)
            more    == SubSeq(previous.words, 1, seam.count)
<1>1. current \in Seq(Word)
  BY OpenWordsType
<1>. HIDE DEF current
<1>2. previous.words \in Seq(Word) /\ previous.end \in Int /\ start \in Int
      /\ committed \in Seq(Word)
  BY DEF TypeOK
<1>3. seam.count \in 0..Len(previous.words) /\ seam.skip \in 0..Len(current)
  BY <1>1, <1>2, SeamType
<1>. HIDE DEF seam
<1>4. more \in Seq(Word)
  BY <1>2, <1>3, PieceType
<1>5. seam.skip < Len(current) => current[seam.skip + 1].start \in Int
  <2>. SUFFICES ASSUME seam.skip < Len(current) PROVE current[seam.skip + 1].start \in Int
    OBVIOUS
  <2>1. seam.skip + 1 \in 1..Len(current)
    BY <1>1, <1>3, LenProperties
  <2>2. current[seam.skip + 1] \in Word
    BY <1>1, <2>1
  <2>. QED  BY <2>2 DEF Word
<1>. DEFINE next == IF seam.skip < Len(current) THEN current[seam.skip + 1].start ELSE now
<1>6. next \in Int
  BY <1>5
<1>. HIDE DEF more, next
<1>7. AfterSeam(heard, now) = [done |-> committed \o more, cut |-> next, waiting |-> NoWindow]
  BY DEF AfterSeam, more, next, seam, current
<1>8. Len(committed) <= Len(committed)
  BY <1>2, LenProperties
<1>9. /\ committed \o more \in Seq(Word) /\ Len(committed) <= Len(committed \o more)
      /\ \A i \in 1..Len(committed) : (committed \o more)[i] = committed[i]
  BY <1>2, <1>4, <1>8, SettlesMore
<1>. QED  BY <1>6, <1>7, <1>9 DEF Settles

\* So does the lock, of the open words.
LEMMA AfterLockSettles ==
    ASSUME TypeOK, NEW s, Settles(s),
           NEW heard \in Seq(Word), NEW now \in Nat
    PROVE  Settles(AfterLock(s, heard, now))
<1>. DEFINE open   == OpenWords(heard, s.done, s.cut)
            locked == Leading(Len(open), {i \in DOMAIN open : open[i].start < now - Horizon})
            more   == SubSeq(open, 1, locked)
            next   == Max({s.cut, now - Horizon})
<1>1. open \in Seq(Word) /\ Len(open) \in Nat
  BY OpenWordsType, LenProperties
<1>. HIDE DEF open
<1>2. locked \in 0..Len(open)
  BY <1>1, LeadingBound
<1>. HIDE DEF locked
<1>3. more \in Seq(Word)
  BY <1>1, <1>2, PieceType
<1>4. next \in Int
  <2>1. s.cut \in Int /\ now - Horizon \in Int
    BY StreamAssumption DEF Settles
  <2>2. next \in {s.cut, now - Horizon}
    BY <2>1, OfTwo
  <2>. QED  BY <2>1, <2>2
<1>5. /\ s.done \o more \in Seq(Word) /\ Len(committed) <= Len(s.done \o more)
      /\ \A i \in 1..Len(committed) : (s.done \o more)[i] = committed[i]
  BY <1>3, SettlesMore DEF Settles
<1>. HIDE DEF more, next
<1>6. \/ AfterLock(s, heard, now) = s
      \/ AfterLock(s, heard, now)
           = [done |-> s.done \o more, cut |-> next, waiting |-> NoWindow]
  BY DEF AfterLock, open, locked, more, next
<1>7. CASE AfterLock(s, heard, now) = s
  BY <1>7
<1>8. CASE AfterLock(s, heard, now)
             = [done |-> s.done \o more, cut |-> next, waiting |-> NoWindow]
  BY <1>4, <1>5, <1>8 DEF Settles
<1>. QED  BY <1>6, <1>7, <1>8

LEMMA SettledSettles ==
    ASSUME TypeOK, NEW heard \in Seq(Word), NEW now \in Nat, NEW resolves \in BOOLEAN
    PROVE  Settles(Settled(heard, now, resolves))
<1>. DEFINE asIs == [done |-> committed, cut |-> cut, waiting |-> previous]
            s    == IF previous # NoWindow /\ resolves THEN AfterSeam(heard, now) ELSE asIs
<1>1. Settles(asIs)
  BY LenProperties DEF TypeOK, Settles
<1>2. Settles(s)
  BY <1>1, AfterSeamSettles
<1>. HIDE DEF s
<1>4. Settles(AfterLock(s, heard, now))
  BY <1>2, AfterLockSettles
<1>. QED  BY <1>4 DEF Settled, s, asIs

LEMMA OpenLineType ==
    ASSUME TypeOK, NEW s, Settles(s), NEW heard \in Seq(Word)
    PROVE  OpenLine(s, heard) \in Seq(Word)
<1>. DEFINE open == OpenWords(heard, s.done, s.cut)
<1>1. open \in Seq(Word)
  BY OpenWordsType
<1>. HIDE DEF open
<1>2. CASE s.waiting = NoWindow
  BY <1>1, <1>2 DEF OpenLine, open
<1>3. CASE s.waiting # NoWindow
  <2>1. s.waiting.words \in Seq(Word) /\ s.waiting.end \in Int /\ start \in Int
    BY <1>3 DEF Settles, TypeOK
  <2>2. Join(s.waiting.words, s.waiting.end, open, start) \in Seq(Word)
    BY <1>1, <2>1, JoinType
  <2>. QED  BY <1>3, <2>2 DEF OpenLine, open
<1>. QED  BY <1>2, <1>3

----------------------------------------------------------------------------
(* What the client is told. *)

IInv == TypeOK /\ FinalIsCommitted

\* The step of FinalIsImmutable.
FinalStays ==
    /\ finalSent' >= finalSent /\ finalSent <= Len(line')
    /\ \A i \in 1..finalSent : line'[i] = line[i]

ToldOK  == /\ committed \in Seq(Word) /\ line \in Seq(Word)
           /\ finalSent \in 0..Len(line) /\ stableSent \in Nat
AudioOK == start \in Nat /\ length \in 0..Window /\ decoded \in 0..length
CutOK   == /\ previous \in [words : Seq(Word), end : Int] \union {NoWindow}
           /\ cut \in Int

LEMMA SameReflexive ==
    ASSUME NEW w \in Word PROVE Same(w, w)
<1>1. SameTolerance \in Nat
  BY StreamAssumption
<1>2. w.start \in Int /\ w.end \in Int
  BY WordType
<1>. QED  BY <1>1, <1>2 DEF Same, Near

\* A patch begins behind the final words, and what it makes final it sends.
LEMMA EmitKeeps ==
    ASSUME IInv, NEW done \in Seq(Word), Len(committed) <= Len(done),
           \A i \in 1..Len(committed) : done[i] = committed[i],
           NEW open \in Seq(Word), NEW now \in Nat, Emit(done, open, now)
    PROVE  /\ ToldOK' /\ FinalIsCommitted' /\ FinalStays
           /\ Len(line') = finalSent' + Len(open)
           /\ open = <<>> => finalSent' = Len(line')
<1>. DEFINE target == done \o open
            kept   == Kept(target)
            good   == {i \in DOMAIN target : \/ i <= Len(done)
                                             \/ target[i].start < now - Horizon}
            stable == Leading(Len(target), good)
<1>1. /\ Len(line) \in Nat /\ Len(committed) \in Nat /\ Len(done) \in Nat
      /\ line \in Seq(Word) /\ committed \in Seq(Word)
      /\ finalSent = Len(committed) /\ finalSent <= Len(line)
      /\ stableSent \in Nat /\ finalSent <= stableSent
      /\ \A i \in 1..finalSent : Same(line[i], committed[i])
  BY LenProperties DEF IInv, TypeOK, FinalIsCommitted
<1>2. /\ target \in Seq(Word) /\ Len(target) \in Nat /\ Len(done) <= Len(target)
      /\ Len(target) = Len(done) + Len(open)
      /\ \A i \in 1..Len(done) : target[i] = done[i]
      /\ DOMAIN target = 1..Len(target)
  <2>1. target \in Seq(Word) /\ Len(target) = Len(done) + Len(open)
        /\ \A i \in 1..Len(done) : target[i] = done[i]
    BY JoinedType
  <2>2. Len(open) \in Nat
    BY LenProperties
  <2>. QED  BY <1>1, <2>1, <2>2, LenProperties
<1>3. stable \in 0..Len(target) /\ Len(done) <= stable
  <2>1. 1..Len(done) \subseteq good /\ Len(done) \in 0..Len(target)
    BY <1>1, <1>2
  <2>. HIDE DEF good, target
  <2>. QED  BY <1>2, <2>1, LeadingBound
<1>4. /\ line' = SubSeq(line, 1, kept) \o SubSeq(target, kept + 1, Len(target))
      /\ stableSent' = Max({stableSent, stable})
      /\ finalSent' = Max({finalSent, Len(done)})
      /\ committed' = done
  BY DEF Emit
<1>. HIDE DEF stable, good, target
<1>5. /\ kept \in Nat /\ kept <= Len(line) /\ kept <= Len(target) /\ finalSent <= kept
      /\ \A i \in 1..kept : Same(line[i], target[i])
  <2>. DEFINE shared == Min({Len(line), Len(target)})
              alike  == {i \in 1..shared : Same(line[i], target[i])}
  <2>1. /\ shared \in Nat /\ shared <= Len(line) /\ shared <= Len(target)
        /\ shared \in {Len(line), Len(target)}
    <3>1. Len(line) \in Int /\ Len(target) \in Int
      BY <1>1, <1>2
    <3>2. /\ shared \in {Len(line), Len(target)}
          /\ shared <= Len(line) /\ shared <= Len(target)
      BY <3>1, OfTwo
    <3>. QED  BY <3>2, <1>1, <1>2
  <2>. HIDE DEF shared
  <2>2. finalSent \in 0..shared
    <3>1. finalSent <= Len(target) /\ finalSent <= Len(line) /\ finalSent \in Nat
      BY <1>1, <1>2
    <3>2. finalSent <= shared
      BY <2>1, <3>1
    <3>. QED  BY <2>1, <3>1, <3>2
  <2>3. 1..finalSent \subseteq alike
    <3>. SUFFICES ASSUME NEW i \in 1..finalSent
                  PROVE  i \in 1..shared /\ Same(line[i], target[i])
      OBVIOUS
    <3>1. i \in 1..shared /\ i \in 1..Len(committed) /\ i \in 1..Len(done)
      BY <1>1, <2>1, <2>2
    <3>2. target[i] = committed[i]
      BY <1>2, <3>1
    <3>. QED  BY <1>1, <3>1, <3>2
  <2>. HIDE DEF alike
  <2>4. kept = Leading(shared, alike)
    BY DEF Kept, shared, alike
  <2>5. kept \in 0..shared /\ 1..kept \subseteq alike /\ finalSent <= kept
    BY <2>1, <2>2, <2>3, <2>4, LeadingBound
  <2>6. \A i \in 1..kept : Same(line[i], target[i])
    BY <2>5 DEF alike
  <2>. QED  BY <2>1, <2>5, <2>6
<1>. HIDE DEF kept
<1>6. /\ line' \in Seq(Word) /\ Len(line') = Len(target)
      /\ \A i \in 1..kept : line'[i] = line[i]
      /\ \A i \in (kept + 1)..Len(target) : line'[i] = target[i]
  <2>. DEFINE front == SubSeq(line, 1, kept)
              back  == SubSeq(target, kept + 1, Len(target))
  <2>1. /\ front \in Seq(Word) /\ Len(front) = kept
        /\ \A i \in 1..kept : front[i] = line[i]
    <3>1. kept \in 0..Len(line) /\ 1 \in Nat \ {0}
      BY <1>1, <1>5
    <3>2. /\ front \in Seq(Word)
          /\ Len(front) = IF 1 <= kept THEN kept - 1 + 1 ELSE 0
          /\ \A i \in 1..(kept - 1 + 1) : front[i] = line[1 + i - 1]
      BY <1>1, <3>1, PieceType
    <3>. QED  BY <1>5, <3>2
  <2>2. /\ back \in Seq(Word) /\ Len(back) = Len(target) - kept
        /\ \A i \in 1..(Len(target) - kept) : back[i] = target[kept + i]
    <3>1. Len(target) \in 0..Len(target) /\ kept + 1 \in Nat \ {0}
      BY <1>2, <1>5
    <3>2. /\ back \in Seq(Word)
          /\ Len(back) = IF kept + 1 <= Len(target)
                         THEN Len(target) - (kept + 1) + 1 ELSE 0
          /\ \A i \in 1..(Len(target) - (kept + 1) + 1) : back[i] = target[kept + 1 + i - 1]
      BY <1>2, <3>1, PieceType, SMTT(30)
    <3>3. Len(back) = Len(target) - kept
      <4>1. kept \in Nat /\ Len(target) \in Nat /\ kept <= Len(target)
        BY <1>2, <1>5
      <4>. HIDE DEF back
      <4>2. CASE kept = Len(target)
        BY <3>2, <4>1, <4>2
      <4>3. CASE kept < Len(target)
        BY <3>2, <4>1, <4>3
      <4>. QED  BY <4>1, <4>2, <4>3
    <3>4. \A i \in 1..(Len(target) - kept) : back[i] = target[kept + i]
      <4>. TAKE i \in 1..(Len(target) - kept)
      <4>1. /\ Len(target) - (kept + 1) + 1 = Len(target) - kept
            /\ kept + 1 + i - 1 = kept + i
        BY <1>2, <1>5
      <4>. HIDE DEF back
      <4>. QED  BY <3>2, <4>1
    <3>. QED  BY <3>2, <3>3, <3>4
  <2>. HIDE DEF front, back
  <2>3. /\ front \o back \in Seq(Word) /\ Len(front \o back) = Len(target)
        /\ \A i \in 1..kept : (front \o back)[i] = line[i]
    <3>1. /\ front \o back \in Seq(Word) /\ Len(front \o back) = Len(front) + Len(back)
          /\ \A i \in 1..Len(front) : (front \o back)[i] = front[i]
      <4>1. front \in Seq(Word) /\ back \in Seq(Word)
        BY <2>1, <2>2
      <4>. QED  BY ONLY <4>1, JoinedType
    <3>. QED  BY <1>2, <1>5, <2>1, <2>2, <3>1
  <2>4. \A i \in (kept + 1)..Len(target) : (front \o back)[i] = target[i]
    <3>. TAKE i \in (kept + 1)..Len(target)
    <3>1. /\ i \in Nat /\ i > Len(front) /\ i <= Len(front) + Len(back)
          /\ i - kept \in 1..(Len(target) - kept)
      BY <1>2, <1>5, <2>1, <2>2, SMTT(30)
    <3>2. (front \o back)[i] = back[i - kept]
      <4>1. i \in 1..(Len(front) + Len(back))
        BY <3>1, <2>1, <1>5
      <4>. QED  BY <4>1, <3>1, <2>1, <2>2, ConcatProperties, SMTT(30)
    <3>3. back[i - kept] = target[kept + (i - kept)]
      BY <2>2, <3>1
    <3>. QED  BY <3>1, <3>2, <3>3, <1>5
  <2>5. line' = front \o back
    BY <1>4 DEF front, back
  <2>. QED  BY <2>3, <2>4, <2>5
<1>7. finalSent' = Len(done) /\ stableSent' \in Nat /\ stableSent' >= stable
  <2>1. finalSent \in Int /\ Len(done) \in Int /\ stable \in Int /\ stableSent \in Int
    BY <1>1, <1>3
  <2>2. /\ finalSent' \in {finalSent, Len(done)} /\ finalSent' >= Len(done)
        /\ finalSent' >= finalSent
        /\ stableSent' \in {stableSent, stable} /\ stableSent' >= stable
    BY <1>4, <2>1, OfTwo
  <2>. QED  BY <1>1, <1>3, <2>2
<1>8. ToldOK'
  <2>1. committed' \in Seq(Word) /\ line' \in Seq(Word)
    BY <1>4, <1>6
  <2>2. finalSent' \in 0..Len(line')
    BY <1>2, <1>6, <1>7
  <2>3. stableSent' \in Nat
    BY <1>7
  <2>. QED  BY <2>1, <2>2, <2>3 DEF ToldOK
<1>9. FinalStays
  <2>1. \A i \in 1..finalSent : i \in 1..kept
    BY <1>1, <1>5
  <2>. QED  BY <2>1, <1>1, <1>2, <1>6, <1>7 DEF FinalStays
<1>10. FinalIsCommitted'
  <2>1. \A i \in 1..Len(done) : Same(line'[i], done[i])
    <3>. TAKE i \in 1..Len(done)
    <3>1. target[i] = done[i] /\ done[i] \in Word
      BY <1>2, LenProperties
    <3>2. CASE i <= kept
      BY <1>1, <1>5, <1>6, <3>1, <3>2
    <3>3. CASE ~ (i <= kept)
      <4>1. i \in (kept + 1)..Len(target)
        BY <1>1, <1>2, <1>5, <3>3
      <4>. QED  BY <1>6, <3>1, <4>1, SameReflexive
    <3>. QED  BY <3>2, <3>3
  <2>2. finalSent' = Len(committed') /\ finalSent' <= Len(line')
    BY <1>2, <1>4, <1>6, <1>7
  <2>3. \A i \in 1..finalSent' : Same(line'[i], committed'[i])
    BY <1>4, <1>7, <2>1
  <2>4. finalSent' <= stableSent'
    BY <1>1, <1>3, <1>7
  <2>. QED  BY <2>2, <2>3, <2>4 DEF FinalIsCommitted
<1>11. Len(line') = finalSent' + Len(open)
  BY <1>2, <1>6, <1>7
<1>12. open = <<>> => finalSent' = Len(line')
  <2>. SUFFICES ASSUME open = <<>> PROVE finalSent' = Len(line')
    OBVIOUS
  <2>1. Len(open) = 0
    OBVIOUS
  <2>. QED  BY <1>1, <1>2, <1>6, <1>7, <2>1
<1>. QED  BY <1>8, <1>9, <1>10, <1>11, <1>12

----------------------------------------------------------------------------
(* The steps. *)

\* The buffer keeps its last frames, never more than the window holds.
LEMMA ResetBufferKeeps ==
    ASSUME NEW now \in Nat, NEW retained \in Nat, start \in Nat, start <= now,
           now - start <= Window, ResetBuffer(now, retained)
    PROVE  AudioOK'
<1>. DEFINE retain == Min({retained, now - start})
<1>1. retained \in Int /\ now - start \in Int /\ now - start >= 0 /\ Window \in Nat
  BY StreamAssumption, SMTT(30)
<1>2. retain \in {retained, now - start} /\ retain <= now - start
  BY <1>1, OfTwo
<1>3. start' = now - retain /\ length' = retain /\ decoded' = retain
  BY DEF ResetBuffer
<1>. HIDE DEF retain
<1>4. retain \in Nat
  BY <1>1, <1>2
<1>. QED  BY <1>1, <1>2, <1>3, <1>4 DEF AudioOK

LEMMA KeepBufferKeeps ==
    ASSUME NEW now \in Nat, start \in Nat, start <= now, now - start <= Window,
           KeepBuffer(now)
    PROVE  AudioOK'
BY StreamAssumption DEF KeepBuffer, AudioOK

\* All that is open becomes final.
LEMMA EndUtteranceKeeps ==
    ASSUME IInv, NEW now \in Nat, start <= now, now - start <= Window,
           NEW heard \in Seq(Word), NEW s, Settles(s), NEW retained \in Nat,
           EndUtterance(s, heard, now, retained)
    PROVE  ToldOK' /\ FinalIsCommitted' /\ FinalStays /\ AudioOK' /\ CutOK'
<1>. DEFINE open == OpenLine(s, heard)
<1>1. TypeOK /\ open \in Seq(Word)
  BY OpenLineType DEF IInv
<1>2. AudioOK'
  BY ResetBufferKeeps DEF EndUtterance, IInv, TypeOK
<1>3. CutOK'
  BY <1>2 DEF EndUtterance, Settles, CutOK, AudioOK
<1>. HIDE DEF open
<1>4. /\ s.done \o open \in Seq(Word) /\ Len(committed) <= Len(s.done \o open)
      /\ \A i \in 1..Len(committed) : (s.done \o open)[i] = committed[i]
  BY <1>1, SettlesMore DEF Settles
<1>5. <<>> \in Seq(Word)
  OBVIOUS
<1>6. Emit(s.done \o open, <<>>, now)
  BY DEF EndUtterance, open
<1>7. ToldOK' /\ FinalIsCommitted' /\ FinalStays
  BY <1>4, <1>5, <1>6, EmitKeeps
<1>. QED  BY <1>2, <1>3, <1>7

\* In the other three ends of a tick what is open stays open.
LEMMA OpenStaysKeeps ==
    ASSUME IInv, NEW now \in Nat, start <= now, now - start <= Window,
           NEW heard \in Seq(Word), NEW s, Settles(s), NEW retained \in Nat,
           \/ DropSilence(s, heard, now, retained)
           \/ NextWindow(s, heard, now)
           \/ GoOn(s, heard, now)
    PROVE  ToldOK' /\ FinalIsCommitted' /\ FinalStays /\ AudioOK' /\ CutOK'
<1>1. TypeOK /\ OpenLine(s, heard) \in Seq(Word) /\ start \in Nat
  BY OpenLineType DEF IInv, TypeOK
<1>2. Emit(s.done, OpenLine(s, heard), now)
  BY DEF DropSilence, NextWindow, GoOn
<1>3. ToldOK' /\ FinalIsCommitted' /\ FinalStays
  BY <1>1, <1>2, EmitKeeps DEF Settles
<1>4. CASE DropSilence(s, heard, now, retained)
  <2>1. AudioOK'
    BY <1>1, <1>4, ResetBufferKeeps DEF DropSilence
  <2>2. CutOK'
    BY <1>4, <2>1 DEF DropSilence, Settles, CutOK, AudioOK
  <2>. QED  BY <1>3, <2>1, <2>2
<1>5. CASE NextWindow(s, heard, now)
  <2>1. Overlap \in Nat
    BY StreamAssumption
  <2>2. AudioOK'
    BY <1>1, <1>5, <2>1, ResetBufferKeeps DEF NextWindow
  <2>3. [words |-> OpenLine(s, heard), end |-> now] \in [words : Seq(Word), end : Int]
    BY <1>1
  <2>4. CutOK'
    BY <1>5, <2>3 DEF NextWindow, Settles, CutOK
  <2>. QED  BY <1>3, <2>2, <2>4
<1>6. CASE GoOn(s, heard, now)
  <2>1. AudioOK'
    BY <1>1, <1>6, KeepBufferKeeps DEF GoOn
  <2>2. CutOK'
    BY <1>6 DEF GoOn, Settles, CutOK
  <2>. QED  BY <1>3, <2>1, <2>2
<1>. QED  BY <1>4, <1>5, <1>6

LEMMA AdvanceKeeps ==
    ASSUME IInv, NEW now \in Nat, start <= now, now - start <= Window, Advance(now)
    PROVE  ToldOK' /\ FinalIsCommitted' /\ FinalStays /\ AudioOK' /\ CutOK'
<1>1. PICK raw \in Hearings(now) :
        LET heard    == InBuffer(raw, now)
            present  == previous # NoWindow \/ heard # <<>>
            endpoint == Endpoint(now, present)
            full     == now - start >= Window
            s == Settled(heard, now, \/ now - start >= Overlap + SeamAfter
                                     \/ endpoint # "None" \/ full)
        IN  \/ EndUtterance(s, heard, now, KeepSilence)
            \/ DropSilence(s, heard, now, KeepSilence)
            \/ NextWindow(s, heard, now)
            \/ GoOn(s, heard, now)
  BY DEF Advance
<1>. DEFINE heard    == InBuffer(raw, now)
            endpoint == Endpoint(now, previous # NoWindow \/ heard # <<>>)
            resolve  == \/ now - start >= Overlap + SeamAfter
                        \/ endpoint # "None" \/ now - start >= Window
            s        == Settled(heard, now, resolve)
<1>2. \/ EndUtterance(s, heard, now, KeepSilence)
      \/ DropSilence(s, heard, now, KeepSilence)
      \/ NextWindow(s, heard, now)
      \/ GoOn(s, heard, now)
  BY <1>1
<1>3. heard \in Seq(Word)
  BY HearingType, InBufferType DEF IInv
<1>. HIDE DEF heard, resolve
<1>4. Settles(s)
  <2>1. resolve \in BOOLEAN
    BY DEF resolve
  <2>. QED  BY <1>3, <2>1, SettledSettles DEF IInv
<1>. HIDE DEF s
<1>5. KeepSilence \in Nat
  BY StreamAssumption
<1>6. CASE EndUtterance(s, heard, now, KeepSilence)
  BY <1>3, <1>4, <1>5, <1>6, EndUtteranceKeeps
<1>7. CASE DropSilence(s, heard, now, KeepSilence) \/ NextWindow(s, heard, now)
           \/ GoOn(s, heard, now)
  BY <1>3, <1>4, <1>5, <1>7, OpenStaysKeeps
<1>. QED  BY <1>2, <1>6, <1>7

LEMMA FinishKeeps ==
    ASSUME IInv, NEW now \in Nat, start <= now, now - start <= Window, Finish(now)
    PROVE  ToldOK' /\ FinalIsCommitted' /\ FinalStays /\ AudioOK' /\ CutOK'
<1>1. PICK raw \in Hearings(now) :
        LET heard == InBuffer(raw, now)
            s     == Settled(heard, now, TRUE)
        IN  EndUtterance(s, heard, now, 0) \/ DropSilence(s, heard, now, 0)
  BY DEF Finish
<1>. DEFINE heard == InBuffer(raw, now)
            s     == Settled(heard, now, TRUE)
<1>2. heard \in Seq(Word)
  BY HearingType, InBufferType DEF IInv
<1>3. EndUtterance(s, heard, now, 0) \/ DropSilence(s, heard, now, 0)
  BY <1>1
<1>. HIDE DEF heard
<1>4. Settles(s) /\ 0 \in Nat
  BY <1>2, SettledSettles DEF IInv
<1>. HIDE DEF s
<1>5. CASE EndUtterance(s, heard, now, 0)
  BY <1>2, <1>4, <1>5, EndUtteranceKeeps
<1>6. CASE DropSilence(s, heard, now, 0)
  BY <1>2, <1>4, <1>6, OpenStaysKeeps
<1>. QED  BY <1>3, <1>5, <1>6

----------------------------------------------------------------------------
(* The invariant and the theorems. *)

LEMMA InitIInv == Init => IInv
<1>. SUFFICES ASSUME Init PROVE IInv
  OBVIOUS
<1>1. <<>> \in Seq(Word) /\ Len(<<>>) = 0
  OBVIOUS
<1>. QED  BY <1>1, StreamAssumption DEF Init, IInv, TypeOK, FinalIsCommitted

\* What the parts of a step say, put together.
LEMMA PartsTogether ==
    ASSUME IInv, ToldOK', FinalIsCommitted', AudioOK', CutOK',
           UNCHANGED <<speech, policy>>, outcome' \in {"live", "flushed", "failed"}
    PROVE  IInv'
BY DEF IInv, TypeOK, ToldOK, AudioOK, CutOK

\* Nothing is said to the client.
LEMMA UntouchedKeeps ==
    ASSUME IInv, Untouched
    PROVE  ToldOK' /\ FinalIsCommitted' /\ FinalStays /\ CutOK'
BY DEF IInv, TypeOK, FinalIsCommitted, Same, Near, Untouched, told, ToldOK, CutOK, FinalStays

LEMMA PushKeeps ==
    ASSUME IInv, NEW n \in Chunks, Push(n)
    PROVE  IInv' /\ FinalStays
<1>. DEFINE wanted == Max({0, Step - (length - decoded)})
            take   == Min({n, Window - length, wanted})
            grown  == length + take
            now    == start + grown
<1>1. /\ n \in Nat /\ start \in Nat /\ length \in Nat /\ decoded \in Nat
      /\ decoded <= length /\ length <= Window /\ Window \in Nat /\ Step \in Nat
  BY StreamAssumption DEF IInv, TypeOK
<1>2. wanted \in Nat
  <2>1. 0 \in Int /\ Step - (length - decoded) \in Int
    BY <1>1
  <2>2. wanted \in Int /\ wanted >= 0
    BY <2>1, OfTwo
  <2>. QED  BY <2>2
<1>. HIDE DEF wanted
<1>3. take \in Nat /\ take <= Window - length
  <2>1. n \in Int /\ Window - length \in Int /\ wanted \in Int
    BY <1>1, <1>2
  <2>2. take \in {n, Window - length, wanted} /\ take <= Window - length
    BY <2>1, LeastOfThree
  <2>. QED  BY <1>1, <1>2, <2>2
<1>4. /\ UNCHANGED <<speech, policy>>
      /\ outcome' \in {"live", "flushed", "failed"}
      /\ \/ /\ length' = grown /\ Untouched /\ UNCHANGED <<start, decoded>>
         \/ Advance(now)
  <2>1. outcome = "live"
    BY DEF Push
  <2>. QED  BY <2>1 DEF Push, wanted
<1>. HIDE DEF take
<1>5. grown \in 0..Window /\ decoded <= grown /\ now \in Nat
      /\ start <= now /\ now - start = grown
  BY <1>1, <1>3
<1>. HIDE DEF grown
<1>6. CASE length' = grown /\ Untouched /\ UNCHANGED <<start, decoded>>
  <2>1. AudioOK'
    BY <1>1, <1>5, <1>6 DEF AudioOK
  <2>. QED  BY <1>4, <1>6, <2>1, UntouchedKeeps, PartsTogether
<1>7. CASE Advance(now)
  <2>1. now \in Nat /\ start <= now /\ now - start <= Window
    BY <1>5
  <2>2. ToldOK' /\ FinalIsCommitted' /\ FinalStays /\ AudioOK' /\ CutOK'
    BY <1>7, <2>1, AdvanceKeeps
  <2>. QED  BY <1>4, <2>2, PartsTogether
<1>. QED  BY <1>4, <1>6, <1>7

LEMMA FlushKeeps ==
    ASSUME IInv, Flush
    PROVE  IInv' /\ FinalStays
<1>1. /\ start \in Nat /\ length \in 0..Window /\ decoded \in 0..length /\ Window \in Nat
  BY StreamAssumption DEF IInv, TypeOK
<1>2. UNCHANGED <<speech, policy>> /\ outcome' \in {"live", "flushed", "failed"}
  BY DEF Flush
<1>3. CASE Untouched /\ UNCHANGED audio
  <2>1. AudioOK'
    BY <1>1, <1>3 DEF AudioOK, audio
  <2>. QED  BY <1>2, <1>3, <2>1, UntouchedKeeps, PartsTogether
<1>4. CASE Finish(start + length)
  <2>. DEFINE now == start + length
  <2>1. now \in Nat /\ start <= now /\ now - start <= Window /\ Finish(now)
    BY <1>1, <1>4
  <2>. HIDE DEF now
  <2>2. ToldOK' /\ FinalIsCommitted' /\ FinalStays /\ AudioOK' /\ CutOK'
    BY <2>1, FinishKeeps
  <2>. QED  BY <1>2, <2>2, PartsTogether
<1>. QED  BY <1>3, <1>4 DEF Flush

LEMMA StepKeeps ==
    ASSUME IInv, [Next]_vars
    PROVE  IInv' /\ (FinalStays \/ UNCHANGED vars)
<1>1. CASE Flush
  BY <1>1, FlushKeeps
<1>2. CASE \E n \in Chunks : Push(n)
  BY <1>2, PushKeeps
<1>3. CASE UNCHANGED vars
  BY <1>3 DEF vars, audio, told, IInv, TypeOK, FinalIsCommitted, Same, Near
<1>. QED  BY <1>1, <1>2, <1>3 DEF Next

\* The session's state is of its types: the buffer never outgrows the window
\* and no frontier the line, for every decoder, window and step.
THEOREM StreamTypeCorrect == Spec => []TypeOK
<1>1. IInv => TypeOK
  BY DEF IInv
<1>. QED  BY InitIInv, StepKeeps, <1>1, PTL DEF Spec

\* What the client holds as final is what the session has committed.
THEOREM FinalIsCommittedHolds == Spec => []FinalIsCommitted
<1>1. IInv => FinalIsCommitted
  BY DEF IInv
<1>. QED  BY InitIInv, StepKeeps, <1>1, PTL DEF Spec

\* A word the client was told is final is never patched: not by a seam, a
\* lock or an endpoint, whatever the decoder answers.
THEOREM FinalIsImmutableHolds == Spec => FinalIsImmutable
<1>1. IInv /\ [Next]_vars
        => [/\ finalSent' >= finalSent /\ finalSent <= Len(line')
            /\ \A i \in 1..finalSent : line'[i] = line[i]]_vars
  BY StepKeeps DEF FinalStays
<1>. QED  BY InitIInv, StepKeeps, <1>1, PTL DEF Spec, FinalIsImmutable

----------------------------------------------------------------------------
(* The flush. *)

\* What is open is what stands behind an empty buffer.
OpenIsUnlooked == Len(line) = finalSent + Len(Unlooked)

FlushIInv ==
    /\ IInv
    /\ outcome = "flushed" => OpenIsUnlooked
    /\ outcome = "live" /\ length = 0 => OpenIsUnlooked

\* Nothing waits, and nothing the client holds may change.
AllTold == previous = NoWindow /\ finalSent = Len(line)

LEMMA ToldLeavesNothing ==
    ASSUME IInv', AllTold'
    PROVE  OpenIsUnlooked'
<1>1. Unlooked' = <<>>
  BY DEF AllTold, Unlooked
<1>2. finalSent' = Len(line') /\ finalSent' \in Nat
  BY DEF AllTold, IInv, TypeOK
<1>. QED  BY <1>1, <1>2 DEF OpenIsUnlooked

\* A silent buffer has no open words.
LEMMA NothingOpen ==
    ASSUME NEW s, s.waiting = NoWindow
    PROVE  OpenLine(s, <<>>) = <<>>
<1>. DEFINE none == {i \in DOMAIN <<>> : <<>>[i].start >= s.cut - CutSlack}
            kept == Chosen(<<>>, none)
<1>1. none = {}
  OBVIOUS
<1>. HIDE DEF none
<1>2. Cardinality(none) = 0
  BY <1>1, FS_EmptySet
<1>3. kept = <<>>
  <2>1. 1..Cardinality(none) = {}
    BY <1>2
  <2>2. kept \in [1..0 -> Word]
    BY <2>1, <1>2 DEF Chosen
  <2>3. kept \in Seq(Word) /\ Len(kept) = 0
    BY <2>2, SeqOfFunction
  <2>. QED  BY <2>3
<1>. HIDE DEF kept
<1>4. \A g : SubSeq(kept, Leading(Len(kept), g) + 1, Len(kept)) = <<>>
  <2>. TAKE g
  <2>1. Len(kept) = 0 /\ kept \in Seq(Word)
    BY <1>3
  <2>2. Leading(Len(kept), g) = 0
    BY <2>1, LeadingBound
  <2>. QED  BY <2>1, <2>2
<1>5. OpenWords(<<>>, s.done, s.cut) = <<>>
  BY <1>4 DEF OpenWords, kept, none
<1>. QED  BY <1>5 DEF OpenLine

\* A tick that looks at the seam leaves no window waiting.
LEMMA SettledResolves ==
    ASSUME NEW heard, NEW now
    PROVE  /\ Settled(heard, now, TRUE).waiting = NoWindow
           /\ \A resolves \in BOOLEAN :
                previous = NoWindow => Settled(heard, now, resolves).waiting = NoWindow
<1>1. \A s : s.waiting = NoWindow => AfterLock(s, heard, now).waiting = NoWindow
  BY DEF AfterLock
<1>2. AfterSeam(heard, now).waiting = NoWindow
  BY DEF AfterSeam
<1>. QED  BY <1>1, <1>2 DEF Settled

\* The end of an utterance tells all.
LEMMA EndUtteranceTells ==
    ASSUME IInv, NEW now \in Nat, NEW heard \in Seq(Word),
           NEW s, Settles(s), s.waiting = NoWindow, NEW retained,
           EndUtterance(s, heard, now, retained)
    PROVE  AllTold'
<1>. DEFINE open == OpenLine(s, heard)
<1>1. TypeOK /\ open \in Seq(Word)
  BY OpenLineType DEF IInv
<1>. HIDE DEF open
<1>2. /\ s.done \o open \in Seq(Word) /\ Len(committed) <= Len(s.done \o open)
      /\ \A i \in 1..Len(committed) : (s.done \o open)[i] = committed[i]
  BY <1>1, SettlesMore DEF Settles
<1>3. Emit(s.done \o open, <<>>, now) /\ <<>> \in Seq(Word)
  BY DEF EndUtterance, open
<1>4. finalSent' = Len(line')
  BY <1>2, <1>3, EmitKeeps
<1>. QED  BY <1>4 DEF EndUtterance, AllTold

\* So does a silence that is dropped.
LEMMA DropSilenceTells ==
    ASSUME IInv, NEW now \in Nat, NEW s, Settles(s), s.waiting = NoWindow,
           NEW retained, DropSilence(s, <<>>, now, retained)
    PROVE  AllTold'
<1>1. Emit(s.done, <<>>, now) /\ <<>> \in Seq(Word)
  BY NothingOpen DEF DropSilence
<1>2. finalSent' = Len(line')
  BY <1>1, EmitKeeps DEF Settles
<1>. QED  BY <1>2 DEF DropSilence, AllTold

\* A full window leaves an empty buffer only without an overlap, and then its
\* open words wait.
LEMMA NextWindowLeaves ==
    ASSUME IInv, NEW now \in Nat, start < now,
           NEW heard \in Seq(Word), NEW s, Settles(s), NextWindow(s, heard, now)
    PROVE  length' = 0 => OpenIsUnlooked'
<1>. DEFINE open == OpenLine(s, heard)
<1>1. open \in Seq(Word)
  BY OpenLineType DEF IInv
<1>2. Emit(s.done, open, now) /\ previous' = [words |-> open, end |-> now]
  BY DEF NextWindow
<1>. HIDE DEF open
<1>3. Len(line') = finalSent' + Len(open)
  BY <1>1, <1>2, EmitKeeps DEF Settles
<1>4. previous' # NoWindow /\ previous'.words = open
  BY <1>1, <1>2, StreamAssumption
<1>5. length' = 0 => Overlap = 0
  <2>1. Overlap \in Int /\ Overlap >= 0 /\ now - start \in Int /\ now - start > 0
    <3>1. Overlap \in 0..(Window - 1) /\ Window \in Nat
      BY StreamAssumption
    <3>2. start \in Nat
      BY DEF IInv, TypeOK
    <3>. QED  BY <3>1, <3>2
  <2>2. Min({Overlap, now - start}) \in {Overlap, now - start}
    BY <2>1, OfTwo
  <2>3. length' = Min({Overlap, now - start})
    BY DEF NextWindow, ResetBuffer
  <2>. QED  BY <2>1, <2>2, <2>3
<1>. QED  BY <1>3, <1>4, <1>5 DEF OpenIsUnlooked, Unlooked

\* A tick that empties the buffer leaves open only what waits.
LEMMA AdvanceTells ==
    ASSUME IInv, IInv', NEW now \in Nat, start < now, now - start <= Window,
           Advance(now)
    PROVE  length' = 0 => OpenIsUnlooked'
<1>1. PICK raw \in Hearings(now) :
        LET heard    == InBuffer(raw, now)
            present  == previous # NoWindow \/ heard # <<>>
            endpoint == Endpoint(now, present)
            full     == now - start >= Window
            s == Settled(heard, now, \/ now - start >= Overlap + SeamAfter
                                     \/ endpoint # "None" \/ full)
        IN  \/ endpoint = "AfterSpeech" /\ EndUtterance(s, heard, now, KeepSilence)
            \/ endpoint = "NoSpeech" /\ DropSilence(s, heard, now, KeepSilence)
            \/ full /\ NextWindow(s, heard, now)
            \/ GoOn(s, heard, now)
  BY DEF Advance
<1>. DEFINE heard    == InBuffer(raw, now)
            present  == previous # NoWindow \/ heard # <<>>
            endpoint == Endpoint(now, present)
            resolve  == \/ now - start >= Overlap + SeamAfter
                        \/ endpoint # "None" \/ now - start >= Window
            s        == Settled(heard, now, resolve)
<1>2. \/ endpoint = "AfterSpeech" /\ EndUtterance(s, heard, now, KeepSilence)
      \/ endpoint = "NoSpeech" /\ DropSilence(s, heard, now, KeepSilence)
      \/ now - start >= Window /\ NextWindow(s, heard, now)
      \/ GoOn(s, heard, now)
  BY <1>1
<1>3. heard \in Seq(Word)
  BY HearingType, InBufferType DEF IInv
<1>4. endpoint # "None" => resolve = TRUE
  OBVIOUS
<1>5. endpoint = "NoSpeech" => previous = NoWindow /\ heard = <<>>
  BY DEF Endpoint
<1>. HIDE DEF heard, resolve, endpoint
<1>6. Settles(s)
  <2>1. resolve \in BOOLEAN
    BY DEF resolve
  <2>. QED  BY <1>3, <2>1, SettledSettles DEF IInv
<1>7. endpoint # "None" => s.waiting = NoWindow
  BY <1>4, SettledResolves
<1>. HIDE DEF s
<1>8. CASE endpoint = "AfterSpeech" /\ EndUtterance(s, heard, now, KeepSilence)
  <2>1. s.waiting = NoWindow
    BY <1>7, <1>8
  <2>. QED  BY <1>3, <1>6, <1>8, <2>1, EndUtteranceTells, ToldLeavesNothing
<1>9. CASE endpoint = "NoSpeech" /\ DropSilence(s, heard, now, KeepSilence)
  <2>1. s.waiting = NoWindow /\ DropSilence(s, <<>>, now, KeepSilence)
    BY <1>5, <1>7, <1>9
  <2>. QED  BY <1>6, <2>1, DropSilenceTells, ToldLeavesNothing
<1>10. CASE now - start >= Window /\ NextWindow(s, heard, now)
  BY <1>3, <1>6, <1>10, NextWindowLeaves
<1>11. CASE GoOn(s, heard, now)
  <2>1. length' = now - start /\ start \in Nat
    BY <1>11 DEF GoOn, KeepBuffer, IInv, TypeOK
  <2>. QED  BY <2>1
<1>. QED  BY <1>2, <1>8, <1>9, <1>10, <1>11

LEMMA FinishTells ==
    ASSUME IInv, NEW now \in Nat, Finish(now)
    PROVE  AllTold'
<1>1. PICK raw \in Hearings(now) :
        LET heard == InBuffer(raw, now)
            s     == Settled(heard, now, TRUE)
        IN  \/ EndUtterance(s, heard, now, 0)
            \/ heard = <<>> /\ DropSilence(s, heard, now, 0)
  BY DEF Finish
<1>. DEFINE heard == InBuffer(raw, now)
            s     == Settled(heard, now, TRUE)
<1>2. heard \in Seq(Word)
  BY HearingType, InBufferType DEF IInv
<1>3. \/ EndUtterance(s, heard, now, 0)
      \/ heard = <<>> /\ DropSilence(s, heard, now, 0)
  BY <1>1
<1>. HIDE DEF heard
<1>4. Settles(s) /\ s.waiting = NoWindow
  BY <1>2, SettledSettles, SettledResolves DEF IInv
<1>. HIDE DEF s
<1>5. CASE EndUtterance(s, heard, now, 0)
  BY <1>2, <1>4, <1>5, EndUtteranceTells
<1>6. CASE heard = <<>> /\ DropSilence(s, heard, now, 0)
  BY <1>4, <1>6, DropSilenceTells
<1>. QED  BY <1>3, <1>5, <1>6

LEMMA PushTells ==
    ASSUME FlushIInv, NEW n \in Chunks, Push(n)
    PROVE  FlushIInv'
<1>. DEFINE wanted == Max({0, Step - (length - decoded)})
            take   == Min({n, Window - length, wanted})
            grown  == length + take
            now    == start + grown
<1>1. /\ n \in Nat \ {0} /\ start \in Nat /\ length \in Nat /\ decoded \in Nat
      /\ decoded <= length /\ length <= Window
      /\ Window \in Nat \ {0} /\ Step \in Nat \ {0}
  BY StreamAssumption DEF FlushIInv, IInv, TypeOK
<1>2. wanted \in Nat
  <2>1. 0 \in Int /\ Step - (length - decoded) \in Int
    BY <1>1
  <2>2. wanted \in Int /\ wanted >= 0
    BY <2>1, OfTwo
  <2>. QED  BY <2>2
<1>. HIDE DEF wanted
<1>3. take \in Nat /\ take <= Window - length
  <2>1. n \in Int /\ Window - length \in Int /\ wanted \in Int
    BY <1>1, <1>2
  <2>2. take \in {n, Window - length, wanted} /\ take <= Window - length
    BY <2>1, LeastOfThree
  <2>. QED  BY <1>1, <1>2, <2>2
<1>4. /\ outcome = "live" /\ outcome' \in {"live", "failed"}
      /\ \/ length' = grown /\ Untouched
         \/ (grown >= Window \/ grown - decoded >= Step) /\ Advance(now)
  BY DEF Push, wanted
<1>5. IInv'
  BY PushKeeps DEF FlushIInv
<1>. HIDE DEF take
<1>6. CASE length' = grown /\ Untouched
  <2>1. length' = 0 => length = 0
    BY <1>1, <1>3, <1>6
  <2>2. length' = 0 /\ OpenIsUnlooked => OpenIsUnlooked'
    BY <1>6, <2>1 DEF OpenIsUnlooked, Unlooked, Untouched, told
  <2>. QED  BY <1>4, <1>5, <2>1, <2>2 DEF FlushIInv
<1>7. CASE (grown >= Window \/ grown - decoded >= Step) /\ Advance(now)
  <2>1. now \in Nat /\ start < now /\ now - start <= Window
    BY <1>1, <1>3, <1>7
  <2>. HIDE DEF now
  <2>2. length' = 0 => OpenIsUnlooked'
    BY <1>5, <1>7, <2>1, AdvanceTells DEF FlushIInv
  <2>. QED  BY <1>4, <1>5, <2>2 DEF FlushIInv
<1>. QED  BY <1>4, <1>6, <1>7

LEMMA FlushTells ==
    ASSUME FlushIInv, Flush
    PROVE  FlushIInv'
<1>1. IInv' /\ IInv
  BY FlushKeeps DEF FlushIInv
<1>2. CASE length = 0 /\ outcome' = "flushed" /\ Untouched /\ UNCHANGED audio
  <2>1. OpenIsUnlooked /\ UNCHANGED audio
    BY <1>2 DEF Flush, FlushIInv
  <2>2. OpenIsUnlooked'
    BY <1>2, <2>1 DEF OpenIsUnlooked, Unlooked, Untouched, told, audio
  <2>. QED  BY <1>1, <1>2, <2>2 DEF FlushIInv
<1>3. CASE outcome' = "flushed" /\ Finish(start + length)
  <2>1. start + length \in Nat
    BY <1>1, StreamAssumption DEF IInv, TypeOK
  <2>2. AllTold'
    BY <1>1, <1>3, <2>1, FinishTells
  <2>. QED  BY <1>1, <1>3, <2>2, ToldLeavesNothing DEF FlushIInv
<1>4. CASE outcome' = "failed"
  BY <1>1, <1>4 DEF FlushIInv
<1>. QED  BY <1>2, <1>3, <1>4 DEF Flush

\* What a flush leaves open, whatever the windows' overlap: the words of a
\* window that was exactly full and is followed by none of its audio, and no
\* others.
THEOREM FlushLeavesUnlookedHolds == Spec => []FlushLeavesUnlooked
<1>1. Init => FlushIInv
  <2>. SUFFICES ASSUME Init PROVE FlushIInv
    OBVIOUS
  <2>1. Unlooked = <<>> /\ Len(line) = 0 /\ finalSent = 0
    BY DEF Init, Unlooked
  <2>2. OpenIsUnlooked
    BY <2>1 DEF OpenIsUnlooked
  <2>. QED  BY <2>2, InitIInv DEF FlushIInv
<1>2. FlushIInv /\ [Next]_vars => FlushIInv'
  <2>. SUFFICES ASSUME FlushIInv, [Next]_vars PROVE FlushIInv'
    OBVIOUS
  <2>1. CASE Flush
    BY <2>1, FlushTells
  <2>2. CASE \E n \in Chunks : Push(n)
    BY <2>2, PushTells
  <2>3. CASE UNCHANGED vars
    <3>1. IInv'
      BY StepKeeps DEF FlushIInv
    <3>. QED  BY <2>3, <3>1 DEF vars, audio, told, FlushIInv, OpenIsUnlooked, Unlooked
  <2>. QED  BY <2>1, <2>2, <2>3 DEF Next
<1>3. FlushIInv => FlushLeavesUnlooked
  BY DEF FlushIInv, OpenIsUnlooked, FlushLeavesUnlooked
<1>. QED  BY <1>1, <1>2, <1>3, PTL DEF Spec

----------------------------------------------------------------------------
(* Arithmetic. *)

LEMMA TimesGrows ==
    ASSUME NEW a \in Int, NEW b \in Int, NEW m \in Nat, a <= b
    PROVE  a * m <= b * m
<1>1. (b - a) * m >= 0
  <2>1. b - a \in Nat
    OBVIOUS
  <2> QED BY <2>1, SMT
<1>2. (b - a) * m = b * m - a * m
  BY SMT
<1>3. a * m \in Int /\ b * m \in Int
  OBVIOUS
<1> QED BY <1>1, <1>2, <1>3

LEMMA Quotient ==
    ASSUME NEW a \in Nat, NEW m \in Nat \ {0}
    PROVE  /\ a \div m \in Nat /\ a % m \in 0..(m - 1)
           /\ a = (a \div m) * m + (a % m)
BY SMT

LEMMA QuotientBelow ==
    ASSUME NEW a \in Nat, NEW m \in Nat \ {0}, NEW n \in Int
    PROVE  a \div m < n <=> a < n * m
<1> DEFINE q == a \div m
           l == a % m
<1>1. q \in Nat /\ l \in 0..(m - 1) /\ a = q * m + l
  BY Quotient
<1> HIDE DEF q, l
<1>2. CASE q < n
  <2>1. (q + 1) * m <= n * m
    BY <1>1, <1>2, TimesGrows
  <2>2. (q + 1) * m = q * m + m
    BY <1>1, SMT
  <2>3. q * m \in Int /\ n * m \in Int
    BY <1>1
  <2> QED BY <1>1, <1>2, <2>1, <2>2, <2>3
<1>3. CASE ~(q < n)
  <2>1. n * m <= q * m
    BY <1>1, <1>3, TimesGrows
  <2>2. q * m \in Int /\ n * m \in Int
    BY <1>1
  <2> QED BY <1>1, <1>3, <2>1, <2>2
<1> QED BY <1>2, <1>3 DEF q

LEMMA CeilAbove ==
    ASSUME NEW a \in Nat, NEW m \in Nat \ {0}, NEW k \in Nat
    PROVE  CeilDiv(a, m) \in Nat /\ (k < CeilDiv(a, m) <=> k * m < a)
<1> DEFINE q == (a + m - 1) \div m
<1>1. a + m - 1 \in Nat /\ k + 1 \in Int
  OBVIOUS
<1>2. q \in Nat /\ (q < k + 1 <=> a + m - 1 < (k + 1) * m)
  BY <1>1, Quotient, QuotientBelow
<1>3. (k + 1) * m = k * m + m /\ k * m \in Int
  BY SMT
<1> HIDE DEF q
<1>4. k < q <=> k * m < a
  BY <1>2, <1>3
<1> QED BY <1>2, <1>4 DEF CeilDiv, q

-----------------------------------------------------------------------------
(* The speech segments of vad_policy.rs follow the speech.  The loop over the *)
(* frames is a fold, and a fold is the recursive function IsWalk unfolds: its *)
(* state after each frame is that frame's step from the one before            *)
(* (ScanFrameByFrame), which makes the loop open to an invariant (Passed).      *)

CONSTANTS VoiceHop, VoiceContext

Voice == INSTANCE Vad WITH Hop <- VoiceHop, Context <- VoiceContext

Idle == [open |-> <<>>, tentative |-> <<>>, raw |-> <<>>]

Places(heard) == [i \in DOMAIN heard |-> i]

\* One frame of the loop.
Frame(heard, rules, state, i) ==
    Voice!DetectFrame(state, Places(heard)[i], heard[Places(heard)[i]], rules)

\* The recursive function that the fold over the frames is, on sets of frames.
IsWalk(heard, rules, g, frames) ==
    g = [s \in SUBSET frames |->
           IF s = {} THEN Idle
           ELSE Frame(heard, rules, g[s \ {Voice!Max(s)}], Voice!Max(s))]

Walk(heard, rules) == CHOOSE g : IsWalk(heard, rules, g, DOMAIN Places(heard))

Scanned(heard, rules) ==
    Voice!FoldLeftDomain(LAMBDA state, f : Voice!DetectFrame(state, f, heard[f], rules),
                         Idle, heard)

LEMMA ScanIsWalk ==
    ASSUME NEW heard, NEW rules
    PROVE  Scanned(heard, rules) = Walk(heard, rules)[DOMAIN Places(heard)]
BY DEF Scanned, Voice!FoldLeftDomain, Voice!FoldLeft, Voice!MapThenFoldSet, Walk, IsWalk,
       Places, Frame

LEMMA GreatestOfFirst ==
    ASSUME NEW k \in Nat, NEW s \in SUBSET (1..(k + 1)), k + 1 \in s
    PROVE  Voice!Max(s) = k + 1
<1>1. \A y \in s : k + 1 >= y
  OBVIOUS
<1>2. \E x \in s : \A y \in s : x >= y
  BY <1>1
<1>3. Voice!Max(s) \in s /\ \A y \in s : Voice!Max(s) >= y
  BY <1>2, Zenon DEF Voice!Max
<1>4. Voice!Max(s) >= k + 1 /\ Voice!Max(s) <= k + 1 /\ Voice!Max(s) \in 1..(k + 1)
  BY <1>1, <1>3
<1> QED BY <1>4

\* One more frame: the function on more sets.
LEMMA WalkGrows ==
    ASSUME NEW heard, NEW rules, NEW k \in Nat, NEW g, IsWalk(heard, rules, g, 1..k)
    PROVE  \E h : IsWalk(heard, rules, h, 1..(k + 1))
<1> DEFINE h == [s \in SUBSET (1..(k + 1)) |->
                   IF s \in SUBSET (1..k) THEN g[s]
                   ELSE Frame(heard, rules, g[s \ {k + 1}], k + 1)]
<1>1. ASSUME NEW s \in SUBSET (1..(k + 1))
      PROVE  h[s] = IF s = {} THEN Idle
                    ELSE Frame(heard, rules, h[s \ {Voice!Max(s)}], Voice!Max(s))
  <2>1. CASE s \in SUBSET (1..k)
    <3>1. g[s] = IF s = {} THEN Idle
                 ELSE Frame(heard, rules, g[s \ {Voice!Max(s)}], Voice!Max(s))
      BY <2>1 DEF IsWalk
    <3>2. s \ {Voice!Max(s)} \in SUBSET (1..k) /\ s \ {Voice!Max(s)} \in SUBSET (1..(k + 1))
      BY <2>1
    <3>3. h[s] = g[s] /\ h[s \ {Voice!Max(s)}] = g[s \ {Voice!Max(s)}]
      BY <2>1, <3>2
    <3> HIDE DEF h
    <3> QED BY <3>1, <3>3
  <2>2. CASE s \notin SUBSET (1..k)
    <3>1. k + 1 \in s
      BY <2>2
    <3>2. Voice!Max(s) = k + 1 /\ s # {}
      BY <3>1, GreatestOfFirst
    <3>3. s \ {k + 1} \in SUBSET (1..k) /\ s \ {k + 1} \in SUBSET (1..(k + 1))
      OBVIOUS
    <3>4. h[s] = Frame(heard, rules, g[s \ {k + 1}], k + 1) /\ h[s \ {k + 1}] = g[s \ {k + 1}]
      BY <2>2, <3>3
    <3> HIDE DEF h
    <3> QED BY <3>2, <3>4
  <2> QED BY <2>1, <2>2
<1>2. h = [s \in SUBSET (1..(k + 1)) |-> h[s]]
  OBVIOUS
<1> HIDE DEF h
<1>3. IsWalk(heard, rules, h, 1..(k + 1))
  BY <1>1, <1>2, Zenon DEF IsWalk
<1> QED BY <1>3

LEMMA WalkExists ==
    ASSUME NEW heard, NEW rules, NEW n \in Nat
    PROVE  \E g : IsWalk(heard, rules, g, 1..n)
<1> DEFINE Has(k) == \E g : IsWalk(heard, rules, g, 1..k)
           lacking == {k \in Nat : ~Has(k)}
<1>1. Has(0)
  <2> DEFINE h == [s \in SUBSET {} |-> Idle]
  <2>1. 1..0 = {}
    OBVIOUS
  <2>2. h = [s \in SUBSET {} |->
               IF s = {} THEN Idle
               ELSE Frame(heard, rules, h[s \ {Voice!Max(s)}], Voice!Max(s))]
    <3>1. \A s \in SUBSET {} : s = {}
      OBVIOUS
    <3> QED BY <3>1
  <2> HIDE DEF h
  <2>3. IsWalk(heard, rules, h, {})
    BY <2>2 DEF IsWalk
  <2> QED BY <2>1, <2>3
<1>2. ASSUME NEW k \in Nat, Has(k) PROVE Has(k + 1)
  BY <1>2, WalkGrows
<1> HIDE DEF Has
<1>3. lacking = {}
  <2> SUFFICES ASSUME lacking # {} PROVE FALSE
    OBVIOUS
  <2>1. PICK k \in lacking : \A l \in lacking : k <= l
    <3>1. lacking \in SUBSET Nat
      OBVIOUS
    <3> HIDE DEF lacking
    <3> QED BY <3>1, LeastExists
  <2>2. k \in Nat /\ ~Has(k) /\ k # 0
    BY <1>1, <2>1
  <2>3. k - 1 \in Nat /\ ~(k <= k - 1) /\ (k - 1) + 1 = k
    BY <2>2
  <2>4. Has(k - 1)
    BY <2>1, <2>3
  <2>5. Has((k - 1) + 1)
    BY <1>2, <2>3, <2>4
  <2> QED BY <2>2, <2>3, <2>5
<1>4. Has(n)
  BY <1>3
<1> QED BY <1>4 DEF Has

\* The loop, frame by frame: what the state is after each of them.
IsScan(h, heard, rules, n) ==
    /\ h[0] = Idle
    /\ \A i \in 1..n : h[i] = Voice!DetectFrame(h[i - 1], i, heard[i], rules)

LEMMA ScanFrameByFrame ==
    ASSUME NEW heard, NEW rules, NEW n \in Nat, DOMAIN heard = 1..n
    PROVE  \E h : IsScan(h, heard, rules, n) /\ Scanned(heard, rules) = h[n]
<1> DEFINE g == Walk(heard, rules)
           h == [k \in 0..n |-> g[1..k]]
<1>1. DOMAIN Places(heard) = 1..n /\ \A i \in 1..n : Places(heard)[i] = i
  BY DEF Places
<1>2. IsWalk(heard, rules, g, 1..n)
  BY <1>1, WalkExists, Zenon DEF Walk
<1>3. Scanned(heard, rules) = g[1..n]
  BY <1>1, ScanIsWalk
<1> HIDE DEF g
<1>4. h[0] = Idle
  <2>1. h[0] = g[1..0] /\ 1..0 = {} /\ {} \in SUBSET (1..n)
    OBVIOUS
  <2>2. g[{}] = Idle
    BY <1>2, <2>1 DEF IsWalk
  <2> QED BY <2>1, <2>2
<1>5. ASSUME NEW i \in 1..n
      PROVE  h[i] = Voice!DetectFrame(h[i - 1], i, heard[i], rules)
  <2>1. /\ 1..i \in SUBSET (1..n) /\ 1..i # {} /\ (1..i) \ {i} = 1..(i - 1)
        /\ i \in 0..n /\ i - 1 \in 0..n
    <3>1. i \in 0..n /\ i - 1 \in 0..n
      OBVIOUS
    <3>2. \A x : x \in (1..i) \ {i} <=> x \in 1..(i - 1)
      OBVIOUS
    <3>3. (1..i) \ {i} = 1..(i - 1)
      BY <3>2
    <3>4. 1..i \in SUBSET (1..n)
      OBVIOUS
    <3>5. i \in 1..i
      OBVIOUS
    <3> QED BY <3>1, <3>3, <3>4, <3>5
  <2>2. Voice!Max(1..i) = i
    <3>1. i - 1 \in Nat /\ (i - 1) + 1 = i /\ i \in 1..i /\ 1..i \in SUBSET (1..i)
      OBVIOUS
    <3>2. Voice!Max(1..i) = (i - 1) + 1
      BY <3>1, GreatestOfFirst
    <3> QED BY <3>1, <3>2
  <2>3. g[1..i] = Frame(heard, rules, g[(1..i) \ {Voice!Max(1..i)}], Voice!Max(1..i))
    BY <1>2, <2>1 DEF IsWalk
  <2>4. g[1..i] = Frame(heard, rules, g[1..(i - 1)], i)
    BY <2>1, <2>2, <2>3
  <2>5. h[i] = g[1..i] /\ h[i - 1] = g[1..(i - 1)]
    BY <2>1
  <2> HIDE DEF h
  <2> QED BY <1>1, <2>4, <2>5 DEF Frame
<1>6. h[n] = g[1..n]
  OBVIOUS
<1> HIDE DEF h
<1>7. IsScan(h, heard, rules, n)
  BY <1>4, <1>5 DEF IsScan
<1> QED BY <1>3, <1>6, <1>7

\* The times of the frames, and the six cases of one.

\* The samples of the first f frames.
Time(f) == f * VoiceHop

VoiceRules == [speech : Int, silence : Int, minimumSpeech : Nat, minimumSilence : Nat,
                padding : Nat]

LEMMA TimeGrows ==
    ASSUME VoiceHop \in Nat \ {0}
    PROVE  /\ \A f \in Nat : Time(f) \in Nat
           /\ \A f \in Nat, g \in Nat : f <= g => Time(f) <= Time(g)
           /\ \A f \in Nat, g \in Nat : f < g => Time(f) < Time(g)
           /\ \A f \in Nat \ {0} : Time(f - 1) < Time(f)
           /\ \A f \in Nat, g \in Nat \ {0} : (f - g) * VoiceHop = Time(f) - Time(g)
           /\ \A f \in Nat, g \in Nat \ {0} : Time(f) - Time(g) = Time(f - 1) - Time(g - 1)
<1>1. ASSUME NEW f \in Nat, NEW g \in Nat, f <= g PROVE Time(f) <= Time(g)
  <2>1. (g - f) * VoiceHop \in Nat
    <3>1. g - f \in Nat
      BY <1>1
    <3> QED BY <3>1, SMT
  <2>2. (g - f) * VoiceHop = g * VoiceHop - f * VoiceHop
    BY SMT
  <2> QED BY <2>1, <2>2, SMT DEF Time
<1>2. \A f \in Nat : Time(f + 1) = Time(f) + VoiceHop /\ Time(f) \in Nat
  BY SMT DEF Time
<1>3. ASSUME NEW f \in Nat, NEW g \in Nat, f < g PROVE Time(f) < Time(g)
  <2>1. Time(f + 1) <= Time(g)
    BY <1>1, <1>3
  <2> QED BY <1>2, <2>1
<1>4. \A f \in Nat, g \in Nat \ {0} : (f - g) * VoiceHop = Time(f) - Time(g)
  BY SMT DEF Time
<1>5. \A f \in Nat, g \in Nat \ {0} : Time(f) - Time(g) = Time(f - 1) - Time(g - 1)
  BY SMT DEF Time
<1> QED BY <1>1, <1>2, <1>3, <1>4, <1>5

VoiceStates == [open : Seq(Nat), tentative : Seq(Nat), raw : Seq([start : Nat, end : Nat])]

\* What one frame does, case by case.
Opens(s, t, p, sample, rules) ==
    /\ s.open = <<>> /\ p >= rules.speech
    /\ t.open = <<sample>> /\ t.tentative = <<>> /\ t.raw = s.raw
Waits(s, t, p, rules) ==
    /\ s.open = <<>> /\ p < rules.speech
    /\ t.open = s.open /\ t.tentative = s.tentative /\ t.raw = s.raw
Closes(s, t, p, e, sample, rules) ==
    /\ s.open # <<>> /\ p < rules.silence /\ sample - e >= rules.minimumSilence
    /\ t.open = <<>> /\ t.tentative = <<>>
    /\ t.raw = IF e - s.open[1] > rules.minimumSpeech
                 THEN Append(s.raw, [start |-> s.open[1], end |-> e]) ELSE s.raw
Speaks(s, t, p, rules) ==
    /\ s.open # <<>> /\ p >= rules.speech
    /\ t.open = s.open /\ t.tentative = <<>> /\ t.raw = s.raw
Fades(s, t, p, e, sample, rules) ==
    /\ s.open # <<>> /\ p < rules.silence /\ sample - e < rules.minimumSilence
    /\ t.open = s.open /\ t.tentative = <<e>> /\ t.raw = s.raw
Holds(s, t, p, rules) ==
    /\ s.open # <<>> /\ p < rules.speech /\ p >= rules.silence
    /\ t.open = s.open /\ t.tentative = s.tentative /\ t.raw = s.raw

\* Where a silent frame sets the end.
EndAt(s, sample) == IF s.tentative = <<>> THEN sample ELSE s.tentative[1]

LEMMA TwoFields ==
    ASSUME NEW s, NEW x, NEW y,
           s = [open |-> s.open, tentative |-> s.tentative, raw |-> s.raw]
    PROVE  [s EXCEPT !.open = x, !.tentative = y]
             = [open |-> x, tentative |-> y, raw |-> s.raw]
<1> DEFINE s1 == [s EXCEPT !.open = x]
<1>1. s1 = [open |-> x, tentative |-> s.tentative, raw |-> s.raw]
  OBVIOUS
<1>2. [s EXCEPT !.open = x, !.tentative = y] = [s1 EXCEPT !.tentative = y]
  BY Zenon DEF s1
<1> HIDE DEF s1
<1>3. [s1 EXCEPT !.tentative = y] = [open |-> x, tentative |-> y, raw |-> s.raw]
  BY <1>1
<1> QED BY <1>2, <1>3, Zenon

LEMMA FrameCases ==
    ASSUME NEW s \in VoiceStates, NEW i \in Nat \ {0}, NEW p \in Int,
           NEW rules \in VoiceRules, Voice!ValidPolicy(rules),
           VoiceHop \in Nat \ {0}, Len(s.tentative) <= 1
    PROVE  LET t == Voice!DetectFrame(s, i, p, rules)
               sample == Time(i - 1)
               e == EndAt(s, sample)
           IN  /\ t \in VoiceStates /\ e \in Nat /\ sample \in Nat
               /\ \/ Opens(s, t, p, sample, rules) \/ Waits(s, t, p, rules)
                  \/ Closes(s, t, p, e, sample, rules) \/ Speaks(s, t, p, rules)
                  \/ Fades(s, t, p, e, sample, rules) \/ Holds(s, t, p, rules)
<1> DEFINE sample == Time(i - 1)
           e == EndAt(s, sample)
           t == Voice!DetectFrame(s, i, p, rules)
           ends == Voice!Tentative(s, sample, p, rules)
           closes == /\ s.open # <<>> /\ p < rules.silence
                     /\ sample - ends[1] >= rules.minimumSilence
<1>0. sample \in Nat /\ sample = (i - 1) * VoiceHop
  <2>1. i - 1 \in Nat
    OBVIOUS
  <2> QED BY <2>1, TimeGrows DEF Time
<1>1. e \in Nat
  <2>1. CASE s.tentative = <<>>
    BY <2>1, <1>0 DEF EndAt
  <2>2. CASE s.tentative # <<>>
    <3>1. s.tentative \in Seq(Nat)
      BY DEF VoiceStates
    <3>2. s.tentative[1] \in Nat
      BY <2>2, <3>1
    <3> QED BY <2>2, <3>2 DEF EndAt
  <2> QED BY <2>1, <2>2
<1>2. /\ rules.speech \in Int /\ rules.silence \in Int /\ rules.minimumSilence \in Nat
      /\ rules.minimumSpeech \in Nat /\ rules.silence <= rules.speech
  BY DEF VoiceRules, Voice!ValidPolicy
<1> DEFINE opened == [s EXCEPT !.open = <<sample>>, !.tentative = <<>>]
<1>3. t = CASE s.open = <<>> /\ p >= rules.speech -> opened
            [] s.open = <<>> /\ p < rules.speech -> s
            [] closes ->
               [open |-> <<>>, tentative |-> <<>>,
                raw |-> IF ends[1] - s.open[1] > rules.minimumSpeech
                          THEN Append(s.raw, [start |-> s.open[1], end |-> ends[1]])
                          ELSE s.raw]
            [] s.open # <<>> /\ ~closes -> [s EXCEPT !.tentative = ends]
  BY <1>0, Zenon DEF Voice!DetectFrame
<1>4. ends = IF p >= rules.speech THEN <<>>
             ELSE IF p < rules.silence /\ s.tentative = <<>> THEN <<sample>>
             ELSE s.tentative
  BY Zenon DEF Voice!Tentative
<1>5. /\ s.open \in Seq(Nat) /\ s.tentative \in Seq(Nat)
      /\ s.raw \in Seq([start : Nat, end : Nat])
      /\ s = [open |-> s.open, tentative |-> s.tentative, raw |-> s.raw]
  BY DEF VoiceStates
<1>6. p < rules.silence => ends = <<e>> /\ ends[1] = e
  <2>1. CASE s.tentative = <<>>
    BY <1>2, <1>4, <2>1 DEF EndAt
  <2>2. CASE s.tentative # <<>>
    <3>1. s.tentative = <<s.tentative[1]>>
      BY <1>5, <2>2
    <3>2. p < rules.silence => ends = s.tentative
      BY <1>2, <1>4, <2>2
    <3>3. e = s.tentative[1]
      BY <2>2 DEF EndAt
    <3> HIDE DEF ends, e
    <3> QED BY <3>1, <3>2, <3>3, Zenon
  <2> QED BY <2>1, <2>2
<1>c. opened = [open |-> <<sample>>, tentative |-> <<>>, raw |-> s.raw]
  BY <1>5, TwoFields, ZenonT(60)
<1> HIDE DEF sample, e, t, ends, opened
<1>7. CASE s.open = <<>> /\ p >= rules.speech
  <2>1. t = opened
    BY <1>2, <1>3, <1>7
  <2>2. t = [open |-> <<sample>>, tentative |-> <<>>, raw |-> s.raw]
    BY <2>1, <1>c
  <2>3. Opens(s, t, p, sample, rules)
    BY <1>7, <2>2 DEF Opens
  <2>4. <<sample>> \in Seq(Nat) /\ <<>> \in Seq(Nat)
    BY <1>0
  <2>5. t \in VoiceStates
    BY <1>5, <2>2, <2>4 DEF VoiceStates
  <2> QED BY <1>0, <1>1, <2>3, <2>5 DEF sample, e, t
<1>8. CASE s.open = <<>> /\ p < rules.speech
  <2>1. t = s
    BY <1>2, <1>3, <1>8
  <2>2. Waits(s, t, p, rules)
    BY <1>8, <2>1 DEF Waits
  <2> QED BY <1>0, <1>1, <2>1, <2>2 DEF sample, e, t
<1>9. CASE closes
  <2>1. t = [open |-> <<>>, tentative |-> <<>>,
             raw |-> IF e - s.open[1] > rules.minimumSpeech
                       THEN Append(s.raw, [start |-> s.open[1], end |-> e])
                       ELSE s.raw]
    BY <1>3, <1>6, <1>9
  <2>2. Closes(s, t, p, e, sample, rules)
    BY <1>6, <1>9, <2>1 DEF Closes
  <2>3. s.open[1] \in Nat /\ [start |-> s.open[1], end |-> e] \in [start : Nat, end : Nat]
    BY <1>1, <1>5, <1>9
  <2>4. Append(s.raw, [start |-> s.open[1], end |-> e]) \in Seq([start : Nat, end : Nat])
    BY <1>5, <2>3
  <2>5. <<>> \in Seq(Nat)
    OBVIOUS
  <2>6. t \in VoiceStates
    BY <1>5, <2>1, <2>4, <2>5 DEF VoiceStates
  <2> QED BY <1>0, <1>1, <2>2, <2>6 DEF sample, e, t
<1>10. CASE s.open # <<>> /\ ~closes
  <2>1. t = [s EXCEPT !.tentative = ends]
    BY <1>3, <1>10
  <2>2. t = [open |-> s.open, tentative |-> ends, raw |-> s.raw]
    BY <2>1, <1>5
  <2>3. ends \in Seq(Nat)
    BY <1>4, <1>5, <1>0
  <2>4. t \in VoiceStates
    BY <1>5, <2>2, <2>3 DEF VoiceStates
  <2>5. CASE p >= rules.speech
    <3>1. ends = <<>>
      BY <1>4, <2>5
    <3> QED BY <1>0, <1>1, <1>10, <2>2, <2>4, <2>5, <3>1 DEF Speaks, sample, e, t
  <2>6. CASE p < rules.silence
    <3>1. ends = <<e>> /\ sample - e < rules.minimumSilence
      BY <1>0, <1>1, <1>2, <1>6, <1>10, <2>6
    <3> QED BY <1>0, <1>1, <1>10, <2>2, <2>4, <2>6, <3>1 DEF Fades, sample, e, t
  <2>7. CASE p < rules.speech /\ p >= rules.silence
    <3>1. ends = s.tentative
      BY <1>2, <1>4, <2>7
    <3> QED BY <1>0, <1>1, <1>10, <2>2, <2>4, <2>7, <3>1 DEF Holds, sample, e, t
  <2> QED BY <1>2, <2>5, <2>6, <2>7
<1> QED BY <1>2, <1>7, <1>8, <1>9, <1>10

\* The invariant of the loop.

AllSpeech(heard, rules, a, b) == \A f \in a..b : heard[f] >= rules.speech
AllSilence(heard, rules, a, b) == \A f \in a..b : heard[f] < rules.silence

\* Segments one after the other.
InOrder(raw) == \A k \in DOMAIN raw : /\ raw[k].start < raw[k].end
                                      /\ k > 1 => raw[k - 1].end <= raw[k].start

\* Where what the state holds lies after i frames.
Placed(s, i) ==
    /\ s \in VoiceStates /\ Len(s.open) <= 1 /\ Len(s.tentative) <= 1
    /\ s.open # <<>> => i > 0 /\ s.open[1] <= Time(i - 1)
    /\ s.tentative # <<>> => /\ s.open # <<>> /\ s.open[1] < s.tentative[1]
                             /\ s.tentative[1] <= Time(i - 1)
    /\ InOrder(s.raw)
    /\ \A k \in DOMAIN s.raw : /\ i > 0 /\ s.raw[k].end <= Time(i - 1)
                               /\ s.open # <<>> => s.raw[k].end <= s.open[1]

\* Speech that still goes on is open, and nothing ends it.
SpeechIsOpen(s, heard, rules, i) ==
    \A a \in 1..i : AllSpeech(heard, rules, a, i) =>
        s.open # <<>> /\ s.open[1] <= Time(a - 1) /\ s.tentative = <<>>

\* Speech is in a segment, or open, or too short.
Within(raw, from, to) == \E k \in DOMAIN raw : raw[k].start <= from /\ to <= raw[k].end

SpeechIsKept(s, heard, rules, i) ==
    \A a \in 1..i, b \in 1..i : a <= b /\ AllSpeech(heard, rules, a, b) =>
        \/ Within(s.raw, Time(a - 1), Time(b))
        \/ /\ s.open # <<>> /\ s.open[1] <= Time(a - 1)
           /\ s.tentative # <<>> => Time(b) <= s.tentative[1]
        \/ Time(b) - Time(a - 1) <= rules.minimumSpeech

\* Silence that still goes on has ended what is open, and follows every segment.
SilenceEnds(s, heard, rules, i) ==
    \A a \in 1..i : AllSilence(heard, rules, a, i) =>
        /\ s.open # <<>> => s.tentative # <<>> /\ s.tentative[1] <= Time(a - 1)
        /\ \A k \in DOMAIN s.raw : s.raw[k].end <= Time(a - 1)

\* Silence that lasted is in no segment, and in nothing that is open.
SilenceIsOut(s, heard, rules, i) ==
    \A a \in 1..i, b \in 1..i :
        a <= b /\ AllSilence(heard, rules, a, b) /\ Time(b) - Time(a) >= rules.minimumSilence =>
        /\ s.open # <<>> => Time(b) <= s.open[1]
        /\ \A k \in DOMAIN s.raw : s.raw[k].end <= Time(a - 1) \/ Time(b) <= s.raw[k].start

Passed(s, heard, rules, i) ==
    /\ Placed(s, i)
    /\ SpeechIsOpen(s, heard, rules, i)
    /\ SpeechIsKept(s, heard, rules, i)
    /\ SilenceEnds(s, heard, rules, i)
    /\ SilenceIsOut(s, heard, rules, i)

LEMMA ElementIs ==
    ASSUME NEW S, NEW raw \in Seq(S), NEW k \in DOMAIN raw
    PROVE  raw[k] \in S
OBVIOUS

LEMMA SegmentsAre ==
    ASSUME NEW raw \in Seq([start : Nat, end : Nat]), NEW k \in DOMAIN raw
    PROVE  raw[k].start \in Nat /\ raw[k].end \in Nat
<1>1. raw[k] \in [start : Nat, end : Nat]
  BY ElementIs, Zenon
<1> QED BY <1>1

LEMMA Single ==
    ASSUME NEW x
    PROVE  Len(<<x>>) <= 1 /\ <<x>>[1] = x /\ Len(<< >>) <= 1 /\ <<x>> # << >>
OBVIOUS

LEMMA OneMore ==
    ASSUME NEW S, NEW raw \in Seq(S), NEW x \in S
    PROVE  /\ Append(raw, x) \in Seq(S)
           /\ DOMAIN Append(raw, x) = 1..(Len(raw) + 1)
           /\ DOMAIN raw = 1..Len(raw) /\ Len(raw) \in Nat
           /\ \A k \in DOMAIN raw : Append(raw, x)[k] = raw[k]
           /\ Append(raw, x)[Len(raw) + 1] = x
OBVIOUS

\* The segments of t are those of s and the one s had open, ended at e.
OneSegmentMore(s, t, e) ==
    /\ DOMAIN s.raw = 1..Len(s.raw) /\ Len(s.raw) \in Nat
    /\ DOMAIN t.raw = 1..(Len(s.raw) + 1)
    /\ \A k \in DOMAIN s.raw : t.raw[k] = s.raw[k]
    /\ t.raw[Len(s.raw) + 1].start = s.open[1] /\ t.raw[Len(s.raw) + 1].end = e

\* The segments of a state that closes one are those it had, and one that is
\* long enough.
LEMMA ClosedSegments ==
    ASSUME NEW s \in VoiceStates, NEW t, NEW e \in Nat, NEW p, NEW sample, NEW rules,
           Closes(s, t, p, e, sample, rules),
           e - s.open[1] > rules.minimumSpeech
    PROVE  OneSegmentMore(s, t, e)
<1>1. s.open # <<>> /\ t.raw = Append(s.raw, [start |-> s.open[1], end |-> e])
  BY DEF Closes
<1>2. s.open \in Seq(Nat) /\ s.raw \in Seq([start : Nat, end : Nat])
  BY DEF VoiceStates
<1>3. s.open[1] \in Nat
  BY <1>1, <1>2
<1>4. [start |-> s.open[1], end |-> e] \in [start : Nat, end : Nat]
  BY <1>3
<1> DEFINE x == [start |-> s.open[1], end |-> e]
           S == [start : Nat, end : Nat]
<1>5. x \in S /\ x.start = s.open[1] /\ x.end = e /\ s.raw \in Seq(S) /\ t.raw = Append(s.raw, x)
  BY <1>1, <1>2, <1>4
<1> HIDE DEF x, S
<1> QED BY <1>5, OneMore DEF OneSegmentMore

LEMMA PlacedStep ==
    ASSUME NEW s, NEW t \in VoiceStates, NEW i \in Nat \ {0}, NEW p \in Int,
           NEW rules \in VoiceRules, VoiceHop \in Nat \ {0}, Placed(s, i - 1),
           NEW e \in Nat, e = EndAt(s, Time(i - 1)),
           \/ Opens(s, t, p, Time(i - 1), rules) \/ Waits(s, t, p, rules)
           \/ Closes(s, t, p, e, Time(i - 1), rules) \/ Speaks(s, t, p, rules)
           \/ Fades(s, t, p, e, Time(i - 1), rules) \/ Holds(s, t, p, rules)
    PROVE  Placed(t, i)
<1> DEFINE sample == Time(i - 1)
<1>1. /\ sample \in Nat
      /\ i - 1 > 0 => Time((i - 1) - 1) \in Nat /\ Time((i - 1) - 1) < sample
  <2>1. i - 1 \in Nat /\ (i - 1 > 0 => i - 1 \in Nat \ {0} /\ (i - 1) - 1 \in Nat)
    OBVIOUS
  <2> QED BY <2>1, TimeGrows
<1>2. /\ s \in VoiceStates /\ Len(s.open) <= 1 /\ Len(s.tentative) <= 1
      /\ s.open \in Seq(Nat) /\ s.tentative \in Seq(Nat)
      /\ s.raw \in Seq([start : Nat, end : Nat])
  BY DEF Placed, VoiceStates
<1>3. s.open # <<>> => s.open[1] \in Nat /\ s.open[1] < sample
  BY <1>1, <1>2 DEF Placed
<1>4. s.tentative # <<>> => /\ s.open # <<>> /\ s.tentative[1] \in Nat
                            /\ s.open[1] < s.tentative[1] /\ s.tentative[1] <= sample
  <2>1. s.tentative # <<>> => s.tentative[1] \in Nat
    BY <1>2
  <2> QED BY <1>1, <1>2, <1>3, <2>1 DEF Placed
<1>5. \A k \in DOMAIN s.raw : /\ s.raw[k].end \in Nat /\ s.raw[k].start \in Nat
                              /\ s.raw[k].end <= sample
                              /\ s.open # <<>> => s.raw[k].end <= s.open[1]
  <2>1. \A k \in DOMAIN s.raw : s.raw[k].end \in Nat /\ s.raw[k].start \in Nat
    BY <1>2, SegmentsAre
  <2> QED BY <1>1, <2>1 DEF Placed
<1>6. InOrder(s.raw)
  BY DEF Placed
<1>7. s.open # <<>> => s.open[1] < e /\ e <= sample
  BY <1>3, <1>4 DEF EndAt
<1> HIDE DEF sample
<1>8. CASE ~(Closes(s, t, p, e, sample, rules) /\ e - s.open[1] > rules.minimumSpeech)
  <2>1. t.raw = s.raw
    BY <1>8 DEF Opens, Waits, Closes, Speaks, Fades, Holds, sample
  <2>2. t.open = <<>> \/ t.open = <<sample>> \/ (t.open = s.open /\ s.open # <<>>)
    BY DEF Opens, Waits, Closes, Speaks, Fades, Holds, sample
  <2>3. Len(t.open) <= 1
    BY <1>2, <2>2, Single, Zenon
  <2>4. t.open # <<>> => t.open[1] <= sample /\ \A k \in DOMAIN s.raw : s.raw[k].end <= t.open[1]
    BY <1>1, <1>3, <1>5, <2>2
  <2>5. \/ t.tentative = <<>>
        \/ t.tentative = s.tentative /\ t.open = s.open
        \/ t.tentative = <<e>> /\ t.open = s.open /\ s.open # <<>>
    BY DEF Opens, Waits, Closes, Speaks, Fades, Holds, sample
  <2>6. Len(t.tentative) <= 1
    BY <1>2, <2>5, Single, Zenon
  <2>7. t.tentative # <<>> => /\ t.open # <<>> /\ t.open[1] < t.tentative[1]
                              /\ t.tentative[1] <= sample
    BY <1>4, <1>7, <2>5
  <2>8. i > 0
    OBVIOUS
  <2> QED BY <1>5, <1>6, <2>1, <2>3, <2>4, <2>6, <2>7, <2>8 DEF Placed, sample
<1>9. CASE Closes(s, t, p, e, sample, rules) /\ e - s.open[1] > rules.minimumSpeech
  <2>1. t.open = <<>> /\ t.tentative = <<>> /\ s.open # <<>>
    BY <1>9 DEF Closes
  <2>2. /\ DOMAIN s.raw = 1..Len(s.raw) /\ Len(s.raw) \in Nat
        /\ DOMAIN t.raw = 1..(Len(s.raw) + 1)
        /\ \A k \in DOMAIN s.raw : t.raw[k] = s.raw[k]
        /\ t.raw[Len(s.raw) + 1].start = s.open[1] /\ t.raw[Len(s.raw) + 1].end = e
    <3>1. OneSegmentMore(s, t, e)
      BY <1>2, <1>9, ClosedSegments
    <3> QED BY <3>1, Zenon DEF OneSegmentMore
  <2>3. ASSUME NEW k \in DOMAIN t.raw
        PROVE  /\ t.raw[k].start < t.raw[k].end
               /\ k > 1 => t.raw[k - 1].end <= t.raw[k].start
               /\ t.raw[k].end <= sample
    <3>1. CASE k = Len(s.raw) + 1
      <4>1. k > 1 => k - 1 \in DOMAIN s.raw
        BY <2>2, <3>1
      <4> QED BY <1>5, <1>7, <2>1, <2>2, <3>1, <4>1
    <3>2. CASE k \in DOMAIN s.raw
      <4>1. k > 1 => k - 1 \in DOMAIN s.raw
        BY <2>2, <3>2
      <4> QED BY <1>5, <1>6, <2>2, <3>2, <4>1 DEF InOrder
    <3> QED BY <2>2, <3>1, <3>2
  <2>4. InOrder(t.raw)
    BY <2>3 DEF InOrder
  <2>5. i > 0 /\ Len(t.open) <= 1 /\ Len(t.tentative) <= 1
    BY <2>1
  <2> QED BY <2>1, <2>3, <2>4, <2>5 DEF Placed, sample
<1> QED BY <1>8, <1>9

\* Each frame keeps it.

\* The six cases of a frame.
Steps(s, t, p, e, sample, rules) ==
    \/ Opens(s, t, p, sample, rules) \/ Waits(s, t, p, rules)
    \/ Closes(s, t, p, e, sample, rules) \/ Speaks(s, t, p, rules)
    \/ Fades(s, t, p, e, sample, rules) \/ Holds(s, t, p, rules)

\* A frame leaves the segments there are, and adds at most the one it closes, if it
\* is long enough.
LEMMA SegmentsStay ==
    ASSUME NEW s \in VoiceStates, NEW t, NEW p, NEW rules \in VoiceRules, NEW e \in Nat,
           NEW sample, Steps(s, t, p, e, sample, rules)
    PROVE  \A k \in DOMAIN s.raw : k \in DOMAIN t.raw /\ t.raw[k] = s.raw[k]
<1>1. CASE Closes(s, t, p, e, sample, rules) /\ e - s.open[1] > rules.minimumSpeech
  <2>1. /\ DOMAIN s.raw = 1..Len(s.raw) /\ Len(s.raw) \in Nat
        /\ DOMAIN t.raw = 1..(Len(s.raw) + 1)
        /\ \A k \in DOMAIN s.raw : t.raw[k] = s.raw[k]
    <3>1. OneSegmentMore(s, t, e)
      BY <1>1, ClosedSegments
    <3> QED BY <3>1, Zenon DEF OneSegmentMore
  <2> QED BY <2>1
<1>2. CASE ~(Closes(s, t, p, e, sample, rules) /\ e - s.open[1] > rules.minimumSpeech)
  <2>1. t.raw = s.raw
    BY <1>2 DEF Steps, Opens, Waits, Closes, Speaks, Fades, Holds
  <2> QED BY <2>1
<1> QED BY <1>1, <1>2

\* Each segment of t is one of s or the one s had open.
OneClosed(s, t, e) ==
    \A k \in DOMAIN t.raw :
        \/ k \in DOMAIN s.raw /\ t.raw[k] = s.raw[k]
        \/ /\ s.open # <<>> /\ t.open = <<>>
           /\ t.raw[k].start = s.open[1] /\ t.raw[k].end = e

LEMMA SegmentsCome ==
    ASSUME NEW s \in VoiceStates, NEW t, NEW p, NEW rules \in VoiceRules, NEW e \in Nat,
           NEW sample, Steps(s, t, p, e, sample, rules)
    PROVE  OneClosed(s, t, e)
<1> SUFFICES ASSUME NEW k \in DOMAIN t.raw
             PROVE  \/ k \in DOMAIN s.raw /\ t.raw[k] = s.raw[k]
                    \/ /\ s.open # <<>> /\ t.open = <<>>
                       /\ t.raw[k].start = s.open[1] /\ t.raw[k].end = e
  BY DEF OneClosed
<1>1. CASE Closes(s, t, p, e, sample, rules) /\ e - s.open[1] > rules.minimumSpeech
  <2>1. /\ DOMAIN s.raw = 1..Len(s.raw) /\ Len(s.raw) \in Nat
        /\ DOMAIN t.raw = 1..(Len(s.raw) + 1)
        /\ \A j \in DOMAIN s.raw : t.raw[j] = s.raw[j]
        /\ t.raw[Len(s.raw) + 1].start = s.open[1] /\ t.raw[Len(s.raw) + 1].end = e
    <3>1. OneSegmentMore(s, t, e)
      BY <1>1, ClosedSegments
    <3> QED BY <3>1, Zenon DEF OneSegmentMore
  <2>2. k \in DOMAIN s.raw \/ k = Len(s.raw) + 1
    BY <2>1
  <2>3. s.open # <<>> /\ t.open = <<>>
    BY <1>1 DEF Closes
  <2> QED BY <2>1, <2>2, <2>3, Zenon
<1>2. CASE ~(Closes(s, t, p, e, sample, rules) /\ e - s.open[1] > rules.minimumSpeech)
  <2>1. t.raw = s.raw
    BY <1>2 DEF Steps, Opens, Waits, Closes, Speaks, Fades, Holds
  <2> QED BY <2>1
<1> QED BY <1>1, <1>2

LEMMA SegmentsClose ==
    ASSUME NEW s \in VoiceStates, NEW t, NEW p, NEW rules \in VoiceRules, NEW e \in Nat,
           NEW sample, Closes(s, t, p, e, sample, rules)
    PROVE  \/ e - s.open[1] <= rules.minimumSpeech
           \/ \E k \in DOMAIN t.raw : t.raw[k].start = s.open[1] /\ t.raw[k].end = e
<1>1. CASE e - s.open[1] > rules.minimumSpeech
  <2>1. /\ Len(s.raw) \in Nat /\ DOMAIN t.raw = 1..(Len(s.raw) + 1)
        /\ t.raw[Len(s.raw) + 1].start = s.open[1] /\ t.raw[Len(s.raw) + 1].end = e
    <3>1. OneSegmentMore(s, t, e)
      BY <1>1, ClosedSegments
    <3> QED BY <3>1, Zenon DEF OneSegmentMore
  <2>2. Len(s.raw) + 1 \in DOMAIN t.raw
    BY <2>1
  <2> QED BY <2>1, <2>2, Zenon
<1>2. CASE ~(e - s.open[1] > rules.minimumSpeech)
  <2>1. s.open[1] \in Nat
    <3>1. s.open \in Seq(Nat)
      BY DEF VoiceStates
    <3>2. s.open # <<>>
      BY DEF Closes
    <3> QED BY <3>1, <3>2
  <2>2. rules.minimumSpeech \in Nat
    BY DEF VoiceRules
  <2> QED BY <1>2, <2>1, <2>2
<1> QED BY <1>1, <1>2

\* The times of a frame a not after the frame i.
LEMMA TimeFacts ==
    ASSUME NEW i \in Nat \ {0}, VoiceHop \in Nat \ {0}, NEW a \in 1..i
    PROVE  /\ Time(i - 1) \in Nat /\ Time(i) \in Nat /\ Time(i - 1) < Time(i)
           /\ a \in Nat \ {0} /\ a - 1 \in Nat /\ Time(a) \in Nat /\ Time(a - 1) \in Nat
           /\ Time(a - 1) < Time(a) /\ Time(a - 1) <= Time(i - 1) /\ Time(a) <= Time(i)
           /\ a # i => a \in 1..(i - 1) /\ Time(a) <= Time(i - 1)
<1>1. /\ i \in Nat /\ i - 1 \in Nat /\ a \in Nat \ {0} /\ a - 1 \in Nat
      /\ a <= i /\ a - 1 <= i - 1
      /\ a # i => a \in 1..(i - 1) /\ a <= i - 1
  OBVIOUS
<1>2. \A f \in Nat : Time(f) \in Nat
  BY TimeGrows
<1>3. \A f \in Nat, g \in Nat : f <= g => Time(f) <= Time(g)
  BY TimeGrows
<1>4. \A f \in Nat \ {0} : Time(f - 1) < Time(f)
  BY TimeGrows
<1> QED BY <1>1, <1>2, <1>3, <1>4

\* What a state holds, before the frame i and with the end that frame sets.
LEMMA StateFacts ==
    ASSUME NEW s, NEW i \in Nat \ {0}, VoiceHop \in Nat \ {0}, Placed(s, i - 1),
           NEW e \in Nat, e = EndAt(s, Time(i - 1))
    PROVE  /\ s \in VoiceStates
           /\ s.open # <<>> => s.open[1] \in Nat /\ s.open[1] < e /\ e <= Time(i - 1)
           /\ s.tentative # <<>> => e = s.tentative[1] /\ s.open # <<>>
           /\ s.tentative = <<>> => e = Time(i - 1)
           /\ \A k \in DOMAIN s.raw :
                s.raw[k].end \in Nat /\ s.raw[k].start \in Nat /\ s.raw[k].end <= Time(i - 1)
<1>1. i - 1 \in Nat /\ (i - 1 > 0 => i - 1 \in 1..i /\ i - 1 # i)
  OBVIOUS
<1>2. /\ Time(i - 1) \in Nat
      /\ i - 1 > 0 => Time((i - 1) - 1) \in Nat /\ Time((i - 1) - 1) < Time(i - 1)
  <2>1. \A f \in Nat : Time(f) \in Nat
    BY TimeGrows
  <2>2. \A f \in Nat \ {0} : f - 1 \in Nat /\ Time(f - 1) < Time(f)
    BY TimeGrows
  <2>3. i - 1 > 0 => i - 1 \in Nat \ {0}
    BY <1>1
  <2> DEFINE j == i - 1
  <2> HIDE DEF j
  <2>4. Time(j) \in Nat /\ (j > 0 => Time(j - 1) \in Nat /\ Time(j - 1) < Time(j))
    BY <1>1, <2>1, <2>2, <2>3, Zenon DEF j
  <2> QED BY <2>4, Zenon DEF j
<1>3. /\ s.open \in Seq(Nat) /\ s.tentative \in Seq(Nat)
      /\ s.raw \in Seq([start : Nat, end : Nat]) /\ s \in VoiceStates
  BY DEF Placed, VoiceStates
<1>4. /\ s.open # <<>> => s.open[1] \in Nat
      /\ s.tentative # <<>> => s.tentative[1] \in Nat
  <2>1. s.open # <<>> => s.open[1] \in Nat
    BY <1>3
  <2>2. s.tentative # <<>> => s.tentative[1] \in Nat
    BY <1>3
  <2> QED BY <2>1, <2>2
<1>5. \A k \in DOMAIN s.raw : s.raw[k].end \in Nat /\ s.raw[k].start \in Nat
  BY <1>3, SegmentsAre
<1>6. s.open # <<>> => s.open[1] < e /\ e <= Time(i - 1)
  BY <1>2, <1>4 DEF Placed, EndAt
<1>7. \A k \in DOMAIN s.raw : s.raw[k].end <= Time(i - 1)
  BY <1>2, <1>5 DEF Placed
<1>8. /\ s.tentative # <<>> => e = s.tentative[1] /\ s.open # <<>>
      /\ s.tentative = <<>> => e = Time(i - 1)
  BY DEF EndAt, Placed
<1> QED BY <1>3, <1>4, <1>5, <1>6, <1>7, <1>8

LEMMA SpeechOpenStep ==
    ASSUME NEW s, NEW t, NEW heard, NEW i \in Nat \ {0}, heard[i] \in Int,
           NEW rules \in VoiceRules, Voice!ValidPolicy(rules),
           VoiceHop \in Nat \ {0}, Placed(s, i - 1),
           NEW e \in Nat, e = EndAt(s, Time(i - 1)),
           Steps(s, t, heard[i], e, Time(i - 1), rules),
           SpeechIsOpen(s, heard, rules, i - 1)
    PROVE  SpeechIsOpen(t, heard, rules, i)
<1> SUFFICES ASSUME NEW a \in 1..i, AllSpeech(heard, rules, a, i)
             PROVE  t.open # <<>> /\ t.open[1] <= Time(a - 1) /\ t.tentative = <<>>
  BY DEF SpeechIsOpen
<1>1. heard[i] >= rules.speech
  BY DEF AllSpeech
<1>2. rules.speech \in Int /\ rules.silence \in Int /\ rules.silence <= rules.speech
  BY DEF VoiceRules, Voice!ValidPolicy
<1>3. \/ Opens(s, t, heard[i], Time(i - 1), rules)
      \/ Speaks(s, t, heard[i], rules)
  BY <1>1, <1>2 DEF Steps, Waits, Closes, Fades, Holds
<1>4. a # i => s.open # <<>> /\ s.open[1] <= Time(a - 1)
  <2>1. CASE a # i
    <3>1. a \in 1..(i - 1)
      BY <2>1
    <3>2. AllSpeech(heard, rules, a, i - 1)
      BY DEF AllSpeech
    <3> QED BY <3>1, <3>2 DEF SpeechIsOpen
  <2> QED BY <2>1
<1>5. /\ s.open # <<>> => s.open[1] \in Nat /\ s.open[1] < e /\ e <= Time(i - 1)
  BY StateFacts
<1>6. Time(i - 1) \in Nat
  BY TimeFacts
<1>7. s.open # <<>> => s.open[1] <= Time(a - 1)
  BY <1>4, <1>5, <1>6
<1> QED BY <1>3, <1>6, <1>7, <1>4 DEF Opens, Speaks

LEMMA SpeechKeptStep ==
    ASSUME NEW s, NEW t, NEW heard, NEW i \in Nat \ {0}, heard[i] \in Int,
           NEW rules \in VoiceRules, Voice!ValidPolicy(rules),
           VoiceHop \in Nat \ {0}, Placed(s, i - 1),
           NEW e \in Nat, e = EndAt(s, Time(i - 1)),
           Steps(s, t, heard[i], e, Time(i - 1), rules),
           SpeechIsKept(s, heard, rules, i - 1),
           SpeechIsOpen(t, heard, rules, i)
    PROVE  SpeechIsKept(t, heard, rules, i)
<1> SUFFICES ASSUME NEW a \in 1..i, NEW b \in 1..i, a <= b, AllSpeech(heard, rules, a, b)
             PROVE  \/ Within(t.raw, Time(a - 1), Time(b))
                    \/ /\ t.open # <<>> /\ t.open[1] <= Time(a - 1)
                       /\ t.tentative # <<>> => Time(b) <= t.tentative[1]
                    \/ Time(b) - Time(a - 1) <= rules.minimumSpeech
  BY DEF SpeechIsKept
<1>1. CASE b = i
  BY <1>1 DEF SpeechIsOpen
<1>2. CASE b # i
  <2>1. a \in 1..(i - 1) /\ b \in 1..(i - 1)
    BY <1>2
  <2>2. \/ Within(s.raw, Time(a - 1), Time(b))
        \/ /\ s.open # <<>> /\ s.open[1] <= Time(a - 1)
           /\ s.tentative # <<>> => Time(b) <= s.tentative[1]
        \/ Time(b) - Time(a - 1) <= rules.minimumSpeech
    BY <2>1 DEF SpeechIsKept
  <2>3. /\ Time(a - 1) \in Nat /\ Time(b) \in Nat /\ Time(b) <= Time(i - 1)
        /\ Time(i - 1) \in Nat
        /\ s.open # <<>> => s.open[1] \in Nat
        /\ s.tentative # <<>> => e = s.tentative[1]
        /\ s.tentative = <<>> => e = Time(i - 1)
    <3>1. Time(a - 1) \in Nat /\ Time(i - 1) \in Nat
      BY TimeFacts
    <3>2. Time(b) \in Nat /\ (b # i => b \in 1..(i - 1) /\ Time(b) <= Time(i - 1))
      BY TimeFacts
    <3>3. /\ s.open # <<>> => s.open[1] \in Nat
          /\ s.tentative # <<>> => e = s.tentative[1]
          /\ s.tentative = <<>> => e = Time(i - 1)
      BY StateFacts
    <3> QED BY <1>2, <3>1, <3>2, <3>3
  <2>4. /\ Within(s.raw, Time(a - 1), Time(b)) => Within(t.raw, Time(a - 1), Time(b))
        /\ Closes(s, t, heard[i], e, Time(i - 1), rules) =>
             \/ e - s.open[1] <= rules.minimumSpeech
             \/ \E k \in DOMAIN t.raw : t.raw[k].start = s.open[1] /\ t.raw[k].end = e
    <3>1. s \in VoiceStates
      BY StateFacts
    <3>2. \A k \in DOMAIN s.raw : k \in DOMAIN t.raw /\ t.raw[k] = s.raw[k]
      BY <3>1, SegmentsStay
    <3>3. Closes(s, t, heard[i], e, Time(i - 1), rules) =>
             \/ e - s.open[1] <= rules.minimumSpeech
             \/ \E k \in DOMAIN t.raw : t.raw[k].start = s.open[1] /\ t.raw[k].end = e
      BY <3>1, SegmentsClose
    <3> QED BY <3>2, <3>3 DEF Within
  <2>5. CASE /\ s.open # <<>> /\ s.open[1] <= Time(a - 1)
             /\ s.tentative # <<>> => Time(b) <= s.tentative[1]
    <3>1. Time(b) <= e
      BY <2>3, <2>5
    <3>2. CASE Closes(s, t, heard[i], e, Time(i - 1), rules)
      <4>1. rules.minimumSpeech \in Nat
        BY DEF VoiceRules
      <4>2. CASE e - s.open[1] <= rules.minimumSpeech
        BY <2>3, <2>5, <3>1, <4>1, <4>2, SMTT(30)
      <4>3. CASE \E k \in DOMAIN t.raw : t.raw[k].start = s.open[1] /\ t.raw[k].end = e
        <5>1. PICK k \in DOMAIN t.raw : t.raw[k].start = s.open[1] /\ t.raw[k].end = e
          BY <4>3
        <5>2. t.raw[k].start <= Time(a - 1) /\ Time(b) <= t.raw[k].end
          BY <2>5, <3>1, <5>1
        <5> QED BY <5>2 DEF Within
      <4> QED BY <2>4, <3>2, <4>2, <4>3
    <3>3. CASE ~Closes(s, t, heard[i], e, Time(i - 1), rules)
      <4>1. /\ t.open = s.open
            /\ t.tentative = <<>> \/ t.tentative = s.tentative \/ t.tentative = <<e>>
        BY <2>5, <3>3 DEF Steps, Opens, Waits, Speaks, Fades, Holds
      <4>2. t.tentative # <<>> => Time(b) <= t.tentative[1]
        BY <2>5, <3>1, <4>1
      <4> QED BY <2>5, <4>1, <4>2
    <3> QED BY <3>2, <3>3
  <2> QED BY <2>2, <2>4, <2>5
<1> QED BY <1>1, <1>2

LEMMA SilenceEndsStep ==
    ASSUME NEW s, NEW t, NEW heard, NEW i \in Nat \ {0}, heard[i] \in Int,
           NEW rules \in VoiceRules, Voice!ValidPolicy(rules),
           VoiceHop \in Nat \ {0}, Placed(s, i - 1),
           NEW e \in Nat, e = EndAt(s, Time(i - 1)),
           Steps(s, t, heard[i], e, Time(i - 1), rules),
           SilenceEnds(s, heard, rules, i - 1)
    PROVE  SilenceEnds(t, heard, rules, i)
<1> SUFFICES ASSUME NEW a \in 1..i, AllSilence(heard, rules, a, i)
             PROVE  /\ t.open # <<>> => t.tentative # <<>> /\ t.tentative[1] <= Time(a - 1)
                    /\ \A k \in DOMAIN t.raw : t.raw[k].end <= Time(a - 1)
  BY DEF SilenceEnds
<1>1. heard[i] < rules.silence
  BY DEF AllSilence
<1>2. rules.speech \in Int /\ rules.silence \in Int /\ rules.silence <= rules.speech
  BY DEF VoiceRules, Voice!ValidPolicy
<1>3. \/ Waits(s, t, heard[i], rules)
      \/ Closes(s, t, heard[i], e, Time(i - 1), rules)
      \/ Fades(s, t, heard[i], e, Time(i - 1), rules)
  BY <1>1, <1>2 DEF Steps, Opens, Speaks, Holds
<1>4. /\ Time(a - 1) \in Nat /\ Time(i - 1) \in Nat
      /\ s.open # <<>> => s.open[1] \in Nat /\ s.open[1] < e /\ e <= Time(i - 1)
      /\ s.tentative # <<>> => e = s.tentative[1]
      /\ \A k \in DOMAIN s.raw :
           s.raw[k].end \in Nat /\ s.raw[k].end <= Time(i - 1)
  <2>1. Time(a - 1) \in Nat /\ Time(i - 1) \in Nat
    BY TimeFacts
  <2>2. /\ s.open # <<>> => s.open[1] \in Nat /\ s.open[1] < e /\ e <= Time(i - 1)
        /\ s.tentative # <<>> => e = s.tentative[1]
        /\ \A k \in DOMAIN s.raw :
             s.raw[k].end \in Nat /\ s.raw[k].end <= Time(i - 1)
    BY StateFacts
  <2> QED BY <2>1, <2>2
<1>5. /\ s.open # <<>> => e <= Time(a - 1)
      /\ \A k \in DOMAIN s.raw : s.raw[k].end <= Time(a - 1)
  <2>1. CASE a = i
    BY <1>4, <2>1
  <2>2. CASE a # i
    <3>1. a \in 1..(i - 1)
      BY <2>2
    <3>2. AllSilence(heard, rules, a, i - 1)
      BY DEF AllSilence
    <3> QED BY <1>4, <3>1, <3>2 DEF SilenceEnds
  <2> QED BY <2>1, <2>2
<1>6. OneClosed(s, t, e)
  <2>1. s \in VoiceStates
    BY StateFacts
  <2> QED BY <2>1, SegmentsCome
<1>7. \A k \in DOMAIN t.raw : t.raw[k].end <= Time(a - 1)
  BY <1>5, <1>6 DEF OneClosed
<1>8. t.open # <<>> => t.tentative = <<e>> /\ s.open # <<>>
  BY <1>3 DEF Waits, Closes, Fades
<1> QED BY <1>5, <1>7, <1>8

LEMMA SilenceOutStep ==
    ASSUME NEW s, NEW t, NEW heard, NEW i \in Nat \ {0}, heard[i] \in Int,
           NEW rules \in VoiceRules, Voice!ValidPolicy(rules),
           VoiceHop \in Nat \ {0}, Placed(s, i - 1),
           NEW e \in Nat, e = EndAt(s, Time(i - 1)),
           Steps(s, t, heard[i], e, Time(i - 1), rules),
           SilenceEnds(s, heard, rules, i - 1), SilenceEnds(t, heard, rules, i),
           SilenceIsOut(s, heard, rules, i - 1)
    PROVE  SilenceIsOut(t, heard, rules, i)
<1>0. OneClosed(s, t, e)
  <2>1. s \in VoiceStates
    BY StateFacts
  <2> QED BY <2>1, SegmentsCome
<1> SUFFICES ASSUME NEW a \in 1..i, NEW b \in 1..i, a <= b, AllSilence(heard, rules, a, b),
                    Time(b) - Time(a) >= rules.minimumSilence
             PROVE  /\ t.open # <<>> => Time(b) <= t.open[1]
                    /\ \A k \in DOMAIN t.raw :
                         t.raw[k].end <= Time(a - 1) \/ Time(b) <= t.raw[k].start
  BY DEF SilenceIsOut
<1>1. /\ rules.speech \in Int /\ rules.silence \in Int /\ rules.silence <= rules.speech
      /\ rules.minimumSilence \in Nat
  BY DEF VoiceRules, Voice!ValidPolicy
<1>2. /\ Time(i - 1) \in Nat /\ Time(a) \in Nat /\ Time(a - 1) \in Nat
      /\ Time(i) \in Nat
      /\ s.open # <<>> => s.open[1] \in Nat /\ s.open[1] < e /\ e <= Time(i - 1)
      /\ s.tentative # <<>> => e = s.tentative[1]
  <2>1. /\ Time(i - 1) \in Nat /\ Time(a) \in Nat /\ Time(a - 1) \in Nat
        /\ Time(i) \in Nat
    BY TimeFacts
  <2>2. /\ s.open # <<>> => s.open[1] \in Nat /\ s.open[1] < e /\ e <= Time(i - 1)
        /\ s.tentative # <<>> => e = s.tentative[1]
    BY StateFacts
  <2> QED BY <2>1, <2>2
<1>3. Time(b) \in Nat /\ (b # i => b \in 1..(i - 1) /\ Time(b) <= Time(i - 1))
  BY TimeFacts
<1>4. CASE b = i
  <2>1. heard[i] < rules.silence
    BY <1>4 DEF AllSilence
  <2>2. \A k \in DOMAIN t.raw : t.raw[k].end <= Time(a - 1)
    BY <1>4 DEF SilenceEnds
  <2>3. Time(i - 1) - Time(a - 1) >= rules.minimumSilence
    <3>1. i \in Nat /\ a \in Nat \ {0}
      OBVIOUS
    <3>2. Time(i) - Time(a) = Time(i - 1) - Time(a - 1)
      BY <3>1, TimeGrows
    <3> QED BY <1>4, <3>2
  <2>4. s.open # <<>> => e <= Time(a - 1)
    <3>1. CASE a = i
      BY <1>2, <3>1
    <3>2. CASE a # i
      <4>1. a \in 1..(i - 1)
        BY <3>2
      <4>2. AllSilence(heard, rules, a, i - 1)
        BY <1>4 DEF AllSilence
      <4> QED BY <1>2, <4>1, <4>2 DEF SilenceEnds
    <3> QED BY <3>1, <3>2
  <2>5. s.open # <<>> => Time(i - 1) - e >= rules.minimumSilence
    BY <1>1, <1>2, <2>3, <2>4, SMTT(30)
  <2>6. \/ Waits(s, t, heard[i], rules)
        \/ Closes(s, t, heard[i], e, Time(i - 1), rules)
    BY <1>1, <1>2, <2>1, <2>5, SMTT(30) DEF Steps, Opens, Speaks, Holds, Fades
  <2>7. t.open = <<>>
    BY <2>6 DEF Waits, Closes
  <2> QED BY <2>2, <2>7
<1>5. CASE b # i
  <2>1. a \in 1..(i - 1) /\ b \in 1..(i - 1)
    BY <1>5
  <2>2. /\ s.open # <<>> => Time(b) <= s.open[1]
        /\ \A k \in DOMAIN s.raw : s.raw[k].end <= Time(a - 1) \/ Time(b) <= s.raw[k].start
    BY <2>1 DEF SilenceIsOut
  <2>4. \A k \in DOMAIN t.raw : t.raw[k].end <= Time(a - 1) \/ Time(b) <= t.raw[k].start
    BY <1>0, <2>2 DEF OneClosed
  <2>5. t.open = <<>> \/ t.open = <<Time(i - 1)>> \/ (t.open = s.open /\ s.open # <<>>)
    BY DEF Steps, Opens, Waits, Closes, Speaks, Fades, Holds
  <2>6. t.open # <<>> => Time(b) <= t.open[1]
    BY <1>3, <1>5, <2>2, <2>5
  <2> QED BY <2>4, <2>6
<1> QED BY <1>4, <1>5

LEMMA KeptStep ==
    ASSUME NEW s, NEW heard, NEW i \in Nat \ {0}, heard[i] \in Int,
           NEW rules \in VoiceRules, Voice!ValidPolicy(rules), VoiceHop \in Nat \ {0},
           Passed(s, heard, rules, i - 1)
    PROVE  Passed(Voice!DetectFrame(s, i, heard[i], rules), heard, rules, i)
<1> DEFINE t == Voice!DetectFrame(s, i, heard[i], rules)
           e == EndAt(s, Time(i - 1))
<1>1. Placed(s, i - 1) /\ s \in VoiceStates /\ Len(s.tentative) <= 1
  BY DEF Passed, Placed
<1>2. /\ t \in VoiceStates /\ e \in Nat
      /\ Steps(s, t, heard[i], e, Time(i - 1), rules)
  BY <1>1, FrameCases DEF Steps
<1> HIDE DEF t, e
<1>3. e = EndAt(s, Time(i - 1)) /\ e \in Nat
  BY <1>2 DEF e
<1>4. Placed(t, i)
  BY <1>1, <1>2, <1>3, PlacedStep DEF Steps
<1>5. SpeechIsOpen(t, heard, rules, i)
  BY <1>1, <1>2, <1>3, SpeechOpenStep DEF Passed
<1>6. SpeechIsKept(t, heard, rules, i)
  BY <1>1, <1>2, <1>3, <1>5, SpeechKeptStep DEF Passed
<1>7. SilenceEnds(t, heard, rules, i)
  BY <1>1, <1>2, <1>3, SilenceEndsStep DEF Passed
<1>8. SilenceIsOut(t, heard, rules, i)
  BY <1>1, <1>2, <1>3, <1>7, SilenceOutStep DEF Passed
<1> QED BY <1>4, <1>5, <1>6, <1>7, <1>8 DEF Passed, t

LEMMA IdleKept ==
    ASSUME NEW heard, NEW rules
    PROVE  Passed(Idle, heard, rules, 0)
<1>1. Idle.open = <<>> /\ Idle.tentative = <<>> /\ Idle.raw = <<>>
  BY DEF Idle
<1>2. /\ Idle \in VoiceStates /\ DOMAIN Idle.raw = {}
      /\ Len(Idle.open) <= 1 /\ Len(Idle.tentative) <= 1
  BY DEF Idle, VoiceStates
<1>3. Placed(Idle, 0)
  BY <1>1, <1>2 DEF Placed, InOrder
<1>4. 1..0 = {}
  OBVIOUS
<1> QED BY <1>3, <1>4
        DEF Passed, SpeechIsOpen, SpeechIsKept, SilenceEnds, SilenceIsOut

\* After all the frames.
LEMMA ScanKeeps ==
    ASSUME VoiceHop \in Nat \ {0}, NEW n \in Nat, NEW heard, DOMAIN heard = 1..n,
           \A i \in 1..n : heard[i] \in Int,
           NEW rules \in VoiceRules, Voice!ValidPolicy(rules)
    PROVE  Passed(Scanned(heard, rules), heard, rules, n)
<1>0. PICK h : IsScan(h, heard, rules, n) /\ Scanned(heard, rules) = h[n]
  BY ScanFrameByFrame, Zenon
<1>1. /\ h[0] = Idle /\ Scanned(heard, rules) = h[n]
      /\ \A i \in 1..n : h[i] = Voice!DetectFrame(h[i - 1], i, heard[i], rules)
  BY <1>0 DEF IsScan
<1> DEFINE lost == {i \in 0..n : ~Passed(h[i], heard, rules, i)}
<1>2. lost = {}
  <2> SUFFICES ASSUME lost # {} PROVE FALSE
    OBVIOUS
  <2>1. PICK i \in lost : \A j \in lost : i <= j
    <3>1. lost \in SUBSET Nat
      OBVIOUS
    <3> HIDE DEF lost
    <3> QED BY <3>1, LeastExists
  <2>2. i \in 0..n /\ ~Passed(h[i], heard, rules, i)
    BY <2>1
  <2>3. i # 0
    BY <1>1, <2>2, IdleKept
  <2>4. i \in 1..n /\ i \in Nat \ {0} /\ i - 1 \in 0..n /\ ~(i <= i - 1)
    BY <2>2, <2>3
  <2>5. Passed(h[i - 1], heard, rules, i - 1)
    BY <2>1, <2>4
  <2>6. h[i] = Voice!DetectFrame(h[i - 1], i, heard[i], rules) /\ heard[i] \in Int
    BY <1>1, <2>4
  <2> HIDE DEF lost
  <2> QED BY <2>2, <2>4, <2>5, <2>6, KeptStep
<1>3. n \in 0..n
  OBVIOUS
<1> QED BY <1>1, <1>2, <1>3

\* The segments once the audio has ended.

\* Where the frame f ends, of those the samples make.
EndOf(f, samples) == IF Time(f) < samples THEN Time(f) ELSE samples

\* What the loop and the end of the audio leave: segments in order and inside the
\* audio, with the speech that lasted and without the silence that did.
SegmentsFit(raw, heard, rules, samples, n) ==
    /\ raw \in Seq([start : Nat, end : Nat]) /\ InOrder(raw)
    /\ \A k \in DOMAIN raw : raw[k].end <= samples
    /\ \A a \in 1..n, b \in 1..n :
         a <= b /\ AllSpeech(heard, rules, a, b)
           /\ EndOf(b, samples) - Time(a - 1) > rules.minimumSpeech =>
         Within(raw, Time(a - 1), EndOf(b, samples))
    /\ \A a \in 1..n, b \in 1..n :
         a <= b /\ AllSilence(heard, rules, a, b) /\ Time(b) - Time(a) >= rules.minimumSilence =>
         \A k \in DOMAIN raw : raw[k].end <= Time(a - 1) \/ Time(b) <= raw[k].start

\* The frames of some samples reach their end, and no frame starts after it.
LEMMA FramesReach ==
    ASSUME VoiceHop \in Nat \ {0}, NEW samples \in Nat
    PROVE  /\ Voice!VadFrames(samples) \in Nat
           /\ samples <= Time(Voice!VadFrames(samples))
           /\ Voice!VadFrames(samples) > 0 => Time(Voice!VadFrames(samples) - 1) < samples
<1> DEFINE n == Voice!VadFrames(samples)
<1>1. n = CeilDiv(samples, VoiceHop)
  BY DEF Voice!VadFrames, Voice!CeilDiv, CeilDiv
<1>2. \A k \in Nat : CeilDiv(samples, VoiceHop) \in Nat
                     /\ (k < CeilDiv(samples, VoiceHop) <=> k * VoiceHop < samples)
  BY CeilAbove
<1> HIDE DEF n
<1>3. n \in Nat /\ \A k \in Nat : k < n <=> Time(k) < samples
  BY <1>1, <1>2 DEF Time
<1>4. samples <= Time(n)
  <2>1. ~ (Time(n) < samples) /\ Time(n) \in Nat
    BY <1>3, TimeGrows
  <2> QED BY <2>1
<1>5. n > 0 => Time(n - 1) < samples
  <2>1. n > 0 => n - 1 \in Nat /\ n - 1 < n
    BY <1>3
  <2> QED BY <1>3, <2>1
<1> QED BY <1>3, <1>4, <1>5 DEF n

\* A segment more, as a predicate of its own.
OneAfter(grown, raw, from, to) ==
    /\ DOMAIN raw = 1..Len(raw) /\ Len(raw) \in Nat
    /\ DOMAIN grown = 1..(Len(raw) + 1)
    /\ \A k \in DOMAIN raw : grown[k] = raw[k]
    /\ grown[Len(raw) + 1].start = from /\ grown[Len(raw) + 1].end = to

LEMMA AppendedAre ==
    ASSUME NEW raw \in Seq([start : Nat, end : Nat]), NEW from \in Nat, NEW to \in Nat
    PROVE  /\ Append(raw, [start |-> from, end |-> to]) \in Seq([start : Nat, end : Nat])
           /\ OneAfter(Append(raw, [start |-> from, end |-> to]), raw, from, to)
<1> DEFINE x == [start |-> from, end |-> to]
           S == [start : Nat, end : Nat]
<1>1. x \in S /\ x.start = from /\ x.end = to /\ raw \in Seq(S)
  OBVIOUS
<1> HIDE DEF x, S
<1>2. /\ Append(raw, x) \in Seq(S)
      /\ DOMAIN Append(raw, x) = 1..(Len(raw) + 1)
      /\ DOMAIN raw = 1..Len(raw) /\ Len(raw) \in Nat
      /\ \A k \in DOMAIN raw : Append(raw, x)[k] = raw[k]
      /\ Append(raw, x)[Len(raw) + 1] = x
  BY <1>1, OneMore
<1>3. OneAfter(Append(raw, x), raw, from, to)
  BY <1>1, <1>2 DEF OneAfter
<1> QED BY <1>2, <1>3 DEF x, S

\* Without the speech the audio ends in.
LEMMA ClosedFit ==
    ASSUME VoiceHop \in Nat \ {0}, NEW samples \in Nat, NEW n \in Nat, NEW heard,
           NEW rules \in VoiceRules, NEW s, Passed(s, heard, rules, n),
           samples <= Time(n), n > 0 => Time(n - 1) < samples,
           s.open = <<>> \/ samples - s.open[1] <= rules.minimumSpeech
    PROVE  SegmentsFit(s.raw, heard, rules, samples, n)
<1>1. /\ s.raw \in Seq([start : Nat, end : Nat]) /\ InOrder(s.raw)
      /\ s.open \in Seq(Nat)
  BY DEF Passed, Placed, VoiceStates
<1>2. n > 0 => Time(n - 1) \in Nat
  <2>1. n > 0 => n - 1 \in Nat
    OBVIOUS
  <2> QED BY <2>1, TimeGrows
<1>3. \A k \in DOMAIN s.raw : s.raw[k].end <= samples
  <2>1. \A k \in DOMAIN s.raw : s.raw[k].end \in Nat
    BY <1>1, SegmentsAre
  <2> QED BY <1>2, <2>1 DEF Passed, Placed
<1>4. ASSUME NEW a \in 1..n, NEW b \in 1..n, a <= b, AllSpeech(heard, rules, a, b),
             EndOf(b, samples) - Time(a - 1) > rules.minimumSpeech
      PROVE  Within(s.raw, Time(a - 1), EndOf(b, samples))
  <2>1. /\ Time(a - 1) \in Nat /\ Time(b) \in Nat
    <3>1. a - 1 \in Nat /\ b \in Nat
      OBVIOUS
    <3> QED BY <3>1, TimeGrows
  <2>2. EndOf(b, samples) <= Time(b) /\ EndOf(b, samples) <= samples /\ EndOf(b, samples) \in Nat
    BY <2>1 DEF EndOf
  <2>3. \/ Within(s.raw, Time(a - 1), Time(b))
        \/ s.open # <<>> /\ s.open[1] <= Time(a - 1)
        \/ Time(b) - Time(a - 1) <= rules.minimumSpeech
    BY <1>4 DEF Passed, SpeechIsKept
  <2>4. rules.minimumSpeech \in Nat
    BY DEF VoiceRules
  <2>5. ~ (Time(b) - Time(a - 1) <= rules.minimumSpeech)
    BY <1>4, <2>1, <2>2, <2>4
  <2>6. ~ (s.open # <<>> /\ s.open[1] <= Time(a - 1))
    <3>1. s.open # <<>> => s.open[1] \in Nat
      BY <1>1
    <3> QED BY <1>4, <2>1, <2>2, <2>4, <3>1, SMTT(30)
  <2>7. Within(s.raw, Time(a - 1), Time(b))
    BY <2>3, <2>5, <2>6
  <2>8. PICK k \in DOMAIN s.raw : s.raw[k].start <= Time(a - 1) /\ Time(b) <= s.raw[k].end
    BY <2>7 DEF Within
  <2>9. s.raw[k].end \in Nat
    BY <1>1, SegmentsAre
  <2>10. EndOf(b, samples) <= s.raw[k].end
    BY <2>1, <2>2, <2>8, <2>9
  <2> QED BY <2>8, <2>10 DEF Within
<1>5. \A a \in 1..n, b \in 1..n :
         a <= b /\ AllSilence(heard, rules, a, b) /\ Time(b) - Time(a) >= rules.minimumSilence =>
         \A k \in DOMAIN s.raw : s.raw[k].end <= Time(a - 1) \/ Time(b) <= s.raw[k].start
  BY DEF Passed, SilenceIsOut
<1> QED BY <1>1, <1>3, <1>4, <1>5 DEF SegmentsFit

\* With it.
LEMMA OpenFits ==
    ASSUME VoiceHop \in Nat \ {0}, NEW samples \in Nat, NEW n \in Nat, NEW heard,
           NEW rules \in VoiceRules, NEW s, Passed(s, heard, rules, n),
           samples <= Time(n), n > 0 => Time(n - 1) < samples,
           s.open # <<>>, samples - s.open[1] > rules.minimumSpeech
    PROVE  SegmentsFit(Append(s.raw, [start |-> s.open[1], end |-> samples]),
                       heard, rules, samples, n)
<1> DEFINE raw == Append(s.raw, [start |-> s.open[1], end |-> samples])
           last == Len(s.raw) + 1
<1>1. /\ s.raw \in Seq([start : Nat, end : Nat]) /\ InOrder(s.raw)
      /\ s.open \in Seq(Nat)
  BY DEF Passed, Placed, VoiceStates
<1>2. s.open[1] \in Nat
  BY <1>1
<1>3. raw \in Seq([start : Nat, end : Nat]) /\ OneAfter(raw, s.raw, s.open[1], samples)
  BY <1>1, <1>2, AppendedAre
<1> HIDE DEF raw
<1>4. /\ DOMAIN s.raw = 1..Len(s.raw) /\ Len(s.raw) \in Nat
      /\ DOMAIN raw = 1..(Len(s.raw) + 1)
      /\ \A k \in DOMAIN s.raw : raw[k] = s.raw[k]
      /\ raw[last].start = s.open[1] /\ raw[last].end = samples
  BY <1>3 DEF OneAfter
<1>5. n > 0 => Time(n - 1) \in Nat
  <2>1. n > 0 => n - 1 \in Nat
    OBVIOUS
  <2> QED BY <2>1, TimeGrows
<1>6. s.open[1] < samples
  BY <1>2, <1>5 DEF Passed, Placed
<1>7. \A k \in DOMAIN s.raw : /\ s.raw[k].end <= s.open[1] /\ s.raw[k].end \in Nat
                              /\ s.raw[k].start \in Nat
  <2>1. \A k \in DOMAIN s.raw : s.raw[k].end \in Nat /\ s.raw[k].start \in Nat
    BY <1>1, SegmentsAre
  <2> QED BY <2>1 DEF Passed, Placed
<1>8. \A k \in DOMAIN raw : k = last \/ k \in DOMAIN s.raw
  BY <1>4
<1>9. ASSUME NEW k \in DOMAIN raw
      PROVE  /\ raw[k].start < raw[k].end /\ raw[k].end <= samples
             /\ k > 1 => raw[k - 1].end <= raw[k].start
  <2>1. CASE k = last
    <3>1. k > 1 => k - 1 \in DOMAIN s.raw
      BY <1>4, <2>1
    <3> QED BY <1>4, <1>6, <1>7, <2>1, <3>1
  <2>2. CASE k \in DOMAIN s.raw
    <3>1. k > 1 => k - 1 \in DOMAIN s.raw
      BY <1>4, <2>2
    <3>2. /\ s.raw[k].start < s.raw[k].end
          /\ k > 1 => s.raw[k - 1].end <= s.raw[k].start
      BY <1>1, <2>2 DEF InOrder
    <3> QED BY <1>2, <1>4, <1>6, <1>7, <2>2, <3>1, <3>2, SMTT(30)
  <2> QED BY <1>8, <2>1, <2>2
<1>10. InOrder(raw)
  BY <1>9 DEF InOrder
<1>11. ASSUME NEW a \in 1..n, NEW b \in 1..n, a <= b, AllSpeech(heard, rules, a, b),
              EndOf(b, samples) - Time(a - 1) > rules.minimumSpeech
       PROVE  Within(raw, Time(a - 1), EndOf(b, samples))
  <2>1. Time(a - 1) \in Nat /\ Time(b) \in Nat
    <3>1. a - 1 \in Nat /\ b \in Nat
      OBVIOUS
    <3> QED BY <3>1, TimeGrows
  <2>2. EndOf(b, samples) <= Time(b) /\ EndOf(b, samples) <= samples /\ EndOf(b, samples) \in Nat
    BY <2>1 DEF EndOf
  <2>3. \/ Within(s.raw, Time(a - 1), Time(b))
        \/ s.open # <<>> /\ s.open[1] <= Time(a - 1)
        \/ Time(b) - Time(a - 1) <= rules.minimumSpeech
    BY <1>11 DEF Passed, SpeechIsKept
  <2>4. rules.minimumSpeech \in Nat
    BY DEF VoiceRules
  <2>5. ~ (Time(b) - Time(a - 1) <= rules.minimumSpeech)
    BY <1>11, <2>1, <2>2, <2>4
  <2>6. CASE Within(s.raw, Time(a - 1), Time(b))
    <3>1. PICK k \in DOMAIN s.raw : s.raw[k].start <= Time(a - 1) /\ Time(b) <= s.raw[k].end
      BY <2>6 DEF Within
    <3>2. k \in DOMAIN raw /\ raw[k] = s.raw[k] /\ s.raw[k].end \in Nat
      BY <1>4, <1>7
    <3>3. EndOf(b, samples) <= raw[k].end /\ raw[k].start <= Time(a - 1)
      BY <2>1, <2>2, <3>1, <3>2
    <3> QED BY <3>2, <3>3 DEF Within
  <2>7. CASE s.open # <<>> /\ s.open[1] <= Time(a - 1)
    <3>1. last \in DOMAIN raw
      BY <1>4
    <3>2. raw[last].start <= Time(a - 1) /\ EndOf(b, samples) <= raw[last].end
      BY <1>4, <2>2, <2>7
    <3> QED BY <3>1, <3>2 DEF Within
  <2> QED BY <2>3, <2>5, <2>6, <2>7
<1>12. ASSUME NEW a \in 1..n, NEW b \in 1..n, a <= b, AllSilence(heard, rules, a, b),
              Time(b) - Time(a) >= rules.minimumSilence, NEW k \in DOMAIN raw
       PROVE  raw[k].end <= Time(a - 1) \/ Time(b) <= raw[k].start
  <2>1. /\ s.open # <<>> => Time(b) <= s.open[1]
        /\ \A j \in DOMAIN s.raw : s.raw[j].end <= Time(a - 1) \/ Time(b) <= s.raw[j].start
    BY <1>12 DEF Passed, SilenceIsOut
  <2> QED BY <1>4, <1>8, <2>1
<1> QED BY <1>3, <1>9, <1>10, <1>11, <1>12 DEF SegmentsFit, raw

LEMMA RawFits ==
    ASSUME VoiceHop \in Nat \ {0}, NEW samples \in Nat, NEW heard,
           DOMAIN heard = 1..Voice!VadFrames(samples),
           \A i \in DOMAIN heard : heard[i] \in Int,
           NEW rules \in VoiceRules, Voice!ValidPolicy(rules)
    PROVE  SegmentsFit(Voice!Raw(heard, samples, rules), heard, rules, samples,
                       Voice!VadFrames(samples))
<1> DEFINE n == Voice!VadFrames(samples)
           s == Scanned(heard, rules)
<1>1. /\ n \in Nat /\ samples <= Time(n) /\ (n > 0 => Time(n - 1) < samples)
  BY FramesReach
<1>2. Passed(s, heard, rules, n)
  BY <1>1, ScanKeeps
<1>3. Voice!Raw(heard, samples, rules) =
        IF s.open # <<>> /\ samples - s.open[1] > rules.minimumSpeech
          THEN Append(s.raw, [start |-> s.open[1], end |-> samples])
          ELSE s.raw
  BY Zenon DEF Voice!Raw, Scanned, Idle
<1> HIDE DEF n, s
<1>4. CASE s.open # <<>> /\ samples - s.open[1] > rules.minimumSpeech
  <2>1. SegmentsFit(Append(s.raw, [start |-> s.open[1], end |-> samples]),
                    heard, rules, samples, n)
    BY <1>1, <1>2, <1>4, OpenFits
  <2> QED BY <1>3, <1>4, <2>1 DEF n
<1>5. CASE ~(s.open # <<>> /\ samples - s.open[1] > rules.minimumSpeech)
  <2>1. s.open = <<>> \/ samples - s.open[1] <= rules.minimumSpeech
    <3>1. s.open # <<>> => s.open[1] \in Nat
      <4>1. s.open \in Seq(Nat)
        BY <1>2 DEF Passed, Placed, VoiceStates
      <4> QED BY <4>1
    <3>2. rules.minimumSpeech \in Nat
      BY DEF VoiceRules
    <3> QED BY <1>5, <3>1, <3>2
  <2>2. SegmentsFit(s.raw, heard, rules, samples, n)
    BY <1>1, <1>2, <2>1, ClosedFit
  <2> QED BY <1>3, <1>5, <2>2 DEF n
<1> QED BY <1>4, <1>5

\* Their padding.

\* The padding at either side of the segment i, and its bounds with it.
PadBefore(raw, i, padding) == IF i = 1 THEN padding ELSE Voice!Sides(raw[i - 1], raw[i], padding)
PadBehind(raw, i, padding) ==
    IF i = Len(raw) THEN padding ELSE Voice!Sides(raw[i], raw[i + 1], padding)
PaddedStart(raw, i, padding) ==
    IF PadBefore(raw, i, padding) > raw[i].start THEN 0 ELSE raw[i].start - PadBefore(raw, i, padding)
PaddedEnd(raw, i, padding, samples) ==
    IF PadBehind(raw, i, padding) >= samples - raw[i].end THEN samples
    ELSE raw[i].end + PadBehind(raw, i, padding)

LEMMA SidesFit ==
    ASSUME NEW v, NEW w, NEW padding \in Nat, v.end \in Nat, w.start \in Nat, v.end <= w.start
    PROVE  /\ Voice!Sides(v, w, padding) \in Nat /\ Voice!Sides(v, w, padding) <= padding
           /\ v.end + Voice!Sides(v, w, padding) <= w.start - Voice!Sides(v, w, padding)
<1> DEFINE silence == w.start - v.end
<1>1. silence \in Nat
  OBVIOUS
<1>2. /\ silence \div 2 \in Nat /\ 2 * (silence \div 2) <= silence
  BY <1>1
<1>3. Voice!Sides(v, w, padding) = IF silence < 2 * padding THEN silence \div 2 ELSE padding
  BY DEF Voice!Sides
<1> DEFINE half == silence \div 2
<1>4. half \in Nat /\ 2 * half <= silence
  BY <1>2
<1>5. Voice!Sides(v, w, padding) = IF silence < 2 * padding THEN half ELSE padding
  BY <1>3
<1> HIDE DEF half
<1>6. CASE silence < 2 * padding
  BY <1>4, <1>5, <1>6
<1>7. CASE ~ (silence < 2 * padding)
  BY <1>1, <1>5, <1>7
<1> QED BY <1>6, <1>7

\* What padding makes of a segment and its neighbour.
LEMMA BoundsFit ==
    ASSUME NEW raw \in Seq([start : Nat, end : Nat]), InOrder(raw), NEW samples \in Nat,
           \A k \in DOMAIN raw : raw[k].end <= samples, NEW padding \in Nat,
           NEW k \in DOMAIN raw
    PROVE  /\ PaddedStart(raw, k, padding) \in Nat /\ PaddedEnd(raw, k, padding, samples) \in Nat
           /\ PaddedStart(raw, k, padding) <= raw[k].start
           /\ raw[k].start - padding <= PaddedStart(raw, k, padding)
           /\ raw[k].end <= PaddedEnd(raw, k, padding, samples)
           /\ PaddedEnd(raw, k, padding, samples) <= raw[k].end + padding
           /\ PaddedEnd(raw, k, padding, samples) <= samples
           /\ PaddedStart(raw, k, padding) < PaddedEnd(raw, k, padding, samples)
           /\ k > 1 => /\ k - 1 \in DOMAIN raw
                       /\ PaddedEnd(raw, k - 1, padding, samples) <= PaddedStart(raw, k, padding)
<1>1. DOMAIN raw = 1..Len(raw) /\ Len(raw) \in Nat
  OBVIOUS
<1>2. \A i \in DOMAIN raw : /\ raw[i].start \in Nat /\ raw[i].end \in Nat
                            /\ raw[i].start < raw[i].end /\ raw[i].end <= samples
                            /\ i > 1 => raw[i - 1].end <= raw[i].start
  BY SegmentsAre DEF InOrder
<1>3. ASSUME NEW i \in DOMAIN raw, i > 1
      PROVE  /\ i - 1 \in DOMAIN raw
             /\ PadBefore(raw, i, padding) = Voice!Sides(raw[i - 1], raw[i], padding)
             /\ PadBehind(raw, i - 1, padding) = PadBefore(raw, i, padding)
             /\ PadBefore(raw, i, padding) \in Nat /\ PadBefore(raw, i, padding) <= padding
             /\ raw[i - 1].end + PadBefore(raw, i, padding) <= raw[i].start - PadBefore(raw, i, padding)
  <2>1. i - 1 \in DOMAIN raw /\ i - 1 # Len(raw) /\ i # 1 /\ (i - 1) + 1 = i
    BY <1>1, <1>3, SMTT(30)
  <2>2. /\ raw[i - 1].end \in Nat /\ raw[i].start \in Nat /\ raw[i - 1].end <= raw[i].start
    BY <1>2, <1>3, <2>1
  <2>3. /\ PadBefore(raw, i, padding) = Voice!Sides(raw[i - 1], raw[i], padding)
        /\ PadBehind(raw, i - 1, padding) = Voice!Sides(raw[i - 1], raw[i], padding)
    BY <2>1 DEF PadBefore, PadBehind
  <2>4. /\ Voice!Sides(raw[i - 1], raw[i], padding) \in Nat
        /\ Voice!Sides(raw[i - 1], raw[i], padding) <= padding
        /\ raw[i - 1].end + Voice!Sides(raw[i - 1], raw[i], padding)
             <= raw[i].start - Voice!Sides(raw[i - 1], raw[i], padding)
    BY <2>2, SidesFit
  <2> QED BY <2>1, <2>3, <2>4
<1>4. \A i \in DOMAIN raw : PadBefore(raw, i, padding) \in 0..padding
  <2> TAKE i \in DOMAIN raw
  <2>1. CASE i = 1
    BY <2>1 DEF PadBefore
  <2>2. CASE i # 1
    <3>1. i > 1
      BY <1>1, <2>2
    <3> QED BY <1>3, <3>1
  <2> QED BY <2>1, <2>2
<1>5. \A i \in DOMAIN raw : PadBehind(raw, i, padding) \in 0..padding
  <2> TAKE i \in DOMAIN raw
  <2>1. CASE i = Len(raw)
    BY <2>1 DEF PadBehind
  <2>2. CASE i # Len(raw)
    <3>1. i + 1 \in DOMAIN raw /\ i + 1 > 1 /\ (i + 1) - 1 = i
      BY <1>1, <2>2, SMTT(30)
    <3> QED BY <1>3, <3>1
  <2> QED BY <2>1, <2>2
<1>6. ASSUME NEW i \in DOMAIN raw
      PROVE  /\ PaddedStart(raw, i, padding) \in Nat
             /\ PaddedStart(raw, i, padding) <= raw[i].start
             /\ raw[i].start - PadBefore(raw, i, padding) <= PaddedStart(raw, i, padding)
  <2>1. /\ raw[i].start \in Nat /\ PadBefore(raw, i, padding) \in Nat
    BY <1>2, <1>4
  <2> QED BY <2>1, SMTT(30) DEF PaddedStart
<1>7. ASSUME NEW i \in DOMAIN raw
      PROVE  /\ PaddedEnd(raw, i, padding, samples) \in Nat
             /\ raw[i].end <= PaddedEnd(raw, i, padding, samples)
             /\ PaddedEnd(raw, i, padding, samples) <= raw[i].end + PadBehind(raw, i, padding)
             /\ PaddedEnd(raw, i, padding, samples) <= samples
  <2>1. /\ raw[i].end \in Nat /\ PadBehind(raw, i, padding) \in Nat /\ raw[i].end <= samples
    BY <1>2, <1>5, SMTT(30)
  <2>2. PaddedEnd(raw, i, padding, samples) =
          IF PadBehind(raw, i, padding) >= samples - raw[i].end THEN samples
          ELSE raw[i].end + PadBehind(raw, i, padding)
    BY DEF PaddedEnd
  <2> DEFINE end == raw[i].end
             amount == PadBehind(raw, i, padding)
             to == PaddedEnd(raw, i, padding, samples)
  <2>3. /\ end \in Nat /\ amount \in Nat /\ end <= samples
        /\ to = IF amount >= samples - end THEN samples ELSE end + amount
    BY <2>1, <2>2, Zenon
  <2> HIDE DEF end, amount, to
  <2>4. to \in Nat /\ end <= to /\ to <= end + amount /\ to <= samples
    BY <2>3
  <2> QED BY <2>4 DEF end, amount, to
<1>8. ASSUME k > 1
      PROVE  /\ k - 1 \in DOMAIN raw
             /\ PaddedEnd(raw, k - 1, padding, samples) <= PaddedStart(raw, k, padding)
  <2>1. /\ k - 1 \in DOMAIN raw
        /\ PadBehind(raw, k - 1, padding) = PadBefore(raw, k, padding)
        /\ raw[k - 1].end + PadBefore(raw, k, padding) <= raw[k].start - PadBefore(raw, k, padding)
    BY <1>3, <1>8
  <2>2. /\ raw[k - 1].end \in Nat /\ raw[k].start \in Nat /\ PadBefore(raw, k, padding) \in Nat
    BY <1>2, <1>4, <2>1
  <2>3. /\ PaddedEnd(raw, k - 1, padding, samples) \in Nat
        /\ PaddedEnd(raw, k - 1, padding, samples) <= raw[k - 1].end + PadBehind(raw, k - 1, padding)
    BY <1>7, <2>1
  <2>4. /\ PaddedStart(raw, k, padding) \in Nat
        /\ raw[k].start - PadBefore(raw, k, padding) <= PaddedStart(raw, k, padding)
    BY <1>6
  <2>5. PaddedEnd(raw, k - 1, padding, samples) <= raw[k - 1].end + PadBefore(raw, k, padding)
    BY <2>1, <2>3
  <2>6. PaddedEnd(raw, k - 1, padding, samples) <= PaddedStart(raw, k, padding)
    <3> DEFINE e == raw[k - 1].end
               b == raw[k].start
               p == PadBefore(raw, k, padding)
               to == PaddedEnd(raw, k - 1, padding, samples)
               from == PaddedStart(raw, k, padding)
    <3>1. /\ e \in Nat /\ b \in Nat /\ p \in Nat /\ to \in Nat /\ from \in Nat
          /\ to <= e + p /\ e + p <= b - p /\ b - p <= from
      BY <2>1, <2>2, <2>3, <2>4, <2>5
    <3> HIDE DEF e, b, p, to, from
    <3>2. to <= from
      BY <3>1
    <3> QED BY <3>2 DEF to, from
  <2> QED BY <2>1, <2>6
<1>9. /\ raw[k].start \in Nat /\ raw[k].end \in Nat /\ raw[k].start < raw[k].end
      /\ PadBefore(raw, k, padding) \in Nat /\ PadBefore(raw, k, padding) <= padding
      /\ PadBehind(raw, k, padding) \in Nat /\ PadBehind(raw, k, padding) <= padding
  BY <1>2, <1>4, <1>5
<1>10. /\ raw[k].start - padding <= PaddedStart(raw, k, padding)
       /\ PaddedEnd(raw, k, padding, samples) <= raw[k].end + padding
       /\ PaddedStart(raw, k, padding) < PaddedEnd(raw, k, padding, samples)
  <2>1. /\ PaddedStart(raw, k, padding) \in Nat
        /\ PaddedStart(raw, k, padding) <= raw[k].start
        /\ raw[k].start - PadBefore(raw, k, padding) <= PaddedStart(raw, k, padding)
    BY <1>6
  <2>2. /\ PaddedEnd(raw, k, padding, samples) \in Nat
        /\ raw[k].end <= PaddedEnd(raw, k, padding, samples)
        /\ PaddedEnd(raw, k, padding, samples) <= raw[k].end + PadBehind(raw, k, padding)
    BY <1>7
  <2> DEFINE first == raw[k].start
             end == raw[k].end
             b == PadBefore(raw, k, padding)
             c == PadBehind(raw, k, padding)
             from == PaddedStart(raw, k, padding)
             to == PaddedEnd(raw, k, padding, samples)
  <2>3. /\ first \in Nat /\ end \in Nat /\ first < end
        /\ b \in Nat /\ b <= padding /\ c \in Nat /\ c <= padding
        /\ from \in Nat /\ first - b <= from /\ from <= first
        /\ to \in Nat /\ end <= to /\ to <= end + c
    BY <1>9, <2>1, <2>2
  <2> HIDE DEF first, end, b, c, from, to
  <2>4. first - padding <= from /\ to <= end + padding /\ from < to
    BY <2>3
  <2> QED BY <2>4 DEF first, end, from, to
<1> QED BY <1>6, <1>7, <1>8, <1>10

LEMMA PaddingFits ==
    ASSUME NEW raw \in Seq([start : Nat, end : Nat]), InOrder(raw), NEW samples \in Nat,
           \A k \in DOMAIN raw : raw[k].end <= samples, NEW padding \in Nat
    PROVE  LET out == Voice!ApplyPadding(raw, padding, samples)
           IN  /\ out.ok /\ DOMAIN out.value = DOMAIN raw
               /\ \A k \in DOMAIN raw :
                    out.value[k] = [start |-> PaddedStart(raw, k, padding),
                                    end   |-> PaddedEnd(raw, k, padding, samples)]
<1> DEFINE results == [i \in DOMAIN raw |->
              Voice!Segment(PaddedStart(raw, i, padding), PaddedEnd(raw, i, padding, samples),
                            samples)]
           Seg(i) == [start |-> PaddedStart(raw, i, padding),
                      end   |-> PaddedEnd(raw, i, padding, samples)]
           values == [i \in DOMAIN raw |-> Seg(i)]
<1>1. Voice!ApplyPadding(raw, padding, samples) = Voice!Collected(results)
  BY DEF Voice!ApplyPadding, PaddedStart, PaddedEnd, PadBefore, PadBehind
<1>2. ASSUME NEW i \in DOMAIN raw
      PROVE  results[i] = Voice!Ok(Seg(i))
  <2>1. /\ PaddedStart(raw, i, padding) \in Nat /\ PaddedEnd(raw, i, padding, samples) \in Nat
        /\ PaddedEnd(raw, i, padding, samples) <= samples
        /\ PaddedStart(raw, i, padding) < PaddedEnd(raw, i, padding, samples)
    BY BoundsFit
  <2> QED BY <2>1 DEF Voice!Segment
<1>3. \A i \in DOMAIN raw : results[i].ok /\ results[i].value = Seg(i)
  BY <1>2 DEF Voice!Ok
<1>4. DOMAIN results = DOMAIN raw
  OBVIOUS
<1> HIDE DEF results
<1>5. {i \in DOMAIN results : ~results[i].ok} = {}
  BY <1>3, <1>4
<1>6. Voice!Collected(results) = Voice!Ok([i \in DOMAIN results |-> results[i].value])
  BY <1>5 DEF Voice!Collected
<1>7. [i \in DOMAIN results |-> results[i].value] = values
  BY <1>3, <1>4
<1>8. Voice!ApplyPadding(raw, padding, samples) = Voice!Ok(values)
  BY <1>1, <1>6, <1>7
<1> QED BY <1>8 DEF Voice!Ok

\* segments_from_probabilities follows the speech: for every length of frame, every
\* audio, every probability of every frame and every valid policy.
THEOREM SegmentsFollowTheSpeech ==
    ASSUME VoiceHop \in Nat \ {0}, NotFinite \notin 0..100,
           NEW samples \in Nat,
           NEW heard \in [1..Voice!VadFrames(samples) -> 0..100],
           NEW rules \in VoiceRules, Voice!ValidPolicy(rules)
    PROVE  LET out == Voice!SegmentsFromProbabilities(heard, samples, rules)
           IN  out.ok /\ Voice!FollowsTheSpeech(out.value, heard, samples, rules)
<1> DEFINE n == Voice!VadFrames(samples)
           raw == Voice!Raw(heard, samples, rules)
           padding == rules.padding
           out == Voice!ApplyPadding(raw, padding, samples)
           found == out.value
           Covered(x) == \E k \in DOMAIN found : found[k].start <= x /\ x < found[k].end
<1>1. n \in Nat /\ DOMAIN heard = 1..n /\ \A f \in 1..n : heard[f] \in 0..100
  BY FramesReach
<1>2. /\ padding \in Nat /\ rules.minimumSpeech \in Nat /\ rules.minimumSilence \in Nat
      /\ rules.speech \in Int /\ rules.silence \in Int
  BY DEF VoiceRules
<1>3. Voice!SegmentsFromProbabilities(heard, samples, rules) = out
  <2>1. heard \in Seq(0..100) /\ Len(heard) = n
    <3> HIDE DEF n
    <3>1. heard \in [1..n -> 0..100]
      BY DEF n
    <3> QED BY ONLY <1>1, <3>1
  <2>2. \A p \in Voice!ToSet(heard) : p \in 0..100
    BY <1>1, ZenonT(60) DEF Voice!ToSet
  <2>3. ~ \E p \in Voice!ToSet(heard) : p = NotFinite \/ p \notin 0..100
    BY <2>2
  <2> HIDE DEF out
  <2> QED BY <2>1, <2>3 DEF Voice!SegmentsFromProbabilities, out
<1>4. SegmentsFit(raw, heard, rules, samples, n)
  <2>1. \A i \in DOMAIN heard : heard[i] \in Int
    <3> HIDE DEF n
    <3> TAKE i \in DOMAIN heard
    <3>1. heard[i] \in 0..100
      BY <1>1, Zenon
    <3>2. \A p \in 0..100 : p \in Int
      OBVIOUS
    <3> QED BY <3>1, <3>2, Zenon
  <2> QED BY <1>1, <2>1, RawFits DEF n, raw
<1> HIDE DEF n, raw, out, padding
<1>5. /\ raw \in Seq([start : Nat, end : Nat]) /\ InOrder(raw)
      /\ \A k \in DOMAIN raw : raw[k].end <= samples
  BY <1>4 DEF SegmentsFit
<1>6. /\ out.ok /\ DOMAIN found = DOMAIN raw
      /\ \A k \in DOMAIN raw : found[k] = [start |-> PaddedStart(raw, k, padding),
                                           end   |-> PaddedEnd(raw, k, padding, samples)]
  BY <1>2, <1>5, PaddingFits DEF out
<1> HIDE DEF found
<1>7. ASSUME NEW k \in DOMAIN raw
      PROVE  /\ found[k].start \in Nat /\ found[k].end \in Nat
             /\ raw[k].start \in Nat /\ raw[k].end \in Nat
             /\ found[k].start <= raw[k].start /\ raw[k].start - padding <= found[k].start
             /\ raw[k].end <= found[k].end /\ found[k].end <= raw[k].end + padding
             /\ found[k].start < found[k].end /\ found[k].end <= samples
             /\ k > 1 => found[k - 1].end <= found[k].start
  <2>1. /\ found[k].start = PaddedStart(raw, k, padding)
        /\ found[k].end = PaddedEnd(raw, k, padding, samples)
    <3>1. found[k] = [start |-> PaddedStart(raw, k, padding),
                      end   |-> PaddedEnd(raw, k, padding, samples)]
      BY <1>6, Zenon
    <3> QED BY ONLY <3>1
  <2>2. k > 1 => /\ k - 1 \in DOMAIN raw
                 /\ PaddedEnd(raw, k - 1, padding, samples) <= PaddedStart(raw, k, padding)
    BY <1>2, <1>5, BoundsFit
  <2>3. k > 1 => found[k - 1].end = PaddedEnd(raw, k - 1, padding, samples)
    <3>1. k > 1 => found[k - 1] = [start |-> PaddedStart(raw, k - 1, padding),
                                   end   |-> PaddedEnd(raw, k - 1, padding, samples)]
      BY <1>6, <2>2, Zenon
    <3> QED BY ONLY <3>1
  <2>4. /\ PaddedStart(raw, k, padding) \in Nat /\ PaddedEnd(raw, k, padding, samples) \in Nat
        /\ PaddedStart(raw, k, padding) <= raw[k].start
        /\ raw[k].start - padding <= PaddedStart(raw, k, padding)
        /\ raw[k].end <= PaddedEnd(raw, k, padding, samples)
        /\ PaddedEnd(raw, k, padding, samples) <= raw[k].end + padding
        /\ PaddedEnd(raw, k, padding, samples) <= samples
        /\ PaddedStart(raw, k, padding) < PaddedEnd(raw, k, padding, samples)
    BY <1>2, <1>5, BoundsFit
  <2>5. raw[k].start \in Nat /\ raw[k].end \in Nat
    BY <1>5, SegmentsAre
  <2> QED BY <2>1, <2>2, <2>3, <2>4, <2>5, ZenonT(60)
<1> DEFINE Starts(k) == found[k].start
           Ends(k) == found[k].end
           RawStarts(k) == raw[k].start
           RawEnds(k) == raw[k].end
<1>b. \A k \in DOMAIN raw :
        /\ Starts(k) \in Nat /\ Ends(k) \in Nat /\ RawStarts(k) \in Nat /\ RawEnds(k) \in Nat
        /\ Starts(k) <= RawStarts(k) /\ RawStarts(k) - padding <= Starts(k)
        /\ RawEnds(k) <= Ends(k) /\ Ends(k) <= RawEnds(k) + padding
        /\ Starts(k) < Ends(k) /\ Ends(k) <= samples
        /\ k > 1 => Ends(k - 1) <= Starts(k)
  BY <1>7
<1>c. \A x : Covered(x) <=> \E k \in DOMAIN raw : Starts(k) <= x /\ x < Ends(k)
  BY <1>6
<1>d. \A from, to : Within(raw, from, to) <=>
        \E k \in DOMAIN raw : RawStarts(k) <= from /\ to <= RawEnds(k)
  BY DEF Within
<1>e. \A a \in 1..n, b \in 1..n :
         a <= b /\ AllSilence(heard, rules, a, b) /\ Time(b) - Time(a) >= rules.minimumSilence =>
         \A k \in DOMAIN raw : RawEnds(k) <= Time(a - 1) \/ Time(b) <= RawStarts(k)
  BY <1>4 DEF SegmentsFit
<1>f. \A k \in DOMAIN found :
          /\ 0 <= found[k].start /\ found[k].start < found[k].end /\ found[k].end <= samples
          /\ k > 1 => found[k - 1].end <= found[k].start
  <2>1. \A k \in DOMAIN raw : 0 <= Starts(k)
    <3> HIDE DEF Starts, Ends, RawStarts, RawEnds
    <3> QED BY <1>b
  <2> QED BY <1>6, <1>b, <2>1, Zenon
<1> HIDE DEF Starts, Ends, RawStarts, RawEnds, Covered
<1>8. ASSUME NEW a \in DOMAIN heard, NEW b \in DOMAIN heard, a <= b,
             \A f \in a..b : heard[f] >= rules.speech,
             EndOf(b, samples) - Time(a - 1) > rules.minimumSpeech,
             NEW x \in Time(a - 1)..(EndOf(b, samples) - 1)
      PROVE  Covered(x)
  <2>1. a \in 1..n /\ b \in 1..n /\ AllSpeech(heard, rules, a, b)
    BY <1>1, <1>8 DEF AllSpeech
  <2>2. Within(raw, Time(a - 1), EndOf(b, samples))
    BY <1>4, <1>8, <2>1 DEF SegmentsFit
  <2>3. PICK k \in DOMAIN raw : RawStarts(k) <= Time(a - 1) /\ EndOf(b, samples) <= RawEnds(k)
    BY <1>d, <2>2, Zenon
  <2>4. Time(a - 1) \in Nat /\ EndOf(b, samples) \in Nat
    <3>1. a - 1 \in Nat /\ b \in Nat
      BY <2>1
    <3>2. Time(a - 1) \in Nat /\ Time(b) \in Nat
      BY <3>1, TimeGrows
    <3> QED BY <3>2 DEF EndOf
  <2>5. x \in Int /\ Time(a - 1) <= x /\ x < EndOf(b, samples)
    <3> DEFINE from == Time(a - 1)
               to == EndOf(b, samples)
    <3>1. x \in from..(to - 1) /\ from \in Nat /\ to \in Nat
      BY <2>4
    <3> HIDE DEF from, to
    <3>2. x \in Int /\ from <= x /\ x < to
      BY <3>1
    <3> QED BY <3>2 DEF from, to
  <2>6. Starts(k) <= x /\ x < Ends(k)
    <3>1. /\ Starts(k) \in Nat /\ Ends(k) \in Nat /\ RawStarts(k) \in Nat
          /\ RawEnds(k) \in Nat /\ Starts(k) <= RawStarts(k) /\ RawEnds(k) <= Ends(k)
      BY <1>b
    <3> QED BY ONLY <2>3, <2>4, <2>5, <3>1
  <2> QED BY <1>c, <2>6
<1>9. ASSUME NEW a \in DOMAIN heard, NEW b \in DOMAIN heard, a <= b,
             \A f \in a..b : heard[f] < rules.silence,
             Time(b) - Time(a) >= rules.minimumSilence,
             NEW x \in (Time(a - 1) + padding)..(Time(b) - 1 - padding)
      PROVE  ~Covered(x)
  <2>1. a \in 1..n /\ b \in 1..n /\ AllSilence(heard, rules, a, b)
    BY <1>1, <1>9 DEF AllSilence
  <2>2. \A k \in DOMAIN raw : RawEnds(k) <= Time(a - 1) \/ Time(b) <= RawStarts(k)
    BY <1>e, <1>9, <2>1
  <2>3. Time(a - 1) \in Nat /\ Time(b) \in Nat
    <3>1. a - 1 \in Nat /\ b \in Nat
      BY <2>1
    <3> QED BY <3>1, TimeGrows
  <2>4. ASSUME NEW k \in DOMAIN raw
        PROVE  ~ (Starts(k) <= x /\ x < Ends(k))
    <3>1. RawEnds(k) <= Time(a - 1) \/ Time(b) <= RawStarts(k)
      BY <2>2
    <3> DEFINE from == Time(a - 1)
               to == Time(b)
               first == Starts(k)
               end == Ends(k)
               rawStart == RawStarts(k)
               rawEnd == RawEnds(k)
    <3>2. x \in (from + padding)..(to - 1 - padding) /\ from \in Nat /\ to \in Nat
      BY <2>3
    <3>3. /\ first \in Nat /\ end \in Nat /\ rawStart \in Nat /\ rawEnd \in Nat
          /\ rawStart - padding <= first /\ end <= rawEnd + padding
          /\ rawEnd <= from \/ to <= rawStart
      BY <1>b, <3>1
    <3> HIDE DEF from, to, first, end, rawStart, rawEnd
    <3>4. padding \in Nat
      BY <1>2
    <3>5. x \in Int /\ from + padding <= x /\ x < to - padding
      BY <3>2, <3>4
    <3>6. ~ (first <= x /\ x < end)
      BY ONLY <3>2, <3>3, <3>4, <3>5
    <3> QED BY <3>6 DEF first, end
  <2> QED BY <1>c, <2>4
<1>10. ASSUME NEW a \in DOMAIN heard, NEW b \in DOMAIN heard
       PROVE  /\ (a - 1) * VoiceHop = Time(a - 1) /\ b * VoiceHop = Time(b)
              /\ (b - a) * VoiceHop = Time(b) - Time(a)
              /\ EndOf(b, samples) = IF b * VoiceHop < samples THEN b * VoiceHop ELSE samples
  <2>1. a \in Nat \ {0} /\ b \in Nat
    <3>1. a \in 1..n /\ b \in 1..n
      BY <1>1, Zenon
    <3> QED BY ONLY <1>1, <3>1
  <2>2. (b - a) * VoiceHop = Time(b) - Time(a)
    BY <2>1, TimeGrows
  <2> QED BY <2>2 DEF Time, EndOf
<1>11. Voice!FollowsTheSpeech(found, heard, samples, rules)
  <2>2. \A a \in DOMAIN heard, b \in DOMAIN heard :
          /\ a <= b /\ \A f \in a..b : heard[f] >= rules.speech
          /\ EndOf(b, samples) - Time(a - 1) > rules.minimumSpeech
          => \A x \in Time(a - 1)..(EndOf(b, samples) - 1) : Covered(x)
    BY <1>8
  <2>3. \A a \in DOMAIN heard, b \in DOMAIN heard :
          /\ a <= b /\ \A f \in a..b : heard[f] < rules.silence
          /\ Time(b) - Time(a) >= rules.minimumSilence
          => \A x \in (Time(a - 1) + padding)..(Time(b) - 1 - padding) : ~Covered(x)
    BY <1>9
  <2>4. \A a \in DOMAIN heard, b \in DOMAIN heard :
          /\ a <= b /\ \A f \in a..b : heard[f] < rules.silence
          /\ (b - a) * VoiceHop >= rules.minimumSilence
          => \A x \in ((a - 1) * VoiceHop + rules.padding)..(b * VoiceHop - 1 - rules.padding) :
               ~Covered(x)
    BY <1>10, <2>3, ZenonT(60) DEF padding
  <2>5. \A a \in DOMAIN heard, b \in DOMAIN heard :
          /\ a <= b /\ \A f \in a..b : heard[f] >= rules.speech
          /\ (IF b * VoiceHop < samples THEN b * VoiceHop ELSE samples) - (a - 1) * VoiceHop
               > rules.minimumSpeech
          => \A x \in ((a - 1) * VoiceHop)..((IF b * VoiceHop < samples THEN b * VoiceHop
                                               ELSE samples) - 1) : Covered(x)
    BY <1>10, <2>2, ZenonT(60)
  <2> QED BY <1>f, <2>4, <2>5, Zenon DEF Voice!FollowsTheSpeech, Covered
<1> QED BY <1>3, <1>6, <1>11 DEF found

-----------------------------------------------------------------------------
(* The windows a waveform is decoded in (stitch.rs, windows_bucketed) cover it. *)

CONSTANTS Rate, HeardWords(_, _, _)

Batch == INSTANCE BatchTranscription WITH VadHop <- VoiceHop, Heard <- HeardWords

\* Where the windows start but for the last, and where the last may at the latest.
WindowsEnd(total, window, stride, last) ==
    /\ last \in Nat /\ last * stride \in Nat /\ total - last * stride <= window
    /\ \A j \in Nat : /\ j * stride \in Nat
                      /\ j < last => j * stride + window < total
    /\ last * stride <= total

LEMMA LastWindow ==
    ASSUME NEW total \in Nat, NEW window \in Nat \ {0}, NEW stride \in Nat \ {0},
           NEW last, stride <= window,
           last = IF total <= window THEN 0 ELSE CeilDiv(total - window, stride)
    PROVE  WindowsEnd(total, window, stride, last)
<1>1. \A j \in Nat : j * stride \in Nat
  BY SMT
<1>2. CASE total <= window
  <2>1. last = 0 /\ last * stride = 0
    BY <1>2, SMT
  <2>2. \A j \in Nat : ~ (j < last)
    BY <2>1
  <2> QED BY <1>1, <1>2, <2>1, <2>2 DEF WindowsEnd
<1>3. CASE total > window
  <2>1. total - window \in Nat /\ last = CeilDiv(total - window, stride)
    BY <1>3
  <2>2. \A j \in Nat : last \in Nat /\ (j < last <=> j * stride < total - window)
    BY <2>1, CeilAbove
  <2>3. last \in Nat
    BY <2>2
  <2>4. total - last * stride <= window
    <3>1. ~ (last * stride < total - window) /\ last * stride \in Nat
      BY <1>1, <2>2, <2>3
    <3> QED BY <2>1, <3>1
  <2>5. \A j \in Nat : j < last => j * stride + window < total
    BY <1>1, <2>1, <2>2
  <2>6. last * stride <= total
    <3>1. CASE last = 0
      BY <3>1, SMT
    <3>2. CASE last # 0
      <4>1. last - 1 \in Nat /\ last - 1 < last
        BY <2>3, <3>2
      <4>2. (last - 1) * stride + window < total /\ (last - 1) * stride \in Nat
        BY <1>1, <2>5, <4>1
      <4>3. (last - 1) * stride = last * stride - stride
        BY <2>3, SMT
      <4>4. last * stride \in Nat
        BY <1>1, <2>3
      <4> QED BY <4>2, <4>3, <4>4
    <3> QED BY <3>1, <3>2
  <2> QED BY <1>1, <2>3, <2>4, <2>5, <2>6 DEF WindowsEnd
<1> QED BY <1>2, <1>3

LEMMA CeilReaches ==
    ASSUME NEW a \in Nat, NEW m \in Nat \ {0}
    PROVE  CeilDiv(a, m) * m \in Nat /\ a <= CeilDiv(a, m) * m
<1>1. CeilDiv(a, m) \in Nat
  BY CeilAbove
<1> DEFINE q == CeilDiv(a, m)
<1>2. q \in Nat /\ (q < q <=> q * m < a)
  BY <1>1, CeilAbove
<1> HIDE DEF q
<1>3. q * m \in Nat
  BY <1>2, SMT
<1>4. ~ (q * m < a)
  BY <1>2
<1>5. a <= q * m
  BY <1>3, <1>4
<1> QED BY <1>3, <1>5 DEF q

\* windows_bucketed covers the audio: each window lies in it and is at most a
\* window long, each starts after the one before, and whatever lasts no longer than
\* the overlap lies whole in one of them, so that a word at a seam is heard whole -
\* for every length of audio, every window, every overlap shorter than it and every
\* bucket, in samples (the code's seconds are floats, whose rounding is not stated).
THEOREM WindowsCoverTheAudio ==
    ASSUME NEW total \in Nat, NEW window \in Nat \ {0}, NEW overlap \in 0..(window - 1),
           NEW bucket \in Nat \ {0}
    PROVE  LET planned == Batch!WindowsBucketed(total, window, overlap, bucket)
               windows == planned.value
           IN  /\ planned.ok
               /\ \A k \in DOMAIN windows :
                    /\ windows[k].start \in Nat /\ windows[k].start <= windows[k].end
                    /\ windows[k].end <= total
                    /\ windows[k].end - windows[k].start <= window
                    /\ k > 1 => windows[k - 1].start < windows[k].start
               /\ \A from \in 0..total, to \in 0..total :
                    from <= to /\ to - from <= overlap =>
                      \E k \in DOMAIN windows :
                        windows[k].start <= from /\ to <= windows[k].end
<1> DEFINE stride == window - overlap
           last == IF total <= window THEN 0 ELSE CeilDiv(total - window, stride)
           rest == Max({total - last * stride, 0})
           ceiling == CeilDiv(rest, bucket) * bucket
           desired == Min({ceiling, window})
           from0 == Max({total - desired, 0})
           Start(k) == IF k <= last THEN (k - 1) * stride ELSE from0
           End(k) == IF k <= last THEN (k - 1) * stride + window ELSE total
           results == [k \in 1..(last + 1) |->
               IF k <= last THEN Batch!Window((k - 1) * stride, (k - 1) * stride + window)
               ELSE Batch!Window(from0, total)]
           values == [k \in 1..(last + 1) |-> [start |-> Start(k), end |-> End(k)]]
           planned == Batch!WindowsBucketed(total, window, overlap, bucket)
<1>1. stride \in Nat \ {0} /\ stride <= window /\ window = stride + overlap /\ overlap \in Nat
  OBVIOUS
<1>2. planned = Batch!Collected(results)
  <2>1. Batch!ValidGeometry(total, window, overlap, bucket)
    BY DEF Batch!ValidGeometry
  <2>2. planned = IF ~Batch!ValidGeometry(total, window, overlap, bucket) THEN Batch!Refused
                  ELSE Batch!Collected(results)
    BY Zenon DEF Batch!WindowsBucketed, Batch!CeilDiv, CeilDiv, Batch!Max, Batch!Min, Max, Min
  <2> HIDE DEF planned, results
  <2> QED BY <2>1, <2>2
<1> HIDE DEF planned
<1>3. /\ last \in Nat /\ last * stride \in Nat /\ total - last * stride <= window
      /\ \A j \in Nat : j * stride \in Nat /\ (j < last => j * stride + window < total)
      /\ last * stride <= total
  <2>1. last = IF total <= window THEN 0 ELSE CeilDiv(total - window, stride)
    OBVIOUS
  <2> HIDE DEF last, stride
  <2>2. WindowsEnd(total, window, stride, last)
    BY <1>1, <2>1, LastWindow
  <2> QED BY <2>2 DEF WindowsEnd
<1> HIDE DEF last, stride
<1>4. rest = total - last * stride /\ rest \in Nat
  <2> DEFINE x == total - last * stride
  <2>1. x \in Nat /\ x \in Int /\ 0 \in Int
    BY <1>3
  <2>2. rest = Max({x, 0})
    OBVIOUS
  <2> HIDE DEF x, rest
  <2>3. rest \in {x, 0} /\ rest >= x /\ rest >= 0
    BY <2>1, <2>2, OfTwo, Zenon
  <2>4. rest = x
    BY <2>1, <2>3
  <2> QED BY <2>1, <2>4 DEF x
<1> HIDE DEF rest
<1>5. ceiling \in Nat /\ rest <= ceiling
  BY <1>4, CeilReaches
<1> HIDE DEF ceiling
<1>6. desired \in Nat /\ rest <= desired /\ desired <= window
  <2>0. ceiling \in Int /\ window \in Int
    BY <1>5
  <2>1. desired \in {ceiling, window} /\ desired <= ceiling /\ desired <= window
    BY <2>0, OfTwo, Zenon
  <2> HIDE DEF desired
  <2> QED BY <1>3, <1>4, <1>5, <2>1
<1> HIDE DEF desired
<1>7. /\ from0 \in Nat /\ from0 <= total /\ total - from0 <= window
      /\ from0 <= last * stride
      /\ from0 >= total - window
  <2> DEFINE x == total - desired
  <2>0. x \in Int /\ 0 \in Int
    BY <1>6
  <2>1. from0 = Max({x, 0})
    OBVIOUS
  <2>2. x = total - desired
    OBVIOUS
  <2> HIDE DEF x, from0
  <2>3. from0 \in {x, 0} /\ from0 >= x /\ from0 >= 0
    BY <2>0, <2>1, OfTwo, Zenon
  <2> QED BY <1>3, <1>4, <1>6, <2>0, <2>2, <2>3
<1> HIDE DEF from0
<1>8. ASSUME NEW k \in 1..(last + 1)
      PROVE  /\ Start(k) \in Nat /\ End(k) \in Nat /\ Start(k) <= End(k) /\ End(k) <= total
             /\ End(k) - Start(k) <= window
             /\ k > 1 => k - 1 \in 1..(last + 1) /\ Start(k - 1) < Start(k)
             /\ results[k] = Batch!Window(Start(k), End(k))
  <2>1. /\ k \in Nat \ {0} /\ k - 1 \in Nat /\ (k <= last => k - 1 < last)
        /\ k > 1 => /\ k - 1 \in 1..(last + 1) /\ k - 1 <= last
                    /\ (k - 1) - 1 \in Nat /\ (k - 1) - 1 < last
    BY <1>3
  <2>2. (k - 1) * stride \in Nat /\ (k - 1 < last => (k - 1) * stride + window < total)
    BY <1>3, <2>1
  <2>3. k > 1 => /\ ((k - 1) - 1) * stride \in Nat
                 /\ ((k - 1) - 1) * stride + window < total
                 /\ ((k - 1) - 1) * stride = (k - 1) * stride - stride
    <3>1. k > 1 => /\ ((k - 1) - 1) * stride \in Nat
                   /\ ((k - 1) - 1) * stride + window < total
      BY <1>3, <2>1
    <3>2. ((k - 1) - 1) * stride = (k - 1) * stride - stride
      BY <1>1, <2>1, SMT
    <3> QED BY <3>1, <3>2
  <2>4. CASE k <= last
    <3>1. /\ Start(k) = (k - 1) * stride /\ End(k) = (k - 1) * stride + window
      BY <2>4
    <3>2. k > 1 => Start(k - 1) = ((k - 1) - 1) * stride
      BY <2>1, <2>4
    <3>3. results[k] = Batch!Window(Start(k), End(k))
      BY <2>4
    <3> HIDE DEF Start, End, results
    <3> QED BY <1>1, <2>1, <2>2, <2>3, <2>4, <3>1, <3>2, <3>3
  <2>5. CASE ~ (k <= last)
    <3>1. Start(k) = from0 /\ End(k) = total
      BY <2>5
    <3>2. k > 1 => Start(k - 1) = ((k - 1) - 1) * stride
      BY <2>1
    <3>3. results[k] = Batch!Window(Start(k), End(k))
      BY <2>5
    <3> HIDE DEF Start, End, results
    <3> QED BY <1>7, <2>1, <2>2, <2>3, <2>5, <3>1, <3>2, <3>3
  <2> QED BY <2>4, <2>5
<1>9. planned = Batch!Ok(values)
  <2>1. \A k \in 1..(last + 1) :
          results[k] = Batch!Ok([start |-> Start(k), end |-> End(k)])
    <3> TAKE k \in 1..(last + 1)
    <3> HIDE DEF Start, End, results
    <3>1. /\ Start(k) \in Nat /\ End(k) \in Nat /\ Start(k) <= End(k)
          /\ results[k] = Batch!Window(Start(k), End(k))
      BY <1>8
    <3>2. ~ (Start(k) < 0 \/ End(k) < Start(k))
      BY <3>1
    <3> QED BY <3>1, <3>2, Zenon DEF Batch!Window
  <2>2. DOMAIN results = 1..(last + 1)
    OBVIOUS
  <2> HIDE DEF results, Start, End
  <2>3. \A k \in 1..(last + 1) :
          results[k].ok /\ results[k].value = [start |-> Start(k), end |-> End(k)]
    <3> TAKE k \in 1..(last + 1)
    <3> DEFINE w == [start |-> Start(k), end |-> End(k)]
    <3>1. results[k] = Batch!Ok(w)
      BY <2>1
    <3> HIDE DEF w
    <3>2. results[k].ok /\ results[k].value = w
      BY <3>1 DEF Batch!Ok
    <3> QED BY <3>2 DEF w
  <2>4. {i \in DOMAIN results : ~results[i].ok} = {}
    BY <2>2, <2>3
  <2>5. Batch!Collected(results) = Batch!Ok([i \in DOMAIN results |-> results[i].value])
    BY <2>4 DEF Batch!Collected
  <2>6. [i \in DOMAIN results |-> results[i].value] = values
    BY <2>2, <2>3
  <2> QED BY <1>2, <2>5, <2>6
<1> HIDE DEF results, Start, End
<1>10. /\ planned.ok /\ DOMAIN planned.value = 1..(last + 1)
       /\ \A k \in 1..(last + 1) : planned.value[k].start = Start(k) /\ planned.value[k].end = End(k)
  BY <1>9 DEF Batch!Ok
<1>11. ASSUME NEW from \in 0..total, NEW to \in 0..total, from <= to, to - from <= overlap
       PROVE  \E k \in 1..(last + 1) : Start(k) <= from /\ to <= End(k)
  <2> DEFINE m == from \div stride
             l == from % stride
  <2>1. m \in Nat /\ l \in 0..(stride - 1) /\ from = m * stride + l
    <3>1. from \in Nat
      OBVIOUS
    <3> QED BY <1>1, <3>1, Quotient, Zenon
  <2> HIDE DEF m, l
  <2>2. m * stride \in Nat
    BY <1>3, <2>1
  <2>3. CASE m < last
    <3>1. m + 1 \in 1..(last + 1) /\ m + 1 <= last /\ (m + 1) - 1 = m
      BY <1>3, <2>1, <2>3
    <3>2. Start(m + 1) = m * stride /\ End(m + 1) = m * stride + window
      BY <3>1 DEF Start, End
    <3>3. Start(m + 1) <= from /\ to <= End(m + 1)
      <4> DEFINE a == m * stride
      <4>1. a \in Nat /\ from = a + l /\ Start(m + 1) = a /\ End(m + 1) = a + window
        BY <2>1, <2>2, <3>2
      <4> HIDE DEF a, Start, End
      <4>2. l \in Nat /\ l <= stride - 1
        BY <1>1, <2>1
      <4>3. a <= from /\ to <= a + window
        BY <1>1, <1>11, <4>1, <4>2
      <4> QED BY <4>1, <4>3
    <3> QED BY <3>1, <3>3
  <2>4. CASE ~ (m < last)
    <3>1. last * stride <= m * stride
      BY <1>1, <1>3, <2>1, <2>4, TimesGrows
    <3>2. last + 1 \in 1..(last + 1) /\ Start(last + 1) = from0 /\ End(last + 1) = total
      BY <1>3 DEF Start, End
    <3>3. Start(last + 1) <= from /\ to <= End(last + 1)
      BY <1>3, <1>7, <2>1, <2>2, <3>1, <3>2
    <3> QED BY <3>2, <3>3
  <2> QED BY <2>3, <2>4
<1>12. \A k \in 1..(last + 1) :
         /\ Start(k) \in Nat /\ Start(k) <= End(k) /\ End(k) <= total
         /\ End(k) - Start(k) <= window
         /\ k > 1 => k - 1 \in 1..(last + 1) /\ Start(k - 1) < Start(k)
  BY <1>8
<1>13. \A k \in 1..(last + 1) :
         LET w == planned.value
         IN  /\ w[k].start \in Nat /\ w[k].start <= w[k].end
             /\ w[k].end <= total
             /\ w[k].end - w[k].start <= window
             /\ k > 1 => w[k - 1].start < w[k].start
  BY <1>10, <1>12
<1>14. \A from \in 0..total, to \in 0..total :
         from <= to /\ to - from <= overlap =>
           \E k \in 1..(last + 1) :
             planned.value[k].start <= from /\ to <= planned.value[k].end
  <2> TAKE from \in 0..total, to \in 0..total
  <2> HAVE from <= to /\ to - from <= overlap
  <2>1. PICK k \in 1..(last + 1) : Start(k) <= from /\ to <= End(k)
    BY <1>11
  <2> QED BY <1>10, <2>1
<1> QED BY <1>10, <1>13, <1>14, Zenon DEF planned

=============================================================================
