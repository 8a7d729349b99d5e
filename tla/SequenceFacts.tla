---------------------------- MODULE SequenceFacts ----------------------------
(***************************************************************************)
(* What appending, taking the tail and concatenating do to the elements of *)
(* a sequence and to its being free of repetitions, for the lists and      *)
(* queues of the other modules.                                            *)
(***************************************************************************)
EXTENDS Naturals, Sequences, FiniteSets, Functions, FiniteSetTheorems,
        SequenceTheorems, TLAPS

\* Appending adds one element, at the end.
LEMMA AppendFacts ==
    ASSUME NEW S, NEW s \in Seq(S), NEW a \in S
    PROVE  /\ Append(s, a) \in Seq(S)
           /\ Range(Append(s, a)) = Range(s) \cup {a}
           /\ IsInjective(s) /\ a \notin Range(s) => IsInjective(Append(s, a))
<1> DEFINE w == Append(s, a)
<1>1. /\ w \in Seq(S) /\ Len(w) = Len(s) + 1 /\ w[Len(s) + 1] = a
      /\ \A i \in 1..Len(s) : w[i] = s[i]
  BY AppendProperties
<1>2. /\ Len(s) \in Nat /\ DOMAIN s = 1..Len(s) /\ DOMAIN w = 1..(Len(s) + 1)
  BY <1>1, LenProperties
<1> HIDE DEF w
<1>3. Range(w) \subseteq Range(s) \cup {a}
  BY <1>1, <1>2 DEF Range
<1>4. Range(s) \cup {a} \subseteq Range(w)
  <2>1. a \in Range(w)
    <3>1. Len(s) + 1 \in DOMAIN w
      BY <1>2
    <3> QED BY <1>1, <3>1 DEF Range
  <2>2. Range(s) \subseteq Range(w)
    <3>1. \A i \in DOMAIN s : i \in DOMAIN w /\ w[i] = s[i]
      BY <1>1, <1>2
    <3> QED BY <3>1 DEF Range
  <2> QED BY <2>1, <2>2
<1>5. ASSUME IsInjective(s), a \notin Range(s) PROVE IsInjective(w)
  BY <1>1, <1>2, <1>5 DEF IsInjective, Range
<1>6. Range(w) = Range(s) \cup {a}
  BY <1>3, <1>4
<1> QED BY <1>1, <1>5, <1>6 DEF w

\* A list is its head and its tail.
LEMMA TailFacts ==
    ASSUME NEW S, NEW s \in Seq(S), s # <<>>
    PROVE  /\ Head(s) \in S /\ Tail(s) \in Seq(S)
           /\ Range(s) = Range(Tail(s)) \cup {Head(s)}
           /\ IsInjective(s) => IsInjective(Tail(s)) /\ Head(s) \notin Range(Tail(s))
<1>1. /\ Head(s) \in S /\ Tail(s) \in Seq(S) /\ Len(Tail(s)) = Len(s) - 1
      /\ \A i \in 1..Len(Tail(s)) : Tail(s)[i] = s[i + 1]
  BY HeadTailProperties
<1>2. /\ Len(s) \in Nat \ {0} /\ DOMAIN s = 1..Len(s) /\ Head(s) = s[1]
      /\ DOMAIN Tail(s) = 1..(Len(s) - 1)
  BY <1>1, LenProperties, EmptySeq
<1>3. Range(Tail(s)) \subseteq Range(s) /\ Head(s) \in Range(s)
  BY <1>1, <1>2 DEF Range
<1>4. Range(s) \subseteq Range(Tail(s)) \cup {Head(s)}
  <2> SUFFICES ASSUME NEW i \in DOMAIN s, i # 1 PROVE s[i] \in Range(Tail(s))
    BY <1>2 DEF Range
  <2>1. i - 1 \in DOMAIN Tail(s) /\ Tail(s)[i - 1] = s[i]
    BY <1>1, <1>2
  <2> QED BY <2>1 DEF Range
<1>5. ASSUME IsInjective(s)
      PROVE  IsInjective(Tail(s)) /\ Head(s) \notin Range(Tail(s))
  BY <1>1, <1>2, <1>5 DEF IsInjective, Range
<1> QED BY <1>1, <1>3, <1>4, <1>5

\* The elements are at most as many as the positions.
LEMMA RangeIsSmall ==
    ASSUME NEW S, NEW s \in Seq(S)
    PROVE  IsFiniteSet(Range(s)) /\ Cardinality(Range(s)) <= Len(s)
<1>1. Len(s) \in Nat /\ DOMAIN s = 1..Len(s)
  BY LenProperties
<1>2. s \in [1..Len(s) -> Range(s)]
  BY <1>1, LenProperties DEF Range
<1>3. s \in Surjection(1..Len(s), Range(s))
  BY <1>1, <1>2 DEF Surjection, Range
<1>4. ExistsSurjection(1..Len(s), Range(s))
  BY <1>3 DEF ExistsSurjection
<1> QED BY <1>1, <1>3, <1>4, FS_SurjCardinalityBound, FS_NatSurjection

\* A concatenation has the elements of both parts.
LEMMA ConcatFacts ==
    ASSUME NEW S, NEW s \in Seq(S), NEW r \in Seq(S)
    PROVE  /\ s \o r \in Seq(S)
           /\ Range(s \o r) = Range(s) \cup Range(r)
           /\ IsInjective(s) /\ IsInjective(r) /\ Range(s) \cap Range(r) = {}
                 => IsInjective(s \o r)
<1> DEFINE w == s \o r
<1>1. /\ w \in Seq(S) /\ Len(w) = Len(s) + Len(r)
      /\ \A i \in 1..(Len(s) + Len(r)) :
            w[i] = IF i <= Len(s) THEN s[i] ELSE r[i - Len(s)]
  BY ConcatProperties
<1>2. /\ Len(s) \in Nat /\ Len(r) \in Nat /\ DOMAIN s = 1..Len(s)
      /\ DOMAIN r = 1..Len(r) /\ DOMAIN w = 1..(Len(s) + Len(r))
  BY <1>1, LenProperties
<1> HIDE DEF w
<1>3. \A i \in DOMAIN w : \/ i \in DOMAIN s /\ w[i] = s[i]
                          \/ i - Len(s) \in DOMAIN r /\ w[i] = r[i - Len(s)]
  BY <1>1, <1>2
<1>4. \A i \in DOMAIN s : i \in DOMAIN w /\ w[i] = s[i]
  BY <1>1, <1>2
<1>5. \A i \in DOMAIN r : i + Len(s) \in DOMAIN w /\ w[i + Len(s)] = r[i]
  BY <1>1, <1>2
<1>6. Range(w) = Range(s) \cup Range(r)
  <2>1. Range(w) \subseteq Range(s) \cup Range(r)
    BY <1>3 DEF Range
  <2>2. Range(s) \subseteq Range(w)
    BY <1>4 DEF Range
  <2>3. Range(r) \subseteq Range(w)
    BY <1>5 DEF Range
  <2> QED BY <2>1, <2>2, <2>3
<1>7. ASSUME IsInjective(s), IsInjective(r), Range(s) \cap Range(r) = {}
      PROVE  IsInjective(w)
  <2> SUFFICES ASSUME NEW i \in DOMAIN w, NEW j \in DOMAIN w, w[i] = w[j] PROVE i = j
    BY DEF IsInjective
  <2>1. \A k \in DOMAIN s, l \in DOMAIN r : s[k] # r[l]
    BY <1>7 DEF Range
  <2>2. i \in Nat /\ j \in Nat
    BY <1>2
  <2> QED BY <1>2, <1>3, <1>7, <2>1, <2>2 DEF IsInjective
<1> QED BY <1>1, <1>6, <1>7 DEF w

\* In a list without repetitions an element has at most one position.
LEMMA PositionsOf ==
    ASSUME NEW S, NEW s \in Seq(S), IsInjective(s), NEW a
    PROVE  Cardinality({i \in DOMAIN s : s[i] = a}) = IF a \in Range(s) THEN 1 ELSE 0
<1>1. CASE a \in Range(s)
  <2>1. PICK k \in DOMAIN s : s[k] = a
    BY <1>1 DEF Range
  <2>2. {i \in DOMAIN s : s[i] = a} = {k}
    BY <2>1 DEF IsInjective
  <2> QED BY <1>1, <2>2, FS_Singleton
<1>2. CASE a \notin Range(s)
  <2>1. {i \in DOMAIN s : s[i] = a} = {}
    BY <1>2 DEF Range
  <2> QED BY <1>2, <2>1, FS_EmptySet
<1> QED BY <1>1, <1>2

\* A list without repetitions is no longer than what it is drawn from.
LEMMA InjectiveIsShort ==
    ASSUME NEW S, IsFiniteSet(S), NEW s \in Seq(S), IsInjective(s)
    PROVE  Len(s) <= Cardinality(S)
<1>1. Len(s) \in Nat /\ DOMAIN s = 1..Len(s) /\ s \in [1..Len(s) -> S]
  BY LenProperties
<1>2. s \in Injection(1..Len(s), S)
  BY <1>1 DEF Injection, IsInjective
<1>3. Cardinality(1..Len(s)) <= Cardinality(S)
  BY <1>2, FS_Injection
<1>4. Cardinality(1..Len(s)) = Len(s)
  BY <1>1, FS_Interval
<1> QED BY <1>3, <1>4
==============================================================================
