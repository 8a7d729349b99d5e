--------------------------- MODULE ResidencyProofs ---------------------------
(***************************************************************************)
(* Proofs about Residency, for every finite set of agents and callers,     *)
(* every capacity and every budget.  The counters are tied to the guards   *)
(* the callers hold, what a caller holds to where it is, the registry's    *)
(* entries to the spawns that reserved them, and the agents in memory to   *)
(* the list, the victims in hand, the slots and the agents astray.         *)
(***************************************************************************)
EXTENDS Residency, SequenceFacts, FiniteSetTheorems, SequenceTheorems, TLAPS

-----------------------------------------------------------------------------
(* The list of residents.                                                  *)

\* retain removes the id and nothing else, and keeps ids apart.
LEMMA WithoutFacts ==
    ASSUME NEW S, NEW s \in Seq(S), NEW a
    PROVE  /\ Without(s, a) \in Seq(S)
           /\ Range(Without(s, a)) \subseteq Range(s)
           /\ Range(s) \ {a} \subseteq Range(Without(s, a))
           /\ IsInjective(s) => /\ IsInjective(Without(s, a))
                                /\ a \notin Range(Without(s, a))
<1>1. CASE a \notin Range(s)
  BY <1>1 DEF Without
<1>2. CASE a \in Range(s)
  <2> DEFINE i == CHOOSE j \in DOMAIN s : s[j] = a
             w == [j \in 1..(Len(s) - 1) |-> IF j < i THEN s[j] ELSE s[j + 1]]
  <2>1. i \in DOMAIN s /\ s[i] = a
    BY <1>2 DEF Range
  <2>2. Without(s, a) = w
    BY <1>2 DEF Without
  <2>3. Len(s) \in Nat \ {0} /\ DOMAIN s = 1..Len(s) /\ i \in 1..Len(s)
    BY <2>1, LenProperties
  <2> HIDE DEF i
  <2>4. \A j \in 1..(Len(s) - 1) : w[j] \in S
    BY <2>3, ElementOfSeq
  <2>5. w \in Seq(S)
    BY <2>3, <2>4
  <2>6. DOMAIN w = 1..(Len(s) - 1)
    OBVIOUS
  <2>7. Range(w) \subseteq Range(s)
    BY <2>3, <2>6 DEF Range
  <2>8. ASSUME NEW k \in DOMAIN s, s[k] # a PROVE s[k] \in Range(w)
    <3>1. CASE k < i
      <4>1. k \in DOMAIN w /\ w[k] = s[k]
        BY <2>3, <2>6, <2>8, <3>1
      <4> QED BY <4>1 DEF Range
    <3>2. CASE k > i
      <4>1. k - 1 \in DOMAIN w /\ w[k - 1] = s[k]
        BY <2>3, <2>6, <2>8, <3>2
      <4> QED BY <4>1 DEF Range
    <3> QED BY <2>1, <2>3, <2>8, <3>1, <3>2
  <2>9. Range(s) \ {a} \subseteq Range(w)
    BY <2>8 DEF Range
  <2>10. ASSUME IsInjective(s) PROVE IsInjective(w) /\ a \notin Range(w)
    BY <2>1, <2>3, <2>6, <2>10 DEF IsInjective, Range
  <2> HIDE DEF w
  <2> QED BY <2>2, <2>5, <2>7, <2>9, <2>10
<1> QED BY <1>1, <1>2

\* A touched id is in the list once, as the youngest.
LEMMA TouchFacts ==
    ASSUME NEW S, NEW s \in Seq(S), NEW a \in S
    PROVE  /\ Touch(s, a) \in Seq(S)
           /\ Range(Touch(s, a)) = Range(s) \cup {a}
           /\ IsInjective(s) => IsInjective(Touch(s, a))
<1>1. /\ Without(s, a) \in Seq(S) /\ Range(Without(s, a)) \subseteq Range(s)
      /\ Range(s) \ {a} \subseteq Range(Without(s, a))
      /\ IsInjective(s) => /\ IsInjective(Without(s, a))
                           /\ a \notin Range(Without(s, a))
  BY WithoutFacts
<1> QED BY <1>1, AppendFacts DEF Touch

-----------------------------------------------------------------------------
(* The invariant.                                                          *)

\* A thread has been made for the slot and is not committed yet.
Holding(k) == k.pc \in {"record", "commit"} /\ k.op # "resume"

\* What a caller holds is decided by where it is: the slot, the reservation
\* and its path, the agent it is about, and the victim in its hand.
InControl(k) ==
    /\ k.slot <=> /\ k.pc \in {"register", "check", "create", "record", "commit",
                               "unwind", "lost"}
                  /\ k.op # "resume"
    /\ k.reservation <=>
          k.pc = "unwind" \/ (k.op = "spawn" /\ k.pc \in {"create", "record", "commit"})
    /\ k.path => k.reservation
    /\ k.op = "spawn" /\ k.pc \in {"create", "record", "commit"} => k.path
    /\ k.pc \in {"register", "unwind"} => k.op = "spawn"
    /\ k.pc \in {"look", "lost"} => k.op = "message"
    /\ k.pc = "check" => k.op \in {"message", "resume"}
    /\ k.pc \in {"reserve", "pop", "inspect", "shutdown", "remove"} =>
          k.op \in {"spawn", "message"}
    /\ k.op = "resume" => k.pc \in {"idle", "check", "create", "record"}
    /\ k.pc # "idle" => k.agent \in Agent
    /\ k.victim \in Agent <=> k.pc \in {"inspect", "shutdown", "remove"}

Control == \A c \in Caller : InControl(call[c])

Owned == {p \in Path : owner[p] # NoAgent}

PathHeld(c) == PathOf[call[c].agent]

\* As long as no entry of an unfinished spawn was overwritten, a reserved path
\* belongs to one caller, its entry is that caller's, and the count is exact.
Registry ==
    ~clashed =>
        /\ \A c \in Caller : call[c].path =>
              IF call[c].pc = "commit" THEN owner[PathHeld(c)] = call[c].agent
              ELSE owner[PathHeld(c)] = NoAgent /\ PathHeld(c) \in reserved
        /\ \A c, d \in Caller :
              call[c].path /\ call[d].path /\ PathHeld(c) = PathHeld(d) => c = d
        /\ \A p \in reserved : \E c \in Caller : call[c].path /\ PathHeld(c) = p
        /\ total = Cardinality(Owned) + Cardinality(Outstanding)

SlotHolders == {c \in Caller : call[c].slot}
SlotsAreCounted == pending = Cardinality(SlotHolders)
Waiting == {c \in Caller : call[c].slot /\ ~Holding(call[c])}

\* A caller has the agent in its hands: as a victim, or about to be committed.
Carries(k, a) == k.victim = a \/ (Holding(k) /\ k.agent = a)

\* The agents that are, or are about to be, in the list, and never were astray.
Open == {a \in Agent \ stray : a \in Tracked}

\* Open agents and the slots still to be filled stay below the limit plus the
\* callers that can have a victim in their hands while another one reserves.
OpenIsBounded ==
    Cardinality(Open) + Cardinality(Waiting) <= Capacity + Cardinality(Caller) - 1

Inv ==
    /\ TypeOK /\ Control /\ Registry /\ SlotsAreCounted
    /\ IsInjective(residents)
    /\ LoadedIsTracked /\ OpenIsBounded

-----------------------------------------------------------------------------
(* Sets of callers and agents, before and after a caller moves.            *)

USE ResidencyAssumption

LEMMA AllAreFinite ==
    /\ \A S \in SUBSET Caller : IsFiniteSet(S) /\ Cardinality(S) \in Nat
    /\ \A S \in SUBSET Agent : IsFiniteSet(S) /\ Cardinality(S) \in Nat
    /\ \A S \in SUBSET Path : IsFiniteSet(S) /\ Cardinality(S) \in Nat
BY FS_Subset, FS_CardinalityType

LEMMA CountOne ==
    ASSUME NEW S, IsFiniteSet(S), NEW x
    PROVE  /\ Cardinality(S) \in Nat
           /\ x \notin S => Cardinality(S \cup {x}) = Cardinality(S) + 1
           /\ x \in S => Cardinality(S) > 0 /\ Cardinality(S \ {x}) = Cardinality(S) - 1
<1>1. Cardinality(S) \in Nat
  BY FS_CardinalityType
<1>2. ASSUME x \in S PROVE Cardinality(S) > 0 /\ Cardinality(S \ {x}) = Cardinality(S) - 1
  BY <1>1, <1>2, FS_RemoveElement, FS_EmptySet
<1> QED BY <1>1, <1>2, FS_AddElement

\* A union has at most as many elements as its parts together.
LEMMA UnionIsSmall ==
    ASSUME NEW S, IsFiniteSet(S), NEW T, IsFiniteSet(T)
    PROVE  /\ IsFiniteSet(S \cup T)
           /\ Cardinality(S \cup T) <= Cardinality(S) + Cardinality(T)
           /\ S \cap T = {} => Cardinality(S \cup T) = Cardinality(S) + Cardinality(T)
<1>1. /\ IsFiniteSet(S \cup T) /\ IsFiniteSet(S \cap T)
      /\ Cardinality(S \cup T) = Cardinality(S) + Cardinality(T) - Cardinality(S \cap T)
  BY FS_Union, FS_Intersection
<1>2. /\ Cardinality(S \cap T) \in Nat /\ Cardinality(S) \in Nat
      /\ Cardinality(T) \in Nat
  BY <1>1, FS_CardinalityType
<1>3. S \cap T = {} => Cardinality(S \cap T) = 0
  BY FS_EmptySet
<1> QED BY <1>1, <1>2, <1>3

\* A set of agents each of which is some caller's is no larger than the set
\* of those callers.
LEMMA ImageIsSmall ==
    ASSUME NEW S, IsFiniteSet(S), NEW f, DOMAIN f = S
    PROVE  IsFiniteSet({f[x] : x \in S}) /\ Cardinality({f[x] : x \in S}) <= Cardinality(S)
<1> DEFINE T == {f[x] : x \in S}
           g == [x \in S |-> f[x]]
<1>1. g \in Surjection(S, T)
  BY DEF Surjection
<1> HIDE DEF T, g
<1>2. IsFiniteSet(T) /\ Cardinality(T) <= Cardinality(S)
  BY <1>1, FS_Surjection
<1> QED BY <1>2 DEF T

LEMMA CallAfter ==
    ASSUME TypeOK, NEW c \in Caller, NEW k \in CallState, Becomes(c, k)
    PROVE  call'[c] = k /\ \A d \in Caller : d # c => call'[d] = call[d]
BY DEF TypeOK, Becomes

LEMMA HoldersAfter ==
    ASSUME TypeOK, NEW c \in Caller, NEW k \in CallState, Becomes(c, k)
    PROVE  /\ SlotHolders' = IF k.slot THEN SlotHolders \cup {c} ELSE SlotHolders \ {c}
           /\ Outstanding' = IF k.reservation /\ k.pc # "commit"
                             THEN Outstanding \cup {c} ELSE Outstanding \ {c}
           /\ Waiting' = IF k.slot /\ ~Holding(k) THEN Waiting \cup {c}
                         ELSE Waiting \ {c}
BY CallAfter DEF SlotHolders, Outstanding, Waiting, Holding

LEMMA TrackedIff ==
    /\ \A a \in Agent : a \in Tracked <=>
          a \in Range(residents) \/ \E d \in Caller : Carries(call[d], a)
    /\ \A a \in Agent : a \in Tracked' <=>
          a \in Range(residents') \/ \E d \in Caller : Carries(call'[d], a)
BY DEF Tracked, Carries, Holding

\* What is tracked after a move, in terms of what the mover carried before.
LEMMA TrackedAfter ==
    ASSUME TypeOK, NEW c \in Caller, NEW k \in CallState, Becomes(c, k), NEW a \in Agent
    PROVE  /\ a \in Tracked' => \/ a \in Range(residents') \/ Carries(k, a)
                                \/ a \in Tracked
           /\ a \in Tracked => \/ a \in Range(residents) \/ Carries(call[c], a)
                               \/ a \in Tracked'
           /\ a \in Range(residents') \/ Carries(k, a) => a \in Tracked'
           /\ a \in Range(residents) \/ Carries(call[c], a) => a \in Tracked
BY CallAfter, TrackedIff

\* Only the agent that loses its place can go astray, and it does if it is left
\* in memory.
LEMMA StraysFacts ==
    ASSUME TypeOK, NEW a \in Agent, Strays(a)
    PROVE  /\ stray' \subseteq Agent
           /\ \A b \in Agent : b # a \/ b \in Tracked' => (b \in stray' <=> b \in stray)
           /\ a \notin Tracked' /\ map'[a] # 0 => a \in stray'
BY DEF TypeOK, Strays

-----------------------------------------------------------------------------
(* The registry and its count.                                             *)

\* What the registry says of a caller is the same before and after a move.
SameReservation(j, k) ==
    /\ k.path = j.path
    /\ k.path => k.agent = j.agent /\ (k.pc = "commit" <=> j.pc = "commit")
    /\ (k.reservation /\ k.pc # "commit") <=> (j.reservation /\ j.pc # "commit")

LEMMA RegistryKept ==
    ASSUME Inv, NEW c \in Caller, NEW k \in CallState, Becomes(c, k),
           SameReservation(call[c], k), UNCHANGED registryVars
    PROVE  Registry'
<1>1. call'[c] = k /\ \A d \in Caller : d # c => call'[d] = call[d]
  BY CallAfter DEF Inv
<1>2. \A d \in Caller : SameReservation(call[d], call'[d])
  BY <1>1 DEF SameReservation
<1>3. UNCHANGED <<owner, reserved, total, clashed>>
  BY DEF registryVars
<1>4. Outstanding' = Outstanding /\ Owned' = Owned
  BY <1>2, <1>3 DEF Outstanding, Owned, SameReservation
<1> QED BY <1>2, <1>3, <1>4 DEF Inv, Registry, PathHeld, SameReservation

LEMMA RegistrySets ==
    /\ IsFiniteSet(Owned) /\ IsFiniteSet(Outstanding)
    /\ Cardinality(Owned) \in Nat /\ Cardinality(Outstanding) \in Nat
    /\ Cardinality(Owned') \in Nat /\ Cardinality(Outstanding') \in Nat
    /\ Cardinality(Owned') + Cardinality(Outstanding') <= UsizeMax
<1>1. /\ Owned \in SUBSET Path /\ Outstanding \in SUBSET Caller
      /\ Owned' \in SUBSET Path /\ Outstanding' \in SUBSET Caller
  BY DEF Owned, Outstanding
<1>2. /\ Cardinality(Owned') <= Cardinality(Path)
      /\ Cardinality(Outstanding') <= Cardinality(Caller)
  BY <1>1, FS_Subset
<1>3. Cardinality(Path) \in Nat /\ Cardinality(Caller) \in Nat
  BY FS_CardinalityType
<1>4. /\ IsFiniteSet(Owned) /\ IsFiniteSet(Outstanding)
      /\ Cardinality(Owned) \in Nat /\ Cardinality(Outstanding) \in Nat
      /\ Cardinality(Owned') \in Nat /\ Cardinality(Outstanding') \in Nat
  BY <1>1, AllAreFinite
<1> QED BY <1>2, <1>3, <1>4

\* The caller that holds a path is the only one whose place the entry tells.
LEMMA HolderFacts ==
    ASSUME Inv, NEW c \in Caller
    PROVE  /\ call[c] \in CallState /\ InControl(call[c])
           /\ call[c].pc # "idle" => call[c].agent \in Agent /\ PathHeld(c) \in Path
           /\ call[c].path => call[c].reservation /\ call[c].pc # "idle"
<1>1. call[c] \in CallState /\ InControl(call[c])
  BY DEF Inv, TypeOK, Control
<1>2. call[c].pc # "idle" => call[c].agent \in Agent
  BY <1>1 DEF InControl
<1>3. call[c].path => call[c].reservation /\ call[c].pc # "idle"
  BY <1>1 DEF InControl
<1> QED BY <1>1, <1>2, <1>3 DEF PathHeld

LEMMA RegisterRegistry ==
    ASSUME Inv, NEW c \in Caller, Register(c)
    PROVE  Registry'
<1> SUFFICES ASSUME ~clashed PROVE Registry'
  BY DEF Register, Registry
<1> DEFINE p == PathHeld(c)
           k == [call[c] EXCEPT !.pc = "create", !.reservation = TRUE, !.path = TRUE]
           l == [call[c] EXCEPT !.pc = "unwind", !.reservation = TRUE]
<1>1. /\ call[c].pc = "register" /\ total' = Increment(total) /\ UNCHANGED owner
      /\ \/ /\ owner[p] = NoAgent /\ p \notin reserved
            /\ reserved' = reserved \cup {p} /\ Becomes(c, k)
         \/ UNCHANGED reserved /\ Becomes(c, l)
  BY DEF Register, PathHeld
<1>2. call[c] \in CallState /\ InControl(call[c]) /\ p \in Path /\ call[c].agent \in Agent
  BY <1>1, HolderFacts
<1>3. ~call[c].reservation /\ ~call[c].path
  BY <1>1, <1>2 DEF InControl
<1>4. /\ k \in CallState /\ k.path /\ k.reservation /\ k.pc = "create"
      /\ k.agent = call[c].agent
      /\ l \in CallState /\ ~l.path /\ l.reservation /\ l.pc = "unwind"
      /\ l.agent = call[c].agent
  BY <1>2, <1>3 DEF CallState
<1>5. Becomes(c, k) \/ Becomes(c, l)
  BY <1>1
<1> HIDE DEF k, l
<1>6. total' = Cardinality(Owned') + Cardinality(Outstanding')
  <2>1. Outstanding' = Outstanding \cup {c} /\ c \notin Outstanding
    BY <1>3, <1>4, <1>5, HoldersAfter DEF Inv, Outstanding
  <2>2. Owned' = Owned
    BY <1>1 DEF Owned
  <2>3. Cardinality(Outstanding') = Cardinality(Outstanding) + 1
    BY <2>1, RegistrySets, CountOne
  <2>4. total = Cardinality(Owned) + Cardinality(Outstanding)
    BY DEF Inv, Registry
  <2> QED BY <1>1, <2>2, <2>3, <2>4, RegistrySets DEF Increment
<1>7. \A d \in Caller : d # c => call'[d] = call[d]
  BY <1>4, <1>5, CallAfter DEF Inv
<1>8. CASE UNCHANGED reserved /\ Becomes(c, l)
  <2>1. call'[c] = l
    BY <1>4, <1>8, CallAfter DEF Inv
  <2> QED BY <1>1, <1>3, <1>4, <1>6, <1>7, <1>8, <2>1 DEF Inv, Registry, PathHeld
<1>9. CASE /\ owner[p] = NoAgent /\ p \notin reserved
           /\ reserved' = reserved \cup {p} /\ Becomes(c, k)
  <2>1. call'[c] = k
    BY <1>4, <1>9, CallAfter DEF Inv
  <2>2. ASSUME NEW d \in Caller, call[d].path PROVE PathHeld(d) # p
    <3>1. CASE call[d].pc = "commit"
      <4>1. owner[PathHeld(d)] = call[d].agent /\ call[d].agent \in Agent
        BY <2>2, <3>1, HolderFacts DEF Inv, Registry
      <4> QED BY <1>9, <4>1
    <3>2. CASE call[d].pc # "commit"
      <4>1. PathHeld(d) \in reserved
        BY <2>2, <3>2 DEF Inv, Registry
      <4> QED BY <1>9, <4>1
    <3> QED BY <3>1, <3>2
  <2>3. (PathHeld(c))' = p /\ \A d \in Caller : d # c => (PathHeld(d))' = PathHeld(d)
    BY <1>4, <1>7, <2>1 DEF PathHeld
  <2>4. \A d \in Caller : (call[d].path)' =>
            IF (call[d].pc)' = "commit" THEN owner'[(PathHeld(d))'] = (call[d].agent)'
            ELSE owner'[(PathHeld(d))'] = NoAgent /\ (PathHeld(d))' \in reserved'
    BY <1>1, <1>4, <1>7, <1>9, <2>1, <2>3 DEF Inv, Registry
  <2>5. \A d, e \in Caller :
            (call[d].path)' /\ (call[e].path)' /\ (PathHeld(d))' = (PathHeld(e))' => d = e
    BY <1>7, <2>2, <2>3 DEF Inv, Registry
  <2>6. \A q \in reserved' : \E d \in Caller : (call[d].path)' /\ (PathHeld(d))' = q
    <3> TAKE q \in reserved'
    <3>1. CASE q = p
      BY <1>4, <2>1, <2>3, <3>1
    <3>2. CASE q # p
      <4>1. PICK d \in Caller : call[d].path /\ PathHeld(d) = q
        BY <1>9, <3>2 DEF Inv, Registry
      <4>2. d # c
        BY <1>3, <4>1
      <4> QED BY <1>7, <2>3, <4>1, <4>2
    <3> QED BY <3>1, <3>2
  <2> QED BY <1>6, <2>4, <2>5, <2>6 DEF Registry
<1> QED BY <1>1, <1>8, <1>9

\* A caller gives its reservation up: its own path, if it has one, becomes free.
LEMMA ReservationDropped ==
    ASSUME Inv, NEW c \in Caller, ReleasePath(call[c]), Becomes(c, Done),
           UNCHANGED <<owner, clashed>>, call[c].pc # "commit" \/ ~call[c].reservation,
           total' = IF call[c].reservation THEN Decrement(total) ELSE total
    PROVE  Registry'
<1> SUFFICES ASSUME ~clashed PROVE Registry'
  BY DEF Registry
<1>1. Done \in CallState /\ ~Done.reservation /\ ~Done.path
  BY DEF Done, CallState, Operation
<1>2. call'[c] = Done /\ \A d \in Caller : d # c => call'[d] = call[d]
  BY <1>1, CallAfter DEF Inv
<1>3. total' = Cardinality(Owned') + Cardinality(Outstanding')
  <2>1. Outstanding' = Outstanding \ {c} /\ (c \in Outstanding <=> call[c].reservation)
    BY <1>1, HoldersAfter DEF Inv, Outstanding
  <2>2. Owned' = Owned
    BY DEF Owned
  <2>3. total = Cardinality(Owned) + Cardinality(Outstanding)
    BY DEF Inv, Registry
  <2>4. CASE call[c].reservation
    <3>1. /\ Cardinality(Outstanding) > 0
          /\ Cardinality(Outstanding') = Cardinality(Outstanding) - 1
      BY <2>1, <2>4, RegistrySets, CountOne
    <3> QED BY <2>2, <2>3, <2>4, <3>1, RegistrySets DEF Decrement
  <2>5. CASE ~call[c].reservation
    <3>1. Outstanding' = Outstanding
      BY <2>1, <2>5
    <3> QED BY <2>2, <2>3, <2>5, <3>1
  <2> QED BY <2>4, <2>5
<1>4. \A d \in Caller : (call[d].path)' => d # c /\ (PathHeld(d))' = PathHeld(d)
  BY <1>1, <1>2 DEF PathHeld
<1>5. /\ reserved' \subseteq reserved
      /\ \A q \in reserved : q \notin reserved' => call[c].path /\ q = PathHeld(c)
      /\ call[c].path => PathHeld(c) \notin reserved'
  BY DEF ReleasePath, PathHeld
<1>6. \A d \in Caller : (call[d].path)' =>
          IF (call[d].pc)' = "commit" THEN owner'[(PathHeld(d))'] = (call[d].agent)'
          ELSE owner'[(PathHeld(d))'] = NoAgent /\ (PathHeld(d))' \in reserved'
  <2> SUFFICES ASSUME NEW d \in Caller, (call[d].path)'
               PROVE  IF (call[d].pc)' = "commit"
                      THEN owner'[(PathHeld(d))'] = (call[d].agent)'
                      ELSE owner'[(PathHeld(d))'] = NoAgent /\ (PathHeld(d))' \in reserved'
    OBVIOUS
  <2>1. d # c /\ call'[d] = call[d] /\ (PathHeld(d))' = PathHeld(d) /\ call[d].path
    BY <1>2, <1>4
  <2>2. call[c].path => PathHeld(d) # PathHeld(c)
    BY <2>1 DEF Inv, Registry
  <2> QED BY <1>5, <2>1, <2>2 DEF Inv, Registry
<1>7. \A d, e \in Caller :
          (call[d].path)' /\ (call[e].path)' /\ (PathHeld(d))' = (PathHeld(e))' => d = e
  BY <1>2, <1>4 DEF Inv, Registry
<1>8. \A q \in reserved' : \E d \in Caller : (call[d].path)' /\ (PathHeld(d))' = q
  <2> TAKE q \in reserved'
  <2>1. PICK d \in Caller : call[d].path /\ PathHeld(d) = q
    BY <1>5 DEF Inv, Registry
  <2>2. d # c
    BY <1>5, <2>1
  <2> QED BY <1>2, <2>1, <2>2 DEF PathHeld
<1> QED BY <1>3, <1>6, <1>7, <1>8 DEF Registry

\* No other caller has reserved the path of the entry that is written.
LEMMA NoClash ==
    ASSUME Inv, NEW c \in Caller, NEW a \in Agent, ~Clashes(c, a), NEW d \in Caller,
           d # c, call[d].path
    PROVE  PathHeld(d) # PathOf[a]
BY DEF Clashes, PathHeld

LEMMA RecordRegistry ==
    ASSUME Inv, NEW c \in Caller, Record(c)
    PROVE  Registry'
<1> DEFINE a == call[c].agent
           p == PathHeld(c)
           vacant == owner[p] = NoAgent /\ p \notin reserved
           k == [call[c] EXCEPT !.pc = "commit"]
<1> SUFFICES ASSUME ~clashed' PROVE Registry'
  BY DEF Registry
<1>1. /\ call[c].pc = "record" /\ ~clashed /\ ~Clashes(c, a)
      /\ owner' = [owner EXCEPT ![p] = a] /\ reserved' = reserved \ {p}
      /\ total' = IF call[c].op # "spawn" /\ vacant THEN Increment(total) ELSE total
      /\ IF call[c].op = "resume" THEN Becomes(c, Done) ELSE Becomes(c, k)
  BY DEF Record, Enter, PathHeld, Return, Goto
<1>2. call[c] \in CallState /\ InControl(call[c]) /\ p \in Path /\ a \in Agent
  BY <1>1, HolderFacts
<1>3. /\ call[c].op = "spawn" <=> call[c].path
      /\ call[c].op = "spawn" <=> call[c].reservation
  BY <1>1, <1>2 DEF InControl
<1>4. PICK j \in CallState : /\ Becomes(c, j) /\ (call[c].op = "spawn" => j.pc = "commit")
                             /\ j.path = call[c].path /\ (j.path => j.agent = a)
                             /\ (j.pc = "commit" \/ ~j.reservation)
  <2>1. CASE call[c].op = "resume"
    <3>1. Done \in CallState /\ ~Done.path /\ ~Done.reservation
      BY DEF Done, CallState, Operation
    <3>2. Done.path = call[c].path
      BY <1>2, <1>3, <2>1 DEF Done, CallState
    <3> HIDE DEF k
    <3> QED BY <1>1, <2>1, <3>1, <3>2
  <2>2. CASE call[c].op # "resume"
    <3>1. k \in CallState /\ k.path = call[c].path /\ k.agent = a /\ k.pc = "commit"
      BY <1>2 DEF CallState
    <3> QED BY <1>1, <2>2, <3>1
  <2> QED BY <2>1, <2>2
<1>5. call'[c] = j /\ \A d \in Caller : d # c => call'[d] = call[d]
  BY <1>4, CallAfter DEF Inv
<1>6. \A d \in Caller : d # c /\ call[d].path => PathHeld(d) # p
  BY <1>1, <1>2, NoClash DEF PathHeld
<1>7. /\ owner'[p] = a /\ a # NoAgent
      /\ \A q \in Path : q # p => owner'[q] = owner[q]
  BY <1>1, <1>2 DEF Inv, TypeOK
<1>8. Owned' = Owned \cup {p} /\ p \in Path
  BY <1>2, <1>7 DEF Owned
<1>9. Outstanding' = Outstanding \ {c} /\ (c \in Outstanding <=> call[c].reservation)
  BY <1>1, <1>4, HoldersAfter DEF Inv, Outstanding
<1>10. total = Cardinality(Owned) + Cardinality(Outstanding) /\ total \in Nat
  BY <1>1 DEF Inv, Registry, TypeOK
<1>11. total' = Cardinality(Owned') + Cardinality(Outstanding')
  <2>1. CASE call[c].op = "spawn"
    <3>1. p \notin Owned
      BY <1>1, <1>3, <2>1 DEF Inv, Registry, Owned
    <3>2. Cardinality(Owned') = Cardinality(Owned) + 1
      BY <1>8, <3>1, RegistrySets, CountOne
    <3>3. Cardinality(Outstanding') = Cardinality(Outstanding) - 1
      BY <1>3, <1>9, <2>1, RegistrySets, CountOne
    <3> QED BY <1>1, <1>10, <2>1, <3>2, <3>3, RegistrySets
  <2>2. CASE call[c].op # "spawn"
    <3>1. Outstanding' = Outstanding
      BY <1>3, <1>9, <2>2
    <3>2. owner[p] = NoAgent => p \notin reserved
      <4> SUFFICES ASSUME p \in reserved PROVE FALSE
        OBVIOUS
      <4>1. PICK d \in Caller : call[d].path /\ PathHeld(d) = p
        BY <1>1 DEF Inv, Registry
      <4> QED BY <1>3, <1>6, <2>2, <4>1
    <3>3. CASE owner[p] = NoAgent
      <4>1. Cardinality(Owned') = Cardinality(Owned) + 1
        <5>1. p \notin Owned
          BY <3>3 DEF Owned
        <5> HIDE DEF p
        <5> QED BY <1>8, <5>1, RegistrySets, CountOne
      <4>2. total' = Increment(total)
        BY <1>1, <2>2, <3>2, <3>3
      <4> QED BY <1>10, <3>1, <4>1, <4>2, RegistrySets DEF Increment
    <3>4. CASE owner[p] # NoAgent
      <4>1. Owned' = Owned
        BY <1>8, <3>4 DEF Owned
      <4>2. total' = total
        BY <1>1, <3>4
      <4> QED BY <1>10, <3>1, <4>1, <4>2
    <3> QED BY <3>3, <3>4
  <2> QED BY <2>1, <2>2
<1>12. /\ \A d \in Caller : d # c => (PathHeld(d))' = PathHeld(d)
       /\ (call[c].path)' => (PathHeld(c))' = p /\ (call[c].pc)' = "commit"
                            /\ (call[c].agent)' = a
  BY <1>3, <1>4, <1>5 DEF PathHeld
<1> HIDE DEF p, a, vacant, k
<1>13. \A d \in Caller : (call[d].path)' =>
           IF (call[d].pc)' = "commit" THEN owner'[(PathHeld(d))'] = (call[d].agent)'
           ELSE owner'[(PathHeld(d))'] = NoAgent /\ (PathHeld(d))' \in reserved'
  <2> SUFFICES ASSUME NEW d \in Caller, (call[d].path)'
               PROVE  IF (call[d].pc)' = "commit"
                      THEN owner'[(PathHeld(d))'] = (call[d].agent)'
                      ELSE owner'[(PathHeld(d))'] = NoAgent /\ (PathHeld(d))' \in reserved'
    OBVIOUS
  <2>1. CASE d = c
    BY <1>7, <1>12, <2>1
  <2>2. CASE d # c
    <3>1. call'[d] = call[d] /\ (PathHeld(d))' = PathHeld(d) /\ PathHeld(d) # p
      BY <1>5, <1>6, <1>12, <2>2
    <3>2. PathHeld(d) \in Path
      BY <3>1, HolderFacts
    <3> QED BY <1>1, <1>7, <3>1, <3>2 DEF Inv, Registry
  <2> QED BY <2>1, <2>2
<1>14. \A d, e \in Caller :
           (call[d].path)' /\ (call[e].path)' /\ (PathHeld(d))' = (PathHeld(e))' => d = e
  BY <1>1, <1>5, <1>6, <1>12 DEF Inv, Registry
<1>15. \A q \in reserved' : \E d \in Caller : (call[d].path)' /\ (PathHeld(d))' = q
  <2> TAKE q \in reserved'
  <2>1. q \in reserved /\ q # p
    BY <1>1
  <2>2. PICK d \in Caller : call[d].path /\ PathHeld(d) = q
    BY <1>1, <2>1 DEF Inv, Registry
  <2>3. d # c
    BY <2>1, <2>2 DEF p
  <2> QED BY <1>5, <1>12, <2>2, <2>3
<1> QED BY <1>11, <1>13, <1>14, <1>15 DEF Registry

LEMMA CommitRegistry ==
    ASSUME Inv, NEW c \in Caller, Commit(c)
    PROVE  Registry'
<1> DEFINE a == call[c].agent
           p == PathHeld(c)
           k == [call[c] EXCEPT !.pc = "settle", !.slot = FALSE, !.reservation = FALSE,
                    !.path = FALSE]
<1> SUFFICES ASSUME ~clashed PROVE Registry'
  BY DEF Registry, Commit
<1>1. /\ call[c].pc = "commit" /\ Becomes(c, k) /\ UNCHANGED <<total, clashed>>
      /\ IF call[c].reservation
         THEN owner' = [owner EXCEPT ![p] = a] /\ reserved' = reserved \ {p}
         ELSE UNCHANGED <<owner, reserved>>
  BY DEF Commit, Enter, PathHeld
<1>2. call[c] \in CallState /\ InControl(call[c]) /\ p \in Path /\ a \in Agent
  BY <1>1, HolderFacts
<1>3. call[c].reservation <=> call[c].path
  BY <1>1, <1>2 DEF InControl
<1>4. k \in CallState /\ ~k.path /\ ~k.reservation
  BY <1>2 DEF CallState
<1>5. call'[c] = k /\ \A d \in Caller : d # c => call'[d] = call[d]
  BY <1>1, <1>4, CallAfter DEF Inv
<1> HIDE DEF k
<1>6. owner' = owner
  <2>1. CASE call[c].reservation
    <3>1. owner[p] = a
      BY <1>1, <1>3, <2>1 DEF Inv, Registry
    <3> QED BY <1>1, <1>2, <2>1, <3>1 DEF Inv, TypeOK
  <2> QED BY <1>1, <2>1
<1>7. Outstanding' = Outstanding /\ Owned' = Owned
  <2>1. Outstanding' = Outstanding \ {c} /\ c \notin Outstanding
    BY <1>1, <1>4, HoldersAfter DEF Inv, Outstanding
  <2> QED BY <1>6, <2>1 DEF Owned
<1>8. \A d \in Caller : (call[d].path)' =>
          /\ d # c /\ call'[d] = call[d] /\ (PathHeld(d))' = PathHeld(d)
          /\ call[c].path => PathHeld(d) # p
  BY <1>4, <1>5 DEF PathHeld, Inv, Registry
<1>9. reserved' = IF call[c].path THEN reserved \ {p} ELSE reserved
  BY <1>1, <1>3
<1>10. \A q \in reserved' : \E d \in Caller : (call[d].path)' /\ (PathHeld(d))' = q
  <2> TAKE q \in reserved'
  <2>1. PICK d \in Caller : call[d].path /\ PathHeld(d) = q
    BY <1>9 DEF Inv, Registry
  <2>2. d # c
    BY <1>9, <2>1
  <2> QED BY <1>5, <2>1, <2>2 DEF PathHeld
<1> HIDE DEF p, a
<1>11. \A d \in Caller : (call[d].path)' =>
           IF (call[d].pc)' = "commit" THEN owner'[(PathHeld(d))'] = (call[d].agent)'
           ELSE owner'[(PathHeld(d))'] = NoAgent /\ (PathHeld(d))' \in reserved'
  BY <1>6, <1>8, <1>9 DEF Inv, Registry
<1>12. \A d, e \in Caller :
           (call[d].path)' /\ (call[e].path)' /\ (PathHeld(d))' = (PathHeld(e))' => d = e
  BY <1>8 DEF Inv, Registry
<1> QED BY <1>1, <1>7, <1>10, <1>11, <1>12 DEF Inv, Registry

LEMMA ForgetRegistry ==
    ASSUME Inv, NEW c \in Caller, Forget(c)
    PROVE  Registry'
<1> DEFINE a == call[c].agent
           p == PathHeld(c)
<1>1. Becomes(c, Done) /\ call[c].pc = "forget"
  BY DEF Forget, Return
<1>2. call[c] \in CallState /\ InControl(call[c]) /\ p \in Path /\ a \in Agent
  BY <1>1, HolderFacts
<1>3. Done \in CallState /\ ~Done.path /\ ~Done.reservation
  BY DEF Done, CallState, Operation
<1>4. ~call[c].reservation /\ ~call[c].path
  BY <1>1, <1>2 DEF InControl
<1>5. SameReservation(call[c], Done)
  BY <1>2, <1>3, <1>4 DEF SameReservation, CallState
<1>6. CASE UNCHANGED registryVars
  BY <1>1, <1>3, <1>5, <1>6, RegistryKept
<1>7. CASE ~UNCHANGED registryVars
  <2> SUFFICES ASSUME ~clashed' PROVE Registry'
    BY DEF Registry
  <2>1. /\ owner[p] = a /\ owner' = [owner EXCEPT ![p] = NoAgent]
        /\ total' = Decrement(total) /\ ~clashed /\ ~Clashes(c, a) /\ UNCHANGED reserved
    BY <1>7 DEF Forget, Known, PathHeld
  <2>2. call'[c] = Done /\ \A d \in Caller : d # c => call'[d] = call[d]
    BY <1>1, <1>3, CallAfter DEF Inv
  <2>3. \A d \in Caller : (call[d].path)' =>
            /\ d # c /\ call'[d] = call[d] /\ (PathHeld(d))' = PathHeld(d)
            /\ PathHeld(d) # p /\ PathHeld(d) \in Path
    <3> SUFFICES ASSUME NEW d \in Caller, (call[d].path)'
                 PROVE  /\ d # c /\ call'[d] = call[d] /\ (PathHeld(d))' = PathHeld(d)
                        /\ PathHeld(d) # p /\ PathHeld(d) \in Path
      OBVIOUS
    <3>1. d # c /\ call'[d] = call[d] /\ (PathHeld(d))' = PathHeld(d)
      BY <1>3, <2>2 DEF PathHeld
    <3>2. PathHeld(d) \in Path
      BY <3>1, HolderFacts
    <3>3. PathHeld(d) # p
      BY <1>2, <2>1, <3>1, NoClash DEF PathHeld
    <3> QED BY <3>1, <3>2, <3>3
  <2>4. \A q \in Path : q # p => owner'[q] = owner[q]
    BY <2>1 DEF Inv, TypeOK
  <2>5. Owned' = Owned \ {p} /\ p \in Owned
    BY <1>2, <2>1, <2>4 DEF Owned, Inv, TypeOK
  <2>6. Outstanding' = Outstanding
    BY <1>1, <1>3, <1>4, HoldersAfter DEF Inv, Outstanding
  <2> HIDE DEF p, a
  <2>7. total' = Cardinality(Owned') + Cardinality(Outstanding')
    <3>1. Cardinality(Owned') = Cardinality(Owned) - 1 /\ Cardinality(Owned) > 0
      BY <2>5, RegistrySets, CountOne
    <3>2. total = Cardinality(Owned) + Cardinality(Outstanding)
      BY <2>1 DEF Inv, Registry
    <3> QED BY <2>1, <2>6, <3>1, <3>2, RegistrySets DEF Decrement
  <2>8. \A q \in reserved' : \E d \in Caller : (call[d].path)' /\ (PathHeld(d))' = q
    <3> TAKE q \in reserved'
    <3>1. PICK d \in Caller : call[d].path /\ PathHeld(d) = q
      BY <2>1 DEF Inv, Registry
    <3>2. d # c
      BY <1>4, <3>1
    <3> QED BY <2>2, <3>1, <3>2 DEF PathHeld
  <2>9. \A d \in Caller : (call[d].path)' =>
            IF (call[d].pc)' = "commit" THEN owner'[(PathHeld(d))'] = (call[d].agent)'
            ELSE owner'[(PathHeld(d))'] = NoAgent /\ (PathHeld(d))' \in reserved'
    BY <2>1, <2>3, <2>4 DEF Inv, Registry
  <2>10. \A d, e \in Caller :
            (call[d].path)' /\ (call[e].path)' /\ (PathHeld(d))' = (PathHeld(e))' => d = e
    BY <2>1, <2>3 DEF Inv, Registry
  <2> QED BY <2>7, <2>8, <2>9, <2>10 DEF Registry
<1> QED BY <1>6, <1>7

-----------------------------------------------------------------------------
(* The rest of the invariant, after a move.                                *)

\* The types of what is not the callers' and not the slots'.
OtherTypes ==
    /\ residents \in Seq(Agent) /\ IsInjective(residents)
    /\ owner \in [Path -> Agent \cup {NoAgent}] /\ reserved \subseteq Path
    /\ total \in 0..UsizeMax /\ clashed \in BOOLEAN
    /\ map \in [Agent -> Nat] /\ live \subseteq Agent \X Nat
    /\ gen \in [Agent -> Nat] /\ busy \in [Agent -> BOOLEAN]
    /\ stray \subseteq Agent /\ budget \in [Event -> Nat]

LEMMA TypesNow ==
    ASSUME Inv
    PROVE  OtherTypes
BY DEF Inv, TypeOK, OtherTypes

\* The bound holds when neither set grows.
LEMMA BoundKept ==
    ASSUME Inv, Open' \subseteq Open, Waiting' \subseteq Waiting
    PROVE  OpenIsBounded'
<1>1. Open \in SUBSET Agent /\ Waiting \in SUBSET Caller
  BY DEF Open, Waiting
<1>2. /\ IsFiniteSet(Open) /\ Cardinality(Open) \in Nat
      /\ IsFiniteSet(Waiting) /\ Cardinality(Waiting) \in Nat
      /\ Cardinality(Caller) \in Nat
  BY <1>1, AllAreFinite
<1>3. /\ Cardinality(Open') <= Cardinality(Open) /\ Cardinality(Open') \in Nat
      /\ Cardinality(Waiting') <= Cardinality(Waiting) /\ Cardinality(Waiting') \in Nat
  BY <1>2, FS_Subset, FS_CardinalityType
<1> QED BY <1>2, <1>3 DEF Inv, OpenIsBounded

\* The parts of the invariant that a move decides by itself.
LEMMA AfterMove ==
    ASSUME Inv, NEW c \in Caller, NEW k \in CallState, InControl(k), Becomes(c, k),
           OtherTypes', Registry', SlotsAreCounted', LoadedIsTracked', OpenIsBounded'
    PROVE  Inv'
<1>1. call' \in [Caller -> CallState]
  BY DEF Inv, TypeOK, Becomes
<1>2. Control'
  BY CallAfter DEF Inv, Control
<1>3. pending' \in Nat
  BY AllAreFinite DEF SlotsAreCounted, SlotHolders
<1> QED BY <1>1, <1>2, <1>3 DEF Inv, TypeOK, OtherTypes

\* A move that makes no agent open and no slot wait.
LEMMA ListMove ==
    ASSUME Inv, NEW c \in Caller, NEW k \in CallState, InControl(k), Becomes(c, k),
           OtherTypes', Registry', SlotsAreCounted', LoadedIsTracked',
           k.slot /\ ~Holding(k) => call[c].slot /\ ~Holding(call[c]),
           \A a \in Agent : a \in Tracked' /\ a \notin stray' => a \in Tracked /\ a \notin stray
    PROVE  Inv'
<1>1. Open' \subseteq Open
  BY DEF Open
<1>2. Waiting' \subseteq Waiting
  BY HoldersAfter DEF Inv, Waiting
<1>3. OpenIsBounded'
  BY <1>1, <1>2, BoundKept
<1> QED BY <1>3, AfterMove

\* The slots are counted when the mover keeps its own or has none.
LEMMA SlotsKept ==
    ASSUME Inv, NEW c \in Caller, NEW k \in CallState, Becomes(c, k),
           k.slot = call[c].slot, UNCHANGED pending
    PROVE  SlotsAreCounted'
<1>1. SlotHolders' = SlotHolders
  BY HoldersAfter DEF Inv, SlotHolders
<1> QED BY <1>1 DEF Inv, SlotsAreCounted

\* A caller that gives its slot back takes one from the counter.
LEMMA SlotReleased ==
    ASSUME Inv, NEW c \in Caller, call[c].slot, NEW k \in CallState, ~k.slot,
           Becomes(c, k), pending' = Released(pending)
    PROVE  SlotsAreCounted'
<1>1. SlotHolders' = SlotHolders \ {c} /\ c \in SlotHolders
  BY HoldersAfter DEF SlotHolders, Inv
<1>2. pending = Cardinality(SlotHolders) /\ IsFiniteSet(SlotHolders)
  BY AllAreFinite DEF Inv, SlotsAreCounted, SlotHolders
<1>3. pending' = Cardinality(SlotHolders')
  BY <1>1, <1>2, CountOne DEF Released
<1> QED BY <1>3 DEF SlotsAreCounted

\* One agent may lose its place, and is astray if it is still in memory.
LEMMA StrayMove ==
    ASSUME Inv, NEW x \in Agent, Strays(x),
           \A a \in Agent : a # x /\ a \in Tracked => a \in Tracked',
           \A a \in Agent : a # x /\ map'[a] # 0 => map[a] # 0
    PROVE  /\ LoadedIsTracked' /\ stray' \subseteq Agent
           /\ \A a \in Agent : a \in Tracked' => (a \in stray' <=> a \in stray)
<1>1. /\ stray' \subseteq Agent
      /\ \A b \in Agent : b # x \/ b \in Tracked' => (b \in stray' <=> b \in stray)
      /\ x \notin Tracked' /\ map'[x] # 0 => x \in stray'
  BY StraysFacts DEF Inv
<1>2. ASSUME NEW a \in Agent, map'[a] # 0 PROVE a \in Tracked' \/ a \in stray'
  <2>1. CASE a = x
    BY <1>1, <1>2, <2>1
  <2>2. CASE a # x
    <3>1. a \in Tracked \/ a \in stray
      BY <1>2, <2>2 DEF Inv, LoadedIsTracked, Loaded
    <3> QED BY <1>1, <2>2, <3>1
  <2> QED BY <2>1, <2>2
<1>3. LoadedIsTracked'
  BY <1>2 DEF LoadedIsTracked, Loaded
<1> QED BY <1>1, <1>3

\* A move of a caller that keeps its slot, its reservation and its victim.
Quiet(c, k) ==
    /\ k \in CallState /\ InControl(k)
    /\ k.slot = call[c].slot /\ SameReservation(call[c], k)
    /\ k.victim = call[c].victim /\ ~Holding(k) /\ ~Holding(call[c])

\* The list, the counters, the registry and the generations stay as they are,
\* and no thread is added.
NothingAdded ==
    /\ UNCHANGED <<residents, pending, registryVars, gen, stray>>
    /\ map' \in [Agent -> Nat] /\ \A a \in Agent : map'[a] # 0 => map[a] # 0
    /\ live' \subseteq Agent \X Nat /\ busy' \in [Agent -> BOOLEAN]
    /\ budget' \in [Event -> Nat]

\* A quiet mover carries what it carried.
LEMMA QuietTracks ==
    ASSUME Inv, NEW c \in Caller, NEW k, Quiet(c, k), Becomes(c, k), UNCHANGED residents
    PROVE  \A a \in Agent : a \in Tracked' <=> a \in Tracked
<1>1. k \in CallState
  BY DEF Quiet
<1>2. \A a \in Agent : Carries(k, a) <=> Carries(call[c], a)
  BY DEF Carries, Quiet
<1> TAKE a \in Agent
<1>3. Range(residents') = Range(residents)
  OBVIOUS
<1> QED BY <1>1, <1>2, <1>3, TrackedAfter DEF Inv

LEMMA QuietMove ==
    ASSUME Inv, NEW c \in Caller, NEW k, Quiet(c, k), Becomes(c, k), NothingAdded
    PROVE  Inv'
<1>0. /\ k \in CallState /\ InControl(k) /\ k.slot = call[c].slot
      /\ SameReservation(call[c], k) /\ ~Holding(k) /\ ~Holding(call[c])
  BY DEF Quiet
<1>1. Registry' /\ SlotsAreCounted'
  BY <1>0, RegistryKept, SlotsKept DEF NothingAdded
<1>2. OtherTypes'
  BY TypesNow DEF OtherTypes, NothingAdded, registryVars
<1>3. \A a \in Agent : a \in Tracked' <=> a \in Tracked
  BY QuietTracks DEF NothingAdded
<1>4. LoadedIsTracked'
  BY <1>3 DEF Inv, LoadedIsTracked, Loaded, NothingAdded
<1>5. stray' = stray
  BY DEF NothingAdded
<1> QED BY <1>0, <1>1, <1>2, <1>3, <1>4, <1>5, ListMove

\* Callers without a slot or a victim move among such places.
LEMMA FreeMove ==
    ASSUME Inv, NEW c \in Caller, NEW pc, NEW held \in Nat, NEW scan \in Nat,
           call[c].pc \in {"look", "touch", "reserve", "pop", "settle", "send", "submit",
                           "stop", "drop"},
           pc \in {"touch", "reserve", "pop", "send", "submit", "drop", "forget"},
           pc \in {"reserve", "pop"} => call[c].op \in {"spawn", "message"}
    PROVE  /\ Quiet(c, [call[c] EXCEPT !.pc = pc])
           /\ Quiet(c, [call[c] EXCEPT !.pc = pc, !.held = held])
           /\ Quiet(c, [call[c] EXCEPT !.pc = pc, !.scan = scan])
<1>1. call[c] \in CallState /\ InControl(call[c])
  BY DEF Inv, TypeOK, Control
<1>2. call[c].op # "resume" /\ ~call[c].reservation /\ ~call[c].path /\ ~call[c].slot
  BY <1>1 DEF InControl
<1>3. ASSUME NEW k \in CallState, k.pc = pc, k.op = call[c].op, k.agent = call[c].agent,
             k.slot = call[c].slot, k.reservation = call[c].reservation,
             k.path = call[c].path, k.victim = call[c].victim
      PROVE  Quiet(c, k)
  <2>1. InControl(k)
    BY <1>1, <1>2, <1>3 DEF InControl
  <2> QED BY <1>2, <1>3, <2>1 DEF Quiet, SameReservation, Holding
<1>4. Quiet(c, [call[c] EXCEPT !.pc = pc])
  BY <1>1, <1>3 DEF CallState
<1>5. Quiet(c, [call[c] EXCEPT !.pc = pc, !.held = held])
  <2> DEFINE k == [call[c] EXCEPT !.pc = pc, !.held = held]
  <2>1. /\ k \in CallState /\ k.pc = pc /\ k.op = call[c].op /\ k.agent = call[c].agent
        /\ k.slot = call[c].slot /\ k.reservation = call[c].reservation
        /\ k.path = call[c].path /\ k.victim = call[c].victim
    BY <1>1 DEF CallState
  <2> HIDE DEF k
  <2>2. Quiet(c, k)
    BY <1>3, <2>1
  <2> QED BY <2>2 DEF k
<1>6. Quiet(c, [call[c] EXCEPT !.pc = pc, !.scan = scan])
  <2> DEFINE k == [call[c] EXCEPT !.pc = pc, !.scan = scan]
  <2>1. /\ k \in CallState /\ k.pc = pc /\ k.op = call[c].op /\ k.agent = call[c].agent
        /\ k.slot = call[c].slot /\ k.reservation = call[c].reservation
        /\ k.path = call[c].path /\ k.victim = call[c].victim
    BY <1>1 DEF CallState
  <2> HIDE DEF k
  <2>2. Quiet(c, k)
    BY <1>3, <2>1
  <2> QED BY <2>2 DEF k
<1> QED BY <1>4, <1>5, <1>6

LEMMA DoneFacts ==
    /\ Done \in CallState /\ InControl(Done) /\ ~Holding(Done)
    /\ Done.slot = FALSE /\ Done.reservation = FALSE /\ Done.path = FALSE
    /\ Done.pc = "idle" /\ Done.victim = NoAgent /\ \A a \in Agent : ~Carries(Done, a)
<1>1. /\ Done \in CallState /\ ~Holding(Done)
      /\ Done.slot = FALSE /\ Done.reservation = FALSE /\ Done.path = FALSE
      /\ Done.pc = "idle" /\ Done.victim = NoAgent /\ Done.op = "message"
  BY DEF Done, CallState, Operation, Holding
<1>2. InControl(Done)
  BY <1>1 DEF InControl
<1> QED BY <1>1, <1>2 DEF Carries

\* So do callers that return from such a place.
LEMMA FreeReturn ==
    ASSUME Inv, NEW c \in Caller,
           \/ call[c].pc \in {"look", "pop", "settle", "send", "submit", "stop", "forget"}
           \/ call[c].op = "resume" /\ call[c].pc \in {"check", "create"}
    PROVE  Quiet(c, Done)
<1>1. call[c] \in CallState /\ InControl(call[c])
  BY DEF Inv, TypeOK, Control
<1>2. /\ call[c].victim = NoAgent /\ call[c].slot = FALSE /\ call[c].reservation = FALSE
      /\ call[c].path = FALSE
  BY <1>1 DEF CallState, InControl
<1>3. ~Holding(call[c])
  BY DEF Holding
<1> QED BY <1>2, <1>3, DoneFacts DEF Quiet, SameReservation

\* The three kinds of quiet step the callers take.
LEMMA QuietGoto ==
    ASSUME Inv, NEW c \in Caller, NothingAdded, NEW pc, Goto(c, pc),
           call[c].pc \in {"look", "touch", "settle", "stop", "drop"},
           pc \in {"touch", "reserve", "send", "drop", "forget"},
           pc = "reserve" => call[c].op \in {"spawn", "message"}
    PROVE  Inv'
<1> DEFINE k == [call[c] EXCEPT !.pc = pc]
<1>1. Quiet(c, k)
  BY FreeMove
<1>2. Becomes(c, k)
  BY DEF Goto
<1> HIDE DEF k
<1> QED BY <1>1, <1>2, QuietMove

LEMMA QuietReturn ==
    ASSUME Inv, NEW c \in Caller, NothingAdded, Return(c),
           \/ call[c].pc \in {"look", "pop", "settle", "send", "submit", "stop"}
           \/ call[c].op = "resume" /\ call[c].pc \in {"check", "create"}
    PROVE  Inv'
<1>1. Quiet(c, Done) /\ Becomes(c, Done)
  BY FreeReturn DEF Return
<1> QED BY <1>1, QuietMove

-----------------------------------------------------------------------------
(* Moves that touch no counter and add no thread.                          *)

LEMMA StartInv ==
    ASSUME Inv, NEW c \in Caller, Start(c)
    PROVE  Inv'
<1>1. PICK op \in Operation, a \in Agent :
          /\ budget[op] > 0 /\ budget' = [budget EXCEPT ![op] = @ - 1]
          /\ Becomes(c, [Done EXCEPT !.op = op, !.agent = a,
                 !.pc = CASE op = "spawn" -> "reserve" [] op = "message" -> "look"
                          [] op = "close" -> "stop" [] op = "resume" -> "check"])
  BY DEF Start
<1> DEFINE k == [Done EXCEPT !.op = op, !.agent = a,
                 !.pc = CASE op = "spawn" -> "reserve" [] op = "message" -> "look"
                          [] op = "close" -> "stop" [] op = "resume" -> "check"]
<1>2. /\ k.pc \in {"reserve", "look", "stop", "check"} /\ k.op = op /\ k.agent = a
      /\ k.slot = FALSE /\ k.reservation = FALSE /\ k.path = FALSE /\ k.scan = 0
      /\ k.victim = NoAgent /\ k.held = 0
      /\ (k.pc = "reserve" <=> op = "spawn") /\ (k.pc = "look" <=> op = "message")
      /\ (k.pc = "check" <=> op = "resume")
  BY DEF Done, Operation
<1>3. k \in CallState
  BY DEF Done, CallState, Operation
<1>4. Becomes(c, k)
  BY <1>1
<1> HIDE DEF k
<1>5. InControl(k)
  BY <1>2 DEF InControl
<1>6. Quiet(c, k)
  <2>1. call[c] \in CallState /\ InControl(call[c]) /\ call[c].pc = "idle"
    BY DEF Inv, TypeOK, Control, Start
  <2>2. /\ call[c].slot = FALSE /\ call[c].reservation = FALSE /\ call[c].path = FALSE
        /\ call[c].victim = NoAgent
    BY <2>1 DEF CallState, InControl
  <2> QED BY <1>2, <1>3, <1>5, <2>1, <2>2 DEF Quiet, SameReservation, Holding
<1>7. NothingAdded
  <2>1. /\ UNCHANGED <<residents, pending, registryVars, gen, stray>>
        /\ UNCHANGED <<map, live, busy>>
    BY DEF Start, threadVars
  <2>2. /\ budget \in [Event -> Nat] /\ map \in [Agent -> Nat]
        /\ live \subseteq Agent \X Nat /\ busy \in [Agent -> BOOLEAN]
    BY DEF Inv, TypeOK
  <2>3. op \in Event /\ budget[op] > 0 /\ budget' = [budget EXCEPT ![op] = @ - 1]
    BY <1>1 DEF Event
  <2>4. budget' \in [Event -> Nat]
    BY <2>2, <2>3
  <2> QED BY <2>1, <2>2, <2>4 DEF NothingAdded
<1> QED BY <1>4, <1>6, <1>7, QuietMove

LEMMA LookInv ==
    ASSUME Inv, NEW c \in Caller, Look(c)
    PROVE  Inv'
<1>1. NothingAdded /\ call[c].pc = "look"
  BY DEF Look, Inv, TypeOK, NothingAdded, threadVars
<1>2. CASE Goto(c, "touch")
  BY <1>1, <1>2, QuietGoto
<1>3. CASE Goto(c, "reserve")
  <2>1. call[c].op = "message"
    BY <1>1 DEF Inv, Control, InControl
  <2> QED BY <1>1, <1>3, <2>1, QuietGoto
<1>4. CASE Return(c)
  BY <1>1, <1>4, QuietReturn
<1> QED BY <1>2, <1>3, <1>4 DEF Look

LEMMA SettleInv ==
    ASSUME Inv, NEW c \in Caller, Settle(c)
    PROVE  Inv'
<1>1. NothingAdded /\ call[c].pc = "settle"
  BY DEF Settle, Inv, TypeOK, NothingAdded, threadVars
<1>2. CASE Goto(c, "send")
  BY <1>1, <1>2, QuietGoto
<1>3. CASE Return(c)
  BY <1>1, <1>3, QuietReturn
<1> QED BY <1>2, <1>3 DEF Settle

LEMMA StopInv ==
    ASSUME Inv, NEW c \in Caller, Stop(c)
    PROVE  Inv'
<1>1. NothingAdded /\ call[c].pc = "stop"
  BY DEF Stop, Inv, TypeOK, NothingAdded
<1>2. CASE Goto(c, "drop")
  BY <1>1, <1>2, QuietGoto
<1>3. CASE Return(c)
  BY <1>1, <1>3, QuietReturn
<1> QED BY <1>2, <1>3 DEF Stop

LEMMA DropThreadInv ==
    ASSUME Inv, NEW c \in Caller, DropThread(c)
    PROVE  Inv'
<1>1. call[c].pc = "drop" /\ Goto(c, "forget")
  BY DEF DropThread
<1>2. call[c].agent \in Agent
  BY <1>1 DEF Inv, Control, InControl
<1>3. /\ map' = [map EXCEPT ![call[c].agent] = 0]
      /\ busy' = [busy EXCEPT ![call[c].agent] = FALSE]
  BY DEF DropThread
<1>4. NothingAdded
  BY <1>2, <1>3 DEF DropThread, Inv, TypeOK, NothingAdded
<1> QED BY <1>1, <1>4, QuietGoto

LEMMA LookupInv ==
    ASSUME Inv, NEW c \in Caller, Lookup(c)
    PROVE  Inv'
<1>1. NothingAdded /\ call[c].pc = "send"
  BY DEF Lookup, Inv, TypeOK, NothingAdded, threadVars
<1>2. CASE Return(c)
  BY <1>1, <1>2, QuietReturn
<1>3. CASE Becomes(c, [call[c] EXCEPT !.pc = "submit", !.held = map[call[c].agent]])
  <2> DEFINE k == [call[c] EXCEPT !.pc = "submit", !.held = map[call[c].agent]]
  <2>1. map[call[c].agent] \in Nat
    BY <1>1 DEF Inv, TypeOK, Control, InControl
  <2>2. Quiet(c, k)
    BY <1>1, <2>1, FreeMove
  <2> HIDE DEF k
  <2>3. Becomes(c, k)
    BY <1>3 DEF k
  <2> QED BY <1>1, <2>2, <2>3, QuietMove
<1> QED BY <1>2, <1>3 DEF Lookup

LEMMA SubmitInv ==
    ASSUME Inv, NEW c \in Caller, Submit(c)
    PROVE  Inv'
<1>1. NothingAdded /\ call[c].pc = "submit"
  BY DEF Submit, Inv, TypeOK, NothingAdded
<1>2. CASE Return(c)
  BY <1>1, <1>2, QuietReturn
<1>3. CASE Becomes(c, [call[c] EXCEPT !.pc = "drop", !.held = 0])
  <2> DEFINE k == [call[c] EXCEPT !.pc = "drop", !.held = 0]
  <2>1. Quiet(c, k)
    BY <1>1, FreeMove
  <2> HIDE DEF k
  <2>2. Becomes(c, k)
    BY <1>3 DEF k
  <2> QED BY <1>1, <2>1, <2>2, QuietMove
<1> QED BY <1>2, <1>3 DEF Submit

LEMMA ShutdownInv ==
    ASSUME Inv, NEW c \in Caller, Shutdown(c)
    PROVE  Inv'
<1> DEFINE k == [call[c] EXCEPT !.pc = "remove"]
<1>1. NothingAdded /\ call[c].pc = "shutdown"
  BY DEF Shutdown, Inv, TypeOK, NothingAdded
<1>2. call[c] \in CallState /\ InControl(call[c])
  BY DEF Inv, TypeOK, Control
<1>3. Quiet(c, k)
  BY <1>1, <1>2 DEF CallState, InControl, Quiet, SameReservation, Holding
<1>4. Becomes(c, k)
  BY DEF Shutdown, Goto
<1> HIDE DEF k
<1> QED BY <1>1, <1>3, <1>4, QuietMove

-----------------------------------------------------------------------------
(* Moves that change the list, without making more agents open.            *)

LEMMA TouchLoadedInv ==
    ASSUME Inv, NEW c \in Caller, TouchLoaded(c)
    PROVE  Inv'
<1> DEFINE a == call[c].agent
           k == [call[c] EXCEPT !.pc = "send"]
<1>1. /\ call[c].pc = "touch" /\ Becomes(c, k)
      /\ UNCHANGED <<pending, registryVars, map, live, gen, busy, stray, budget>>
  BY DEF TouchLoaded, Goto, threadVars
<1>2. call[c] \in CallState /\ a \in Agent
  BY <1>1 DEF Inv, TypeOK, Control, InControl
<1>3. Quiet(c, k)
  BY <1>1, <1>2, FreeMove
<1>4. CASE ~Loaded(a)
  <2>1. NothingAdded
    BY <1>1, <1>4 DEF TouchLoaded, Inv, TypeOK, NothingAdded
  <2> HIDE DEF k
  <2> QED BY <1>1, <1>3, <2>1, QuietMove
<1>5. CASE Loaded(a)
  <2>1. residents' = Touch(residents, a)
    BY <1>5 DEF TouchLoaded
  <2>2. /\ residents' \in Seq(Agent) /\ IsInjective(residents')
        /\ Range(residents') = Range(residents) \cup {a}
    BY <1>2, <2>1, TouchFacts DEF Inv, TypeOK
  <2> HIDE DEF k, a
  <2>3. /\ k \in CallState /\ InControl(k) /\ k.slot = call[c].slot
        /\ SameReservation(call[c], k) /\ k.victim = call[c].victim
        /\ ~Holding(k) /\ ~Holding(call[c])
    BY <1>3 DEF Quiet
  <2>4. Registry' /\ SlotsAreCounted'
    BY <1>1, <2>3, RegistryKept, SlotsKept
  <2>5. \A b \in Agent : Carries(k, b) <=> Carries(call[c], b)
    BY <2>3 DEF Carries
  <2>6. \A b \in Agent : /\ b \in Tracked => b \in Tracked'
                         /\ b \in Tracked' => b \in Tracked \/ b = a
    <3> TAKE b \in Agent
    <3> QED BY <1>1, <2>2, <2>3, <2>5, TrackedAfter DEF Inv
  <2>7. a \in stray \/ a \in Tracked
    BY <1>2, <1>5 DEF Inv, LoadedIsTracked
  <2>8. LoadedIsTracked'
    BY <1>1, <2>6 DEF Inv, LoadedIsTracked, Loaded
  <2>9. OtherTypes'
    BY <1>1, <2>2, TypesNow DEF OtherTypes, registryVars
  <2>10. stray' = stray
    BY <1>1
  <2> QED BY <1>1, <2>3, <2>4, <2>6, <2>7, <2>8, <2>9, <2>10, ListMove
<1> QED BY <1>4, <1>5

\* A rotated list holds the same ids.
LEMMA RotateFacts ==
    ASSUME Inv, NEW c \in Caller, NEW rest,
           rest = IF residents # <<>> /\ Head(residents) = Protected(c)
                  THEN Append(Tail(residents), Head(residents)) ELSE residents
    PROVE  rest \in Seq(Agent) /\ IsInjective(rest) /\ Range(rest) = Range(residents)
<1>1. residents \in Seq(Agent) /\ IsInjective(residents)
  BY DEF Inv, TypeOK
<1>2. CASE residents # <<>> /\ Head(residents) = Protected(c)
  <2>1. /\ Head(residents) \in Agent /\ Tail(residents) \in Seq(Agent)
        /\ Range(residents) = Range(Tail(residents)) \cup {Head(residents)}
        /\ IsInjective(Tail(residents)) /\ Head(residents) \notin Range(Tail(residents))
    BY <1>1, <1>2, TailFacts
  <2> DEFINE t == Tail(residents)
             h == Head(residents)
  <2>2. rest = Append(t, h)
    BY <1>2
  <2> HIDE DEF t, h
  <2>3. /\ h \in Agent /\ t \in Seq(Agent) /\ Range(residents) = Range(t) \cup {h}
        /\ IsInjective(t) /\ h \notin Range(t)
    BY <2>1 DEF t, h
  <2>4. /\ Append(t, h) \in Seq(Agent) /\ IsInjective(Append(t, h))
        /\ Range(Append(t, h)) = Range(t) \cup {h}
    BY <2>3, AppendFacts
  <2> QED BY <2>2, <2>3, <2>4
<1>3. CASE ~(residents # <<>> /\ Head(residents) = Protected(c))
  BY <1>1, <1>3
<1> QED BY <1>2, <1>3

LEMMA PopCandidateInv ==
    ASSUME Inv, NEW c \in Caller, PopCandidate(c)
    PROVE  Inv'
<1> DEFINE rest == IF residents # <<>> /\ Head(residents) = Protected(c)
                   THEN Append(Tail(residents), Head(residents)) ELSE residents
           found == call[c].scan > 0 /\ rest # <<>> /\ Head(rest) # Protected(c)
           k == [call[c] EXCEPT !.pc = "inspect", !.scan = @ - 1, !.victim = Head(rest)]
<1>1. /\ call[c].pc = "pop"
      /\ UNCHANGED <<pending, registryVars, map, live, gen, busy, stray, budget>>
      /\ \/ found /\ residents' = Tail(rest) /\ Becomes(c, k)
         \/ Return(c) /\ UNCHANGED residents
  BY DEF PopCandidate, threadVars
<1>2. call[c] \in CallState /\ InControl(call[c])
  BY DEF Inv, TypeOK, Control
<1>3. rest \in Seq(Agent) /\ IsInjective(rest) /\ Range(rest) = Range(residents)
  BY RotateFacts
<1> HIDE DEF rest
<1>4. CASE Return(c) /\ UNCHANGED residents
  <2>1. NothingAdded
    BY <1>1, <1>4 DEF Inv, TypeOK, NothingAdded
  <2> QED BY <1>1, <1>4, <2>1, QuietReturn
<1>5. CASE found /\ residents' = Tail(rest) /\ Becomes(c, k)
  <2>1. /\ Head(rest) \in Agent /\ residents' \in Seq(Agent) /\ IsInjective(residents')
        /\ Range(residents) = Range(residents') \cup {Head(rest)}
    BY <1>3, <1>5, TailFacts
  <2>2. /\ k \in CallState /\ InControl(k) /\ k.slot = call[c].slot
        /\ SameReservation(call[c], k) /\ ~Holding(k) /\ ~Holding(call[c]) /\ ~k.slot
        /\ k.victim = Head(rest) /\ call[c].victim \notin Agent
    <3> DEFINE v == Head(rest)
               n == call[c].scan - 1
    <3>1. n \in Nat
      BY <1>2, <1>5 DEF CallState
    <3>2. v \in Agent
      BY <2>1
    <3> HIDE DEF v, n
    <3>3. k = [call[c] EXCEPT !.pc = "inspect", !.scan = n, !.victim = v]
      BY DEF v, n
    <3>4. k \in CallState
      BY <1>2, <3>1, <3>2, <3>3 DEF CallState
    <3>5. /\ k.slot = call[c].slot /\ k.reservation = call[c].reservation
          /\ k.pc = "inspect" /\ k.path = call[c].path /\ k.agent = call[c].agent
          /\ k.victim = v /\ k.op = call[c].op
      BY <1>2, <3>3 DEF CallState
    <3> HIDE DEF k
    <3>6. InControl(k) /\ call[c].victim \notin Agent /\ ~k.slot
      BY <1>1, <1>2, <3>2, <3>4, <3>5 DEF CallState, InControl
    <3>7. SameReservation(call[c], k) /\ ~Holding(k) /\ ~Holding(call[c])
      BY <1>1, <3>5 DEF SameReservation, Holding
    <3> QED BY <3>4, <3>5, <3>6, <3>7 DEF v
  <2> HIDE DEF k, found
  <2>3. Registry' /\ SlotsAreCounted'
    BY <1>1, <1>5, <2>2, RegistryKept, SlotsKept
  <2>4. \A b \in Agent : ~Carries(call[c], b) /\ (Carries(k, b) <=> b = Head(rest))
    BY <2>2 DEF Carries
  <2>5. \A b \in Agent : b \in Tracked <=> b \in Tracked'
    <3> TAKE b \in Agent
    <3> QED BY <1>5, <2>1, <2>2, <2>4, TrackedAfter DEF Inv
  <2>6. OtherTypes'
    BY <1>1, <2>1, TypesNow DEF OtherTypes, registryVars
  <2>7. LoadedIsTracked' /\ stray' = stray
    BY <1>1, <2>5 DEF Inv, LoadedIsTracked, Loaded
  <2> QED BY <1>5, <2>2, <2>3, <2>5, <2>6, <2>7, ListMove
<1> QED BY <1>1, <1>4, <1>5

\* A caller that has no victim any more goes on with what it had.
PutBack(c, k) ==
    /\ k.slot = call[c].slot /\ ~k.slot /\ SameReservation(call[c], k)
    /\ ~Holding(k) /\ ~Holding(call[c]) /\ k.victim = NoAgent

LEMMA PutBackFacts ==
    ASSUME NEW c \in Caller, call[c] \in CallState, InControl(call[c]),
           call[c].pc \in {"inspect", "remove"}
    PROVE  LET k == [call[c] EXCEPT !.pc = "pop", !.victim = NoAgent]
               r == [call[c] EXCEPT !.pc = "reserve", !.victim = NoAgent, !.scan = 0,
                        !.held = 0]
           IN  /\ k \in CallState /\ InControl(k) /\ PutBack(c, k)
               /\ r \in CallState /\ InControl(r) /\ PutBack(c, r)
<1> DEFINE k == [call[c] EXCEPT !.pc = "pop", !.victim = NoAgent]
           r == [call[c] EXCEPT !.pc = "reserve", !.victim = NoAgent, !.scan = 0,
                        !.held = 0]
<1>1. /\ k \in CallState /\ k.pc = "pop" /\ k.victim = NoAgent /\ k.slot = call[c].slot
      /\ k.reservation = call[c].reservation /\ k.path = call[c].path
      /\ k.agent = call[c].agent /\ k.op = call[c].op
  BY DEF CallState
<1>2. /\ r \in CallState /\ r.pc = "reserve" /\ r.victim = NoAgent /\ r.slot = call[c].slot
      /\ r.reservation = call[c].reservation /\ r.path = call[c].path
      /\ r.agent = call[c].agent /\ r.op = call[c].op
  BY DEF CallState
<1> HIDE DEF k, r
<1>3. InControl(k) /\ PutBack(c, k)
  BY <1>1 DEF InControl, PutBack, SameReservation, Holding
<1>4. InControl(r) /\ PutBack(c, r)
  BY <1>2 DEF InControl, PutBack, SameReservation, Holding
<1> QED BY <1>1, <1>2, <1>3, <1>4 DEF k, r

\* The victim is not in memory, or not any more.
LEMMA VictimGone ==
    ASSUME Inv, NEW c \in Caller, NEW k \in CallState, InControl(k), Becomes(c, k),
           PutBack(c, k), call[c].victim \in Agent, Strays(call[c].victim),
           UNCHANGED <<residents, pending, registryVars, live, gen, budget>>,
           map' \in [Agent -> Nat], busy' \in [Agent -> BOOLEAN],
           \A a \in Agent : map'[a] # 0 => map[a] # 0
    PROVE  Inv'
<1> DEFINE v == call[c].victim
<1>1. /\ k.slot = call[c].slot /\ ~k.slot /\ SameReservation(call[c], k)
      /\ ~Holding(k) /\ ~Holding(call[c]) /\ k.victim = NoAgent
  BY DEF PutBack
<1>2. \A b \in Agent : ~Carries(k, b) /\ (Carries(call[c], b) <=> b = v)
  BY <1>1 DEF Carries
<1>3. \A b \in Agent : /\ b # v /\ b \in Tracked => b \in Tracked'
                       /\ b \in Tracked' => b \in Tracked
  <2> TAKE b \in Agent
  <2> HIDE DEF v
  <2> QED BY <1>2, TrackedAfter DEF Inv
<1> HIDE DEF v
<1>4. v \in Agent /\ Strays(v)
  BY DEF v
<1>5. /\ LoadedIsTracked' /\ stray' \subseteq Agent
      /\ \A a \in Agent : a \in Tracked' => (a \in stray' <=> a \in stray)
  BY <1>3, <1>4, StrayMove
<1>6. Registry' /\ SlotsAreCounted'
  BY <1>1, RegistryKept, SlotsKept
<1>7. OtherTypes'
  BY <1>5, TypesNow DEF OtherTypes, registryVars
<1> QED BY <1>1, <1>3, <1>5, <1>6, <1>7, ListMove

LEMMA InspectInv ==
    ASSUME Inv, NEW c \in Caller, Inspect(c)
    PROVE  Inv'
<1> DEFINE v == call[c].victim
           k == [call[c] EXCEPT !.pc = "pop", !.victim = NoAgent]
           h == [call[c] EXCEPT !.pc = "shutdown", !.held = map[v]]
<1>1. /\ call[c].pc = "inspect"
      /\ UNCHANGED <<pending, registryVars, map, live, gen, busy, budget>>
      /\ \/ ~Loaded(v) /\ Becomes(c, k) /\ UNCHANGED residents /\ Strays(v)
         \/ Loaded(v) /\ Becomes(c, k) /\ residents' = Touch(residents, v) /\ UNCHANGED stray
         \/ Becomes(c, h) /\ UNCHANGED <<residents, stray>>
  BY DEF Inspect
<1>2. call[c] \in CallState /\ InControl(call[c]) /\ v \in Agent
  BY <1>1 DEF Inv, TypeOK, Control, InControl
<1>3. CASE Becomes(c, h) /\ UNCHANGED <<residents, stray>>
  <2>1. NothingAdded
    BY <1>1, <1>3 DEF Inv, TypeOK, NothingAdded
  <2>2. map[v] \in Nat
    BY <1>2 DEF Inv, TypeOK
  <2>3. /\ h \in CallState /\ h.pc = "shutdown" /\ h.op = call[c].op
        /\ h.agent = call[c].agent /\ h.slot = call[c].slot
        /\ h.reservation = call[c].reservation /\ h.path = call[c].path
        /\ h.victim = v
    BY <1>2, <2>2 DEF CallState
  <2> HIDE DEF h
  <2>4. Quiet(c, h)
    BY <1>1, <1>2, <2>3 DEF InControl, Quiet, SameReservation, Holding
  <2> QED BY <1>3, <2>1, <2>4, QuietMove
<1>4. CASE Becomes(c, k) /\ Loaded(v) /\ residents' = Touch(residents, v) /\ UNCHANGED stray
  <2>1. /\ residents' \in Seq(Agent) /\ IsInjective(residents')
        /\ Range(residents') = Range(residents) \cup {v}
    BY <1>2, <1>4, TouchFacts DEF Inv, TypeOK
  <2>2. k \in CallState /\ InControl(k) /\ PutBack(c, k)
    BY <1>1, <1>2, PutBackFacts
  <2> HIDE DEF k, h, v
  <2>3. \A b \in Agent : ~Carries(k, b) /\ (Carries(call[c], b) <=> b = v)
    BY <1>1, <2>2 DEF Carries, PutBack, Holding, v
  <2>4. \A b \in Agent : b \in Tracked' <=> b \in Tracked
    <3> TAKE b \in Agent
    <3> QED BY <1>4, <2>1, <2>2, <2>3, TrackedAfter DEF Inv
  <2>5. OtherTypes'
    BY <1>1, <1>4, <2>1, TypesNow DEF OtherTypes, registryVars
  <2>6. Registry' /\ SlotsAreCounted'
    BY <1>1, <1>4, <2>2, RegistryKept, SlotsKept DEF PutBack
  <2>7. LoadedIsTracked'
    BY <1>1, <1>4, <2>4 DEF Inv, LoadedIsTracked, Loaded
  <2> QED BY <1>4, <2>2, <2>4, <2>5, <2>6, <2>7, ListMove DEF PutBack
<1>5. CASE Becomes(c, k) /\ UNCHANGED residents /\ Strays(v)
  <2>1. k \in CallState /\ InControl(k) /\ PutBack(c, k)
    BY <1>1, <1>2, PutBackFacts
  <2> HIDE DEF k, h
  <2> QED BY <1>1, <1>2, <1>5, <2>1, VictimGone DEF Inv, TypeOK
<1> QED BY <1>1, <1>3, <1>4, <1>5

LEMMA RemoveVictimInv ==
    ASSUME Inv, NEW c \in Caller, RemoveVictim(c)
    PROVE  Inv'
<1> DEFINE v == call[c].victim
           k == [call[c] EXCEPT !.pc = "reserve", !.victim = NoAgent, !.scan = 0,
                    !.held = 0]
<1>1. /\ call[c].pc = "remove" /\ Becomes(c, k) /\ Strays(v)
      /\ map' = [map EXCEPT ![v] = 0] /\ busy' = [busy EXCEPT ![v] = FALSE]
      /\ UNCHANGED <<residents, pending, registryVars, live, gen, budget>>
  BY DEF RemoveVictim
<1>2. call[c] \in CallState /\ InControl(call[c]) /\ v \in Agent
  BY <1>1 DEF Inv, TypeOK, Control, InControl
<1>3. k \in CallState /\ InControl(k) /\ PutBack(c, k)
  BY <1>1, <1>2, PutBackFacts
<1> HIDE DEF k
<1>4. /\ map' \in [Agent -> Nat] /\ busy' \in [Agent -> BOOLEAN]
      /\ \A a \in Agent : map'[a] # 0 => map[a] # 0
  BY <1>1, <1>2 DEF Inv, TypeOK
<1> QED BY <1>1, <1>2, <1>3, <1>4, VictimGone

-----------------------------------------------------------------------------
(* Moves that change the counters.                                         *)

LEMMA CountersWrap ==
    ASSUME Inv
    PROVE  Increment(total) \in 0..UsizeMax /\ Decrement(total) \in 0..UsizeMax
BY DEF Inv, TypeOK, Increment, Decrement

LEMMA RegisterInv ==
    ASSUME Inv, NEW c \in Caller, Register(c)
    PROVE  Inv'
<1> DEFINE p == PathHeld(c)
           k == [call[c] EXCEPT !.pc = "create", !.reservation = TRUE, !.path = TRUE]
           l == [call[c] EXCEPT !.pc = "unwind", !.reservation = TRUE]
<1>1. /\ call[c].pc = "register" /\ total' = Increment(total)
      /\ UNCHANGED <<residents, pending, owner, clashed, map, live, gen, busy, stray, budget>>
      /\ \/ reserved' = reserved \cup {p} /\ Becomes(c, k)
         \/ UNCHANGED reserved /\ Becomes(c, l)
  BY DEF Register, threadVars, PathHeld
<1>2. call[c] \in CallState /\ InControl(call[c]) /\ p \in Path
  BY <1>1, HolderFacts
<1>3. call[c].slot /\ call[c].victim \notin Agent /\ ~Holding(call[c]) /\ ~call[c].path
  BY <1>1, <1>2 DEF InControl, Holding
<1>4. PICK j \in CallState : /\ Becomes(c, j) /\ InControl(j) /\ j.slot = call[c].slot
                             /\ ~Holding(j) /\ j.victim = call[c].victim
  <2>1. /\ k \in CallState /\ k.pc = "create" /\ k.reservation /\ k.path
        /\ k.op = call[c].op /\ k.agent = call[c].agent /\ k.slot = call[c].slot
        /\ k.victim = call[c].victim
    BY <1>2 DEF CallState
  <2>2. /\ l \in CallState /\ l.pc = "unwind" /\ l.reservation /\ ~l.path
        /\ l.op = call[c].op /\ l.agent = call[c].agent /\ l.slot = call[c].slot
        /\ l.victim = call[c].victim
    BY <1>2, <1>3 DEF CallState
  <2>3. Becomes(c, k) \/ Becomes(c, l)
    BY <1>1
  <2> HIDE DEF k, l
  <2>4. InControl(k) /\ InControl(l) /\ ~Holding(k) /\ ~Holding(l)
    BY <1>1, <1>2, <2>1, <2>2 DEF InControl, Holding
  <2> QED BY <2>1, <2>2, <2>3, <2>4
<1>5. Registry'
  BY RegisterRegistry
<1>6. SlotsAreCounted'
  BY <1>1, <1>4, SlotsKept
<1>7. OtherTypes'
  BY <1>1, <1>2, TypesNow, CountersWrap DEF OtherTypes
<1>8. \A b \in Agent : ~Carries(j, b) /\ ~Carries(call[c], b)
  BY <1>3, <1>4 DEF Carries
<1>9. \A b \in Agent : b \in Tracked' <=> b \in Tracked
  <2> TAKE b \in Agent
  <2> QED BY <1>1, <1>4, <1>8, TrackedAfter DEF Inv
<1>10. LoadedIsTracked' /\ stray' = stray
  BY <1>1, <1>9 DEF Inv, LoadedIsTracked, Loaded
<1> QED BY <1>3, <1>4, <1>5, <1>6, <1>7, <1>9, <1>10, ListMove

LEMMA RecordInv ==
    ASSUME Inv, NEW c \in Caller, Record(c)
    PROVE  Inv'
<1> DEFINE a == call[c].agent
           k == [call[c] EXCEPT !.pc = "commit"]
<1>1. /\ call[c].pc = "record"
      /\ owner' = [owner EXCEPT ![PathHeld(c)] = a] /\ reserved' \subseteq reserved
      /\ total' \in {Increment(total), total} /\ clashed' \in BOOLEAN
      /\ IF call[c].op = "resume" THEN Becomes(c, Done) ELSE Becomes(c, k)
      /\ UNCHANGED <<residents, pending, map, live, gen, busy, stray, budget>>
  BY DEF Record, Enter, Goto, Return, threadVars, PathHeld
<1>2. /\ call[c] \in CallState /\ InControl(call[c]) /\ a \in Agent
      /\ PathHeld(c) \in Path
  BY <1>1, HolderFacts
<1>3. call[c].victim \notin Agent /\ (call[c].slot <=> call[c].op # "resume")
  BY <1>1, <1>2 DEF InControl
<1>4. PICK j \in CallState : /\ Becomes(c, j) /\ InControl(j) /\ j.slot = call[c].slot
                             /\ (j.slot => Holding(j)) /\ (Holding(j) <=> Holding(call[c]))
                             /\ (Holding(j) => j.agent = a) /\ j.victim = call[c].victim
  <2>1. CASE call[c].op = "resume"
    <3>1. call[c].victim = NoAgent /\ call[c].slot = FALSE /\ ~Holding(call[c])
      BY <1>2, <1>3, <2>1 DEF CallState, Holding
    <3> QED BY <1>1, <2>1, <3>1, DoneFacts
  <2>2. CASE call[c].op # "resume"
    <3>1. /\ k \in CallState /\ k.pc = "commit" /\ k.agent = a /\ k.slot = call[c].slot
          /\ k.victim = call[c].victim /\ k.op = call[c].op
          /\ k.reservation = call[c].reservation /\ k.path = call[c].path
      BY <1>2 DEF CallState
    <3>2. Becomes(c, k)
      BY <1>1, <2>2
    <3> HIDE DEF k
    <3>3. InControl(k) /\ Holding(k) /\ Holding(call[c])
      BY <1>1, <1>2, <2>2, <3>1 DEF InControl, Holding
    <3> QED BY <3>1, <3>2, <3>3
  <2> QED BY <2>1, <2>2
<1>5. Registry'
  BY RecordRegistry
<1>6. SlotsAreCounted'
  BY <1>1, <1>4, SlotsKept
<1>7. OtherTypes'
  BY <1>1, <1>2, TypesNow, CountersWrap DEF OtherTypes
<1>8. \A b \in Agent : Carries(j, b) <=> Carries(call[c], b)
  BY <1>3, <1>4 DEF Carries
<1> HIDE DEF k, a
<1>9. \A b \in Agent : b \in Tracked' <=> b \in Tracked
  <2> TAKE b \in Agent
  <2> QED BY <1>1, <1>4, <1>8, TrackedAfter DEF Inv
<1>10. LoadedIsTracked' /\ stray' = stray
  BY <1>1, <1>9 DEF Inv, LoadedIsTracked, Loaded
<1> QED BY <1>4, <1>5, <1>6, <1>7, <1>9, <1>10, ListMove

LEMMA CommitInv ==
    ASSUME Inv, NEW c \in Caller, Commit(c)
    PROVE  Inv'
<1> DEFINE a == call[c].agent
           k == [call[c] EXCEPT !.pc = "settle", !.slot = FALSE, !.reservation = FALSE,
                    !.path = FALSE]
<1>1. /\ call[c].pc = "commit" /\ pending' = Released(pending) /\ Becomes(c, k)
      /\ residents' = Touch(residents, a)
      /\ owner' \in {owner, [owner EXCEPT ![PathHeld(c)] = a]}
      /\ reserved' \subseteq reserved
      /\ UNCHANGED <<total, clashed, map, live, gen, busy, stray, budget>>
  BY DEF Commit, Enter, threadVars, PathHeld
<1>2. /\ call[c] \in CallState /\ InControl(call[c]) /\ a \in Agent
      /\ PathHeld(c) \in Path
  BY <1>1, HolderFacts
<1>3. call[c].slot /\ call[c].victim \notin Agent /\ Holding(call[c])
  BY <1>1, <1>2 DEF InControl, Holding
<1>4. /\ k \in CallState /\ k.pc = "settle" /\ k.op = call[c].op /\ k.agent = a
      /\ ~k.slot /\ ~k.reservation /\ ~k.path /\ k.victim = call[c].victim
  BY <1>2 DEF CallState
<1> HIDE DEF k
<1>5. InControl(k) /\ ~Holding(k)
  BY <1>1, <1>2, <1>4 DEF InControl, Holding
<1>6. Registry'
  BY CommitRegistry
<1>7. SlotsAreCounted'
  BY <1>1, <1>3, <1>4, SlotReleased
<1>8. /\ residents' \in Seq(Agent) /\ IsInjective(residents')
      /\ Range(residents') = Range(residents) \cup {a}
  <2> HIDE DEF a
  <2> QED BY <1>1, <1>2, TouchFacts DEF Inv, TypeOK
<1>9. \A b \in Agent : ~Carries(k, b) /\ (Carries(call[c], b) <=> b = a)
  BY <1>3, <1>4, <1>5 DEF Carries
<1>10. OtherTypes'
  BY <1>1, <1>2, <1>8, TypesNow DEF OtherTypes
<1> HIDE DEF a
<1>11. \A b \in Agent : b \in Tracked' <=> b \in Tracked
  <2> TAKE b \in Agent
  <2> QED BY <1>1, <1>4, <1>8, <1>9, TrackedAfter DEF Inv
<1>12. LoadedIsTracked' /\ stray' = stray
  BY <1>1, <1>11 DEF Inv, LoadedIsTracked, Loaded
<1> QED BY <1>1, <1>4, <1>5, <1>6, <1>7, <1>10, <1>11, <1>12, ListMove

LEMMA UnwindInv ==
    ASSUME Inv, NEW c \in Caller, Unwind(c)
    PROVE  Inv'
<1>1. /\ call[c].pc = "unwind" /\ pending' = Released(pending) /\ Becomes(c, Done)
      /\ total' = Decrement(total) /\ ReleasePath(call[c])
      /\ UNCHANGED <<residents, owner, clashed, map, live, gen, busy, stray, budget>>
  BY DEF Unwind, Return, threadVars
<1>2. /\ call[c] \in CallState /\ InControl(call[c])
  BY HolderFacts
<1>3. /\ call[c].slot /\ call[c].reservation /\ call[c].victim \notin Agent
      /\ ~Holding(call[c])
  BY <1>1, <1>2 DEF InControl, Holding
<1>4. Registry'
  BY <1>1, <1>3, ReservationDropped
<1>5. SlotsAreCounted'
  BY <1>1, <1>3, DoneFacts, SlotReleased
<1>6. OtherTypes'
  BY <1>1, TypesNow, CountersWrap DEF OtherTypes, ReleasePath
<1>7. \A b \in Agent : ~Carries(Done, b) /\ ~Carries(call[c], b)
  BY <1>3, DoneFacts DEF Carries
<1>8. \A b \in Agent : b \in Tracked' <=> b \in Tracked
  <2> TAKE b \in Agent
  <2> QED BY <1>1, <1>7, DoneFacts, TrackedAfter DEF Inv
<1>9. LoadedIsTracked' /\ stray' = stray
  BY <1>1, <1>8 DEF Inv, LoadedIsTracked, Loaded
<1> QED BY <1>1, <1>4, <1>5, <1>6, <1>8, <1>9, DoneFacts, ListMove

LEMMA LoadLostInv ==
    ASSUME Inv, NEW c \in Caller, LoadLost(c)
    PROVE  Inv'
<1> DEFINE k == [call[c] EXCEPT !.pc = "touch", !.slot = FALSE]
<1>1. /\ call[c].pc = "lost" /\ pending' = Released(pending)
      /\ UNCHANGED <<residents, registryVars, map, live, gen, busy, stray, budget>>
      /\ Becomes(c, k) \/ Becomes(c, Done)
  BY DEF LoadLost, Return, threadVars
<1>2. call[c] \in CallState /\ InControl(call[c])
  BY HolderFacts
<1>3. /\ call[c].slot /\ call[c].reservation = FALSE /\ call[c].path = FALSE
      /\ call[c].victim = NoAgent /\ ~Holding(call[c])
  BY <1>1, <1>2 DEF InControl, CallState, Holding
<1>4. PICK j \in CallState : /\ Becomes(c, j) /\ InControl(j) /\ ~j.slot
                             /\ ~Holding(j) /\ j.victim = NoAgent
                             /\ SameReservation(call[c], j)
  <2>1. CASE Becomes(c, Done)
    BY <1>3, <2>1, DoneFacts DEF SameReservation
  <2>2. CASE Becomes(c, k)
    <3>1. /\ k \in CallState /\ k.pc = "touch" /\ ~k.slot /\ k.op = call[c].op
          /\ k.agent = call[c].agent /\ k.victim = call[c].victim
          /\ k.reservation = call[c].reservation /\ k.path = call[c].path
      BY <1>2 DEF CallState
    <3> HIDE DEF k
    <3>2. InControl(k) /\ ~Holding(k) /\ SameReservation(call[c], k)
      BY <1>1, <1>2, <1>3, <3>1 DEF InControl, Holding, SameReservation
    <3> QED BY <1>3, <2>2, <3>1, <3>2
  <2> QED BY <1>1, <2>1, <2>2
<1> HIDE DEF k
<1>5. Registry'
  BY <1>1, <1>4, RegistryKept
<1>6. SlotsAreCounted'
  BY <1>1, <1>3, <1>4, SlotReleased
<1>7. OtherTypes'
  BY <1>1, TypesNow DEF OtherTypes, registryVars
<1>8. \A b \in Agent : ~Carries(j, b) /\ ~Carries(call[c], b)
  BY <1>3, <1>4 DEF Carries
<1>9. \A b \in Agent : b \in Tracked' <=> b \in Tracked
  <2> TAKE b \in Agent
  <2> QED BY <1>1, <1>4, <1>8, TrackedAfter DEF Inv
<1>10. LoadedIsTracked' /\ stray' = stray
  BY <1>1, <1>9 DEF Inv, LoadedIsTracked, Loaded
<1> QED BY <1>4, <1>5, <1>6, <1>7, <1>9, <1>10, ListMove

LEMMA ForgetInv ==
    ASSUME Inv, NEW c \in Caller, Forget(c)
    PROVE  Inv'
<1> DEFINE a == call[c].agent
<1>1. /\ call[c].pc = "forget" /\ residents' = Without(residents, a) /\ Becomes(c, Done)
      /\ owner' \in {owner, [owner EXCEPT ![PathHeld(c)] = NoAgent]}
      /\ total' \in {total, Decrement(total)} /\ UNCHANGED reserved
      /\ clashed' \in {clashed, clashed \/ Clashes(c, a)} /\ Strays(a)
      /\ UNCHANGED <<pending, map, live, gen, busy, budget>>
  BY DEF Forget, Return, registryVars, threadVars, PathHeld
<1>2. /\ call[c] \in CallState /\ InControl(call[c]) /\ a \in Agent
      /\ PathHeld(c) \in Path
  BY <1>1, HolderFacts
<1>3. /\ Quiet(c, Done) /\ Done.slot = call[c].slot /\ Done.victim = call[c].victim
      /\ ~Holding(call[c])
  BY <1>1, FreeReturn DEF Quiet
<1>4. Registry'
  BY ForgetRegistry
<1>5. SlotsAreCounted'
  BY <1>1, <1>3, DoneFacts, SlotsKept
<1>6. /\ residents' \in Seq(Agent) /\ IsInjective(residents')
      /\ Range(residents') \subseteq Range(residents)
      /\ Range(residents) \ {a} \subseteq Range(residents')
  <2> HIDE DEF a
  <2> QED BY <1>1, WithoutFacts DEF Inv, TypeOK
<1>7. \A b \in Agent : ~Carries(Done, b) /\ ~Carries(call[c], b)
  BY <1>3, DoneFacts DEF Carries
<1> HIDE DEF a
<1>8. \A b \in Agent : /\ b # a /\ b \in Tracked => b \in Tracked'
                       /\ b \in Tracked' => b \in Tracked
  <2> TAKE b \in Agent
  <2> QED BY <1>1, <1>6, <1>7, DoneFacts, TrackedAfter DEF Inv
<1>9. /\ LoadedIsTracked' /\ stray' \subseteq Agent
      /\ \A b \in Agent : b \in Tracked' => (b \in stray' <=> b \in stray)
  BY <1>1, <1>2, <1>8, StrayMove
<1>10. OtherTypes'
  <2>1. clashed' \in BOOLEAN
    BY <1>1 DEF Inv, TypeOK
  <2> QED BY <1>1, <1>2, <1>6, <1>9, <2>1, TypesNow, CountersWrap DEF OtherTypes
<1> QED BY <1>1, <1>4, <1>5, <1>8, <1>9, <1>10, DoneFacts, ListMove

LEMMA CancelInv ==
    ASSUME Inv, NEW c \in Caller, Cancel(c)
    PROVE  Inv'
<1> DEFINE k == call[c]
           x == IF k.victim # NoAgent THEN k.victim ELSE k.agent
<1>1. /\ k.pc \in Awaiting /\ (k.pc = "commit" => k.op = "message")
      /\ budget["cancel"] > 0 /\ budget' = [budget EXCEPT !["cancel"] = @ - 1]
      /\ pending' = IF k.slot THEN Released(pending) ELSE pending
      /\ total' = IF k.reservation THEN Decrement(total) ELSE total
      /\ ReleasePath(k) /\ Becomes(c, Done) /\ Strays(x)
      /\ UNCHANGED <<residents, owner, clashed, map, live, gen, busy>>
  BY DEF Cancel, Return, threadVars
<1>2. k \in CallState /\ InControl(k) /\ k.agent \in Agent
  BY <1>1, HolderFacts DEF Awaiting
<1>3. k.pc # "commit" \/ ~k.reservation
  BY <1>1, <1>2 DEF InControl
<1>4. Registry'
  BY <1>1, <1>3, ReservationDropped
<1>5. SlotsAreCounted'
  <2>1. CASE k.slot
    BY <1>1, <2>1, DoneFacts, SlotReleased
  <2>2. CASE ~k.slot
    <3>1. k.slot = FALSE
      BY <1>2, <2>2 DEF CallState
    <3> QED BY <1>1, <3>1, DoneFacts, SlotsKept
  <2> QED BY <2>1, <2>2
<1>6. x \in Agent /\ \A b \in Agent : Carries(k, b) => b = x
  <2>1. CASE k.victim # NoAgent
    <3>1. k.victim \in Agent
      BY <1>2, <2>1 DEF CallState
    <3>2. ~Holding(k)
      BY <1>2, <3>1 DEF InControl, Holding
    <3> QED BY <2>1, <3>1, <3>2 DEF Carries
  <2>2. CASE k.victim = NoAgent
    BY <1>2, <2>2 DEF Carries
  <2> QED BY <2>1, <2>2
<1> HIDE DEF x
<1>7. \A b \in Agent : /\ b # x /\ b \in Tracked => b \in Tracked'
                       /\ b \in Tracked' => b \in Tracked
  <2> TAKE b \in Agent
  <2> QED BY <1>1, <1>6, DoneFacts, TrackedAfter DEF Inv
<1>8. /\ LoadedIsTracked' /\ stray' \subseteq Agent
      /\ \A b \in Agent : b \in Tracked' => (b \in stray' <=> b \in stray)
  BY <1>1, <1>6, <1>7, StrayMove
<1>9. OtherTypes'
  <2>1. budget' \in [Event -> Nat]
    BY <1>1 DEF Inv, TypeOK, Event
  <2>2. reserved' \subseteq reserved
    BY <1>1 DEF ReleasePath
  <2> QED BY <1>1, <1>8, <2>1, <2>2, TypesNow, CountersWrap DEF OtherTypes
<1> QED BY <1>1, <1>4, <1>5, <1>7, <1>8, <1>9, DoneFacts, ListMove

-----------------------------------------------------------------------------
(* Slots: granted, and filled with a thread.                               *)

\* The open agents are residents, victims in hand, or about to be committed.
LEMMA OpenIsCovered ==
    ASSUME Inv
    PROVE  Cardinality(Open)
               <= Len(residents) + Cardinality({d \in Caller : call[d].victim \in Agent})
                  + Cardinality({d \in Caller : Holding(call[d])})
<1> DEFINE V == {d \in Caller : call[d].victim \in Agent}
           K == {d \in Caller : Holding(call[d])}
           f == [d \in V |-> call[d].victim]
           g == [d \in K |-> call[d].agent]
           A == {f[d] : d \in V}
           B == {g[d] : d \in K}
           R == Range(residents)
<1>1. IsFiniteSet(V) /\ IsFiniteSet(K) /\ Cardinality(V) \in Nat /\ Cardinality(K) \in Nat
  BY AllAreFinite
<1>2. DOMAIN f = V /\ DOMAIN g = K
  OBVIOUS
<1>3. Open \subseteq (R \cup A) \cup B
  <2> SUFFICES ASSUME NEW a \in Open PROVE a \in R \/ a \in A \/ a \in B
    OBVIOUS
  <2>1. a \in Agent /\ (a \in R \/ \E d \in Caller : Carries(call[d], a))
    BY TrackedIff DEF Open
  <2>2. ASSUME NEW d \in Caller, call[d].victim = a PROVE a \in A
    <3>1. d \in V /\ f[d] = a
      BY <2>1, <2>2
    <3> QED BY <3>1
  <2>3. ASSUME NEW d \in Caller, Holding(call[d]), call[d].agent = a PROVE a \in B
    <3>1. d \in K /\ g[d] = a
      BY <2>3
    <3> QED BY <3>1
  <2> QED BY <2>1, <2>2, <2>3 DEF Carries
<1> HIDE DEF f, g, V, K
<1>4. IsFiniteSet(A) /\ Cardinality(A) <= Cardinality(V)
  BY <1>1, <1>2, ImageIsSmall
<1>5. IsFiniteSet(B) /\ Cardinality(B) <= Cardinality(K)
  BY <1>1, <1>2, ImageIsSmall
<1>6. IsFiniteSet(R) /\ Cardinality(R) <= Len(residents) /\ Len(residents) \in Nat
  BY RangeIsSmall DEF Inv, TypeOK
<1> HIDE DEF A, B, R
<1>7. IsFiniteSet(R \cup A) /\ Cardinality(R \cup A) <= Cardinality(R) + Cardinality(A)
  BY <1>4, <1>6, UnionIsSmall
<1>8. /\ IsFiniteSet((R \cup A) \cup B)
      /\ Cardinality((R \cup A) \cup B) <= Cardinality(R \cup A) + Cardinality(B)
  BY <1>5, <1>7, UnionIsSmall
<1>9. Cardinality(Open) <= Cardinality((R \cup A) \cup B)
  BY <1>3, <1>8, FS_Subset
<1>10. /\ Cardinality(Open) \in Nat /\ Cardinality(R) \in Nat /\ Cardinality(A) \in Nat
       /\ Cardinality(B) \in Nat /\ Cardinality(R \cup A) \in Nat
       /\ Cardinality((R \cup A) \cup B) \in Nat
  BY <1>3, <1>4, <1>5, <1>6, <1>7, <1>8, FS_CardinalityType, FS_Subset
<1>11. Cardinality(Open) <= Len(residents) + Cardinality(V) + Cardinality(K)
  BY <1>1, <1>4, <1>5, <1>6, <1>7, <1>8, <1>9, <1>10
<1> QED BY <1>11 DEF V, K

\* A slot is either about to be committed or still waiting for its thread.
LEMMA SlotsSplit ==
    ASSUME Inv
    PROVE  Cardinality(SlotHolders)
               = Cardinality({d \in Caller : Holding(call[d])}) + Cardinality(Waiting)
<1> DEFINE K == {d \in Caller : Holding(call[d])}
<1>1. \A d \in Caller : Holding(call[d]) => call[d].slot
  BY DEF Holding, Inv, Control, InControl
<1>2. SlotHolders = K \cup Waiting /\ K \cap Waiting = {}
  BY <1>1 DEF SlotHolders, Waiting
<1>3. IsFiniteSet(K) /\ IsFiniteSet(Waiting)
  BY AllAreFinite DEF Waiting
<1> HIDE DEF K
<1>4. Cardinality(SlotHolders) = Cardinality(K) + Cardinality(Waiting)
  BY <1>2, <1>3, UnionIsSmall
<1> QED BY <1>4 DEF K

\* A slot is granted below the capacity.  Only callers other than the one that
\* reserves can have victims in their hands.
LEMMA ReserveSlotInv ==
    ASSUME Inv, NEW c \in Caller, ReserveSlot(c)
    PROVE  Inv'
<1> DEFINE k == [call[c] EXCEPT !.slot = TRUE,
                    !.pc = IF call[c].op = "spawn" THEN "register" ELSE "check"]
           p == [call[c] EXCEPT !.pc = "pop", !.scan = Len(residents)]
<1>1. /\ call[c].pc = "reserve"
      /\ UNCHANGED <<residents, registryVars, map, live, gen, busy, stray, budget>>
      /\ \/ /\ Len(residents) + pending < Capacity /\ pending' = pending + 1
            /\ Becomes(c, k)
         \/ Becomes(c, p) /\ UNCHANGED pending
  BY DEF ReserveSlot, threadVars
<1>2. call[c] \in CallState /\ InControl(call[c]) /\ Len(residents) \in Nat
  BY DEF Inv, TypeOK, Control
<1>3. call[c].op \in {"spawn", "message"}
  BY <1>1, <1>2 DEF InControl
<1>4. CASE Becomes(c, p) /\ UNCHANGED pending
  <2>1. NothingAdded
    BY <1>1, <1>4 DEF Inv, TypeOK, NothingAdded
  <2>2. Quiet(c, p)
    BY <1>1, <1>2, <1>3, FreeMove
  <2> HIDE DEF p
  <2> QED BY <1>4, <2>1, <2>2, QuietMove
<1>5. CASE /\ Len(residents) + pending < Capacity /\ pending' = pending + 1
           /\ Becomes(c, k)
  <2>1. /\ ~call[c].slot /\ ~call[c].path /\ ~call[c].reservation
        /\ call[c].victim \notin Agent /\ ~Holding(call[c])
    BY <1>1, <1>2 DEF InControl, Holding
  <2>2. /\ k \in CallState /\ k.slot /\ k.victim = call[c].victim
        /\ k.pc = (IF call[c].op = "spawn" THEN "register" ELSE "check")
        /\ k.reservation = call[c].reservation /\ k.path = call[c].path
        /\ k.agent = call[c].agent /\ k.op = call[c].op
    BY <1>2 DEF CallState
  <2> HIDE DEF k, p
  <2>3. InControl(k) /\ ~Holding(k) /\ SameReservation(call[c], k)
    BY <1>1, <1>2, <1>3, <2>1, <2>2 DEF InControl, Holding, SameReservation
  <2>4. /\ SlotHolders' = SlotHolders \cup {c} /\ Waiting' = Waiting \cup {c}
        /\ c \notin SlotHolders /\ c \notin Waiting
    BY <1>5, <2>1, <2>2, <2>3, HoldersAfter DEF SlotHolders, Waiting, Inv
  <2>5. IsFiniteSet(Waiting) /\ IsFiniteSet(SlotHolders) /\ IsFiniteSet(Caller)
    BY AllAreFinite DEF Waiting, SlotHolders
  <2>6. /\ Cardinality(SlotHolders') = Cardinality(SlotHolders) + 1
        /\ Cardinality(Waiting') = Cardinality(Waiting) + 1
    BY <2>4, <2>5, CountOne
  <2>7. SlotsAreCounted'
    BY <1>5, <2>6 DEF Inv, SlotsAreCounted
  <2>8. Registry'
    BY <1>1, <1>5, <2>2, <2>3, RegistryKept
  <2>9. \A a \in Agent : a \in Tracked' <=> a \in Tracked
    <3>1. \A a \in Agent : ~Carries(k, a) /\ ~Carries(call[c], a)
      BY <2>1, <2>2, <2>3 DEF Carries
    <3> TAKE a \in Agent
    <3> QED BY <1>1, <1>5, <2>2, <3>1, TrackedAfter DEF Inv
  <2>10. LoadedIsTracked'
    BY <1>1, <2>9 DEF Inv, LoadedIsTracked, Loaded
  <2>11. Open' = Open
    BY <1>1, <2>9 DEF Open
  <2>12. OpenIsBounded'
    <3> DEFINE V == {d \in Caller : call[d].victim \in Agent}
               K == {d \in Caller : Holding(call[d])}
    <3>1. V \in SUBSET (Caller \ {c}) /\ IsFiniteSet(Caller \ {c})
      BY <2>1, AllAreFinite
    <3>2. Cardinality(V) <= Cardinality(Caller) - 1
      BY <2>5, <3>1, FS_Subset, CountOne
    <3>3. /\ Cardinality(V) \in Nat /\ Cardinality(K) \in Nat
          /\ Cardinality(Caller) \in Nat /\ Cardinality(Open) \in Nat
          /\ Cardinality(Waiting) \in Nat
      BY AllAreFinite DEF Open, Waiting
    <3>4. Cardinality(Open) <= Len(residents) + Cardinality(V) + Cardinality(K)
      BY OpenIsCovered
    <3>5. Cardinality(SlotHolders) = Cardinality(K) + Cardinality(Waiting)
      BY SlotsSplit
    <3>6. pending = Cardinality(SlotHolders)
      BY DEF Inv, SlotsAreCounted
    <3> HIDE DEF V, K
    <3>7. Cardinality(Open) + Cardinality(Waiting) + 1 <= Capacity + Cardinality(Caller) - 1
      BY <1>2, <1>5, <3>2, <3>3, <3>4, <3>5, <3>6
    <3> QED BY <2>6, <2>11, <3>3, <3>7 DEF OpenIsBounded
  <2>13. OtherTypes'
    BY <1>1, TypesNow DEF OtherTypes, registryVars
  <2> QED BY <1>5, <2>2, <2>3, <2>7, <2>8, <2>10, <2>12, <2>13, AfterMove
<1> QED BY <1>1, <1>4, <1>5

\* The slot stops waiting when at most one agent becomes open.
LEMMA SlotFilled ==
    ASSUME Inv, NEW c \in Waiting, Waiting' = Waiting \ {c}, NEW a \in Agent,
           Open' \subseteq Open \cup {a}
    PROVE  OpenIsBounded'
<1>1. /\ IsFiniteSet(Open) /\ IsFiniteSet({a}) /\ IsFiniteSet(Waiting)
      /\ Cardinality({a}) = 1 /\ Cardinality(Open) \in Nat
      /\ Cardinality(Open') \in Nat /\ Cardinality(Caller) \in Nat
  BY AllAreFinite, FS_Singleton DEF Open, Waiting
<1>2. IsFiniteSet(Open \cup {a}) /\ Cardinality(Open \cup {a}) <= Cardinality(Open) + 1
  BY <1>1, UnionIsSmall
<1>3. Cardinality(Open') <= Cardinality(Open \cup {a})
  BY <1>2, FS_Subset
<1>4. Cardinality(Waiting') = Cardinality(Waiting) - 1 /\ Cardinality(Waiting) \in Nat
  BY <1>1, CountOne
<1>5. Cardinality(Open \cup {a}) \in Nat
  BY <1>2, FS_CardinalityType
<1>6. Cardinality(Open) + Cardinality(Waiting) <= Capacity + Cardinality(Caller) - 1
  BY DEF Inv, OpenIsBounded
<1>7. Cardinality(Open') + Cardinality(Waiting') <= Capacity + Cardinality(Caller) - 1
  BY <1>1, <1>2, <1>3, <1>4, <1>5, <1>6
<1> QED BY <1>7 DEF OpenIsBounded

\* A caller gets the thread for its slot.
LEMMA HoldMove ==
    ASSUME Inv, NEW c \in Caller, NEW k \in CallState, InControl(k), Becomes(c, k),
           Holding(k), ~Holding(call[c]), call[c].slot, k.slot, SameReservation(call[c], k),
           call[c].victim \notin Agent, k.victim = call[c].victim, k.agent \in Agent,
           UNCHANGED <<residents, pending, registryVars>>, OtherTypes',
           \A b \in Agent : b # k.agent /\ map'[b] # 0 => map[b] # 0,
           \A b \in Agent : b # k.agent \/ b \in Tracked' => (b \in stray' <=> b \in stray)
    PROVE  Inv'
<1>1. Registry'
  BY RegistryKept
<1>2. SlotsAreCounted'
  <2>1. SlotHolders' = SlotHolders
    BY HoldersAfter DEF Inv, SlotHolders
  <2> QED BY <2>1 DEF Inv, SlotsAreCounted
<1>3. Waiting' = Waiting \ {c} /\ c \in Waiting
  BY HoldersAfter DEF Waiting, Inv
<1>4. \A b \in Agent : ~Carries(call[c], b) /\ (Carries(k, b) <=> b = k.agent)
  BY DEF Carries
<1>5. \A b \in Agent : /\ b \in Tracked => b \in Tracked'
                       /\ b \in Tracked' <=> b \in Tracked \/ b = k.agent
  <2> TAKE b \in Agent
  <2>1. Range(residents') = Range(residents)
    OBVIOUS
  <2> QED BY <1>4, <2>1, TrackedAfter DEF Inv
<1>6. LoadedIsTracked'
  <2> SUFFICES ASSUME NEW b \in Agent, map'[b] # 0 PROVE b \in Tracked' \/ b \in stray'
    BY DEF LoadedIsTracked, Loaded
  <2>1. CASE b = k.agent
    BY <1>5, <2>1
  <2>2. CASE b # k.agent
    <3>1. b \in Tracked \/ b \in stray
      BY <2>2 DEF Inv, LoadedIsTracked, Loaded
    <3> QED BY <1>5, <2>2, <3>1
  <2> QED BY <2>1, <2>2
<1>7. Open' \subseteq Open \cup {k.agent}
  BY <1>5 DEF Open
<1>8. OpenIsBounded'
  BY <1>3, <1>7, SlotFilled
<1> QED BY <1>1, <1>2, <1>6, <1>8, AfterMove

\* A caller removes or adds a thread that it does not put into the list.
LEMMA QuietStray ==
    ASSUME Inv, NEW c \in Caller, NEW k, Quiet(c, k), Becomes(c, k),
           UNCHANGED <<residents, pending, registryVars>>, NEW x \in Agent, Strays(x),
           \A a \in Agent : a # x /\ map'[a] # 0 => map[a] # 0, OtherTypes'
    PROVE  Inv'
<1>1. /\ k \in CallState /\ InControl(k) /\ k.slot = call[c].slot
      /\ SameReservation(call[c], k) /\ ~Holding(k) /\ ~Holding(call[c])
  BY DEF Quiet
<1>2. Registry' /\ SlotsAreCounted'
  BY <1>1, RegistryKept, SlotsKept
<1>3. \A a \in Agent : a \in Tracked' <=> a \in Tracked
  BY QuietTracks
<1>4. /\ LoadedIsTracked'
      /\ \A a \in Agent : a \in Tracked' => (a \in stray' <=> a \in stray)
  BY <1>3, StrayMove
<1> QED BY <1>1, <1>2, <1>3, <1>4, ListMove

\* A running thread fills the slot of a load, and a direct resume only uses it;
\* a dead thread is removed.
LEMMA CheckThreadInv ==
    ASSUME Inv, NEW c \in Caller, CheckThread(c)
    PROVE  Inv'
<1> DEFINE a == call[c].agent
           k == [call[c] EXCEPT !.pc = "commit"]
           l == [call[c] EXCEPT !.pc = "create"]
<1>1. /\ call[c].pc = "check" /\ UNCHANGED <<residents, pending, registryVars, live, gen, budget>>
      /\ \/ call[c].op = "message" /\ Becomes(c, k) /\ UNCHANGED <<map, busy, stray>>
         \/ call[c].op = "resume" /\ Return(c) /\ UNCHANGED <<map, busy, stray>>
         \/ /\ Becomes(c, l) /\ map' = [map EXCEPT ![a] = 0]
            /\ busy' = [busy EXCEPT ![a] = FALSE] /\ Strays(a)
  BY DEF CheckThread, Goto
<1>2. call[c] \in CallState /\ InControl(call[c]) /\ a \in Agent
  BY <1>1, HolderFacts
<1>3. /\ ~call[c].reservation /\ ~call[c].path /\ call[c].victim \notin Agent
      /\ ~Holding(call[c]) /\ (call[c].slot <=> call[c].op # "resume")
  BY <1>1, <1>2 DEF InControl, Holding
<1>4. CASE call[c].op = "message" /\ Becomes(c, k) /\ UNCHANGED <<map, busy, stray>>
  <2>1. /\ k \in CallState /\ k.pc = "commit" /\ k.op = call[c].op /\ k.agent = a
        /\ k.slot = call[c].slot /\ k.reservation = call[c].reservation
        /\ k.path = call[c].path /\ k.victim = call[c].victim
    BY <1>2 DEF CallState
  <2> HIDE DEF k, l, a
  <2>2. InControl(k) /\ Holding(k) /\ SameReservation(call[c], k)
    BY <1>1, <1>2, <1>3, <1>4, <2>1 DEF InControl, Holding, SameReservation, a
  <2>3. OtherTypes'
    BY <1>1, <1>4, TypesNow DEF OtherTypes, registryVars
  <2>4. call[c].slot /\ map' = map /\ stray' = stray
    BY <1>3, <1>4
  <2> QED BY <1>1, <1>2, <1>3, <1>4, <2>1, <2>2, <2>3, <2>4, HoldMove
<1>5. CASE call[c].op = "resume" /\ Return(c) /\ UNCHANGED <<map, busy, stray>>
  <2>1. NothingAdded
    BY <1>1, <1>5 DEF Inv, TypeOK, NothingAdded
  <2> QED BY <1>1, <1>5, <2>1, QuietReturn
<1>6. CASE /\ Becomes(c, l) /\ map' = [map EXCEPT ![a] = 0]
           /\ busy' = [busy EXCEPT ![a] = FALSE] /\ Strays(a)
  <2>1. /\ l \in CallState /\ l.pc = "create" /\ l.op = call[c].op /\ l.agent = a
        /\ l.slot = call[c].slot /\ l.reservation = call[c].reservation
        /\ l.path = call[c].path /\ l.victim = call[c].victim
    BY <1>2 DEF CallState
  <2> HIDE DEF k, l, a
  <2>2. Quiet(c, l)
    BY <1>1, <1>2, <1>3, <2>1 DEF InControl, Holding, SameReservation, Quiet, a
  <2>3. /\ map' \in [Agent -> Nat] /\ busy' \in [Agent -> BOOLEAN]
        /\ \A b \in Agent : b # a /\ map'[b] # 0 => map[b] # 0
    BY <1>2, <1>6 DEF Inv, TypeOK
  <2>4. stray' \subseteq Agent
    BY <1>2, <1>6, StraysFacts DEF Inv
  <2>5. OtherTypes'
    BY <1>1, <2>3, <2>4, TypesNow DEF OtherTypes, registryVars
  <2> QED BY <1>1, <1>2, <1>6, <2>2, <2>3, <2>5, QuietStray
<1> QED BY <1>1, <1>4, <1>5, <1>6

\* The slot of a new thread stops waiting when the agent becomes open; the
\* thread of a direct resume goes astray.
LEMMA CreateThreadInv ==
    ASSUME Inv, NEW c \in Caller, CreateThread(c)
    PROVE  Inv'
<1> DEFINE a == call[c].agent
           k == [call[c] EXCEPT !.pc = "record"]
           u == [call[c] EXCEPT !.pc = "unwind"]
           l == [call[c] EXCEPT !.pc = "lost"]
<1>1. /\ call[c].pc = "create" /\ UNCHANGED <<residents, pending, registryVars, budget>>
      /\ \/ NewSession(a) /\ Becomes(c, k) /\ Strays(a)
         \/ /\ UNCHANGED <<map, live, gen, busy, stray>>
            /\ \/ call[c].op = "spawn" /\ Becomes(c, u)
               \/ call[c].op = "message" /\ Becomes(c, l)
               \/ call[c].op = "resume" /\ Return(c)
  BY DEF CreateThread, Goto, threadVars
<1>2. call[c] \in CallState /\ InControl(call[c]) /\ a \in Agent
  BY <1>1, HolderFacts
<1>3. /\ call[c].victim \notin Agent /\ ~Holding(call[c])
      /\ (call[c].slot <=> call[c].op # "resume")
      /\ (call[c].reservation <=> call[c].op = "spawn")
  BY <1>1, <1>2 DEF InControl, Holding
<1>4. CASE UNCHANGED <<map, live, gen, busy, stray>>
  <2>1. NothingAdded
    BY <1>1, <1>4 DEF Inv, TypeOK, NothingAdded
  <2>2. CASE call[c].op = "resume" /\ Return(c)
    BY <1>1, <2>1, <2>2, QuietReturn
  <2>3. CASE call[c].op = "spawn" /\ Becomes(c, u)
    <3>1. /\ u \in CallState /\ u.pc = "unwind" /\ u.op = call[c].op /\ u.agent = a
          /\ u.slot = call[c].slot /\ u.reservation = call[c].reservation
          /\ u.path = call[c].path /\ u.victim = call[c].victim
      BY <1>2 DEF CallState
    <3> HIDE DEF u, a
    <3>2. Quiet(c, u)
      BY <1>1, <1>2, <1>3, <2>3, <3>1 DEF InControl, Holding, SameReservation, Quiet, a
    <3> QED BY <2>1, <2>3, <3>2, QuietMove
  <2>4. CASE call[c].op = "message" /\ Becomes(c, l)
    <3>1. /\ l \in CallState /\ l.pc = "lost" /\ l.op = call[c].op /\ l.agent = a
          /\ l.slot = call[c].slot /\ l.reservation = call[c].reservation
          /\ l.path = call[c].path /\ l.victim = call[c].victim
      BY <1>2 DEF CallState
    <3> HIDE DEF l, a
    <3>2. Quiet(c, l)
      BY <1>1, <1>2, <1>3, <2>4, <3>1 DEF InControl, Holding, SameReservation, Quiet, a
    <3> QED BY <2>1, <2>4, <3>2, QuietMove
  <2>5. CASE NewSession(a) /\ Becomes(c, k) /\ Strays(a)
    <3>1. gen'[a] = gen[a] + 1 /\ gen[a] \in Nat
      BY <1>2, <2>5 DEF NewSession, Inv, TypeOK
    <3> QED BY <1>4, <3>1
  <2> QED BY <1>1, <2>2, <2>3, <2>4, <2>5
<1>5. CASE NewSession(a) /\ Becomes(c, k) /\ Strays(a)
  <2>1. /\ k \in CallState /\ k.pc = "record" /\ k.op = call[c].op /\ k.agent = a
        /\ k.slot = call[c].slot /\ k.reservation = call[c].reservation
        /\ k.path = call[c].path /\ k.victim = call[c].victim
    BY <1>2 DEF CallState
  <2> HIDE DEF k, u, l
  <2>2. /\ gen' \in [Agent -> Nat] /\ map' \in [Agent -> Nat]
        /\ live' \subseteq Agent \X Nat /\ busy' \in [Agent -> BOOLEAN]
        /\ \A b \in Agent : b # a => map'[b] = map[b]
    BY <1>2, <1>5 DEF NewSession, Inv, TypeOK
  <2>3. /\ stray' \subseteq Agent
        /\ \A b \in Agent : b # a \/ b \in Tracked' => (b \in stray' <=> b \in stray)
    BY <1>2, <1>5, StraysFacts DEF Inv
  <2>4. OtherTypes'
    BY <1>1, <2>2, <2>3, TypesNow DEF OtherTypes, registryVars
  <2>5. CASE call[c].op = "resume"
    <3>1. Quiet(c, k)
      BY <1>1, <1>2, <1>3, <2>1, <2>5 DEF InControl, Holding, SameReservation, Quiet
    <3> HIDE DEF a
    <3> QED BY <1>1, <1>2, <1>5, <2>2, <2>4, <3>1, QuietStray
  <2>6. CASE call[c].op # "resume"
    <3>1. InControl(k) /\ Holding(k) /\ SameReservation(call[c], k)
      BY <1>1, <1>2, <1>3, <2>1, <2>6 DEF InControl, Holding, SameReservation
    <3> HIDE DEF a
    <3> QED BY <1>1, <1>2, <1>3, <1>5, <2>1, <2>2, <2>3, <2>4, <2>6, <3>1, HoldMove
  <2> QED BY <2>5, <2>6
<1> QED BY <1>1, <1>4, <1>5

-----------------------------------------------------------------------------
(* The theorems.                                                           *)

LEMMA StutterInv ==
    ASSUME Inv, busy' \in [Agent -> BOOLEAN],
           UNCHANGED <<residents, pending, owner, reserved, total, clashed, map, live, gen,
                       call, stray, budget>>
    PROVE  Inv'
<1>1. Waiting' = Waiting /\ Tracked' = Tracked /\ SlotHolders' = SlotHolders
  BY DEF Waiting, Tracked, SlotHolders
<1>2. Open' = Open
  BY <1>1 DEF Open
<1>3. OpenIsBounded' /\ SlotsAreCounted'
  BY <1>1, <1>2 DEF Inv, OpenIsBounded, SlotsAreCounted
<1>4. LoadedIsTracked'
  BY <1>1 DEF Inv, LoadedIsTracked, Loaded
<1>5. Owned' = Owned /\ Outstanding' = Outstanding
  BY DEF Owned, Outstanding
<1>6. Registry'
  BY <1>5 DEF Inv, Registry, PathHeld
<1>7. TypeOK'
  BY DEF Inv, TypeOK
<1>8. Control' /\ IsInjective(residents')
  BY DEF Inv, Control
<1> QED BY <1>3, <1>4, <1>6, <1>7, <1>8 DEF Inv

\* At start as many paths have an owner as agents were restored.
LEMMA RestoredAreOwned ==
    ASSUME Init
    PROVE  Cardinality(Owned) = Cardinality(Restored)
<1> DEFINE f == [a \in Restored |-> PathOf[a]]
           g == [p \in Owned |-> owner[p]]
<1>1. IsFiniteSet(Restored) /\ IsFiniteSet(Owned)
  BY AllAreFinite DEF Owned
<1>2. /\ \A a \in Restored : PathOf[a] \in Path /\ owner[PathOf[a]] = a
      /\ \A p \in Owned : owner[p] \in Restored /\ PathOf[owner[p]] = p
  BY DEF Init, Owned
<1>3. {f[a] : a \in Restored} = Owned
  BY <1>2 DEF Owned
<1>4. {g[p] : p \in Owned} = Restored
  <2>1. \A a \in Restored : PathOf[a] \in Owned /\ g[PathOf[a]] = a
    BY <1>2 DEF Owned
  <2>2. \A p \in Owned : g[p] \in Restored
    BY <1>2
  <2> HIDE DEF g
  <2>3. \A a \in Restored : a \in {g[p] : p \in Owned}
    BY <2>1
  <2> QED BY <2>2, <2>3
<1>5. DOMAIN f = Restored /\ DOMAIN g = Owned
  OBVIOUS
<1> HIDE DEF f, g
<1>6. Cardinality(Owned) <= Cardinality(Restored) /\ Cardinality(Restored) <= Cardinality(Owned)
  BY <1>1, <1>3, <1>4, <1>5, ImageIsSmall
<1> QED BY <1>1, <1>6, FS_CardinalityType

LEMMA InvInit ==
    ASSUME Init
    PROVE  Inv
<1>1. Cardinality(Restored) \in Nat /\ Cardinality({}) = 0
  BY AllAreFinite, FS_EmptySet
<1>2. /\ SlotHolders = {} /\ Outstanding = {} /\ Waiting = {}
  BY DoneFacts DEF Init, SlotHolders, Outstanding, Waiting
<1>3. Cardinality(Owned) = Cardinality(Restored)
  BY RestoredAreOwned
<1>4. Cardinality(Restored) \in 0..UsizeMax
  <2>1. Owned \in SUBSET Path
    BY DEF Owned
  <2>2. Cardinality(Owned) <= Cardinality(Path)
    BY <2>1, FS_Subset
  <2>3. Cardinality(Path) \in Nat /\ Cardinality(Caller) \in Nat
    BY FS_CardinalityType
  <2> QED BY <1>1, <1>3, <2>2, <2>3
<1>5. TypeOK
  <2>1. owner \in [Path -> Agent \cup {NoAgent}]
    BY DEF Init
  <2>2. call \in [Caller -> CallState]
    BY DoneFacts DEF Init
  <2>3. residents \in Seq(Agent) /\ pending \in Nat /\ live \subseteq Agent \X Nat
    BY DEF Init
  <2>4. /\ map \in [Agent -> Nat] /\ gen \in [Agent -> Nat] /\ busy \in [Agent -> BOOLEAN]
        /\ reserved \subseteq Path /\ stray \subseteq Agent /\ clashed \in BOOLEAN
    BY DEF Init
  <2>5. total \in 0..UsizeMax /\ budget \in [Event -> Nat]
    BY <1>4 DEF Init
  <2> QED BY <2>1, <2>2, <2>3, <2>4, <2>5 DEF TypeOK
<1>6. Control
  BY DoneFacts DEF Init, Control
<1>7. Registry
  BY <1>1, <1>2, <1>3, DoneFacts DEF Init, Registry
<1>8. SlotsAreCounted
  BY <1>1, <1>2 DEF Init, SlotsAreCounted
<1>9. IsInjective(residents) /\ Range(residents) = {}
  BY DEF Init, IsInjective, Range
<1>10. LoadedIsTracked
  BY DEF Init, LoadedIsTracked, Loaded
<1>11. Open = {}
  BY <1>9, TrackedIff, DoneFacts DEF Init, Open
<1>12. OpenIsBounded
  <2>1. Cardinality(Caller) \in Nat /\ Cardinality(Caller) # 0
    BY AllAreFinite, FS_EmptySet
  <2> QED BY <1>1, <1>2, <1>11, <2>1 DEF OpenIsBounded
<1> QED BY <1>5, <1>6, <1>7, <1>8, <1>9, <1>10, <1>12 DEF Inv

LEMMA NextInv ==
    ASSUME Inv, [Next]_vars
    PROVE  Inv'
<1>1. ASSUME NEW c \in Caller, Start(c) \/ CallerStep(c) \/ Cancel(c) PROVE Inv'
  BY <1>1, StartInv, ReserveSlotInv, PopCandidateInv, InspectInv, ShutdownInv,
     RemoveVictimInv, RegisterInv, CheckThreadInv, CreateThreadInv, RecordInv, CommitInv,
     SettleInv, UnwindInv, LoadLostInv, LookInv, TouchLoadedInv, LookupInv, SubmitInv,
     StopInv, DropThreadInv, ForgetInv, CancelInv
     DEF CallerStep, Reserving, Creating, Addressing
<1>2. ASSUME NEW a \in Agent, TurnBoundary(a) PROVE Inv'
  BY <1>2, StutterInv DEF TurnBoundary, registryVars, Inv, TypeOK
<1>3. CASE UNCHANGED vars
  BY <1>3, StutterInv DEF vars, registryVars, threadVars, Inv, TypeOK
<1> QED BY <1>1, <1>2, <1>3 DEF Next

\* The inductive invariant holds in every reachable state: what a caller holds
\* follows from where it is, and the registry, the slots, the list and the map
\* agree up to the agents astray and the overwritten entries.
THEOREM InvHolds == Spec => []Inv
<1>1. Init => Inv
  BY InvInit
<1>2. Inv /\ [Next]_vars => Inv'
  BY NextInv
<1> QED BY <1>1, <1>2, PTL DEF Spec

\* Every variable keeps its type, the registry's count within a usize that
\* wraps around.
THEOREM TypeCorrect == Spec => []TypeOK
BY InvHolds, PTL DEF Inv

\* pending_slots is exactly what it counts, and so is total_count until a load,
\* resume or close writes the entry of a spawn that has not committed, whatever
\* calls fail, overlap or are cancelled.
THEOREM CountsStayExact == Spec => []CountsAreExact
<1>1. Inv => CountsAreExact
  BY DEF Inv, SlotsAreCounted, SlotHolders, Registry, Owned, CountsAreExact
<1> QED BY <1>1, InvHolds, PTL

\* An agent that is loaded is in the list of residents, in the hands of a caller
\* that puts it there, or astray: left by a cancelled call, by a direct resume
\* or by a close that raced with a load.
THEOREM LoadedStaysTracked == Spec => []LoadedIsTracked
BY InvHolds, PTL DEF Inv

\* Apart from the agents astray, the agents in memory exceed the capacity by
\* fewer than there are callers.
THEOREM ResidentsStayBounded == Spec => []ResidentsAreBounded
<1>1. Inv => ResidentsAreBounded
  <2> SUFFICES ASSUME Inv PROVE ResidentsAreBounded
    OBVIOUS
  <2> DEFINE L == {a \in Agent \ stray : Loaded(a)}
  <2>1. L \subseteq Open
    BY DEF Inv, LoadedIsTracked, Open
  <2>2. /\ IsFiniteSet(Open) /\ Cardinality(Open) \in Nat /\ Cardinality(L) \in Nat
        /\ Cardinality(Waiting) \in Nat /\ Cardinality(Caller) \in Nat
    BY AllAreFinite DEF Open, Waiting
  <2>3. Cardinality(L) <= Cardinality(Open)
    BY <2>1, <2>2, FS_Subset
  <2>4. Cardinality(Open) + Cardinality(Waiting) <= Capacity + Cardinality(Caller) - 1
    BY DEF Inv, OpenIsBounded
  <2> HIDE DEF L
  <2>5. Cardinality(L) <= Capacity + Cardinality(Caller) - 1
    BY <2>2, <2>3, <2>4
  <2> QED BY <2>5 DEF L, ResidentsAreBounded
<1> QED BY <1>1, InvHolds, PTL
==============================================================================
