----------------------- MODULE ProviderRequestsProofs -----------------------
(***************************************************************************)
(* Proofs about ProviderRequests for every set of turns, every time to     *)
(* live, backoff and bound.  A cooldown is kept whatever fails; leases are *)
(* exclusive unless a turn can ask again while a release of its own is     *)
(* still under way, which takes a failing statement and a second request.  *)
(***************************************************************************)
EXTENDS ProviderRequests, TLAPS

\* The turns that have a request of their own at hand.
Busy == {"asked", "streaming", "record", "recorded", "tools"}

\* A clock value in hand is not later than the clock.
ReadsClock == \A t \in Turn : turn[t].now <= clock

\* A cooldown that runs has met no new lease.
CooldownIsUnleased == row.cooldown > clock => row.owner = NoOwner

\* What holds whatever fails.
Inv == TypeOK /\ ReadsClock /\ CooldownIsUnleased

\* The condition under which leases are exclusive.
NoReuse == \A t \in Faulty : MaxRequests[t] <= 1

\* The row names the request that is under way with an unexpired lease.
LiveOwns == \A t \in Turn :
    Live(t) => row.owner = t /\ row.lease = turn[t].until

\* A turn with a release under way asks no more.
ReleasedIsDone == \A t \in Turn : releases[t] > 0 =>
    /\ turn[t].pc \in {"idle", "over", "dead"}
    /\ turn[t].pc = "idle" => made[t] >= MaxRequests[t]

\* A request at hand has been counted, and only a failed statement lets the
\* guard keep its lease past the recording.
Counted == \A t \in Turn :
    /\ turn[t].pc \in Busy => made[t] >= 1
    /\ turn[t].pc = "tools" /\ turn[t].guard => t \in Faulty

\* What holds when no turn can ask again under its own release.
LeaseInv == LiveOwns /\ ReleasedIsDone /\ Counted

-----------------------------------------------------------------------------
(* Types.                                                                  *)

Pc == {"idle", "asked", "streaming", "record", "recorded", "tools", "over", "dead"}

\* The states a step can give a turn have their type and these fields.
LEMMA AtState ==
    ASSUME NEW pc \in Pc
    PROVE  At(pc) \in TurnState /\ At(pc).pc = pc /\ At(pc).now = 0 /\ ~At(pc).guard
<1>1. At(pc) \in TurnState
  BY DEF At, TurnState, Pc, Result
<1>2. At(pc).pc = pc /\ At(pc).now = 0 /\ ~At(pc).guard
  BY DEF At
<1> QED BY <1>1, <1>2

LEMMA HoldingState ==
    ASSUME NEW pc \in Pc
    PROVE  /\ Holding(pc) \in TurnState /\ Holding(pc).pc = pc
           /\ Holding(pc).now = 0 /\ Holding(pc).guard
<1>1. Holding(pc) \in TurnState
  BY DEF At, Holding, TurnState, Pc, Result
<1>2. Holding(pc).pc = pc /\ Holding(pc).now = 0 /\ Holding(pc).guard
  BY DEF At, Holding
<1> QED BY <1>1, <1>2

LEMMA AskedState ==
    ASSUME NEW n \in Nat
    PROVE  Asked(n) \in TurnState /\ Asked(n).pc = "asked" /\ Asked(n).now = n
<1>1. Asked(n) \in TurnState
  BY DEF At, Asked, TurnState, Result
<1>2. Asked(n).pc = "asked" /\ Asked(n).now = n
  BY DEF At, Asked
<1> QED BY <1>1, <1>2

LEMMA StreamingState ==
    ASSUME NEW n \in Nat
    PROVE  /\ Streaming(n) \in TurnState /\ Streaming(n).pc = "streaming"
           /\ Streaming(n).now = 0 /\ Streaming(n).until = n
<1>1. Streaming(n) \in TurnState
  BY DEF At, Holding, Streaming, TurnState, Result
<1>2. /\ Streaming(n).pc = "streaming" /\ Streaming(n).now = 0
      /\ Streaming(n).until = n
  BY DEF At, Holding, Streaming
<1> QED BY <1>1, <1>2

LEMMA AnsweredState ==
    ASSUME NEW n \in Nat, NEW r \in Result
    PROVE  /\ Answered(n, r) \in TurnState /\ Answered(n, r).pc = "record"
           /\ Answered(n, r).now = n
<1>1. Answered(n, r) \in TurnState
  BY DEF At, Holding, Answered, TurnState, Result
<1>2. Answered(n, r).pc = "record" /\ Answered(n, r).now = n
  BY DEF At, Holding, Answered
<1> QED BY <1>1, <1>2

\* try_acquire_provider_request_lease writes owner and expiry only.
LEMMA LeaseToState ==
    ASSUME ProviderAssumption, TypeOK, NEW t \in Turn
    PROVE  /\ LeaseTo(t) \in RowState /\ LeaseTo(t).cooldown = row.cooldown
           /\ LeaseTo(t).owner = t /\ LeaseTo(t).lease = turn[t].now + LeaseTTL
<1>1. turn[t].now + LeaseTTL \in Nat /\ row \in RowState
  BY DEF TypeOK, TurnState, ProviderAssumption
<1>2. [row EXCEPT !.owner = t, !.lease = turn[t].now + LeaseTTL] \in RowState
  BY <1>1 DEF RowState
<1>3. LeaseTo(t) \in RowState
  BY <1>2 DEF LeaseTo
<1>4. /\ LeaseTo(t).cooldown = row.cooldown
      /\ LeaseTo(t).owner = t /\ LeaseTo(t).lease = turn[t].now + LeaseTTL
  BY <1>1 DEF LeaseTo, RowState
<1> QED BY <1>3, <1>4

\* What a recorded result leaves in the row (record_provider_request_result):
\* no owner, no lease, and a cooldown only after a 429.
LEMMA RecordedType ==
    ASSUME ProviderAssumption, TypeOK,
           NEW r \in Result, NEW now \in Nat, NEW after \in Nat
    PROVE  /\ Recorded(r, now, after) \in RowState
           /\ Recorded(r, now, after).owner = NoOwner
<1> DEFINE count == IF r = "limited" THEN row.count + 1 ELSE 0
           wait == IF after > 0 THEN after ELSE DefaultCooldown(count)
<1>1. count \in Nat /\ (r = "limited" => count \in Nat \ {0})
  BY DEF TypeOK, RowState
<1>2. r = "limited" => wait \in Nat
  <2> SUFFICES ASSUME r = "limited" PROVE wait \in Nat
    OBVIOUS
  <2> DEFINE k == IF count > 4 THEN 4 ELSE count
  <2>1. k \in 1 .. 4
    BY <1>1
  <2>2. Backoff[k] \in Nat
    BY <2>1 DEF ProviderAssumption
  <2> QED
    BY <2>2 DEF DefaultCooldown
<1>3. Recorded(r, now, after) =
        [owner |-> NoOwner, lease |-> 0, count |-> count,
         cooldown |-> IF r = "limited" THEN now + wait ELSE 0]
  BY DEF Recorded
<1> HIDE DEF count, wait
<1>4. (IF r = "limited" THEN now + wait ELSE 0) \in Nat
  BY <1>2
<1>5. Recorded(r, now, after).owner = NoOwner
  BY <1>3
<1>6. Recorded(r, now, after) \in RowState
  BY <1>1, <1>3, <1>4 DEF RowState
<1> QED BY <1>5, <1>6

-----------------------------------------------------------------------------
(* The part that holds whatever fails.                                     *)

LEMMA InvInit ==
    ASSUME ProviderAssumption PROVE Init => Inv
<1> SUFFICES ASSUME Init PROVE Inv
  OBVIOUS
<1>1. At("idle") \in TurnState /\ At("idle").now = 0
  BY AtState DEF Pc
<1>a. row \in RowState
  BY DEF Init, RowState
<1>2. TypeOK
  BY <1>1, <1>a DEF Init, TypeOK
<1>3. ReadsClock /\ CooldownIsUnleased
  BY <1>1 DEF Init, ReadsClock, CooldownIsUnleased
<1> QED
  BY <1>2, <1>3 DEF Inv

\* A step of one turn that gives it a well-typed state with a clock value
\* that is not in the future.
LEMMA TurnStep ==
    ASSUME Inv, NEW t \in Turn, NEW x \in TurnState, x.now <= clock,
           turn' = [turn EXCEPT ![t] = x], UNCHANGED clock
    PROVE  turn' \in [Turn -> TurnState] /\ ReadsClock'
BY DEF Inv, TypeOK, ReadsClock

\* A step of one turn that leaves the row alone.
LEMMA LocalStep ==
    ASSUME Inv, NEW t \in Turn, NEW x \in TurnState, x.now <= clock,
           turn' = [turn EXCEPT ![t] = x], UNCHANGED <<clock, row>>,
           made' \in [Turn -> Nat], releases' \in [Turn -> Nat]
    PROVE  Inv' /\ row'.cooldown = row.cooldown
<1>1. turn' \in [Turn -> TurnState] /\ ReadsClock'
  BY TurnStep
<1> QED
  BY <1>1 DEF Inv, TypeOK, CooldownIsUnleased

\* A step of one turn that changes the row, outside a cooldown or into a row
\* without an owner.
LEMMA RowStep ==
    ASSUME Inv, NEW t \in Turn, NEW x \in TurnState, x.now <= clock,
           turn' = [turn EXCEPT ![t] = x], UNCHANGED <<clock, made, releases>>,
           row' \in RowState,
           row'.owner = NoOwner \/ ~(row'.cooldown > clock)
    PROVE  Inv'
<1>1. turn' \in [Turn -> TurnState] /\ ReadsClock'
  BY TurnStep
<1> QED
  BY <1>1 DEF Inv, TypeOK, CooldownIsUnleased

LEMMA ActionStep ==
    ASSUME ProviderAssumption, Inv, NEW t \in Turn,
           \/ Ask(t) \/ Step(t) \/ End(t)
           \/ Abort(t) \/ AbortAsked(t) \/ Release(t) \/ Die(t)
    PROVE  /\ Inv'
           /\ row.cooldown > clock => row'.cooldown = row.cooldown
<1>a. TypeOK /\ clock \in Nat /\ row \in RowState /\ 0 <= clock
      /\ made \in [Turn -> Nat] /\ releases \in [Turn -> Nat]
  BY DEF Inv, TypeOK
<1>b. turn[t] \in TurnState /\ turn[t].now \in Nat /\ turn[t].now <= clock
      /\ turn[t].result \in Result
  BY DEF Inv, TypeOK, TurnState, ReadsClock
<1>c. turn[t].now + LeaseTTL \in Nat
  BY <1>b DEF ProviderAssumption
<1>d. row.cooldown \in Nat
  BY <1>a DEF RowState
<1>e. row.cooldown > clock => row.owner = NoOwner
  BY DEF Inv, CooldownIsUnleased
<1>f. NoOwner # t
  BY DEF ProviderAssumption
<1>1. CASE Ask(t)
  <2>1. turn' = [turn EXCEPT ![t] = Asked(clock)] /\ UNCHANGED <<clock, row, releases>>
        /\ made' = [made EXCEPT ![t] = @ + 1]
    BY <1>1 DEF Ask
  <2>2. made' \in [Turn -> Nat]
    BY <2>1, <1>a
  <2>3. Asked(clock) \in TurnState /\ Asked(clock).now <= clock
    BY <1>a, AskedState
  <2> QED BY <2>1, <2>2, <2>3, <1>a, LocalStep
<1>2. CASE Acquire(t)
  <2>1. turn' = [turn EXCEPT ![t] = Streaming(turn[t].now + LeaseTTL)]
        /\ row' = LeaseTo(t) /\ UNCHANGED <<clock, made, releases>>
        /\ ~(row.cooldown > turn[t].now)
    BY <1>2 DEF Acquire, Cooling
  <2>2. ~(row.cooldown > clock)
    BY <2>1, <1>a, <1>b, <1>d
  <2> QED BY <2>1, <2>2, <1>a, <1>c, StreamingState, LeaseToState, RowStep
<1>3. CASE CheckCooldown(t)
  BY <1>3, <1>a, AtState, LocalStep DEF CheckCooldown, Pc
<1>4. CASE Blocked(t)
  BY <1>4, <1>a, AtState, LocalStep DEF Blocked, Pc
<1>5. CASE Answer(t)
  <2>1. UNCHANGED <<clock, row, made, releases>>
    BY <1>5 DEF Answer
  <2>2. CASE turn[t].guard
    <3>1. PICK r \in Result : turn' = [turn EXCEPT ![t] = Answered(clock, r)]
      BY <1>5, <2>2 DEF Answer
    <3>2. Answered(clock, r) \in TurnState /\ Answered(clock, r).now <= clock
      BY <1>a, AnsweredState
    <3> QED BY <2>1, <3>1, <3>2, <1>a, LocalStep
  <2>3. CASE ~turn[t].guard
    <3>1. turn' = [turn EXCEPT ![t] = At("tools")]
      BY <1>5, <2>3 DEF Answer
    <3> QED BY <2>1, <3>1, <1>a, AtState, LocalStep DEF Pc
  <2> QED BY <2>2, <2>3
<1>6. CASE Record(t)
  <2>1. turn' = [turn EXCEPT ![t] = Holding("recorded")]
        /\ UNCHANGED <<clock, made, releases>>
    BY <1>6 DEF Record
  <2>2. Holding("recorded") \in TurnState /\ Holding("recorded").now <= clock
    BY <1>a, HoldingState DEF Pc
  <2>3. CASE row.owner = t
    <3>1. PICK after \in RetryAfter :
            row' = Recorded(turn[t].result, turn[t].now, after)
      BY <1>6, <2>3 DEF Record
    <3>2. row' \in RowState /\ row'.owner = NoOwner
      BY <3>1, <1>a, <1>b, RecordedType DEF ProviderAssumption
    <3>3. ~(row.cooldown > clock)
      BY <2>3, <1>e, <1>f
    <3> QED BY <2>1, <2>2, <3>2, <3>3, RowStep
  <2>4. CASE row.owner # t
    <3>1. UNCHANGED row
      BY <1>6, <2>4 DEF Record
    <3> QED BY <2>1, <2>2, <3>1, <1>a, LocalStep
  <2> QED BY <2>3, <2>4
<1>7. CASE RecordFails(t)
  BY <1>7, <1>a, HoldingState, LocalStep DEF RecordFails, Pc
<1>8. CASE Forget(t)
  BY <1>8, <1>a, AtState, LocalStep DEF Forget, Pc
<1>9. ASSUME NEW pc \in {"idle", "over"}, DropGuard(t, pc)
      PROVE  Inv' /\ row'.cooldown = row.cooldown
  <2>1. turn' = [turn EXCEPT ![t] = At(pc)] /\ UNCHANGED <<clock, row, made>>
        /\ releases' = IF turn[t].guard THEN [releases EXCEPT ![t] = @ + 1] ELSE releases
    BY <1>9 DEF DropGuard
  <2>2. releases' \in [Turn -> Nat]
    BY <2>1, <1>a
  <2>3. pc \in Pc
    BY DEF Pc
  <2>4. At(pc) \in TurnState /\ At(pc).now <= clock
    BY <2>3, <1>a, AtState
  <2> QED BY <2>1, <2>2, <2>4, <1>a, LocalStep
<1>10. CASE Return(t) \/ End(t) \/ Abort(t)
  <2>1. PICK pc \in {"idle", "over"} : DropGuard(t, pc)
    BY <1>10 DEF Return, End, Abort
  <2> QED BY <2>1, <1>9
<1>11. CASE AbortAsked(t)
  <2>1. turn' = [turn EXCEPT ![t] = At("over")] /\ UNCHANGED <<clock, made, releases>>
    BY <1>11 DEF AbortAsked
  <2>2. At("over") \in TurnState /\ At("over").now <= clock
    BY <1>a, AtState DEF Pc
  <2>3. CASE UNCHANGED row
    BY <2>1, <2>2, <2>3, <1>a, LocalStep
  <2>4. CASE ~(row.cooldown > turn[t].now) /\ row' = LeaseTo(t)
    <3>1. ~(row.cooldown > clock)
      BY <2>4, <1>a, <1>b, <1>d
    <3> QED BY <2>1, <2>2, <2>4, <3>1, <1>a, LeaseToState, RowStep
  <2> QED BY <1>11, <2>3, <2>4 DEF AbortAsked, Cooling
<1>12. CASE Release(t)
  <2>1. UNCHANGED <<clock, turn, made>> /\ releases' \in [Turn -> Nat]
    BY <1>12, <1>a DEF Release
  <2>2. CASE UNCHANGED row
    BY <2>1, <2>2 DEF Inv, TypeOK, ReadsClock, CooldownIsUnleased
  <2>3. CASE row' = [row EXCEPT !.owner = NoOwner, !.lease = 0]
    <3>1. row' \in RowState
      BY <2>3, <1>a DEF RowState
    <3>2. row'.owner = NoOwner /\ row'.cooldown = row.cooldown
      BY <2>3, <1>a DEF RowState
    <3>3. TypeOK'
      BY <2>1, <3>1 DEF Inv, TypeOK
    <3>4. ReadsClock' /\ CooldownIsUnleased'
      BY <2>1, <3>2 DEF Inv, ReadsClock, CooldownIsUnleased
    <3> QED BY <3>2, <3>3, <3>4 DEF Inv
  <2> QED BY <1>12, <2>2, <2>3 DEF Release
<1>13. CASE Die(t)
  <2>1. turn' = [turn EXCEPT ![t] = At("dead")] /\ UNCHANGED <<clock, row, made>>
        /\ releases' \in [Turn -> Nat]
    BY <1>13, <1>a DEF Die
  <2> QED BY <2>1, <1>a, AtState, LocalStep DEF Pc
<1> QED
  BY <1>1, <1>2, <1>3, <1>4, <1>5, <1>6, <1>7, <1>8, <1>10, <1>11, <1>12, <1>13
     DEF Step

LEMMA InvStep ==
    ASSUME ProviderAssumption, Inv, [Next]_vars
    PROVE  /\ Inv'
           /\ row.cooldown > clock => row'.cooldown = row.cooldown
<1>1. CASE UNCHANGED vars
  BY <1>1 DEF vars, Inv, TypeOK, ReadsClock, CooldownIsUnleased
<1>2. CASE Tick
  <2>1. clock' = clock + 1 /\ clock \in Nat /\ UNCHANGED <<row, turn, made, releases>>
    BY <1>2 DEF Tick, Inv, TypeOK
  <2>2. TypeOK'
    BY <2>1 DEF Inv, TypeOK
  <2>3. ReadsClock'
    <3> SUFFICES ASSUME NEW t \in Turn PROVE turn[t].now <= clock + 1
      BY <2>1 DEF ReadsClock
    <3>1. turn[t].now \in Nat /\ turn[t].now <= clock
      BY DEF Inv, TypeOK, TurnState, ReadsClock
    <3> QED BY <2>1, <3>1
  <2>4. CooldownIsUnleased'
    BY <2>1 DEF Inv, TypeOK, RowState, CooldownIsUnleased
  <2> QED BY <2>1, <2>2, <2>3, <2>4 DEF Inv
<1>3. CASE \E t \in Turn : \/ Ask(t) \/ Step(t) \/ End(t)
                           \/ Abort(t) \/ AbortAsked(t) \/ Release(t) \/ Die(t)
  BY <1>3, ActionStep
<1> QED
  BY <1>1, <1>2, <1>3 DEF Next

-----------------------------------------------------------------------------
(* Leases, when no turn can ask again under its own release.               *)

LEMMA LeaseInvInit ==
    Init => LeaseInv
<1> SUFFICES ASSUME Init PROVE LeaseInv
  OBVIOUS
<1>1. \A t \in Turn : turn[t].pc = "idle" /\ releases[t] = 0
  BY AtState DEF Init, Pc
<1> QED
  BY <1>1 DEF LeaseInv, LiveOwns, ReleasedIsDone, Counted, Live, Busy

\* Of the other turns, a step of t touches at most the row: their part of the
\* invariant holds if the row still names the one that is live.
LEMMA OthersStep ==
    ASSUME Inv, LeaseInv, NEW t \in Turn, NEW x,
           turn' = [turn EXCEPT ![t] = x], UNCHANGED clock,
           made' = made \/ made' = [made EXCEPT ![t] = @ + 1],
           \A u \in Turn : u # t => releases'[u] = releases[u],
           \A u \in Turn : u # t /\ Live(u) => UNCHANGED row,
           x.pc = "streaming" /\ x.guard /\ x.until > clock =>
              row'.owner = t /\ row'.lease = x.until,
           releases'[t] > 0 => /\ x.pc \in {"idle", "over", "dead"}
                               /\ x.pc = "idle" => made'[t] >= MaxRequests[t],
           x.pc \in Busy => made'[t] >= 1,
           x.pc = "tools" /\ x.guard => t \in Faulty
    PROVE  LeaseInv'
<1>1. turn \in [Turn -> TurnState] /\ made \in [Turn -> Nat]
  BY DEF Inv, TypeOK
<1>2. turn'[t] = x
  BY <1>1
<1>3. \A u \in Turn : u # t => turn'[u] = turn[u] /\ made'[u] = made[u]
  BY <1>1
<1>4. LiveOwns'
  <2> SUFFICES ASSUME NEW u \in Turn, Live(u)'
               PROVE  row'.owner = u /\ row'.lease = turn'[u].until
    BY DEF LiveOwns
  <2>1. CASE u = t
    BY <1>2, <2>1 DEF Live
  <2>2. CASE u # t
    <3>1. Live(u)
      BY <1>3, <2>2 DEF Live
    <3> QED BY <1>3, <2>2, <3>1 DEF LeaseInv, LiveOwns
  <2> QED BY <2>1, <2>2
<1>5. ReleasedIsDone'
  <2> SUFFICES ASSUME NEW u \in Turn, releases'[u] > 0
               PROVE  /\ turn'[u].pc \in {"idle", "over", "dead"}
                      /\ turn'[u].pc = "idle" => made'[u] >= MaxRequests[u]
    BY DEF ReleasedIsDone
  <2>1. CASE u = t
    BY <1>2, <2>1
  <2>2. CASE u # t
    BY <1>3, <2>2 DEF LeaseInv, ReleasedIsDone
  <2> QED BY <2>1, <2>2
<1>6. Counted'
  <2> SUFFICES ASSUME NEW u \in Turn
               PROVE  /\ turn'[u].pc \in Busy => made'[u] >= 1
                      /\ turn'[u].pc = "tools" /\ turn'[u].guard => u \in Faulty
    BY DEF Counted
  <2>1. CASE u = t
    BY <1>2, <2>1
  <2>2. CASE u # t
    BY <1>3, <2>2 DEF LeaseInv, Counted
  <2> QED BY <2>1, <2>2
<1> QED BY <1>4, <1>5, <1>6 DEF LeaseInv

LEMMA LeaseActionStep ==
    ASSUME ProviderAssumption, NoReuse, Inv, LeaseInv, NEW t \in Turn,
           \/ Ask(t) \/ Step(t) \/ End(t)
           \/ Abort(t) \/ AbortAsked(t) \/ Release(t) \/ Die(t)
    PROVE  LeaseInv'
<1>a. clock \in Nat /\ row \in RowState /\ made \in [Turn -> Nat]
      /\ releases \in [Turn -> Nat] /\ turn \in [Turn -> TurnState]
      /\ MaxRequests[t] \in Nat
  BY DEF Inv, TypeOK, ProviderAssumption
<1>b. made[t] \in Nat /\ releases[t] \in Nat /\ turn[t].now \in Nat
      /\ turn[t].now <= clock /\ turn[t].now + LeaseTTL \in Nat
      /\ turn[t].guard \in BOOLEAN /\ row.lease \in Nat
  BY <1>a DEF Inv, TypeOK, TurnState, RowState, ReadsClock, ProviderAssumption
<1>c. releases[t] > 0 => turn[t].pc \in {"idle", "over", "dead"}
                         /\ (turn[t].pc = "idle" => made[t] >= MaxRequests[t])
  BY DEF LeaseInv, ReleasedIsDone
<1>d. (turn[t].pc \in Busy => made[t] >= 1)
      /\ (turn[t].pc = "tools" /\ turn[t].guard => t \in Faulty)
  BY DEF LeaseInv, Counted
<1>e. \A u \in Turn : Live(u) => row.lease > clock /\ row.owner = u
  BY DEF LeaseInv, LiveOwns, Live
<1>1. CASE Ask(t)
  <2>1. turn' = [turn EXCEPT ![t] = Asked(clock)] /\ UNCHANGED <<clock, row, releases>>
        /\ made' = [made EXCEPT ![t] = @ + 1] /\ turn[t].pc = "idle"
        /\ made[t] < MaxRequests[t]
    BY <1>1 DEF Ask
  <2>2. Asked(clock).pc = "asked"
    BY <1>a, AskedState
  <2>3. ~(releases[t] > 0)
    BY <2>1, <1>a, <1>b, <1>c
  <2>4. made'[t] >= 1
    BY <2>1, <1>a, <1>b
  <2> QED BY <2>1, <2>2, <2>3, <2>4, OthersStep
<1>2. CASE Acquire(t)
  <2> DEFINE n == turn[t].now + LeaseTTL
  <2>1. turn' = [turn EXCEPT ![t] = Streaming(n)]
        /\ row' = LeaseTo(t) /\ UNCHANGED <<clock, made, releases>>
        /\ ~(row.lease > turn[t].now) /\ turn[t].pc = "asked"
    BY <1>2 DEF Acquire, Leased
  <2>2. \A u \in Turn : ~Live(u)
    BY <2>1, <1>a, <1>b, <1>e
  <2>3. Streaming(n).pc = "streaming" /\ Streaming(n).until = n
    BY <1>b, StreamingState
  <2>4. row'.owner = t /\ row'.lease = n
    BY <2>1, LeaseToState DEF Inv
  <2>5. made'[t] >= 1 /\ ~(releases'[t] > 0)
    BY <2>1, <1>c, <1>d DEF Busy
  <2> QED BY <2>1, <2>2, <2>3, <2>4, <2>5, OthersStep
<1>3. CASE CheckCooldown(t) \/ Blocked(t)
  <2>1. PICK pc \in {"streaming", "over"} : turn' = [turn EXCEPT ![t] = At(pc)]
    BY <1>3 DEF CheckCooldown, Blocked
  <2>2. UNCHANGED <<clock, row, made, releases>> /\ turn[t].pc = "asked"
    BY <1>3 DEF CheckCooldown, Blocked
  <2>3. At(pc).pc = pc /\ ~At(pc).guard
    BY <2>1, AtState DEF Pc
  <2>4. made'[t] >= 1 /\ ~(releases'[t] > 0)
    BY <2>2, <1>c, <1>d DEF Busy
  <2> QED BY <2>1, <2>2, <2>3, <2>4, OthersStep
<1>4. CASE Answer(t)
  <2>1. UNCHANGED <<clock, row, made, releases>> /\ turn[t].pc = "streaming"
    BY <1>4 DEF Answer
  <2>2. made'[t] >= 1 /\ ~(releases'[t] > 0)
    BY <2>1, <1>c, <1>d DEF Busy
  <2>3. CASE turn[t].guard
    <3>1. PICK r \in Result : turn' = [turn EXCEPT ![t] = Answered(clock, r)]
      BY <1>4, <2>3 DEF Answer
    <3>2. Answered(clock, r).pc = "record"
      BY <1>a, AnsweredState
    <3> QED BY <2>1, <2>2, <3>1, <3>2, OthersStep
  <2>4. CASE ~turn[t].guard
    <3>1. turn' = [turn EXCEPT ![t] = At("tools")]
      BY <1>4, <2>4 DEF Answer
    <3>2. At("tools").pc = "tools" /\ ~At("tools").guard
      BY AtState DEF Pc
    <3> QED BY <2>1, <2>2, <3>1, <3>2, OthersStep
  <2> QED BY <2>3, <2>4
<1>5. CASE Record(t)
  <2>1. turn' = [turn EXCEPT ![t] = Holding("recorded")] /\ turn[t].pc = "record"
        /\ UNCHANGED <<clock, made, releases>> /\ (row.owner # t => UNCHANGED row)
    BY <1>5 DEF Record
  <2>2. Holding("recorded").pc = "recorded"
    BY HoldingState DEF Pc
  <2>3. made'[t] >= 1 /\ ~(releases'[t] > 0)
    BY <2>1, <1>c, <1>d DEF Busy
  <2>4. \A u \in Turn : u # t /\ Live(u) => UNCHANGED row
    BY <2>1, <1>e
  <2> QED BY <2>1, <2>2, <2>3, <2>4, OthersStep
<1>6. CASE RecordFails(t)
  <2>1. turn' = [turn EXCEPT ![t] = Holding("tools")] /\ turn[t].pc = "record"
        /\ UNCHANGED <<clock, row, made, releases>> /\ t \in Faulty
    BY <1>6 DEF RecordFails
  <2>2. Holding("tools").pc = "tools"
    BY HoldingState DEF Pc
  <2>3. made'[t] >= 1 /\ ~(releases'[t] > 0)
    BY <2>1, <1>c, <1>d DEF Busy
  <2> QED BY <2>1, <2>2, <2>3, OthersStep
<1>7. CASE Forget(t)
  <2>1. turn' = [turn EXCEPT ![t] = At("tools")] /\ turn[t].pc = "recorded"
        /\ UNCHANGED <<clock, row, made, releases>>
    BY <1>7 DEF Forget
  <2>2. At("tools").pc = "tools" /\ ~At("tools").guard
    BY AtState DEF Pc
  <2>3. made'[t] >= 1 /\ ~(releases'[t] > 0)
    BY <2>1, <1>c, <1>d DEF Busy
  <2> QED BY <2>1, <2>2, <2>3, OthersStep
<1>8. ASSUME NEW pc \in {"idle", "over"}, DropGuard(t, pc),
             pc = "idle" /\ releases'[t] > 0 => made[t] >= MaxRequests[t]
      PROVE  LeaseInv'
  <2>1. turn' = [turn EXCEPT ![t] = At(pc)] /\ UNCHANGED <<clock, row, made>>
        /\ releases' = IF turn[t].guard THEN [releases EXCEPT ![t] = @ + 1] ELSE releases
    BY <1>8 DEF DropGuard
  <2>2. At(pc).pc = pc
    BY AtState DEF Pc
  <2>3. \A u \in Turn : u # t => releases'[u] = releases[u]
    BY <2>1, <1>a
  <2> QED BY <2>1, <2>2, <2>3, <1>8, OthersStep DEF Busy
<1>9. CASE Return(t)
  <2>1. turn[t].pc = "tools" /\ DropGuard(t, "idle")
    BY <1>9 DEF Return
  <2>2. ~(releases[t] > 0) /\ made[t] >= 1
    BY <2>1, <1>c, <1>d DEF Busy
  <2>3. releases'[t] > 0 => turn[t].guard
    BY <2>1, <2>2 DEF DropGuard
  <2>4. releases'[t] > 0 => made[t] >= MaxRequests[t]
    BY <2>1, <2>2, <2>3, <1>a, <1>b, <1>d DEF NoReuse
  <2> QED BY <2>1, <2>4, <1>8
<1>10. CASE End(t) \/ Abort(t)
  BY <1>8, <1>10 DEF End, Abort
<1>11. CASE AbortAsked(t)
  <2>1. turn' = [turn EXCEPT ![t] = At("over")] /\ UNCHANGED <<clock, made, releases>>
        /\ turn[t].pc = "asked"
        /\ (UNCHANGED row \/ ~(row.lease > turn[t].now))
    BY <1>11 DEF AbortAsked, Leased
  <2>2. At("over").pc = "over"
    BY AtState DEF Pc
  <2>3. \A u \in Turn : u # t /\ Live(u) => UNCHANGED row
    BY <2>1, <1>a, <1>b, <1>e
  <2> QED BY <2>1, <2>2, <2>3, OthersStep DEF Busy
<1>12. CASE Release(t)
  <2>1. UNCHANGED <<clock, turn, made>> /\ releases[t] > 0
        /\ releases' = [releases EXCEPT ![t] = @ - 1] /\ (row.owner # t => UNCHANGED row)
    BY <1>12 DEF Release
  <2>2. \A u \in Turn : releases'[u] > 0 => releases[u] > 0
    BY <2>1, <1>a
  <2>3. ~Live(t)
    BY <2>1, <1>c DEF Live
  <2>4. \A u \in Turn : Live(u) => UNCHANGED row
    BY <2>1, <2>3, <1>e
  <2>5. LiveOwns'
    BY <2>1, <2>4 DEF LeaseInv, LiveOwns, Live
  <2>6. ReleasedIsDone' /\ Counted'
    BY <2>1, <2>2 DEF LeaseInv, ReleasedIsDone, Counted
  <2> QED BY <2>5, <2>6 DEF LeaseInv
<1>13. CASE Die(t)
  <2>1. turn' = [turn EXCEPT ![t] = At("dead")] /\ UNCHANGED <<clock, row, made>>
        /\ releases' = [releases EXCEPT ![t] = 0]
    BY <1>13 DEF Die
  <2>2. At("dead").pc = "dead"
    BY AtState DEF Pc
  <2>3. releases'[t] = 0 /\ \A u \in Turn : u # t => releases'[u] = releases[u]
    BY <2>1, <1>a
  <2> QED BY <2>1, <2>2, <2>3, OthersStep DEF Busy
<1> QED
  BY <1>1, <1>2, <1>3, <1>4, <1>5, <1>6, <1>7, <1>9, <1>10, <1>11, <1>12, <1>13
     DEF Step

LEMMA LeaseInvStep ==
    ASSUME ProviderAssumption, NoReuse, Inv, LeaseInv, [Next]_vars
    PROVE  LeaseInv'
<1>1. CASE UNCHANGED vars
  BY <1>1 DEF vars, LeaseInv, LiveOwns, ReleasedIsDone, Counted, Live
<1>2. CASE Tick
  <2>1. clock' = clock + 1 /\ clock \in Nat /\ UNCHANGED <<row, turn, made, releases>>
    BY <1>2 DEF Tick, Inv, TypeOK
  <2>2. \A t \in Turn : turn[t].until \in Nat
    BY DEF Inv, TypeOK, TurnState
  <2>3. \A t \in Turn : Live(t)' => Live(t)
    BY <2>1, <2>2 DEF Live
  <2>4. LiveOwns'
    BY <2>1, <2>3 DEF LeaseInv, LiveOwns
  <2>5. ReleasedIsDone' /\ Counted'
    BY <2>1 DEF LeaseInv, ReleasedIsDone, Counted
  <2> QED BY <2>4, <2>5 DEF LeaseInv
<1>3. CASE \E t \in Turn : \/ Ask(t) \/ Step(t) \/ End(t)
                           \/ Abort(t) \/ AbortAsked(t) \/ Release(t) \/ Die(t)
  BY <1>3, LeaseActionStep
<1> QED
  BY <1>1, <1>2, <1>3 DEF Next

-----------------------------------------------------------------------------
(* Theorems.                                                               *)

\* The inductive invariant that needs no premise: types, clock values in hand
\* that are not in the future, and no owner while a cooldown runs.
THEOREM InvHolds == Spec => []Inv
<1>1. Init => Inv
  BY InvInit, ProviderAssumption
<1>2. Inv /\ [Next]_vars => Inv'
  BY InvStep, ProviderAssumption
<1> QED
  BY <1>1, <1>2, PTL DEF Spec

\* Every variable keeps its type: lease and cooldown times stay natural
\* numbers and no release is counted below zero.
THEOREM TypeCorrect == Spec => []TypeOK
<1>1. Inv => TypeOK
  BY DEF Inv
<1> QED
  BY <1>1, InvHolds, PTL

\* record_provider_request_result: no late result, release or new lease ends
\* or moves a running cooldown, whatever statements fail.
THEOREM CooldownStays == Spec => CooldownIsKept
<1>1. Inv /\ [Next]_vars => [row.cooldown > clock => row'.cooldown = row.cooldown]_vars
  BY InvStep, ProviderAssumption
<1> QED
  BY <1>1, InvHolds, PTL DEF Spec, CooldownIsKept

\* When turns whose statements may fail make one request each, the row names
\* the only request that is under way with an unexpired lease.
THEOREM LeaseInvHolds ==
    ASSUME NoReuse PROVE Spec => [](Inv /\ LeaseInv)
<1>1. Init => Inv /\ LeaseInv
  BY InvInit, LeaseInvInit, ProviderAssumption
<1>2. (Inv /\ LeaseInv) /\ [Next]_vars => (Inv /\ LeaseInv)'
  BY NoReuse, InvStep, LeaseInvStep, ProviderAssumption
<1> QED
  BY <1>1, <1>2, PTL DEF Spec

\* try_acquire_provider_request_lease: under the same premise no two turns have
\* requests under way with unexpired leases.
THEOREM LeasesAreExclusive ==
    ASSUME NoReuse PROVE Spec => []LeaseIsExclusive
<1>1. Inv /\ LeaseInv => LeaseIsExclusive
  BY DEF LeaseInv, LiveOwns, LeaseIsExclusive
<1> QED
  BY <1>1, LeaseInvHolds, NoReuse, PTL

\* record_provider_request_result: under the same premise a running cooldown
\* means that no request is under way with an unexpired lease.
THEOREM CooldownsAreQuiet ==
    ASSUME NoReuse PROVE Spec => []CooldownIsQuiet
<1>1. Inv /\ LeaseInv => CooldownIsQuiet
  BY ProviderAssumption DEF Inv, CooldownIsUnleased, LeaseInv, LiveOwns, CooldownIsQuiet,
     ProviderAssumption
<1> QED
  BY <1>1, LeaseInvHolds, NoReuse, PTL
=============================================================================
