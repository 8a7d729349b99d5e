-------------------------- MODULE ProviderRequests --------------------------
(***************************************************************************)
(* The cross-process throttle of requests to one metered provider key:     *)
(* the row of provider_request_state that sub-agent turns of all processes *)
(* share, the lease a large uncached request takes in it, the cooldown     *)
(* that a 429 leaves in it, and the guard that gives the lease back.       *)
(*                                                                         *)
(* A turn makes its requests one after the other, and its owner string     *)
(* (process, thread, turn) is the same for all of them.  Reading the clock *)
(* and running the transaction that uses it are separate steps, as are a   *)
(* statement and what its caller does with the answer.                     *)
(***************************************************************************)
EXTENDS Naturals, FiniteSets

CONSTANTS
    Turn,           \* sub-agent turns that use the same key
    NoOwner,        \* lease_owner IS NULL
    LeaseTTL,       \* PROVIDER_REQUEST_LEASE_TTL_MS
    Backoff,        \* the four steps of default_cooldown_ms
    RetryAfter,     \* retry_after_ms of a 429; 0 is absent or not positive
    MaxTime,        \* bound on the clock
    MaxRequests,    \* bound on the requests of each turn
    Faulty          \* turns of processes whose statements may return an error

ASSUME ProviderAssumption ==
    /\ NoOwner \notin Turn
    /\ LeaseTTL \in Nat \ {0}
    /\ Backoff \in [1 .. 4 -> Nat \ {0}]
    /\ RetryAfter \subseteq Nat
    /\ MaxTime \in Nat
    /\ MaxRequests \in [Turn -> Nat]
    /\ Faulty \subseteq Turn

VARIABLES
    clock,      \* now_unix_timestamp_ms()
    row,        \* the row of provider_request_state
    turn,       \* try_run_sampling_request in each turn, and its locals
    made,       \* requests of each turn so far
    releases    \* release tasks that dropped guards have spawned

vars == <<clock, row, turn, made, releases>>

\* What the provider's answer is recorded as.
Result == {"success", "failed", "limited"}

\* The turn at a point where no local of the request is in use, where its
\* guard has a lease, and where it waits for a statement.
At(pc) == [pc |-> pc, now |-> 0, guard |-> FALSE, until |-> 0, result |-> "failed"]
Holding(pc) == [At(pc) EXCEPT !.guard = TRUE]
Asked(now) == [At("asked") EXCEPT !.now = now]
Streaming(until) == [Holding("streaming") EXCEPT !.until = until]
Answered(now, r) == [Holding("record") EXCEPT !.now = now, !.result = r]

Init ==
    /\ clock = 0
    /\ row = [owner |-> NoOwner, lease |-> 0, cooldown |-> 0, count |-> 0]
    /\ turn = [t \in Turn |-> At("idle")]
    /\ made = [t \in Turn |-> 0]
    /\ releases = [t \in Turn |-> 0]

-----------------------------------------------------------------------------
(* acquire_provider_request_lease.                                         *)

\* run_sampling_request tries (again) and the preflight reads the clock.
Ask(t) ==
    /\ turn[t].pc = "idle" /\ made[t] < MaxRequests[t]
    /\ turn' = [turn EXCEPT ![t] = Asked(clock)]
    /\ made' = [made EXCEPT ![t] = @ + 1]
    /\ UNCHANGED <<clock, row, releases>>

Cooling(now) == row.cooldown > now
Leased(now) == row.lease > now

LeaseTo(t) == [row EXCEPT !.owner = t, !.lease = turn[t].now + LeaseTTL]

\* Mutant: the expiry is computed in the wrong direction.
AcquireBackwards(t) ==
    /\ turn[t].pc = "asked" /\ ~Cooling(turn[t].now) /\ ~Leased(turn[t].now)
    /\ row' = [LeaseTo(t) EXCEPT !.lease = turn[t].now - LeaseTTL]
    /\ turn' = [turn EXCEPT ![t] = Streaming(turn[t].now + LeaseTTL)]
    /\ UNCHANGED <<clock, made, releases>>

\* Mutant: only the lease is looked at.
AcquireInCooldown(t) ==
    /\ turn[t].pc = "asked" /\ ~Leased(turn[t].now)
    /\ row' = LeaseTo(t)
    /\ turn' = [turn EXCEPT ![t] = Streaming(turn[t].now + LeaseTTL)]
    /\ UNCHANGED <<clock, made, releases>>

\* try_acquire_provider_request_lease grants the lease, and the guard for
\* it is made before the request goes out.
Acquire(t) ==
    /\ turn[t].pc = "asked" /\ ~Cooling(turn[t].now) /\ ~Leased(turn[t].now)
    /\ row' = LeaseTo(t)
    /\ turn' = [turn EXCEPT ![t] = Streaming(turn[t].now + LeaseTTL)]
    /\ UNCHANGED <<clock, made, releases>>

\* A small or well-cached request, or one of a human's session, looks at
\* the cooldown only and takes no lease.
CheckCooldown(t) ==
    /\ turn[t].pc = "asked" /\ ~Cooling(turn[t].now)
    /\ turn' = [turn EXCEPT ![t] = At("streaming")]
    /\ UNCHANGED <<clock, row, made, releases>>

\* InvalidRequest, or Fatal when the statement fails: neither is retried.  The
\* turn could ask once more for input that came meanwhile, which is left out.
Blocked(t) ==
    /\ turn[t].pc = "asked"
    /\ Cooling(turn[t].now) \/ Leased(turn[t].now) \/ t \in Faulty
    /\ turn' = [turn EXCEPT ![t] = At("over")]
    /\ UNCHANGED <<clock, row, made, releases>>

-----------------------------------------------------------------------------
(* The rest of try_run_sampling_request.                                   *)

\* The stream ends, or could not be opened; cancellation is a failure
\* without a status.  record_result does nothing without a lease.
Answer(t) ==
    /\ turn[t].pc = "streaming"
    /\ \/ /\ turn[t].guard
          /\ \E r \in Result : turn' = [turn EXCEPT ![t] = Answered(clock, r)]
       \/ ~turn[t].guard /\ turn' = [turn EXCEPT ![t] = At("tools")]
    /\ UNCHANGED <<clock, row, made, releases>>

DefaultCooldown(count) == Backoff[IF count > 4 THEN 4 ELSE count]

\* The row after a result of a turn that read the clock at now.
Recorded(r, now, after) ==
    LET count == IF r = "limited" THEN row.count + 1 ELSE 0
        wait == IF after > 0 THEN after ELSE DefaultCooldown(count)
    IN  [owner |-> NoOwner, lease |-> 0, count |-> count,
         cooldown |-> IF r = "limited" THEN now + wait ELSE 0]

\* Mutant: a success lifts the cooldown whoever owns the lease by now.
RecordLiftsCooldown(t) ==
    /\ turn[t].pc = "record"
    /\ \/ /\ row.owner = t
          /\ \E after \in RetryAfter :
               row' = Recorded(turn[t].result, turn[t].now, after)
       \/ /\ row.owner # t
          /\ row' = IF turn[t].result = "success" THEN [row EXCEPT !.cooldown = 0]
                    ELSE row
    /\ turn' = [turn EXCEPT ![t] = Holding("recorded")]
    /\ UNCHANGED <<clock, made, releases>>

\* record_provider_request_result: a late result meets another owner, or
\* none, and changes nothing.
Record(t) ==
    /\ turn[t].pc = "record"
    /\ \/ /\ row.owner = t
          /\ \E after \in RetryAfter :
               row' = Recorded(turn[t].result, turn[t].now, after)
       \/ row.owner # t /\ UNCHANGED row
    /\ turn' = [turn EXCEPT ![t] = Holding("recorded")]
    /\ UNCHANGED <<clock, made, releases>>

\* The statement fails: the guard keeps its lease for the drop.
RecordFails(t) ==
    /\ t \in Faulty /\ turn[t].pc = "record"
    /\ turn' = [turn EXCEPT ![t] = Holding("tools")]
    /\ UNCHANGED <<clock, row, made, releases>>

\* record_result forgets the lease; the tools of the response run.
Forget(t) ==
    /\ turn[t].pc = "recorded"
    /\ turn' = [turn EXCEPT ![t] = At("tools")]
    /\ UNCHANGED <<clock, row, made, releases>>

\* ProviderRequestLeaseGuard::drop spawns a release for a lease it still has.
DropGuard(t, pc) ==
    /\ turn' = [turn EXCEPT ![t] = At(pc)]
    /\ releases' = IF turn[t].guard THEN [releases EXCEPT ![t] = @ + 1] ELSE releases
    /\ UNCHANGED <<clock, row, made>>

\* The request is over; the turn may follow up or retry.
Return(t) == turn[t].pc = "tools" /\ DropGuard(t, "idle")

\* The turn ends between two requests.
End(t) == turn[t].pc = "idle" /\ DropGuard(t, "over")

\* Mutant: the guard of an aborted task releases nothing.
AbortKeepsLease(t) ==
    /\ turn[t].pc \in {"streaming", "record", "recorded", "tools"}
    /\ turn' = [turn EXCEPT ![t] = At("over")]
    /\ UNCHANGED <<clock, row, made, releases>>

\* An interrupt that the task does not answer in time drops its future.
Abort(t) ==
    /\ turn[t].pc \in {"streaming", "record", "recorded", "tools"}
    /\ DropGuard(t, "over")

\* The same while the preflight waits for its transaction: there is no guard
\* yet, and a commit that is under way still happens.
AbortAsked(t) ==
    /\ turn[t].pc = "asked"
    /\ \/ UNCHANGED row
       \/ ~Cooling(turn[t].now) /\ ~Leased(turn[t].now) /\ row' = LeaseTo(t)
    /\ turn' = [turn EXCEPT ![t] = At("over")]
    /\ UNCHANGED <<clock, made, releases>>

-----------------------------------------------------------------------------
(* Spawned releases, process death, time.                                  *)

\* Mutant: a release frees whatever lease it finds.
ReleaseAnyOwner(t) ==
    /\ releases[t] > 0
    /\ releases' = [releases EXCEPT ![t] = @ - 1]
    /\ row' = [row EXCEPT !.owner = NoOwner, !.lease = 0]
    /\ UNCHANGED <<clock, turn, made>>

\* release_provider_request_lease.
Release(t) ==
    /\ releases[t] > 0
    /\ releases' = [releases EXCEPT ![t] = @ - 1]
    /\ \/ row.owner = t /\ row' = [row EXCEPT !.owner = NoOwner, !.lease = 0]
       \/ (row.owner # t \/ t \in Faulty) /\ UNCHANGED row
    /\ UNCHANGED <<clock, turn, made>>

\* The process of the turn dies; its lease stays in the row.
Die(t) ==
    /\ turn[t].pc # "dead"
    /\ turn' = [turn EXCEPT ![t] = At("dead")]
    /\ releases' = [releases EXCEPT ![t] = 0]
    /\ UNCHANGED <<clock, row, made>>

Tick ==
    /\ clock < MaxTime
    /\ clock' = clock + 1
    /\ UNCHANGED <<row, turn, made, releases>>

\* What the turn's task and its release tasks do by themselves.
Step(t) ==
    \/ Acquire(t) \/ CheckCooldown(t) \/ Blocked(t)
    \/ Answer(t) \/ Record(t) \/ RecordFails(t) \/ Forget(t) \/ Return(t)

Next ==
    \/ \E t \in Turn :
         \/ Ask(t) \/ Step(t) \/ End(t)
         \/ Abort(t) \/ AbortAsked(t) \/ Release(t) \/ Die(t)
    \/ Tick

Spec == Init /\ [][Next]_vars

\* Tasks are polled until they are done, a stream or tool that does not end
\* runs into its timeout, and spawned releases run.
FairSpec ==
    Spec /\ \A t \in Turn : WF_vars(Step(t)) /\ WF_vars(Release(t))

-----------------------------------------------------------------------------
(* Properties.                                                             *)

TurnState ==
    [pc : {"idle", "asked", "streaming", "record", "recorded", "tools", "over",
           "dead"},
     now : Nat, guard : BOOLEAN, until : Nat, result : Result]

RowState == [owner : Turn \cup {NoOwner}, lease : Nat, cooldown : Nat, count : Nat]

\* Every variable has its type; no lease or cooldown ends before time 0.
TypeOK ==
    /\ clock \in Nat
    /\ row \in RowState
    /\ turn \in [Turn -> TurnState]
    /\ made \in [Turn -> Nat]
    /\ releases \in [Turn -> Nat]

\* The request of t is under way with a lease that has not expired.
Live(t) == turn[t].pc = "streaming" /\ turn[t].guard /\ turn[t].until > clock

\* try_acquire_provider_request_lease: no two turns have requests under way
\* with unexpired leases, whatever late results and releases arrive, as long as
\* a turn whose statements fail does not ask again (its release of one request
\* would match the lease of the next).
LeaseIsExclusive == \A s, t \in Turn : Live(s) /\ Live(t) => s = t

\* record_provider_request_result: while a cooldown runs, no request is under
\* way with an unexpired lease; the one that was refused had the only one.
CooldownIsQuiet == row.cooldown > clock => \A t \in Turn : ~Live(t)

\* record_provider_request_result: no step ends or moves a cooldown that is
\* still running, not the late success of a turn whose lease has expired either.
CooldownIsKept == [][row.cooldown > clock => row'.cooldown = row.cooldown]_vars

\* ProviderRequestLeaseGuard: a lease with a guard is given back without
\* waiting for its expiry, however its request ends, unless the process dies
\* or its statements fail.
LeaseComesFree ==
    \A t \in Turn \ Faulty :
      turn[t].guard ~> (row.owner # t \/ turn[t].pc = "dead")
=============================================================================
