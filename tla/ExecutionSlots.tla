--------------------------- MODULE ExecutionSlots ---------------------------
(***************************************************************************)
(* The execution limiter of codex-rs's agent control: one counter shared   *)
(* by all sub-agent sessions of a user session, the guards their turns     *)
(* hold, and the capacity waiters that a session leaves behind when the    *)
(* pool is full and trigger mail is pending.                               *)
(*                                                                         *)
(* A session has two places that start a turn for pending mail: its        *)
(* submission loop and the finisher of its last task.  Both run            *)
(* maybe_start_turn_for_pending_work, and every atomic operation and every *)
(* await in it is a step, as in the waiter and in a guard's drop.  What    *)
(* the turns do with the mail and follow-up input are AgentMailbox's;      *)
(* finishers that overlap take their turn to look for pending work.        *)
(***************************************************************************)
EXTENDS Naturals, FiniteSets

CONSTANTS
    Agent,          \* the sub-agent sessions
    MaxThreads,     \* max_threads of the limiter
    Budget          \* how often each environment event may happen

Event == {"mail", "human", "interrupt"}

ASSUME SlotsAssumption ==
    /\ IsFiniteSet(Agent)
    /\ MaxThreads \in Nat \ {0}
    /\ Budget \in [Event -> Nat]

Site == {"loop", "finisher"}

VARIABLES
    active,     \* AgentExecutionLimiter.active
    dropping,   \* guards whose drop has decremented and not yet notified
    turn,       \* the active-turn slot of each session
    fin,        \* on_task_finished calls between detach and slot cleanup
    mail,       \* pending trigger mail
    attempt,    \* maybe_start_turn_for_pending_work at each site
    scheduled,  \* capacity_wait_scheduled
    waiter,     \* the spawned capacity waiter
    notified,   \* whether its Notified future has been notified
    waking,     \* waiters past finish_capacity_wait
    wakes,      \* WakePendingWork ops in the submission channel
    budget      \* environment events left

poolVars == <<active, dropping>>
waitVars == <<scheduled, waiter, notified, waking, wakes>>
vars == <<active, dropping, turn, fin, mail, attempt, scheduled, waiter,
          notified, waking, wakes, budget>>

Running(a) == turn[a] \in {"worker", "human"}

\* The guards that exist: one per running turn and one per attempt that has
\* reserved a slot of the pool and not yet handed it to a task.
Holder == Site \cup {"turn"}
HasGuard(a, s) == attempt[a][s] \in {"granted", "starting"}
Holds(a, h) == IF h = "turn" THEN Running(a) ELSE HasGuard(a, h)
Guards == {g \in Agent \X Holder : Holds(g[1], g[2])}

Init ==
    /\ active = 0 /\ dropping = 0
    /\ turn = [a \in Agent |-> "none"]
    /\ fin = [a \in Agent |-> 0]
    /\ mail = [a \in Agent |-> 0]
    /\ attempt = [a \in Agent |-> [s \in Site |-> "idle"]]
    /\ scheduled = [a \in Agent |-> FALSE]
    /\ waiter = [a \in Agent |-> "none"]
    /\ notified = [a \in Agent |-> FALSE]
    /\ waking = [a \in Agent |-> 0] /\ wakes = [a \in Agent |-> 0]
    /\ budget = Budget

Spend(e) == budget[e] > 0 /\ budget' = [budget EXCEPT ![e] = @ - 1]

\* A guard is dropped: fetch_sub now, notify_waiters as a step of its own.
DropGuard == active' = active - 1 /\ dropping' = dropping + 1

Goto(a, s, pc) == attempt' = [attempt EXCEPT ![a][s] = pc]

-----------------------------------------------------------------------------
(* maybe_start_turn_for_pending_work_with_sub_id.                          *)

\* inter_agent_communication: trigger mail is queued, then the submission
\* loop tries to start a turn for it.
MailArrives(a) ==
    /\ attempt[a]["loop"] = "idle"
    /\ Spend("mail")
    /\ mail' = [mail EXCEPT ![a] = @ + 1]
    /\ Goto(a, "loop", "check")
    /\ UNCHANGED <<poolVars, turn, fin, waitVars>>

\* Op::WakePendingWork.
HandleWake(a) ==
    /\ attempt[a]["loop"] = "idle" /\ wakes[a] > 0
    /\ wakes' = [wakes EXCEPT ![a] = @ - 1]
    /\ Goto(a, "loop", "check")
    /\ UNCHANGED <<poolVars, turn, fin, mail, scheduled, waiter, notified,
                   waking, budget>>

CheckMail(a, s) ==
    /\ attempt[a][s] = "check"
    /\ Goto(a, s, IF mail[a] > 0 THEN "try" ELSE "idle")
    /\ UNCHANGED <<poolVars, turn, fin, mail, waitVars, budget>>

\* Mutant: the limit is one too high.
TryGuardPastLimit(a, s) ==
    /\ attempt[a][s] = "try"
    /\ \/ active <= MaxThreads /\ active' = active + 1 /\ Goto(a, s, "granted")
       \/ active > MaxThreads /\ Goto(a, s, "denied") /\ UNCHANGED active
    /\ UNCHANGED <<dropping, turn, fin, mail, waitVars, budget>>

\* try_guard: the compare-exchange loop takes a slot or finds none.
TryGuard(a, s) ==
    /\ attempt[a][s] = "try"
    /\ \/ active < MaxThreads /\ active' = active + 1 /\ Goto(a, s, "granted")
       \/ active >= MaxThreads /\ Goto(a, s, "denied") /\ UNCHANGED active
    /\ UNCHANGED <<dropping, turn, fin, mail, waitVars, budget>>

\* AgentLimitReached: try_schedule_capacity_wait spawns one waiter.
ScheduleWait(a, s) ==
    /\ attempt[a][s] = "denied"
    /\ Goto(a, s, "idle")
    /\ scheduled' = [scheduled EXCEPT ![a] = TRUE]
    /\ waiter' = [waiter EXCEPT ![a] = IF scheduled[a] THEN @ ELSE "enroll"]
    /\ UNCHANGED <<poolVars, turn, fin, mail, notified, waking, wakes, budget>>

\* Mutant: an attempt that finds the session busy forgets its guard.
ReserveTurnLeaks(a, s) ==
    /\ attempt[a][s] = "granted"
    /\ \/ /\ turn[a] = "none"
          /\ turn' = [turn EXCEPT ![a] = "reserved"]
          /\ Goto(a, s, "starting")
       \/ turn[a] # "none" /\ Goto(a, s, "idle") /\ UNCHANGED turn
    /\ UNCHANGED <<poolVars, fin, mail, waitVars, budget>>

\* An idle session's active-turn slot is filled with a turn without a task; a
\* session that is not idle keeps its turn and the guard is dropped.
ReserveTurn(a, s) ==
    /\ attempt[a][s] = "granted"
    /\ \/ /\ turn[a] = "none"
          /\ turn' = [turn EXCEPT ![a] = "reserved"]
          /\ Goto(a, s, "starting")
          /\ UNCHANGED poolVars
       \/ /\ turn[a] # "none"
          /\ Goto(a, s, "idle")
          /\ DropGuard /\ UNCHANGED turn
    /\ UNCHANGED <<fin, mail, waitVars, budget>>

\* start_task_with_execution_guard, some awaits later: the task takes the mail
\* and is put into the slot, whoever's that is by now.  A task it finds there
\* is dropped, which aborts it and drops its guard.
StartTask(a, s) ==
    /\ attempt[a][s] = "starting"
    /\ Goto(a, s, "idle")
    /\ turn' = [turn EXCEPT ![a] = "worker"]
    /\ mail' = [mail EXCEPT ![a] = 0]
    /\ \/ ~Running(a) /\ UNCHANGED poolVars
       \/ Running(a) /\ DropGuard
    /\ UNCHANGED <<fin, waitVars, budget>>

-----------------------------------------------------------------------------
(* Turns.                                                                  *)

\* Human input to a session without a running task, reserved or not: the
\* submission loop drains the mail ...
HumanTurn(a) ==
    /\ attempt[a]["loop"] = "idle" /\ ~Running(a)
    /\ Spend("human")
    /\ mail' = [mail EXCEPT ![a] = 0]
    /\ Goto(a, "loop", "human")
    /\ UNCHANGED <<poolVars, turn, fin, waitVars>>

\* ... and, some awaits later, abort_all_tasks(Replaced) drops the guard of a
\* task that was started meanwhile.  guard() counts the human's turn whatever
\* the limit says.
HumanStart(a) ==
    /\ attempt[a]["loop"] = "human"
    /\ Goto(a, "loop", "idle")
    /\ turn' = [turn EXCEPT ![a] = "human"]
    /\ mail' = [mail EXCEPT ![a] = 0]
    /\ \/ ~Running(a) /\ active' = active + 1 /\ UNCHANGED dropping
       \/ Running(a) /\ dropping' = dropping + 1 /\ UNCHANGED active
    /\ UNCHANGED <<fin, waitVars, budget>>

\* A running turn takes mail that arrived after it started.
TakeMail(a) ==
    /\ Running(a) /\ mail[a] > 0
    /\ mail' = [mail EXCEPT ![a] = 0]
    /\ UNCHANGED <<poolVars, turn, fin, attempt, waitVars, budget>>

\* on_task_finished detaches the task, which drops its guard while the slot
\* is still occupied.
TurnEnds(a) ==
    /\ Running(a)
    /\ turn' = [turn EXCEPT ![a] = "detached"]
    /\ fin' = [fin EXCEPT ![a] = @ + 1]
    /\ DropGuard
    /\ UNCHANGED <<mail, attempt, waitVars, budget>>

\* Mutant: the guard is dropped with the slot, a second time.
FinishClearsDrops(a) ==
    /\ turn[a] = "detached" /\ attempt[a]["finisher"] = "idle"
    /\ turn' = [turn EXCEPT ![a] = "none"]
    /\ fin' = [fin EXCEPT ![a] = @ - 1]
    /\ Goto(a, "finisher", "check")
    /\ DropGuard
    /\ UNCHANGED <<mail, waitVars, budget>>

\* The rest of on_task_finished: the finisher whose slot it still is empties
\* it and looks for pending work.
FinishClears(a) ==
    /\ turn[a] = "detached" /\ attempt[a]["finisher"] = "idle"
    /\ turn' = [turn EXCEPT ![a] = "none"]
    /\ fin' = [fin EXCEPT ![a] = @ - 1]
    /\ Goto(a, "finisher", "check")
    /\ UNCHANGED <<poolVars, mail, waitVars, budget>>

\* A finisher whose slot a human's turn has replaced, or an interrupt taken,
\* looks for no pending work.
FinishReplaced(a) ==
    /\ fin[a] > (IF turn[a] = "detached" THEN 1 ELSE 0)
    /\ fin' = [fin EXCEPT ![a] = @ - 1]
    /\ UNCHANGED <<poolVars, turn, mail, attempt, waitVars, budget>>

\* abort_all_tasks(Interrupted) of a running task.
Interrupt(a) ==
    /\ attempt[a]["loop"] = "idle" /\ Running(a)
    /\ Spend("interrupt")
    /\ turn' = [turn EXCEPT ![a] = "none"]
    /\ DropGuard
    /\ Goto(a, "loop", "check")
    /\ UNCHANGED <<fin, mail, waitVars>>

\* abort_all_tasks takes a slot that holds no task, one that is only reserved
\* or whose task is detached, and starts nothing.  The finisher then finds the
\* slot not its own and starts nothing either.
InterruptEmpty(a) ==
    /\ attempt[a]["loop"] = "idle" /\ turn[a] \in {"reserved", "detached"}
    /\ Spend("interrupt")
    /\ turn' = [turn EXCEPT ![a] = "none"]
    /\ UNCHANGED <<poolVars, fin, mail, attempt, waitVars>>

-----------------------------------------------------------------------------
(* Capacity waiters.                                                       *)

\* Mutant: only waiters that already sleep are notified.
NotifySleepers ==
    /\ dropping > 0
    /\ dropping' = dropping - 1
    /\ notified' = [a \in Agent |-> notified[a] \/ waiter[a] = "parked"]
    /\ UNCHANGED <<active, turn, fin, mail, attempt, scheduled, waiter, waking,
                   wakes, budget>>

\* notify_waiters reaches every Notified future that exists, polled or not.
NotifyWaiters ==
    /\ dropping > 0
    /\ dropping' = dropping - 1
    /\ notified' = [a \in Agent |->
                       notified[a] \/ waiter[a] \in {"look", "full", "parked"}]
    /\ UNCHANGED <<active, turn, fin, mail, attempt, scheduled, waiter, waking,
                   wakes, budget>>

\* Mutant: a notified waiter is not polled again.
EnrollOnce(a) ==
    /\ waiter[a] = "enroll"
    /\ waiter' = [waiter EXCEPT ![a] = "look"]
    /\ notified' = [notified EXCEPT ![a] = FALSE]
    /\ UNCHANGED <<poolVars, turn, fin, mail, attempt, scheduled, waking,
                   wakes, budget>>

\* wait_for_capacity creates the Notified future ...
Enroll(a) ==
    /\ waiter[a] = "enroll" \/ (waiter[a] = "parked" /\ notified[a])
    /\ waiter' = [waiter EXCEPT ![a] = "look"]
    /\ notified' = [notified EXCEPT ![a] = FALSE]
    /\ UNCHANGED <<poolVars, turn, fin, mail, attempt, scheduled, waking,
                   wakes, budget>>

\* ... then looks at the counter and returns, dropping the future, unless the
\* pool is full ...
Look(a) ==
    /\ waiter[a] = "look"
    /\ \/ /\ active < MaxThreads
          /\ waiter' = [waiter EXCEPT ![a] = "through"]
          /\ notified' = [notified EXCEPT ![a] = FALSE]
       \/ /\ active >= MaxThreads
          /\ waiter' = [waiter EXCEPT ![a] = "full"]
          /\ UNCHANGED notified
    /\ UNCHANGED <<poolVars, turn, fin, mail, attempt, scheduled, waking,
                   wakes, budget>>

\* ... and then awaits the future, which a notification since its creation
\* has already completed.
Park(a) ==
    /\ waiter[a] = "full"
    /\ waiter' = [waiter EXCEPT ![a] = "parked"]
    /\ UNCHANGED <<poolVars, turn, fin, mail, attempt, scheduled, notified,
                   waking, wakes, budget>>

\* Mutant: the flag is not reset.
FinishWaitKeepsFlag(a) ==
    /\ waiter[a] = "through"
    /\ waiter' = [waiter EXCEPT ![a] = "none"]
    /\ waking' = [waking EXCEPT ![a] = @ + 1]
    /\ UNCHANGED <<poolVars, turn, fin, mail, attempt, scheduled, notified,
                   wakes, budget>>

\* finish_capacity_wait.
FinishWait(a) ==
    /\ waiter[a] = "through"
    /\ waiter' = [waiter EXCEPT ![a] = "none"]
    /\ scheduled' = [scheduled EXCEPT ![a] = FALSE]
    /\ waking' = [waking EXCEPT ![a] = @ + 1]
    /\ UNCHANGED <<poolVars, turn, fin, mail, attempt, notified, wakes, budget>>

\* submit_pending_work_wake.
SubmitWake(a) ==
    /\ waking[a] > 0
    /\ waking' = [waking EXCEPT ![a] = @ - 1]
    /\ wakes' = [wakes EXCEPT ![a] = IF mail[a] > 0 THEN @ + 1 ELSE @]
    /\ UNCHANGED <<poolVars, turn, fin, mail, attempt, scheduled, waiter,
                   notified, budget>>

-----------------------------------------------------------------------------
AttemptStep(a, s) ==
    \/ CheckMail(a, s) \/ TryGuard(a, s) \/ ScheduleWait(a, s)
    \/ ReserveTurn(a, s) \/ StartTask(a, s)
WaiterStep(a) == Enroll(a) \/ Look(a) \/ Park(a) \/ FinishWait(a)

Next ==
    \/ \E a \in Agent :
          \/ MailArrives(a) \/ HandleWake(a) \/ HumanTurn(a) \/ HumanStart(a)
          \/ TakeMail(a) \/ TurnEnds(a) \/ FinishClears(a) \/ FinishReplaced(a)
          \/ Interrupt(a) \/ InterruptEmpty(a)
          \/ WaiterStep(a) \/ SubmitWake(a)
          \/ \E s \in Site : AttemptStep(a, s)
    \/ NotifyWaiters

Spec == Init /\ [][Next]_vars

\* Every task that can run does, and every turn ends.
Fairness ==
    /\ \A a \in Agent :
          /\ WF_vars(HandleWake(a)) /\ WF_vars(HumanStart(a))
          /\ WF_vars(TurnEnds(a))
          /\ WF_vars(FinishClears(a)) /\ WF_vars(WaiterStep(a))
          /\ WF_vars(SubmitWake(a))
          /\ \A s \in Site : WF_vars(AttemptStep(a, s))
    /\ WF_vars(NotifyWaiters)

FairSpec == Spec /\ Fairness

-----------------------------------------------------------------------------
(* Properties.                                                             *)

\* Every variable keeps its type.
TypeOK ==
    /\ active \in Nat /\ dropping \in Nat
    /\ turn \in [Agent -> {"none", "reserved", "worker", "human", "detached"}]
    /\ fin \in [Agent -> Nat] /\ mail \in [Agent -> Nat]
    /\ attempt \in [Agent -> [Site -> {"idle", "check", "try", "denied", "granted",
                                     "starting", "human"}]]
    /\ scheduled \in [Agent -> BOOLEAN]
    /\ waiter \in [Agent -> {"none", "enroll", "look", "full", "parked", "through"}]
    /\ notified \in [Agent -> BOOLEAN]
    /\ waking \in [Agent -> Nat] /\ wakes \in [Agent -> Nat]
    /\ budget \in [Event -> Nat]

\* The counter is the number of guards that exist: no turn that ends, is
\* interrupted or turns out not to be needed keeps a slot or frees two.
ActiveIsExact == active = Cardinality(Guards)

WorkerGuards == {g \in Guards : g[2] = "turn" => turn[g[1]] = "worker"}

\* However many human turns run beside them, the turns started for mail never
\* hold more guards than the limit.
WorkersAreBounded == Cardinality(WorkerGuards) <= MaxThreads

\* A waiter sleeps only while the pool is full or a guard's drop is about to
\* notify it: the wake-up of a freed slot cannot fall between the waiter's
\* look and its sleep.
NoLostWakeUp ==
    \A a \in Agent : waiter[a] = "parked" /\ ~notified[a] =>
        active >= MaxThreads \/ dropping > 0

\* Trigger mail of an idle session that is nobody's job: no attempt is in
\* progress, no waiter scheduled or about to submit its wake, and no wake is in
\* the channel.
Stranded(a) ==
    /\ mail[a] > 0 /\ turn[a] = "none"
    /\ \A s \in Site : attempt[a][s] = "idle"
    /\ waiter[a] = "none" /\ waking[a] = 0 /\ wakes[a] = 0

\* Only an interrupt that takes the slot of a detached task, and with it the
\* finisher's look at the mailbox, strands trigger mail.  A full pool, a busy
\* session, a replaced or interrupted turn and a wake-up that comes too early
\* or too late always leave somebody who will look again.
MailIsWatched ==
    [][\A a \in Agent : Stranded(a)' /\ ~Stranded(a) =>
          /\ turn[a] = "detached" /\ turn'[a] = "none"
          /\ budget'["interrupt"] < budget["interrupt"]]_vars

\* debug_assert!(turn.task.is_none()) in start_task_with_execution_guard: the
\* slot that a start for pending mail is about to fill holds no task.
StartFindsNoTask ==
    \A a \in Agent, s \in Site : attempt[a][s] = "starting" => ~Running(a)

\* Trigger mail is eventually taken by a turn, however full the pool was when
\* it arrived, unless an interrupt strands it until the next event.
MailGetsATurn == \A a \in Agent : mail[a] > 0 ~> mail[a] = 0 \/ Stranded(a)
=============================================================================
