---------------------------- MODULE AgentMailbox ----------------------------
(***************************************************************************)
(* The durable inter-agent mailbox of codex-rs: the SQLite rows that hold  *)
(* a message's phase, the callers that admit, submit and recover messages, *)
(* and the recipient session that queues them, folds them into turns,      *)
(* writes them to its rollout and settles them when the turn ends.         *)
(*                                                                         *)
(* One recipient thread is modelled; rows of different recipients never    *)
(* interact.  Every database statement is one step, so callers, recovery   *)
(* and the recipient interleave between statements, and the process can    *)
(* die between any two of them.                                            *)
(***************************************************************************)
EXTENDS Naturals, Sequences

CONSTANTS
    Msg,            \* stable message ids
    NoMsg,          \* stands for "no message"
    Trigger,        \* the messages sent with trigger_turn = true
    Callers,        \* tasks that can send a message or resume the recipient
    MaxRequests,    \* max_subagent_model_requests_per_turn
    FlushMayFail,   \* whether a rollout flush can report an I/O error
    InputMayFail,   \* whether run_turn can fail before it records explicit input
    Budget          \* how often each environment event may happen

\* The environment events that Budget bounds.
Event == {"call", "crash", "abort", "unload", "human", "busy", "cancel"}

ASSUME MailboxAssumption ==
    /\ NoMsg \notin Msg
    /\ Trigger \subseteq Msg
    /\ MaxRequests \in Nat \ {0}
    /\ FlushMayFail \in BOOLEAN /\ InputMayFail \in BOOLEAN
    /\ Budget \in [Event -> Nat]

\* AgentMailboxPhase, and "absent" for a message that has no row.  The four
\* phases that no code writes (retryable_failure, applied, cancelled,
\* terminal_failure) are left out.
Phase == {"absent", "admitted", "ready", "submitting", "submitted",
          "provider_running", "unknown_outcome", "completed"}

\* Phases that mark_agent_message_completed leaves alone.
Final == {"completed", "unknown_outcome"}

\* Rows list_recoverable_agent_messages returns.
Recoverable == Phase \ {"absent", "completed"}

\* How a caller reaches the mailbox: CodexThread::send_agent_message, the
\* send_message/followup_task tools, a bare send_persisted call, or the
\* resume of a thread (which sends nothing of its own).
Route == {"api", "tool", "direct", "resume"}

CallerPC == {"idle", "admit", "make_ready", "load", "list", "recover",
             "send_admit", "send_ready", "begin", "send", "confirm",
             "revert", "done", "failed"}

Item == [msg : Msg, trig : BOOLEAN]
Op == [kind : {"mail"}, msg : Msg, trig : BOOLEAN]
        \cup [kind : {"wake", "stop"}, msg : {NoMsg}, trig : {FALSE}]

Idle == [msg |-> NoMsg, step |-> "idle"]
Recorder == {"task", "finisher"}

NoTurn == [st |-> "idle", at |-> "none", batch |-> <<>>, pend |-> <<>>,
           accept |-> TRUE, drain |-> FALSE, reqs |-> 0, tracked |-> {}]
NoFin == [on |-> FALSE, natural |-> FALSE, marked |-> FALSE,
          tracked |-> {}, pend |-> <<>>, follow |-> <<>>, start |-> FALSE]
NoHuman == [st |-> "none", input |-> <<>>]
IdleCall == [pc |-> "idle", route |-> "resume", msg |-> NoMsg,
             cur |-> NoMsg, ins |-> FALSE, rec |-> FALSE, todo |-> {}]

CallState ==
    [pc : CallerPC, route : Route, msg : Msg \cup {NoMsg},
     cur : Msg \cup {NoMsg}, ins : BOOLEAN, rec : BOOLEAN,
     todo : SUBSET [msg : Msg, phase : Phase]]
TurnState ==
    [st : {"idle", "reserved", "running", "finishing", "aborting"},
     at : {"none", "start", "drain", "sample", "exit", "killed"},
     batch : Seq(Item), pend : Seq(Item), accept : BOOLEAN,
     drain : BOOLEAN, reqs : Nat, tracked : SUBSET Msg]
FinishState ==
    [on : BOOLEAN, natural : BOOLEAN, marked : BOOLEAN,
     tracked : SUBSET Msg, pend : Seq(Item), follow : Seq(Msg),
     start : BOOLEAN]
HumanState == [st : {"none", "drain", "start"}, input : Seq(Item)]
RecordState ==
    [msg : Msg \cup {NoMsg},
     step : {"idle", "flush", "track", "run", "complete"}]

VARIABLES
    phase,      \* durable: phase of each row
    rollout,    \* durable: how often each message is in the rollout file
    loaded,     \* the recipient thread is loaded in the thread manager
    call,       \* what each caller is doing
    chan,       \* the recipient's submission channel
    mail,       \* mailbox_pending_mails with ready_for_admitted_turn set
    held,       \* mailbox_pending_mails without it
    turn,       \* the active-turn slot and its running task
    fin,        \* on_task_finished of the last detached task
    rec,        \* record_inter_agent_communication, one per recorder
    applied,    \* applied_agent_message_ids
    buffered,   \* handed to the rollout writer and not yet written
    capWait,    \* capacity_wait_scheduled
    human,      \* the submission loop in spawn_regular_turn_for_no_active_input
    busy,       \* other agents hold every execution slot
    fresh,      \* in the in-memory history and not yet sent to the provider
    runs,       \* history: provider requests that first carried the message
    thrown,     \* history: input of a task that another task's start threw away
    dropped,    \* history: left by a cancelled caller since the thread was loaded
    budget      \* environment events left

rowVars == <<phase, rollout>>
sessionVars == <<loaded, applied, buffered, fresh, rec>>
queueVars == <<chan, mail, held>>
loopVars == <<capWait, human>>
turnVars == <<turn, fin, loopVars>>
ghostVars == <<runs, thrown, dropped>>
recipientVars == <<sessionVars, queueVars, turnVars, ghostVars>>
vars == <<phase, rollout, loaded, call, chan, mail, held, turn, fin, rec,
          applied, buffered, capWait, human, busy, fresh, runs, thrown, dropped,
          budget>>

Init ==
    /\ phase = [m \in Msg |-> "absent"]
    /\ rollout = [m \in Msg |-> 0]
    /\ loaded = TRUE
    /\ call = [c \in Callers |-> IdleCall]
    /\ chan = <<>> /\ mail = <<>> /\ held = <<>>
    /\ turn = NoTurn /\ fin = NoFin
    /\ rec = [w \in Recorder |-> Idle]
    /\ applied = {} /\ buffered = {} /\ fresh = {}
    /\ capWait = FALSE /\ human = NoHuman /\ busy = FALSE
    /\ runs = [m \in Msg |-> 0] /\ thrown = {} /\ dropped = {}
    /\ budget = Budget

Spend(e) == budget[e] > 0 /\ budget' = [budget EXCEPT ![e] = @ - 1]

-----------------------------------------------------------------------------
(* Statements on a row.                                                    *)

\* Mutant: the update does not compare the expected phase.
TransitionBlind(m, from, to) == [phase EXCEPT ![m] = to]

\* transition_agent_message: compare-and-set of the phase.
Transition(m, from, to) ==
    IF phase[m] = from THEN [phase EXCEPT ![m] = to] ELSE phase

\* mark_agent_message_completed.
MarkCompleted(m) ==
    IF phase[m] \in Final \cup {"absent"} THEN phase
    ELSE [phase EXCEPT ![m] = "completed"]

\* admit_agent_message: insert unless the id is already there.
AdmitRow(m) == Transition(m, "absent", "admitted")

-----------------------------------------------------------------------------
(* Callers.                                                                *)

\* A caller that is done keeps nothing but its own message.
Goto(c, pc) ==
    call' = [call EXCEPT ![c] =
                IF pc \in {"done", "failed"}
                THEN [IdleCall EXCEPT !.pc = pc, !.msg = call[c].msg]
                ELSE [call[c] EXCEPT !.pc = pc]]

\* The first step of each route, and the step after the recipient is loaded,
\* after recovery, and after admission.
First(route) ==
    IF route = "api" THEN "admit" ELSE IF route = "direct" THEN "send_admit"
    ELSE "load"
AfterLoad(route) ==
    IF route = "api" THEN "send_admit" ELSE IF route = "tool" THEN "admit"
    ELSE "done"
AfterAdmit(route) == IF route = "api" THEN "load" ELSE "send_admit"

\* A message is sent, or sent again under the same stable id.
Start(c) ==
    /\ call[c].pc \in {"idle", "done", "failed"}
    /\ Spend("call")
    /\ \E m \in Msg, route \in Route \ {"resume"} :
          call' = [call EXCEPT ![c] = [IdleCall EXCEPT
                      !.pc = First(route), !.route = route,
                      !.msg = m, !.cur = m]]
    /\ UNCHANGED <<rowVars, recipientVars, busy>>

\* resume_thread_with_history: the recipient itself is resumed.
Resume(c) ==
    /\ call[c].pc \in {"idle", "done", "failed"}
    /\ ~loaded
    /\ call' = [call EXCEPT ![c] = [IdleCall EXCEPT !.pc = "load"]]
    /\ UNCHANGED <<rowVars, recipientVars, busy, budget>>

\* admit_inter_agent_communication: needs a loaded thread; a row that is new
\* or still admitted is then made ready.
Admit(c) ==
    LET m == call[c].msg IN
    /\ call[c].pc = "admit"
    /\ IF ~loaded
       THEN Goto(c, "failed") /\ UNCHANGED phase
       ELSE /\ phase' = AdmitRow(m)
            /\ Goto(c, IF phase[m] \in {"absent", "admitted"}
                       THEN "make_ready" ELSE AfterAdmit(call[c].route))
    /\ UNCHANGED <<rollout, recipientVars, busy, budget>>

MakeReady(c) ==
    /\ call[c].pc = "make_ready"
    /\ phase' = Transition(call[c].msg, "admitted", "ready")
    /\ Goto(c, AfterAdmit(call[c].route))
    /\ UNCHANGED <<rollout, recipientVars, busy, budget>>

\* Mutant: the applied ids are not rebuilt from the rollout.
LoadForgets(c) ==
    /\ call[c].pc = "load"
    /\ loaded' = TRUE
    /\ dropped' = IF loaded THEN dropped ELSE {}
    /\ Goto(c, IF loaded THEN AfterLoad(call[c].route) ELSE "list")
    /\ UNCHANGED <<rowVars, applied, buffered, fresh, rec, queueVars, turnVars,
                   runs, thrown, busy, budget>>

\* ensure_v2_agent_loaded: nothing to do for a loaded thread; otherwise a
\* session is built from the rollout, which also rebuilds the applied ids,
\* and the mailbox is recovered.
Load(c) ==
    /\ call[c].pc = "load"
    /\ IF loaded
       THEN Goto(c, AfterLoad(call[c].route)) /\ UNCHANGED <<sessionVars, dropped>>
       ELSE /\ loaded' = TRUE
            /\ applied' = {m \in Msg : rollout[m] > 0}
            /\ dropped' = {}
            /\ Goto(c, "list")
            /\ UNCHANGED <<buffered, fresh, rec>>
    /\ UNCHANGED <<rowVars, queueVars, turnVars, runs, thrown, busy, budget>>

\* The reload can fail: no metadata, provider not configured, no residency
\* slot.
LoadFails(c) ==
    /\ call[c].pc = "load" /\ ~loaded
    /\ Goto(c, "failed")
    /\ UNCHANGED <<rowVars, recipientVars, busy, budget>>

\* list_recoverable_agent_messages: one snapshot of (id, phase).
List(c) ==
    /\ call[c].pc = "list"
    /\ call' = [call EXCEPT
          ![c].pc = "recover", ![c].rec = TRUE,
          ![c].todo = {[msg |-> m, phase |-> phase[m]] :
                          m \in {n \in Msg : phase[n] \in Recoverable}}]
    /\ UNCHANGED <<rowVars, recipientVars, busy, budget>>

\* Mutant: a submitted row is left alone even when the rollout lacks it.
RecoveredKeepsSubmitted(r) ==
    CASE r.phase = "admitted" -> "ready"
      [] r.phase \in {"submitting", "provider_running"} -> "unknown_outcome"
      [] OTHER -> r.phase

\* The phase a recovered row moves to, judged on the snapshot.
RecoveredPhase(r) ==
    CASE r.phase = "admitted" -> "ready"
      [] r.phase = "submitted" ->
            IF r.msg \in applied THEN "unknown_outcome" ELSE "ready"
      [] r.phase \in {"submitting", "provider_running"} -> "unknown_outcome"
      [] OTHER -> r.phase

\* recover_inter_agent_communications: one row of the loop.  Rows whose
\* outcome is ambiguous are quarantined, the others are sent again.
Recover(c) ==
    /\ call[c].pc = "recover"
    /\ \E r \in call[c].todo :
          LET to == RecoveredPhase(r) IN
          /\ phase' = Transition(r.msg, r.phase, to)
          /\ call' = [call EXCEPT
                ![c].todo = @ \ {r},
                ![c].cur = r.msg,
                ![c].pc = IF to = "unknown_outcome" THEN "recover"
                          ELSE "send_admit"]
    /\ UNCHANGED <<rollout, recipientVars, busy, budget>>

RecoverEnd(c) ==
    /\ call[c].pc = "recover"
    /\ call[c].todo = {}
    /\ call' = [call EXCEPT ![c] = [IdleCall EXCEPT
                   !.pc = AfterLoad(call[c].route), !.route = call[c].route,
                   !.msg = call[c].msg, !.cur = call[c].msg]]
    /\ UNCHANGED <<rowVars, recipientVars, busy, budget>>

\* Where send_persisted_inter_agent_communication returns to.
Return(c) == IF call[c].rec THEN "recover" ELSE "done"

\* send_persisted_inter_agent_communication, admission.  A thread that is not
\* loaded offers no database handle, and the send then fails.
SendAdmit(c) ==
    LET m == call[c].cur IN
    /\ call[c].pc = "send_admit"
    /\ IF ~loaded
       THEN Goto(c, "failed") /\ UNCHANGED phase
       ELSE /\ phase' = AdmitRow(m)
            /\ IF phase[m] \in {"absent", "admitted"}
               THEN call' = [call EXCEPT ![c].ins = (phase[m] = "absent"),
                                         ![c].pc = "send_ready"]
               ELSE Goto(c, IF phase[m] = "ready" THEN "begin" ELSE Return(c))
    /\ UNCHANGED <<rollout, recipientVars, busy, budget>>

\* A row this call inserted must still be admitted; one it found may not be.
SendReady(c) ==
    LET m == call[c].cur IN
    /\ call[c].pc = "send_ready"
    /\ phase' = Transition(m, "admitted", "ready")
    /\ LET next == IF call[c].ins /\ phase[m] # "admitted" THEN Return(c)
                   ELSE "begin"
       IN  call' = [call EXCEPT ![c].ins = FALSE, ![c].pc = next]
    /\ UNCHANGED <<rollout, recipientVars, busy, budget>>

\* begin_agent_message_submission reserves the delivery attempt.
Begin(c) ==
    LET m == call[c].cur IN
    /\ call[c].pc = "begin"
    /\ phase' = Transition(m, "ready", "submitting")
    /\ Goto(c, IF phase[m] = "ready" THEN "send" ELSE Return(c))
    /\ UNCHANGED <<rollout, recipientVars, busy, budget>>

\* send_op: the message enters the recipient's channel, or the recipient is
\* gone.
Send(c) ==
    LET m == call[c].cur IN
    /\ call[c].pc = "send"
    /\ IF loaded
       THEN /\ chan' = Append(chan, [kind |-> "mail", msg |-> m,
                                     trig |-> m \in Trigger])
            /\ Goto(c, "confirm")
       ELSE Goto(c, "revert") /\ UNCHANGED chan
    /\ UNCHANGED <<rowVars, sessionVars, mail, held, turnVars, ghostVars,
                   busy, budget>>

\* The hand-over is confirmed; "lost its submitting state" is an error that
\* also ends a recovery loop.
Confirm(c) ==
    LET m == call[c].cur IN
    /\ call[c].pc = "confirm"
    /\ phase' = Transition(m, "submitting", "submitted")
    /\ Goto(c, IF phase[m] = "submitting" THEN Return(c) ELSE "failed")
    /\ UNCHANGED <<rollout, recipientVars, busy, budget>>

Revert(c) ==
    /\ call[c].pc = "revert"
    /\ phase' = Transition(call[c].cur, "submitting", "ready")
    /\ Goto(c, "failed")
    /\ UNCHANGED <<rollout, recipientVars, busy, budget>>

CallerStep(c) ==
    \/ Admit(c) \/ MakeReady(c) \/ Load(c) \/ LoadFails(c) \/ List(c)
    \/ Recover(c) \/ RecoverEnd(c) \/ SendAdmit(c) \/ SendReady(c) \/ Begin(c)
    \/ Send(c) \/ Confirm(c) \/ Revert(c)

\* The rows a caller has in hand: its own, or all that it is to recover.
InHand(c) ==
    IF call[c].pc = "list" THEN Msg
    ELSE {call[c].msg, call[c].cur} \cup {r.msg : r \in call[c].todo}

\* The sender's turn is interrupted, and the future of its tool call dropped
\* where it waits.  Its rows stay as they are until the recipient is loaded
\* again.
Cancel(c) ==
    /\ call[c].route = "tool" /\ call[c].pc \notin {"idle", "done", "failed"}
    /\ Spend("cancel")
    /\ Goto(c, "failed")
    /\ dropped' = dropped \cup {m \in Msg : m \in InHand(c) /\ phase[m] \in Recoverable}
    /\ UNCHANGED <<rowVars, sessionVars, queueVars, turnVars, runs, thrown, busy>>

-----------------------------------------------------------------------------
(* The recipient's submission loop and its mailbox queue.                  *)

AnyTrigger(q) == \E i \in 1..Len(q) : q[i].trig

\* The messages of a queue.
Msgs(q) == {q[i].msg : i \in 1..Len(q)}

\* A task is attached to the active-turn slot.
Running == turn.st = "running"

\* The submission loop is inside a handler that awaits: an abort or the start
\* of a human's turn.
InHandler == turn.st = "aborting" \/ human.st # "none"

\* start_task_with_execution_guard: a new task with the given explicit input
\* and pending input.
NewTurn(input, pending, drain) ==
    [NoTurn EXCEPT !.st = "running", !.at = "start", !.batch = input,
                   !.pend = pending, !.drain = drain]

\* Mutant: nobody waits for a slot when the agent pool is full.
StartWithoutWaiter(q, t) ==
    IF AnyTrigger(q \o held) /\ ~busy /\ t.st = "idle"
    THEN turn' = NewTurn(<<>>, q, TRUE) /\ mail' = <<>> /\ UNCHANGED capWait
    ELSE turn' = t /\ mail' = q /\ UNCHANGED capWait

\* maybe_start_turn_for_pending_work_with_sub_id in the submission loop, for the
\* mail in q and the active-turn slot t: only trigger mail wakes an idle thread,
\* a full agent pool leaves one waiter behind, and the task takes the ready
\* mail.  The slot is reserved and the task put into it in one step: the loop
\* handles nothing in between, and the start of a finisher that comes in between
\* overwrites this task, or is overwritten by it, alike.
StartPendingWork(q, t) ==
    IF AnyTrigger(q \o held) /\ ~busy /\ t.st = "idle"
    THEN turn' = NewTurn(<<>>, q, TRUE) /\ mail' = <<>> /\ UNCHANGED capWait
    ELSE /\ turn' = t
         /\ mail' = q
         /\ capWait' = (capWait \/ (AnyTrigger(q \o held) /\ busy))

\* inter_agent_communication: queue-only mail that arrives while a task runs
\* is held back until that task has ended.
HandleMail ==
    LET it == [msg |-> Head(chan).msg, trig |-> Head(chan).trig] IN
    /\ loaded /\ chan # <<>> /\ Head(chan).kind = "mail"
    /\ ~InHandler
    /\ chan' = Tail(chan)
    /\ IF it.trig
       THEN StartPendingWork(Append(mail, it), turn) /\ UNCHANGED held
       ELSE /\ IF Running THEN held' = Append(held, it) /\ UNCHANGED mail
                          ELSE mail' = Append(mail, it) /\ UNCHANGED held
            /\ UNCHANGED <<turn, capWait>>
    /\ UNCHANGED <<rowVars, sessionVars, fin, human, ghostVars, call, busy, budget>>

\* Op::WakePendingWork.
HandleWake ==
    /\ loaded /\ chan # <<>> /\ Head(chan).kind = "wake"
    /\ ~InHandler
    /\ chan' = Tail(chan)
    /\ StartPendingWork(mail, turn)
    /\ UNCHANGED <<rowVars, sessionVars, held, fin, human, ghostVars, call, busy,
                   budget>>

\* Mutant: the wake is submitted as mail.
CapacityMail ==
    /\ loaded /\ capWait /\ ~busy
    /\ capWait' = FALSE
    /\ chan' = Append(chan, [kind |-> "mail", msg |-> NoMsg, trig |-> FALSE])
    /\ UNCHANGED <<rowVars, sessionVars, mail, held, turn, fin, human, ghostVars,
                   call, busy, budget>>

\* wait_for_execution_capacity, then submit_pending_work_wake.
CapacityWake ==
    /\ loaded /\ capWait /\ ~busy
    /\ capWait' = FALSE
    /\ chan' = IF AnyTrigger(mail \o held)
               THEN Append(chan, [kind |-> "wake", msg |-> NoMsg, trig |-> FALSE])
               ELSE chan
    /\ UNCHANGED <<rowVars, sessionVars, mail, held, turn, fin, human, ghostVars,
                   call, busy, budget>>

\* Turns of other agents take the last execution slot and give it back.
OthersFillPool ==
    /\ ~busy /\ busy' = TRUE
    /\ Spend("busy")
    /\ UNCHANGED <<rowVars, recipientVars, call>>

OthersReleaseSlot ==
    /\ busy /\ busy' = FALSE
    /\ UNCHANGED <<rowVars, recipientVars, call, budget>>

\* The human's input finds no task to steer: the slot is empty, only reserved,
\* or its task is detached.
HumanTurn ==
    /\ loaded /\ ~InHandler /\ ~Running
    /\ Spend("human")
    /\ human' = [NoHuman EXCEPT !.st = "drain"]
    /\ UNCHANGED <<rowVars, sessionVars, queueVars, turn, fin, capWait, ghostVars,
                   call, busy>>

\* spawn_regular_turn_for_no_active_input: the ready mail becomes explicit input
\* of the human's turn ...
HumanDrain ==
    /\ human.st = "drain"
    /\ human' = [st |-> "start", input |-> mail]
    /\ mail' = <<>>
    /\ UNCHANGED <<rowVars, sessionVars, chan, held, turn, fin, capWait, ghostVars,
                   call, busy, budget>>

\* ... abort_all_tasks(Replaced) takes a task that a finisher has started
\* meanwhile ...
HumanReplace ==
    /\ human.st = "start" /\ Running
    /\ turn' = [turn EXCEPT !.st = "aborting"]
    /\ thrown' = thrown \cup Msgs(turn.pend) \cup Msgs(turn.batch)
    /\ UNCHANGED <<rowVars, sessionVars, queueVars, fin, loopVars, runs, dropped,
                   call, busy, budget>>

\* ... and start_task puts the task into the slot, emptied if it was reserved
\* or its task detached.  Mail made ready since then becomes pending input.
HumanStart ==
    /\ human.st = "start" /\ turn.st \notin {"running", "aborting"}
    /\ turn' = NewTurn(human.input, mail, FALSE)
    /\ mail' = <<>>
    /\ human' = NoHuman
    /\ UNCHANGED <<rowVars, sessionVars, chan, held, fin, capWait, ghostVars, call,
                   busy, budget>>

-----------------------------------------------------------------------------
(* record_inter_agent_communication, run by the task or by its finisher.   *)

\* Mutant: without the applied-id check.
RecordAgain(w, m) ==
    /\ applied' = applied \cup {m}
    /\ buffered' = buffered \cup {m}
    /\ fresh' = fresh \cup {m}
    /\ rec' = [rec EXCEPT ![w] = [msg |-> m, step |-> "flush"]]

\* The first half: the applied-id check, the in-memory history and the item
\* handed to the rollout writer.  A message already applied is dropped.
Record(w, m) ==
    IF m \in applied
    THEN UNCHANGED <<applied, buffered, fresh, rec>>
    ELSE /\ applied' = applied \cup {m}
         /\ buffered' = buffered \cup {m}
         /\ fresh' = fresh \cup {m}
         /\ rec' = [rec EXCEPT ![w] = [msg |-> m, step |-> "flush"]]

\* The rollout after the writer has written what it holds.
Written == [m \in Msg |-> rollout[m] + (IF m \in buffered THEN 1 ELSE 0)]

\* Mutant: the row is acknowledged although the flush failed.
FlushErrorIgnored(w) ==
    /\ rec[w].step = "flush"
    /\ \/ rollout' = Written /\ buffered' = {}
       \/ FlushMayFail /\ UNCHANGED <<rollout, buffered>>
    /\ rec' = [rec EXCEPT ![w].step = "track"]
    /\ UNCHANGED <<phase, loaded, applied, fresh, queueVars, turnVars,
                   ghostVars, call, busy, budget>>

\* flush_rollout; after an error the row is left to recovery.
Flush(w) ==
    /\ rec[w].step = "flush"
    /\ \/ /\ rollout' = Written
          /\ buffered' = {}
          /\ rec' = [rec EXCEPT ![w].step = "track"]
       \/ /\ FlushMayFail
          /\ rec' = [rec EXCEPT ![w] = Idle]
          /\ UNCHANGED <<rollout, buffered>>
    /\ UNCHANGED <<phase, loaded, applied, fresh, queueVars, turnVars,
                   ghostVars, call, busy, budget>>

\* track_agent_message_for_turn: the message belongs to the turn only while
\* its task is still attached to the slot.
Track(w) ==
    LET mine == w = "task" /\ Running IN
    /\ rec[w].step = "track"
    /\ turn' = IF mine THEN [turn EXCEPT !.tracked = @ \cup {rec[w].msg}]
               ELSE turn
    /\ rec' = [rec EXCEPT ![w].step = IF mine THEN "run" ELSE "complete"]
    /\ UNCHANGED <<rowVars, loaded, applied, buffered, fresh, queueVars, fin,
                   loopVars, ghostVars, call, busy, budget>>

\* The row follows the rollout.
Acknowledge(w) ==
    /\ rec[w].step \in {"run", "complete"}
    /\ phase' = IF rec[w].step = "run"
                THEN Transition(rec[w].msg, "submitted", "provider_running")
                ELSE MarkCompleted(rec[w].msg)
    /\ rec' = [rec EXCEPT ![w] = Idle]
    /\ UNCHANGED <<rollout, loaded, applied, buffered, fresh, queueVars,
                   turnVars, ghostVars, call, busy, budget>>

\* The rollout writer writes on its own as well.
BackgroundWrite ==
    /\ loaded /\ buffered # {}
    /\ rollout' = Written
    /\ buffered' = {}
    /\ UNCHANGED <<phase, loaded, applied, fresh, rec, queueVars, turnVars,
                   ghostVars, call, busy, budget>>

-----------------------------------------------------------------------------
(* The running task: RegularTask::run around run_turn.                     *)

\* Nothing is left of the input the task has taken so far.
Recorded == turn.batch = <<>> /\ rec["task"].step = "idle"

\* Mutant: the pending input of the detached task is not taken along.
DetachDropsPending(natural) ==
    /\ ~fin.on
    /\ fin' = [NoFin EXCEPT !.on = TRUE, !.natural = natural,
                            !.tracked = turn.tracked]
    /\ turn' = [NoTurn EXCEPT !.st = "finishing"]

\* on_task_finished, up to the point where the task is detached and its
\* pending input taken.  The finisher of the turn before is taken to have ended:
\* two of them never overlap in the model.
Detach(natural) ==
    /\ ~fin.on
    /\ fin' = [NoFin EXCEPT !.on = TRUE, !.natural = natural,
                            !.tracked = turn.tracked, !.pend = turn.pend]
    /\ turn' = [NoTurn EXCEPT !.st = "finishing"]

\* run_turn before its input is recorded (compaction, MCP servers, skills).
Setup ==
    /\ Running /\ turn.at = "start"
    /\ turn' = [turn EXCEPT !.at = "drain"]
    /\ UNCHANGED <<rowVars, sessionVars, queueVars, fin, loopVars, ghostVars,
                   call, busy, budget>>

\* A failure there ends run_turn with its input unrecorded: Ok(None) goes
\* back to RegularTask::run, an error ends the task.
SetupFails ==
    /\ Running /\ turn.at = "start"
    /\ turn.batch # <<>> => InputMayFail
    /\ \/ turn' = [turn EXCEPT !.at = "exit", !.batch = <<>>] /\ UNCHANGED fin
       \/ Detach(FALSE)
    /\ UNCHANGED <<rowVars, sessionVars, queueVars, loopVars, ghostVars, call,
                   busy, budget>>

\* run_hooks_and_record_inputs takes the next item.  A task being aborted is
\* still given time to do so.
TakeInput ==
    /\ turn.st \in {"running", "aborting"} /\ turn.at # "start"
    /\ turn.batch # <<>> /\ rec["task"].step = "idle"
    /\ turn' = [turn EXCEPT !.batch = Tail(@)]
    /\ Record("task", Head(turn.batch).msg)
    /\ UNCHANGED <<rowVars, loaded, queueVars, fin, loopVars, ghostVars, call,
                   busy, budget>>

\* Top of the sampling loop: the request limit, then get_pending_input.
Drain ==
    /\ Running /\ turn.at = "drain" /\ Recorded
    /\ IF turn.reqs >= MaxRequests
       THEN turn' = [turn EXCEPT !.at = "exit"] /\ UNCHANGED <<mail, held>>
       ELSE IF turn.drain /\ turn.accept
            THEN /\ turn' = [turn EXCEPT !.batch = @ \o turn.pend \o mail \o held,
                                         !.pend = <<>>, !.at = "sample"]
                 /\ mail' = <<>> /\ held' = <<>>
            ELSE turn' = [turn EXCEPT !.at = "sample"] /\ UNCHANGED <<mail, held>>
    /\ UNCHANGED <<rowVars, sessionVars, chan, fin, loopVars, ghostVars, call,
                   busy, budget>>

\* has_pending_input, for a slot that accepts or defers mailbox delivery.
HasPending(accept) ==
    accept /\ (turn.pend # <<>> \/ mail # <<>> \/ held # <<>>)

\* run_sampling_request: the provider sees everything recorded so far.  The
\* model asks for a follow-up, or gives its answer (which may defer further
\* mail to the next turn), or the request fails, which run_turn reports and
\* survives; any other error ends the task.
Sample ==
    /\ Running /\ turn.at = "sample" /\ Recorded
    /\ runs' = [m \in Msg |-> runs[m] + (IF m \in fresh THEN 1 ELSE 0)]
    /\ fresh' = {}
    /\ \/ turn' = [turn EXCEPT !.at = "drain", !.accept = TRUE,
                               !.drain = TRUE, !.reqs = @ + 1]
       \/ \E accept \in {turn.accept, turn.accept /\ AnyTrigger(turn.pend)} :
            turn' = [turn EXCEPT
                !.at = IF HasPending(accept) THEN "drain" ELSE "exit",
                !.accept = accept, !.drain = TRUE, !.reqs = @ + 1]
       \/ turn' = [turn EXCEPT !.at = "exit", !.reqs = @ + 1]
    /\ UNCHANGED <<rowVars, loaded, applied, buffered, rec, queueVars, fin,
                   loopVars, thrown, dropped, call, busy, budget>>

\* An error of run_turn other than a failed request (step context, world
\* state) ends the task without a natural completion.
TaskError ==
    /\ Running /\ turn.at = "sample" /\ Recorded
    /\ Detach(FALSE)
    /\ UNCHANGED <<rowVars, sessionVars, queueVars, loopVars, ghostVars, call,
                   busy, budget>>

\* RegularTask::run starts over while input is pending, else the task ends.
Exit ==
    /\ Running /\ turn.at = "exit"
    /\ IF HasPending(turn.accept)
       THEN /\ turn' = [turn EXCEPT !.at = "start", !.drain = TRUE, !.reqs = 0]
            /\ UNCHANGED fin
       ELSE Detach(TRUE)
    /\ UNCHANGED <<rowVars, sessionVars, queueVars, loopVars, ghostVars, call,
                   busy, budget>>

-----------------------------------------------------------------------------
(* on_task_finished after the task is detached.                            *)

\* finish_turn_mailbox_messages: one row.
SettledPhase(m, natural) ==
    IF natural THEN MarkCompleted(m)
    ELSE Transition(m, "provider_running", "unknown_outcome")

FinishSettle ==
    /\ fin.on
    /\ \E m \in fin.tracked :
          /\ phase' = SettledPhase(m, fin.natural)
          /\ fin' = [fin EXCEPT !.tracked = @ \ {m}]
    /\ UNCHANGED <<rollout, sessionVars, queueVars, turn, loopVars, ghostVars,
                   call, busy, budget>>

\* mark_mailbox_ready_for_next_turn.
FinishMarkReady ==
    /\ fin.on /\ fin.tracked = {} /\ ~fin.marked
    /\ fin' = [fin EXCEPT !.marked = TRUE]
    /\ mail' = mail \o held
    /\ held' = <<>>
    /\ UNCHANGED <<rowVars, sessionVars, chan, turn, loopVars, ghostVars, call,
                   busy, budget>>

\* Pending input the task never took: kept for a follow-up turn after a
\* natural end, otherwise recorded now.
FinishPending ==
    /\ fin.on /\ fin.marked /\ fin.pend # <<>>
    /\ rec["finisher"].step = "idle"
    /\ IF fin.natural
       THEN /\ fin' = [fin EXCEPT !.pend = Tail(@),
                          !.follow = Append(@, Head(fin.pend).msg)]
            /\ UNCHANGED <<applied, buffered, fresh, rec>>
       ELSE /\ fin' = [fin EXCEPT !.pend = Tail(@)]
            /\ Record("finisher", Head(fin.pend).msg)
    /\ UNCHANGED <<rowVars, loaded, queueVars, turn, loopVars, ghostVars, call,
                   busy, budget>>

\* submit_follow_up_input: each item comes back as trigger mail.
FollowUp(s) ==
    [i \in 1..Len(s) |-> [kind |-> "mail", msg |-> s[i], trig |-> TRUE]]

\* The slot is cleared if it is still this task's; the follow-up input is
\* dispatched either way, else pending mail reserves the slot for the next turn.
FinishEnd ==
    LET mine == turn.st = "finishing"
        wanted == mine /\ fin.follow = <<>> /\ AnyTrigger(mail \o held)
    IN
    /\ fin.on /\ fin.marked /\ fin.pend = <<>> /\ ~fin.start
    /\ rec["finisher"].step = "idle"
    /\ fin' = IF wanted /\ ~busy THEN [fin EXCEPT !.start = TRUE] ELSE NoFin
    /\ turn' = IF ~mine THEN turn
               ELSE [NoTurn EXCEPT !.st = IF wanted /\ ~busy THEN "reserved" ELSE "idle"]
    /\ chan' = chan \o FollowUp(fin.follow)
    /\ capWait' = (capWait \/ (wanted /\ busy))
    /\ UNCHANGED <<rowVars, sessionVars, mail, held, human, ghostVars, call, busy,
                   budget>>

\* The finisher's start_task_with_execution_guard, some awaits after it has
\* reserved the slot: the task takes the ready mail and is put into whatever
\* turn is in the slot by now.  A task it finds there is dropped, which aborts
\* it, and its turn's pending input and messages become the new task's.  An
\* abort in progress is taken to end first.
FinishStart ==
    /\ fin.start /\ turn.st # "aborting"
    /\ fin' = NoFin
    /\ turn' = IF Running
               THEN [turn EXCEPT !.at = "start", !.batch = <<>>, !.pend = @ \o mail,
                                 !.drain = TRUE, !.reqs = 0]
               ELSE NewTurn(<<>>, mail, TRUE)
    /\ rec' = [rec EXCEPT !["task"] = IF Running THEN Idle ELSE @]
    /\ thrown' = IF Running THEN thrown \cup Msgs(turn.batch) ELSE thrown
    /\ mail' = <<>>
    /\ UNCHANGED <<rowVars, loaded, applied, buffered, fresh, chan, held, loopVars,
                   runs, dropped, call, busy, budget>>

-----------------------------------------------------------------------------
(* abort_all_tasks: the slot is taken, the task is given a grace period and *)
(* killed wherever it stands, its rows are settled, its input is dropped.   *)

\* A slot that holds no task, reserved or with its task detached, is simply
\* emptied.
Abort ==
    /\ loaded /\ ~InHandler /\ turn.st # "idle"
    /\ Spend("abort")
    /\ turn' = IF Running THEN [turn EXCEPT !.st = "aborting"] ELSE NoTurn
    /\ UNCHANGED <<rowVars, sessionVars, queueVars, fin, loopVars, ghostVars,
                   call, busy>>

AbortKill ==
    /\ turn.st = "aborting" /\ turn.at # "killed"
    /\ turn' = [turn EXCEPT !.at = "killed", !.batch = <<>>]
    /\ rec' = [rec EXCEPT !["task"] = Idle]
    /\ UNCHANGED <<rowVars, loaded, applied, buffered, fresh, queueVars, fin,
                   loopVars, ghostVars, call, busy, budget>>

AbortSettle ==
    /\ turn.st = "aborting" /\ turn.at = "killed"
    /\ \E m \in turn.tracked :
          /\ phase' = SettledPhase(m, FALSE)
          /\ turn' = [turn EXCEPT !.tracked = @ \ {m}]
    /\ UNCHANGED <<rollout, sessionVars, queueVars, fin, loopVars, ghostVars,
                   call, busy, budget>>

\* An interrupt starts the next turn for pending mail, a human's turn itself.
AbortEnd ==
    /\ turn.st = "aborting" /\ turn.at = "killed" /\ turn.tracked = {}
    /\ IF human.st = "none" THEN StartPendingWork(mail, NoTurn)
       ELSE turn' = NoTurn /\ UNCHANGED <<mail, capWait>>
    /\ UNCHANGED <<rowVars, sessionVars, chan, held, fin, human, ghostVars, call,
                   busy, budget>>

-----------------------------------------------------------------------------
(* Unloading and crashing.                                                 *)

\* What is lost with the session.
DropSession ==
    /\ loaded' = FALSE
    /\ chan' = <<>> /\ mail' = <<>> /\ held' = <<>>
    /\ turn' = NoTurn /\ fin' = NoFin
    /\ rec' = [w \in Recorder |-> Idle]
    /\ applied' = {} /\ buffered' = {} /\ fresh' = {}
    /\ capWait' = FALSE /\ human' = NoHuman

\* try_unload_one_resident: an idle thread with no pending mail is asked to
\* shut down; mail can still arrive before it does.
Unload ==
    /\ loaded /\ turn.st = "idle" /\ ~fin.on
    /\ mail = <<>> /\ held = <<>>
    /\ Spend("unload")
    /\ chan' = Append(chan, [kind |-> "stop", msg |-> NoMsg, trig |-> FALSE])
    /\ UNCHANGED <<rowVars, sessionVars, mail, held, turnVars, ghostVars, call,
                   busy>>

\* shutdown: a task started meanwhile is aborted, the rollout is flushed, the
\* thread leaves the manager and whatever is still queued goes with it.  The
\* finisher of a detached task is taken to end first.
Shutdown ==
    /\ loaded /\ chan # <<>> /\ Head(chan).kind = "stop"
    /\ ~InHandler /\ ~fin.on
    /\ phase' = [m \in Msg |-> IF m \in turn.tracked
                               THEN SettledPhase(m, FALSE)[m] ELSE phase[m]]
    /\ \/ rollout' = Written
       \/ FlushMayFail /\ UNCHANGED rollout
    /\ DropSession
    /\ UNCHANGED <<ghostVars, call, busy, budget>>

\* The process dies; the next one starts with nothing loaded.
Crash ==
    /\ Spend("crash")
    /\ DropSession
    /\ call' = [c \in Callers |-> IdleCall]
    /\ UNCHANGED <<rowVars, ghostVars, busy>>

-----------------------------------------------------------------------------
SessionLoop ==
    HandleMail \/ HandleWake \/ HumanDrain \/ HumanReplace \/ HumanStart \/ Shutdown
Task == Setup \/ SetupFails \/ TakeInput \/ Drain \/ Sample \/ TaskError \/ Exit
Finisher ==
    FinishSettle \/ FinishMarkReady \/ FinishPending \/ FinishEnd \/ FinishStart
Aborter == AbortKill \/ AbortSettle \/ AbortEnd
RecordStep(w) == Flush(w) \/ Track(w) \/ Acknowledge(w)

Next ==
    \/ \E c \in Callers : Start(c) \/ Resume(c) \/ CallerStep(c) \/ Cancel(c)
    \/ SessionLoop \/ Task \/ Finisher \/ Aborter
    \/ \E w \in Recorder : RecordStep(w)
    \/ CapacityWake \/ BackgroundWrite
    \/ OthersFillPool \/ OthersReleaseSlot \/ HumanTurn \/ Abort \/ Unload \/ Crash

Spec == Init /\ [][Next]_vars

\* Every task, and every caller that is not cancelled, steps when it can; the
\* recipient is resumed again after a crash, neither a reload nor the setup of a
\* turn fails forever, and the turns of other agents end.
Fairness ==
    /\ \A c \in Callers : /\ WF_vars(CallerStep(c))
                          /\ WF_vars(Resume(c))
                          /\ SF_vars(Load(c))
    /\ \A w \in Recorder : WF_vars(RecordStep(w))
    /\ WF_vars(SessionLoop) /\ WF_vars(Task) /\ SF_vars(Setup)
    /\ WF_vars(Finisher) /\ WF_vars(Aborter)
    /\ WF_vars(CapacityWake) /\ WF_vars(OthersReleaseSlot)

FairSpec == Spec /\ Fairness

-----------------------------------------------------------------------------
(* Properties.                                                             *)

RowsOK ==
    /\ phase \in [Msg -> Phase] /\ rollout \in [Msg -> Nat]
    /\ runs \in [Msg -> Nat] /\ thrown \in SUBSET Msg /\ dropped \in SUBSET Msg
    /\ budget \in [Event -> Nat]
CallsOK == call \in [Callers -> CallState]
SessionOK ==
    /\ loaded \in BOOLEAN /\ busy \in BOOLEAN /\ capWait \in BOOLEAN
    /\ applied \in SUBSET Msg /\ buffered \in SUBSET Msg
    /\ fresh \in SUBSET Msg
    /\ rec \in [Recorder -> RecordState]
QueuesOK == chan \in Seq(Op) /\ mail \in Seq(Item) /\ held \in Seq(Item)
TurnOK == turn \in TurnState /\ fin \in FinishState /\ human \in HumanState

\* Every variable keeps its type: rows, the callers' program counters, the
\* session's memory, its queues and its turn.
TypeOK == RowsOK /\ CallsOK /\ SessionOK /\ QueuesOK /\ TurnOK

\* However often a stable id is sent, recovered or followed up, and wherever
\* the process dies, the recipient's rollout holds the message at most once.
AppliedOnce == \A m \in Msg : rollout[m] <= 1

\* A row is acknowledged (provider_running, completed) only when the message
\* is in the rollout file, so no acknowledged message is lost in a crash.
AcknowledgedIsDurable ==
    \A m \in Msg :
        phase[m] \in {"provider_running", "completed"} => rollout[m] = 1

\* No message is put before the provider as new work twice: what may have
\* been executed is quarantined or deduplicated, never replayed.
ExecutedOnce == \A m \in Msg : runs[m] <= 1

\* Once a row is completed or quarantined, no caller, recovery or late
\* settlement moves it again.
OutcomeIsFinal ==
    [][\A m \in Msg : phase[m] \in Final => phase'[m] = phase[m]]_vars

\* Where an accepted message can be while it waits for its turn.
Waiting(m) ==
    \/ \E q \in {chan, mail, held, human.input, turn.pend, turn.batch, fin.pend} :
          m \in Msgs(q)
    \/ \E i \in 1..Len(fin.follow) : fin.follow[i] = m

\* As long as nothing interrupts the recipient, a message whose hand-over was
\* confirmed is still queued in the session or already in its history: no drain,
\* deferral, failed turn or follow-up loses it.  One thing does: a human's turn
\* and a finisher's start at the same time, and the later of the two starts
\* throws away the task of the other with the input it had taken.
AcceptedMailIsKept ==
    \A m \in Msg : loaded /\ phase[m] = "submitted" =>
        m \in applied \/ Waiting(m) \/ m \in thrown

\* Trigger mail does not sit in the queue of a loaded session for good: some
\* turn takes it, also when the slot or the agent pool was full on arrival.
TriggerMailIsTaken ==
    (loaded /\ ~busy /\ AnyTrigger(mail)) ~> (~loaded \/ busy \/ ~AnyTrigger(mail))

\* Every admitted trigger message reaches the recipient's rollout or is
\* quarantined, across a crash, an unload and a full agent pool, unless its
\* caller is cancelled with it in hand.  It is then left until the recipient is
\* loaded again, and from there on this holds of it once more.
TriggerMessageIsDelivered ==
    \A m \in Trigger : (phase[m] # "absent" /\ m \notin dropped) ~>
        rollout[m] > 0 \/ phase[m] = "unknown_outcome" \/ m \in dropped
=============================================================================
