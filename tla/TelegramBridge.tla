--------------------------- MODULE TelegramBridge ---------------------------
(***************************************************************************)
(* The Telegram connector of codex-rs for one conversation: the long poll, *)
(* the durable update inbox (dedup.rs), the per-chat update handler        *)
(* (bot.rs), the bridge task with its session and its queue of inputs      *)
(* (bridge/), and, as far as the bridge sees it, the app-server that runs  *)
(* turns and writes rollouts.                                              *)
(*                                                                         *)
(* The bridge is one task that handles a command or an event at a time, so *)
(* each of its handlers is one step; the handler, the completion monitors, *)
(* the poll and the turns run beside it, and the process can die between   *)
(* any two steps.                                                          *)
(***************************************************************************)
EXTENDS Naturals, Sequences, FiniteSets, Functions

CONSTANTS
    MaxUpdate,      \* update ids are 1..MaxUpdate
    MaxThreads,     \* how many threads the app-server can start
    Batch,          \* updates one getUpdates call returns at most
    Window,         \* DEDUP_WINDOW
    InboxCapacity,  \* INBOX_CAPACITY
    QueueCapacity,  \* PER_CONVERSATION_QUEUE_CAPACITY
    Scripts,        \* what the user may send: a kind for each update
    NoticesFail,    \* whether a message to the chat can fail to be sent
    Budget          \* how often each fault may happen

Updates == 1..MaxUpdate
Threads == 1..MaxThreads

\* A turn is named after the update whose turn/start created it; a turn core
\* starts by itself for leftover input has a name the bridge never learns.
NoTurn == 0
FollowUpTurn == MaxUpdate + 1
Turns == 0..(MaxUpdate + 1)

\* What the bridge does with an update: agent input, /new, or /cancel.
Kind == {"text", "new", "cancel"}

Fault == {"crash", "disk", "request"}

ASSUME TelegramAssumption ==
    /\ MaxUpdate \in Nat \ {0} /\ MaxThreads \in Nat \ {0}
    /\ Batch \in Nat \ {0} /\ Window \in Nat \ {0}
    /\ InboxCapacity \in Nat \ {0} /\ QueueCapacity \in Nat \ {0}
    /\ Scripts \subseteq [Updates -> Kind]
    /\ NoticesFail \in BOOLEAN
    /\ Budget \in [Fault -> Nat]

VARIABLES
    kind,       \* what each update asks for
    poll,       \* the last update fetched, and the last confirmed to Telegram
    feed,       \* updates waiting for the chat's handler
    handler,    \* the update being handled and how far it is
    inbox,      \* UpdateDeduplicator's State
    disk,       \* durable: the inbox file
    monitors,   \* updates with a spawned monitor_queued_update task
    signalled,  \* updates whose completion_tx was sent Ok
    ses,        \* ChatSession: thread_id, thread_loaded, turn_id
    saved,      \* durable: thread_id in state.json
    queue,      \* pending_inputs of the conversation
    srv,        \* the app-server's threads
    events,     \* TurnCompleted notifications the bridge has not handled
    acted,      \* history: updates this process has carried out
    done,       \* history: updates whose completion reached the disk
    budget      \* faults left

inboxVars == <<poll, feed, handler, inbox, disk, monitors, done>>
bridgeVars == <<ses, saved, queue, signalled, acted>>
vars == <<kind, poll, feed, handler, inbox, disk, monitors, signalled, ses,
          saved, queue, srv, events, acted, done, budget>>

Idle == [update |-> 0, step |-> "idle"]

Init ==
    /\ kind \in Scripts
    /\ poll = [fetched |-> 0, confirmed |-> 0]
    /\ feed = <<>> /\ handler = Idle
    /\ inbox = [pending |-> {}, completed |-> <<>>, inFlight |-> {}]
    /\ disk = [pending |-> {}, completed |-> <<>>]
    /\ monitors = {} /\ signalled = {}
    /\ ses = [thread |-> 0, loaded |-> FALSE, turn |-> NoTurn]
    /\ saved = 0 /\ queue = <<>>
    /\ srv = [started |-> 0, running |-> [t \in Threads |-> NoTurn],
              begun |-> [t \in Threads |-> FALSE],
              waiting |-> [t \in Threads |-> <<>>],
              rollout |-> [t \in Threads |-> <<>>]]
    /\ events = <<>>
    /\ acted = {} /\ done = {}
    /\ budget = Budget

Spend(f) == budget[f] > 0 /\ budget' = [budget EXCEPT ![f] = @ - 1]

-----------------------------------------------------------------------------
(* The chat and the long poll.                                             *)

\* Mutant: the batch starts at the update before the offset.
GetUpdatesLate ==
    \E n \in 0..Batch :
        /\ poll.fetched + n <= MaxUpdate
        /\ poll.confirmed < poll.fetched + n
        /\ poll' = [fetched |-> poll.fetched + n, confirmed |-> poll.fetched]
        /\ feed' = feed \o [i \in 1..n |-> poll.fetched + i - 1]
        /\ UNCHANGED <<kind, handler, inbox, disk, monitors, done, bridgeVars,
                       srv, events, budget>>

\* getUpdates: returns the next updates the user has sent, if any; the offset
\* sent with a call confirms the batches before it, whether or not their
\* updates were handled.
GetUpdates ==
    \E n \in 0..Batch :
        /\ poll.fetched + n <= MaxUpdate
        /\ poll.confirmed < poll.fetched + n
        /\ poll' = [fetched |-> poll.fetched + n, confirmed |-> poll.fetched]
        /\ feed' = feed \o [i \in 1..n |-> poll.fetched + i]
        /\ UNCHANGED <<kind, handler, inbox, disk, monitors, done, bridgeVars,
                       srv, events, budget>>

-----------------------------------------------------------------------------
(* UpdateDeduplicator.  Its persist_lock makes each call one step; a failed *)
(* write restores the memory it started from.                              *)

Snapshot(b) == [pending |-> b.pending, completed |-> b.completed]

Latest(s) == IF Len(s) > Window THEN SubSeq(s, Len(s) - Window + 1, Len(s)) ELSE s

\* State::mark_completed.
MarkCompleted(b, u) ==
    [pending |-> b.pending \ {u}, inFlight |-> b.inFlight \ {u},
     completed |-> Latest(IF u \in Range(b.completed) THEN b.completed
                          ELSE Append(b.completed, u))]

\* begin_update answers Duplicate or InboxFull.
Refused(u) ==
    \/ u \in Range(inbox.completed) \cup inbox.inFlight
    \/ u \notin inbox.pending /\ Cardinality(inbox.pending) >= InboxCapacity

\* begin_update answers Accepted, with the update on disk, or
\* PersistenceFailed.
BeginUpdate(u) ==
    LET begun == [inbox EXCEPT !.pending = @ \cup {u}, !.inFlight = @ \cup {u}] IN
    \/ /\ inbox' = begun /\ disk' = Snapshot(begun)
       /\ handler' = [update |-> u, step |-> "sent"]
       /\ UNCHANGED budget
    \/ /\ Spend("disk")
       /\ UNCHANGED <<inbox, disk, handler>>

CompleteUpdate(u) ==
    LET marked == MarkCompleted(inbox, u) IN
    \/ /\ inbox' = marked /\ disk' = Snapshot(marked)
       /\ done' = done \cup {u}
       /\ UNCHANGED budget
    \/ /\ Spend("disk")
       /\ UNCHANGED <<inbox, disk, done>>

ReleaseUpdate(u) ==
    /\ inbox' = [inbox EXCEPT !.inFlight = @ \ {u}]
    /\ UNCHANGED <<disk, done, budget>>

-----------------------------------------------------------------------------
(* handle_message: one update of a chat at a time.                         *)

Dispatch ==
    LET u == Head(feed) IN
    /\ handler = Idle /\ feed # <<>>
    /\ feed' = Tail(feed)
    /\ \/ Refused(u) /\ UNCHANGED <<handler, inbox, disk, budget>>
       \/ ~Refused(u) /\ BeginUpdate(u)
    /\ UNCHANGED <<kind, poll, monitors, done, bridgeVars, srv, events>>

\* Mutant: an input that was only queued is completed at once.
HandlerCompletesQueued ==
    LET u == handler.update IN
    /\ \/ /\ handler.step \in {"applied", "queued"}
          /\ CompleteUpdate(u) /\ UNCHANGED monitors
       \/ handler.step = "failed" /\ ReleaseUpdate(u) /\ UNCHANGED monitors
    /\ handler' = Idle
    /\ UNCHANGED <<kind, poll, feed, bridgeVars, srv, events>>

\* The bridge answered: Applied completes the update, Queued leaves it to a
\* monitor, an error releases the claim and leaves the update pending.
HandlerFinishes ==
    LET u == handler.update IN
    /\ \/ handler.step = "applied" /\ CompleteUpdate(u) /\ UNCHANGED monitors
       \/ /\ handler.step = "queued"
          /\ monitors' = monitors \cup {u}
          /\ UNCHANGED <<inbox, disk, done, budget>>
       \/ handler.step = "failed" /\ ReleaseUpdate(u) /\ UNCHANGED monitors
    /\ handler' = Idle
    /\ UNCHANGED <<kind, poll, feed, bridgeVars, srv, events>>

\* monitor_queued_update.
MonitorCompletes(u) ==
    /\ u \in monitors /\ u \in signalled
    /\ monitors' = monitors \ {u}
    /\ signalled' = signalled \ {u}
    /\ CompleteUpdate(u)
    /\ UNCHANGED <<kind, poll, feed, handler, ses, saved, queue, acted, srv,
                   events>>

-----------------------------------------------------------------------------
(* What a bridge handler can leave behind: whether it succeeded, and the   *)
(* session, the app-server, the saved thread and the faults left.          *)

Now == [ok |-> TRUE, ses |-> ses, srv |-> srv, saved |-> saved,
        budget |-> budget]

Failed(o) == [o EXCEPT !.ok = FALSE]

Faulty(o, f) ==
    IF o.budget[f] > 0 THEN {[Failed(o) EXCEPT !.budget[f] = @ - 1]} ELSE {}

\* start_new_thread: thread/start, then set_thread, which changes the session
\* even when it cannot save it.
StartNewThread(o) ==
    LET t == o.srv.started + 1
        new == [o EXCEPT !.srv.started = t,
                   !.ses = [thread |-> t, loaded |-> TRUE, turn |-> NoTurn]]
    IN  IF o.srv.started = MaxThreads THEN {Failed(o)}
        ELSE {[new EXCEPT !.saved = t]} \cup Faulty(new, "disk")
             \cup Faulty(o, "request")

\* ensure_thread: a thread of an earlier process is resumed, or replaced when
\* it never got a rollout.
EnsureThread(o) ==
    IF o.ses.thread = 0 THEN StartNewThread(o)
    ELSE IF o.ses.loaded THEN {o}
    ELSE IF o.srv.rollout[o.ses.thread] = <<>> THEN StartNewThread(o)
    ELSE {[o EXCEPT !.ses.loaded = TRUE]} \cup Faulty(o, "request")

\* turn/steer: accepted by the turn the session names, if it still runs; the
\* notice that follows is part of start_turn.
Steer(o, u) ==
    LET t == o.ses.thread
        added == [o EXCEPT !.srv.waiting[t] = Append(@, u)]
    IN  IF o.srv.running[t] # o.ses.turn THEN {Failed(o)}
        ELSE {added} \cup (IF NoticesFail THEN {Failed(added)} ELSE {})

\* turn/start returns when the input is submitted; core adds it to a turn
\* that is already running, whose name the session then does not know.
TurnStart(o, u) ==
    LET t == o.ses.thread
        idle == o.srv.running[t] = NoTurn
    IN  {[o EXCEPT !.ses.turn = u,
              !.srv.waiting[t] = Append(@, u),
              !.srv.running[t] = IF idle THEN u ELSE @,
              !.srv.begun[t] = IF idle THEN FALSE ELSE @]}

\* Mutant: the input is submitted without reading the thread's history.
SubmitUnread(o, u) == IF o.ses.turn # NoTurn THEN Steer(o, u) ELSE TurnStart(o, u)

\* start_turn after ensure_thread: an input the rollout already holds is not
\* submitted again.
Submit(o, u) ==
    IF u \in Range(o.srv.rollout[o.ses.thread]) THEN {o}
    ELSE IF o.ses.turn # NoTurn THEN Steer(o, u)
    ELSE TurnStart(o, u)

StartTurn(o, u) ==
    UNION {IF p.ok THEN Submit(p, u) \cup Faulty(p, "request") ELSE {p} :
              p \in EnsureThread(o)}

Becomes(o) ==
    ses' = o.ses /\ srv' = o.srv /\ saved' = o.saved /\ budget' = o.budget

Replies(step) == handler' = [handler EXCEPT !.step = step]

-----------------------------------------------------------------------------
(* Commands.                                                               *)

Commanded(k) == handler.step = "sent" /\ kind[handler.update] = k

\* handle_user_input: an input no turn takes is queued behind the turn the
\* session believes to be running.
HandleUserInput ==
    LET u == handler.update IN
    /\ Commanded("text")
    /\ \E o \in StartTurn(Now, u) :
          /\ Becomes(o)
          /\ \/ /\ o.ok
                /\ Replies("applied") /\ acted' = acted \cup {u}
                /\ UNCHANGED queue
             \/ /\ ~o.ok /\ o.ses.turn # NoTurn /\ Len(queue) < QueueCapacity
                /\ Replies("queued") /\ queue' = Append(queue, u)
                /\ UNCHANGED acted
             \/ /\ ~o.ok /\ (o.ses.turn = NoTurn \/ Len(queue) >= QueueCapacity)
                /\ Replies("failed")
                /\ UNCHANGED <<queue, acted>>
    /\ UNCHANGED <<kind, poll, feed, inbox, disk, monitors, done, signalled,
                   events>>

\* BridgeCommand::NewThread.  The queue is kept for the new thread.
NewThread ==
    /\ Commanded("new")
    /\ \E o \in StartNewThread(Now) :
          /\ Becomes(o)
          /\ Replies(IF o.ok THEN "applied" ELSE "failed")
          /\ acted' = IF o.ok THEN acted \cup {handler.update} ELSE acted
    /\ UNCHANGED <<kind, poll, feed, inbox, disk, monitors, done, signalled,
                   queue, events>>

\* turn/interrupt ends the turn and drops the input it has not recorded.
Interrupted(t) ==
    [srv EXCEPT !.running[t] = NoTurn, !.waiting[t] = <<>>]

\* cancel_turn: the queue is dropped and its updates count as carried out,
\* then the turn the session names is interrupted.
CancelTurn ==
    LET t == ses.thread
        live == ses.turn # NoTurn /\ srv.running[t] = ses.turn
        applied ==
            /\ Replies("applied")
            /\ acted' = acted \cup Range(queue) \cup {handler.update}
        failed == Replies("failed") /\ acted' = acted \cup Range(queue)
    IN  /\ Commanded("cancel")
        /\ queue' = <<>> /\ signalled' = signalled \cup Range(queue)
        /\ \/ /\ ses.turn = NoTurn
              /\ applied \/ (NoticesFail /\ failed)
              /\ UNCHANGED <<srv, events, budget>>
           \/ /\ live /\ applied
              /\ srv' = Interrupted(t)
              /\ events' = Append(events, [thread |-> t, status |-> "interrupted"])
              /\ UNCHANGED budget
           \/ /\ ses.turn # NoTurn /\ ~live /\ failed
              /\ UNCHANGED <<srv, events, budget>>
           \/ /\ live /\ failed /\ Spend("request")
              /\ UNCHANGED <<srv, events>>
        /\ UNCHANGED <<kind, poll, feed, inbox, disk, monitors, done, ses,
                       saved>>

-----------------------------------------------------------------------------
(* Events.  Every event, whatever it is, ends with pump_pending_inputs.    *)

\* pump_pending_inputs: when the session names no turn, the oldest queued
\* input is submitted; a failure puts it back.
Pump(s) ==
    \/ /\ queue = <<>> \/ s.turn # NoTurn
       /\ ses' = s
       /\ UNCHANGED <<srv, saved, budget, queue, signalled, acted>>
    \/ /\ queue # <<>> /\ s.turn = NoTurn
       /\ \E o \in StartTurn([Now EXCEPT !.ses = s], Head(queue)) :
             /\ Becomes(o)
             /\ \/ /\ o.ok
                   /\ queue' = Tail(queue)
                   /\ signalled' = signalled \cup {Head(queue)}
                   /\ acted' = acted \cup {Head(queue)}
                \/ ~o.ok /\ UNCHANGED <<queue, signalled, acted>>

\* Mutant: the turn is kept while inputs are queued behind it.
ClearedUnlessQueued(t) ==
    IF ses.thread = t /\ queue = <<>> THEN [ses EXCEPT !.turn = NoTurn] ELSE ses

\* clear_turn_for_thread: whichever turn of the thread ended.
Cleared(t) == IF ses.thread = t THEN [ses EXCEPT !.turn = NoTurn] ELSE ses

\* Mutant: completions of a thread the session has left are ignored.
TurnCompletedOwn ==
    LET e == Head(events) IN
    /\ events # <<>>
    /\ events' = Tail(events)
    /\ \/ ses.thread = e.thread /\ Pump(Cleared(e.thread))
       \/ ses.thread # e.thread /\ UNCHANGED <<bridgeVars, srv, budget>>
    /\ UNCHANGED <<kind, inboxVars>>

\* TurnCompleted: a notice about a turn that did not complete is sent first,
\* and when that fails the turn is not cleared.
TurnCompleted ==
    LET e == Head(events) IN
    /\ events # <<>>
    /\ events' = Tail(events)
    /\ \/ Pump(Cleared(e.thread))
       \/ /\ NoticesFail /\ e.status # "completed" /\ ses.thread = e.thread
          /\ Pump(ses)
    /\ UNCHANGED <<kind, inboxVars>>

\* Any other notification of a running turn.
OtherNotification ==
    /\ \E t \in Threads : srv.running[t] # NoTurn
    /\ Pump(ses)
    /\ UNCHANGED <<kind, inboxVars, events>>

-----------------------------------------------------------------------------
(* The app-server's turns.                                                 *)

\* The turn takes an accepted input and writes it to the rollout.
RecordInput(t) ==
    /\ srv.running[t] # NoTurn /\ srv.waiting[t] # <<>>
    /\ srv' = [srv EXCEPT !.rollout[t] = Append(@, Head(srv.waiting[t])),
                          !.waiting[t] = Tail(@), !.begun[t] = TRUE]
    /\ UNCHANGED <<kind, inboxVars, bridgeVars, events, budget>>

\* A turn ends by itself; input it never took waits for a follow-up turn.
TurnEnds(t) ==
    /\ srv.running[t] # NoTurn /\ srv.begun[t]
    /\ srv' = [srv EXCEPT !.running[t] = NoTurn]
    /\ \E status \in {"completed", "failed"} :
          events' = Append(events, [thread |-> t, status |-> status])
    /\ UNCHANGED <<kind, inboxVars, bridgeVars, budget>>

\* A turn ends with an error; input it never took is recorded.
TurnErrs(t) ==
    /\ srv.running[t] # NoTurn /\ srv.begun[t]
    /\ srv' = [srv EXCEPT !.running[t] = NoTurn, !.waiting[t] = <<>>,
                          !.rollout[t] = @ \o srv.waiting[t]]
    /\ events' = Append(events, [thread |-> t, status |-> "failed"])
    /\ UNCHANGED <<kind, inboxVars, bridgeVars, budget>>

\* submit_follow_up_input.
FollowUp(t) ==
    /\ srv.running[t] = NoTurn /\ srv.waiting[t] # <<>>
    /\ srv' = [srv EXCEPT !.running[t] = FollowUpTurn, !.begun[t] = FALSE]
    /\ UNCHANGED <<kind, inboxVars, bridgeVars, events, budget>>

-----------------------------------------------------------------------------
(* The process dies and starts again: UpdateDeduplicator::load,            *)
(* SessionStore::load, and a poll that replays the pending updates first.  *)

\* pending_updates: sorted by update id.
InOrder(S) ==
    LET n == Cardinality(S)
    IN  {s \in [1..n -> S] : \A i, j \in 1..n : i < j => s[i] < s[j]}

Crash ==
    /\ Spend("crash")
    /\ poll' = [poll EXCEPT !.fetched = poll.confirmed]
    /\ feed' \in InOrder(disk.pending) /\ handler' = Idle
    /\ inbox' = [pending |-> disk.pending, completed |-> Latest(disk.completed),
                 inFlight |-> {}]
    /\ monitors' = {} /\ signalled' = {}
    /\ ses' = [thread |-> saved, loaded |-> FALSE, turn |-> NoTurn]
    /\ queue' = <<>>
    /\ srv' = [srv EXCEPT !.running = [t \in Threads |-> NoTurn],
                          !.waiting = [t \in Threads |-> <<>>]]
    /\ events' = <<>> /\ acted' = done
    /\ UNCHANGED <<kind, disk, saved, done>>

-----------------------------------------------------------------------------
Bridge == HandleUserInput \/ NewThread \/ CancelTurn \/ TurnCompleted
Turn(t) == RecordInput(t) \/ TurnEnds(t) \/ TurnErrs(t) \/ FollowUp(t)

Next ==
    \/ GetUpdates \/ Dispatch \/ HandlerFinishes
    \/ \E u \in Updates : MonitorCompletes(u)
    \/ Bridge \/ OtherNotification
    \/ \E t \in Threads : Turn(t)
    \/ Crash

Spec == Init /\ [][Next]_vars

\* The handler, the monitors and the bridge are tasks that run when
\* they can; a turn records its input and ends.
Fairness ==
    /\ WF_vars(Dispatch) /\ WF_vars(HandlerFinishes)
    /\ \A u \in Updates : WF_vars(MonitorCompletes(u))
    /\ WF_vars(HandleUserInput \/ NewThread \/ CancelTurn)
    /\ WF_vars(TurnCompleted)
    /\ \A t \in Threads : /\ WF_vars(RecordInput(t) \/ FollowUp(t))
                          /\ WF_vars(TurnEnds(t) \/ TurnErrs(t))

FairSpec == Spec /\ Fairness

-----------------------------------------------------------------------------
(* Properties.                                                             *)

Inbox == [pending : SUBSET Updates, completed : Seq(Updates),
          inFlight : SUBSET Updates]
File == [pending : SUBSET Updates, completed : Seq(Updates)]
Handling == [update : Updates, step : {"sent", "applied", "queued", "failed"}]
Session == [thread : 0..MaxThreads, loaded : BOOLEAN, turn : Turns]
Server == [started : 0..MaxThreads, running : [Threads -> Turns],
           begun : [Threads -> BOOLEAN], waiting : [Threads -> Seq(Updates)],
           rollout : [Threads -> Seq(Updates)]]
Event == [thread : Threads, status : {"completed", "failed", "interrupted"}]

\* Every variable keeps its type: the inbox and its file, the handler, the
\* session and the app-server's threads.
TypeOK ==
    /\ kind \in [Updates -> Kind]
    /\ poll \in [fetched : 0..MaxUpdate, confirmed : 0..MaxUpdate]
    /\ feed \in Seq(Updates) /\ handler \in Handling \cup {Idle}
    /\ inbox \in Inbox /\ disk \in File
    /\ monitors \in SUBSET Updates /\ signalled \in SUBSET Updates
    /\ ses \in Session /\ saved \in 0..MaxThreads /\ queue \in Seq(Updates)
    /\ srv \in Server /\ events \in Seq(Event)
    /\ acted \in SUBSET Updates /\ done \in SUBSET Updates
    /\ budget \in [Fault -> Nat]

\* A turn the session believes to be running is running, or its end is still
\* to be reported: the bridge never waits on a turn that is over, whatever
\* the order of commands, completions, follow-up turns and restarts.
NoStuckTurn ==
    ses.turn # NoTurn =>
        \/ srv.running[ses.thread] # NoTurn
        \/ \E i \in 1..Len(events) : events[i].thread = ses.thread

Copies(t, u) ==
    Cardinality({i \in DOMAIN srv.waiting[t] : srv.waiting[t][i] = u})
    + Cardinality({i \in DOMAIN srv.rollout[t] : srv.rollout[t][i] = u})

\* However often an update is redelivered, replayed after a restart, queued
\* or pumped, a thread is given its input at most once.
AppliedOncePerThread == \A t \in Threads, u \in Updates : Copies(t, u) <= 1

Stage(u) ==
    IF u \in done THEN "done" ELSE IF u \in disk.pending THEN "accepted"
    ELSE "offered"

Delivery == INSTANCE InputDelivery WITH
    stage <- [u \in Updates |-> Stage(u)],
    acted <- acted,
    copies <- [t \in Threads |-> [u \in Updates |-> Copies(t, u)]]

\* The connector implements InputDelivery: accepted once, on disk before
\* anything is done with it, given to a thread at most once, and completed
\* only after it was carried out.
ImplementsDelivery == Delivery!Spec

\* A claimed update is eventually completed or released, also when it was
\* queued behind a turn that ends, is cancelled or whose thread is left with
\* /new, unless a disk write or an app-server request failed on the way.
ClaimIsSettled ==
    \A u \in Updates : u \in inbox.inFlight ~>
        \/ u \notin inbox.inFlight
        \/ budget["disk"] < Budget["disk"]
        \/ budget["request"] < Budget["request"]

=============================================================================
