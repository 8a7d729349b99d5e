------------------------- MODULE AgentMailboxProofs -------------------------
(***************************************************************************)
(* What the durable mailbox guarantees for every set of messages, callers  *)
(* and every budget of crashes, aborts and reloads.                        *)
(***************************************************************************)
EXTENDS AgentMailbox, TLAPS

\* A call that carries a message of its own, or is inside a send, names a
\* message; only the resume of a thread does not.
CallInv ==
    \A c \in Callers :
        /\ call[c].route # "resume" => call[c].msg \in Msg /\ call[c].cur \in Msg
        /\ call[c].pc \in {"admit", "make_ready"} => call[c].route # "resume"
        /\ call[c].pc \in {"send_admit", "send_ready", "begin", "send",
                           "confirm", "revert"} => call[c].cur \in Msg

\* Nothing of a session survives its unloading.
UnloadedInv ==
    ~loaded => /\ turn = NoTurn /\ fin = NoFin
               /\ rec = [w \in Recorder |-> Idle]
               /\ buffered = {} /\ human = NoHuman

\* The applied ids cover the rollout file and what its writer still holds,
\* and the two are disjoint.
RolloutInv ==
    /\ \A m \in Msg : rollout[m] <= 1
    /\ \A m \in buffered : rollout[m] = 0 /\ m \in applied
    /\ loaded => \A m \in Msg : rollout[m] = 1 => m \in applied

\* Whatever a recorder or a turn is about to acknowledge is in the file.
AckInv ==
    /\ AcknowledgedIsDurable
    /\ \A m \in turn.tracked \cup fin.tracked : rollout[m] = 1
    /\ \A w \in Recorder :
          /\ rec[w].step # "idle" => rec[w].msg \in Msg
          /\ rec[w].step = "flush" =>
                rec[w].msg \in buffered \/ rollout[rec[w].msg] = 1
          /\ rec[w].step \in {"track", "run", "complete"} =>
                rollout[rec[w].msg] = 1

Inv == TypeOK /\ CallInv /\ UnloadedInv /\ RolloutInv /\ AckInv

-----------------------------------------------------------------------------
(* Statements on rows.                                                     *)

\* transition_agent_message changes at most the row it names, from the phase
\* it expects to the phase it sets.
LEMMA TransitionChanges ==
    ASSUME phase \in [Msg -> Phase], NEW m, NEW from, NEW to \in Phase
    PROVE  /\ Transition(m, from, to) \in [Msg -> Phase]
           /\ \A n \in Msg :
                 \/ Transition(m, from, to)[n] = phase[n]
                 \/ n = m /\ phase[n] = from /\ Transition(m, from, to)[n] = to
BY DEF Transition

\* mark_agent_message_completed changes at most the row it names, never a
\* final one.
LEMMA MarkCompletedChanges ==
    ASSUME phase \in [Msg -> Phase], NEW m
    PROVE  /\ MarkCompleted(m) \in [Msg -> Phase]
           /\ \A n \in Msg :
                 \/ MarkCompleted(m)[n] = phase[n]
                 \/ /\ n = m /\ phase[n] \notin Final
                    /\ MarkCompleted(m)[n] = "completed"
BY DEF MarkCompleted, Phase, Final

\* finish_turn_mailbox_messages completes or quarantines, and moves no final
\* row.
LEMMA SettledPhaseChanges ==
    ASSUME phase \in [Msg -> Phase], NEW m, NEW natural \in BOOLEAN
    PROVE  /\ SettledPhase(m, natural) \in [Msg -> Phase]
           /\ \A n \in Msg :
                 \/ SettledPhase(m, natural)[n] = phase[n]
                 \/ /\ n = m /\ phase[n] \notin Final
                    /\ SettledPhase(m, natural)[n] \in Final
BY MarkCompletedChanges, TransitionChanges DEF SettledPhase, Phase, Final

\* Recovery never moves a row to an acknowledged phase.
LEMMA RecoveredPhaseType ==
    ASSUME NEW r \in [msg : Msg, phase : Phase]
    PROVE  /\ RecoveredPhase(r) \in Phase
           /\ \/ RecoveredPhase(r) = r.phase
              \/ /\ r.phase \notin Final
                 /\ RecoveredPhase(r) \in {"ready", "unknown_outcome"}
BY DEF RecoveredPhase, Phase, Final

-----------------------------------------------------------------------------
(* Types.                                                                  *)

LEMMA IdleTypes ==
    /\ IdleCall \in CallState /\ NoTurn \in TurnState
    /\ NoFin \in FinishState /\ Idle \in RecordState
    /\ NoHuman \in HumanState
<1>1. IdleCall \in CallState
  BY DEF IdleCall, CallState, CallerPC, Route
<1>2. NoTurn \in TurnState
  BY DEF NoTurn, TurnState
<1>3. NoFin \in FinishState
  BY DEF NoFin, FinishState
<1>4. Idle \in RecordState
  BY DEF Idle, RecordState
<1>5. NoHuman \in HumanState
  BY DEF NoHuman, HumanState
<1>6. QED BY <1>1, <1>2, <1>3, <1>4, <1>5

LEMMA InitInv == Init => Inv
<1> SUFFICES ASSUME Init PROVE Inv
  OBVIOUS
<1> USE MailboxAssumption DEF Init
<1>1. RowsOK
  BY DEF RowsOK, Phase
<1>2. CallsOK
  BY IdleTypes DEF CallsOK
<1>3. SessionOK
  BY IdleTypes DEF SessionOK
<1>4. QueuesOK /\ TurnOK
  BY IdleTypes DEF QueuesOK, TurnOK
<1>5. CallInv
  BY DEF CallInv, IdleCall
<1>6. UnloadedInv /\ RolloutInv
  BY DEF UnloadedInv, RolloutInv
<1>7. AckInv
  BY DEF AckInv, AcknowledgedIsDurable, NoTurn, NoFin, Idle
<1>8. QED BY <1>1, <1>2, <1>3, <1>4, <1>5, <1>6, <1>7 DEF Inv, TypeOK

-----------------------------------------------------------------------------
(* Which actions touch which part of the state.                            *)

LEMMA CallFrame ==
    ASSUME Next
    PROVE  \/ \E c \in Callers : Start(c) \/ Resume(c) \/ CallerStep(c) \/ Cancel(c)
           \/ Crash
           \/ UNCHANGED call
<1>1. CASE SessionLoop
  BY <1>1 DEF SessionLoop, HandleMail, HandleWake, HumanDrain, HumanReplace,
              HumanStart, Shutdown
<1>2. CASE Task
  BY <1>2 DEF Task, Setup, SetupFails, TakeInput, Drain, Sample, TaskError, Exit
<1>3. CASE Finisher
  BY <1>3 DEF Finisher, FinishSettle, FinishMarkReady, FinishPending, FinishEnd,
              FinishStart
<1>4. CASE Aborter
  BY <1>4 DEF Aborter, AbortKill, AbortSettle, AbortEnd
<1>5. CASE \E w \in Recorder : RecordStep(w)
  BY <1>5 DEF RecordStep, Flush, Track, Acknowledge
<1>6. CASE CapacityWake \/ BackgroundWrite \/ OthersFillPool
           \/ OthersReleaseSlot \/ HumanTurn \/ Abort \/ Unload
  BY <1>6 DEF CapacityWake, BackgroundWrite, OthersFillPool,
              OthersReleaseSlot, HumanTurn, Abort, Unload
<1>7. QED BY <1>1, <1>2, <1>3, <1>4, <1>5, <1>6 DEF Next

-----------------------------------------------------------------------------
(* Callers.                                                                *)

\* A call stays well formed when it moves to another step of its own.
LEMMA GotoCalls ==
    ASSUME CallsOK, CallInv, NEW c \in Callers, NEW pc \in CallerPC,
           Goto(c, pc),
           pc \in {"admit", "make_ready"} => call[c].route # "resume",
           pc \in {"send_admit", "send_ready", "begin", "send", "confirm",
                   "revert"} => call[c].cur \in Msg
    PROVE  CallsOK' /\ CallInv'
<1>1. CASE pc \in {"done", "failed"}
  <2>1. [IdleCall EXCEPT !.pc = pc, !.msg = call[c].msg] \in CallState
    BY <1>1 DEF CallsOK, CallState, IdleCall, CallerPC, Route
  <2>2. call' = [call EXCEPT ![c] =
                    [IdleCall EXCEPT !.pc = pc, !.msg = call[c].msg]]
    BY <1>1 DEF Goto
  <2>3. QED BY <1>1, <2>1, <2>2 DEF CallsOK, CallInv, IdleCall
<1>2. CASE pc \notin {"done", "failed"}
  <2>1. call' = [call EXCEPT ![c] = [call[c] EXCEPT !.pc = pc]]
    BY <1>2 DEF Goto
  <2>2. [call[c] EXCEPT !.pc = pc] \in CallState
    BY DEF CallsOK, CallState
  <2>3. CallsOK'
    BY <2>1, <2>2 DEF CallsOK
  <2>4. call[c] \in CallState
    BY DEF CallsOK
  <2>5. CallInv'
    BY <2>1, <2>4 DEF CallInv, CallsOK, CallState
  <2>6. QED BY <2>3, <2>5
<1>3. QED BY <1>1, <1>2

\* Every step keeps the calls well formed.
LEMMA CallsStep ==
    ASSUME Inv, [Next]_vars
    PROVE  CallsOK' /\ CallInv'
<1> USE DEF Inv, TypeOK
<1>a. CASE UNCHANGED call
  BY <1>a DEF CallsOK, CallInv
<1>b. CASE Crash
  BY <1>b, IdleTypes DEF Crash, CallsOK, CallInv, IdleCall
<1>c. ASSUME NEW c \in Callers,
             Start(c) \/ Resume(c) \/ CallerStep(c) \/ Cancel(c)
      PROVE  CallsOK' /\ CallInv'
  <2> DEFINE k == call[c]
  <2>0. k \in CallState /\ CallsOK /\ CallInv
    BY DEF CallsOK
  <2>1. CASE Start(c)
    <3>1. PICK m \in Msg, route \in Route \ {"resume"} :
             call' = [call EXCEPT ![c] = [IdleCall EXCEPT
                         !.pc = First(route), !.route = route,
                         !.msg = m, !.cur = m]]
      BY <2>1 DEF Start
    <3>2. [IdleCall EXCEPT !.pc = First(route), !.route = route,
                           !.msg = m, !.cur = m] \in CallState
      BY DEF IdleCall, CallState, CallerPC, Route, First
    <3>3. QED BY <3>1, <3>2 DEF CallsOK, CallInv, IdleCall
  <2>2. CASE Resume(c)
    <3>1. [IdleCall EXCEPT !.pc = "load"] \in CallState
      BY DEF IdleCall, CallState, CallerPC, Route
    <3>2. QED BY <2>2, <3>1 DEF Resume, CallsOK, CallInv, IdleCall
  <2>3. CASE Admit(c) \/ MakeReady(c)
    <3>1. k.route # "resume" /\ k.msg \in Msg /\ k.cur \in Msg
      BY <2>3 DEF Admit, MakeReady, CallInv
    <3>2. PICK pc \in {"failed", "make_ready", AfterAdmit(k.route)} : Goto(c, pc)
      BY <2>3 DEF Admit, MakeReady
    <3>3. pc \in CallerPC
      BY DEF AfterAdmit, CallerPC
    <3>4. QED BY <2>0, <3>1, <3>2, <3>3, GotoCalls
  <2>4. CASE Load(c)
    <3>1. PICK pc \in {"list", AfterLoad(k.route)} : Goto(c, pc)
      BY <2>4 DEF Load
    <3>2. /\ pc \in {"list", "send_admit", "admit", "done"}
          /\ pc \in {"send_admit", "admit"} => k.route # "resume"
      BY <3>1 DEF AfterLoad
    <3>3. pc \in CallerPC /\ (k.route # "resume" => k.cur \in Msg)
      BY <3>2 DEF CallerPC, CallInv
    <3>4. QED BY <2>0, <3>1, <3>2, <3>3, GotoCalls
  <2>5. CASE LoadFails(c)
    BY <2>0, <2>5, GotoCalls DEF LoadFails, CallerPC
  <2>6. CASE List(c)
    <3>1. {[msg |-> m, phase |-> phase[m]] :
              m \in {n \in Msg : phase[n] \in Recoverable}}
            \in SUBSET [msg : Msg, phase : Phase]
      BY DEF RowsOK
    <3>2. QED BY <2>0, <2>6, <3>1 DEF List, CallsOK, CallInv, CallState, CallerPC
  <2>7. CASE Recover(c)
    <3>1. PICK r \in k.todo :
             call' = [call EXCEPT ![c].todo = @ \ {r}, ![c].cur = r.msg,
                         ![c].pc = IF RecoveredPhase(r) = "unknown_outcome"
                                   THEN "recover" ELSE "send_admit"]
      BY <2>7 DEF Recover
    <3>2. r \in [msg : Msg, phase : Phase]
      BY <2>0, <3>1 DEF CallState
    <3>3. k.pc = "recover"
      BY <2>7 DEF Recover
    <3>4. CallsOK'
      BY <2>0, <3>1, <3>2 DEF CallsOK, CallState, CallerPC
    <3>5. CallInv'
      BY <2>0, <3>1, <3>2, <3>3 DEF CallInv, CallsOK, CallState
    <3>6. QED BY <3>4, <3>5
  <2>8. CASE RecoverEnd(c)
    <3>1. AfterLoad(k.route) \in {"send_admit", "admit", "done"}
          /\ (AfterLoad(k.route) \in {"send_admit", "admit"}
                => k.route # "resume")
      BY DEF AfterLoad
    <3>2. (k.route # "resume" => k.msg \in Msg)
      BY DEF CallInv
    <3>3. [IdleCall EXCEPT !.pc = AfterLoad(k.route), !.route = k.route,
                           !.msg = k.msg, !.cur = k.msg] \in CallState
      BY <2>0, <3>1 DEF IdleCall, CallState, CallerPC, Route
    <3>4. QED BY <2>8, <3>1, <3>2, <3>3 DEF RecoverEnd, CallsOK, CallInv, IdleCall
  <2>9. CASE SendAdmit(c) \/ SendReady(c) \/ Begin(c) \/ Send(c) \/ Confirm(c)
             \/ Revert(c)
    <3>1. k.cur \in Msg
      BY <2>9 DEF SendAdmit, SendReady, Begin, Send, Confirm, Revert, CallInv
    <3>2. Return(c) \in {"recover", "done"}
      BY DEF Return
    <3>3. CASE \E pc \in {"failed", "begin", "send", "confirm", "revert",
                          Return(c)} : Goto(c, pc)
      <4>1. PICK pc \in {"failed", "begin", "send", "confirm", "revert",
                          Return(c)} : Goto(c, pc)
        BY <3>3
      <4>2. pc \in CallerPC /\ pc \notin {"admit", "make_ready"}
        BY <3>2 DEF CallerPC
      <4>3. QED BY <2>0, <3>1, <4>1, <4>2, GotoCalls
    <3>4. CASE \E b \in BOOLEAN, pc \in {"send_ready", "begin", Return(c)} :
                  call' = [call EXCEPT ![c].ins = b, ![c].pc = pc]
      <4>1. PICK b \in BOOLEAN, pc \in {"send_ready", "begin", Return(c)} :
                call' = [call EXCEPT ![c].ins = b, ![c].pc = pc]
        BY <3>4
      <4>2. pc \in CallerPC /\ pc \notin {"admit", "make_ready"}
        BY <3>2 DEF CallerPC
      <4>3. CallsOK'
        BY <2>0, <4>1, <4>2 DEF CallsOK, CallState
      <4>4. CallInv'
        BY <2>0, <3>1, <4>1, <4>2 DEF CallInv, CallsOK, CallState
      <4>5. QED BY <4>3, <4>4
    <3>5. CASE SendAdmit(c)
      BY <3>3, <3>4, <3>5 DEF SendAdmit
    <3>6. CASE SendReady(c)
      BY <3>4, <3>6 DEF SendReady
    <3>7. CASE Begin(c) \/ Send(c) \/ Confirm(c) \/ Revert(c)
      BY <3>3, <3>7 DEF Begin, Send, Confirm, Revert
    <3>8. QED BY <2>9, <3>5, <3>6, <3>7
  <2>10. CASE Cancel(c)
    BY <2>0, <2>10, GotoCalls DEF Cancel, CallerPC
  <2>11. QED
    BY <1>c, <2>1, <2>2, <2>3, <2>4, <2>5, <2>6, <2>7, <2>8, <2>9, <2>10
    DEF CallerStep
<1>d. QED BY <1>a, <1>b, <1>c, CallFrame DEF vars

-----------------------------------------------------------------------------
(* Rows.                                                                   *)

\* What one step may do to a row: a final row stays, and a row is
\* acknowledged only when its message is in the rollout file.
RowStep ==
    /\ phase' \in [Msg -> Phase]
    /\ \A m \in Msg :
          \/ phase'[m] = phase[m]
          \/ /\ phase[m] \notin Final
             /\ phase'[m] \in {"provider_running", "completed"}
                  => rollout[m] = 1

\* A compare-and-set from a phase that is not final to one that acknowledges
\* nothing.
LEMMA PlainTransition ==
    ASSUME phase \in [Msg -> Phase], NEW m, NEW from \in Phase \ Final,
           NEW to \in Phase \ {"provider_running", "completed"},
           phase' = Transition(m, from, to)
    PROVE  RowStep
BY TransitionChanges DEF RowStep, Phase, Final

LEMMA PhaseFrame ==
    ASSUME Next
    PROVE  \/ \E c \in Callers : CallerStep(c)
           \/ \E w \in Recorder : Acknowledge(w)
           \/ FinishSettle \/ AbortSettle \/ Shutdown
           \/ UNCHANGED phase
<1>1. CASE \E c \in Callers : Start(c) \/ Resume(c) \/ Cancel(c)
  BY <1>1 DEF Start, Resume, Cancel, rowVars
<1>2. CASE Task
  BY <1>2 DEF Task, Setup, SetupFails, TakeInput, Drain, Sample, TaskError,
              Exit, rowVars
<1>3. CASE FinishMarkReady \/ FinishPending \/ FinishEnd \/ FinishStart
  BY <1>3 DEF FinishMarkReady, FinishPending, FinishEnd, FinishStart, rowVars
<1>4. CASE AbortKill \/ AbortEnd
  BY <1>4 DEF AbortKill, AbortEnd, rowVars
<1>5. CASE \E w \in Recorder : Flush(w) \/ Track(w)
  BY <1>5 DEF Flush, Track, rowVars
<1>6. CASE CapacityWake \/ BackgroundWrite \/ OthersFillPool
           \/ OthersReleaseSlot \/ HumanTurn \/ Abort \/ Unload \/ Crash
           \/ HandleMail \/ HandleWake \/ HumanDrain \/ HumanReplace \/ HumanStart
  BY <1>6 DEF CapacityWake, BackgroundWrite, OthersFillPool, Crash,
              OthersReleaseSlot, HumanTurn, Abort, Unload, HandleMail,
              HandleWake, HumanDrain, HumanReplace, HumanStart, rowVars
<1>7. QED
  BY <1>1, <1>2, <1>3, <1>4, <1>5, <1>6
  DEF Next, SessionLoop, Finisher, Aborter, RecordStep

LEMMA PhaseStep ==
    ASSUME Inv, [Next]_vars
    PROVE  RowStep
<1>0. phase \in [Msg -> Phase] /\ rollout \in [Msg -> Nat]
  BY DEF Inv, TypeOK, RowsOK
<1>a. CASE UNCHANGED phase
  BY <1>0, <1>a DEF RowStep
<1>b. ASSUME NEW c \in Callers, CallerStep(c)
      PROVE  RowStep
  <2>1. CASE Load(c) \/ LoadFails(c) \/ List(c) \/ RecoverEnd(c) \/ Send(c)
    BY <1>a, <2>1 DEF Load, LoadFails, List, RecoverEnd, Send, rowVars
  <2>2. CASE Recover(c)
    <3>1. PICK r \in call[c].todo :
             phase' = Transition(r.msg, r.phase, RecoveredPhase(r))
      BY <2>2 DEF Recover
    <3>2. r \in [msg : Msg, phase : Phase]
      BY <3>1 DEF Inv, TypeOK, CallsOK, CallState
    <3>3. QED BY <1>0, <3>1, <3>2, TransitionChanges, RecoveredPhaseType
              DEF RowStep
  <2>3. CASE Admit(c)
    <3>1. UNCHANGED phase
          \/ phase' = Transition(call[c].msg, "absent", "admitted")
      BY <2>3 DEF Admit, AdmitRow
    <3>2. QED BY <1>0, <1>a, <3>1, PlainTransition DEF Phase, Final
  <2>4. CASE SendAdmit(c)
    <3>1. UNCHANGED phase
          \/ phase' = Transition(call[c].cur, "absent", "admitted")
      BY <2>4 DEF SendAdmit, AdmitRow
    <3>2. QED BY <1>0, <1>a, <3>1, PlainTransition DEF Phase, Final
  <2>5. CASE MakeReady(c)
    BY <1>0, <2>5, PlainTransition DEF MakeReady, Phase, Final
  <2>6. CASE SendReady(c)
    BY <1>0, <2>6, PlainTransition DEF SendReady, Phase, Final
  <2>7. CASE Begin(c)
    BY <1>0, <2>7, PlainTransition DEF Begin, Phase, Final
  <2>8. CASE Confirm(c)
    BY <1>0, <2>8, PlainTransition DEF Confirm, Phase, Final
  <2>9. CASE Revert(c)
    BY <1>0, <2>9, PlainTransition DEF Revert, Phase, Final
  <2>10. QED
    BY <1>b, <2>1, <2>2, <2>3, <2>4, <2>5, <2>6, <2>7, <2>8, <2>9 DEF CallerStep
<1>c. ASSUME NEW w \in Recorder, Acknowledge(w)
      PROVE  RowStep
  <2>1. rec[w].msg \in Msg /\ rollout[rec[w].msg] = 1
    BY <1>c DEF Acknowledge, Inv, AckInv
  <2>2. CASE phase' = Transition(rec[w].msg, "submitted", "provider_running")
    BY <1>0, <2>1, <2>2, TransitionChanges DEF RowStep, Phase, Final
  <2>3. CASE phase' = MarkCompleted(rec[w].msg)
    BY <1>0, <2>1, <2>3, MarkCompletedChanges DEF RowStep
  <2>4. QED BY <1>c, <2>2, <2>3 DEF Acknowledge
<1>d. CASE FinishSettle
  <2>1. PICK m \in fin.tracked : phase' = SettledPhase(m, fin.natural)
    BY <1>d DEF FinishSettle
  <2>2. m \in Msg /\ rollout[m] = 1 /\ fin.natural \in BOOLEAN
    BY <2>1 DEF Inv, AckInv, TypeOK, TurnOK, FinishState
  <2>3. QED BY <1>0, <2>1, <2>2, SettledPhaseChanges DEF RowStep
<1>e. CASE AbortSettle
  <2>1. PICK m \in turn.tracked : phase' = SettledPhase(m, FALSE)
    BY <1>e DEF AbortSettle
  <2>2. m \in Msg /\ rollout[m] = 1
    BY <2>1 DEF Inv, AckInv, TypeOK, TurnOK, TurnState
  <2>3. phase' = Transition(m, "provider_running", "unknown_outcome")
    BY <2>1 DEF SettledPhase
  <2>4. QED BY <1>0, <2>3, PlainTransition DEF Phase, Final
<1>f. CASE Shutdown
  <2>1. phase' = [m \in Msg |-> IF m \in turn.tracked
                                THEN SettledPhase(m, FALSE)[m] ELSE phase[m]]
    BY <1>f DEF Shutdown
  <2>2. \A m \in turn.tracked : m \in Msg /\ rollout[m] = 1
    BY DEF Inv, AckInv, TypeOK, TurnOK, TurnState
  <2>3. ASSUME NEW m \in Msg
        PROVE  \/ SettledPhase(m, FALSE)[m] = phase[m]
               \/ /\ phase[m] = "provider_running"
                  /\ SettledPhase(m, FALSE)[m] = "unknown_outcome"
    BY <1>0 DEF SettledPhase, Transition
  <2>4. \A m \in Msg : \/ phase'[m] = phase[m]
                        \/ /\ phase[m] = "provider_running"
                           /\ phase'[m] = "unknown_outcome"
    BY <2>1, <2>3
  <2>5. phase' \in [Msg -> Phase]
    BY <1>0, <2>1, <2>3 DEF Phase
  <2>6. QED BY <2>4, <2>5 DEF RowStep, Final
<1>g. QED
  BY <1>a, <1>b, <1>c, <1>d, <1>e, <1>f, PhaseFrame DEF vars

\* The file only grows by what the writer holds, which is then written.
FileStep == UNCHANGED rollout \/ (rollout' = Written /\ buffered' = {})

\* A cancelled caller leaves messages behind, nothing else.
LEMMA DroppedType ==
    ASSUME NEW c, dropped \in SUBSET Msg
    PROVE  dropped \cup {m \in Msg : m \in InHand(c) /\ phase[m] \in Recoverable}
             \in SUBSET Msg
OBVIOUS

LEMMA FileFrame ==
    ASSUME Next, dropped \in SUBSET Msg
    PROVE  /\ FileStep
           /\ Sample \/ UNCHANGED runs
           /\ HumanReplace \/ FinishStart \/ UNCHANGED thrown
           /\ dropped' = dropped \/ dropped' \in SUBSET Msg
           /\ (\E e \in Event : Spend(e)) \/ UNCHANGED budget
<1> USE DEF FileStep, rowVars, ghostVars, Event
<1>1. CASE \E c \in Callers : Start(c) \/ Resume(c) \/ Cancel(c)
  <2>1. PICK c \in Callers : Start(c) \/ Resume(c) \/ Cancel(c)
    BY <1>1
  <2>2. CASE Start(c) \/ Resume(c)
    BY <2>2 DEF Start, Resume, recipientVars
  <2>3. CASE Cancel(c)
    <3>1. dropped = dropped' \/ dropped' \in SUBSET Msg
      BY <2>3, DroppedType DEF Cancel
    <3>2. QED BY <2>3, <3>1 DEF Cancel
  <2>4. QED BY <2>1, <2>2, <2>3
<1>2. CASE \E c \in Callers : CallerStep(c)
  <2>1. PICK c \in Callers : CallerStep(c)
    BY <1>2
  <2>2. CASE Admit(c) \/ MakeReady(c) \/ LoadFails(c) \/ List(c)
    BY <2>2 DEF Admit, MakeReady, LoadFails, List, recipientVars
  <2>3. CASE Recover(c) \/ RecoverEnd(c) \/ SendAdmit(c) \/ SendReady(c)
    BY <2>3 DEF Recover, RecoverEnd, SendAdmit, SendReady, recipientVars
  <2>4. CASE Begin(c) \/ Send(c) \/ Confirm(c) \/ Revert(c)
    BY <2>4 DEF Begin, Send, Confirm, Revert, recipientVars
  <2>5. CASE Load(c)
    BY <2>5 DEF Load
  <2>6. QED BY <2>1, <2>2, <2>3, <2>4, <2>5 DEF CallerStep
<1>3. CASE Task
  BY <1>3 DEF Task, Setup, SetupFails, TakeInput, Drain, Sample, TaskError, Exit
<1>4. CASE FinishSettle \/ FinishMarkReady \/ FinishPending \/ FinishEnd
  BY <1>4 DEF FinishSettle, FinishMarkReady, FinishPending, FinishEnd
<1>11. CASE FinishStart \/ HumanReplace
  BY <1>11 DEF FinishStart, HumanReplace
<1>5. CASE Aborter
  BY <1>5 DEF Aborter, AbortKill, AbortSettle, AbortEnd
<1>6. CASE \E w \in Recorder : RecordStep(w)
  BY <1>6 DEF RecordStep, Flush, Track, Acknowledge
<1>7. CASE HandleMail \/ HandleWake \/ HumanDrain \/ HumanStart \/ Shutdown
  BY <1>7 DEF HandleMail, HandleWake, HumanDrain, HumanStart, Shutdown, DropSession
<1>8. CASE CapacityWake \/ BackgroundWrite \/ OthersReleaseSlot
  BY <1>8 DEF CapacityWake, BackgroundWrite, OthersReleaseSlot, recipientVars
<1>9. CASE OthersFillPool \/ HumanTurn \/ Abort \/ Unload \/ Crash
  BY <1>9 DEF OthersFillPool, HumanTurn, Abort, Unload, Crash, recipientVars
<1>10. QED
  BY <1>1, <1>2, <1>3, <1>4, <1>5, <1>6, <1>7, <1>8, <1>9, <1>11
  DEF Next, SessionLoop, Finisher

LEMMA MsgsType ==
    ASSUME NEW q \in Seq(Item)
    PROVE  Msgs(q) \in SUBSET Msg
<1>1. \A i \in 1..Len(q) : q[i] \in Item
  OBVIOUS
<1>2. \A i \in 1..Len(q) : q[i].msg \in Msg
  BY <1>1 DEF Item
<1>3. QED BY <1>2 DEF Msgs

LEMMA RowsTyped ==
    ASSUME Inv, [Next]_vars
    PROVE  RowsOK' /\ FileStep
<1>0. /\ phase' \in [Msg -> Phase]
      /\ rollout \in [Msg -> Nat] /\ runs \in [Msg -> Nat]
      /\ thrown \in SUBSET Msg /\ dropped \in SUBSET Msg
      /\ budget \in [Event -> Nat]
  BY PhaseStep DEF RowStep, Inv, TypeOK, RowsOK, TurnOK, TurnState
<1>1. CASE UNCHANGED vars
  BY <1>0, <1>1 DEF RowsOK, FileStep, vars
<1>2. CASE Next
  <2>1. FileStep
    BY <1>0, <1>2, FileFrame
  <2>2. rollout' \in [Msg -> Nat]
    BY <1>0, <2>1 DEF FileStep, Written
  <2>3. budget' \in [Event -> Nat]
    BY <1>0, <1>2, FileFrame DEF Spend
  <2>4. runs' \in [Msg -> Nat]
    <3>1. CASE Sample
      BY <1>0, <3>1 DEF Sample
    <3>2. QED BY <1>0, <1>2, <3>1, FileFrame
  <2>5. thrown' \in SUBSET Msg
    <3>1. turn.pend \in Seq(Item) /\ turn.batch \in Seq(Item)
      BY DEF Inv, TypeOK, TurnOK, TurnState
    <3>2. Msgs(turn.pend) \in SUBSET Msg /\ Msgs(turn.batch) \in SUBSET Msg
      BY <3>1, MsgsType
    <3>3. CASE HumanReplace
      BY <1>0, <3>2, <3>3 DEF HumanReplace
    <3>4. CASE FinishStart
      BY <1>0, <3>2, <3>4 DEF FinishStart
    <3>5. CASE UNCHANGED thrown
      BY <1>0, <3>5
    <3>6. QED BY <1>0, <1>2, <3>3, <3>4, <3>5, FileFrame
  <2>7. dropped' \in SUBSET Msg
    <3>1. dropped' = dropped \/ dropped' \in SUBSET Msg
      BY <1>0, <1>2, FileFrame
    <3>2. QED BY <1>0, <3>1, Zenon
  <2>6. QED BY <1>0, <2>1, <2>2, <2>3, <2>4, <2>5, <2>7 DEF RowsOK
<1>3. QED BY <1>1, <1>2

-----------------------------------------------------------------------------
(* The session's memory: applied ids, the writer's buffer, the recorders.  *)

\* A recording step works for a loaded session.
LEMMA LoadedAtWork ==
    ASSUME Inv
    PROVE  /\ turn.st # "idle" => loaded
           /\ fin.on \/ fin.start \/ human.st # "none" => loaded
           /\ \A w \in Recorder : rec[w].step # "idle" => loaded
           /\ buffered # {} => loaded
BY DEF Inv, UnloadedInv, NoTurn, NoFin, NoHuman, Idle

LEMMA MemoryFrame ==
    ASSUME Next
    PROVE  \/ \E c \in Callers : Load(c)
           \/ TakeInput \/ FinishPending \/ FinishStart \/ Sample \/ AbortKill
           \/ \E w \in Recorder : RecordStep(w)
           \/ BackgroundWrite \/ Shutdown \/ Crash
           \/ UNCHANGED <<loaded, applied, buffered, fresh, rec, rollout>>
<1> USE DEF rowVars, sessionVars
<1>1. CASE \E c \in Callers : Start(c) \/ Resume(c) \/ Cancel(c)
  BY <1>1 DEF Start, Resume, Cancel, recipientVars
<1>2. CASE \E c \in Callers : CallerStep(c)
  <2>1. PICK c \in Callers : CallerStep(c)
    BY <1>2
  <2>2. CASE Admit(c) \/ MakeReady(c) \/ Load(c) \/ LoadFails(c) \/ List(c)
    BY <2>2 DEF Admit, MakeReady, LoadFails, List, recipientVars
  <2>3. CASE Recover(c) \/ RecoverEnd(c) \/ SendAdmit(c) \/ SendReady(c)
    BY <2>3 DEF Recover, RecoverEnd, SendAdmit, SendReady, recipientVars
  <2>4. CASE Begin(c) \/ Send(c) \/ Confirm(c) \/ Revert(c)
    BY <2>4 DEF Begin, Send, Confirm, Revert, recipientVars
  <2>5. QED BY <2>1, <2>2, <2>3, <2>4 DEF CallerStep
<1>3. CASE Task
  BY <1>3 DEF Task, Setup, SetupFails, Drain, TaskError, Exit
<1>4. CASE Finisher
  BY <1>4 DEF Finisher, FinishSettle, FinishMarkReady, FinishEnd
<1>5. CASE Aborter
  BY <1>5 DEF Aborter, AbortSettle, AbortEnd
<1>6. CASE SessionLoop
  BY <1>6 DEF SessionLoop, HandleMail, HandleWake, HumanDrain, HumanReplace,
              HumanStart
<1>7. CASE CapacityWake \/ OthersReleaseSlot \/ OthersFillPool \/ HumanTurn
           \/ Abort \/ Unload
  BY <1>7 DEF CapacityWake, OthersReleaseSlot, OthersFillPool, HumanTurn,
              Abort, Unload, recipientVars
<1>8. QED BY <1>1, <1>2, <1>3, <1>4, <1>5, <1>6, <1>7 DEF Next

\* What the recorders and the rollout must satisfy together.
MemoryInv ==
    /\ RolloutInv
    /\ \A w \in Recorder :
          /\ rec[w].step # "idle" => rec[w].msg \in Msg
          /\ rec[w].step = "flush" =>
                rec[w].msg \in buffered \/ rollout[rec[w].msg] = 1
          /\ rec[w].step \in {"track", "run", "complete"} =>
                rollout[rec[w].msg] = 1

\* The types of the parts of the session's memory.
MemoryOK ==
    /\ applied \in SUBSET Msg /\ buffered \in SUBSET Msg
    /\ fresh \in SUBSET Msg /\ rec \in [Recorder -> RecordState]
    /\ rollout \in [Msg -> Nat]

\* record_inter_agent_communication adds a message to the buffer only when it
\* is neither in the file nor in the buffer.
LEMMA RecordMemory ==
    ASSUME MemoryOK, MemoryInv, loaded, NEW w \in Recorder, NEW m \in Msg,
           Record(w, m), UNCHANGED <<loaded, rollout>>
    PROVE  MemoryOK' /\ MemoryInv'
<1>1. CASE m \in applied
  BY <1>1 DEF Record, MemoryOK, MemoryInv, RolloutInv
<1>2. CASE m \notin applied
  <2>1. /\ applied' = applied \cup {m} /\ buffered' = buffered \cup {m}
        /\ fresh' = fresh \cup {m}
        /\ rec' = [rec EXCEPT ![w] = [msg |-> m, step |-> "flush"]]
    BY <1>2 DEF Record
  <2>2. MemoryOK'
    BY <2>1 DEF MemoryOK, RecordState
  <2>3. rollout[m] = 0
    BY <1>2 DEF MemoryInv, RolloutInv, MemoryOK
  <2>4. RolloutInv'
    BY <2>1, <2>3 DEF MemoryInv, RolloutInv, MemoryOK
  <2>5. \A v \in Recorder :
           rec'[v] = IF v = w THEN [msg |-> m, step |-> "flush"] ELSE rec[v]
    BY <2>1 DEF MemoryOK
  <2>6. QED BY <2>1, <2>2, <2>4, <2>5 DEF MemoryInv
<1>3. QED BY <1>1, <1>2

\* Writing the buffer to the file.
LEMMA WrittenMemory ==
    ASSUME MemoryOK, MemoryInv, rollout' = Written, buffered' = {},
           UNCHANGED applied, loaded
    PROVE  /\ RolloutInv'
           /\ \A m \in Msg : rollout[m] = 1 => rollout'[m] = 1
           /\ \A m \in buffered : rollout'[m] = 1
BY DEF MemoryOK, MemoryInv, RolloutInv, Written

LEMMA MemoryStep ==
    ASSUME Inv, [Next]_vars
    PROVE  MemoryOK' /\ MemoryInv'
<1>0. MemoryOK /\ MemoryInv
  BY DEF Inv, TypeOK, SessionOK, RowsOK, AckInv, MemoryOK, MemoryInv
<1> DEFINE Stays == UNCHANGED <<loaded, applied, buffered, fresh, rec, rollout>>
<1>1. CASE Stays
  BY <1>0, <1>1 DEF MemoryOK, MemoryInv, RolloutInv
<1>2. CASE \E c \in Callers : Load(c)
  <2>1. PICK c \in Callers : Load(c)
    BY <1>2
  <2>2. CASE loaded
    BY <1>1, <2>1, <2>2 DEF Load, sessionVars, rowVars
  <2>3. CASE ~loaded
    <3>1. /\ applied' = {m \in Msg : rollout[m] > 0}
          /\ UNCHANGED <<rollout, buffered, fresh, rec>>
      BY <2>1, <2>3 DEF Load, rowVars
    <3>2. buffered = {}
      BY <2>3 DEF Inv, UnloadedInv
    <3>3. QED BY <1>0, <3>1, <3>2 DEF MemoryOK, MemoryInv, RolloutInv
  <2>4. QED BY <2>2, <2>3
<1>3. CASE TakeInput
  <2>1. Head(turn.batch) \in Item
    BY <1>3 DEF TakeInput, Inv, TypeOK, TurnOK, TurnState
  <2>2. Head(turn.batch).msg \in Msg /\ "task" \in Recorder
    BY <2>1 DEF Item, Recorder
  <2>3. loaded /\ Record("task", Head(turn.batch).msg)
        /\ UNCHANGED <<loaded, rollout>>
    BY <1>3, LoadedAtWork DEF TakeInput, rowVars
  <2>4. QED BY <1>0, <2>2, <2>3, RecordMemory
<1>4. CASE FinishPending
  <2>1. Head(fin.pend) \in Item /\ loaded
    BY <1>4, LoadedAtWork DEF FinishPending, Inv, TypeOK, TurnOK, FinishState
  <2>2. Head(fin.pend).msg \in Msg /\ "finisher" \in Recorder
    BY <2>1 DEF Item, Recorder
  <2>3. CASE fin.natural
    BY <1>1, <1>4, <2>3 DEF FinishPending, rowVars
  <2>4. CASE ~fin.natural
    <3>1. Record("finisher", Head(fin.pend).msg) /\ UNCHANGED <<loaded, rollout>>
      BY <1>4, <2>4 DEF FinishPending, rowVars
    <3>2. QED BY <1>0, <2>1, <2>2, <3>1, RecordMemory
  <2>5. QED BY <2>3, <2>4
<1>5. CASE Sample
  BY <1>0, <1>5 DEF Sample, rowVars, MemoryOK, MemoryInv, RolloutInv
<1>11. CASE FinishStart /\ ~Running
  <2>1. rec' = [rec EXCEPT !["task"] = rec["task"]]
    BY <1>11 DEF FinishStart
  <2>2. rec' = rec
    BY <1>0, <2>1 DEF MemoryOK
  <2>3. QED BY <1>1, <1>11, <2>2 DEF FinishStart, rowVars
<1>6. CASE AbortKill \/ (FinishStart /\ Running)
  <2>1. /\ rec' = [rec EXCEPT !["task"] = Idle]
        /\ UNCHANGED <<loaded, applied, buffered, fresh, rollout>>
    BY <1>6 DEF AbortKill, FinishStart, rowVars
  <2>2. \A v \in Recorder : rec'[v] = IF v = "task" THEN Idle ELSE rec[v]
    BY <1>0, <2>1 DEF MemoryOK
  <2>3. MemoryOK'
    BY <1>0, <2>1, IdleTypes DEF MemoryOK
  <2>4. QED BY <1>0, <2>1, <2>2, <2>3 DEF MemoryInv, RolloutInv, Idle
<1>7. ASSUME NEW w \in Recorder, RecordStep(w)
      PROVE  MemoryOK' /\ MemoryInv'
  <2>0. rec[w] \in RecordState /\ loaded
    BY <1>0, <1>7, LoadedAtWork
    DEF MemoryOK, RecordStep, Flush, Track, Acknowledge
  <2>1. CASE /\ Flush(w) /\ rollout' = Written /\ buffered' = {}
             /\ rec' = [rec EXCEPT ![w].step = "track"]
    <3>1. /\ rec[w].step = "flush" /\ buffered' = {}
          /\ rec' = [rec EXCEPT ![w].step = "track"]
          /\ UNCHANGED <<loaded, applied, fresh>>
      BY <2>1 DEF Flush
    <3>2. /\ RolloutInv' /\ \A m \in Msg : rollout[m] = 1 => rollout'[m] = 1
          /\ \A m \in buffered : rollout'[m] = 1
      BY <1>0, <2>0, <2>1, <3>1, WrittenMemory
    <3>3. /\ \A v \in Recorder \ {w} : rec'[v] = rec[v]
          /\ rec'[w].msg = rec[w].msg /\ rec'[w].step = "track"
      BY <1>0, <2>0, <3>1 DEF MemoryOK, RecordState
    <3>4. MemoryOK'
      BY <1>0, <2>0, <2>1, <3>1 DEF MemoryOK, RecordState, Written
    <3>5. QED BY <1>0, <3>1, <3>2, <3>3, <3>4 DEF MemoryInv
  <2>2. CASE Flush(w) /\ rec' = [rec EXCEPT ![w] = Idle] /\ UNCHANGED <<rollout, buffered>>
    <3>1. UNCHANGED <<loaded, applied, fresh>>
      BY <2>2 DEF Flush
    <3>2. \A v \in Recorder : rec'[v] = IF v = w THEN Idle ELSE rec[v]
      BY <1>0, <2>2 DEF MemoryOK
    <3>3. MemoryOK'
      BY <1>0, <2>2, <3>1, IdleTypes DEF MemoryOK
    <3>4. QED BY <1>0, <2>2, <3>1, <3>2, <3>3 DEF MemoryInv, RolloutInv, Idle
  <2>3. CASE Track(w)
    <3>1. PICK st \in {"run", "complete"} : rec' = [rec EXCEPT ![w].step = st]
      BY <2>3 DEF Track
    <3>2. rec[w].step = "track" /\ UNCHANGED <<loaded, applied, buffered, fresh, rollout>>
      BY <2>3 DEF Track, rowVars
    <3>3. /\ \A v \in Recorder \ {w} : rec'[v] = rec[v]
          /\ rec'[w].msg = rec[w].msg /\ rec'[w].step = st
      BY <1>0, <2>0, <3>1 DEF MemoryOK, RecordState
    <3>4. MemoryOK'
      BY <1>0, <2>0, <3>1, <3>2 DEF MemoryOK, RecordState
    <3>5. QED BY <1>0, <3>2, <3>3, <3>4 DEF MemoryInv, RolloutInv
  <2>4. CASE Acknowledge(w)
    <3>1. rec' = [rec EXCEPT ![w] = Idle] /\ UNCHANGED <<loaded, applied, buffered, fresh, rollout>>
      BY <2>4 DEF Acknowledge
    <3>2. \A v \in Recorder : rec'[v] = IF v = w THEN Idle ELSE rec[v]
      BY <1>0, <3>1 DEF MemoryOK
    <3>3. MemoryOK'
      BY <1>0, <3>1, IdleTypes DEF MemoryOK
    <3>4. QED BY <1>0, <3>1, <3>2, <3>3 DEF MemoryInv, RolloutInv, Idle
  <2>5. QED BY <1>7, <2>1, <2>2, <2>3, <2>4 DEF RecordStep, Flush
<1>8. CASE BackgroundWrite
  <2>1. /\ loaded /\ rollout' = Written /\ buffered' = {}
        /\ UNCHANGED <<loaded, applied, fresh, rec>>
    BY <1>8 DEF BackgroundWrite
  <2>2. /\ RolloutInv' /\ \A m \in Msg : rollout[m] = 1 => rollout'[m] = 1
        /\ \A m \in buffered : rollout'[m] = 1
    BY <1>0, <2>1, WrittenMemory
  <2>3. MemoryOK'
    BY <1>0, <2>1 DEF MemoryOK, Written
  <2>4. QED BY <1>0, <2>1, <2>2, <2>3 DEF MemoryInv
<1>9. CASE Shutdown \/ Crash
  <2>1. /\ rec' = [w \in Recorder |-> Idle] /\ buffered' = {}
        /\ applied' = {} /\ fresh' = {} /\ ~loaded'
    BY <1>9 DEF Shutdown, Crash, DropSession
  <2>2. rollout' = Written \/ rollout' = rollout
    BY <1>9 DEF Shutdown, Crash, rowVars
  <2>3. rollout' \in [Msg -> Nat] /\ \A m \in Msg : rollout'[m] <= 1
    BY <1>0, <2>2 DEF MemoryOK, MemoryInv, RolloutInv, Written
  <2>4. QED BY <2>1, <2>3, IdleTypes DEF MemoryOK, MemoryInv, RolloutInv, Idle
<1>10. QED
  BY <1>1, <1>2, <1>3, <1>4, <1>5, <1>6, <1>7, <1>8, <1>9, <1>11, MemoryFrame
  DEF vars

-----------------------------------------------------------------------------
(* Queues and turns.                                                       *)

\* A turn tracks only what it tracked before or what a recorder has just
\* written to the file.
TrackedStep ==
    \A m \in turn'.tracked \cup fin'.tracked :
        \/ m \in turn.tracked \cup fin.tracked
        \/ \E w \in Recorder : rec[w].step = "track" /\ rec[w].msg = m

TurnPart == QueuesOK' /\ TurnOK' /\ capWait' \in BOOLEAN /\ TrackedStep

\* The types the steps below start from.
TurnTypes ==
    /\ QueuesOK /\ turn \in TurnState /\ fin \in FinishState
    /\ capWait \in BOOLEAN /\ busy \in BOOLEAN
    /\ turn.batch \in Seq(Item) /\ turn.pend \in Seq(Item)
    /\ turn.reqs \in Nat /\ turn.accept \in BOOLEAN /\ turn.drain \in BOOLEAN
    /\ turn.tracked \in SUBSET Msg /\ fin.tracked \in SUBSET Msg
    /\ fin.pend \in Seq(Item) /\ fin.follow \in Seq(Msg)
    /\ human \in HumanState /\ human.input \in Seq(Item)

LEMMA InvTurnTypes == Inv => TurnTypes
<1> SUFFICES ASSUME Inv PROVE TurnTypes
  OBVIOUS
<1>1. QueuesOK /\ turn \in TurnState /\ fin \in FinishState /\ human \in HumanState
  BY DEF Inv, TypeOK, TurnOK
<1>2. capWait \in BOOLEAN /\ busy \in BOOLEAN
  BY DEF Inv, TypeOK, SessionOK
<1>3. /\ turn.batch \in Seq(Item) /\ turn.pend \in Seq(Item)
      /\ turn.reqs \in Nat /\ turn.accept \in BOOLEAN /\ turn.drain \in BOOLEAN
      /\ turn.tracked \in SUBSET Msg
  BY <1>1 DEF TurnState
<1>4. /\ fin.tracked \in SUBSET Msg /\ fin.pend \in Seq(Item)
      /\ fin.follow \in Seq(Msg)
  BY <1>1 DEF FinishState
<1>5. human.input \in Seq(Item)
  BY <1>1 DEF HumanState
<1>6. QED BY <1>1, <1>2, <1>3, <1>4, <1>5 DEF TurnTypes

LEMMA NewTurnType ==
    ASSUME NEW input \in Seq(Item), NEW pending \in Seq(Item),
           NEW drain \in BOOLEAN
    PROVE  NewTurn(input, pending, drain) \in TurnState
           /\ NewTurn(input, pending, drain).tracked = {}
BY DEF NewTurn, NoTurn, TurnState

LEMMA StartPendingTypes ==
    ASSUME TurnTypes, NEW q \in Seq(Item), NEW t \in TurnState,
           t.tracked \subseteq turn.tracked, StartPendingWork(q, t)
    PROVE  /\ turn' \in TurnState /\ mail' \in Seq(Item)
           /\ capWait' \in BOOLEAN
           /\ turn'.tracked \subseteq turn.tracked
<1>0. TRUE \in BOOLEAN /\ <<>> \in Seq(Item)
  OBVIOUS
<1>1. CASE /\ turn' = NewTurn(<<>>, q, TRUE) /\ mail' = <<>>
           /\ UNCHANGED capWait
  BY <1>0, <1>1, NewTurnType DEF TurnTypes
<1>2. CASE /\ turn' = t /\ mail' = q
           /\ capWait' = (capWait \/ (AnyTrigger(q \o held) /\ busy))
  <2>1. capWait' \in BOOLEAN
    BY <1>2, Zenon
  <2>2. QED BY <1>2, <2>1
<1>3. QED BY <1>1, <1>2 DEF StartPendingWork

LEMMA TurnFrame ==
    ASSUME Next
    PROVE  \/ \E c \in Callers : Send(c)
           \/ SessionLoop \/ Task \/ Finisher \/ Aborter
           \/ \E w \in Recorder : Track(w)
           \/ CapacityWake \/ HumanTurn \/ Abort \/ Unload \/ Crash
           \/ UNCHANGED <<queueVars, turn, fin, capWait, human>>
<1> USE DEF turnVars, loopVars
<1>1. CASE \E c \in Callers : Start(c) \/ Resume(c) \/ Cancel(c)
  BY <1>1 DEF Start, Resume, Cancel, recipientVars
<1>2. CASE \E c \in Callers : CallerStep(c)
  <2>1. PICK c \in Callers : CallerStep(c)
    BY <1>2
  <2>2. CASE Admit(c) \/ MakeReady(c) \/ Load(c) \/ LoadFails(c) \/ List(c)
    BY <2>2 DEF Admit, MakeReady, Load, LoadFails, List, recipientVars
  <2>3. CASE Recover(c) \/ RecoverEnd(c) \/ SendAdmit(c) \/ SendReady(c)
    BY <2>3 DEF Recover, RecoverEnd, SendAdmit, SendReady, recipientVars
  <2>4. CASE Begin(c) \/ Send(c) \/ Confirm(c) \/ Revert(c)
    BY <2>4 DEF Begin, Confirm, Revert, recipientVars
  <2>5. QED BY <2>1, <2>2, <2>3, <2>4 DEF CallerStep
<1>3. CASE \E w \in Recorder : RecordStep(w)
  BY <1>3 DEF RecordStep, Flush, Acknowledge
<1>4. CASE BackgroundWrite \/ OthersFillPool \/ OthersReleaseSlot
  BY <1>4 DEF BackgroundWrite, OthersFillPool, OthersReleaseSlot, recipientVars
<1>5. QED BY <1>1, <1>2, <1>3, <1>4 DEF Next

\* The submission loop, senders, wakes and events from outside.
LEMMA LoopTurn ==
    ASSUME TurnTypes,
           \/ \E c \in Callers : Send(c) /\ call[c].cur \in Msg
           \/ SessionLoop \/ CapacityWake \/ HumanTurn \/ Abort \/ Unload
           \/ Crash
    PROVE  TurnPart
<1> USE DEF TurnTypes, QueuesOK, TurnOK, TurnPart, TrackedStep, loopVars
<1>0. /\ \A m \in Msg, b \in BOOLEAN : [kind |-> "mail", msg |-> m, trig |-> b] \in Op
      /\ [kind |-> "wake", msg |-> NoMsg, trig |-> FALSE] \in Op
      /\ [kind |-> "stop", msg |-> NoMsg, trig |-> FALSE] \in Op
  BY DEF Op
<1>1. ASSUME NEW c \in Callers, Send(c), call[c].cur \in Msg PROVE TurnPart
  <2>1. (call[c].cur \in Trigger) \in BOOLEAN
    OBVIOUS
  <2> DEFINE op == [kind |-> "mail", msg |-> call[c].cur,
                    trig |-> call[c].cur \in Trigger]
  <2>2. op \in Op
    BY <1>0, <1>1, <2>1, Zenon
  <2>3. UNCHANGED chan \/ chan' = Append(chan, op)
    BY <1>1 DEF Send
  <2>4. chan \in Seq(Op) /\ \A o \in Op : Append(chan, o) \in Seq(Op)
    OBVIOUS
  <2>5. chan' \in Seq(Op)
    BY <2>2, <2>3, <2>4, Zenon
  <2>6. QED BY <1>1, <2>5 DEF Send, turnVars
<1>2. CASE HandleMail
  <2>1. Head(chan) \in Op /\ Tail(chan) \in Seq(Op) /\ Head(chan).kind = "mail"
    BY <1>2 DEF HandleMail
  <2> DEFINE it == [msg |-> Head(chan).msg, trig |-> Head(chan).trig]
  <2>2. it \in Item
    BY <2>1 DEF Op, Item
  <2>3. Append(mail, it) \in Seq(Item) /\ Append(held, it) \in Seq(Item)
    BY <2>2
  <2>4. chan' = Tail(chan) /\ UNCHANGED <<fin, human>>
    BY <1>2 DEF HandleMail
  <2>5. CASE StartPendingWork(Append(mail, it), turn) /\ UNCHANGED held
    BY <2>1, <2>3, <2>4, <2>5, StartPendingTypes
  <2>6. CASE /\ UNCHANGED <<turn, capWait>>
             /\ \/ held' = Append(held, it) /\ UNCHANGED mail
                \/ mail' = Append(mail, it) /\ UNCHANGED held
    BY <2>1, <2>3, <2>4, <2>6
  <2>7. QED BY <1>2, <2>5, <2>6 DEF HandleMail
<1>3. CASE HandleWake
  <2>1. Tail(chan) \in Seq(Op) /\ chan' = Tail(chan)
        /\ StartPendingWork(mail, turn) /\ UNCHANGED <<held, fin, human>>
    BY <1>3 DEF HandleWake
  <2>2. QED BY <2>1, StartPendingTypes
<1>4. CASE CapacityWake
  <2>1. chan' \in Seq(Op)
    BY <1>0, <1>4 DEF CapacityWake
  <2>2. capWait' \in BOOLEAN
    BY <1>4 DEF CapacityWake
  <2>3. QED BY <1>4, <2>1, <2>2 DEF CapacityWake
<1>5. CASE HumanTurn
  <2>1. human' \in HumanState
    BY <1>5, IdleTypes DEF HumanTurn, HumanState
  <2>2. QED BY <1>5, <2>1 DEF HumanTurn, queueVars
<1>10. CASE HumanDrain
  <2>1. <<>> \in Seq(Item)
    OBVIOUS
  <2>2. human' \in HumanState
    BY <1>10 DEF HumanDrain, HumanState
  <2>3. QED BY <1>10, <2>1, <2>2 DEF HumanDrain
<1>11. CASE HumanReplace
  <2>1. turn' \in TurnState /\ turn'.tracked = turn.tracked
    BY <1>11 DEF HumanReplace, TurnState
  <2>2. QED BY <1>11, <2>1 DEF HumanReplace, queueVars
<1>12. CASE HumanStart
  <2>1. FALSE \in BOOLEAN /\ <<>> \in Seq(Item)
    OBVIOUS
  <2>2. /\ NewTurn(human.input, mail, FALSE) \in TurnState
        /\ NewTurn(human.input, mail, FALSE).tracked = {}
    BY <2>1, NewTurnType
  <2>3. /\ turn' = NewTurn(human.input, mail, FALSE) /\ mail' = <<>>
        /\ human' = NoHuman /\ UNCHANGED <<chan, held, fin, capWait>>
    BY <1>12 DEF HumanStart
  <2>4. QED BY <2>1, <2>2, <2>3, IdleTypes
<1>6. CASE Abort
  <2>1. turn' \in TurnState /\ turn'.tracked \subseteq turn.tracked
    BY <1>6, IdleTypes DEF Abort, TurnState, NoTurn
  <2>2. QED BY <1>6, <2>1 DEF Abort, queueVars
<1>7. CASE Unload
  BY <1>0, <1>7 DEF Unload, turnVars
<1>8. CASE Shutdown \/ Crash
  <2>1. /\ chan' = <<>> /\ mail' = <<>> /\ held' = <<>>
        /\ turn' = NoTurn /\ fin' = NoFin /\ capWait' = FALSE /\ human' = NoHuman
    BY <1>8 DEF Shutdown, Crash, DropSession
  <2>2. capWait' \in BOOLEAN
    BY <2>1
  <2>3. QED BY <2>1, <2>2, IdleTypes DEF NoTurn, NoFin
<1>9. QED
  BY <1>1, <1>2, <1>3, <1>4, <1>5, <1>6, <1>7, <1>8, <1>10, <1>11, <1>12
  DEF SessionLoop

\* Detaching a task hands what it tracks to its finisher.
LEMMA DetachTypes ==
    ASSUME TurnTypes, NEW natural \in BOOLEAN, Detach(natural), UNCHANGED human
    PROVE  TurnOK' /\ TrackedStep
<1>1. /\ fin' = [NoFin EXCEPT !.on = TRUE, !.natural = natural,
                              !.tracked = turn.tracked, !.pend = turn.pend]
      /\ turn' = [NoTurn EXCEPT !.st = "finishing"]
  BY DEF Detach
<1>2. turn' \in TurnState /\ turn'.tracked = {}
  <2>1. NoTurn \in TurnState /\ NoTurn.tracked = {}
    BY IdleTypes DEF NoTurn
  <2>2. QED BY <1>1, <2>1 DEF TurnState
<1>3. turn.tracked \in SUBSET Msg /\ turn.pend \in Seq(Item)
  BY DEF TurnTypes
<1>4. fin' \in FinishState /\ fin'.tracked = turn.tracked
  <2>1. NoFin \in FinishState
    BY IdleTypes
  <2>2. QED BY <1>1, <1>3, <2>1 DEF FinishState
<1>5. human' \in HumanState
  BY DEF TurnTypes
<1>6. QED BY <1>2, <1>4, <1>5 DEF TurnOK, TrackedStep

LEMMA TaskTurn ==
    ASSUME TurnTypes, Task
    PROVE  TurnPart
<1> USE DEF TurnTypes, QueuesOK, TurnPart, loopVars
<1>0. turn \in TurnState
  OBVIOUS
<1>1. CASE Setup \/ TakeInput
  <2>3. /\ turn' \in TurnState /\ turn'.tracked = turn.tracked
    <3>1. ASSUME NEW b \in Seq(Item), turn' = [turn EXCEPT !.batch = b]
          PROVE  turn' \in TurnState /\ turn'.tracked = turn.tracked
      BY <1>0, <3>1 DEF TurnState
    <3>2. CASE turn' = [turn EXCEPT !.at = "drain"]
      BY <1>0, <3>2 DEF TurnState
    <3>3. CASE turn' = [turn EXCEPT !.batch = Tail(@)] /\ turn.batch # <<>>
      <4>1. Tail(turn.batch) \in Seq(Item)
        BY <3>3
      <4>2. QED BY <3>1, <3>3, <4>1
    <3>4. QED BY <1>1, <3>2, <3>3 DEF Setup, TakeInput
  <2>4. UNCHANGED <<chan, mail, held, fin, capWait, human>>
    BY <1>1 DEF Setup, TakeInput, queueVars
  <2>5. QED BY <2>3, <2>4 DEF TurnOK, TrackedStep
<1>2. CASE SetupFails
  <2>1. CASE Detach(FALSE)
    BY <1>2, <2>1, DetachTypes DEF SetupFails, queueVars
  <2>2. CASE /\ turn' = [turn EXCEPT !.at = "exit", !.batch = <<>>]
             /\ UNCHANGED fin
    <3>1. <<>> \in Seq(Item)
      OBVIOUS
    <3>2. turn' \in TurnState /\ turn'.tracked = turn.tracked
      BY <1>0, <2>2, <3>1 DEF TurnState
    <3>3. UNCHANGED <<chan, mail, held, capWait, human>>
      BY <1>2 DEF SetupFails, queueVars
    <3>4. QED BY <2>2, <3>2, <3>3 DEF TurnOK, TrackedStep
  <2>3. QED BY <1>2, <2>1, <2>2 DEF SetupFails
<1>3. CASE TaskError
  BY <1>3, DetachTypes DEF TaskError, queueVars
<1>4. CASE Drain
  <2>0. \/ UNCHANGED <<mail, held>>
        \/ mail' = <<>> /\ held' = <<>>
    BY <1>4 DEF Drain
  <2>1. mail' \in Seq(Item) /\ held' \in Seq(Item) /\ UNCHANGED <<chan, fin, capWait, human>>
    <3>0. mail \in Seq(Item) /\ held \in Seq(Item) /\ <<>> \in Seq(Item)
      OBVIOUS
    <3>1. mail' \in Seq(Item) /\ held' \in Seq(Item)
      BY <2>0, <3>0, Zenon
    <3>2. UNCHANGED <<chan, fin, capWait, human>>
      BY <1>4 DEF Drain
    <3>3. QED BY <3>1, <3>2
  <2>2. turn.batch \o turn.pend \o mail \o held \in Seq(Item) /\ <<>> \in Seq(Item)
    OBVIOUS
  <2>3. CASE \E at \in {"exit", "sample"} : turn' = [turn EXCEPT !.at = at]
    BY <1>0, <2>1, <2>3 DEF TurnOK, TrackedStep, TurnState
  <2>4. ASSUME NEW b \in Seq(Item), NEW p \in Seq(Item),
               turn' = [turn EXCEPT !.batch = b, !.pend = p, !.at = "sample"]
        PROVE  turn' \in TurnState /\ turn'.tracked = turn.tracked
    BY <1>0, <2>4 DEF TurnState
  <2>5. CASE turn' = [turn EXCEPT !.batch = @ \o turn.pend \o mail \o held,
                                  !.pend = <<>>, !.at = "sample"]
    BY <2>1, <2>2, <2>4, <2>5 DEF TurnOK, TrackedStep
  <2>6. QED BY <1>4, <2>3, <2>5 DEF Drain
<1>5. CASE Sample
  <2>1. PICK at \in {"drain", "exit"}, accept \in BOOLEAN, drain \in BOOLEAN :
           turn' = [turn EXCEPT !.at = at, !.accept = accept,
                                !.drain = drain, !.reqs = @ + 1]
    <3>1. CASE turn' = [turn EXCEPT !.at = "drain", !.accept = TRUE,
                                    !.drain = TRUE, !.reqs = @ + 1]
      BY <3>1
    <3>2. CASE \E accept \in {turn.accept, turn.accept /\ AnyTrigger(turn.pend)} :
                 turn' = [turn EXCEPT
                    !.at = IF HasPending(accept) THEN "drain" ELSE "exit",
                    !.accept = accept, !.drain = TRUE, !.reqs = @ + 1]
      <4>1. PICK accept \in {turn.accept, turn.accept /\ AnyTrigger(turn.pend)} :
                 turn' = [turn EXCEPT
                    !.at = IF HasPending(accept) THEN "drain" ELSE "exit",
                    !.accept = accept, !.drain = TRUE, !.reqs = @ + 1]
        BY <3>2
      <4>2. accept \in BOOLEAN
        BY <4>1, Zenon
      <4>3. CASE HasPending(accept)
        BY <4>1, <4>2, <4>3
      <4>4. CASE ~HasPending(accept)
        BY <4>1, <4>2, <4>4
      <4>5. QED BY <4>3, <4>4
    <3>3. CASE turn' = [turn EXCEPT !.at = "exit", !.reqs = @ + 1]
      <4>1. turn' = [turn EXCEPT !.at = "exit", !.accept = turn.accept,
                                 !.drain = turn.drain, !.reqs = @ + 1]
        BY <3>3 DEF TurnState
      <4>2. QED BY <4>1
    <3>4. QED BY <1>5, <3>1, <3>2, <3>3 DEF Sample
  <2>2. turn.reqs + 1 \in Nat
    OBVIOUS
  <2>3. ASSUME NEW n \in Nat,
               turn' = [turn EXCEPT !.at = at, !.accept = accept,
                                    !.drain = drain, !.reqs = n]
        PROVE  turn' \in TurnState /\ turn'.tracked = turn.tracked
    BY <1>0, <2>3 DEF TurnState
  <2>4. turn' \in TurnState /\ turn'.tracked = turn.tracked
    BY <2>1, <2>2, <2>3
  <2>5. QED BY <1>5, <2>4 DEF Sample, queueVars, TurnOK, TrackedStep
<1>6. CASE Exit
  <2>1. CASE Detach(TRUE)
    <3>1. TRUE \in BOOLEAN
      OBVIOUS
    <3>2. TurnOK' /\ TrackedStep
      BY <1>6, <2>1, <3>1, DetachTypes DEF Exit
    <3>3. QED BY <1>6, <3>2 DEF Exit, queueVars
  <2>2. CASE /\ turn' = [turn EXCEPT !.at = "start", !.drain = TRUE, !.reqs = 0]
             /\ UNCHANGED fin
    <3>1. turn' \in TurnState /\ turn'.tracked = turn.tracked
      BY <2>2 DEF TurnState
    <3>2. QED BY <1>6, <2>2, <3>1 DEF Exit, queueVars, TurnOK, TrackedStep
  <2>3. QED BY <1>6, <2>1, <2>2 DEF Exit
<1>7. QED BY <1>1, <1>2, <1>3, <1>4, <1>5, <1>6 DEF Task

\* The end of a task, its abortion, and the tracking of a recorded message.
LEMMA EndTurn ==
    ASSUME TurnTypes, MemoryInv,
           Finisher \/ Aborter \/ (\E w \in Recorder : Track(w))
    PROVE  TurnPart
<1> USE DEF TurnTypes, QueuesOK, TurnPart, TurnOK, TrackedStep, loopVars
<1>1. CASE FinishSettle
  BY <1>1 DEF FinishSettle, FinishState, queueVars
<1>2. CASE FinishMarkReady
  <2>1. mail \o held \in Seq(Item) /\ <<>> \in Seq(Item)
    OBVIOUS
  <2>2. fin' = [fin EXCEPT !.marked = TRUE] /\ UNCHANGED <<chan, turn, capWait, human>>
        /\ mail' = mail \o held /\ held' = <<>>
    BY <1>2 DEF FinishMarkReady
  <2>3. fin' \in FinishState /\ fin'.tracked = fin.tracked
    BY <2>2 DEF FinishState
  <2>4. QED BY <2>1, <2>2, <2>3
<1>3. CASE FinishPending
  <2>1. Head(fin.pend) \in Item /\ Tail(fin.pend) \in Seq(Item)
    BY <1>3 DEF FinishPending
  <2>2. Head(fin.pend).msg \in Msg
    BY <2>1 DEF Item
  <2>3. Append(fin.follow, Head(fin.pend).msg) \in Seq(Msg)
    BY <2>2
  <2>4. ASSUME NEW p \in Seq(Item), NEW f \in Seq(Msg),
               \/ fin' = [fin EXCEPT !.pend = p, !.follow = f]
               \/ fin' = [fin EXCEPT !.pend = p]
        PROVE  fin' \in FinishState /\ fin'.tracked = fin.tracked
    BY <2>4 DEF FinishState
  <2>5. fin' \in FinishState /\ fin'.tracked = fin.tracked
    BY <1>3, <2>1, <2>3, <2>4 DEF FinishPending
  <2>6. QED BY <1>3, <2>5 DEF FinishPending, queueVars
<1>4. CASE FinishEnd
  <2>1. UNCHANGED <<mail, held, human>> /\ chan' = chan \o FollowUp(fin.follow)
    BY <1>4 DEF FinishEnd
  <2>2. fin' = [fin EXCEPT !.start = TRUE] \/ fin' = NoFin
    BY <1>4 DEF FinishEnd
  <2>3. fin' \in FinishState /\ fin'.tracked \subseteq fin.tracked
    <3>1. CASE fin' = NoFin
      BY <3>1, IdleTypes DEF NoFin
    <3>2. CASE fin' = [fin EXCEPT !.start = TRUE]
      BY <3>2 DEF FinishState
    <3>3. QED BY <2>2, <3>1, <3>2
  <2>4. PICK st \in {"reserved", "idle"} :
           turn' = turn \/ turn' = [NoTurn EXCEPT !.st = st]
    BY <1>4 DEF FinishEnd
  <2>5. NoTurn \in TurnState /\ NoTurn.tracked = {}
    BY IdleTypes DEF NoTurn
  <2>6. turn' \in TurnState /\ turn'.tracked \subseteq turn.tracked
    BY <2>4, <2>5 DEF TurnState
  <2>7. FollowUp(fin.follow) \in Seq(Op)
    BY DEF FollowUp, Op
  <2>8. capWait' \in BOOLEAN
    BY <1>4, Zenon DEF FinishEnd
  <2>9. chan' \in Seq(Op)
    BY <2>1, <2>7
  <2>10. QED BY <2>1, <2>3, <2>6, <2>8, <2>9
<1>9. CASE FinishStart
  <2>1. /\ fin' = NoFin /\ mail' = <<>> /\ UNCHANGED <<chan, held, capWait, human>>
    BY <1>9 DEF FinishStart
  <2>2. TRUE \in BOOLEAN /\ <<>> \in Seq(Item) /\ turn.pend \o mail \in Seq(Item)
    OBVIOUS
  <2>3. NoFin \in FinishState /\ NoFin.tracked = {}
    BY IdleTypes DEF NoFin
  <2>4. ASSUME NEW p \in Seq(Item), NEW b \in Seq(Item),
               turn' = [turn EXCEPT !.at = "start", !.batch = b, !.pend = p,
                                    !.drain = TRUE, !.reqs = 0]
        PROVE  turn' \in TurnState /\ turn'.tracked = turn.tracked
    BY <2>4 DEF TurnState
  <2>5. CASE Running
    BY <1>9, <2>1, <2>2, <2>3, <2>4, <2>5 DEF FinishStart
  <2>6. CASE ~Running
    BY <1>9, <2>1, <2>2, <2>3, <2>6, NewTurnType DEF FinishStart
  <2>7. QED BY <2>5, <2>6
<1>5. CASE AbortKill \/ AbortSettle
  <2>1. turn' \in TurnState /\ turn'.tracked \subseteq turn.tracked
    <3>0. <<>> \in Seq(Item)
      OBVIOUS
    <3>1. ASSUME NEW b \in Seq(Item),
                 turn' = [turn EXCEPT !.at = "killed", !.batch = b]
          PROVE  turn' \in TurnState /\ turn'.tracked \subseteq turn.tracked
      BY <3>1 DEF TurnState
    <3>2. ASSUME NEW m, turn' = [turn EXCEPT !.tracked = @ \ {m}]
          PROVE  turn' \in TurnState /\ turn'.tracked \subseteq turn.tracked
      BY <3>2 DEF TurnState
    <3>3. QED BY <1>5, <3>0, <3>1, <3>2 DEF AbortKill, AbortSettle
  <2>2. QED BY <1>5, <2>1 DEF AbortKill, AbortSettle, queueVars
<1>6. CASE AbortEnd
  <2>1. NoTurn \in TurnState /\ NoTurn.tracked = {}
    BY IdleTypes DEF NoTurn
  <2>2. /\ \/ StartPendingWork(mail, NoTurn)
           \/ turn' = NoTurn /\ UNCHANGED <<mail, capWait>>
        /\ UNCHANGED <<chan, held, fin, human>>
    BY <1>6 DEF AbortEnd
  <2>3. QED BY <2>1, <2>2, StartPendingTypes
<1>7. ASSUME NEW w \in Recorder, Track(w) PROVE TurnPart
  <2>1. rec[w].msg \in Msg /\ rec[w].step = "track"
    BY <1>7 DEF Track, MemoryInv
  <2>2. turn' \in TurnState /\ turn'.tracked \subseteq turn.tracked \cup {rec[w].msg}
    BY <1>7, <2>1 DEF Track, TurnState
  <2>3. QED BY <1>7, <2>1, <2>2 DEF Track, queueVars
<1>8. QED
  BY <1>1, <1>2, <1>3, <1>4, <1>5, <1>6, <1>7, <1>9 DEF Finisher, Aborter

LEMMA TurnStep ==
    ASSUME Inv, [Next]_vars
    PROVE  TurnPart
<1>0. TurnTypes /\ MemoryInv
  BY InvTurnTypes DEF Inv, AckInv, MemoryInv
<1>1. CASE UNCHANGED <<chan, mail, held, turn, fin, capWait, human>>
  BY <1>0, <1>1 DEF TurnTypes, TurnPart, QueuesOK, TurnOK, TrackedStep
<1>2. ASSUME NEW c \in Callers, Send(c)
      PROVE  Send(c) /\ call[c].cur \in Msg
  BY <1>2 DEF Send, Inv, CallInv
<1>3. CASE UNCHANGED vars
  BY <1>1, <1>3 DEF vars
<1>4. CASE Next
  BY <1>0, <1>1, <1>2, <1>4, TurnFrame, LoopTurn, TaskTurn, EndTurn
  DEF queueVars
<1>5. QED BY <1>3, <1>4

-----------------------------------------------------------------------------
(* Loading and unloading.                                                  *)

\* While nothing is loaded, no step but a reload touches the session.
LEMMA UnloadedStep ==
    ASSUME Inv, [Next]_vars
    PROVE  UnloadedInv'
<1> DEFINE Kept == UNCHANGED <<loaded, turn, fin, human, rec, buffered>>
<1>0. UnloadedInv
  BY DEF Inv
<1>1. CASE Kept
  BY <1>0, <1>1 DEF UnloadedInv
<1>2. CASE loaded'
  BY <1>2 DEF UnloadedInv
<1>3. CASE Shutdown \/ Crash
  BY <1>3 DEF Shutdown, Crash, DropSession, UnloadedInv
<1>4. CASE UNCHANGED vars
  BY <1>1, <1>4 DEF vars
<1>5. CASE \E c \in Callers : Start(c) \/ Resume(c) \/ CallerStep(c) \/ Cancel(c)
  <2> USE DEF sessionVars, turnVars, loopVars
  <2>1. PICK c \in Callers : Start(c) \/ Resume(c) \/ CallerStep(c) \/ Cancel(c)
    BY <1>5
  <2>2. CASE Start(c) \/ Resume(c) \/ Cancel(c)
    BY <1>1, <2>2 DEF Start, Resume, Cancel, recipientVars
  <2>3. CASE Admit(c) \/ MakeReady(c) \/ LoadFails(c) \/ List(c)
    BY <1>1, <2>3 DEF Admit, MakeReady, LoadFails, List, recipientVars
  <2>4. CASE Recover(c) \/ RecoverEnd(c) \/ SendAdmit(c) \/ SendReady(c)
    BY <1>1, <2>4 DEF Recover, RecoverEnd, SendAdmit, SendReady, recipientVars
  <2>5. CASE Begin(c) \/ Send(c) \/ Confirm(c) \/ Revert(c)
    BY <1>1, <2>5 DEF Begin, Send, Confirm, Revert, recipientVars
  <2>6. CASE Load(c)
    BY <1>1, <1>2, <2>6 DEF Load
  <2>7. QED BY <2>1, <2>2, <2>3, <2>4, <2>5, <2>6 DEF CallerStep
<1>6. CASE Task
  <2>1. loaded
    BY <1>6, LoadedAtWork
    DEF Task, Setup, SetupFails, TakeInput, Drain, Sample, TaskError, Exit, Running
  <2>2. UNCHANGED loaded
    BY <1>6
    DEF Task, Setup, SetupFails, TakeInput, Drain, Sample, TaskError, Exit,
        sessionVars
  <2>3. QED BY <1>2, <2>1, <2>2
<1>7. CASE Finisher \/ Aborter
  <2>1. loaded
    BY <1>7, LoadedAtWork
    DEF Finisher, FinishSettle, FinishMarkReady, FinishPending, FinishEnd,
        FinishStart, Aborter, AbortKill, AbortSettle, AbortEnd
  <2>2. UNCHANGED loaded
    BY <1>7
    DEF Finisher, FinishSettle, FinishMarkReady, FinishPending, FinishEnd,
        FinishStart, Aborter, AbortKill, AbortSettle, AbortEnd, sessionVars
  <2>3. QED BY <1>2, <2>1, <2>2
<1>8. CASE \E w \in Recorder : RecordStep(w)
  <2>1. loaded /\ UNCHANGED loaded
    BY <1>8, LoadedAtWork DEF RecordStep, Flush, Track, Acknowledge
  <2>2. QED BY <1>2, <2>1
<1>9. CASE HandleMail \/ HandleWake \/ CapacityWake \/ HumanTurn \/ HumanDrain
           \/ HumanReplace \/ HumanStart \/ Abort \/ Unload \/ BackgroundWrite
  <2>1. loaded /\ UNCHANGED loaded
    BY <1>9, LoadedAtWork
    DEF HandleMail, HandleWake, HumanDrain, HumanReplace, HumanStart,
        CapacityWake, HumanTurn, Abort, Unload, BackgroundWrite, sessionVars
  <2>2. QED BY <1>2, <2>1
<1>10. CASE OthersFillPool \/ OthersReleaseSlot
  BY <1>1, <1>10
  DEF OthersFillPool, OthersReleaseSlot, recipientVars, sessionVars, turnVars,
      loopVars
<1>11. QED
  BY <1>3, <1>4, <1>5, <1>6, <1>7, <1>8, <1>9, <1>10 DEF Next, SessionLoop

\* Flags stay Boolean.
LEMMA FlagStep ==
    ASSUME Inv, [Next]_vars
    PROVE  loaded' \in BOOLEAN /\ busy' \in BOOLEAN
<1>0. loaded \in BOOLEAN /\ busy \in BOOLEAN
  BY DEF Inv, TypeOK, SessionOK
<1>1. CASE UNCHANGED vars
  BY <1>0, <1>1 DEF vars
<1>2. CASE Next
  <2>1. \/ loaded' = TRUE \/ loaded' = FALSE \/ UNCHANGED loaded
    <3>1. CASE \E c \in Callers : Load(c)
      BY <3>1 DEF Load, sessionVars
    <3>2. CASE TakeInput \/ FinishPending \/ FinishStart \/ Sample \/ AbortKill
      BY <3>2 DEF TakeInput, FinishPending, FinishStart, Sample, AbortKill
    <3>3. CASE \E w \in Recorder : RecordStep(w)
      BY <3>3 DEF RecordStep, Flush, Track, Acknowledge
    <3>4. CASE BackgroundWrite
      BY <3>4 DEF BackgroundWrite
    <3>5. CASE Shutdown \/ Crash
      BY <3>5 DEF Shutdown, Crash, DropSession
    <3>6. QED BY <1>2, <3>1, <3>2, <3>3, <3>4, <3>5, MemoryFrame
  <2>2. OthersFillPool \/ OthersReleaseSlot \/ UNCHANGED busy
    <3>1. CASE \E c \in Callers : Start(c) \/ Resume(c) \/ Cancel(c)
      BY <3>1 DEF Start, Resume, Cancel
    <3>2. CASE \E c \in Callers : CallerStep(c)
      BY <3>2 DEF CallerStep, Admit, MakeReady, Load, LoadFails, List, Recover,
                  RecoverEnd, SendAdmit, SendReady, Begin, Send, Confirm, Revert
    <3>3. CASE Task
      BY <3>3 DEF Task, Setup, SetupFails, TakeInput, Drain, Sample, TaskError, Exit
    <3>4. CASE Finisher \/ Aborter
      BY <3>4
      DEF Finisher, FinishSettle, FinishMarkReady, FinishPending, FinishEnd,
          FinishStart, Aborter, AbortKill, AbortSettle, AbortEnd
    <3>5. CASE \E w \in Recorder : RecordStep(w)
      BY <3>5 DEF RecordStep, Flush, Track, Acknowledge
    <3>6. CASE SessionLoop
      BY <3>6 DEF SessionLoop, HandleMail, HandleWake, HumanDrain, HumanReplace,
                  HumanStart, Shutdown
    <3>7. CASE CapacityWake \/ BackgroundWrite \/ HumanTurn \/ Abort \/ Unload
               \/ Crash
      BY <3>7 DEF CapacityWake, BackgroundWrite, HumanTurn, Abort, Unload, Crash
    <3>8. QED BY <1>2, <3>1, <3>2, <3>3, <3>4, <3>5, <3>6, <3>7 DEF Next
  <2>3. busy' = TRUE \/ busy' = FALSE \/ UNCHANGED busy
    BY <2>2 DEF OthersFillPool, OthersReleaseSlot
  <2>4. QED BY <1>0, <2>1, <2>3
<1>3. QED BY <1>1, <1>2

-----------------------------------------------------------------------------
(* The inductive invariant and what follows from it.                       *)

LEMMA InvStep ==
    ASSUME Inv, [Next]_vars
    PROVE  Inv'
<1>1. RowsOK' /\ FileStep
  BY RowsTyped
<1>2. CallsOK' /\ CallInv'
  BY CallsStep
<1>3. MemoryOK' /\ MemoryInv'
  BY MemoryStep
<1>4. QueuesOK' /\ TurnOK' /\ capWait' \in BOOLEAN /\ TrackedStep
  BY TurnStep DEF TurnPart
<1>5. SessionOK'
  BY <1>3, <1>4, FlagStep DEF MemoryOK, SessionOK
<1>6. UnloadedInv'
  BY UnloadedStep
<1>7. ASSUME NEW m \in Msg, rollout[m] = 1
      PROVE  rollout'[m] = 1
  <2>1. rollout \in [Msg -> Nat] /\ m \notin buffered
    BY <1>7 DEF Inv, TypeOK, RowsOK, RolloutInv
  <2>2. QED BY <1>1, <1>7, <2>1 DEF FileStep, Written
<1>8. AcknowledgedIsDurable'
  <2>1. ASSUME NEW m \in Msg, phase'[m] \in {"provider_running", "completed"}
        PROVE  rollout'[m] = 1
    BY <1>7, <2>1, PhaseStep DEF RowStep, Inv, AckInv, AcknowledgedIsDurable
  <2>2. QED BY <2>1 DEF AcknowledgedIsDurable
<1>9. \A m \in turn'.tracked \cup fin'.tracked : rollout'[m] = 1
  <2>1. ASSUME NEW m \in turn'.tracked \cup fin'.tracked
        PROVE  m \in Msg /\ rollout[m] = 1
    <3>1. m \in Msg
      BY <1>4, <2>1 DEF TurnOK, TurnState, FinishState
    <3>2. QED BY <1>4, <2>1, <3>1 DEF TrackedStep, Inv, AckInv
  <2>2. QED BY <1>7, <2>1
<1>10. RolloutInv' /\ AckInv'
  BY <1>3, <1>8, <1>9 DEF MemoryInv, AckInv
<1>11. QED BY <1>1, <1>2, <1>4, <1>5, <1>6, <1>10 DEF Inv, TypeOK

\* The inductive invariant holds throughout.
THEOREM InvHolds == Spec => []Inv
<1>1. Init => Inv
  BY InitInv
<1>2. Inv /\ [Next]_vars => Inv'
  BY InvStep
<1>3. QED BY <1>1, <1>2, PTL DEF Spec

\* Type correctness of the mailbox, its callers and the recipient session.
THEOREM TypeCorrect == Spec => []TypeOK
<1>1. Inv => TypeOK
  BY DEF Inv
<1>2. QED BY <1>1, InvHolds, PTL

\* The rollout holds every message at most once, whatever the callers, the
\* recovery loops, the aborts and the crashes do.
THEOREM MessageAppliedOnce == Spec => []AppliedOnce
<1>1. Inv => AppliedOnce
  BY DEF Inv, RolloutInv, AppliedOnce
<1>2. QED BY <1>1, InvHolds, PTL

\* An acknowledged row never runs ahead of the rollout file.
THEOREM AcknowledgedMessageIsDurable == Spec => []AcknowledgedIsDurable
<1>1. Inv => AcknowledgedIsDurable
  BY DEF Inv, AckInv
<1>2. QED BY <1>1, InvHolds, PTL

\* A completed or quarantined row never changes again.
THEOREM MessageOutcomeIsFinal == Spec => OutcomeIsFinal
<1> DEFINE Keeps == \A m \in Msg : phase[m] \in Final => phase'[m] = phase[m]
<1>1. Inv /\ [Next]_vars => [Keeps]_vars
  BY PhaseStep DEF RowStep
<1>2. QED BY <1>1, InvHolds, PTL DEF Spec, OutcomeIsFinal
=============================================================================
