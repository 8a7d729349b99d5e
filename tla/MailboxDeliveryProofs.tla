------------------------ MODULE MailboxDeliveryProofs ------------------------
(***************************************************************************)
(* What becomes of a message on its way through the recipient session, for *)
(* every set of messages and callers: it is executed at most once, and it  *)
(* is not lost between the channel and the history.                        *)
(***************************************************************************)
EXTENDS AgentMailboxProofs, SequenceFacts

-----------------------------------------------------------------------------
(* A message is executed at most once.                                     *)

\* What the provider has seen, or is about to see, is in the file or in the
\* hands of its writer, so the applied ids know it; it is new to the provider
\* at most once.
SeenInv ==
    /\ \A m \in Msg : runs[m] <= 1
    /\ \A m \in Msg : runs[m] = 1 => rollout[m] = 1 \/ m \in buffered
    /\ \A m \in fresh : runs[m] = 0 /\ (rollout[m] = 1 \/ m \in buffered)
    /\ ~loaded => fresh = {}

\* A finisher that has reserved the slot for the next turn has recorded or sent
\* all it was given.
StartInv ==
    fin.start => /\ fin.on /\ fin.pend = <<>> /\ fin.follow = <<>>
                 /\ rec["finisher"].step = "idle"

\* While no task is aborted and no human starts a turn over a finisher that
\* still records, nothing waits in the writer but what a recorder flushes; a
\* task therefore asks the provider only about what is in the file.
UndisturbedInv ==
    /\ budget["abort"] = 0 /\ budget["human"] = 0 /\ human.st = "none"
    /\ turn.st \in {"idle", "reserved", "running", "finishing"}
    /\ fin.on => turn.st \in {"finishing", "reserved"}
    /\ rec["finisher"].step # "idle" => fin.on
    /\ \A m \in buffered : \E w \in Recorder : rec[w].step = "flush" /\ rec[w].msg = m
    /\ \A m \in Msg : runs[m] = 1 => rollout[m] = 1

\* Either the process does not die, or no task is interrupted.
NoCrash == budget["crash"] = 0
OnceInv == Inv /\ StartInv /\ SeenInv /\ (NoCrash \/ UndisturbedInv)

\* A budget that is spent stays spent.
LEMMA SpentStaysSpent ==
    ASSUME Inv, [Next]_vars, NEW e \in Event, budget[e] = 0
    PROVE  budget'[e] = 0
<1>1. budget \in [Event -> Nat]
  BY DEF Inv, TypeOK, RowsOK
<1>2. UNCHANGED budget \/ \E f \in Event : Spend(f)
  BY FileFrame DEF vars, Inv, TypeOK, RowsOK
<1> QED BY <1>1, <1>2 DEF Spend

\* A finisher starts a turn only after it has done everything else.
LEMMA StartStep ==
    ASSUME Inv, StartInv, [Next]_vars
    PROVE  StartInv'
<1>0. /\ fin \in FinishState /\ rec \in [Recorder -> RecordState]
      /\ "finisher" \in Recorder /\ "task" \in Recorder
  BY DEF Inv, TypeOK, TurnOK, SessionOK, Recorder
<1>1. CASE UNCHANGED fin /\ rec'["finisher"] = rec["finisher"]
  BY <1>1 DEF StartInv
<1>2. CASE ~fin'.start
  BY <1>2 DEF StartInv
<1>3. ASSUME NEW natural, Detach(natural) PROVE StartInv'
  BY <1>2, <1>3 DEF Detach, NoFin
<1>4. CASE TakeInput
  <2>1. UNCHANGED rec \/ \E r : rec' = [rec EXCEPT !["task"] = r]
    BY <1>4 DEF TakeInput, Record
  <2>2. UNCHANGED fin
    BY <1>4 DEF TakeInput
  <2> QED BY <1>0, <1>1, <2>1, <2>2
<1>5. CASE Setup \/ SetupFails \/ Drain \/ Sample \/ TaskError \/ Exit
  <2>1. UNCHANGED fin \/ Detach(TRUE) \/ Detach(FALSE)
    BY <1>5 DEF Setup, SetupFails, Drain, Sample, TaskError, Exit
  <2>2. UNCHANGED rec
    BY <1>5 DEF Setup, SetupFails, Drain, Sample, TaskError, Exit, sessionVars
  <2> QED BY <1>1, <1>3, <2>1, <2>2
<1>6. CASE FinishSettle \/ FinishMarkReady
  <2>1. /\ fin'.start = fin.start /\ fin'.on = fin.on /\ fin'.pend = fin.pend
        /\ fin'.follow = fin.follow
    BY <1>0, <1>6 DEF FinishSettle, FinishMarkReady, FinishState
  <2>2. UNCHANGED rec
    BY <1>6 DEF FinishSettle, FinishMarkReady, sessionVars
  <2> QED BY <2>1, <2>2 DEF StartInv
<1>7. CASE FinishPending
  <2>1. ~fin.start
    BY <1>7 DEF FinishPending, StartInv
  <2>2. fin'.start = fin.start
    BY <1>0, <1>7 DEF FinishPending, FinishState
  <2> QED BY <1>2, <2>1, <2>2
<1>8. CASE FinishEnd
  <2>1. CASE fin' = NoFin
    BY <1>2, <2>1 DEF NoFin
  <2>2. CASE fin' = [fin EXCEPT !.start = TRUE] /\ fin.follow = <<>>
    <3>1. /\ fin'.on = fin.on /\ fin'.pend = fin.pend /\ fin'.follow = fin.follow
      BY <1>0, <2>2 DEF FinishState
    <3>2. fin.on /\ fin.pend = <<>> /\ rec["finisher"].step = "idle" /\ UNCHANGED rec
      BY <1>8 DEF FinishEnd, sessionVars
    <3> QED BY <2>2, <3>1, <3>2 DEF StartInv
  <2> QED BY <1>8, <2>1, <2>2 DEF FinishEnd
<1>9. CASE FinishStart \/ Shutdown \/ Crash
  <2>1. fin' = NoFin
    BY <1>9 DEF FinishStart, Shutdown, Crash, DropSession
  <2> QED BY <1>2, <2>1 DEF NoFin
<1>10. CASE Aborter
  <2>1. UNCHANGED fin /\ (UNCHANGED rec \/ rec' = [rec EXCEPT !["task"] = Idle])
    BY <1>10 DEF Aborter, AbortKill, AbortSettle, AbortEnd, sessionVars
  <2> QED BY <1>0, <1>1, <2>1
<1>11. ASSUME NEW w \in Recorder, RecordStep(w) PROVE StartInv'
  <2>1. rec[w].step # "idle" /\ UNCHANGED fin /\ \E r : rec' = [rec EXCEPT ![w] = r]
    BY <1>0, <1>11 DEF RecordStep, Flush, Track, Acknowledge, turnVars
  <2>2. CASE w = "finisher"
    BY <2>1, <2>2 DEF StartInv
  <2>3. CASE w # "finisher"
    BY <1>0, <1>1, <2>1, <2>3
  <2> QED BY <2>2, <2>3
<1>12. CASE HandleMail \/ HandleWake \/ HumanDrain \/ HumanReplace \/ HumanStart
            \/ CapacityWake \/ HumanTurn \/ Abort \/ Unload
  <2>1. UNCHANGED <<fin, rec>>
    BY <1>12
    DEF HandleMail, HandleWake, HumanDrain, HumanReplace, HumanStart, CapacityWake,
        HumanTurn, Abort, Unload, sessionVars, turnVars
  <2> QED BY <1>1, <2>1
<1>13. CASE \E c \in Callers : Send(c)
  BY <1>1, <1>13 DEF Send, sessionVars, turnVars
<1>14. CASE (\E c \in Callers : Load(c)) \/ BackgroundWrite
  <2>1. UNCHANGED <<fin, rec>>
    BY <1>14 DEF Load, BackgroundWrite, sessionVars, turnVars
  <2> QED BY <1>1, <2>1
<1>15. CASE UNCHANGED <<fin, rec>>
  BY <1>1, <1>15
<1>16. CASE Next
  <2>1. CASE Task \/ Finisher \/ Aborter \/ SessionLoop
    BY <1>4, <1>5, <1>6, <1>7, <1>8, <1>9, <1>10, <1>12, <2>1
    DEF SessionLoop, Task, Finisher
  <2>2. CASE \E w \in Recorder : RecordStep(w)
    BY <1>11, <2>2
  <2>3. CASE CapacityWake \/ HumanTurn \/ Abort \/ Unload \/ Crash
    BY <1>9, <1>12, <2>3
  <2>4. UNCHANGED fin \/ Task \/ Finisher \/ Aborter \/ SessionLoop
        \/ (\E c \in Callers : Send(c)) \/ (\E w \in Recorder : RecordStep(w))
        \/ CapacityWake \/ HumanTurn \/ Abort \/ Unload \/ Crash
    BY <1>16, TurnFrame DEF RecordStep
  <2>5. UNCHANGED rec \/ (\E c \in Callers : Load(c)) \/ BackgroundWrite
        \/ Task \/ Finisher \/ Aborter \/ SessionLoop \/ Crash
        \/ (\E w \in Recorder : RecordStep(w))
    BY <1>16, MemoryFrame DEF Task, Finisher, Aborter, SessionLoop
  <2> QED BY <1>13, <1>14, <1>15, <2>1, <2>2, <2>3, <2>4, <2>5
<1> QED BY <1>15, <1>16 DEF vars

\* record_inter_agent_communication takes up only what neither the file nor
\* the writer holds, hence what the provider has not seen.
LEMMA RecordSeen ==
    ASSUME Inv, SeenInv, loaded, NEW w \in Recorder, NEW m \in Msg,
           Record(w, m), UNCHANGED <<loaded, rollout, runs>>
    PROVE  SeenInv'
<1>1. CASE m \in applied
  BY <1>1 DEF Record, SeenInv
<1>2. CASE m \notin applied
  <2>1. buffered' = buffered \cup {m} /\ fresh' = fresh \cup {m}
    BY <1>2 DEF Record
  <2>2. rollout[m] # 1 /\ m \notin buffered
    BY <1>2 DEF Inv, RolloutInv
  <2>3. runs[m] = 0
    BY <2>2 DEF SeenInv, Inv, TypeOK, RowsOK
  <2> QED BY <2>1, <2>3 DEF SeenInv
<1> QED BY <1>1, <1>2

\* Writing the buffer keeps what was seen on record.
LEMMA WriteSeen ==
    ASSUME Inv, SeenInv, rollout' = Written, UNCHANGED runs
    PROVE  /\ \A m \in Msg : runs'[m] <= 1
           /\ \A m \in Msg : runs'[m] = 1 => rollout'[m] = 1
           /\ \A m \in fresh : runs'[m] = 0 /\ rollout'[m] = 1
<1>1. ASSUME NEW m \in Msg, rollout[m] = 1 \/ m \in buffered
      PROVE  rollout'[m] = 1
  <2>1. rollout'[m] = rollout[m] + (IF m \in buffered THEN 1 ELSE 0)
    BY DEF Written
  <2>2. m \in buffered => rollout[m] = 0
    BY DEF Inv, RolloutInv
  <2> QED BY <1>1, <2>1, <2>2
<1>2. fresh \subseteq Msg
  BY DEF Inv, TypeOK, SessionOK
<1> QED BY <1>1, <1>2 DEF SeenInv

\* A crash forgets what the writer holds; every other loss of a session
\* writes it first.
LEMMA SeenStep ==
    ASSUME Inv, SeenInv, ~FlushMayFail, [Next]_vars,
           Crash => \A m \in Msg : runs[m] = 1 => rollout[m] = 1
    PROVE  SeenInv'
<1> DEFINE Stays == UNCHANGED <<loaded, buffered, fresh, rollout, runs>>
<1>1. CASE Stays
  BY <1>1 DEF SeenInv
<1>2. CASE Sample
  <2>1. /\ runs' = [m \in Msg |-> runs[m] + (IF m \in fresh THEN 1 ELSE 0)]
        /\ fresh' = {} /\ UNCHANGED <<rollout, buffered, loaded>>
    BY <1>2 DEF Sample, rowVars
  <2>2. ASSUME NEW m \in Msg
        PROVE  runs'[m] <= 1 /\ (runs'[m] = 1 => rollout[m] = 1 \/ m \in buffered)
    <3>1. runs[m] \in Nat
      BY DEF Inv, TypeOK, RowsOK
    <3> QED BY <2>1, <3>1 DEF SeenInv
  <2> QED BY <2>1, <2>2 DEF SeenInv
<1>3. CASE Next /\ ~Sample
  <2>0. UNCHANGED runs
    BY <1>3, FileFrame DEF Inv, TypeOK, RowsOK
  <2>1. CASE UNCHANGED <<loaded, applied, buffered, fresh, rec, rollout>>
    BY <1>1, <2>0, <2>1
  <2>2. CASE \E c \in Callers : Load(c)
    <3>1. UNCHANGED <<buffered, fresh, rollout>> /\ (loaded' \/ UNCHANGED loaded)
      BY <2>2 DEF Load, sessionVars, rowVars
    <3> QED BY <2>0, <3>1 DEF SeenInv
  <2>3. CASE TakeInput
    <3>1. Head(turn.batch) \in Item
      BY <2>3, InvTurnTypes DEF TakeInput, TurnTypes
    <3>2. Head(turn.batch).msg \in Msg /\ "task" \in Recorder
      BY <3>1 DEF Item, Recorder
    <3>3. loaded /\ Record("task", Head(turn.batch).msg)
          /\ UNCHANGED <<loaded, rollout>>
      BY <2>3, LoadedAtWork DEF TakeInput, rowVars
    <3> QED BY <2>0, <3>2, <3>3, RecordSeen
  <2>4. CASE FinishPending
    <3>1. Head(fin.pend) \in Item /\ loaded
      BY <2>4, LoadedAtWork, InvTurnTypes DEF FinishPending, TurnTypes
    <3>2. Head(fin.pend).msg \in Msg /\ "finisher" \in Recorder
      BY <3>1 DEF Item, Recorder
    <3>3. UNCHANGED <<loaded, rollout>>
          /\ (UNCHANGED <<buffered, fresh>> \/ Record("finisher", Head(fin.pend).msg))
      BY <2>4 DEF FinishPending, rowVars
    <3> QED BY <1>1, <2>0, <3>1, <3>2, <3>3, RecordSeen
  <2>5. CASE AbortKill \/ FinishStart
    BY <1>1, <2>0, <2>5 DEF AbortKill, FinishStart, rowVars
  <2>6. ASSUME NEW w \in Recorder, RecordStep(w) PROVE SeenInv'
    <3>1. CASE Flush(w)
      <4>1. rollout' = Written /\ buffered' = {} /\ UNCHANGED <<loaded, fresh>>
        BY <3>1 DEF Flush
      <4> QED BY <2>0, <4>1, WriteSeen DEF SeenInv
    <3>2. CASE Track(w) \/ Acknowledge(w)
      BY <1>1, <2>0, <3>2 DEF Track, Acknowledge, rowVars
    <3> QED BY <2>6, <3>1, <3>2 DEF RecordStep
  <2>7. CASE BackgroundWrite
    <3>1. rollout' = Written /\ buffered' = {} /\ UNCHANGED <<loaded, fresh>>
      BY <2>7 DEF BackgroundWrite
    <3> QED BY <2>0, <3>1, WriteSeen DEF SeenInv
  <2>8. CASE Shutdown
    <3>1. rollout' = Written /\ fresh' = {} /\ ~loaded'
      BY <2>8 DEF Shutdown, DropSession
    <3> QED BY <2>0, <3>1, WriteSeen DEF SeenInv
  <2>9. CASE Crash
    <3>1. UNCHANGED rollout /\ fresh' = {} /\ ~loaded'
      BY <2>9 DEF Crash, DropSession, rowVars
    <3> QED BY <2>0, <2>9, <3>1 DEF SeenInv
  <2> QED
    BY <1>3, <2>1, <2>2, <2>3, <2>4, <2>5, <2>6, <2>7, <2>8, <2>9, MemoryFrame
<1> QED BY <1>1, <1>2, <1>3 DEF vars

-----------------------------------------------------------------------------
(* While nothing interrupts a task, one recorder is at work at a time.     *)

\* What UndisturbedInv says of the active-turn slot.
SlotQuiet ==
    /\ human.st = "none"
    /\ turn.st \in {"idle", "reserved", "running", "finishing"}
    /\ fin.on => turn.st \in {"finishing", "reserved"}

\* maybe_start_turn_for_pending_work starts a task only in an idle slot.
LEMMA StartKeepsSlot ==
    ASSUME NEW q, NEW t, StartPendingWork(q, t)
    PROVE  turn' = t \/ (t.st = "idle" /\ turn'.st = "running")
BY DEF StartPendingWork, NewTurn, NoTurn

\* A task that is detached leaves the slot to its finisher.
LEMMA DetachSlot ==
    ASSUME NEW natural, Detach(natural)
    PROVE  turn'.st = "finishing" /\ fin'.on
BY DEF Detach, NoTurn, NoFin

\* Only the end of a finisher, or the loss of the session, takes the finisher
\* away; the next task starts after it.
LEMMA SlotStep ==
    ASSUME Inv, StartInv, SlotQuiet, budget["abort"] = 0, budget["human"] = 0,
           [Next]_vars
    PROVE  /\ SlotQuiet'
           /\ \/ fin'.on = fin.on \/ fin'.on
              \/ FinishEnd \/ FinishStart \/ Shutdown \/ Crash
<1> USE DEF SlotQuiet
<1>0. TurnTypes
  BY InvTurnTypes
<1> DEFINE Goal ==
        /\ SlotQuiet'
        /\ \/ fin'.on = fin.on \/ fin'.on
           \/ FinishEnd \/ FinishStart \/ Shutdown \/ Crash
<1>1. CASE UNCHANGED <<turn, fin, human>>
  BY <1>1
<1>2. ASSUME turn'.st = turn.st, UNCHANGED <<fin, human>>
      PROVE  Goal
  BY <1>2
<1>3. CASE UNCHANGED vars
  BY <1>1, <1>3 DEF vars
<1>4. CASE \E c \in Callers : Send(c)
  BY <1>1, <1>4 DEF Send, turnVars, loopVars
<1>5. CASE HandleMail
  <2>1. PICK q : StartPendingWork(q, turn) \/ UNCHANGED turn
    BY <1>5 DEF HandleMail
  <2>2. UNCHANGED <<fin, human>>
    BY <1>5 DEF HandleMail
  <2> QED BY <2>1, <2>2, StartKeepsSlot
<1>6. CASE HandleWake
  BY <1>6, StartKeepsSlot DEF HandleWake
<1>7. CASE HumanDrain \/ HumanReplace \/ HumanStart \/ Aborter
  BY <1>7
  DEF HumanDrain, HumanReplace, HumanStart, Aborter, AbortKill, AbortSettle, AbortEnd
<1>8. CASE HumanTurn \/ Abort
  BY <1>8 DEF HumanTurn, Abort, Spend
<1>9. CASE Shutdown \/ Crash
  <2>1. turn' = NoTurn /\ fin' = NoFin /\ human' = NoHuman
    BY <1>9 DEF Shutdown, Crash, DropSession
  <2>2. SlotQuiet'
    BY <2>1 DEF NoTurn, NoFin, NoHuman
  <2> QED BY <1>9, <2>2
<1>10. CASE CapacityWake \/ Unload
  BY <1>1, <1>10 DEF CapacityWake, Unload, turnVars, loopVars
<1>11. CASE Setup \/ TakeInput \/ Drain
  <2>1. turn'.st = turn.st /\ UNCHANGED <<fin, human>>
    BY <1>0, <1>11 DEF Setup, TakeInput, Drain, TurnTypes, TurnState, loopVars
  <2> QED BY <1>2, <2>1
<1>12. CASE Sample
  <2>1. turn'.st = turn.st /\ UNCHANGED <<fin, human>>
    BY <1>0, <1>12 DEF Sample, TurnTypes, TurnState, loopVars
  <2> QED BY <1>2, <2>1
<1>13. CASE SetupFails \/ TaskError \/ Exit
  <2>1. \/ Detach(FALSE) \/ Detach(TRUE)
        \/ turn'.st = turn.st /\ UNCHANGED fin
    BY <1>0, <1>13 DEF SetupFails, TaskError, Exit, TurnTypes, TurnState
  <2>2. UNCHANGED human
    BY <1>13 DEF SetupFails, TaskError, Exit, loopVars
  <2> QED BY <1>2, <2>1, <2>2, DetachSlot
<1>14. CASE FinishSettle \/ FinishMarkReady \/ FinishPending
  <2>1. fin'.on = fin.on /\ UNCHANGED <<turn, human>>
    BY <1>0, <1>14
    DEF FinishSettle, FinishMarkReady, FinishPending, TurnTypes, FinishState, loopVars
  <2> QED BY <2>1
<1>15. CASE FinishEnd
  <2>1. UNCHANGED human
    BY <1>15 DEF FinishEnd
  <2>2. CASE turn.st = "finishing"
    <3>1. \/ turn' = [NoTurn EXCEPT !.st = "reserved"]
          \/ turn' = [NoTurn EXCEPT !.st = "idle"] /\ fin' = NoFin
      BY <1>15, <2>2 DEF FinishEnd
    <3>2. \/ turn'.st = "reserved"
          \/ turn'.st = "idle" /\ ~fin'.on
      BY <3>1 DEF NoTurn, NoFin
    <3> QED BY <1>15, <2>1, <3>2
  <2>3. CASE turn.st # "finishing"
    <3>1. UNCHANGED turn /\ fin' = NoFin
      BY <1>15, <2>3 DEF FinishEnd
    <3> QED BY <1>15, <2>1, <3>1 DEF NoFin
  <2> QED BY <2>2, <2>3
<1>17. CASE FinishStart
  <2>1. ~Running
    BY <1>17 DEF FinishStart, StartInv, Running
  <2>2. turn' = NewTurn(<<>>, mail, TRUE) /\ fin' = NoFin /\ UNCHANGED human
    BY <1>17, <2>1 DEF FinishStart, loopVars
  <2>3. turn'.st = "running" /\ ~fin'.on
    BY <2>2 DEF NewTurn, NoTurn, NoFin
  <2> QED BY <1>17, <2>2, <2>3
<1>16. CASE \E w \in Recorder : Track(w)
  <2>1. turn'.st = turn.st /\ UNCHANGED <<fin, human>>
    BY <1>0, <1>16 DEF Track, TurnTypes, TurnState, loopVars
  <2> QED BY <1>2, <2>1
<1> QED
  BY <1>1, <1>3, <1>4, <1>5, <1>6, <1>7, <1>8, <1>9, <1>10, <1>11, <1>12,
     <1>13, <1>14, <1>15, <1>16, <1>17, TurnFrame
  DEF SessionLoop, Task, Finisher

\* The finisher's recorder works only while the finisher does.
LEMMA FinisherStep ==
    ASSUME Inv, StartInv, UndisturbedInv, [Next]_vars
    PROVE  rec'["finisher"].step # "idle" => fin'.on
<1>0. rec \in [Recorder -> RecordState] /\ "finisher" \in Recorder
  BY DEF Inv, TypeOK, SessionOK, Recorder
<1>1. rec["finisher"].step # "idle" => fin.on
  BY DEF UndisturbedInv
<1>2. fin'.on = fin.on \/ fin'.on \/ FinishEnd \/ FinishStart \/ Shutdown \/ Crash
  BY SlotStep DEF UndisturbedInv, SlotQuiet
<1>3. CASE FinishEnd
  BY <1>3 DEF FinishEnd, sessionVars
<1>4. CASE Shutdown \/ Crash
  <2>1. rec' = [w \in Recorder |-> Idle]
    BY <1>4 DEF Shutdown, Crash, DropSession
  <2> QED BY <1>0, <2>1 DEF Idle
<1>11. CASE FinishStart
  <2>1. \E r : rec' = [rec EXCEPT !["task"] = r]
    BY <1>11 DEF FinishStart
  <2>2. rec'["finisher"] = rec["finisher"]
    BY <1>0, <2>1
  <2> QED BY <1>11, <2>2 DEF FinishStart, StartInv
<1>5. CASE FinishPending
  <2>1. fin'.on = fin.on /\ fin.on
    BY <1>5, InvTurnTypes DEF FinishPending, TurnTypes, FinishState
  <2> QED BY <2>1
<1>6. CASE /\ ~FinishEnd /\ ~FinishStart /\ ~Shutdown /\ ~Crash
           /\ rec'["finisher"].step # "idle" => rec["finisher"].step # "idle"
  BY <1>1, <1>2, <1>6
<1>7. CASE UNCHANGED rec
  BY <1>3, <1>4, <1>6, <1>7, <1>11
<1>8. CASE (\E c \in Callers : Load(c)) \/ Sample \/ BackgroundWrite
  <2>1. UNCHANGED rec
    BY <1>8 DEF Load, Sample, BackgroundWrite, sessionVars
  <2> QED BY <1>7, <2>1
<1>9. CASE TakeInput \/ AbortKill
  <2>1. UNCHANGED rec \/ \E r : rec' = [rec EXCEPT !["task"] = r]
    BY <1>9 DEF TakeInput, AbortKill, Record
  <2>2. rec'["finisher"] = rec["finisher"]
    BY <1>0, <2>1
  <2> QED BY <1>3, <1>4, <1>6, <1>11, <2>2
<1>10. ASSUME NEW w \in Recorder, RecordStep(w)
       PROVE  rec'["finisher"].step # "idle" => fin'.on
  <2>1. rec[w].step # "idle"
    BY <1>10 DEF RecordStep, Flush, Track, Acknowledge
  <2>2. \E r : rec' = [rec EXCEPT ![w] = r]
    BY <1>0, <1>10 DEF RecordStep, Flush, Track, Acknowledge
  <2>3. rec'["finisher"].step # "idle" => rec["finisher"].step # "idle"
    BY <1>0, <2>1, <2>2
  <2> QED BY <1>3, <1>4, <1>6, <1>11, <2>3
<1> QED
  BY <1>4, <1>5, <1>7, <1>8, <1>9, <1>10, <1>11, MemoryFrame DEF vars

\* What the writer holds is being flushed by a recorder.
Flushing ==
    \A m \in buffered : \E w \in Recorder : rec[w].step = "flush" /\ rec[w].msg = m

\* A recorder that is idle takes up a message and goes to flush it.
LEMMA RecordFlushing ==
    ASSUME rec \in [Recorder -> RecordState], Flushing,
           NEW w \in Recorder, rec[w].step = "idle", NEW m, Record(w, m)
    PROVE  Flushing'
<1>1. CASE m \in applied
  BY <1>1 DEF Record, Flushing
<1>2. CASE m \notin applied
  <2>1. buffered' = buffered \cup {m}
        /\ rec' = [rec EXCEPT ![w] = [msg |-> m, step |-> "flush"]]
    BY <1>2 DEF Record
  <2>2. rec'[w] = [msg |-> m, step |-> "flush"]
        /\ \A v \in Recorder \ {w} : rec'[v] = rec[v]
    BY <2>1
  <2>3. ASSUME NEW n \in buffered'
        PROVE  \E v \in Recorder : rec'[v].step = "flush" /\ rec'[v].msg = n
    <3>1. CASE n = m
      BY <2>2, <3>1
    <3>2. CASE n # m
      <4>1. PICK v \in Recorder : rec[v].step = "flush" /\ rec[v].msg = n
        BY <2>1, <2>3, <3>2 DEF Flushing
      <4>2. v # w
        BY <4>1
      <4> QED BY <2>2, <4>1, <4>2
    <3> QED BY <3>1, <3>2
  <2> QED BY <2>3 DEF Flushing
<1> QED BY <1>1, <1>2

LEMMA FlushingStep ==
    ASSUME Inv, StartInv, UndisturbedInv, ~FlushMayFail, [Next]_vars
    PROVE  Flushing'
<1>0. rec \in [Recorder -> RecordState] /\ Flushing
  BY DEF Inv, TypeOK, SessionOK, UndisturbedInv, Flushing
<1>1. CASE UNCHANGED <<buffered, rec>>
  BY <1>0, <1>1 DEF Flushing
<1>2. CASE buffered' = {}
  BY <1>2 DEF Flushing
<1>3. CASE \E c \in Callers : Load(c)
  BY <1>1, <1>3 DEF Load, sessionVars
<1>4. CASE TakeInput
  <2>1. "task" \in Recorder /\ rec["task"].step = "idle"
        /\ Record("task", Head(turn.batch).msg)
    BY <1>4 DEF TakeInput, Recorder
  <2> QED BY <1>0, <2>1, RecordFlushing
<1>5. CASE FinishPending
  <2>1. "finisher" \in Recorder /\ rec["finisher"].step = "idle"
        /\ (Record("finisher", Head(fin.pend).msg) \/ UNCHANGED <<buffered, rec>>)
    BY <1>5 DEF FinishPending, Recorder
  <2> QED BY <1>0, <1>1, <2>1, RecordFlushing
<1>6. CASE Sample
  BY <1>1, <1>6 DEF Sample
<1>7. CASE AbortKill
  BY <1>7 DEF AbortKill, UndisturbedInv
<1>10. CASE FinishStart
  <2>1. ~Running
    BY <1>10 DEF FinishStart, StartInv, UndisturbedInv, Running
  <2>2. rec' = [rec EXCEPT !["task"] = rec["task"]] /\ UNCHANGED buffered
    BY <1>10, <2>1 DEF FinishStart
  <2>3. rec' = rec
    BY <1>0, <2>2
  <2> QED BY <1>1, <2>2, <2>3
<1>8. ASSUME NEW w \in Recorder, RecordStep(w) PROVE Flushing'
  <2>1. CASE Flush(w)
    BY <1>2, <2>1 DEF Flush
  <2>2. CASE Track(w) \/ Acknowledge(w)
    <3>1. rec[w].step # "flush" /\ UNCHANGED buffered
          /\ \E r : rec' = [rec EXCEPT ![w] = r]
      BY <1>0, <2>2 DEF Track, Acknowledge
    <3>2. \A v \in Recorder : rec[v].step = "flush" => rec'[v] = rec[v]
      BY <1>0, <3>1
    <3> QED BY <1>0, <3>1, <3>2 DEF Flushing
  <2> QED BY <1>8, <2>1, <2>2 DEF RecordStep
<1>9. CASE BackgroundWrite \/ Shutdown \/ Crash
  BY <1>2, <1>9 DEF BackgroundWrite, Shutdown, Crash, DropSession
<1> QED
  BY <1>1, <1>3, <1>4, <1>5, <1>6, <1>7, <1>8, <1>9, <1>10, MemoryFrame DEF vars

\* A task asks the provider when no recorder is at work, so about messages
\* that are in the file.
LEMMA SeenIsWritten ==
    ASSUME Inv, SeenInv, UndisturbedInv, [Next]_vars
    PROVE  \A m \in Msg : runs'[m] = 1 => rollout'[m] = 1
<1>0. runs \in [Msg -> Nat] /\ rollout \in [Msg -> Nat]
  BY DEF Inv, TypeOK, RowsOK
<1>1. ASSUME NEW m \in Msg, rollout[m] = 1 PROVE rollout'[m] = 1
  <2>1. m \notin buffered
    BY <1>1 DEF Inv, RolloutInv
  <2>2. FileStep
    BY RowsTyped
  <2> QED BY <1>0, <1>1, <2>1, <2>2 DEF FileStep, Written
<1>2. CASE Sample
  <2>1. turn.st = "running" /\ rec["task"].step = "idle"
    BY <1>2 DEF Sample, Running, Recorded
  <2>2. rec["finisher"].step = "idle"
    BY <2>1 DEF UndisturbedInv
  <2>3. buffered = {}
    BY <2>1, <2>2 DEF UndisturbedInv, Recorder
  <2>4. \A m \in fresh : rollout[m] = 1
    BY <2>3 DEF SeenInv
  <2>5. runs' = [m \in Msg |-> runs[m] + (IF m \in fresh THEN 1 ELSE 0)]
    BY <1>2 DEF Sample
  <2>6. ASSUME NEW m \in Msg, runs'[m] = 1 PROVE rollout[m] = 1
    BY <1>0, <2>4, <2>5, <2>6 DEF UndisturbedInv
  <2> QED BY <1>1, <2>6
<1>3. CASE UNCHANGED runs
  BY <1>1, <1>3 DEF UndisturbedInv
<1> QED BY <1>2, <1>3, FileFrame DEF vars, Inv, TypeOK, RowsOK

LEMMA UndisturbedStep ==
    ASSUME Inv, StartInv, SeenInv, UndisturbedInv, ~FlushMayFail, [Next]_vars
    PROVE  UndisturbedInv'
<1>1. "abort" \in Event /\ "human" \in Event
  BY DEF Event
<1>2. budget'["abort"] = 0 /\ budget'["human"] = 0
  BY <1>1, SpentStaysSpent DEF UndisturbedInv
<1>3. SlotQuiet'
  BY SlotStep DEF UndisturbedInv, SlotQuiet
<1> QED
  BY <1>2, <1>3, FinisherStep, FlushingStep, SeenIsWritten
  DEF UndisturbedInv, SlotQuiet, Flushing

LEMMA OnceStep ==
    ASSUME OnceInv, ~FlushMayFail, [Next]_vars
    PROVE  OnceInv'
<1>0. Inv /\ StartInv /\ SeenInv
  BY DEF OnceInv
<1>1. Inv' /\ StartInv'
  BY <1>0, InvStep, StartStep
<1>2. CASE NoCrash
  <2>1. ~Crash
    BY <1>2 DEF NoCrash, Crash, Spend
  <2>2. SeenInv'
    BY <1>0, <2>1, SeenStep
  <2>3. NoCrash'
    BY <1>0, <1>2, SpentStaysSpent DEF NoCrash, Event
  <2> QED BY <1>1, <2>2, <2>3 DEF OnceInv
<1>3. CASE UndisturbedInv
  <2>1. SeenInv'
    BY <1>0, <1>3, SeenStep DEF UndisturbedInv
  <2>2. UndisturbedInv'
    BY <1>0, <1>3, UndisturbedStep
  <2> QED BY <1>1, <2>1, <2>2 DEF OnceInv
<1> QED BY <1>2, <1>3 DEF OnceInv

LEMMA OnceInit ==
    ASSUME Init, Budget["crash"] = 0 \/ (Budget["abort"] = 0 /\ Budget["human"] = 0)
    PROVE  OnceInv
<1>1. Inv /\ StartInv
  BY InitInv DEF Init, StartInv, NoFin
<1>2. SeenInv
  BY DEF Init, SeenInv
<1>3. Budget["crash"] = 0 => NoCrash
  BY DEF Init, NoCrash
<1>4. Budget["abort"] = 0 /\ Budget["human"] = 0 => UndisturbedInv
  BY DEF Init, UndisturbedInv, NoTurn, NoFin, NoHuman, Idle, Recorder
<1> QED BY <1>1, <1>2, <1>3, <1>4 DEF OnceInv

\* No message is put before the provider as new work twice, however often it
\* is sent, recovered and reloaded: across any number of crashes as long as no
\* task is aborted and no human starts a turn over a detached task, and across
\* any number of those as long as the process lives.  A flush that fails, or a
\* crash after a turn that overtook a finisher, does replay a message.
THEOREM MessageExecutedOnce ==
    /\ ~FlushMayFail
    /\ Budget["crash"] = 0 \/ (Budget["abort"] = 0 /\ Budget["human"] = 0)
    => (Spec => []ExecutedOnce)
<1> SUFFICES ASSUME ~FlushMayFail,
                    Budget["crash"] = 0 \/ (Budget["abort"] = 0 /\ Budget["human"] = 0)
             PROVE  Spec => []ExecutedOnce
  OBVIOUS
<1>1. Init => OnceInv
  BY OnceInit
<1>2. OnceInv /\ [Next]_vars => OnceInv'
  BY OnceStep
<1>3. OnceInv => ExecutedOnce
  BY DEF OnceInv, SeenInv, ExecutedOnce
<1> QED BY <1>1, <1>2, <1>3, PTL DEF Spec

-----------------------------------------------------------------------------
(* An accepted message is not lost.                                        *)

\* The messages the session has accepted: in a queue, in the input of a turn
\* or of a finisher, or in its history; or thrown away with a task.
Accepted ==
    Msgs(chan) \cup Msgs(mail) \cup Msgs(held) \cup Msgs(turn.pend)
        \cup Msgs(turn.batch) \cup Msgs(human.input) \cup Msgs(fin.pend)
        \cup Range(fin.follow) \cup applied \cup thrown

\* Nothing takes the session down or interrupts its task.
CalmInv ==
    /\ loaded
    /\ \A i \in 1..Len(chan) : chan[i].kind # "stop"
    /\ \A e \in {"crash", "abort", "unload"} : budget[e] = 0

\* A slot is cleared, and a task or a finisher ends, only when it has no
\* input left; the input of a task that is being replaced is thrown away.
InputInv ==
    /\ turn.st \in {"idle", "reserved", "finishing"} =>
          turn.pend = <<>> /\ turn.batch = <<>>
    /\ turn.at = "exit" => turn.batch = <<>>
    /\ ~fin.on => fin.pend = <<>> /\ fin.follow = <<>>
    /\ human.st # "start" => human.input = <<>>
    /\ turn.st = "aborting" => Msgs(turn.pend) \cup Msgs(turn.batch) \subseteq thrown

\* What a caller has handed over, and what its row says was handed over, is
\* in the session.
HandoverInv ==
    /\ \A m \in Msg : phase[m] = "submitted" => m \in Accepted
    /\ \A c \in Callers : call[c].pc = "confirm" => call[c].cur \in Accepted

KeptInv == Inv /\ StartInv /\ CalmInv /\ InputInv /\ HandoverInv

\* What is thrown away is on record.
LEMMA ThrownGrows ==
    ASSUME Inv, [Next]_vars
    PROVE  thrown \subseteq thrown'
<1>1. HumanReplace \/ FinishStart \/ UNCHANGED thrown
  BY FileFrame DEF Inv, TypeOK, RowsOK, vars
<1> QED BY <1>1 DEF HumanReplace, FinishStart

\* The messages of a queue as its elements' messages, and what the operations
\* on queues do to them.
LEMMA MsgsOfRange ==
    ASSUME NEW S, NEW s \in Seq(S)
    PROVE  Msgs(s) = {e.msg : e \in Range(s)}
<1>1. DOMAIN s = 1..Len(s)
  BY LenProperties
<1> QED BY <1>1 DEF Msgs, Range

LEMMA MsgsEmpty == Msgs(<<>>) = {}
BY DEF Msgs

LEMMA MsgsAppend ==
    ASSUME NEW S, NEW s \in Seq(S), NEW a \in S
    PROVE  Msgs(Append(s, a)) = Msgs(s) \cup {a.msg}
<1>1. Append(s, a) \in Seq(S) /\ Range(Append(s, a)) = Range(s) \cup {a}
  BY AppendFacts
<1>2. /\ Msgs(s) = {e.msg : e \in Range(s)}
      /\ Msgs(Append(s, a)) = {e.msg : e \in Range(Append(s, a))}
  BY <1>1, MsgsOfRange
<1> QED BY <1>1, <1>2

LEMMA MsgsTail ==
    ASSUME NEW S, NEW s \in Seq(S), s # <<>>
    PROVE  Msgs(s) = Msgs(Tail(s)) \cup {Head(s).msg}
<1>1. Tail(s) \in Seq(S) /\ Range(s) = Range(Tail(s)) \cup {Head(s)}
  BY TailFacts
<1>2. /\ Msgs(s) = {e.msg : e \in Range(s)}
      /\ Msgs(Tail(s)) = {e.msg : e \in Range(Tail(s))}
  BY <1>1, MsgsOfRange
<1> QED BY <1>1, <1>2

LEMMA MsgsConcat ==
    ASSUME NEW S, NEW s \in Seq(S), NEW r \in Seq(S)
    PROVE  Msgs(s \o r) = Msgs(s) \cup Msgs(r)
<1>1. s \o r \in Seq(S) /\ Range(s \o r) = Range(s) \cup Range(r)
  BY ConcatFacts
<1>2. /\ Msgs(s) = {e.msg : e \in Range(s)}
      /\ Msgs(r) = {e.msg : e \in Range(r)}
      /\ Msgs(s \o r) = {e.msg : e \in Range(s \o r)}
  BY <1>1, MsgsOfRange
<1> QED BY <1>1, <1>2

\* submit_follow_up_input sends every item it was given.
LEMMA FollowUpFacts ==
    ASSUME NEW s \in Seq(Msg)
    PROVE  /\ FollowUp(s) \in Seq(Op) /\ Msgs(FollowUp(s)) = Range(s)
           /\ \A i \in 1..Len(FollowUp(s)) : FollowUp(s)[i].kind = "mail"
<1>1. Len(s) \in Nat /\ DOMAIN s = 1..Len(s) /\ \A i \in 1..Len(s) : s[i] \in Msg
  BY LenProperties
<1>2. FollowUp(s) = [i \in 1..Len(s) |-> [kind |-> "mail", msg |-> s[i], trig |-> TRUE]]
  BY DEF FollowUp
<1>3. FollowUp(s) \in Seq(Op)
  BY <1>1, <1>2 DEF Op
<1>4. Len(FollowUp(s)) = Len(s)
  BY <1>1, <1>2
<1>5. Msgs(FollowUp(s)) = {s[i] : i \in 1..Len(s)}
  BY <1>2, <1>4 DEF Msgs
<1>6. Msgs(FollowUp(s)) = Range(s)
  BY <1>1, <1>5 DEF Range
<1> QED BY <1>2, <1>3, <1>4, <1>6

\* The invariant is about the places the property names.
LEMMA AcceptedIsWaiting ==
    ASSUME Inv, NEW m, m \in Accepted
    PROVE  m \in applied \/ Waiting(m) \/ m \in thrown
<1>1. CASE \E q \in {chan, mail, held, human.input, turn.pend, turn.batch, fin.pend} :
              m \in Msgs(q)
  <2>1. PICK q \in {chan, mail, held, human.input, turn.pend, turn.batch, fin.pend} :
           m \in Msgs(q)
    BY <1>1
  <2> QED BY <2>1 DEF Waiting
<1>2. CASE m \in Range(fin.follow)
  <2>1. fin.follow \in Seq(Msg)
    BY InvTurnTypes DEF TurnTypes
  <2>2. DOMAIN fin.follow = 1..Len(fin.follow)
    BY <2>1, LenProperties
  <2> QED BY <1>2, <2>2 DEF Range, Waiting
<1> QED BY <1>1, <1>2 DEF Accepted

-----------------------------------------------------------------------------
(* No step of the session drops a message.                                 *)

\* What a step does to the messages in the session.
KeptStep == InputInv' /\ \A m \in Msg : m \in Accepted => m \in Accepted'

\* A task that is detached with no input of its own left hands its pending
\* input to the finisher.
LEMMA DetachKeeps ==
    ASSUME Inv, InputInv, NEW natural, Detach(natural), turn.batch = <<>>,
           UNCHANGED <<chan, mail, held, human, applied>>, thrown \subseteq thrown'
    PROVE  KeptStep
<1>1. /\ fin'.on /\ fin'.pend = turn.pend /\ fin'.follow = <<>>
      /\ turn'.st = "finishing" /\ turn'.at = "none"
      /\ turn'.pend = <<>> /\ turn'.batch = <<>>
  BY DEF Detach, NoFin, NoTurn
<1>2. fin.pend = <<>> /\ fin.follow = <<>>
  BY DEF Detach, InputInv
<1>3. InputInv'
  BY <1>1 DEF InputInv
<1>4. Accepted \subseteq Accepted'
  BY <1>1, <1>2 DEF Accepted
<1> QED BY <1>3, <1>4 DEF KeptStep

\* A turn that is started for pending mail takes it; otherwise the mail and
\* the slot stay.
LEMMA StartKeeps ==
    ASSUME NEW q, NEW t, StartPendingWork(q, t),
           t.st = "idle" => t.pend = <<>> /\ t.batch = <<>>
    PROVE  /\ turn' = t \/ (turn'.st = "running" /\ turn'.at = "start")
           /\ Msgs(q) \cup Msgs(t.pend) \cup Msgs(t.batch)
                \subseteq Msgs(mail') \cup Msgs(turn'.pend) \cup Msgs(turn'.batch)
<1>1. CASE turn' = NewTurn(<<>>, q, TRUE) /\ mail' = <<>> /\ t.st = "idle"
  <2>1. turn'.st = "running" /\ turn'.at = "start" /\ turn'.pend = q /\ turn'.batch = <<>>
    BY <1>1 DEF NewTurn, NoTurn
  <2> QED BY <1>1, <2>1
<1>2. CASE turn' = t /\ mail' = q
  BY <1>2
<1> QED BY <1>1, <1>2 DEF StartPendingWork

\* What send_op puts into the channel of a loaded recipient.
SentOp(c) == [kind |-> "mail", msg |-> call[c].cur, trig |-> call[c].cur \in Trigger]

LEMMA SendFacts ==
    ASSUME Inv, NEW c \in Callers, Send(c)
    PROVE  /\ SentOp(c) \in Op /\ SentOp(c).msg = call[c].cur
           /\ SentOp(c).kind = "mail"
           /\ chan' = IF loaded THEN Append(chan, SentOp(c)) ELSE chan
<1>1. call[c].cur \in Msg
  BY DEF Send, Inv, CallInv
<1>2. (call[c].cur \in Trigger) \in BOOLEAN
  OBVIOUS
<1>3. \A n \in Msg, b \in BOOLEAN : [kind |-> "mail", msg |-> n, trig |-> b] \in Op
  BY DEF Op
<1>4. SentOp(c) \in Op
  BY <1>1, <1>2, <1>3, Zenon DEF SentOp
<1>5. SentOp(c).msg = call[c].cur /\ SentOp(c).kind = "mail"
  BY DEF SentOp
<1>6. chan' = IF loaded THEN Append(chan, SentOp(c)) ELSE chan
  BY DEF Send, SentOp
<1> QED BY <1>4, <1>5, <1>6

\* The submission loop and the events from outside.
LEMMA LoopKeeps ==
    ASSUME Inv, CalmInv, InputInv,
           \/ \E c \in Callers : Send(c)
           \/ SessionLoop \/ CapacityWake \/ HumanTurn,
           thrown \subseteq thrown'
    PROVE  KeptStep
<1>0. TurnTypes /\ chan \in Seq(Op) /\ mail \in Seq(Item) /\ held \in Seq(Item)
  BY InvTurnTypes DEF TurnTypes, QueuesOK
<1>1. ASSUME NEW c \in Callers, Send(c) PROVE KeptStep
  <2>1. UNCHANGED <<mail, held, turn, fin, human, applied>>
    BY <1>1 DEF Send, sessionVars, turnVars, loopVars
  <2>2. SentOp(c) \in Op /\ chan' = IF loaded THEN Append(chan, SentOp(c)) ELSE chan
    BY <1>1, SendFacts
  <2>3. Msgs(chan) \subseteq Msgs(chan')
    BY <1>0, <2>2, MsgsAppend
  <2>4. Accepted \subseteq Accepted'
    BY <2>1, <2>3 DEF Accepted
  <2> QED BY <2>1, <2>4 DEF KeptStep, InputInv
<1>2. CASE HandleMail
  <2> DEFINE it == [msg |-> Head(chan).msg, trig |-> Head(chan).trig]
  <2>1. /\ chan # <<>> /\ Head(chan).kind = "mail" /\ chan' = Tail(chan)
        /\ UNCHANGED <<fin, human, applied>>
    BY <1>2 DEF HandleMail, sessionVars
  <2>2. Head(chan) \in Op
    BY <1>0, <2>1
  <2>3. it \in Item
    BY <2>1, <2>2 DEF Op, Item
  <2>4. Msgs(chan) = Msgs(chan') \cup {it.msg}
    BY <1>0, <2>1, MsgsTail
  <2>5. /\ Msgs(Append(mail, it)) = Msgs(mail) \cup {it.msg}
        /\ Msgs(Append(held, it)) = Msgs(held) \cup {it.msg}
    BY <1>0, <2>3, MsgsAppend
  <2> HIDE DEF it
  <2>6. CASE StartPendingWork(Append(mail, it), turn) /\ UNCHANGED held
    <3>1. /\ turn' = turn \/ (turn'.st = "running" /\ turn'.at = "start")
          /\ Msgs(Append(mail, it)) \cup Msgs(turn.pend) \cup Msgs(turn.batch)
               \subseteq Msgs(mail') \cup Msgs(turn'.pend) \cup Msgs(turn'.batch)
      BY <2>6, StartKeeps DEF InputInv
    <3>2. Accepted \subseteq Accepted'
      BY <2>1, <2>4, <2>5, <2>6, <3>1 DEF Accepted
    <3>3. InputInv'
      BY <2>1, <3>1 DEF InputInv
    <3> QED BY <3>2, <3>3 DEF KeptStep
  <2>7. CASE /\ UNCHANGED turn
             /\ \/ held' = Append(held, it) /\ UNCHANGED mail
                \/ mail' = Append(mail, it) /\ UNCHANGED held
    <3>1. \/ Msgs(held') = Msgs(held) \cup {it.msg} /\ Msgs(mail') = Msgs(mail)
          \/ Msgs(mail') = Msgs(mail) \cup {it.msg} /\ Msgs(held') = Msgs(held)
      BY <2>5, <2>7
    <3>2. Accepted \subseteq Accepted'
      BY <2>1, <2>4, <2>7, <3>1 DEF Accepted
    <3> QED BY <2>1, <2>7, <3>2 DEF KeptStep, InputInv
  <2> QED BY <1>2, <2>6, <2>7 DEF HandleMail, it
<1>3. CASE HandleWake
  <2>1. /\ chan # <<>> /\ Head(chan).kind = "wake" /\ chan' = Tail(chan)
        /\ StartPendingWork(mail, turn) /\ UNCHANGED <<held, fin, human, applied>>
    BY <1>3 DEF HandleWake, sessionVars
  <2>2. Head(chan) \in Op
    BY <1>0, <2>1
  <2>3. Head(chan).msg \notin Msg
    BY <2>1, <2>2, MailboxAssumption DEF Op
  <2>4. Msgs(chan) = Msgs(chan') \cup {Head(chan).msg}
    BY <1>0, <2>1, MsgsTail
  <2>5. /\ turn' = turn \/ (turn'.st = "running" /\ turn'.at = "start")
        /\ Msgs(mail) \cup Msgs(turn.pend) \cup Msgs(turn.batch)
             \subseteq Msgs(mail') \cup Msgs(turn'.pend) \cup Msgs(turn'.batch)
    BY <2>1, StartKeeps DEF InputInv
  <2>6. \A m \in Msg : m \in Accepted => m \in Accepted'
    BY <2>1, <2>3, <2>4, <2>5 DEF Accepted
  <2>7. InputInv'
    BY <2>1, <2>5 DEF InputInv
  <2> QED BY <2>6, <2>7 DEF KeptStep
<1>4. CASE CapacityWake
  <2>1. [kind |-> "wake", msg |-> NoMsg, trig |-> FALSE] \in Op
    BY DEF Op
  <2>2. UNCHANGED <<mail, held, turn, fin, human, applied>>
    BY <1>4 DEF CapacityWake, sessionVars
  <2>3. Msgs(chan) \subseteq Msgs(chan')
    BY <1>0, <1>4, <2>1, MsgsAppend DEF CapacityWake
  <2>4. Accepted \subseteq Accepted'
    BY <2>2, <2>3 DEF Accepted
  <2> QED BY <2>2, <2>4 DEF KeptStep, InputInv
<1>5. CASE HumanTurn
  <2>1. /\ human' = [NoHuman EXCEPT !.st = "drain"]
        /\ UNCHANGED <<chan, mail, held, turn, fin, applied>>
        /\ human.st = "none"
    BY <1>5 DEF HumanTurn, InHandler, sessionVars, queueVars
  <2>2. human'.st = "drain" /\ human'.input = <<>> /\ human.input = <<>>
    BY <2>1 DEF NoHuman, InputInv
  <2>3. Accepted \subseteq Accepted'
    BY <2>1, <2>2 DEF Accepted
  <2> QED BY <2>1, <2>2, <2>3 DEF KeptStep, InputInv
<1>6. CASE HumanStart
  <2>1. /\ turn' = NewTurn(human.input, mail, FALSE) /\ human' = NoHuman
        /\ mail' = <<>> /\ UNCHANGED <<chan, held, fin, applied>>
        /\ turn.pend = <<>> /\ turn.batch = <<>>
    BY <1>0, <1>6 DEF HumanStart, InputInv, sessionVars, TurnTypes, TurnState
  <2>2. /\ turn'.st = "running" /\ turn'.at = "start"
        /\ turn'.pend = mail /\ turn'.batch = human.input /\ human'.input = <<>>
    BY <2>1 DEF NewTurn, NoTurn, NoHuman
  <2>3. Accepted \subseteq Accepted'
    BY <2>1, <2>2 DEF Accepted
  <2> QED BY <2>1, <2>2, <2>3 DEF KeptStep, InputInv
<1>8. CASE HumanDrain
  <2>1. /\ human.st = "drain" /\ human'.st = "start" /\ human'.input = mail
        /\ mail' = <<>> /\ UNCHANGED <<chan, held, turn, fin, applied>>
    BY <1>8 DEF HumanDrain, sessionVars
  <2>2. human.input = <<>>
    BY <2>1 DEF InputInv
  <2>3. Accepted \subseteq Accepted'
    BY <2>1, <2>2 DEF Accepted
  <2> QED BY <2>1, <2>3 DEF KeptStep, InputInv
<1>9. CASE HumanReplace
  <2>1. /\ turn' = [turn EXCEPT !.st = "aborting"] /\ Running
        /\ thrown' = thrown \cup Msgs(turn.pend) \cup Msgs(turn.batch)
        /\ UNCHANGED <<chan, mail, held, human, fin, applied>>
    BY <1>9 DEF HumanReplace, sessionVars, queueVars, loopVars
  <2>2. /\ turn'.st = "aborting" /\ turn'.at = turn.at
        /\ turn'.pend = turn.pend /\ turn'.batch = turn.batch
    BY <1>0, <2>1 DEF TurnTypes, TurnState
  <2>3. Accepted \subseteq Accepted'
    BY <2>1, <2>2 DEF Accepted
  <2> QED BY <2>1, <2>2, <2>3 DEF KeptStep, InputInv
<1>7. CASE Shutdown
  <2>1. chan # <<>> /\ Head(chan).kind = "stop"
    BY <1>7 DEF Shutdown
  <2>2. 1 \in 1..Len(chan) /\ Head(chan) = chan[1]
    BY <1>0, <2>1, LenProperties, EmptySeq
  <2> QED BY <2>1, <2>2 DEF CalmInv
<1> QED BY <1>1, <1>2, <1>3, <1>4, <1>5, <1>6, <1>7, <1>8, <1>9 DEF SessionLoop

\* Whatever record_inter_agent_communication is given is in the history
\* afterwards.
LEMMA RecordAccepts ==
    ASSUME NEW w, NEW m, Record(w, m)
    PROVE  applied \cup {m} \subseteq applied'
BY DEF Record

\* The running task: it takes its input in, and ends with none left.
LEMMA TaskKeeps ==
    ASSUME Inv, CalmInv, InputInv, ~InputMayFail, Task, thrown \subseteq thrown'
    PROVE  KeptStep
<1>0. /\ turn \in TurnState /\ mail \in Seq(Item) /\ held \in Seq(Item)
      /\ turn.batch \in Seq(Item) /\ turn.pend \in Seq(Item)
  BY InvTurnTypes DEF TurnTypes, QueuesOK
<1>1. CASE Setup
  <2>1. turn' = [turn EXCEPT !.at = "drain"] /\ UNCHANGED <<chan, mail, held, fin, human, applied>>
    BY <1>1 DEF Setup, sessionVars, queueVars, loopVars
  <2>2. /\ turn'.st = turn.st /\ turn'.pend = turn.pend
        /\ turn'.batch = turn.batch /\ turn'.at = "drain"
    BY <1>0, <2>1 DEF TurnState
  <2>3. Accepted \subseteq Accepted'
    BY <2>1, <2>2 DEF Accepted
  <2> QED BY <2>1, <2>2, <2>3 DEF KeptStep, InputInv
<1>2. CASE SetupFails
  <2>1. turn.batch = <<>> /\ UNCHANGED <<chan, mail, held, human, applied>>
    BY <1>2 DEF SetupFails, sessionVars, queueVars, loopVars
  <2>2. CASE Detach(FALSE)
    BY <2>1, <2>2, DetachKeeps
  <2>3. CASE turn' = [turn EXCEPT !.at = "exit", !.batch = <<>>] /\ UNCHANGED fin
    <3>1. turn'.st = turn.st /\ turn'.pend = turn.pend /\ turn'.batch = <<>>
      BY <1>0, <2>3 DEF TurnState
    <3>2. Accepted \subseteq Accepted'
      BY <2>1, <2>3, <3>1 DEF Accepted
    <3> QED BY <2>1, <2>3, <3>1, <3>2 DEF KeptStep, InputInv
  <2> QED BY <1>2, <2>2, <2>3 DEF SetupFails
<1>3. CASE TakeInput
  <2>1. /\ turn' = [turn EXCEPT !.batch = Tail(@)] /\ turn.batch # <<>>
        /\ turn.st \in {"running", "aborting"}
        /\ Record("task", Head(turn.batch).msg)
        /\ UNCHANGED <<chan, mail, held, fin, human>>
    BY <1>3 DEF TakeInput, queueVars, loopVars
  <2>2. /\ turn'.st = turn.st /\ turn'.pend = turn.pend
        /\ turn'.batch = Tail(turn.batch) /\ turn'.at = turn.at
    BY <1>0, <2>1 DEF TurnState
  <2>3. Msgs(turn.batch) = Msgs(Tail(turn.batch)) \cup {Head(turn.batch).msg}
    BY <1>0, <2>1, MsgsTail
  <2>4. applied \cup {Head(turn.batch).msg} \subseteq applied'
    BY <2>1, RecordAccepts
  <2>5. Accepted \subseteq Accepted'
    BY <2>1, <2>2, <2>3, <2>4 DEF Accepted
  <2>6. InputInv'
    BY <2>1, <2>2, <2>3 DEF InputInv
  <2> QED BY <2>5, <2>6 DEF KeptStep
<1>4. CASE Drain
  <2>1. turn.st = "running" /\ turn.batch = <<>> /\ UNCHANGED <<chan, fin, human, applied>>
    BY <1>4 DEF Drain, Running, Recorded, sessionVars, loopVars
  <2>2. CASE \E at \in {"exit", "sample"} :
                turn' = [turn EXCEPT !.at = at] /\ UNCHANGED <<mail, held>>
    <3>1. turn'.st = turn.st /\ turn'.pend = turn.pend /\ turn'.batch = turn.batch
      BY <1>0, <2>2 DEF TurnState
    <3>2. Accepted \subseteq Accepted'
      BY <2>1, <2>2, <3>1 DEF Accepted
    <3> QED BY <2>1, <3>1, <3>2 DEF KeptStep, InputInv
  <2>3. CASE /\ turn' = [turn EXCEPT !.batch = @ \o turn.pend \o mail \o held,
                                     !.pend = <<>>, !.at = "sample"]
             /\ mail' = <<>> /\ held' = <<>>
    <3>1. /\ turn'.st = turn.st /\ turn'.pend = <<>> /\ turn'.at = "sample"
          /\ turn'.batch = turn.batch \o turn.pend \o mail \o held
      BY <1>0, <2>3 DEF TurnState
    <3>2. /\ turn.batch \o turn.pend \in Seq(Item)
          /\ turn.batch \o turn.pend \o mail \in Seq(Item)
      BY <1>0, ConcatFacts
    <3>3. Msgs(turn'.batch) = Msgs(turn.batch) \cup Msgs(turn.pend)
                                \cup Msgs(mail) \cup Msgs(held)
      <4>1. Msgs(turn.batch \o turn.pend) = Msgs(turn.batch) \cup Msgs(turn.pend)
        BY <1>0, MsgsConcat
      <4>2. Msgs(turn.batch \o turn.pend \o mail)
              = Msgs(turn.batch \o turn.pend) \cup Msgs(mail)
        BY <1>0, <3>2, MsgsConcat
      <4>3. Msgs(turn.batch \o turn.pend \o mail \o held)
              = Msgs(turn.batch \o turn.pend \o mail) \cup Msgs(held)
        BY <1>0, <3>2, MsgsConcat
      <4> QED BY <3>1, <4>1, <4>2, <4>3
    <3>4. Accepted \subseteq Accepted'
      BY <2>1, <3>3 DEF Accepted
    <3> QED BY <2>1, <3>1, <3>4 DEF KeptStep, InputInv
  <2> QED BY <1>4, <2>2, <2>3 DEF Drain
<1>5. CASE Sample
  <2>1. turn.st = "running" /\ turn.batch = <<>>
        /\ UNCHANGED <<chan, mail, held, fin, human, applied>>
    BY <1>5 DEF Sample, Running, Recorded, queueVars, loopVars
  <2>2. turn'.st = turn.st /\ turn'.pend = turn.pend /\ turn'.batch = turn.batch
    BY <1>0, <1>5 DEF Sample, TurnState
  <2>3. Accepted \subseteq Accepted'
    BY <2>1, <2>2 DEF Accepted
  <2> QED BY <2>1, <2>2, <2>3 DEF KeptStep, InputInv
<1>6. CASE TaskError
  <2>1. turn.batch = <<>> /\ Detach(FALSE) /\ UNCHANGED <<chan, mail, held, human, applied>>
    BY <1>6 DEF TaskError, Recorded, sessionVars, queueVars, loopVars
  <2> QED BY <2>1, DetachKeeps
<1>7. CASE Exit
  <2>1. turn.batch = <<>> /\ turn.st = "running"
        /\ UNCHANGED <<chan, mail, held, human, applied>>
    BY <1>7 DEF Exit, Running, InputInv, sessionVars, queueVars, loopVars
  <2>2. CASE Detach(TRUE)
    BY <2>1, <2>2, DetachKeeps
  <2>3. CASE turn' = [turn EXCEPT !.at = "start", !.drain = TRUE, !.reqs = 0]
             /\ UNCHANGED fin
    <3>1. turn'.st = turn.st /\ turn'.pend = turn.pend /\ turn'.batch = turn.batch
      BY <1>0, <2>3 DEF TurnState
    <3>2. Accepted \subseteq Accepted'
      BY <2>1, <2>3, <3>1 DEF Accepted
    <3> QED BY <2>1, <2>3, <3>1, <3>2 DEF KeptStep, InputInv
  <2> QED BY <1>7, <2>2, <2>3 DEF Exit
<1> QED BY <1>1, <1>2, <1>3, <1>4, <1>5, <1>6, <1>7 DEF Task

\* on_task_finished: pending input is recorded or sent again.
LEMMA FinisherKeeps ==
    ASSUME Inv, StartInv, CalmInv, InputInv, Finisher,
           thrown \subseteq thrown'
    PROVE  KeptStep
<1>0. /\ fin \in FinishState /\ turn \in TurnState /\ chan \in Seq(Op)
      /\ mail \in Seq(Item) /\ held \in Seq(Item)
      /\ fin.pend \in Seq(Item) /\ fin.follow \in Seq(Msg)
  BY InvTurnTypes DEF TurnTypes, QueuesOK
<1>1. CASE FinishSettle
  <2>1. /\ fin'.on = fin.on /\ fin'.pend = fin.pend /\ fin'.follow = fin.follow
        /\ UNCHANGED <<chan, mail, held, turn, human, applied>>
    BY <1>0, <1>1 DEF FinishSettle, FinishState, sessionVars, queueVars, loopVars
  <2>2. Accepted \subseteq Accepted'
    BY <2>1 DEF Accepted
  <2> QED BY <2>1, <2>2 DEF KeptStep, InputInv
<1>2. CASE FinishMarkReady
  <2>1. /\ fin'.on = fin.on /\ fin'.pend = fin.pend /\ fin'.follow = fin.follow
        /\ mail' = mail \o held /\ UNCHANGED <<chan, turn, human, applied>>
    BY <1>0, <1>2 DEF FinishMarkReady, FinishState, sessionVars, loopVars
  <2>2. Msgs(mail') = Msgs(mail) \cup Msgs(held)
    BY <1>0, <2>1, MsgsConcat
  <2>3. Accepted \subseteq Accepted'
    BY <2>1, <2>2 DEF Accepted
  <2> QED BY <2>1, <2>3 DEF KeptStep, InputInv
<1>3. CASE FinishPending
  <2>1. /\ fin.on /\ fin.pend # <<>> /\ UNCHANGED <<chan, mail, held, turn, human>>
    BY <1>3 DEF FinishPending, queueVars, loopVars
  <2>2. Msgs(fin.pend) = Msgs(Tail(fin.pend)) \cup {Head(fin.pend).msg}
    BY <1>0, <2>1, MsgsTail
  <2>3. CASE /\ fin' = [fin EXCEPT !.pend = Tail(@),
                           !.follow = Append(@, Head(fin.pend).msg)]
             /\ UNCHANGED applied
    <3>1. /\ fin'.on = fin.on /\ fin'.pend = Tail(fin.pend)
          /\ fin'.follow = Append(fin.follow, Head(fin.pend).msg)
      BY <1>0, <2>3 DEF FinishState
    <3>2. Head(fin.pend) \in Item
      BY <1>0, <2>1
    <3>3. Head(fin.pend).msg \in Msg
      BY <3>2 DEF Item
    <3>4. Range(fin'.follow) = Range(fin.follow) \cup {Head(fin.pend).msg}
      BY <1>0, <3>1, <3>3, AppendFacts
    <3>5. Accepted \subseteq Accepted'
      BY <2>1, <2>2, <2>3, <3>1, <3>4 DEF Accepted
    <3> QED BY <2>1, <3>1, <3>5 DEF KeptStep, InputInv
  <2>4. CASE /\ fin' = [fin EXCEPT !.pend = Tail(@)]
             /\ Record("finisher", Head(fin.pend).msg)
    <3>1. /\ fin'.on = fin.on /\ fin'.pend = Tail(fin.pend)
          /\ fin'.follow = fin.follow
      BY <1>0, <2>4 DEF FinishState
    <3>2. applied \cup {Head(fin.pend).msg} \subseteq applied'
      BY <2>4, RecordAccepts
    <3>3. Accepted \subseteq Accepted'
      BY <2>1, <2>2, <3>1, <3>2 DEF Accepted
    <3> QED BY <2>1, <3>1, <3>3 DEF KeptStep, InputInv
  <2> QED BY <1>3, <2>3, <2>4 DEF FinishPending
<1>4. CASE FinishEnd
  <2>1. /\ fin.pend = <<>> /\ UNCHANGED <<mail, held, human, applied>>
        /\ chan' = chan \o FollowUp(fin.follow)
    BY <1>4 DEF FinishEnd, sessionVars
  <2>2. Msgs(chan') = Msgs(chan) \cup Range(fin.follow)
    BY <1>0, <2>1, FollowUpFacts, MsgsConcat
  <2>3. \/ UNCHANGED turn
        \/ /\ turn'.st \in {"reserved", "idle"} /\ turn'.at = "none"
           /\ turn'.pend = <<>> /\ turn'.batch = <<>>
           /\ turn.pend = <<>> /\ turn.batch = <<>>
    <3>1. CASE turn.st = "finishing"
      <4>1. PICK st \in {"reserved", "idle"} : turn' = [NoTurn EXCEPT !.st = st]
        BY <1>4, <3>1 DEF FinishEnd
      <4> QED BY <3>1, <4>1 DEF NoTurn, InputInv
    <3>2. CASE turn.st # "finishing"
      BY <1>4, <3>2 DEF FinishEnd
    <3> QED BY <3>1, <3>2
  <2>4. fin'.pend = <<>> /\ fin'.follow = <<>>
    <3>1. CASE fin' = NoFin
      BY <3>1 DEF NoFin
    <3>2. CASE fin' = [fin EXCEPT !.start = TRUE] /\ fin.follow = <<>>
      BY <1>0, <2>1, <3>2 DEF FinishState
    <3> QED BY <1>4, <3>1, <3>2 DEF FinishEnd
  <2>5. Accepted \subseteq Accepted'
    BY <2>1, <2>2, <2>3, <2>4 DEF Accepted
  <2>6. InputInv'
    BY <2>1, <2>3, <2>4 DEF InputInv
  <2> QED BY <2>5, <2>6 DEF KeptStep
<1>5. CASE FinishStart
  <2>1. /\ turn.st # "aborting" /\ fin' = NoFin /\ mail' = <<>>
        /\ UNCHANGED <<chan, held, human, applied>>
        /\ fin.pend = <<>> /\ fin.follow = <<>>
    BY <1>5 DEF FinishStart, StartInv, loopVars
  <2>2. /\ turn'.st = "running" /\ turn'.at = "start" /\ turn'.batch = <<>>
        /\ Msgs(turn.pend) \cup Msgs(mail) \subseteq Msgs(turn'.pend)
        /\ Msgs(turn.batch) \subseteq thrown'
    <3>1. CASE ~Running
      <4>1. turn.pend = <<>> /\ turn.batch = <<>>
        BY <1>0, <2>1, <3>1 DEF TurnState, Running, InputInv
      <4>2. turn' = NewTurn(<<>>, mail, TRUE)
        BY <1>5, <3>1 DEF FinishStart
      <4>3. /\ turn'.st = "running" /\ turn'.at = "start" /\ turn'.batch = <<>>
            /\ turn'.pend = mail
        BY <4>2 DEF NewTurn, NoTurn
      <4> QED BY <4>1, <4>3, MsgsEmpty
    <3>2. CASE Running
      <4>1. /\ turn' = [turn EXCEPT !.at = "start", !.batch = <<>>, !.pend = @ \o mail,
                                     !.drain = TRUE, !.reqs = 0]
            /\ thrown' = thrown \cup Msgs(turn.batch)
        BY <1>5, <3>2 DEF FinishStart
      <4>2. /\ turn'.st = turn.st /\ turn'.at = "start" /\ turn'.batch = <<>>
            /\ turn'.pend = turn.pend \o mail
        BY <1>0, <4>1 DEF TurnState
      <4>3. turn.pend \in Seq(Item)
        BY <1>0 DEF TurnState
      <4>4. Msgs(turn.pend \o mail) = Msgs(turn.pend) \cup Msgs(mail)
        BY <1>0, <4>3, MsgsConcat
      <4> QED BY <3>2, <4>1, <4>2, <4>4 DEF Running
    <3> QED BY <3>1, <3>2
  <2>3. fin'.pend = <<>> /\ fin'.follow = <<>>
    BY <2>1 DEF NoFin
  <2>4. Accepted \subseteq Accepted'
    BY <2>1, <2>2, <2>3 DEF Accepted
  <2>5. InputInv'
    BY <2>1, <2>2, <2>3 DEF InputInv
  <2> QED BY <2>4, <2>5 DEF KeptStep
<1> QED BY <1>1, <1>2, <1>3, <1>4, <1>5 DEF Finisher

\* A task that is replaced loses nothing but what is on record as thrown away.
LEMMA AborterKeeps ==
    ASSUME Inv, CalmInv, InputInv, Aborter, thrown \subseteq thrown'
    PROVE  KeptStep
<1>0. turn \in TurnState /\ turn.st = "aborting"
  BY InvTurnTypes DEF TurnTypes, Aborter, AbortKill, AbortSettle, AbortEnd
<1>1. Msgs(turn.pend) \cup Msgs(turn.batch) \subseteq thrown
  BY <1>0 DEF InputInv
<1>2. CASE AbortKill \/ AbortSettle
  <2>1. UNCHANGED <<chan, mail, held, human, fin, applied>>
    BY <1>2 DEF AbortKill, AbortSettle, sessionVars, queueVars, loopVars
  <2>2. /\ turn'.st = turn.st /\ turn'.pend = turn.pend
        /\ turn'.batch = <<>> \/ (turn'.batch = turn.batch /\ turn'.at = turn.at)
    BY <1>0, <1>2 DEF AbortKill, AbortSettle, TurnState
  <2>3. Accepted \subseteq Accepted'
    BY <1>1, <2>1, <2>2 DEF Accepted
  <2>4. InputInv'
    BY <1>0, <1>1, <2>1, <2>2, MsgsEmpty DEF InputInv
  <2> QED BY <2>3, <2>4 DEF KeptStep
<1>3. CASE AbortEnd
  <2>1. UNCHANGED <<chan, held, human, fin, applied>>
    BY <1>3 DEF AbortEnd, sessionVars
  <2>2. NoTurn.pend = <<>> /\ NoTurn.batch = <<>> /\ NoTurn.st = "idle" /\ NoTurn.at = "none"
    BY DEF NoTurn
  <2>3. /\ turn' = NoTurn \/ (turn'.st = "running" /\ turn'.at = "start")
        /\ Msgs(mail) \subseteq Msgs(mail') \cup Msgs(turn'.pend) \cup Msgs(turn'.batch)
    <3>1. CASE StartPendingWork(mail, NoTurn)
      BY <2>2, <3>1, StartKeeps
    <3>2. CASE turn' = NoTurn /\ UNCHANGED mail
      BY <3>2
    <3> QED BY <1>3, <3>1, <3>2 DEF AbortEnd
  <2>4. Accepted \subseteq Accepted'
    BY <1>1, <2>1, <2>3 DEF Accepted
  <2>5. InputInv'
    BY <2>1, <2>2, <2>3 DEF InputInv
  <2> QED BY <2>4, <2>5 DEF KeptStep
<1> QED BY <1>2, <1>3 DEF Aborter

\* Every step keeps what the session has accepted.
LEMMA KeptNext ==
    ASSUME Inv, StartInv, CalmInv, InputInv, ~InputMayFail, [Next]_vars
    PROVE  KeptStep
<1>0. /\ turn \in TurnState /\ loaded /\ thrown \subseteq thrown'
      /\ turn.batch \in Seq(Item) /\ turn.pend \in Seq(Item)
  BY InvTurnTypes, ThrownGrows DEF TurnTypes, CalmInv
<1>1. CASE UNCHANGED <<chan, mail, held, turn, fin, human, applied>>
  <2>1. Accepted \subseteq Accepted'
    BY <1>0, <1>1 DEF Accepted
  <2> QED BY <1>0, <1>1, <2>1 DEF KeptStep, InputInv
<1>2. CASE \E c \in Callers : Load(c)
  BY <1>0, <1>1, <1>2 DEF Load, sessionVars, queueVars, turnVars, loopVars
<1>3. ASSUME NEW w \in Recorder, RecordStep(w) PROVE KeptStep
  <2>1. CASE Track(w)
    <3>1. UNCHANGED <<chan, mail, held, fin, human, applied>>
      BY <2>1 DEF Track, queueVars, loopVars
    <3>2. /\ turn'.st = turn.st /\ turn'.at = turn.at
          /\ turn'.pend = turn.pend /\ turn'.batch = turn.batch
      BY <1>0, <2>1 DEF Track, TurnState
    <3>3. Accepted \subseteq Accepted'
      BY <1>0, <3>1, <3>2 DEF Accepted
    <3> QED BY <1>0, <3>1, <3>2, <3>3 DEF KeptStep, InputInv
  <2>2. CASE Flush(w) \/ Acknowledge(w)
    BY <1>1, <2>2 DEF Flush, Acknowledge, queueVars, turnVars, loopVars
  <2> QED BY <1>3, <2>1, <2>2 DEF RecordStep
<1>4. CASE BackgroundWrite
  BY <1>1, <1>4 DEF BackgroundWrite, queueVars, turnVars, loopVars
<1>5. CASE Aborter
  BY <1>0, <1>5, AborterKeeps
<1>6. CASE Abort \/ Unload \/ Crash
  BY <1>6 DEF Abort, Unload, Crash, Spend, CalmInv
<1>7. CASE Task \/ Finisher
  BY <1>0, <1>7, TaskKeeps, FinisherKeeps
<1>8. CASE \/ \E c \in Callers : Send(c)
           \/ SessionLoop \/ CapacityWake \/ HumanTurn
  BY <1>0, <1>8, LoopKeeps
<1>9. CASE UNCHANGED vars
  BY <1>1, <1>9 DEF vars
<1>10. CASE Next
  <2>1. CASE /\ UNCHANGED <<queueVars, turn, fin, capWait, human>>
             /\ UNCHANGED <<loaded, applied, buffered, fresh, rec, rollout>>
    BY <1>1, <2>1 DEF queueVars
  <2> QED
    BY <1>2, <1>3, <1>4, <1>5, <1>6, <1>7, <1>8, <1>10, <2>1, TurnFrame, MemoryFrame
    DEF RecordStep, Task, Finisher, Aborter, SessionLoop
<1> QED BY <1>9, <1>10

\* Nobody asks the session to stop.
NoStop(q) == \A i \in 1..Len(q) : q[i].kind # "stop"

LEMMA NoStopFacts ==
    ASSUME NEW s \in Seq(Op), NoStop(s)
    PROVE  /\ s # <<>> => NoStop(Tail(s))
           /\ \A o \in Op : o.kind # "stop" => NoStop(Append(s, o))
           /\ \A r \in Seq(Op) : NoStop(r) => NoStop(s \o r)
<1>1. s # <<>> => NoStop(Tail(s))
  BY DEF NoStop
<1>2. ASSUME NEW o \in Op, o.kind # "stop" PROVE NoStop(Append(s, o))
  <2>1. /\ Len(s) \in Nat /\ Len(Append(s, o)) = Len(s) + 1
        /\ Append(s, o)[Len(s) + 1] = o
        /\ \A i \in 1..Len(s) : Append(s, o)[i] = s[i]
    BY AppendProperties, LenProperties
  <2> QED BY <1>2, <2>1 DEF NoStop
<1>3. ASSUME NEW r \in Seq(Op), NoStop(r) PROVE NoStop(s \o r)
  <2>1. /\ Len(s) \in Nat /\ Len(r) \in Nat /\ Len(s \o r) = Len(s) + Len(r)
        /\ \A i \in 1..(Len(s) + Len(r)) :
              (s \o r)[i] = IF i <= Len(s) THEN s[i] ELSE r[i - Len(s)]
    BY ConcatProperties, LenProperties
  <2>2. ASSUME NEW i \in 1..(Len(s) + Len(r))
        PROVE  i <= Len(s) \/ i - Len(s) \in 1..Len(r)
    BY <2>1
  <2> QED BY <1>3, <2>1, <2>2 DEF NoStop
<1> QED BY <1>1, <1>2, <1>3

LEMMA ChanStep ==
    ASSUME Inv, CalmInv, [Next]_vars
    PROVE  NoStop(chan')
<1>0. chan \in Seq(Op) /\ NoStop(chan) /\ fin.follow \in Seq(Msg)
  BY InvTurnTypes DEF TurnTypes, QueuesOK, CalmInv, NoStop
<1>1. CASE UNCHANGED chan
  BY <1>0, <1>1
<1>2. ASSUME NEW c \in Callers, Send(c) PROVE NoStop(chan')
  <2>1. /\ SentOp(c) \in Op /\ SentOp(c).kind # "stop"
        /\ chan' = IF loaded THEN Append(chan, SentOp(c)) ELSE chan
    BY <1>2, SendFacts
  <2> QED BY <1>0, <2>1, NoStopFacts
<1>3. CASE HandleMail \/ HandleWake
  BY <1>0, <1>3, NoStopFacts DEF HandleMail, HandleWake
<1>4. CASE CapacityWake
  <2> DEFINE op == [kind |-> "wake", msg |-> NoMsg, trig |-> FALSE]
  <2>1. op \in Op /\ op.kind # "stop"
    BY DEF Op
  <2>2. UNCHANGED chan \/ chan' = Append(chan, op)
    BY <1>4 DEF CapacityWake
  <2> HIDE DEF op
  <2> QED BY <1>0, <2>1, <2>2, NoStopFacts
<1>5. CASE Shutdown \/ Crash
  <2>1. chan' = <<>>
    BY <1>5 DEF Shutdown, Crash, DropSession
  <2> QED BY <2>1 DEF NoStop
<1>6. CASE Abort \/ Unload
  BY <1>6 DEF Abort, Unload, Spend, CalmInv
<1>7. CASE FinishEnd
  <2>1. UNCHANGED chan \/ chan' = chan \o FollowUp(fin.follow)
    BY <1>7 DEF FinishEnd
  <2>2. FollowUp(fin.follow) \in Seq(Op) /\ NoStop(FollowUp(fin.follow))
    BY <1>0, FollowUpFacts DEF NoStop
  <2> QED BY <1>0, <2>1, <2>2, NoStopFacts
<1>9. CASE HumanTurn \/ HumanDrain \/ HumanReplace \/ HumanStart \/ FinishStart
  BY <1>1, <1>9
  DEF HumanTurn, HumanDrain, HumanReplace, HumanStart, FinishStart, queueVars
<1>8. CASE \/ Task \/ Aborter
           \/ FinishSettle \/ FinishMarkReady \/ FinishPending
           \/ \E w \in Recorder : Track(w)
  BY <1>1, <1>8
  DEF Task, Setup, SetupFails, TakeInput, Drain, Sample,
      TaskError, Exit, Aborter, AbortKill, AbortSettle, AbortEnd, FinishSettle,
      FinishMarkReady, FinishPending, Track, queueVars
<1> QED
  BY <1>1, <1>2, <1>3, <1>4, <1>5, <1>6, <1>7, <1>8, <1>9, TurnFrame
  DEF SessionLoop, Finisher, queueVars, vars

LEMMA CalmStep ==
    ASSUME Inv, CalmInv, [Next]_vars
    PROVE  CalmInv'
<1>0. "crash" \in Event /\ "abort" \in Event /\ "unload" \in Event
  BY DEF Event
<1>1. \A e \in {"crash", "abort", "unload"} : budget'[e] = 0
  BY <1>0, SpentStaysSpent DEF CalmInv
<1>2. NoStop(chan')
  BY ChanStep
<1>3. ~Shutdown /\ ~Crash /\ ~Abort /\ ~Unload
  <2>1. ~Shutdown
    <3>1. SUFFICES ASSUME Shutdown PROVE FALSE
      OBVIOUS
    <3>2. chan # <<>> /\ Head(chan).kind = "stop" /\ chan \in Seq(Op)
      BY <3>1, InvTurnTypes DEF Shutdown, TurnTypes, QueuesOK
    <3>3. 1 \in 1..Len(chan) /\ Head(chan) = chan[1]
      BY <3>2, LenProperties, EmptySeq
    <3> QED BY <3>2, <3>3 DEF CalmInv
  <2> QED BY <2>1 DEF Crash, Abort, Unload, Spend, CalmInv
<1>4. loaded'
  <2>1. CASE UNCHANGED loaded
    BY <2>1 DEF CalmInv
  <2>2. CASE \E c \in Callers : Load(c)
    BY <2>1, <2>2 DEF Load, sessionVars
  <2>3. CASE TakeInput \/ FinishPending \/ FinishStart \/ Sample \/ AbortKill
             \/ BackgroundWrite
             \/ \E w \in Recorder : RecordStep(w)
    BY <2>1, <2>3
    DEF TakeInput, FinishPending, FinishStart, Sample, AbortKill, BackgroundWrite, RecordStep,
        Flush, Track, Acknowledge
  <2> QED BY <1>3, <2>1, <2>2, <2>3, MemoryFrame DEF vars
<1> QED BY <1>1, <1>2, <1>4 DEF CalmInv, NoStop

-----------------------------------------------------------------------------
(* A row says submitted only after the hand-over.                          *)

\* Only a caller that confirms its hand-over makes a row submitted.
LEMMA SubmittedStep ==
    ASSUME Inv, [Next]_vars, NEW m \in Msg, phase'[m] = "submitted"
    PROVE  \/ phase[m] = "submitted"
           \/ \E c \in Callers : Confirm(c) /\ call[c].cur = m
<1>0. phase \in [Msg -> Phase]
  BY DEF Inv, TypeOK, RowsOK
<1>1. CASE UNCHANGED phase
  BY <1>1
<1>2. ASSUME NEW n, NEW from, NEW to \in Phase \ {"submitted"},
             phase' = Transition(n, from, to)
      PROVE  phase[m] = "submitted"
  BY <1>0, <1>2, TransitionChanges
<1>3. ASSUME NEW c \in Callers, CallerStep(c)
      PROVE  phase[m] = "submitted" \/ (Confirm(c) /\ call[c].cur = m)
  <2>1. CASE Load(c) \/ LoadFails(c) \/ List(c) \/ RecoverEnd(c) \/ Send(c)
    BY <1>1, <2>1 DEF Load, LoadFails, List, RecoverEnd, Send, rowVars
  <2>2. CASE Recover(c)
    <3>1. PICK r \in call[c].todo :
             phase' = Transition(r.msg, r.phase, RecoveredPhase(r))
      BY <2>2 DEF Recover
    <3>2. r \in [msg : Msg, phase : Phase]
      BY <3>1 DEF Inv, TypeOK, CallsOK, CallState
    <3>3. RecoveredPhase(r) \in Phase \ {"submitted"}
      BY <3>2 DEF RecoveredPhase, Phase
    <3> QED BY <1>2, <3>1, <3>3
  <2>3. CASE Admit(c) \/ SendAdmit(c)
    <3>1. UNCHANGED phase \/ \E n : phase' = Transition(n, "absent", "admitted")
      BY <2>3 DEF Admit, SendAdmit, AdmitRow
    <3> QED BY <1>1, <1>2, <3>1 DEF Phase
  <2>4. CASE MakeReady(c) \/ SendReady(c) \/ Begin(c) \/ Revert(c)
    <3>1. \E n, from : \E to \in {"ready", "submitting"} : phase' = Transition(n, from, to)
      BY <2>4 DEF MakeReady, SendReady, Begin, Revert
    <3> QED BY <1>2, <3>1 DEF Phase
  <2>5. CASE Confirm(c)
    <3>1. phase' = Transition(call[c].cur, "submitting", "submitted")
      BY <2>5 DEF Confirm
    <3>2. phase'[m] = phase[m] \/ m = call[c].cur
      BY <1>0, <3>1, TransitionChanges DEF Phase
    <3> QED BY <2>5, <3>2
  <2> QED BY <1>3, <2>1, <2>2, <2>3, <2>4, <2>5 DEF CallerStep
<1>4. ASSUME NEW w \in Recorder, Acknowledge(w) PROVE phase[m] = "submitted"
  <2>1. \/ phase' = Transition(rec[w].msg, "submitted", "provider_running")
        \/ phase' = MarkCompleted(rec[w].msg)
    BY <1>4 DEF Acknowledge
  <2> QED BY <1>0, <1>2, <2>1, MarkCompletedChanges DEF Phase
<1>5. ASSUME NEW n, NEW natural \in BOOLEAN, phase' = SettledPhase(n, natural)
      PROVE  phase[m] = "submitted"
  BY <1>0, <1>5, SettledPhaseChanges DEF Final
<1>6. CASE FinishSettle \/ AbortSettle
  <2>1. fin.natural \in BOOLEAN /\ FALSE \in BOOLEAN
    BY DEF Inv, TypeOK, TurnOK, FinishState
  <2> QED BY <1>5, <1>6, <2>1 DEF FinishSettle, AbortSettle
<1>7. CASE Shutdown
  <2>1. phase'[m] = phase[m] \/ phase'[m] = SettledPhase(m, FALSE)[m]
    BY <1>7 DEF Shutdown
  <2>2. SettledPhase(m, FALSE)[m] = phase[m] \/ SettledPhase(m, FALSE)[m] \in Final
    BY <1>0, SettledPhaseChanges
  <2> QED BY <2>1, <2>2 DEF Final
<1> QED BY <1>1, <1>3, <1>4, <1>6, <1>7, PhaseFrame DEF vars

\* A caller waits to confirm only after it has sent.
LEMMA ConfirmStep ==
    ASSUME Inv, [Next]_vars, NEW c \in Callers, call'[c].pc = "confirm"
    PROVE  \/ call[c].pc = "confirm" /\ call'[c].cur = call[c].cur
           \/ Send(c) /\ loaded /\ call'[c].cur = call[c].cur
<1>0. call \in [Callers -> CallState]
  BY DEF Inv, TypeOK, CallsOK
<1>1. CASE UNCHANGED call
  BY <1>1
<1>2. CASE Crash
  <2>1. call'[c] = IdleCall
    BY <1>2 DEF Crash
  <2> QED BY <2>1 DEF IdleCall
<1>3. ASSUME NEW d \in Callers, d # c,
             Start(d) \/ Resume(d) \/ CallerStep(d) \/ Cancel(d)
      PROVE  call'[c] = call[c]
  <2>1. CASE Start(d) \/ Resume(d)
    BY <1>0, <1>3, <2>1 DEF Start, Resume
  <2>2. CASE CallerStep(d)
    BY <1>0, <1>3, <2>2
    DEF CallerStep, Admit, MakeReady, Load, LoadFails, List, Recover, RecoverEnd,
        SendAdmit, SendReady, Begin, Send, Confirm, Revert, Goto
  <2>3. CASE Cancel(d)
    BY <1>0, <1>3, <2>3 DEF Cancel, Goto
  <2> QED BY <1>3, <2>1, <2>2, <2>3
<1>4. ASSUME NEW pc, Goto(c, pc)
      PROVE  pc = "confirm" /\ call'[c].cur = call[c].cur
  <2>1. call[c] \in CallState
    BY <1>0
  <2>2. CASE pc \in {"done", "failed"}
    <3>1. call'[c] = [IdleCall EXCEPT !.pc = pc, !.msg = call[c].msg]
      BY <1>0, <1>4, <2>2 DEF Goto
    <3>2. call'[c].pc = pc
      BY <3>1 DEF IdleCall
    <3> QED BY <2>2, <3>2
  <2>3. CASE pc \notin {"done", "failed"}
    <3>1. call'[c] = [call[c] EXCEPT !.pc = pc]
      BY <1>0, <1>4, <2>3 DEF Goto
    <3> QED BY <2>1, <3>1 DEF CallState
  <2> QED BY <2>2, <2>3
<1>5. CASE Start(c) \/ Resume(c)
  <2>1. call'[c].pc \in {First(r) : r \in Route} \cup {"load"}
    BY <1>0, <1>5 DEF Start, Resume, IdleCall
  <2> QED BY <2>1 DEF First
<1>6. CASE Send(c)
  <2>1. (Goto(c, "confirm") /\ loaded) \/ Goto(c, "revert")
    BY <1>6 DEF Send
  <2> QED BY <1>4, <1>6, <2>1
<1>7. CASE \/ Admit(c) \/ MakeReady(c) \/ Load(c) \/ LoadFails(c) \/ Begin(c)
           \/ Confirm(c) \/ Revert(c) \/ Cancel(c)
  <2>1. \E pc \in {"failed", "make_ready", "list", "send", AfterAdmit(call[c].route),
                   AfterLoad(call[c].route), Return(c)} : Goto(c, pc)
    BY <1>7 DEF Admit, MakeReady, Load, LoadFails, Begin, Confirm, Revert, Cancel
  <2> QED BY <1>4, <2>1 DEF AfterAdmit, AfterLoad, Return
<1>8. CASE SendAdmit(c)
  <2>1. \/ \E pc \in {"failed", "begin", Return(c)} : Goto(c, pc)
        \/ \E b : call' = [call EXCEPT ![c].ins = b, ![c].pc = "send_ready"]
    BY <1>8 DEF SendAdmit
  <2>2. CASE \E pc \in {"failed", "begin", Return(c)} : Goto(c, pc)
    BY <1>4, <2>2 DEF Return
  <2>3. ASSUME NEW b, call' = [call EXCEPT ![c].ins = b, ![c].pc = "send_ready"]
        PROVE  FALSE
    BY <1>0, <2>3 DEF CallState
  <2> QED BY <2>1, <2>2, <2>3
<1>9. CASE SendReady(c)
  <2>1. PICK next \in {"begin", Return(c)} :
           call' = [call EXCEPT ![c].ins = FALSE, ![c].pc = next]
    BY <1>9 DEF SendReady
  <2>2. call'[c].pc = next
    BY <1>0, <2>1 DEF CallState
  <2> QED BY <2>2 DEF Return
<1>10. CASE List(c) \/ Recover(c)
  <2>0. call[c] \in CallState
    BY <1>0
  <2>1. CASE List(c)
    <3>1. PICK t : call' = [call EXCEPT ![c].pc = "recover", ![c].rec = TRUE, ![c].todo = t]
      BY <2>1 DEF List
    <3>2. call'[c].pc = "recover"
      BY <1>0, <2>0, <3>1 DEF CallState
    <3> QED BY <3>2
  <2>2. CASE Recover(c)
    <3>1. PICK r \in call[c].todo :
             call' = [call EXCEPT ![c].todo = @ \ {r}, ![c].cur = r.msg,
                         ![c].pc = IF RecoveredPhase(r) = "unknown_outcome"
                                   THEN "recover" ELSE "send_admit"]
      BY <2>2 DEF Recover
    <3>2. call'[c].pc = IF RecoveredPhase(r) = "unknown_outcome"
                        THEN "recover" ELSE "send_admit"
      BY <1>0, <2>0, <3>1 DEF CallState
    <3> QED BY <3>2
  <2> QED BY <1>10, <2>1, <2>2
<1>11. CASE RecoverEnd(c)
  <2>1. call'[c].pc = AfterLoad(call[c].route)
    BY <1>0, <1>11 DEF RecoverEnd, IdleCall
  <2> QED BY <2>1 DEF AfterLoad
<1>12. CASE CallerStep(c)
  BY <1>6, <1>7, <1>8, <1>9, <1>10, <1>11, <1>12 DEF CallerStep
<1>13. CASE \E d \in Callers : Start(d) \/ Resume(d) \/ CallerStep(d) \/ Cancel(d)
  BY <1>3, <1>5, <1>7, <1>12, <1>13
<1> QED BY <1>1, <1>2, <1>13, CallFrame DEF vars

\* What is handed over is in the session.
LEMMA HandoverStep ==
    ASSUME Inv, StartInv, CalmInv, InputInv, HandoverInv, ~InputMayFail, [Next]_vars
    PROVE  HandoverInv'
<1>0. Inv /\ HandoverInv /\ \A m \in Msg : m \in Accepted => m \in Accepted'
  BY KeptNext DEF KeptStep
<1>1. ASSUME NEW c \in Callers, call[c].pc = "confirm"
      PROVE  call[c].cur \in Msg /\ call[c].cur \in Accepted'
  BY <1>0, <1>1 DEF HandoverInv, Inv, CallInv
<1>2. ASSUME NEW m \in Msg, phase'[m] = "submitted"
      PROVE  m \in Accepted'
  <2>1. CASE phase[m] = "submitted"
    BY <1>0, <2>1 DEF HandoverInv
  <2>2. CASE \E c \in Callers : Confirm(c) /\ call[c].cur = m
    BY <1>1, <2>2 DEF Confirm
  <2> QED BY <1>0, <1>2, <2>1, <2>2, SubmittedStep
<1>3. ASSUME NEW c \in Callers, call'[c].pc = "confirm"
      PROVE  call'[c].cur \in Accepted'
  <2>1. CASE call[c].pc = "confirm" /\ call'[c].cur = call[c].cur
    BY <1>1, <2>1
  <2>2. CASE Send(c) /\ loaded /\ call'[c].cur = call[c].cur
    <3>1. /\ SentOp(c) \in Op /\ SentOp(c).msg = call[c].cur
          /\ chan' = Append(chan, SentOp(c))
      BY <1>0, <2>2, SendFacts
    <3>2. chan \in Seq(Op)
      BY <1>0, InvTurnTypes DEF TurnTypes, QueuesOK
    <3>3. call[c].cur \in Msgs(chan')
      BY <3>1, <3>2, MsgsAppend
    <3> QED BY <2>2, <3>3 DEF Accepted
  <2> QED BY <1>0, <1>3, <2>1, <2>2, ConfirmStep
<1> QED BY <1>2, <1>3 DEF HandoverInv

LEMMA KeptInvStep ==
    ASSUME KeptInv, ~InputMayFail, [Next]_vars
    PROVE  KeptInv'
<1>0. Inv /\ StartInv /\ CalmInv /\ InputInv /\ HandoverInv
  BY DEF KeptInv
<1>1. Inv' /\ StartInv' /\ CalmInv'
  BY <1>0, InvStep, StartStep, CalmStep
<1>2. InputInv'
  BY <1>0, KeptNext DEF KeptStep
<1>3. HandoverInv'
  BY <1>0, HandoverStep
<1> QED BY <1>1, <1>2, <1>3 DEF KeptInv

LEMMA KeptInit ==
    ASSUME Init, \A e \in {"crash", "abort", "unload"} : Budget[e] = 0
    PROVE  KeptInv
<1>1. Inv /\ StartInv
  BY InitInv DEF Init, StartInv, NoFin
<1>2. CalmInv
  <2>1. chan = <<>> /\ loaded /\ turn = NoTurn /\ budget = Budget
    BY DEF Init
  <2> QED BY <2>1 DEF CalmInv, NoTurn
<1>3. InputInv
  BY DEF Init, InputInv, NoTurn, NoFin, NoHuman
<1>4. HandoverInv
  BY DEF Init, HandoverInv, IdleCall
<1> QED BY <1>1, <1>2, <1>3, <1>4 DEF KeptInv

\* As long as nothing takes the session down or interrupts its task, and a turn
\* does not fail before it records its explicit input, a message whose
\* hand-over was confirmed is queued in the session or in its history: drains,
\* deferrals, failed turns, failed flushes and follow-ups lose none.  The one
\* exception is the input of a task that is thrown away because a human's turn
\* and the turn of a finisher were started over each other.
THEOREM AcceptedMessageIsKept ==
    /\ ~InputMayFail
    /\ \A e \in {"crash", "abort", "unload"} : Budget[e] = 0
    => (Spec => []AcceptedMailIsKept)
<1> SUFFICES ASSUME ~InputMayFail,
                    \A e \in {"crash", "abort", "unload"} : Budget[e] = 0
             PROVE  Spec => []AcceptedMailIsKept
  OBVIOUS
<1>1. Init => KeptInv
  BY KeptInit
<1>2. KeptInv /\ [Next]_vars => KeptInv'
  BY KeptInvStep
<1>3. KeptInv => AcceptedMailIsKept
  BY AcceptedIsWaiting DEF KeptInv, HandoverInv, AcceptedMailIsKept
<1> QED BY <1>1, <1>2, <1>3, PTL DEF Spec
==============================================================================
