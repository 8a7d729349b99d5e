------------------------ MODULE ExecutionSlotsProofs ------------------------
(***************************************************************************)
(* Proofs about ExecutionSlots, for every finite set of agents, every      *)
(* limit and every budget.  The limiter's counter is tied to the set of    *)
(* guards, a detached slot to its finisher, and the scheduled flag to the  *)
(* waiter; with these the properties TLC checks are inductive.             *)
(***************************************************************************)
EXTENDS ExecutionSlots, FiniteSetTheorems, TLAPS

\* A slot whose task is detached has a finisher that will clear it.
FinishersExist == \A a \in Agent : turn[a] = "detached" => fin[a] > 0

\* A reserved slot belongs to an attempt that is about to start its task.
ReservedIsStarting ==
    \A a \in Agent : turn[a] = "reserved" =>
        \E s \in Site : attempt[a][s] = "starting"

\* The scheduled flag says that a waiter exists.
ScheduledIsWaiting == \A a \in Agent : scheduled[a] <=> waiter[a] # "none"

\* A waiter that has seen a full pool and has not been notified since sees it
\* still, or a drop is about to notify it: NoLostWakeUp from the look on.
FullWasSeen ==
    \A a \in Agent : waiter[a] \in {"full", "parked"} /\ ~notified[a] =>
        active >= MaxThreads \/ dropping > 0

\* What ties the waiters, the attempts and the finishers together.
Watch ==
    /\ FinishersExist /\ ReservedIsStarting /\ ScheduledIsWaiting /\ FullWasSeen

Inv == TypeOK /\ ActiveIsExact /\ WorkersAreBounded /\ Watch

-----------------------------------------------------------------------------
(* Guards and their number.                                                *)

\* There are finitely many guards, before and after a step.
LEMMA GuardsAreFinite ==
    /\ IsFiniteSet(Guards) /\ IsFiniteSet(WorkerGuards)
    /\ IsFiniteSet(Guards') /\ IsFiniteSet(WorkerGuards')
    /\ WorkerGuards \subseteq Guards /\ WorkerGuards' \subseteq Guards'
<1>1. IsFiniteSet(Holder)
  <2>1. Holder = {"loop"} \cup {"finisher"} \cup {"turn"}
    BY DEF Holder, Site
  <2>2. IsFiniteSet({}) /\ \A S, x : IsFiniteSet(S) => IsFiniteSet(S \cup {x})
    BY FS_EmptySet, FS_AddElement
  <2>3. IsFiniteSet({} \cup {"loop"} \cup {"finisher"} \cup {"turn"})
    BY <2>2
  <2> QED BY <2>1, <2>3
<1>2. IsFiniteSet(Agent \X Holder)
  BY <1>1, FS_Product, SlotsAssumption
<1>3. /\ Guards \subseteq Agent \X Holder /\ Guards' \subseteq Agent \X Holder
      /\ WorkerGuards \subseteq Guards /\ WorkerGuards' \subseteq Guards'
  BY DEF Guards, WorkerGuards
<1> QED BY <1>2, <1>3, FS_Subset

\* Replacing an element keeps the number of elements.
LEMMA ElementReplaced ==
    ASSUME NEW S, IsFiniteSet(S), NEW x \in S, NEW y, y \notin S
    PROVE  Cardinality((S \ {x}) \cup {y}) = Cardinality(S)
<1>1. /\ IsFiniteSet(S \ {x})
      /\ Cardinality(S \ {x}) = Cardinality(S) - 1
  BY FS_RemoveElement
<1>2. Cardinality((S \ {x}) \cup {y}) = Cardinality(S \ {x}) + 1
  BY <1>1, FS_AddElement
<1>3. Cardinality(S) \in Nat
  BY FS_CardinalityType
<1> QED BY <1>1, <1>2, <1>3

\* A step that adds a guard adds one to the exact count.
LEMMA GuardTaken ==
    ASSUME TypeOK, ActiveIsExact, NEW g, g \notin Guards,
           Guards' = Guards \cup {g}, active' = active + 1
    PROVE  ActiveIsExact' /\ active' \in Nat
<1>1. Cardinality(Guards \cup {g}) = Cardinality(Guards) + 1
  BY GuardsAreFinite, FS_AddElement
<1> QED BY <1>1 DEF TypeOK, ActiveIsExact

\* A step that drops a guard subtracts one, and there was one to drop.
LEMMA GuardDropped ==
    ASSUME TypeOK, ActiveIsExact, NEW g \in Guards,
           Guards' = Guards \ {g}, active' = active - 1
    PROVE  ActiveIsExact' /\ active' \in Nat
<1>1. Cardinality(Guards \ {g}) = Cardinality(Guards) - 1
  BY GuardsAreFinite, FS_RemoveElement
<1>2. Cardinality(Guards \ {g}) \in Nat
  BY GuardsAreFinite, FS_CardinalityType, FS_RemoveElement
<1> QED BY <1>1, <1>2 DEF TypeOK, ActiveIsExact

\* Guards that are only dropped or kept keep the workers within the limit.
LEMMA WorkersShrink ==
    ASSUME WorkersAreBounded, WorkerGuards' \subseteq WorkerGuards
    PROVE  WorkersAreBounded'
<1>1. /\ Cardinality(WorkerGuards') <= Cardinality(WorkerGuards)
      /\ Cardinality(WorkerGuards') \in Nat /\ Cardinality(WorkerGuards) \in Nat
  BY GuardsAreFinite, FS_Subset, FS_CardinalityType
<1> QED BY <1>1, SlotsAssumption DEF WorkersAreBounded

\* Exactness and the bound survive steps that move no guard.
LEMMA GuardsUnchanged ==
    ASSUME TypeOK, ActiveIsExact, WorkersAreBounded, active' = active,
           \A a \in Agent : /\ Running(a)' <=> Running(a)
                            /\ turn'[a] = "worker" <=> turn[a] = "worker",
           \A a \in Agent, s \in Site :
              HasGuard(a, s)' <=> HasGuard(a, s)
    PROVE  ActiveIsExact' /\ WorkersAreBounded'
<1>1. \A a \in Agent, h \in Holder : Holds(a, h)' <=> Holds(a, h)
  BY DEF Holds, Holder
<1>2. Guards' = Guards
  BY <1>1 DEF Guards
<1>3. WorkerGuards' = WorkerGuards
  BY <1>2 DEF WorkerGuards, Guards
<1> QED BY <1>2, <1>3 DEF ActiveIsExact, WorkersAreBounded

\* When one running turn stops and nothing else moves, one guard is dropped.
LEMMA TurnGuardDropped ==
    ASSUME TypeOK, ActiveIsExact, WorkersAreBounded, NEW a \in Agent,
           Running(a), active' = active - 1,
           \E t \in {"none", "detached"} : turn' = [turn EXCEPT ![a] = t],
           \A b \in Agent, s \in Site :
              HasGuard(b, s)' <=> HasGuard(b, s)
    PROVE  active' \in Nat /\ ActiveIsExact' /\ WorkersAreBounded'
<1>1. \A b \in Agent, h \in Holder :
         Holds(b, h)' <=> Holds(b, h) /\ <<b, h>> # <<a, "turn">>
  BY DEF Holds, HasGuard, Holder, Site, Running, TypeOK
<1>2. Guards' = Guards \ {<<a, "turn">>}
  BY <1>1 DEF Guards
<1>3. <<a, "turn">> \in Guards
  BY DEF Guards, Holds, Holder
<1>4. WorkerGuards' \subseteq WorkerGuards
  <2> SUFFICES ASSUME NEW g \in WorkerGuards' PROVE g \in WorkerGuards
    OBVIOUS
  <2>1. g \in Guards /\ g # <<a, "turn">> /\ g[1] \in Agent /\ g = <<g[1], g[2]>>
    BY <1>2 DEF WorkerGuards, Guards
  <2>2. g[2] = "turn" => g[1] # a /\ turn'[g[1]] = "worker"
    BY <2>1 DEF WorkerGuards
  <2> QED BY <2>1, <2>2 DEF WorkerGuards, TypeOK
<1> QED BY <1>2, <1>3, <1>4, GuardDropped, WorkersShrink

-----------------------------------------------------------------------------
(* One lemma per action.                                                   *)

LEMMA MailArrivesInv ==
    ASSUME Inv, NEW a \in Agent, MailArrives(a) PROVE Inv'
<1> USE DEF MailArrives, Goto, Spend, poolVars, waitVars
<1>1. TypeOK'
  BY DEF Inv, TypeOK, Event, Site
<1>2. ActiveIsExact' /\ WorkersAreBounded'
  BY GuardsUnchanged DEF Inv, TypeOK, Running, HasGuard, Site
<1>3. Watch'
  BY DEF Inv, TypeOK, Watch, FinishersExist, ReservedIsStarting,
         ScheduledIsWaiting, FullWasSeen, Site
<1> QED BY <1>1, <1>2, <1>3 DEF Inv

LEMMA HandleWakeInv ==
    ASSUME Inv, NEW a \in Agent, HandleWake(a) PROVE Inv'
<1> USE DEF HandleWake, Goto, poolVars
<1>1. TypeOK'
  BY DEF Inv, TypeOK, Site
<1>2. ActiveIsExact' /\ WorkersAreBounded'
  BY GuardsUnchanged DEF Inv, TypeOK, Running, HasGuard, Site
<1>3. Watch'
  BY DEF Inv, TypeOK, Watch, FinishersExist, ReservedIsStarting,
         ScheduledIsWaiting, FullWasSeen, Site
<1> QED BY <1>1, <1>2, <1>3 DEF Inv

LEMMA CheckMailInv ==
    ASSUME Inv, NEW a \in Agent, NEW s \in Site, CheckMail(a, s) PROVE Inv'
<1> USE DEF CheckMail, Goto, poolVars, waitVars
<1>1. TypeOK'
  BY DEF Inv, TypeOK
<1>2. ActiveIsExact' /\ WorkersAreBounded'
  BY GuardsUnchanged DEF Inv, TypeOK, Running, HasGuard
<1>3. Watch'
  BY DEF Inv, TypeOK, Watch, FinishersExist, ReservedIsStarting,
         ScheduledIsWaiting, FullWasSeen
<1> QED BY <1>1, <1>2, <1>3 DEF Inv

LEMMA TryGuardInv ==
    ASSUME Inv, NEW a \in Agent, NEW s \in Site, TryGuard(a, s) PROVE Inv'
<1> USE DEF TryGuard, Goto, waitVars
<1>1. TypeOK'
  <2>1. PICK pc \in {"granted", "denied"} : attempt' = [attempt EXCEPT ![a][s] = pc]
    OBVIOUS
  <2>2. active' \in Nat
    BY DEF Inv, TypeOK
  <2> QED BY <2>1, <2>2 DEF Inv, TypeOK
<1>2. ASSUME active < MaxThreads, active' = active + 1, Goto(a, s, "granted")
      PROVE  ActiveIsExact' /\ WorkersAreBounded'
  <2>1. \A b \in Agent, h \in Holder :
           Holds(b, h)' <=> Holds(b, h) \/ <<b, h>> = <<a, s>>
    BY <1>2 DEF Inv, TypeOK, Holds, HasGuard, Holder, Site, Running
  <2>2. Guards' = Guards \cup {<<a, s>>}
    BY <2>1 DEF Guards, Holder
  <2>3. <<a, s>> \notin Guards
    BY DEF Guards, Holds, HasGuard, Site
  <2>4. ActiveIsExact'
    BY <1>2, <2>2, <2>3, GuardTaken DEF Inv
  <2>5. /\ Cardinality(WorkerGuards') <= Cardinality(Guards')
        /\ Cardinality(WorkerGuards') \in Nat /\ Cardinality(Guards') \in Nat
    BY GuardsAreFinite, FS_Subset, FS_CardinalityType
  <2>6. WorkersAreBounded'
    BY <1>2, <2>4, <2>5, SlotsAssumption DEF ActiveIsExact, WorkersAreBounded, Inv, TypeOK
  <2> QED BY <2>4, <2>6
<1>3. ASSUME Goto(a, s, "denied"), UNCHANGED active
      PROVE  ActiveIsExact' /\ WorkersAreBounded'
  BY <1>3, GuardsUnchanged DEF Inv, TypeOK, Running, HasGuard
<1>4. Watch'
  <2>1. PICK pc \in {"granted", "denied"} : attempt' = [attempt EXCEPT ![a][s] = pc]
    OBVIOUS
  <2>2. /\ attempt'[a][s] = pc
        /\ \A b \in Agent, h \in Site :
              <<b, h>> # <<a, s>> => attempt'[b][h] = attempt[b][h]
    BY <2>1 DEF Inv, TypeOK
  <2>3. FinishersExist' /\ ScheduledIsWaiting'
    BY DEF Inv, TypeOK, Watch, FinishersExist, ScheduledIsWaiting
  <2>4. FullWasSeen'
    BY SlotsAssumption DEF Inv, TypeOK, Watch, FullWasSeen
  <2>5. ReservedIsStarting'
    <3>1. \A b \in Agent, h \in Site :
             attempt[b][h] = "starting" => attempt'[b][h] = "starting"
      BY <2>2
    <3> QED BY <3>1 DEF Inv, Watch, ReservedIsStarting
  <2> QED BY <2>3, <2>4, <2>5 DEF Watch
<1> QED BY <1>1, <1>2, <1>3, <1>4 DEF Inv

LEMMA ScheduleWaitInv ==
    ASSUME Inv, NEW a \in Agent, NEW s \in Site, ScheduleWait(a, s) PROVE Inv'
<1> USE DEF ScheduleWait, Goto, poolVars
<1>1. TypeOK'
  BY DEF Inv, TypeOK
<1>2. ActiveIsExact' /\ WorkersAreBounded'
  BY GuardsUnchanged DEF Inv, TypeOK, Running, HasGuard
<1>3. Watch'
  BY DEF Inv, TypeOK, Watch, FinishersExist, ReservedIsStarting,
         ScheduledIsWaiting, FullWasSeen
<1> QED BY <1>1, <1>2, <1>3 DEF Inv

LEMMA ReserveTurnInv ==
    ASSUME Inv, NEW a \in Agent, NEW s \in Site, ReserveTurn(a, s) PROVE Inv'
<1> USE DEF ReserveTurn, Goto, DropGuard, poolVars, waitVars
<1>1. <<a, s>> \in Guards
  BY DEF Guards, Holds, HasGuard, Holder, Site
<1>2. ASSUME turn[a] = "none", turn' = [turn EXCEPT ![a] = "reserved"],
             Goto(a, s, "starting"), UNCHANGED poolVars
      PROVE  active' \in Nat /\ ActiveIsExact' /\ WorkersAreBounded'
  BY <1>2, GuardsUnchanged DEF Inv, TypeOK, Running, HasGuard
<1>3. ASSUME turn[a] # "none", Goto(a, s, "idle"), DropGuard, UNCHANGED turn
      PROVE  active' \in Nat /\ ActiveIsExact' /\ WorkersAreBounded'
  <2>1. \A b \in Agent, h \in Holder :
           Holds(b, h)' <=> Holds(b, h) /\ <<b, h>> # <<a, s>>
    BY <1>3 DEF Inv, TypeOK, Holds, HasGuard, Holder, Site, Running
  <2>2. Guards' = Guards \ {<<a, s>>}
    BY <2>1 DEF Guards
  <2>3. WorkerGuards' \subseteq WorkerGuards
    BY <1>3, <2>2 DEF WorkerGuards
  <2> QED BY <1>1, <1>3, <2>2, <2>3, GuardDropped, WorkersShrink DEF Inv
<1>4. active' \in Nat /\ ActiveIsExact' /\ WorkersAreBounded'
  BY <1>2, <1>3
<1>5. TypeOK'
  <2>1. PICK pc \in {"starting", "idle"} : attempt' = [attempt EXCEPT ![a][s] = pc]
    OBVIOUS
  <2>2. /\ turn' \in [Agent -> {"none", "reserved", "worker", "human", "detached"}]
        /\ dropping' \in Nat
    <3>1. turn' = [turn EXCEPT ![a] = "reserved"] \/ turn' = turn
      OBVIOUS
    <3>2. dropping' = dropping \/ dropping' = dropping + 1
      OBVIOUS
    <3> HIDE DEF ReserveTurn, Goto, DropGuard
    <3>3. dropping' \in Nat
      BY <3>2 DEF Inv, TypeOK
    <3>4. ASSUME turn' = [turn EXCEPT ![a] = "reserved"]
          PROVE  turn' \in [Agent -> {"none", "reserved", "worker", "human",
                                     "detached"}]
      BY <3>4 DEF Inv, TypeOK
    <3> QED BY <3>1, <3>3, <3>4 DEF Inv, TypeOK
  <2>3. attempt' \in [Agent -> [Site -> {"idle", "check", "try", "denied",
                                        "granted", "starting", "human"}]]
    <3> HIDE DEF ReserveTurn, Goto, DropGuard
    <3> QED BY <2>1 DEF Inv, TypeOK
  <2> QED BY <1>4, <2>2, <2>3 DEF Inv, TypeOK
<1>6. Watch'
  <2>1. PICK pc \in {"starting", "idle"} : attempt' = [attempt EXCEPT ![a][s] = pc]
    OBVIOUS
  <2>2. /\ attempt'[a][s] = pc
        /\ \A b \in Agent, h \in Site :
              <<b, h>> # <<a, s>> => attempt'[b][h] = attempt[b][h]
    BY <2>1 DEF Inv, TypeOK
  <2>3. FinishersExist' /\ ScheduledIsWaiting'
    BY DEF Inv, TypeOK, Watch, FinishersExist, ScheduledIsWaiting
  <2>4. FullWasSeen'
    BY SlotsAssumption DEF Inv, TypeOK, Watch, FullWasSeen
  <2>5. ReservedIsStarting'
    <3> SUFFICES ASSUME NEW b \in Agent, turn'[b] = "reserved"
                 PROVE  \E h \in Site : attempt'[b][h] = "starting"
      BY DEF ReservedIsStarting
    <3>1. CASE b = a /\ turn[a] = "none"
      <4>1. attempt'[a][s] = "starting"
        BY <3>1 DEF Inv, TypeOK
      <4> QED BY <3>1, <4>1
    <3>2. CASE ~(b = a /\ turn[a] = "none")
      <4>1. turn[b] = "reserved"
        BY <3>2 DEF Inv, TypeOK
      <4>2. PICK h \in Site : attempt[b][h] = "starting"
        BY <4>1 DEF Inv, Watch, ReservedIsStarting
      <4>3. <<b, h>> # <<a, s>>
        BY <4>2
      <4> QED BY <2>2, <4>2, <4>3
    <3> QED BY <3>1, <3>2
  <2> QED BY <2>3, <2>4, <2>5 DEF Watch
<1> QED BY <1>4, <1>5, <1>6 DEF Inv

LEMMA StartTaskInv ==
    ASSUME Inv, NEW a \in Agent, NEW s \in Site, StartTask(a, s) PROVE Inv'
<1> USE DEF StartTask, Goto, DropGuard, poolVars, waitVars
<1> DEFINE t == <<a, "turn">>
<1>1. <<a, s>> \in Guards /\ <<a, s>> # t
  BY DEF Guards, Holds, HasGuard, Holder, Site
<1>2. \A b \in Agent, h \in Holder :
         Holds(b, h)' <=> (Holds(b, h) /\ <<b, h>> # <<a, s>>) \/ <<b, h>> = t
  BY DEF Inv, TypeOK, Holds, HasGuard, Holder, Site, Running
<1>3. Guards' = (Guards \ {<<a, s>>}) \cup {t}
  BY <1>2 DEF Guards, Holder
<1>4. WorkerGuards' = (WorkerGuards \ {<<a, s>>}) \cup {t}
  <2>1. \A g \in Guards : g[1] \in Agent /\ g = <<g[1], g[2]>>
    BY DEF Guards
  <2>2. \A g \in Guards : g # t /\ g[2] = "turn" => turn'[g[1]] = turn[g[1]]
    BY <2>1 DEF Inv, TypeOK
  <2>3. t[2] = "turn" /\ turn'[t[1]] = "worker"
    BY DEF Inv, TypeOK
  <2> QED BY <1>3, <2>2, <2>3 DEF WorkerGuards
<1>5. <<a, s>> \in WorkerGuards
  BY <1>1 DEF WorkerGuards, Site
<1>6. WorkersAreBounded'
  <2>1. CASE t \in WorkerGuards
    BY <1>4, <2>1, WorkersShrink DEF Inv
  <2>2. CASE t \notin WorkerGuards
    <3>1. Cardinality(WorkerGuards') = Cardinality(WorkerGuards)
      BY <1>4, <1>5, <2>2, GuardsAreFinite, ElementReplaced
    <3> QED BY <3>1 DEF Inv, WorkersAreBounded
  <2> QED BY <2>1, <2>2
<1>7. active' \in Nat /\ ActiveIsExact'
  <2>1. CASE Running(a)
    <3>1. active' = active - 1
      BY <2>1
    <3>2. Guards' = Guards \ {<<a, s>>}
      BY <1>1, <1>3, <2>1 DEF Guards, Holds, Holder
    <3> QED BY <1>1, <3>1, <3>2, GuardDropped DEF Inv
  <2>2. CASE ~Running(a)
    <3>1. active' = active /\ t \notin Guards
      BY <2>2 DEF Guards, Holds
    <3>2. Cardinality(Guards') = Cardinality(Guards)
      BY <1>1, <1>3, <3>1, GuardsAreFinite, ElementReplaced
    <3> QED BY <3>1, <3>2 DEF Inv, TypeOK, ActiveIsExact
  <2> QED BY <2>1, <2>2
<1>8. TypeOK'
  <2>1. dropping' \in Nat
    BY DEF Inv, TypeOK
  <2>2. /\ attempt' \in [Agent -> [Site -> {"idle", "check", "try", "denied",
                                           "granted", "starting", "human"}]]
        /\ turn' \in [Agent -> {"none", "reserved", "worker", "human", "detached"}]
        /\ mail' \in [Agent -> Nat]
    BY DEF Inv, TypeOK
  <2> QED BY <1>7, <2>1, <2>2 DEF Inv, TypeOK
<1>9. Watch'
  BY SlotsAssumption DEF Inv, TypeOK, Watch, FinishersExist, ReservedIsStarting,
         ScheduledIsWaiting, FullWasSeen
<1> QED BY <1>6, <1>7, <1>8, <1>9 DEF Inv

LEMMA HumanTurnInv ==
    ASSUME Inv, NEW a \in Agent, HumanTurn(a) PROVE Inv'
<1> USE DEF HumanTurn, Goto, Spend, poolVars, waitVars
<1>1. TypeOK'
  BY DEF Inv, TypeOK, Event, Site
<1>2. ActiveIsExact' /\ WorkersAreBounded'
  BY GuardsUnchanged DEF Inv, TypeOK, Running, HasGuard, Site
<1>3. Watch'
  BY DEF Inv, TypeOK, Watch, FinishersExist, ReservedIsStarting,
         ScheduledIsWaiting, FullWasSeen, Site
<1> QED BY <1>1, <1>2, <1>3 DEF Inv

LEMMA HumanStartInv ==
    ASSUME Inv, NEW a \in Agent, HumanStart(a) PROVE Inv'
<1> USE DEF HumanStart, Goto, waitVars
<1> DEFINE t == <<a, "turn">>
<1>1. TypeOK'
  <2>1. active' \in Nat /\ dropping' \in Nat
    BY DEF Inv, TypeOK
  <2>2. /\ turn' \in [Agent -> {"none", "reserved", "worker", "human", "detached"}]
        /\ mail' \in [Agent -> Nat]
        /\ attempt' \in [Agent -> [Site -> {"idle", "check", "try", "denied",
                                           "granted", "starting", "human"}]]
    BY DEF Inv, TypeOK, Site
  <2> QED BY <2>1, <2>2 DEF Inv, TypeOK
<1>2. \A b \in Agent, h \in Holder :
         Holds(b, h)' <=> Holds(b, h) \/ <<b, h>> = t
  BY DEF Inv, TypeOK, Holds, HasGuard, Holder, Site, Running
<1>3. Guards' = Guards \cup {t}
  BY <1>2 DEF Guards, Holder
<1>4. ActiveIsExact'
  <2>1. CASE Running(a)
    <3>1. Guards' = Guards /\ active' = active
      BY <1>3, <2>1 DEF Guards, Holds, Holder
    <3> QED BY <3>1 DEF Inv, ActiveIsExact
  <2>2. CASE ~Running(a)
    <3>1. t \notin Guards /\ active' = active + 1
      BY <2>2 DEF Guards, Holds
    <3> QED BY <1>3, <3>1, GuardTaken DEF Inv
  <2> QED BY <2>1, <2>2
<1>6. WorkerGuards' \subseteq WorkerGuards
  <2> SUFFICES ASSUME NEW g \in WorkerGuards' PROVE g \in WorkerGuards
    OBVIOUS
  <2>1. g # t
    BY DEF WorkerGuards, Inv, TypeOK
  <2>2. g \in Guards /\ g[1] \in Agent /\ g = <<g[1], g[2]>>
    BY <1>3, <2>1 DEF WorkerGuards, Guards
  <2>3. g[2] = "turn" => g[1] # a /\ turn'[g[1]] = "worker"
    BY <2>1, <2>2 DEF WorkerGuards
  <2> QED BY <2>2, <2>3 DEF WorkerGuards, Inv, TypeOK
<1>7. Watch'
  <2>1. \A b \in Agent, s \in Site :
           attempt[b][s] = "starting" => attempt'[b][s] = "starting"
    BY DEF Inv, TypeOK, Site
  <2>2. FinishersExist' /\ ReservedIsStarting' /\ ScheduledIsWaiting'
    BY <2>1 DEF Inv, TypeOK, Watch, FinishersExist, ReservedIsStarting,
                ScheduledIsWaiting
  <2>3. FullWasSeen'
    BY SlotsAssumption DEF Inv, TypeOK, Watch, FullWasSeen
  <2> QED BY <2>2, <2>3 DEF Watch
<1> QED BY <1>1, <1>4, <1>6, <1>7, WorkersShrink DEF Inv

LEMMA TakeMailInv ==
    ASSUME Inv, NEW a \in Agent, TakeMail(a) PROVE Inv'
<1> USE DEF TakeMail, poolVars, waitVars
<1>1. TypeOK'
  BY DEF Inv, TypeOK
<1>2. ActiveIsExact' /\ WorkersAreBounded'
  BY GuardsUnchanged DEF Inv, TypeOK, Running, HasGuard
<1>3. Watch'
  BY DEF Inv, TypeOK, Watch, FinishersExist, ReservedIsStarting,
         ScheduledIsWaiting, FullWasSeen, Running
<1> QED BY <1>1, <1>2, <1>3 DEF Inv

LEMMA TurnEndsInv ==
    ASSUME Inv, NEW a \in Agent, TurnEnds(a) PROVE Inv'
<1> USE DEF TurnEnds, DropGuard, waitVars
<1>1. active' \in Nat /\ ActiveIsExact' /\ WorkersAreBounded'
  BY TurnGuardDropped DEF Inv, HasGuard
<1>2. TypeOK'
  BY <1>1 DEF Inv, TypeOK
<1>3. Watch'
  BY SlotsAssumption DEF Inv, TypeOK, Watch, FinishersExist, ReservedIsStarting,
         ScheduledIsWaiting, FullWasSeen
<1> QED BY <1>1, <1>2, <1>3 DEF Inv

LEMMA FinishClearsInv ==
    ASSUME Inv, NEW a \in Agent, FinishClears(a) PROVE Inv'
<1> USE DEF FinishClears, Goto, poolVars, waitVars
<1>1. TypeOK'
  <2>1. fin[a] > 0
    BY DEF Inv, Watch, FinishersExist
  <2> QED BY <2>1 DEF Inv, TypeOK, Site
<1>2. ActiveIsExact' /\ WorkersAreBounded'
  BY GuardsUnchanged DEF Inv, TypeOK, Running, HasGuard, Site
<1>3. Watch'
  BY DEF Inv, TypeOK, Watch, FinishersExist, ReservedIsStarting,
         ScheduledIsWaiting, FullWasSeen, Site
<1> QED BY <1>1, <1>2, <1>3 DEF Inv

LEMMA FinishReplacedInv ==
    ASSUME Inv, NEW a \in Agent, FinishReplaced(a) PROVE Inv'
<1> USE DEF FinishReplaced, poolVars, waitVars
<1>1. TypeOK'
  BY DEF Inv, TypeOK
<1>2. ActiveIsExact' /\ WorkersAreBounded'
  BY GuardsUnchanged DEF Inv, TypeOK, Running, HasGuard
<1>3. Watch'
  BY DEF Inv, TypeOK, Watch, FinishersExist, ReservedIsStarting,
         ScheduledIsWaiting, FullWasSeen
<1> QED BY <1>1, <1>2, <1>3 DEF Inv

LEMMA InterruptInv ==
    ASSUME Inv, NEW a \in Agent, Interrupt(a) PROVE Inv'
<1> USE DEF Interrupt, DropGuard, Goto, Spend, waitVars
<1>1. active' \in Nat /\ ActiveIsExact' /\ WorkersAreBounded'
  <2>1. \A b \in Agent, s \in Site :
           HasGuard(b, s)' <=> HasGuard(b, s)
    BY DEF Inv, TypeOK, Site, HasGuard
  <2> QED BY <2>1, TurnGuardDropped DEF Inv
<1>2. TypeOK'
  BY <1>1 DEF Inv, TypeOK, Site, Event
<1>3. Watch'
  BY SlotsAssumption DEF Inv, TypeOK, Watch, FinishersExist, ReservedIsStarting,
         ScheduledIsWaiting, FullWasSeen, Site
<1> QED BY <1>1, <1>2, <1>3 DEF Inv

LEMMA InterruptEmptyInv ==
    ASSUME Inv, NEW a \in Agent, InterruptEmpty(a) PROVE Inv'
<1> USE DEF InterruptEmpty, Spend, poolVars, waitVars
<1>1. TypeOK'
  BY DEF Inv, TypeOK, Event
<1>2. ActiveIsExact' /\ WorkersAreBounded'
  BY GuardsUnchanged DEF Inv, TypeOK, Running, HasGuard
<1>3. Watch'
  BY DEF Inv, TypeOK, Watch, FinishersExist, ReservedIsStarting,
         ScheduledIsWaiting, FullWasSeen
<1> QED BY <1>1, <1>2, <1>3 DEF Inv

LEMMA NotifyWaitersInv ==
    ASSUME Inv, NotifyWaiters PROVE Inv'
<1> USE DEF NotifyWaiters
<1>1. TypeOK'
  BY DEF Inv, TypeOK
<1>2. ActiveIsExact' /\ WorkersAreBounded'
  BY GuardsUnchanged DEF Inv, TypeOK, Running, HasGuard
<1>3. Watch'
  BY DEF Inv, TypeOK, Watch, FinishersExist, ReservedIsStarting,
         ScheduledIsWaiting, FullWasSeen
<1> QED BY <1>1, <1>2, <1>3 DEF Inv

LEMMA EnrollInv ==
    ASSUME Inv, NEW a \in Agent, Enroll(a) PROVE Inv'
<1> USE DEF Enroll, poolVars
<1>1. TypeOK'
  BY DEF Inv, TypeOK
<1>2. ActiveIsExact' /\ WorkersAreBounded'
  BY GuardsUnchanged DEF Inv, TypeOK, Running, HasGuard
<1>3. Watch'
  BY DEF Inv, TypeOK, Watch, FinishersExist, ReservedIsStarting,
         ScheduledIsWaiting, FullWasSeen
<1> QED BY <1>1, <1>2, <1>3 DEF Inv

LEMMA LookInv ==
    ASSUME Inv, NEW a \in Agent, Look(a) PROVE Inv'
<1> USE DEF Look, poolVars
<1>1. TypeOK'
  BY DEF Inv, TypeOK
<1>2. ActiveIsExact' /\ WorkersAreBounded'
  BY GuardsUnchanged DEF Inv, TypeOK, Running, HasGuard
<1>3. Watch'
  <2>1. FinishersExist' /\ ScheduledIsWaiting' /\ FullWasSeen'
    BY DEF Inv, TypeOK, Watch, FinishersExist, ScheduledIsWaiting, FullWasSeen
  <2>2. ReservedIsStarting'
    BY DEF Inv, TypeOK, Watch, ReservedIsStarting
  <2> QED BY <2>1, <2>2 DEF Watch
<1> QED BY <1>1, <1>2, <1>3 DEF Inv

LEMMA ParkInv ==
    ASSUME Inv, NEW a \in Agent, Park(a) PROVE Inv'
<1> USE DEF Park, poolVars
<1>1. TypeOK'
  BY DEF Inv, TypeOK
<1>2. ActiveIsExact' /\ WorkersAreBounded'
  BY GuardsUnchanged DEF Inv, TypeOK, Running, HasGuard
<1>3. Watch'
  BY DEF Inv, TypeOK, Watch, FinishersExist, ReservedIsStarting,
         ScheduledIsWaiting, FullWasSeen
<1> QED BY <1>1, <1>2, <1>3 DEF Inv

LEMMA FinishWaitInv ==
    ASSUME Inv, NEW a \in Agent, FinishWait(a) PROVE Inv'
<1> USE DEF FinishWait, poolVars
<1>1. TypeOK'
  BY DEF Inv, TypeOK
<1>2. ActiveIsExact' /\ WorkersAreBounded'
  BY GuardsUnchanged DEF Inv, TypeOK, Running, HasGuard
<1>3. Watch'
  BY DEF Inv, TypeOK, Watch, FinishersExist, ReservedIsStarting,
         ScheduledIsWaiting, FullWasSeen
<1> QED BY <1>1, <1>2, <1>3 DEF Inv

LEMMA SubmitWakeInv ==
    ASSUME Inv, NEW a \in Agent, SubmitWake(a) PROVE Inv'
<1> USE DEF SubmitWake, poolVars
<1>1. TypeOK'
  BY DEF Inv, TypeOK
<1>2. ActiveIsExact' /\ WorkersAreBounded'
  BY GuardsUnchanged DEF Inv, TypeOK, Running, HasGuard
<1>3. Watch'
  BY DEF Inv, TypeOK, Watch, FinishersExist, ReservedIsStarting,
         ScheduledIsWaiting, FullWasSeen
<1> QED BY <1>1, <1>2, <1>3 DEF Inv

-----------------------------------------------------------------------------
(* The theorems.                                                           *)

LEMMA InitInv == Init => Inv
<1> SUFFICES ASSUME Init PROVE Inv
  OBVIOUS
<1> USE DEF Init
<1>1. TypeOK
  BY SlotsAssumption DEF TypeOK
<1>2. Guards = {}
  BY DEF Guards, Holds, HasGuard, Holder, Running, Site
<1>3. ActiveIsExact /\ WorkersAreBounded
  <2>1. WorkerGuards = {}
    BY <1>2 DEF WorkerGuards
  <2>2. Cardinality({}) = 0
    BY FS_EmptySet
  <2> QED BY <1>2, <2>1, <2>2, SlotsAssumption DEF ActiveIsExact, WorkersAreBounded
<1>4. Watch
  BY DEF Watch, FinishersExist, ReservedIsStarting, ScheduledIsWaiting,
         FullWasSeen
<1> QED BY <1>1, <1>3, <1>4 DEF Inv

LEMMA StutterInv == Inv /\ UNCHANGED vars => Inv'
<1> SUFFICES ASSUME Inv, UNCHANGED vars PROVE Inv'
  OBVIOUS
<1> USE DEF vars
<1>1. TypeOK'
  BY DEF Inv, TypeOK
<1>2. ActiveIsExact' /\ WorkersAreBounded'
  BY GuardsUnchanged DEF Inv, Running, HasGuard
<1>3. Watch'
  BY DEF Inv, Watch, FinishersExist, ReservedIsStarting, ScheduledIsWaiting,
         FullWasSeen
<1> QED BY <1>1, <1>2, <1>3 DEF Inv

LEMMA NextInv == Inv /\ [Next]_vars => Inv'
<1> SUFFICES ASSUME Inv, Next PROVE Inv'
  BY StutterInv
<1>1. ASSUME NEW a \in Agent, NEW s \in Site, AttemptStep(a, s) PROVE Inv'
  BY <1>1, CheckMailInv, TryGuardInv, ScheduleWaitInv, ReserveTurnInv,
     StartTaskInv DEF AttemptStep
<1>2. ASSUME NEW a \in Agent, WaiterStep(a) PROVE Inv'
  BY <1>2, EnrollInv, LookInv, ParkInv, FinishWaitInv DEF WaiterStep
<1> QED
  BY <1>1, <1>2, MailArrivesInv, HandleWakeInv, HumanTurnInv, TakeMailInv,
     HumanStartInv, TurnEndsInv, FinishClearsInv, FinishReplacedInv,
     InterruptInv, InterruptEmptyInv, SubmitWakeInv, NotifyWaitersInv DEF Next

\* The strengthened invariant is inductive, so it holds throughout.
THEOREM InvHolds == Spec => []Inv
BY InitInv, NextInv, PTL DEF Spec

\* Every variable keeps its type: the counters of the limiter, the finishers,
\* the wakes and the budgets never go below zero.
THEOREM TypeCorrect == Spec => []TypeOK
<1>1. Inv => TypeOK
  BY DEF Inv
<1> QED BY <1>1, InvHolds, PTL

\* AgentExecutionLimiter.active is the number of guards that exist, however
\* turns, attempts, interrupts and drops interleave.
THEOREM ActiveCountsGuards == Spec => []ActiveIsExact
<1>1. Inv => ActiveIsExact
  BY DEF Inv
<1> QED BY <1>1, InvHolds, PTL

\* The turns started for mail hold at most max_threads guards, whatever human
\* turns are counted beside them.
THEOREM WorkersStayBounded == Spec => []WorkersAreBounded
<1>1. Inv => WorkersAreBounded
  BY DEF Inv
<1> QED BY <1>1, InvHolds, PTL

\* wait_for_capacity creates its future before it looks at the counter, so the
\* wake-up of a freed slot never falls between the look and the sleep.
THEOREM WakeUpIsNotLost == Spec => []NoLostWakeUp
<1>1. Inv => NoLostWakeUp
  BY DEF Inv, Watch, FullWasSeen, NoLostWakeUp
<1> QED BY <1>1, InvHolds, PTL

\* Trigger mail of an idle session keeps an attempt, a waiter or a wake that
\* will look at it, unless an interrupt takes the slot of a detached task.
THEOREM PendingMailIsWatched == Spec => MailIsWatched
<1> DEFINE Loss(a) == /\ turn[a] = "detached" /\ turn'[a] = "none"
                      /\ budget'["interrupt"] < budget["interrupt"]
<1>1. Inv /\ [Next]_vars =>
         [\A a \in Agent : Stranded(a)' /\ ~Stranded(a) => Loss(a)]_vars
  <2> SUFFICES ASSUME Inv, Next, NEW b \in Agent, Stranded(b)', ~Stranded(b)
               PROVE  Loss(b)
    BY DEF vars
  <2> USE DEF Stranded, Inv, TypeOK, Site
  <2>1. ASSUME NEW a \in Agent, NEW s \in Site, AttemptStep(a, s) PROVE FALSE
    <3>1. ASSUME CheckMail(a, s) PROVE FALSE
      BY <3>1 DEF CheckMail, Goto, poolVars, waitVars
    <3>2. ASSUME TryGuard(a, s) PROVE FALSE
      BY <3>2 DEF TryGuard, Goto, waitVars
    <3>3. ASSUME ScheduleWait(a, s) PROVE FALSE
      BY <3>3 DEF ScheduleWait, Goto, poolVars, Watch, ScheduledIsWaiting
    <3>4. ASSUME ReserveTurn(a, s) PROVE FALSE
      BY <3>4 DEF ReserveTurn, Goto, DropGuard, poolVars, waitVars
    <3>5. ASSUME StartTask(a, s) PROVE FALSE
      BY <3>5 DEF StartTask, Goto, DropGuard, poolVars, waitVars
    <3> QED BY <2>1, <3>1, <3>2, <3>3, <3>4, <3>5 DEF AttemptStep
  <2>2. ASSUME NEW a \in Agent, WaiterStep(a) PROVE FALSE
    BY <2>2 DEF WaiterStep, Enroll, Look, Park, FinishWait, poolVars
  <2>3. ASSUME NEW a \in Agent, MailArrives(a) \/ HandleWake(a) PROVE FALSE
    BY <2>3 DEF MailArrives, HandleWake, Goto, Spend, poolVars, waitVars
  <2>4. ASSUME NEW a \in Agent, HumanTurn(a) \/ HumanStart(a) PROVE FALSE
    BY <2>4 DEF HumanTurn, HumanStart, Goto, Spend, poolVars, waitVars
  <2>5. ASSUME NEW a \in Agent, TakeMail(a) \/ TurnEnds(a) PROVE FALSE
    BY <2>5 DEF TakeMail, TurnEnds, DropGuard, poolVars, waitVars
  <2>6. ASSUME NEW a \in Agent, FinishClears(a) \/ FinishReplaced(a) PROVE FALSE
    BY <2>6 DEF FinishClears, FinishReplaced, Goto, poolVars, waitVars
  <2>7. ASSUME NEW a \in Agent, Interrupt(a) PROVE FALSE
    BY <2>7 DEF Interrupt, Goto, DropGuard, Spend, waitVars
  <2>8. ASSUME NEW a \in Agent, InterruptEmpty(a) PROVE Loss(b)
    <3>1. CASE a = b /\ turn[a] = "detached"
      BY <2>8, <3>1 DEF InterruptEmpty, Spend, Event
    <3>2. CASE a = b /\ turn[a] = "reserved"
      BY <2>8, <3>2 DEF InterruptEmpty, Spend, poolVars, waitVars, Watch,
                        ReservedIsStarting
    <3>3. CASE a # b
      BY <2>8, <3>3 DEF InterruptEmpty, Spend, poolVars, waitVars
    <3> QED BY <2>8, <3>1, <3>2, <3>3 DEF InterruptEmpty
  <2>9. ASSUME NEW a \in Agent, SubmitWake(a) PROVE FALSE
    BY <2>9 DEF SubmitWake, poolVars
  <2>10. ASSUME NotifyWaiters PROVE FALSE
    BY <2>10 DEF NotifyWaiters
  <2> QED BY <2>1, <2>2, <2>3, <2>4, <2>5, <2>6, <2>7, <2>8, <2>9, <2>10 DEF Next
<1> QED BY <1>1, InvHolds, PTL DEF Spec, MailIsWatched
=============================================================================
