--------------------------- MODULE GpuRentalProofs ---------------------------
(* Proofs of the safety properties of GpuRental, for every set of resource  *)
(* ids and every budget of failures.                                        *)
EXTENDS GpuRental, FiniteSetTheorems, TLAPS

\* The state sequence of a rental that has not left "quoted" is fixed by its
\* desired state, so the key of its create operation is too.
Numbered(r) ==
    /\ r.obs = "absent" => r.seq = 0
    /\ r.obs = "quoted" /\ r.des = "quoted" => r.seq = 0
    /\ r.obs = "quoted" /\ r.des = "create_pending" => r.seq = 1

\* No update takes a rental back to the states before its creation.
Forward(u) ==
    /\ u.des \notin {"absent", "quoted", "create_pending"}
    /\ u.obs \notin {"absent", "quoted"}

\* A resource id that was shown by the provider.
Shown(r) == r # NoResource => inst[r] \in Listed \cup {"gone"}

\* The recorded resource has left the provider's inventory for good.
RowGone == row.id # NoResource => inst[row.id] = "gone"

RowInv ==
    /\ row.lease = "live" => row.obs \notin {"absent", "terminated_confirmed"}
    /\ Numbered(row) /\ Shown(row.id)
    /\ row.obs = "terminated_confirmed" => RowGone

\* The one key under which an instance can be requested.
CreateKey == <<"create", 1>>

CreateInv ==
    /\ \A r \in Resource : inst[r] # "unused" => CreateKey \in ops
    /\ \A r, s \in Resource : inst[r] # "unused" /\ inst[s] # "unused" => r = s

Creating == {"create_find", "create_begin", "create_send", "create_wait"}

\* Where the controller still holds the resource id of its claim.
Holding == {"billing", "limit", "allocating", "provision", "phase", "probe",
            "ready", "health", "term_find", "term_get", "term_inventory",
            "term_begin", "term_send"}

\* What the controller carries between its steps: a create that is about to
\* be sent is the first, and a confirmation about to be written is true.
ControllerInv ==
    /\ Numbered(ctl.snap) /\ Forward(ctl.upd) /\ Shown(ctl.upd.id)
    /\ ctl.pc \in Creating =>
          ctl.snap.obs = "quoted" /\ ctl.snap.des = "create_pending"
    /\ ctl.pc = "create_send" =>
          CreateKey \in ops /\ \A r \in Resource : inst[r] = "unused"
    /\ ctl.pc = "create_wait" =>
          ctl.res \in Resource /\ inst[ctl.res] # "unused"
    /\ ctl.pc \in Holding =>
          Shown(ctl.res) /\ (row.id # NoResource => ctl.res = row.id)
    /\ ctl.pc = "write" /\ ctl.upd.obs = "terminated_confirmed" =>
          ctl.upd.id = NoResource /\ RowGone

Inv == TypeOK /\ RowInv /\ ConfirmedIsWithdrawn /\ CreateInv /\ ControllerInv

-----------------------------------------------------------------------------
(* How a reconcile ends.                                                   *)

\* The update in hand changes neither the resource id nor confirms the end.
Ends ==
    /\ ctl'.pc = "write" /\ ctl'.snap = ctl.snap /\ ctl'.res = ctl.res
    /\ ctl'.upd \in UpdateState
    /\ Forward(ctl'.upd) /\ ctl'.upd.id = NoResource
    /\ ctl'.upd.obs # "terminated_confirmed"

\* Finish stores the update and moves on to the write.
LEMMA FinishStores ==
    ASSUME TypeOK, NEW u \in UpdateState, Finish(u)
    PROVE  /\ ctl' \in ControllerState
           /\ ctl'.pc = "write" /\ ctl'.snap = ctl.snap /\ ctl'.res = ctl.res
           /\ ctl'.upd = u
BY DEF TypeOK, Finish, ControllerState, PC

\* Change stores an update of the states and the resource id.
LEMMA ChangeStores ==
    ASSUME TypeOK, NEW d \in RentalState \cup {Keep},
           NEW o \in RentalState \cup {Keep}, NEW i \in Resource \cup {NoResource}, Change(d, o, i)
    PROVE  /\ ctl' \in ControllerState
           /\ ctl'.pc = "write" /\ ctl'.snap = ctl.snap /\ ctl'.res = ctl.res
           /\ ctl'.upd \in UpdateState
           /\ ctl'.upd.des = d /\ ctl'.upd.obs = o /\ ctl'.upd.id = i
<1> DEFINE u == [NoUpdate EXCEPT !.des = d, !.obs = o, !.id = i]
<1>1. /\ u \in UpdateState
      /\ u.des = d /\ u.obs = o /\ u.id = i
  BY DEF NoUpdate, UpdateState, AfterWrite
<1>2. Finish(u)
  BY DEF Change
<1> HIDE DEF u
<1> QED BY <1>1, <1>2, FinishStores

\* record_retry.
LEMMA RetryEnds ==
    ASSUME TypeOK, NEW e, RecordRetry(e)
    PROVE  ctl' \in ControllerState /\ Ends
<1> DEFINE o == IF e = "ambiguous" THEN "reconciling"
                ELSE IF ctl.snap.obs = "terminating"
                THEN "termination_unconfirmed" ELSE Keep
<1>1. /\ o \in RentalState \cup {Keep}
      /\ o \notin {"absent", "quoted", "terminated_confirmed"}
  BY DEF RentalState, Keep
<1>2. Change(Keep, o, NoResource)
  BY DEF RecordRetry
<1> HIDE DEF o
<1> QED BY <1>1, <1>2, ChangeStores DEF Ends, Forward, Keep

\* record_terminal_failure.
LEMMA FailureEnds ==
    ASSUME TypeOK, RecordTerminalFailure
    PROVE  ctl' \in ControllerState /\ Ends
<1>1. CASE Billable(ctl.snap)
  BY <1>1, ChangeStores DEF RecordTerminalFailure, RentalState, Ends, Forward
<1>2. CASE ~Billable(ctl.snap)
  <2> DEFINE u == [NoUpdate EXCEPT !.des = "failed", !.obs = "failed",
                                   !.retry = "never"]
  <2>1. /\ u \in UpdateState /\ u.id = NoResource
        /\ u.des = "failed" /\ u.obs = "failed"
    BY DEF NoUpdate, UpdateState, AfterWrite, RentalState
  <2>2. Finish(u)
    BY <1>2 DEF RecordTerminalFailure
  <2> HIDE DEF u
  <2> QED BY <2>1, <2>2, FinishStores DEF Ends, Forward
<1> QED BY <1>1, <1>2

\* record_termination_retry.
LEMMA TerminationRetryEnds ==
    ASSUME TypeOK, RecordTerminationRetry
    PROVE  ctl' \in ControllerState /\ Ends
BY ChangeStores DEF RecordTerminationRetry, RentalState, Keep, Ends, Forward

\* The request to clean up, written when a limit or an instance ends.
LEMMA CleanupEnds ==
    ASSUME TypeOK, Change("terminate_requested", "terminate_requested", NoResource)
    PROVE  ctl' \in ControllerState /\ Ends
BY ChangeStores DEF RentalState, Ends, Forward

\* confirm_terminated.
LEMMA ConfirmStores ==
    ASSUME TypeOK, ConfirmTerminated
    PROVE  /\ ctl' \in ControllerState
           /\ ctl'.pc = "write" /\ ctl'.snap = ctl.snap /\ ctl'.res = ctl.res
           /\ Forward(ctl'.upd) /\ ctl'.upd.id = NoResource
<1> DEFINE u == [NoUpdate EXCEPT !.des = "terminated_confirmed",
                    !.obs = "terminated_confirmed", !.retry = "never"]
<1>1. /\ u \in UpdateState /\ u.id = NoResource /\ Forward(u)
  BY DEF NoUpdate, UpdateState, AfterWrite, RentalState, Forward
<1>2. Finish(u)
  BY DEF ConfirmTerminated
<1> HIDE DEF u
<1> QED BY <1>1, <1>2, FinishStores

\* adopt_instance.
LEMMA AdoptStores ==
    ASSUME TypeOK, NEW r \in Resource, Adopt(r)
    PROVE  /\ ctl' \in ControllerState
           /\ ctl'.pc = "write" /\ ctl'.snap = ctl.snap
           /\ Forward(ctl'.upd) /\ ctl'.upd.id = r
           /\ ctl'.upd.obs # "terminated_confirmed"
<1> DEFINE o == IF inst[r] = "running" THEN "bootstrapping" ELSE "allocating"
<1>1. /\ o \in RentalState \cup {Keep}
      /\ o \notin {"absent", "quoted", "terminated_confirmed"}
  BY DEF RentalState, Keep
<1>2. Change(Keep, o, r)
  BY DEF Adopt
<1> HIDE DEF o
<1> QED BY <1>1, <1>2, ChangeStores DEF Forward, Keep

\* A step to another program counter keeps everything else in hand.
LEMMA GotoKeeps ==
    ASSUME TypeOK, NEW pc \in PC, Goto(pc)
    PROVE  /\ ctl' \in ControllerState
           /\ ctl'.pc = pc /\ ctl'.snap = ctl.snap /\ ctl'.res = ctl.res
           /\ ctl'.upd = ctl.upd
BY DEF TypeOK, Goto, ControllerState

\* An event of the environment is taken from its budget.
LEMMA SpendType ==
    ASSUME TypeOK, NEW e \in Event, Spend(e)
    PROVE  budget' \in [Event -> Nat]
BY DEF TypeOK, Spend

-----------------------------------------------------------------------------
(* Types.                                                                  *)

\* What a controller step that leaves the row and the provider alone keeps.
LEMMA ControllerTypes ==
    ASSUME TypeOK, ctl' \in ControllerState, budget' \in [Event -> Nat],
           UNCHANGED <<row, ops, listing, inst, overLimit>>
    PROVE  TypeOK'
BY DEF TypeOK

\* The row update_gpu_rental leaves is a row.
LEMMA UpdatedType ==
    ASSUME TypeOK, ctl.upd \in UpdateState
    PROVE  Updated(ctl.upd) \in RowState
BY DEF TypeOK, Updated, UpdateState, RowState

\* A controller that is not running.
LEMMA OffType == Off \in ControllerState
BY DEF Off, NoRow, NoUpdate, ControllerState, RowState, UpdateState, AfterWrite,
       PC, RentalState

\* The routing of a claimed rental names a step of the controller.
LEMMA RouteType ==
    ASSUME NEW r
    PROVE  Route(r) \in PC /\ Handler(r) \in PC
BY DEF Route, Handler, TerminationStart, PC

\* Recording an operation keeps the keys typed.
LEMMA KeyType ==
    ASSUME TypeOK, NEW k \in {"create", "terminate"}
    PROVE  ops \cup {<<k, ctl.snap.seq>>} \in SUBSET ({"create", "terminate"} \X Nat)
BY DEF TypeOK, ControllerState, RowState

\* Statements of the TUI, the controller's loop and the clock.
LEMMA RowTypes ==
    ASSUME TypeOK, Authorize \/ RequestCreation \/ RequestTermination
                   \/ StartController \/ Claim \/ Poll \/ Write \/ Release
                   \/ Publish \/ List \/ Crash \/ LeaseExpires \/ LimitReached
    PROVE  TypeOK'
<1>1. CASE Authorize
  BY <1>1 DEF Authorize, TypeOK, RowState, RentalState
<1>2. CASE RequestCreation
  <2>1. /\ row \in RowState /\ "create_pending" \in RentalState
        /\ row.seq + 1 \in Nat
    BY DEF TypeOK, RowState, RentalState
  <2>2. row' \in RowState
    BY <1>2, <2>1 DEF RequestCreation, RowState
  <2> QED BY <1>2, <2>2 DEF RequestCreation, TypeOK
<1>3. CASE RequestTermination
  <2> DEFINE n == IF row.des = "terminate_requested" THEN row.seq ELSE row.seq + 1
  <2>1. row \in RowState /\ "terminate_requested" \in RentalState /\ n \in Nat
    BY DEF TypeOK, RowState, RentalState
  <2>2. row' = [row EXCEPT !.des = "terminate_requested", !.retry = "due", !.seq = n]
    BY <1>3 DEF RequestTermination
  <2> HIDE DEF n
  <2>3. row' \in RowState
    BY <2>1, <2>2 DEF RowState
  <2> QED BY <1>3, <2>3 DEF RequestTermination, TypeOK
<1>4. CASE StartController
  BY <1>4, GotoKeeps, ControllerTypes DEF StartController, PC, TypeOK
<1>5. CASE Claim
  <2>1. Off \in ControllerState
    BY OffType
  <2>2. listing' \in {"none", "ready", "degraded"}
    BY <1>5 DEF Claim, TypeOK
  <2>3. CASE Claimable
    <3>1. row' \in RowState /\ row.id \in Resource \cup {NoResource}
      BY <1>5, <2>3 DEF Claim, TypeOK, RowState
    <3>2. ctl' = [Off EXCEPT !.pc = Route(row), !.snap = row', !.res = row.id]
      BY <1>5, <2>3 DEF Claim
    <3>3. ctl' \in ControllerState
      BY <2>1, <3>1, <3>2, RouteType DEF ControllerState
    <3> QED BY <1>5, <2>2, <3>1, <3>3 DEF Claim, TypeOK
  <2>4. CASE ~Claimable
    BY <1>5, <2>2, <2>4, GotoKeeps DEF Claim, TypeOK, PC
  <2> QED BY <2>3, <2>4
<1>6. CASE Poll
  <2>1. (IF Billable(row) THEN "claim" ELSE "off") \in PC
    BY DEF PC
  <2> QED BY <1>6, <2>1, GotoKeeps, ControllerTypes DEF Poll, TypeOK
<1>7. CASE Write
  <2>1. ctl.upd \in UpdateState /\ ctl.upd.then \in PC
    BY DEF TypeOK, ControllerState, UpdateState, AfterWrite, PC
  <2>2. Off \in ControllerState
    BY OffType
  <2>3. ctl' = [Off EXCEPT !.pc = ctl.upd.then]
    BY <1>7 DEF Write
  <2>4. ctl' \in ControllerState
    BY <2>1, <2>2, <2>3 DEF ControllerState
  <2> QED BY <1>7, <2>1, <2>4, UpdatedType DEF Write, TypeOK
<1>8. CASE Release
  <2>1. ctl' \in ControllerState
    BY <1>8 DEF Release, Off, NoRow, NoUpdate, ControllerState, RowState,
                UpdateState, AfterWrite, PC, RentalState
  <2> QED BY <1>8, <2>1 DEF Release, TypeOK, RowState
<1>9. CASE Publish
  BY <1>9, GotoKeeps DEF Publish, TypeOK, PC
<1>10. CASE List
  BY <1>10, GotoKeeps DEF List, TypeOK, PC
<1>11. CASE Crash
  <2>1. ctl' \in ControllerState
    BY <1>11 DEF Crash, Off, NoRow, NoUpdate, ControllerState, RowState,
                UpdateState, AfterWrite, PC, RentalState
  <2>2. budget' \in [Event -> Nat]
    BY <1>11, SpendType DEF Crash, Event
  <2> QED BY <1>11, <2>1, <2>2 DEF Crash, TypeOK, RowState
<1>12. CASE LeaseExpires
  BY <1>12 DEF LeaseExpires, TypeOK, RowState
<1>13. CASE LimitReached
  BY <1>13 DEF LimitReached, TypeOK
<1> QED BY <1>1, <1>2, <1>3, <1>4, <1>5, <1>6, <1>7, <1>8, <1>9, <1>10, <1>11,
           <1>12, <1>13

\* The create, provisioning and health handlers.
LEMMA HandlerTypes ==
    ASSUME TypeOK, Billing \/ Limit \/ CreateFind \/ CreateBegin \/ CreateSend
                   \/ CreateWait \/ Allocating \/ Provision \/ Phase \/ Probe
                   \/ Ready \/ Health
    PROVE  TypeOK'
<1>0. "error" \in Event /\ "setback" \in Event /\ budget \in [Event -> Nat]
  BY DEF Event, TypeOK
<1>1. CASE Billing
  <2>1. budget' \in [Event -> Nat]
    BY <1>1, <1>0, SpendType DEF Billing
  <2>2. ctl' \in ControllerState
    BY <1>1, GotoKeeps, RetryEnds DEF Billing, PC
  <2> QED BY <1>1, <2>1, <2>2, ControllerTypes DEF Billing
<1>2. CASE Limit
  BY <1>2, <1>0, CleanupEnds, GotoKeeps, RouteType, ControllerTypes DEF Limit
<1>3. CASE CreateFind
  <2>1. budget' \in [Event -> Nat]
    BY <1>3, <1>0, SpendType DEF CreateFind, FindFails
  <2>2. ctl' \in ControllerState
    BY <1>3, AdoptStores, GotoKeeps, RetryEnds DEF CreateFind, PC
  <2> QED BY <1>3, <2>1, <2>2, ControllerTypes DEF CreateFind
<1>4. CASE CreateBegin
  <2>1. ctl' \in ControllerState
    BY <1>4, FailureEnds, GotoKeeps, RetryEnds DEF CreateBegin, PC
  <2>2. ops' \in SUBSET ({"create", "terminate"} \X Nat)
    BY <1>4, KeyType DEF CreateBegin, TypeOK
  <2> QED BY <1>4, <2>1, <2>2 DEF CreateBegin, TypeOK
<1>5. CASE CreateSend
  <2>1. PICK r \in Resource :
            /\ inst' = [inst EXCEPT ![r] = "pending"]
            /\ ctl' = [ctl EXCEPT !.pc = "create_wait", !.res = r]
    BY <1>5 DEF CreateSend
  <2>2. ctl' \in ControllerState
    BY <2>1 DEF TypeOK, ControllerState, PC
  <2>3. inst' \in [Resource -> InstanceState]
    BY <2>1 DEF TypeOK, InstanceState
  <2> QED BY <1>5, <2>2, <2>3 DEF CreateSend, TypeOK
<1>6. CASE CreateWait
  <2>1. budget' \in [Event -> Nat]
    BY <1>6, <1>0, SpendType DEF CreateWait
  <2>2. ctl' \in ControllerState
    <3>1. CASE RecordTerminalFailure
      BY <3>1, FailureEnds
    <3>2. CASE \E e \in ErrorKind : RecordRetry(e)
      BY <3>2, RetryEnds
    <3>3. CASE Adopt(ctl.res)
      <4>1. ctl.res \in Resource \cup {NoResource}
        BY DEF TypeOK, ControllerState
      <4>2. (IF inst[ctl.res] = "running" THEN "bootstrapping" ELSE "allocating")
               \in RentalState \cup {Keep}
        BY DEF RentalState
      <4> QED BY <3>3, <4>1, <4>2, ChangeStores DEF Adopt
    <3> QED BY <1>6, <3>1, <3>2, <3>3 DEF CreateWait
  <2> QED BY <1>6, <2>1, <2>2, ControllerTypes DEF CreateWait
<1>7. CASE Allocating
  <2>1. budget' \in [Event -> Nat]
    BY <1>7, <1>0, SpendType DEF Allocating, FindFails
  <2>2. ctl' \in ControllerState
    BY <1>7, AdoptStores, FailureEnds, RetryEnds, ChangeStores
       DEF Allocating, RentalState
  <2> QED BY <1>7, <2>1, <2>2, ControllerTypes DEF Allocating
<1>8. CASE Provision
  <2>1. budget' \in [Event -> Nat]
    BY <1>8, <1>0, SpendType DEF Provision
  <2>2. ctl' \in ControllerState
    BY <1>8, GotoKeeps, FailureEnds, RetryEnds DEF Provision, PC
  <2> QED BY <1>8, <2>1, <2>2, ControllerTypes DEF Provision
<1>9. CASE Phase
  <2>1. budget' \in [Event -> Nat]
    BY <1>9, <1>0, SpendType DEF Phase
  <2>2. ctl' \in ControllerState
    BY <1>9, GotoKeeps, ChangeStores DEF Phase, PC, RentalState
  <2> QED BY <1>9, <2>1, <2>2, ControllerTypes DEF Phase
<1>10. CASE Probe
  <2>1. [NoUpdate EXCEPT !.des = "ready", !.obs = "ready", !.then = "publish"]
           \in UpdateState
    BY DEF NoUpdate, UpdateState, RentalState, AfterWrite
  <2>2. ctl' \in ControllerState
    BY <1>10, <2>1, FinishStores, FailureEnds, RetryEnds DEF Probe
  <2>3. budget' \in [Event -> Nat]
    BY <1>10, <1>0, SpendType DEF Probe
  <2> QED BY <1>10, <2>2, <2>3, ControllerTypes DEF Probe
<1>11. CASE Ready
  <2>1. budget' \in [Event -> Nat]
    BY <1>11, <1>0, SpendType DEF Ready
  <2>2. ctl' \in ControllerState
    BY <1>11, GotoKeeps, ConfirmStores, CleanupEnds, RetryEnds DEF Ready, PC
  <2> QED BY <1>11, <2>1, <2>2, ControllerTypes DEF Ready
<1>12. CASE Health
  <2>1. budget' \in [Event -> Nat]
    BY <1>12, <1>0, SpendType DEF Health
  <2>2. /\ [NoUpdate EXCEPT !.obs = "ready", !.then = "list_ready"] \in UpdateState
        /\ [NoUpdate EXCEPT !.obs = "degraded", !.then = "list_degraded"] \in UpdateState
    BY DEF NoUpdate, UpdateState, RentalState, AfterWrite
  <2>3. ctl' \in ControllerState
    BY <1>12, <2>2, FinishStores DEF Health
  <2> QED BY <1>12, <2>1, <2>3, ControllerTypes DEF Health
<1> QED BY <1>1, <1>2, <1>3, <1>4, <1>5, <1>6, <1>7, <1>8, <1>9, <1>10, <1>11,
           <1>12

\* The termination handlers.
LEMMA TerminationTypes ==
    ASSUME TypeOK, TermFind \/ TermGet \/ TermInventory \/ TermBegin \/ TermSend
    PROVE  TypeOK'
<1>0. /\ "error" \in Event /\ "termination" \in Event /\ budget \in [Event -> Nat]
      /\ ctl.res \in Resource \cup {NoResource}
  BY DEF Event, TypeOK, ControllerState
<1>1. CASE TermFind
  <2>1. budget' \in [Event -> Nat]
    BY <1>1, <1>0, SpendType DEF TermFind, FindFails
  <2>2. ASSUME NEW r \in Resource, NEW pc \in PC,
               ctl' = [ctl EXCEPT !.res = r, !.pc = pc]
        PROVE  ctl' \in ControllerState
    BY <2>2 DEF TypeOK, ControllerState
  <2>3. ctl' \in ControllerState
    BY <1>1, <2>2, ConfirmStores, RetryEnds DEF TermFind, PC
  <2> QED BY <1>1, <2>1, <2>3, ControllerTypes DEF TermFind
<1>2. CASE TermGet
  <2>1. budget' \in [Event -> Nat]
    BY <1>2, <1>0, SpendType DEF TermGet
  <2>2. ctl' \in ControllerState
    BY <1>2, <1>0, ConfirmStores, ChangeStores, GotoKeeps, TerminationRetryEnds
       DEF TermGet, PC
  <2> QED BY <1>2, <2>1, <2>2, ControllerTypes DEF TermGet
<1>3. CASE TermInventory
  <2>1. budget' \in [Event -> Nat]
    BY <1>3, <1>0, SpendType DEF TermInventory, FindFails
  <2>2. ctl' \in ControllerState
    BY <1>3, ConfirmStores, GotoKeeps, TerminationRetryEnds DEF TermInventory, PC
  <2> QED BY <1>3, <2>1, <2>2, ControllerTypes DEF TermInventory
<1>4. CASE TermBegin
  <2>1. ctl' \in ControllerState
    BY <1>4, GotoKeeps, TerminationRetryEnds DEF TermBegin, PC
  <2>2. ops' \in SUBSET ({"create", "terminate"} \X Nat)
    BY <1>4, KeyType DEF TermBegin
  <2> QED BY <1>4, <2>1, <2>2 DEF TermBegin, TypeOK
<1>5. CASE TermSend
  <2>1. budget' \in [Event -> Nat]
    BY <1>5, <1>0, SpendType DEF TermSend
  <2>2. ctl' \in ControllerState
    BY <1>5, <1>0, ChangeStores, TerminationRetryEnds DEF TermSend, RentalState
  <2>3. inst' \in [Resource -> InstanceState]
    <3>1. "deleting" \in InstanceState /\ inst \in [Resource -> InstanceState]
      BY DEF InstanceState, Listed, TypeOK
    <3> QED BY <1>5, <3>1 DEF TermSend
  <2> QED BY <1>5, <2>1, <2>2, <2>3 DEF TermSend, TypeOK
<1> QED BY <1>1, <1>2, <1>3, <1>4, <1>5

\* The provider moves its instances within their states.
LEMMA ProviderTypes ==
    ASSUME TypeOK, ProviderDecides \/ ProviderMoves \/ ProviderDeletes
    PROVE  TypeOK'
<1>1. inst' \in [Resource -> InstanceState]
  <2>1. /\ inst \in [Resource -> InstanceState]
        /\ {"allocating", "rejected", "running", "stopped", "failed", "gone"}
              \subseteq InstanceState
    BY DEF TypeOK, InstanceState, Listed
  <2> QED BY <2>1 DEF ProviderDecides, ProviderMoves, ProviderDeletes
<1> QED BY <1>1 DEF ProviderDecides, ProviderMoves, ProviderDeletes, TypeOK

\* Every step keeps the types.
LEMMA TypeStep == TypeOK /\ [Next]_vars => TypeOK'
<1> SUFFICES ASSUME TypeOK, [Next]_vars
             PROVE  TypeOK'
  OBVIOUS
<1>1. CASE UNCHANGED vars
  BY <1>1 DEF vars, TypeOK
<1>2. CASE Next
  BY <1>2, RowTypes, HandlerTypes, TerminationTypes, ProviderTypes
     DEF Next, Reconcile
<1> QED BY <1>1, <1>2

-----------------------------------------------------------------------------
(* The inductive invariant.                                                *)

\* What every step keeps of the provider's instances.
InstKept ==
    \A r \in Resource :
        /\ inst[r] \in Listed \cup {"gone"} => inst'[r] \in Listed \cup {"gone"}
        /\ inst[r] = "gone" => inst'[r] = "gone"
        /\ inst[r] # "unused" => inst'[r] # "unused"
UnusedKept == \A r \in Resource : inst[r] = "unused" => inst'[r] = "unused"

\* Instances are only taken into use by a create, a shown one stays shown or
\* goes, and one that is gone stays gone.
LEMMA InstStep ==
    ASSUME TypeOK, [Next]_vars
    PROVE  InstKept /\ (CreateSend \/ UnusedKept)
<1> USE DEF InstKept, UnusedKept
<1>0. inst \in [Resource -> InstanceState]
  BY DEF TypeOK
<1>1. CASE inst' = inst
  BY <1>1
<1>2. CASE CreateSend
  BY <1>0, <1>2 DEF CreateSend, Listed
<1>3. CASE TermSend
  BY <1>0, <1>3 DEF TermSend, Listed
<1>4. CASE ProviderDecides
  BY <1>0, <1>4 DEF ProviderDecides, Listed
<1>5. CASE ProviderMoves
  BY <1>0, <1>5 DEF ProviderMoves, Listed
<1>6. CASE ProviderDeletes
  BY <1>0, <1>6 DEF ProviderDeletes, Listed
<1>7. inst' = inst \/ CreateSend \/ TermSend \/ ProviderDecides
      \/ ProviderMoves \/ ProviderDeletes
  BY DEF Next, vars, Reconcile, Authorize, RequestCreation, RequestTermination,
     StartController, Claim, Poll, Write, Release, Publish, List, Crash,
     LeaseExpires, LimitReached, Billing, Limit, CreateFind, CreateBegin,
     CreateWait, Allocating, Provision, Phase, Probe, Ready, Health, TermFind,
     TermGet, TermInventory, TermBegin
<1> QED BY <1>1, <1>2, <1>3, <1>4, <1>5, <1>6, <1>7

\* The rows a step can leave: the same one, or what one of the statements on
\* the row writes.
LEMMA RowMoves ==
    ASSUME [Next]_vars
    PROVE  row' = row \/ Authorize \/ RequestCreation \/ RequestTermination
           \/ Claim \/ Write \/ Release \/ Crash \/ LeaseExpires
BY DEF Next, vars, Reconcile, StartController, Poll, Publish, List,
   LimitReached, Billing, Limit, CreateFind, CreateBegin, CreateSend,
   CreateWait, Allocating, Provision, Phase, Probe, Ready, Health, TermFind,
   TermGet, TermInventory, TermBegin, TermSend, ProviderDecides,
   ProviderMoves, ProviderDeletes

\* A recorded id stays shown, and gone once it is gone.
LEMMA ShownKept ==
    ASSUME TypeOK, InstKept, NEW r \in Resource \cup {NoResource}
    PROVE  /\ Shown(r) => (r # NoResource => inst'[r] \in Listed \cup {"gone"})
           /\ (r # NoResource => inst[r] = "gone") =>
                 (r # NoResource => inst'[r] = "gone")
BY DEF Shown, InstKept

\* Statements that keep the id, and do not confirm, keep RowInv.
LEMMA RowFrame ==
    ASSUME Inv, InstKept, row'.id = row.id, Numbered(row)',
           row'.lease = "live" => row'.obs \notin {"absent", "terminated_confirmed"},
           row'.obs = "terminated_confirmed" => row.obs = "terminated_confirmed"
    PROVE  RowInv'
<1>1. row.id \in Resource \cup {NoResource}
  BY DEF Inv, TypeOK, RowState
<1> QED BY <1>1, ShownKept DEF Inv, RowInv, RowGone, Shown

\* Every step keeps the row's part of the invariant.
LEMMA RowStep ==
    ASSUME Inv, [Next]_vars
    PROVE  RowInv'
<1>0. TypeOK /\ RowInv /\ ControllerInv /\ InstKept /\ row \in RowState
  BY InstStep DEF Inv, TypeOK
<1>1. CASE row' = row
  BY <1>0, <1>1, RowFrame DEF RowInv, Numbered
<1>2. CASE Authorize
  BY <1>0, <1>2, RowFrame DEF Authorize, RowState, RowInv, Numbered
<1>3. CASE RequestCreation
  BY <1>0, <1>3, RowFrame DEF RequestCreation, RowState, RowInv, Numbered
<1>4. CASE RequestTermination
  BY <1>0, <1>4, RowFrame DEF RequestTermination, RowState, RowInv, Numbered
<1>5. CASE Claim
  <2>1. CASE Claimable
    BY <1>0, <1>5, <2>1, RowFrame DEF Claim, Claimable, RowState, RowInv, Numbered
  <2>2. CASE ~Claimable
    BY <1>1, <1>5, <2>2 DEF Claim
  <2> QED BY <2>1, <2>2
<1>6. CASE Release
  BY <1>0, <1>6, RowFrame DEF Release, RowState, RowInv, Numbered
<1>7. CASE Crash
  BY <1>0, <1>7, RowFrame DEF Crash, RowState, RowInv, Numbered
<1>8. CASE LeaseExpires
  BY <1>0, <1>8, RowFrame DEF LeaseExpires, RowState, RowInv, Numbered
<1>9. CASE Write
  <2> DEFINE u == ctl.upd
  <2>1. /\ u \in UpdateState /\ Forward(u) /\ Shown(u.id)
        /\ u.obs = "terminated_confirmed" => u.id = NoResource /\ RowGone
        /\ row.obs \notin {"absent", "terminated_confirmed"}
        /\ row' = Updated(u) /\ inst' = inst
    BY <1>0, <1>9 DEF Write, ControllerInv, RowInv, TypeOK, ControllerState
  <2> HIDE DEF u
  <2>2. /\ row'.lease = "none"
        /\ row'.id = IF u.id = NoResource THEN row.id ELSE u.id
        /\ row'.obs = IF u.obs = Keep THEN row.obs ELSE u.obs
        /\ row'.des = IF u.des = Keep THEN row.des ELSE u.des
        /\ u.obs = Keep /\ u.des = Keep => row'.seq = row.seq
    BY <2>1 DEF Updated
  <2>3. Numbered(row)'
    BY <1>0, <2>1, <2>2 DEF Numbered, RowInv, Forward
  <2>4. Shown(row.id)'
    BY <1>0, <2>1, <2>2 DEF Shown, RowInv
  <2>5. row'.obs = "terminated_confirmed" => RowGone'
    BY <2>1, <2>2 DEF RowGone
  <2> QED BY <2>2, <2>3, <2>4, <2>5 DEF RowInv
<1> QED BY <1>1, <1>2, <1>3, <1>4, <1>5, <1>6, <1>7, <1>8, <1>9, RowMoves

\* A confirmed rental is not claimed, so only its own confirmation is written,
\* and nothing inserts a listing for it.
LEMMA WithdrawnStep ==
    ASSUME Inv, [Next]_vars
    PROVE  ConfirmedIsWithdrawn'
<1> USE DEF ConfirmedIsWithdrawn
<1>0. ConfirmedIsWithdrawn /\ RowInv /\ row \in RowState
  BY DEF Inv, TypeOK
<1>1. CASE row' = row /\ listing' = listing
  BY <1>0, <1>1
<1>2. CASE Authorize
  BY <1>0, <1>2 DEF Authorize, RowState
<1>3. CASE RequestCreation
  BY <1>0, <1>3 DEF RequestCreation, RowState
<1>4. CASE RequestTermination
  BY <1>0, <1>4 DEF RequestTermination, RowState
<1>5. CASE Claim
  BY <1>0, <1>5 DEF Claim, Claimable, RowState
<1>6. CASE Release
  BY <1>0, <1>6 DEF Release, RowState
<1>7. CASE Crash
  BY <1>0, <1>7 DEF Crash, RowState
<1>8. CASE LeaseExpires
  BY <1>0, <1>8 DEF LeaseExpires, RowState
<1>9. CASE Write
  <2>1. row'.obs = IF ctl.upd.obs = Keep THEN row.obs ELSE ctl.upd.obs
    BY <1>9 DEF Write, Updated
  <2>2. row.obs # "terminated_confirmed"
    BY <1>0, <1>9 DEF Write, RowInv
  <2> QED BY <1>9, <2>1, <2>2 DEF Write, Keep
<1>10. CASE Publish
  BY <1>0, <1>10 DEF Publish, Serving
<1>11. CASE List
  BY <1>0, <1>11 DEF List, Serving
<1>12. \/ row' = row /\ listing' = listing
       \/ Authorize \/ RequestCreation \/ RequestTermination \/ Claim \/ Write
       \/ Release \/ Crash \/ LeaseExpires \/ Publish \/ List
  BY DEF Next, vars, Reconcile, StartController, Poll, LimitReached, Billing,
     Limit, CreateFind, CreateBegin, CreateSend, CreateWait, Allocating,
     Provision, Phase, Probe, Ready, Health, TermFind, TermGet, TermInventory,
     TermBegin, TermSend, ProviderDecides, ProviderMoves, ProviderDeletes
<1> QED BY <1>1, <1>2, <1>3, <1>4, <1>5, <1>6, <1>7, <1>8, <1>9, <1>10, <1>11,
           <1>12

\* Operation keys are never removed.
LEMMA KeysKept ==
    ASSUME [Next]_vars
    PROVE  ops \subseteq ops'
BY DEF Next, vars, Reconcile, Authorize, RequestCreation, RequestTermination,
   StartController, Claim, Poll, Write, Release, Publish, List, Crash,
   LeaseExpires, LimitReached, Billing, Limit, CreateFind, CreateBegin,
   CreateSend, CreateWait, Allocating, Provision, Phase, Probe, Ready, Health,
   TermFind, TermGet, TermInventory, TermBegin, TermSend, ProviderDecides,
   ProviderMoves, ProviderDeletes

\* An instance is requested only while none is, under the one key.
LEMMA CreateStep ==
    ASSUME Inv, [Next]_vars
    PROVE  CreateInv'
<1>0. TypeOK /\ CreateInv /\ ControllerInv /\ ops \subseteq ops'
  BY KeysKept DEF Inv
<1>1. CASE UnusedKept
  BY <1>0, <1>1 DEF UnusedKept, CreateInv
<1>2. CASE CreateSend
  <2>1. PICK r \in Resource : inst' = [inst EXCEPT ![r] = "pending"]
    BY <1>2 DEF CreateSend
  <2>2. CreateKey \in ops /\ \A s \in Resource : inst[s] = "unused"
    BY <1>0, <1>2 DEF CreateSend, ControllerInv
  <2> QED BY <1>0, <2>1, <2>2 DEF CreateInv, TypeOK
<1> QED BY <1>0, <1>1, <1>2, InstStep

\* A step of the TUI, the provider or the clock leaves what the controller
\* carries true.
LEMMA ControllerFrame ==
    ASSUME Inv, InstKept, UnusedKept, ctl' = ctl, row'.id = row.id, ops' = ops
    PROVE  ControllerInv'
<1>0. /\ TypeOK /\ ControllerInv /\ row.id \in Resource \cup {NoResource}
      /\ ctl.upd.id \in Resource \cup {NoResource}
      /\ ctl.res \in Resource \cup {NoResource}
  BY DEF Inv, TypeOK, RowState, ControllerState, UpdateState
<1>1. /\ Numbered(ctl.snap)' /\ Forward(ctl.upd)' /\ Shown(ctl.upd.id)'
  BY <1>0, ShownKept DEF ControllerInv, Numbered, Forward, Shown
<1>2. ctl.pc' = "create_send" =>
          CreateKey \in ops' /\ \A r \in Resource : inst'[r] = "unused"
  BY <1>0 DEF ControllerInv, UnusedKept
<1>3. ctl.pc' = "create_wait" =>
          ctl.res' \in Resource /\ inst'[ctl.res'] # "unused"
  BY <1>0 DEF ControllerInv, InstKept
<1>4. ctl.pc' \in Holding =>
          Shown(ctl.res)' /\ (row.id' # NoResource => ctl.res' = row.id')
  BY <1>0, ShownKept DEF ControllerInv, Shown
<1>5. ctl.pc' = "write" /\ ctl.upd.obs' = "terminated_confirmed" =>
          ctl.upd.id' = NoResource /\ RowGone'
  BY <1>0, ShownKept DEF ControllerInv, RowGone
<1> QED BY <1>0, <1>1, <1>2, <1>3, <1>4, <1>5 DEF ControllerInv, CreateKey

\* A reconcile that ends without an id or a confirmation claims nothing.
LEMMA EndsKeeps ==
    ASSUME Inv, Ends
    PROVE  ControllerInv'
BY DEF Inv, Ends, ControllerInv, Numbered, Forward, Shown, Creating, Holding

\* Nor does a controller between two reconciles.
LEMMA IdleKeeps ==
    ASSUME Inv, inst' = inst,
           ctl'.pc \in {"off", "claim", "poll", "publish", "list_ready",
                        "list_degraded", "release"},
           \/ ctl'.snap = NoRow /\ ctl'.upd = NoUpdate
           \/ ctl'.snap = ctl.snap /\ ctl'.upd = ctl.upd
    PROVE  ControllerInv'
BY DEF Inv, ControllerInv, Numbered, Forward, Shown, Creating, Holding, NoRow,
       NoUpdate, Keep

\* A step from one handler to the next keeps the resource in hand.
LEMMA HoldingKeeps ==
    ASSUME Inv, inst' = inst, row' = row,
           ctl.pc \in Holding, ctl'.pc \in Holding,
           ctl'.snap = ctl.snap, ctl'.res = ctl.res, ctl'.upd = ctl.upd
    PROVE  ControllerInv'
BY DEF Inv, ControllerInv, Numbered, Forward, Shown, Creating, Holding

\* The update in hand adopts an instance the provider has shown.
LEMMA AdoptKeeps ==
    ASSUME Inv, inst' = inst, NEW r \in Resource,
           inst[r] \in Listed \cup {"gone"},
           ctl'.pc = "write", ctl'.snap = ctl.snap, Forward(ctl'.upd),
           ctl'.upd.id = r, ctl'.upd.obs # "terminated_confirmed"
    PROVE  ControllerInv'
BY DEF Inv, ControllerInv, Numbered, Forward, Shown, Creating, Holding

\* The confirmation in hand is true.
LEMMA ConfirmKeeps ==
    ASSUME Inv, inst' = inst, row' = row, ConfirmTerminated, RowGone
    PROVE  ControllerInv'
<1>1. /\ ctl'.pc = "write" /\ ctl'.snap = ctl.snap
      /\ Forward(ctl'.upd) /\ ctl'.upd.id = NoResource
  BY ConfirmStores DEF Inv
<1> QED BY <1>1 DEF Inv, ControllerInv, Numbered, Forward, Shown, RowGone,
                    Creating, Holding

\* The lookups that end in a confirmation have seen the recorded resource go.
LEMMA NotFoundIsGone ==
    ASSUME Inv, ctl.pc \in Holding, NotFound \/ Owned = {}
    PROVE  RowGone
<1>1. /\ row.id # NoResource => row.id \in Resource /\ ctl.res = row.id
      /\ Shown(row.id)
  BY DEF Inv, TypeOK, RowState, ControllerInv, RowInv
<1> QED BY <1>1 DEF NotFound, Owned, Shown, RowGone

\* The controller's own loop.
LEMMA LoopController ==
    ASSUME Inv, StartController \/ Claim \/ Poll \/ Billing \/ Limit \/ Write
                \/ Release \/ Publish \/ List \/ Crash
    PROVE  ControllerInv'
<1>0. /\ TypeOK /\ RowInv /\ ControllerInv
      /\ row.id \in Resource \cup {NoResource}
  BY DEF Inv, TypeOK, RowState
<1>1. CASE StartController
  <2>1. "claim" \in PC
    BY DEF PC
  <2> QED BY <1>0, <1>1, <2>1, GotoKeeps, IdleKeeps DEF StartController
<1>2. CASE Claim
  <2>1. CASE ~Claimable
    <3>1. "poll" \in PC
      BY DEF PC
    <3> QED BY <1>0, <1>2, <2>1, <3>1, GotoKeeps, IdleKeeps DEF Claim
  <2>2. CASE Claimable
    <3>1. /\ ctl' = [Off EXCEPT !.pc = Route(row), !.snap = row', !.res = row.id]
          /\ row' = [row EXCEPT !.lease = "live"] /\ inst' = inst
      BY <1>2, <2>2 DEF Claim
    <3>2. /\ ctl'.pc = Route(row) /\ ctl'.snap = row' /\ ctl'.res = row.id
          /\ ctl'.upd = NoUpdate
      BY <3>1 DEF Off
    <3>3. /\ row'.id = row.id /\ row'.obs = row.obs /\ row'.des = row.des
          /\ row'.seq = row.seq
      BY <1>0, <3>1 DEF TypeOK, RowState
    <3>4. ctl'.pc \in Holding \ {"create_send", "create_wait", "write"}
      BY <3>2 DEF Route, TerminationStart, Holding
    <3>5. Numbered(ctl'.snap)
      BY <1>0, <3>2, <3>3 DEF RowInv, Numbered
    <3>6. Forward(NoUpdate) /\ NoUpdate.id = NoResource
      BY DEF NoUpdate, Forward, Keep
    <3>7. Shown(row.id)'
      BY <1>0, <3>1, <3>3 DEF RowInv, Shown
    <3> QED BY <3>1, <3>2, <3>3, <3>4, <3>5, <3>6, <3>7
            DEF ControllerInv, Holding, Creating, Shown, Numbered, Forward
  <2> QED BY <2>1, <2>2
<1>3. CASE Poll
  <2>1. "claim" \in PC /\ "off" \in PC
    BY DEF PC
  <2> QED BY <1>0, <1>3, <2>1, GotoKeeps, IdleKeeps DEF Poll
<1>4. CASE Billing
  <2>1. CASE Goto("limit")
    <3>1. "limit" \in PC /\ "limit" \in Holding /\ "billing" \in Holding
      BY DEF PC, Holding
    <3> QED BY <1>0, <1>4, <2>1, <3>1, GotoKeeps, HoldingKeeps DEF Billing
  <2> QED BY <1>0, <1>4, <2>1, RetryEnds, EndsKeeps DEF Billing
<1>5. CASE Limit
  <2>1. CASE Goto(Handler(ctl.snap))
    <3>1. /\ ctl'.pc = Handler(ctl.snap) /\ ctl'.snap = ctl.snap
          /\ ctl'.res = ctl.res /\ ctl'.upd = ctl.upd
          /\ row' = row /\ inst' = inst
      BY <1>0, <1>5, <2>1, RouteType, GotoKeeps DEF Limit
    <3>2. /\ ctl'.pc \in {"create_find", "release"} \cup Holding
          /\ ctl'.pc = "create_find" =>
                ctl.snap.obs = "quoted" /\ ctl.snap.des = "create_pending"
      BY <3>1 DEF Handler, Holding
    <3> QED BY <1>0, <1>5, <3>1, <3>2
            DEF Limit, ControllerInv, Numbered, Forward, Shown, Creating, Holding
  <2> QED BY <1>0, <1>5, <2>1, CleanupEnds, EndsKeeps DEF Limit
<1>6. CASE Release
  <2>1. ctl' = [Off EXCEPT !.pc = "poll"] /\ inst' = inst
    BY <1>6 DEF Release
  <2> QED BY <2>1, IdleKeeps DEF Off
<1>7. CASE Crash
  BY <1>7, IdleKeeps DEF Crash, Off
<1>8. CASE Publish
  <2>1. "poll" \in PC
    BY DEF PC
  <2> QED BY <1>0, <1>8, <2>1, GotoKeeps, IdleKeeps DEF Publish
<1>9. CASE List
  <2>1. "poll" \in PC
    BY DEF PC
  <2> QED BY <1>0, <1>9, <2>1, GotoKeeps, IdleKeeps DEF List
<1>10. CASE Write
  <2>1. ctl' = [Off EXCEPT !.pc = ctl.upd.then] /\ inst' = inst
    BY <1>10 DEF Write
  <2>2. ctl.upd.then \in AfterWrite
    BY <1>0 DEF TypeOK, ControllerState, UpdateState
  <2> QED BY <2>1, <2>2, IdleKeeps DEF Off, AfterWrite
<1> QED BY <1>1, <1>2, <1>3, <1>4, <1>5, <1>6, <1>7, <1>8, <1>9, <1>10

\* The create, provisioning and health handlers.
LEMMA HandlerController ==
    ASSUME Inv, CreateFind \/ CreateBegin \/ CreateSend \/ CreateWait
                \/ Allocating \/ Provision \/ Phase \/ Probe \/ Ready \/ Health
    PROVE  ControllerInv'
<1>0. /\ TypeOK /\ RowInv /\ CreateInv /\ ControllerInv
      /\ ctl.res \in Resource \cup {NoResource}
  BY DEF Inv, TypeOK, ControllerState
<1>1. CASE CreateFind
  <2>1. ASSUME NEW r \in Resource, Owned = {r}, Adopt(r)
        PROVE  ControllerInv'
    BY <1>0, <1>1, <2>1, AdoptStores, AdoptKeeps DEF CreateFind, Owned
  <2>2. CASE Goto("create_begin")
    <3>1. /\ ctl'.pc = "create_begin" /\ ctl'.snap = ctl.snap
          /\ ctl'.upd = ctl.upd /\ inst' = inst
      BY <1>0, <1>1, <2>2, GotoKeeps DEF CreateFind, PC
    <3> QED BY <1>0, <1>1, <3>1
            DEF CreateFind, ControllerInv, Numbered, Forward, Shown, Creating,
                Holding
  <2>3. CASE \E e \in ErrorKind : RecordRetry(e)
    BY <1>0, <1>1, <2>3, RetryEnds, EndsKeeps DEF CreateFind
  <2> QED BY <1>1, <2>1, <2>2, <2>3 DEF CreateFind
<1>2. CASE CreateBegin
  <2>1. CASE Goto("create_send") /\ <<"create", ctl.snap.seq>> \notin ops
             /\ ops' = ops \cup {<<"create", ctl.snap.seq>>}
    <3>1. /\ ctl'.pc = "create_send" /\ ctl'.snap = ctl.snap
          /\ ctl'.upd = ctl.upd /\ inst' = inst
      BY <1>0, <1>2, <2>1, GotoKeeps DEF CreateBegin, PC
    <3>2. ctl.snap.seq = 1 /\ ctl.snap.obs = "quoted" /\ ctl.snap.des = "create_pending"
      BY <1>0, <1>2 DEF CreateBegin, ControllerInv, Numbered, Creating
    <3>3. CreateKey \in ops' /\ \A r \in Resource : inst'[r] = "unused"
      BY <1>0, <2>1, <3>1, <3>2 DEF CreateKey, CreateInv
    <3> QED BY <1>0, <3>1, <3>2, <3>3
            DEF ControllerInv, Numbered, Forward, Shown, Creating, Holding, CreateKey
  <2>2. CASE (\E e : RecordRetry(e)) \/ RecordTerminalFailure
    BY <1>0, <1>2, <2>2, RetryEnds, FailureEnds, EndsKeeps DEF CreateBegin
  <2> QED BY <1>2, <2>1, <2>2 DEF CreateBegin
<1>3. CASE CreateSend
  <2>1. PICK r \in Resource :
            /\ inst' = [inst EXCEPT ![r] = "pending"]
            /\ ctl' = [ctl EXCEPT !.pc = "create_wait", !.res = r]
    BY <1>3 DEF CreateSend
  <2>2. /\ ctl'.pc = "create_wait" /\ ctl'.snap = ctl.snap
        /\ ctl'.upd = ctl.upd /\ ctl'.res = r
    BY <1>0, <2>1 DEF TypeOK, ControllerState
  <2>3. inst'[r] # "unused"
    BY <1>0, <2>1 DEF TypeOK
  <2>4. ctl.upd.id = NoResource
    BY <1>0, <1>3 DEF CreateSend, ControllerInv, Shown, Listed, TypeOK,
       ControllerState, UpdateState
  <2> QED BY <1>0, <1>3, <2>2, <2>3, <2>4
          DEF CreateSend, ControllerInv, Numbered, Forward, Shown, Creating,
              Holding
<1>4. CASE CreateWait
  <2>1. CASE Adopt(ctl.res) /\ inst[ctl.res] \notin {"pending", "rejected"}
    <3>1. ctl.res \in Resource /\ inst[ctl.res] \in Listed \cup {"gone"}
      BY <1>0, <1>4, <2>1 DEF CreateWait, ControllerInv, TypeOK, InstanceState
    <3> QED BY <1>0, <1>4, <2>1, <3>1, AdoptStores, AdoptKeeps DEF CreateWait
  <2>2. CASE (\E e \in ErrorKind : RecordRetry(e)) \/ RecordTerminalFailure
    BY <1>0, <1>4, <2>2, RetryEnds, FailureEnds, EndsKeeps DEF CreateWait
  <2> QED BY <1>4, <2>1, <2>2 DEF CreateWait
<1>5. CASE Allocating
  <2>0. inst' = inst
    BY <1>5 DEF Allocating
  <2>1. ASSUME NEW r \in Resource, Found(r),
               IF inst[r] = "failed"
               THEN Change("terminate_requested", "terminate_requested", r)
               ELSE Adopt(r)
        PROVE  ControllerInv'
    <3>1. inst[r] \in Listed
      BY <2>1 DEF Found, Owned
    <3>2. CASE Adopt(r)
      BY <1>0, <2>0, <3>1, <3>2, AdoptStores, AdoptKeeps
    <3>3. CASE Change("terminate_requested", "terminate_requested", r)
      <4>1. /\ ctl'.pc = "write" /\ ctl'.snap = ctl.snap
            /\ ctl'.upd.des = "terminate_requested"
            /\ ctl'.upd.obs = "terminate_requested" /\ ctl'.upd.id = r
        BY <1>0, <3>3, ChangeStores DEF RentalState
      <4> QED BY <2>0, <3>1, <4>1, AdoptKeeps DEF Forward
    <3> QED BY <2>1, <3>2, <3>3
  <2>2. CASE Change(Keep, "orphaned", NoResource)
    <3>1. Ends
      BY <1>0, <2>2, ChangeStores DEF RentalState, Keep, Ends, Forward
    <3> QED BY <2>0, <3>1, EndsKeeps
  <2>3. CASE (\E e \in ErrorKind : RecordRetry(e)) \/ RecordTerminalFailure
    BY <1>0, <2>0, <2>3, RetryEnds, FailureEnds, EndsKeeps
  <2> QED BY <1>5, <2>1, <2>2, <2>3 DEF Allocating
<1>6. CASE Provision
  <2>0. inst' = inst /\ row' = row /\ ctl.pc = "provision"
    BY <1>6 DEF Provision
  <2>1. CASE Goto("phase")
    BY <1>0, <2>0, <2>1, GotoKeeps, HoldingKeeps DEF PC, Holding
  <2>2. CASE Goto("release")
    BY <1>0, <2>0, <2>2, GotoKeeps, IdleKeeps DEF PC
  <2>3. CASE (\E e \in ErrorKind : RecordRetry(e)) \/ RecordTerminalFailure
    BY <1>0, <2>0, <2>3, RetryEnds, FailureEnds, EndsKeeps
  <2> QED BY <1>6, <2>1, <2>2, <2>3 DEF Provision
<1>7. CASE Phase
  <2>0. inst' = inst /\ row' = row /\ ctl.pc = "phase"
    BY <1>7 DEF Phase
  <2>1. CASE Change(Keep, "bootstrapping", NoResource)
             \/ Change(Keep, "probing", NoResource)
    <3>1. Ends
      BY <1>0, <2>1, ChangeStores DEF RentalState, Keep, Ends, Forward
    <3> QED BY <2>0, <3>1, EndsKeeps
  <2>2. CASE Goto("probe")
    BY <1>0, <2>0, <2>2, GotoKeeps, HoldingKeeps DEF PC, Holding
  <2> QED BY <1>7, <2>1, <2>2 DEF Phase
<1>8. CASE Probe
  <2> DEFINE u == [NoUpdate EXCEPT !.des = "ready", !.obs = "ready",
                                   !.then = "publish"]
  <2>1. CASE Finish(u)
    <3>1. /\ u \in UpdateState /\ u.id = NoResource
          /\ u.des = "ready" /\ u.obs = "ready"
      BY DEF NoUpdate, UpdateState, RentalState, AfterWrite
    <3> HIDE DEF u
    <3>2. Ends
      BY <1>0, <2>1, <3>1, FinishStores DEF Ends, Forward
    <3> QED BY <1>8, <3>2, EndsKeeps DEF Probe
  <2>2. CASE \/ RecordRetry("retryable") \/ RecordRetry("ambiguous")
             \/ RecordTerminalFailure
    BY <1>0, <1>8, <2>2, RetryEnds, FailureEnds, EndsKeeps DEF Probe
  <2> QED BY <1>8, <2>1, <2>2 DEF Probe
<1>9. CASE Ready
  <2>0. inst' = inst /\ row' = row /\ ctl.pc = "ready" /\ ctl.pc \in Holding
    BY <1>9 DEF Ready, Holding
  <2>1. CASE NotFound /\ ConfirmTerminated
    BY <2>0, <2>1, NotFoundIsGone, ConfirmKeeps
  <2>2. CASE Change("terminate_requested", "terminate_requested", NoResource)
    BY <1>0, <2>0, <2>2, CleanupEnds, EndsKeeps
  <2>3. CASE Goto("health")
    BY <1>0, <2>0, <2>3, GotoKeeps, HoldingKeeps DEF PC, Holding
  <2>4. CASE \E e \in ErrorKind : RecordRetry(e)
    BY <1>0, <2>0, <2>4, RetryEnds, EndsKeeps
  <2> QED BY <1>9, <2>1, <2>2, <2>3, <2>4 DEF Ready
<1>10. CASE Health
  <2>1. ASSUME NEW o \in Serving, NEW t \in AfterWrite,
               Finish([NoUpdate EXCEPT !.obs = o, !.then = t])
        PROVE  Ends
    <3> DEFINE u == [NoUpdate EXCEPT !.obs = o, !.then = t]
    <3>1. /\ u \in UpdateState /\ u.id = NoResource
          /\ u.des = Keep /\ u.obs = o
      BY DEF NoUpdate, UpdateState, RentalState, Serving
    <3>2. Finish(u)
      BY <2>1
    <3> HIDE DEF u
    <3> QED BY <1>0, <3>1, <3>2, FinishStores DEF Ends, Forward, Keep, Serving
  <2>2. Ends
    BY <1>10, <2>1 DEF Health, Serving, AfterWrite
  <2> QED BY <1>10, <2>2, EndsKeeps DEF Health
<1> QED BY <1>1, <1>2, <1>3, <1>4, <1>5, <1>6, <1>7, <1>8, <1>9, <1>10

\* The termination handlers.
LEMMA TerminationController ==
    ASSUME Inv, TermFind \/ TermGet \/ TermInventory \/ TermBegin \/ TermSend
    PROVE  ControllerInv'
<1>0. /\ TypeOK /\ RowInv /\ CreateInv /\ ControllerInv
      /\ ctl.res \in Resource \cup {NoResource}
      /\ row.id \in Resource \cup {NoResource}
  BY DEF Inv, TypeOK, ControllerState, RowState
<1>1. CASE TermFind
  <2>0. inst' = inst /\ row' = row /\ ctl.pc = "term_find" /\ ctl.pc \in Holding
    BY <1>1 DEF TermFind, Holding
  <2>1. CASE Owned = {} /\ ConfirmTerminated
    BY <2>0, <2>1, NotFoundIsGone, ConfirmKeeps
  <2>2. ASSUME NEW r \in Resource, Owned = {r},
               ctl' = [ctl EXCEPT !.res = r,
                         !.pc = IF ctl.snap.obs = "terminate_requested"
                                THEN "term_begin" ELSE "term_get"]
        PROVE  ControllerInv'
    <3>1. /\ ctl'.pc \in {"term_begin", "term_get"} /\ ctl'.res = r
          /\ ctl'.snap = ctl.snap /\ ctl'.upd = ctl.upd
      BY <1>0, <2>2 DEF TypeOK, ControllerState
    <3>2. inst[r] \in Listed
      BY <2>2 DEF Owned
    <3>3. row.id # NoResource => row.id = r
      BY <1>0, <3>2 DEF RowInv, Shown, CreateInv, Listed
    <3> QED BY <1>0, <2>0, <3>1, <3>2, <3>3
            DEF ControllerInv, Numbered, Forward, Shown, Creating, Holding
  <2>3. CASE \E e \in ErrorKind : RecordRetry(e)
    BY <1>0, <2>3, RetryEnds, EndsKeeps
  <2> QED BY <1>1, <2>1, <2>2, <2>3 DEF TermFind
<1>2. CASE TermGet
  <2>0. inst' = inst /\ row' = row /\ ctl.pc = "term_get" /\ ctl.pc \in Holding
    BY <1>2 DEF TermGet, Holding
  <2>1. CASE NotFound /\ ConfirmTerminated
    BY <2>0, <2>1, NotFoundIsGone, ConfirmKeeps
  <2>2. CASE Change(Keep, Keep, ctl.res)
    <3>1. /\ ctl'.pc = "write" /\ ctl'.snap = ctl.snap
          /\ ctl'.upd.des = Keep /\ ctl'.upd.obs = Keep /\ ctl'.upd.id = ctl.res
      BY <1>0, <2>2, ChangeStores
    <3> QED BY <1>0, <2>0, <3>1
            DEF ControllerInv, Numbered, Forward, Shown, Creating, Holding, Keep
  <2>3. CASE Goto("term_begin") \/ Goto("term_inventory")
    BY <1>0, <2>0, <2>3, GotoKeeps, HoldingKeeps DEF PC, Holding
  <2>4. CASE RecordTerminationRetry
    BY <1>0, <2>4, TerminationRetryEnds, EndsKeeps
  <2> QED BY <1>2, <2>1, <2>2, <2>3, <2>4 DEF TermGet
<1>3. CASE TermInventory
  <2>0. /\ inst' = inst /\ row' = row
        /\ ctl.pc = "term_inventory" /\ ctl.pc \in Holding
    BY <1>3 DEF TermInventory, Holding
  <2>1. CASE Owned = {} /\ ConfirmTerminated
    BY <2>0, <2>1, NotFoundIsGone, ConfirmKeeps
  <2>2. CASE Goto("term_begin")
    BY <1>0, <2>0, <2>2, GotoKeeps, HoldingKeeps DEF PC, Holding
  <2>3. CASE Goto("release")
    BY <1>0, <2>0, <2>3, GotoKeeps, IdleKeeps DEF PC
  <2>4. CASE RecordTerminationRetry
    BY <1>0, <2>4, TerminationRetryEnds, EndsKeeps
  <2> QED BY <1>3, <2>1, <2>2, <2>3, <2>4 DEF TermInventory
<1>4. CASE TermBegin
  <2>0. inst' = inst /\ row' = row /\ ctl.pc = "term_begin"
    BY <1>4 DEF TermBegin
  <2>1. CASE Goto("term_send")
    BY <1>0, <2>0, <2>1, GotoKeeps, HoldingKeeps DEF PC, Holding
  <2>2. CASE RecordTerminationRetry
    BY <1>0, <2>2, TerminationRetryEnds, EndsKeeps
  <2> QED BY <1>4, <2>1, <2>2 DEF TermBegin
<1>5. CASE TermSend
  <2>1. CASE Change(Keep, "terminating", ctl.res)
    <3>1. /\ ctl'.pc = "write" /\ ctl'.snap = ctl.snap
          /\ ctl'.upd.des = Keep /\ ctl'.upd.obs = "terminating"
          /\ ctl'.upd.id = ctl.res
      BY <1>0, <2>1, ChangeStores DEF RentalState
    <3>2. InstKept /\ Shown(ctl.res)
      BY <1>0, <1>5, InstStep DEF Next, Reconcile, TermSend, ControllerInv, Holding
    <3>3. Shown(ctl.upd.id)'
      BY <1>0, <3>1, <3>2, ShownKept DEF Shown
    <3> QED BY <1>0, <3>1, <3>3
            DEF ControllerInv, Numbered, Forward, Creating, Holding, Keep
  <2>2. CASE RecordTerminationRetry
    BY <1>0, <2>2, TerminationRetryEnds, EndsKeeps
  <2> QED BY <1>5, <2>1, <2>2 DEF TermSend
<1> QED BY <1>1, <1>2, <1>3, <1>4, <1>5

\* Every step keeps what the controller carries true.
LEMMA ControllerStep ==
    ASSUME Inv, [Next]_vars
    PROVE  ControllerInv'
<1>0. InstKept /\ (CreateSend \/ UnusedKept) /\ row \in RowState
  BY InstStep DEF Inv, TypeOK
<1>1. CASE UNCHANGED vars
  <2>1. UnusedKept /\ ctl' = ctl /\ row'.id = row.id /\ ops' = ops
    BY <1>1 DEF vars, UnusedKept
  <2> QED BY <1>0, <2>1, ControllerFrame
<1>2. CASE Authorize \/ RequestCreation \/ RequestTermination \/ LeaseExpires
           \/ LimitReached
  <2>1. UnusedKept /\ ctl' = ctl /\ row'.id = row.id /\ ops' = ops
    BY <1>0, <1>2 DEF Authorize, RequestCreation, RequestTermination,
       LeaseExpires, LimitReached, UnusedKept, RowState
  <2> QED BY <1>0, <2>1, ControllerFrame
<1>3. CASE ProviderDecides \/ ProviderMoves \/ ProviderDeletes
  <2>1. ctl' = ctl /\ row'.id = row.id /\ ops' = ops
    BY <1>3 DEF ProviderDecides, ProviderMoves, ProviderDeletes
  <2>2. CASE UnusedKept
    BY <1>0, <2>1, <2>2, ControllerFrame
  <2>3. CASE CreateSend
    BY <2>3, HandlerController
  <2> QED BY <1>0, <2>2, <2>3
<1>4. CASE StartController \/ Reconcile \/ Crash
  BY <1>4, LoopController, HandlerController, TerminationController DEF Reconcile
<1> QED BY <1>1, <1>2, <1>3, <1>4 DEF Next

\* A new rental satisfies the invariant.
LEMMA InitInv == Init => Inv
<1> SUFFICES ASSUME Init
             PROVE  Inv
  OBVIOUS
<1>1. TypeOK
  BY OffType, RentalAssumption
     DEF Init, TypeOK, NoRow, RowState, RentalState, InstanceState
<1>2. RowInv
  BY DEF Init, RowInv, NoRow, Numbered, Shown
<1>3. ConfirmedIsWithdrawn
  BY DEF Init, ConfirmedIsWithdrawn
<1>4. CreateInv
  BY DEF Init, CreateInv
<1>5. ControllerInv
  BY DEF Init, ControllerInv, Off, NoRow, NoUpdate, Keep, Numbered, Forward,
     Shown, Creating, Holding
<1> QED BY <1>1, <1>2, <1>3, <1>4, <1>5 DEF Inv

-----------------------------------------------------------------------------
(* The theorems.                                                           *)

\* Every reachable state satisfies the inductive invariant: what the
\* controller carries between its statements agrees with the row, the recorded
\* operations and the provider.
THEOREM InvHolds == Spec => []Inv
<1>1. Inv /\ [Next]_vars => Inv'
  BY TypeStep, RowStep, WithdrawnStep, CreateStep, ControllerStep DEF Inv
<1> QED BY InitInv, <1>1, PTL DEF Spec

\* The row, the operations, the listing, the controller and the instances keep
\* their types, for every set of resource ids and every budget of failures.
THEOREM TypeCorrect == Spec => []TypeOK
<1>1. Inv => TypeOK
  BY DEF Inv
<1> QED BY <1>1, InvHolds, PTL

\* However often calls fail, stay open or are cut off by the controller's
\* death, one authorization requests at most one resource.
THEOREM OneResourcePerRental == Spec => []OneResource
<1>1. Inv => OneResource
  <2> SUFFICES ASSUME Inv
               PROVE  OneResource
    OBVIOUS
  <2> DEFINE Used == {r \in Resource : inst[r] # "unused"}
  <2>1. \A r, s \in Used : r = s
    BY DEF Inv, CreateInv
  <2>2. CASE Used = {}
    BY <2>2, FS_EmptySet DEF OneResource
  <2>3. CASE \E r : r \in Used
    <3>1. PICK r : r \in Used
      BY <2>3
    <3>2. Used = {r}
      BY <2>1, <3>1
    <3>3. Cardinality({r}) = 1
      BY FS_Singleton
    <3> QED BY <3>2, <3>3 DEF OneResource
  <2> QED BY <2>2, <2>3
<1> QED BY <1>1, InvHolds, PTL

\* A rental whose recorded resource is no longer counted as billable has lost
\* that resource at the provider.
THEOREM ConfirmedRentalIsAbsent == Spec => []ConfirmedIsAbsent
<1>1. Inv => ConfirmedIsAbsent
  BY DEF Inv, RowInv, RowGone, ConfirmedIsAbsent, Billable, Listed
<1> QED BY <1>1, InvHolds, PTL

\* No publication or health poll leaves a confirmed rental in the catalogue.
THEOREM ConfirmedRentalIsWithdrawn == Spec => []ConfirmedIsWithdrawn
<1>1. Inv => ConfirmedIsWithdrawn
  BY DEF Inv
<1> QED BY <1>1, InvHolds, PTL

=============================================================================
