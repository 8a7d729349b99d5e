------------------------------ MODULE GpuRental ------------------------------
(***************************************************************************)
(* One rented GPU: its row in gpu_rentals, the operations recorded for it, *)
(* its entry in the runtime-provider catalogue, the controller process     *)
(* that reconciles the row with the provider's inventory, the TUI that     *)
(* authorizes and terminates the rental, and the provider.                 *)
(*                                                                         *)
(* A reconcile works on the snapshot its claim returned.  Every provider   *)
(* call and every database statement is a step of its own, so the TUI can  *)
(* write the row, the provider can change the instance and the controller  *)
(* can die between any two of them.  Rows of different rentals do not      *)
(* interact, and gpu-controller.lock admits one controller at a time.      *)
(***************************************************************************)
EXTENDS Naturals, FiniteSets

CONSTANTS
    Resource,       \* provider resource ids
    NoResource,     \* stands for "no resource id"
    Budget          \* how often each environment event may happen

\* Failed reads and creates, failed terminations, controller deaths, and
\* health or provisioning setbacks.
Event == {"error", "termination", "crash", "setback"}

ASSUME RentalAssumption ==
    /\ NoResource \notin Resource
    /\ Budget \in [Event -> Nat]

\* GpuRentalState, and "absent" for a rental that has no row.  Draft is never
\* written; downloading and starting are handled like bootstrapping.
RentalState ==
    {"absent", "quoted", "create_pending", "allocating", "bootstrapping",
     "probing", "ready", "degraded", "terminate_requested", "terminating",
     "terminated_confirmed", "termination_unconfirmed", "reconciling",
     "orphaned", "failed"}

Keep == "keep"      \* a column the update does not mention

\* ProviderErrorKind: rate limits and server errors are retryable, whatever
\* the client should not repeat is permanent.
ErrorKind == {"ambiguous", "retryable", "permanent"}

\* A requested instance that is not visible yet, or never will be; the states
\* the inventory shows; and one that has disappeared from it.
Listed == {"allocating", "running", "stopped", "failed", "deleting"}
InstanceState == Listed \cup {"unused", "pending", "rejected", "gone"}

Serving == {"ready", "degraded"}

PC == {"off", "claim", "poll", "billing", "limit", "release", "write",
       "create_find", "create_begin", "create_send", "create_wait",
       "allocating", "provision", "phase", "probe", "publish",
       "ready", "health", "list_ready", "list_degraded",
       "term_find", "term_get", "term_inventory", "term_begin", "term_send"}

\* Where the controller goes on after it has written an update.
AfterWrite == {"poll", "publish", "list_ready", "list_degraded"}

VARIABLES
    row,        \* durable: the row of gpu_rentals
    ops,        \* durable: the keys of gpu_rental_operations
    listing,    \* durable: health of the gpu_runtime_providers row
    ctl,        \* the controller process
    inst,       \* the provider's instances
    overLimit,  \* the authorized time or spend is used up
    budget      \* environment events left

vars == <<row, ops, listing, ctl, inst, overLimit, budget>>

NoUpdate == [des |-> Keep, obs |-> Keep, id |-> NoResource, retry |-> "due",
             then |-> "poll"]
NoRow == [des |-> "absent", obs |-> "absent", id |-> NoResource, seq |-> 0,
          retry |-> "due", lease |-> "none"]
Off == [pc |-> "off", snap |-> NoRow, res |-> NoResource, upd |-> NoUpdate]

RowState ==
    [des : RentalState, obs : RentalState, id : Resource \cup {NoResource},
     seq : Nat, retry : {"due", "never"}, lease : {"none", "live", "dead"}]
UpdateState ==
    [des : RentalState \cup {Keep}, obs : RentalState \cup {Keep},
     id : Resource \cup {NoResource}, retry : {"due", "never"}, then : AfterWrite]
ControllerState ==
    [pc : PC, snap : RowState, res : Resource \cup {NoResource},
     upd : UpdateState]

Init ==
    /\ row = NoRow /\ ops = {} /\ listing = "none"
    /\ ctl = Off
    /\ inst = [r \in Resource |-> "unused"]
    /\ overLimit = FALSE
    /\ budget = Budget

Spend(e) == budget[e] > 0 /\ budget' = [budget EXCEPT ![e] = @ - 1]

-----------------------------------------------------------------------------
(* The row.                                                                *)

\* GpuRental::may_be_billable.
Billable(r) ==
    \/ r.obs \notin {"absent", "quoted", "terminated_confirmed", "failed"}
    \/ r.id # NoResource /\ r.obs # "terminated_confirmed"

\* create_gpu_rental.
Authorize ==
    /\ row.obs = "absent"
    /\ row' = [row EXCEPT !.des = "quoted", !.obs = "quoted"]
    /\ UNCHANGED <<ops, listing, ctl, inst, overLimit, budget>>

\* request_gpu_rental_creation.
RequestCreation ==
    /\ row.des = "quoted" /\ row.obs = "quoted" /\ ~overLimit
    /\ row' = [row EXCEPT !.des = "create_pending", !.seq = @ + 1,
                          !.retry = "due"]
    /\ UNCHANGED <<ops, listing, ctl, inst, overLimit, budget>>

\* TerminateGpuRental in the TUI: the listing is degraded and
\* request_gpu_rental_termination writes the row, whoever holds the lease (two
\* statements, taken together).
RequestTermination ==
    /\ row.obs \notin {"absent", "terminated_confirmed"}
    /\ row' = [row EXCEPT
          !.des = "terminate_requested", !.retry = "due",
          !.seq = IF row.des = "terminate_requested" THEN @ ELSE @ + 1]
    /\ listing' = IF listing = "none" THEN "none" ELSE "degraded"
    /\ UNCHANGED <<ops, ctl, inst, overLimit, budget>>

\* Mutant: columns the update does not mention are cleared.
UpdatedWithoutCoalesce(u) ==
    [des |-> u.des, obs |-> u.obs, id |-> u.id, seq |-> row.seq + 1,
     retry |-> u.retry, lease |-> "none"]

\* The row update_gpu_rental leaves: the sequence counts state changes, and
\* the lease is given up.
Updated(u) ==
    LET changed == \/ u.des \notin {Keep, row.des}
                   \/ u.obs \notin {Keep, row.obs}
    IN  [des |-> IF u.des = Keep THEN row.des ELSE u.des,
         obs |-> IF u.obs = Keep THEN row.obs ELSE u.obs,
         id |-> IF u.id = NoResource THEN row.id ELSE u.id,
         seq |-> IF changed THEN row.seq + 1 ELSE row.seq,
         retry |-> u.retry, lease |-> "none"]

-----------------------------------------------------------------------------
(* How a reconcile ends.                                                   *)

Goto(pc) == ctl' = [ctl EXCEPT !.pc = pc]

\* The update that the reconcile is about to write.
Finish(u) == ctl' = [ctl EXCEPT !.pc = "write", !.upd = u]
Change(des, obs, id) ==
    Finish([NoUpdate EXCEPT !.des = des, !.obs = obs, !.id = id])

\* record_retry.
RecordRetry(e) ==
    Change(Keep, IF e = "ambiguous" THEN "reconciling"
                 ELSE IF ctl.snap.obs = "terminating"
                 THEN "termination_unconfirmed" ELSE Keep, NoResource)

\* record_terminal_failure: cleanup when there may be something to bill.
RecordTerminalFailure ==
    IF Billable(ctl.snap)
    THEN Change("terminate_requested", "termination_unconfirmed", NoResource)
    ELSE Finish([NoUpdate EXCEPT !.des = "failed", !.obs = "failed",
                                 !.retry = "never"])

\* record_termination_retry.
RecordTerminationRetry ==
    Change(Keep, "termination_unconfirmed", NoResource)

\* confirm_terminated.
ConfirmTerminated ==
    Finish([NoUpdate EXCEPT !.des = "terminated_confirmed",
               !.obs = "terminated_confirmed", !.retry = "never"])

\* Mutant: confirmation leaves the listing behind.
WriteKeepsListing ==
    /\ ctl.pc = "write" /\ row.lease = "live"
    /\ row' = Updated(ctl.upd)
    /\ ctl' = [Off EXCEPT !.pc = ctl.upd.then]
    /\ UNCHANGED <<ops, listing, inst, overLimit, budget>>

\* apply_update; confirmation also deletes the listing, in one transaction.
Write ==
    LET u == ctl.upd IN
    /\ ctl.pc = "write" /\ row.lease = "live"
    /\ row' = Updated(u)
    /\ listing' = IF u.obs = "terminated_confirmed" THEN "none" ELSE listing
    /\ ctl' = [Off EXCEPT !.pc = u.then]
    /\ UNCHANGED <<ops, inst, overLimit, budget>>

\* release_later.
Release ==
    /\ ctl.pc = "release" /\ row.lease = "live"
    /\ row' = [row EXCEPT !.lease = "none", !.retry = "due"]
    /\ ctl' = [Off EXCEPT !.pc = "poll"]
    /\ UNCHANGED <<ops, listing, inst, overLimit, budget>>

-----------------------------------------------------------------------------
(* The controller loop and the routing of a claimed rental.                *)

\* start_gpu_controller; with the lock taken a second process just leaves.
StartController ==
    /\ ctl.pc = "off"
    /\ Goto("claim")
    /\ UNCHANGED <<row, ops, listing, inst, overLimit, budget>>

Terminating(r) ==
    \/ r.des = "terminate_requested"
    \/ r.obs \in {"terminate_requested", "terminating",
                  "termination_unconfirmed"}

\* reconcile_termination starts from the recorded resource id, if any.
TerminationStart(r) ==
    IF r.id = NoResource THEN "term_find"
    ELSE IF r.obs = "terminate_requested" THEN "term_begin" ELSE "term_get"

\* reconcile_lease: cleanup first, then spend, then the limit.
Route(r) ==
    IF Terminating(r) THEN TerminationStart(r)
    ELSE IF Billable(r) /\ r.id # NoResource THEN "billing" ELSE "limit"

\* The handler of each observed state.
Handler(r) ==
    CASE r.obs = "quoted" /\ r.des = "create_pending" -> "create_find"
      [] r.obs \in {"allocating", "reconciling"} -> "allocating"
      [] r.obs \in {"bootstrapping", "probing"} -> "provision"
      [] r.obs \in Serving -> "ready"
      [] OTHER -> "release"

\* claim_due_gpu_rentals_inner: due, not terminal, and not leased to another
\* owner.
Claimable ==
    /\ row.retry = "due" /\ row.lease # "dead"
    /\ row.obs \notin {"absent", "terminated_confirmed"}

\* reconcile_due: the listings of confirmed rentals are pruned, then the
\* rental is claimed.
Claim ==
    /\ ctl.pc = "claim"
    /\ listing' = IF row.obs = "terminated_confirmed" THEN "none" ELSE listing
    /\ IF Claimable
       THEN /\ row' = [row EXCEPT !.lease = "live"]
            /\ ctl' = [Off EXCEPT !.pc = Route(row), !.snap = row',
                                  !.res = row.id]
       ELSE Goto("poll") /\ UNCHANGED row
    /\ UNCHANGED <<ops, inst, overLimit, budget>>

\* The loop goes on while some rental may be billable.
Poll ==
    /\ ctl.pc = "poll"
    /\ Goto(IF Billable(row) THEN "claim" ELSE "off")
    /\ UNCHANGED <<row, ops, listing, inst, overLimit, budget>>

\* billing_state.
Billing ==
    /\ ctl.pc = "billing"
    /\ \/ Goto("limit") /\ UNCHANGED budget
       \/ Spend("error") /\ \E e \in ErrorKind : RecordRetry(e)
    /\ UNCHANGED <<row, ops, listing, inst, overLimit>>

\* Mutant: the limit is only enforced on a rental that serves.
LimitWhenServing ==
    /\ ctl.pc = "limit"
    /\ IF ctl.snap.obs \in Serving /\ overLimit
       THEN Change("terminate_requested", "terminate_requested", NoResource)
       ELSE Goto(Handler(ctl.snap))
    /\ UNCHANGED <<row, ops, listing, inst, overLimit, budget>>

\* The TTL or the spend cap ends any rental that may be billable.
Limit ==
    /\ ctl.pc = "limit"
    /\ IF Billable(ctl.snap) /\ overLimit
       THEN Change("terminate_requested", "terminate_requested", NoResource)
       ELSE Goto(Handler(ctl.snap))
    /\ UNCHANGED <<row, ops, listing, inst, overLimit, budget>>

-----------------------------------------------------------------------------
(* Reading the provider's inventory.                                       *)

\* The instances that carry the rental's ownership tag.
Owned == {r \in Resource : inst[r] \in Listed}

\* find_owned fails with the call, or when the tag is not unique.
FindFails(e) ==
    IF Cardinality(Owned) > 1
    THEN e = "permanent" /\ UNCHANGED budget
    ELSE Spend("error")

\* get_instance(r) and find_owned as one lookup: by id once it is known.
Found(r) == IF ctl.res = NoResource THEN Owned = {r}
            ELSE r = ctl.res /\ inst[r] \in Listed
NotFound == IF ctl.res = NoResource THEN Owned = {}
            ELSE inst[ctl.res] \notin Listed

-----------------------------------------------------------------------------
(* reconcile_create, adopt_instance and reconcile_allocating.              *)

Adopt(r) ==
    Change(Keep, IF inst[r] = "running" THEN "bootstrapping" ELSE "allocating", r)

CreateFind ==
    /\ ctl.pc = "create_find"
    /\ \/ \E r \in Resource : Owned = {r} /\ Adopt(r) /\ UNCHANGED budget
       \/ Owned = {} /\ Goto("create_begin") /\ UNCHANGED budget
       \/ \E e \in ErrorKind : FindFails(e) /\ RecordRetry(e)
    /\ UNCHANGED <<row, ops, listing, inst, overLimit>>

\* Mutant: a conflicting operation key does not stop the create.
CreateBeginAgain ==
    /\ ctl.pc = "create_begin"
    /\ ops' = ops \cup {<<"create", ctl.snap.seq>>}
    /\ Goto("create_send")
    /\ UNCHANGED <<row, listing, inst, overLimit, budget>>

\* The recipe, the offer and the credentials are checked, then the operation
\* is recorded under the state sequence of the snapshot.
CreateBegin ==
    LET op == <<"create", ctl.snap.seq>> IN
    /\ ctl.pc = "create_begin"
    /\ \/ /\ ops' = ops \cup {op}
          /\ IF op \in ops THEN RecordRetry("ambiguous") ELSE Goto("create_send")
       \/ RecordTerminalFailure /\ UNCHANGED ops
       \/ RecordRetry("retryable") /\ UNCHANGED ops
    /\ UNCHANGED <<row, listing, inst, overLimit, budget>>

\* create_instance reaches the provider.
CreateSend ==
    /\ ctl.pc = "create_send"
    /\ \E r \in Resource :
          /\ inst[r] = "unused"
          /\ inst' = [inst EXCEPT ![r] = "pending"]
          /\ ctl' = [ctl EXCEPT !.pc = "create_wait", !.res = r]
    /\ UNCHANGED <<row, ops, listing, overLimit, budget>>

\* Its answer: the instance, a refusal, or an error that leaves open what the
\* provider does with the request.
CreateWait ==
    LET r == ctl.res IN
    /\ ctl.pc = "create_wait"
    /\ \/ inst[r] \notin {"pending", "rejected"} /\ Adopt(r) /\ UNCHANGED budget
       \/ inst[r] = "rejected" /\ RecordTerminalFailure /\ UNCHANGED budget
       \/ /\ Spend("error")
          /\ \E e \in ErrorKind \ {"permanent"} : RecordRetry(e)
    /\ UNCHANGED <<row, ops, listing, inst, overLimit>>

\* reconcile_allocating.
Allocating ==
    /\ ctl.pc = "allocating"
    /\ \/ /\ \E r \in Resource :
                /\ Found(r)
                /\ IF inst[r] = "failed"
                   THEN Change("terminate_requested", "terminate_requested", r)
                   ELSE Adopt(r)
          /\ UNCHANGED budget
       \/ /\ NotFound
          /\ IF ctl.res = NoResource THEN Change(Keep, "orphaned", NoResource)
             ELSE RecordTerminalFailure
          /\ UNCHANGED budget
       \/ \E e \in ErrorKind : FindFails(e) /\ RecordRetry(e)
    /\ UNCHANGED <<row, ops, listing, inst, overLimit>>

-----------------------------------------------------------------------------
(* request_provisioning and reconcile_ready.                               *)

\* The instance is looked up; a missed deadline, the wrong hardware, a lost
\* or stopped instance or an unknown recipe ends the rental.
Provision ==
    /\ ctl.pc = "provision"
    /\ \/ inst[ctl.res] = "running" /\ Goto("phase") /\ UNCHANGED budget
       \/ RecordTerminalFailure /\ UNCHANGED budget
       \/ /\ inst[ctl.res] \in {"allocating", "deleting"}
          /\ Goto("release") /\ UNCHANGED budget
       \/ Spend("error") /\ \E e \in ErrorKind : RecordRetry(e)
    /\ UNCHANGED <<row, ops, listing, inst, overLimit>>

\* provision_phase, when the provider can tell, drives the observed state.
Phase ==
    /\ ctl.pc = "phase"
    /\ \/ /\ IF ctl.snap.obs = "probing" THEN Spend("setback")
             ELSE UNCHANGED budget
          /\ Change(Keep, "bootstrapping", NoResource)
       \/ Change(Keep, "probing", NoResource) /\ UNCHANGED budget
       \/ ctl.snap.obs = "probing" /\ Goto("probe") /\ UNCHANGED budget
    /\ UNCHANGED <<row, ops, listing, inst, overLimit>>

\* The lookup of the endpoint, whose answer may be ambiguous, and the
\* authenticated readiness probe; success is written and then published.
Probe ==
    /\ ctl.pc = "probe"
    /\ \/ /\ Finish([NoUpdate EXCEPT !.des = "ready", !.obs = "ready",
                                     !.then = "publish"])
          /\ UNCHANGED budget
       \/ RecordRetry("retryable") /\ UNCHANGED budget
       \/ Spend("error") /\ RecordRetry("ambiguous")
       \/ RecordTerminalFailure /\ UNCHANGED budget
    /\ UNCHANGED <<row, ops, listing, inst, overLimit>>

\* upsert_gpu_runtime_provider.
Publish ==
    /\ ctl.pc = "publish"
    /\ listing' = IF row.obs \in Serving THEN "ready" ELSE listing
    /\ Goto("poll")
    /\ UNCHANGED <<row, ops, inst, overLimit, budget>>

\* reconcile_ready: a lost instance closes the rental, a stopped one is
\* cleaned up.
Ready ==
    /\ ctl.pc = "ready"
    /\ \/ NotFound /\ ConfirmTerminated /\ UNCHANGED budget
       \/ /\ inst[ctl.res] \in {"stopped", "failed"}
          /\ Change("terminate_requested", "terminate_requested", NoResource)
          /\ UNCHANGED budget
       \/ /\ inst[ctl.res] \in {"allocating", "running", "deleting"}
          /\ Goto("health") /\ UNCHANGED budget
       \/ Spend("error") /\ \E e \in ErrorKind : RecordRetry(e)
    /\ UNCHANGED <<row, ops, listing, inst, overLimit>>

\* The health probe sets the observed state, and then the listing.
Health ==
    /\ ctl.pc = "health"
    /\ \/ /\ Finish([NoUpdate EXCEPT !.obs = "ready", !.then = "list_ready"])
          /\ UNCHANGED budget
       \/ /\ IF ctl.snap.obs = "ready" THEN Spend("setback")
             ELSE UNCHANGED budget
          /\ Finish([NoUpdate EXCEPT !.obs = "degraded",
                                     !.then = "list_degraded"])
    /\ UNCHANGED <<row, ops, listing, inst, overLimit>>

\* refresh_gpu_runtime_provider when the endpoint moved (it inserts a missing
\* row), otherwise an update of the row's health.
List ==
    LET health == IF ctl.pc = "list_ready" THEN "ready" ELSE "degraded" IN
    /\ ctl.pc \in {"list_ready", "list_degraded"}
    /\ \E moved \in BOOLEAN :
          listing' = IF listing # "none" \/ (moved /\ row.obs \in Serving)
                     THEN health ELSE listing
    /\ Goto("poll")
    /\ UNCHANGED <<row, ops, inst, overLimit, budget>>

-----------------------------------------------------------------------------
(* reconcile_termination and send_termination.                             *)

TermFind ==
    /\ ctl.pc = "term_find"
    /\ \/ Owned = {} /\ ConfirmTerminated /\ UNCHANGED budget
       \/ /\ \E r \in Resource :
                /\ Owned = {r}
                /\ ctl' = [ctl EXCEPT !.res = r,
                      !.pc = IF ctl.snap.obs = "terminate_requested"
                             THEN "term_begin" ELSE "term_get"]
          /\ UNCHANGED budget
       \/ \E e \in ErrorKind : FindFails(e) /\ RecordRetry(e)
    /\ UNCHANGED <<row, ops, listing, inst, overLimit>>

TermGet ==
    /\ ctl.pc = "term_get"
    /\ \/ NotFound /\ ConfirmTerminated /\ UNCHANGED budget
       \/ /\ inst[ctl.res] \in Listed
          /\ IF ctl.snap.obs = "terminating" THEN Change(Keep, Keep, ctl.res)
             ELSE Goto("term_begin")
          /\ UNCHANGED budget
       \/ /\ Spend("error")
          /\ Goto("term_inventory") \/ RecordTerminationRetry
    /\ UNCHANGED <<row, ops, listing, inst, overLimit>>

\* After an ambiguous lookup the inventory decides.
TermInventory ==
    /\ ctl.pc = "term_inventory"
    /\ \/ /\ Cardinality(Owned) <= 1 /\ UNCHANGED budget
          /\ IF ctl.snap.obs # "terminating" THEN Goto("term_begin")
             ELSE IF Owned = {} THEN ConfirmTerminated ELSE Goto("release")
       \/ \E e \in ErrorKind : FindFails(e) /\ RecordTerminationRetry
    /\ UNCHANGED <<row, ops, listing, inst, overLimit>>

\* One request per state sequence.
TermBegin ==
    LET op == <<"terminate", ctl.snap.seq>> IN
    /\ ctl.pc = "term_begin"
    /\ ops' = ops \cup {op}
    /\ IF op \in ops THEN RecordTerminationRetry ELSE Goto("term_send")
    /\ UNCHANGED <<row, listing, inst, overLimit, budget>>

\* Mutant: an accepted request is taken for the end of the instance.
TermSendConfirms ==
    /\ ctl.pc = "term_send"
    /\ inst' = [inst EXCEPT ![ctl.res] = IF @ \in Listed THEN "deleting" ELSE @]
    /\ ConfirmTerminated
    /\ UNCHANGED <<row, ops, listing, overLimit, budget>>

\* terminate_instance: accepted, or an error that may hide an acceptance.
TermSend ==
    LET accept == [inst EXCEPT ![ctl.res] = IF @ \in Listed THEN "deleting" ELSE @]
    IN
    /\ ctl.pc = "term_send"
    /\ \/ inst' = accept /\ Change(Keep, "terminating", ctl.res) /\ UNCHANGED budget
       \/ /\ Spend("termination")
          /\ inst' \in {inst, accept}
          /\ RecordTerminationRetry
    /\ UNCHANGED <<row, ops, listing, overLimit>>

-----------------------------------------------------------------------------
(* The environment.                                                        *)

\* The controller dies, or a statement fails and it exits.
Crash ==
    /\ ctl.pc # "off"
    /\ Spend("crash")
    /\ ctl' = Off
    /\ row' = [row EXCEPT !.lease = IF @ = "live" THEN "dead" ELSE @]
    /\ UNCHANGED <<ops, listing, inst, overLimit>>

\* lease_ttl_ms passes after the owner died.
LeaseExpires ==
    /\ row.lease = "dead"
    /\ row' = [row EXCEPT !.lease = "none"]
    /\ UNCHANGED <<ops, listing, ctl, inst, overLimit, budget>>

LimitReached ==
    /\ row.obs # "absent" /\ ~overLimit
    /\ overLimit' = TRUE
    /\ UNCHANGED <<row, ops, listing, ctl, inst, budget>>

\* The provider decides on a request, however late.
ProviderDecides ==
    /\ \E r \in Resource : /\ inst[r] = "pending"
                           /\ \E s \in {"allocating", "rejected"} :
                                 inst' = [inst EXCEPT ![r] = s]
    /\ UNCHANGED <<row, ops, listing, ctl, overLimit, budget>>

\* Instances start, fail, stop and are lost on their own.
ProviderMoves ==
    /\ \E r \in Resource :
          \/ /\ inst[r] = "allocating"
             /\ inst' = [inst EXCEPT ![r] = "running"]
          \/ /\ inst[r] \in {"allocating", "running"}
             /\ \E s \in {"stopped", "failed", "gone"} :
                   inst' = [inst EXCEPT ![r] = s]
    /\ UNCHANGED <<row, ops, listing, ctl, overLimit, budget>>

\* A terminated instance leaves the inventory.
ProviderDeletes ==
    /\ \E r \in Resource : /\ inst[r] = "deleting"
                           /\ inst' = [inst EXCEPT ![r] = "gone"]
    /\ UNCHANGED <<row, ops, listing, ctl, overLimit, budget>>

-----------------------------------------------------------------------------
Reconcile ==
    \/ Claim \/ Poll \/ Billing \/ Limit \/ Write \/ Release
    \/ CreateFind \/ CreateBegin \/ CreateSend \/ CreateWait \/ Allocating
    \/ Provision \/ Phase \/ Probe \/ Publish \/ Ready \/ Health \/ List
    \/ TermFind \/ TermGet \/ TermInventory \/ TermBegin \/ TermSend

Next ==
    \/ Authorize \/ RequestCreation \/ RequestTermination \/ StartController
    \/ Reconcile
    \/ Crash \/ LeaseExpires \/ LimitReached
    \/ ProviderDecides \/ ProviderMoves \/ ProviderDeletes

Spec == Init /\ [][Next]_vars

\* A running controller goes on and a TUI starts another one after it ended,
\* time passes, and the provider settles what it was asked to do.
FairSpec ==
    /\ Spec
    /\ WF_vars(Reconcile) /\ WF_vars(StartController) /\ WF_vars(LeaseExpires)
    /\ WF_vars(ProviderDecides) /\ WF_vars(ProviderDeletes)

-----------------------------------------------------------------------------
(* Properties.                                                             *)

\* The row, the recorded operations, the listing, the controller and the
\* instances keep their types.
TypeOK ==
    /\ row \in RowState
    /\ ops \in SUBSET ({"create", "terminate"} \X Nat)
    /\ listing \in {"none", "ready", "degraded"}
    /\ ctl \in ControllerState
    /\ inst \in [Resource -> InstanceState]
    /\ overLimit \in BOOLEAN
    /\ budget \in [Event -> Nat]

\* One authorization asks the provider for at most one resource, whatever
\* calls fail or stay open and wherever the controller dies.
OneResource == Cardinality({r \in Resource : inst[r] # "unused"}) <= 1

\* A resource whose id is recorded leaves the spend overview only when the
\* provider no longer lists it.
ConfirmedIsAbsent ==
    row.id # NoResource /\ ~Billable(row) => inst[row.id] \notin Listed

\* A confirmed rental has no entry in the model catalogue: no health poll or
\* late publication brings it back.
ConfirmedIsWithdrawn == row.obs = "terminated_confirmed" => listing = "none"

\* Once the authorized time or spend is used up, a rental that may be billable
\* is confirmed gone or shown as unconfirmed cleanup.
LimitIsActedOn ==
    overLimit /\ Billable(row) ~>
        row.obs \in {"terminated_confirmed", "termination_unconfirmed"}

\* Once the authorized time or spend is used up, billing ends: the cleanup of
\* a rental that may be billable converges.
LimitEndsBilling ==
    overLimit /\ Billable(row) ~> row.obs = "terminated_confirmed"

\* A termination the user was told is requested is not forgotten: while there
\* may be something to bill, the desired state only moves on to confirmed
\* termination.
TerminationRequestIsKept ==
    [][row.des = "terminate_requested" /\ Billable(row) =>
          row'.des \in {"terminate_requested", "terminated_confirmed"}]_vars

=============================================================================
