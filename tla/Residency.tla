------------------------------ MODULE Residency ------------------------------
(***************************************************************************)
(* Which sub-agents codex-rs keeps in memory: the LRU of resident threads  *)
(* and its pending slots (residency.rs), the registry of known agents and  *)
(* its counter (registry.rs), the thread manager's map, and the callers    *)
(* that spawn, load, message, close and resume agents (mailbox.rs,         *)
(* spawn.rs, legacy.rs, thread_manager.rs).                                *)
(*                                                                         *)
(* Each lock is held for one step; callers interleave at every await, and  *)
(* a tool call can be dropped at one.  An agent is a thread id; several    *)
(* agents can have the same path, one after the other.  A session is a     *)
(* pair of an agent and a generation, because a caller can hold a session  *)
(* that has meanwhile been replaced.                                       *)
(***************************************************************************)
EXTENDS Naturals, Sequences, FiniteSets, Functions

CONSTANTS
    Agent,          \* agents
    NoAgent,        \* stands for "no agent"
    Restored,       \* agents restore_v2_agent_metadata registered at start
    Path,           \* agent paths
    PathOf,         \* the path of each agent
    Caller,         \* tasks that address agents
    Capacity,       \* effective_agent_max_threads
    UsizeMax,       \* usize::MAX
    Budgets         \* how often each operation is called and calls are cancelled

Operation == {"spawn", "message", "close", "resume"}

Event == Operation \cup {"cancel"}

ASSUME ResidencyAssumption ==
    /\ IsFiniteSet(Agent) /\ IsFiniteSet(Caller) /\ Caller # {}
    /\ NoAgent \notin Agent /\ Restored \subseteq Agent
    /\ IsFiniteSet(Path) /\ PathOf \in [Agent -> Path]
    /\ \A a, b \in Restored : PathOf[a] = PathOf[b] => a = b
    /\ Capacity \in Nat \ {0}
    /\ UsizeMax \in Nat /\ Cardinality(Path) + Cardinality(Caller) <= UsizeMax
    /\ Budgets \subseteq [Event -> Nat]

VARIABLES
    residents,  \* V2ResidencyState.residents, oldest first
    pending,    \* V2ResidencyState.pending_slots
    owner,      \* agent_tree: the agent registered under each path
    reserved,   \* agent_tree: paths with an entry that names no agent
    total,      \* AgentRegistry.total_count
    map,        \* the thread manager: generation of the loaded session, or 0
    live,       \* sessions whose submission loop runs
    gen,        \* how many sessions each agent has had
    busy,       \* agents whose session is not unloadable
    call,       \* what each caller is doing
    stray,      \* history: agents left in memory outside the list
    clashed,    \* history: the entry of an unfinished spawn was overwritten
    budget

registryVars == <<owner, reserved, total, clashed>>
threadVars == <<map, live, gen, busy>>
vars == <<residents, pending, registryVars, threadVars, call, stray, budget>>

Done == [pc |-> "idle", op |-> "message", agent |-> NoAgent, slot |-> FALSE,
         reservation |-> FALSE, path |-> FALSE, scan |-> 0, victim |-> NoAgent,
         held |-> 0]

Init ==
    /\ residents = <<>> /\ pending = 0
    /\ owner \in [Path -> Restored \cup {NoAgent}] /\ reserved = {}
    /\ \A a \in Restored : owner[PathOf[a]] = a
    /\ \A p \in Path : owner[p] # NoAgent => PathOf[owner[p]] = p
    /\ total = Cardinality(Restored)
    /\ map = [a \in Agent |-> 0] /\ live = {} /\ gen = [a \in Agent |-> 0]
    /\ busy = [a \in Agent |-> FALSE]
    /\ call = [c \in Caller |-> Done]
    /\ stray = {} /\ clashed = FALSE
    /\ budget \in Budgets

Loaded(a) == map[a] # 0

\* The agent's id is in thread_paths, the inverse of agent_tree.
Known(a) == owner[PathOf[a]] = a

\* A caller moves on, with what it holds.
Becomes(c, k) == call' = [call EXCEPT ![c] = k]

Goto(c, pc) == Becomes(c, [call[c] EXCEPT !.pc = pc])

Return(c) == Becomes(c, Done)

\* retain(|id| id != a).  An id is in the list at most once.
Without(s, a) ==
    IF a \notin Range(s) THEN s
    ELSE LET i == CHOOSE j \in DOMAIN s : s[j] = a
         IN  [j \in 1..(Len(s) - 1) |-> IF j < i THEN s[j] ELSE s[j + 1]]

\* touch_resident.
Touch(s, a) == Append(Without(s, a), a)

\* commit_slot and release_pending_slot: saturating_sub.
Released(n) == IF n > 0 THEN n - 1 ELSE 0

\* fetch_add and fetch_sub on the registry's usize wrap around.
Increment(n) == IF n < UsizeMax THEN n + 1 ELSE 0
Decrement(n) == IF n > 0 THEN n - 1 ELSE UsizeMax

\* An agent the LRU knows, or that a caller is about to put (back) into it.
Tracked ==
    Range(residents)
    \cup {call[c].victim : c \in Caller}
    \cup {call[c].agent : c \in {d \in Caller :
              call[d].pc \in {"record", "commit"} /\ call[d].op # "resume"}}

\* The agent may have lost its place in the list: if it is still in memory, it
\* is astray until it is in neither.
Strays(a) ==
    stray' = IF a \in Tracked' THEN stray
             ELSE IF map'[a] # 0 THEN stray \cup {a} ELSE stray \ {a}

\* Another caller has reserved this agent's path and not committed it yet.
Clashes(c, a) == \E d \in Caller \ {c} : call[d].path /\ PathOf[call[d].agent] = PathOf[a]

-----------------------------------------------------------------------------
(* Callers.                                                                *)

\* A spawn makes a new thread id.
Fresh(a) ==
    /\ gen[a] = 0 /\ a \notin Restored
    /\ \A d \in Caller : call[d].op = "spawn" => call[d].agent # a

\* spawn_agent_internal, ensure_v2_agent_loaded before a message, close_agent,
\* and resume_thread_with_history of a thread that is a sub-agent.
Start(c) ==
    /\ call[c].pc = "idle"
    /\ \E op \in Operation, a \in Agent :
          /\ budget[op] > 0 /\ budget' = [budget EXCEPT ![op] = @ - 1]
          /\ CASE op = "spawn" -> Fresh(a)
               [] op = "resume" -> gen[a] > 0 \/ a \in Restored
               [] OTHER -> Known(a)
          /\ Becomes(c, [Done EXCEPT !.op = op, !.agent = a,
                 !.pc = CASE op = "spawn" -> "reserve" [] op = "message" -> "look"
                          [] op = "close" -> "stop" [] op = "resume" -> "check"])
    /\ UNCHANGED <<residents, pending, registryVars, threadVars, stray>>

\* ensure_v2_agent_loaded: a loaded agent is only touched, an unknown one
\* refused.
Look(c) ==
    LET a == call[c].agent IN
    /\ call[c].pc = "look"
    /\ \/ Loaded(a) /\ Goto(c, "touch")
       \/ ~Loaded(a) /\ ~Known(a) /\ Return(c)
       \/ ~Loaded(a) /\ Known(a) /\ Goto(c, "reserve")
    /\ UNCHANGED <<residents, pending, registryVars, threadVars, stray, budget>>

\* Mutant: the thread that was last popped is touched.
TouchVictim(c) ==
    /\ call[c].pc = "touch"
    /\ residents' = IF Loaded(call[c].agent) THEN Touch(residents, call[c].victim)
                    ELSE residents
    /\ Goto(c, "send")
    /\ UNCHANGED <<pending, registryVars, threadVars, stray, budget>>

\* touch_loaded_v2_residency.
TouchLoaded(c) ==
    LET a == call[c].agent IN
    /\ call[c].pc = "touch"
    /\ residents' = IF Loaded(a) THEN Touch(residents, a) ELSE residents
    /\ Goto(c, "send")
    /\ UNCHANGED <<pending, registryVars, threadVars, stray, budget>>

-----------------------------------------------------------------------------
(* reserve_slot.                                                           *)

\* Mutant: only the pending slots are counted.
ReserveSlotPendingOnly(c) ==
    /\ call[c].pc = "reserve"
    /\ \/ /\ pending < Capacity
          /\ pending' = pending + 1
          /\ Becomes(c, [call[c] EXCEPT !.slot = TRUE,
                 !.pc = IF call[c].op = "spawn" THEN "register" ELSE "check"])
       \/ /\ pending >= Capacity
          /\ Becomes(c, [call[c] EXCEPT !.pc = "pop", !.scan = Len(residents)])
          /\ UNCHANGED pending
    /\ UNCHANGED <<residents, registryVars, threadVars, stray, budget>>

\* try_reserve_pending_slot, or the start of try_unload_one_resident.
ReserveSlot(c) ==
    /\ call[c].pc = "reserve"
    /\ \/ /\ Len(residents) + pending < Capacity
          /\ pending' = pending + 1
          /\ Becomes(c, [call[c] EXCEPT !.slot = TRUE,
                 !.pc = IF call[c].op = "spawn" THEN "register" ELSE "check"])
       \/ /\ Len(residents) + pending >= Capacity
          /\ Becomes(c, [call[c] EXCEPT !.pc = "pop", !.scan = Len(residents)])
          /\ UNCHANGED pending
    /\ UNCHANGED <<residents, registryVars, threadVars, stray, budget>>

\* The thread a load reserves for is never its own victim.
Protected(c) == IF call[c].op = "message" THEN call[c].agent ELSE NoAgent

\* Mutant: the scan is not limited to the residents it started with.
PopCandidateEndless(c) ==
    LET rest == IF residents # <<>> /\ Head(residents) = Protected(c)
                THEN Append(Tail(residents), Head(residents)) ELSE residents
        found == rest # <<>> /\ Head(rest) # Protected(c)
    IN
    /\ call[c].pc = "pop"
    /\ \/ /\ found
          /\ residents' = Tail(rest)
          /\ Becomes(c, [call[c] EXCEPT !.pc = "inspect", !.victim = Head(rest)])
       \/ ~found /\ Return(c) /\ UNCHANGED residents
    /\ UNCHANGED <<pending, registryVars, threadVars, stray, budget>>

\* pop_lru_candidate: the oldest resident that is not protected; a protected
\* one is moved to the back.
PopCandidate(c) ==
    LET rest == IF residents # <<>> /\ Head(residents) = Protected(c)
                THEN Append(Tail(residents), Head(residents)) ELSE residents
        found == call[c].scan > 0 /\ rest # <<>> /\ Head(rest) # Protected(c)
    IN
    /\ call[c].pc = "pop"
    /\ \/ /\ found
          /\ residents' = Tail(rest)
          /\ Becomes(c, [call[c] EXCEPT !.pc = "inspect", !.scan = @ - 1,
                 !.victim = Head(rest)])
       \/ ~found /\ Return(c) /\ UNCHANGED residents
    /\ UNCHANGED <<pending, registryVars, threadVars, stray, budget>>

\* Mutant: a victim that is busy is not put back.
InspectForgets(c) ==
    LET v == call[c].victim IN
    /\ call[c].pc = "inspect"
    /\ \/ /\ ~Loaded(v) \/ busy[v]
          /\ Becomes(c, [call[c] EXCEPT !.pc = "pop", !.victim = NoAgent])
       \/ /\ Loaded(v) /\ ~busy[v]
          /\ Becomes(c, [call[c] EXCEPT !.pc = "shutdown", !.held = map[v]])
    /\ UNCHANGED <<residents, pending, registryVars, threadVars, stray, budget>>

\* get_thread and is_unloadable: a stale entry is dropped, a busy agent put
\* back as the youngest.
Inspect(c) ==
    LET v == call[c].victim IN
    /\ call[c].pc = "inspect"
    /\ \/ /\ ~Loaded(v)
          /\ Becomes(c, [call[c] EXCEPT !.pc = "pop", !.victim = NoAgent])
          /\ UNCHANGED <<residents, map>> /\ Strays(v)
       \/ /\ Loaded(v) /\ busy[v]
          /\ Becomes(c, [call[c] EXCEPT !.pc = "pop", !.victim = NoAgent])
          /\ residents' = Touch(residents, v)
          /\ UNCHANGED <<map, stray>>
       \/ /\ Loaded(v) /\ ~busy[v]
          /\ Becomes(c, [call[c] EXCEPT !.pc = "shutdown", !.held = map[v]])
          /\ UNCHANGED <<residents, map, stray>>
    /\ UNCHANGED <<pending, registryVars, live, gen, busy, budget>>

\* shutdown_and_wait: the submission loop ends, also when the session has
\* become busy since.
Shutdown(c) ==
    /\ call[c].pc = "shutdown"
    /\ live' = live \ {<<call[c].victim, call[c].held>>}
    /\ Goto(c, "remove")
    /\ UNCHANGED <<residents, pending, registryVars, map, gen, busy, stray, budget>>

\* remove_thread, by id; then the slot is tried again.
RemoveVictim(c) ==
    /\ call[c].pc = "remove"
    /\ map' = [map EXCEPT ![call[c].victim] = 0]
    /\ busy' = [busy EXCEPT ![call[c].victim] = FALSE]
    /\ Becomes(c, [call[c] EXCEPT !.pc = "reserve", !.victim = NoAgent,
                 !.scan = 0, !.held = 0])
    /\ UNCHANGED residents /\ Strays(call[c].victim)
    /\ UNCHANGED <<pending, registryVars, live, gen, budget>>

-----------------------------------------------------------------------------
(* Creating the thread.                                                    *)

\* reserve_spawn_slot(None) and prepare_thread_spawn, which takes the path.
Register(c) ==
    LET p == PathOf[call[c].agent] IN
    /\ call[c].pc = "register"
    /\ total' = Increment(total)
    /\ \/ /\ owner[p] = NoAgent /\ p \notin reserved
          /\ reserved' = reserved \cup {p}
          /\ Becomes(c, [call[c] EXCEPT !.pc = "create", !.reservation = TRUE,
                 !.path = TRUE])
       \/ /\ owner[p] # NoAgent \/ p \in reserved
          /\ Becomes(c, [call[c] EXCEPT !.pc = "unwind", !.reservation = TRUE])
          /\ UNCHANGED reserved
    /\ UNCHANGED <<residents, pending, owner, clashed, threadVars, stray, budget>>

\* spawn_thread_with_source looks a resumed thread up: a running one is used, a
\* dead one removed and made again.
CheckThread(c) ==
    LET a == call[c].agent IN
    /\ call[c].pc = "check"
    /\ \/ /\ <<a, map[a]>> \in live
          /\ \/ call[c].op = "message" /\ Goto(c, "commit")
             \/ call[c].op = "resume" /\ Return(c)
          /\ UNCHANGED <<map, busy, stray>>
       \/ /\ <<a, map[a]>> \notin live
          /\ map' = [map EXCEPT ![a] = 0]
          /\ busy' = [busy EXCEPT ![a] = FALSE]
          /\ Goto(c, "create")
          /\ UNCHANGED residents /\ Strays(a)
    /\ UNCHANGED <<residents, pending, registryVars, live, gen, budget>>

NewSession(a) ==
    /\ gen' = [gen EXCEPT ![a] = @ + 1]
    /\ map' = [map EXCEPT ![a] = gen[a] + 1]
    /\ live' = live \cup {<<a, gen[a] + 1>>}
    /\ busy' = [busy EXCEPT ![a] = TRUE]

\* finalize_thread_spawn inserts the session, unless the thread is already
\* there; the session may also fail to start.  Nobody puts the thread of a
\* direct resume into the list.
CreateThread(c) ==
    LET a == call[c].agent IN
    /\ call[c].pc = "create"
    /\ \/ /\ ~Loaded(a) /\ NewSession(a)
          /\ Goto(c, "record")
          /\ UNCHANGED residents /\ Strays(a)
       \/ /\ \/ call[c].op = "spawn" /\ Goto(c, "unwind")
             \/ call[c].op = "message" /\ Goto(c, "lost")
             \/ call[c].op = "resume" /\ Return(c)
          /\ UNCHANGED <<threadVars, stray>>
    /\ UNCHANGED <<residents, pending, registryVars, budget>>

\* register_spawned_thread and restore_spawned_thread: the entry of the path
\* names the agent, whatever it was before.
Enter(a) ==
    /\ owner' = [owner EXCEPT ![PathOf[a]] = a]
    /\ reserved' = reserved \ {PathOf[a]}

\* register_thread_spawn_metadata, or restore_thread_spawn_metadata: only a
\* restore into an empty entry is counted.
Record(c) ==
    LET a == call[c].agent
        vacant == owner[PathOf[a]] = NoAgent /\ PathOf[a] \notin reserved
    IN
    /\ call[c].pc = "record"
    /\ Enter(a)
    /\ total' = IF call[c].op # "spawn" /\ vacant THEN Increment(total) ELSE total
    /\ clashed' = (clashed \/ Clashes(c, a))
    /\ IF call[c].op = "resume" THEN Return(c) ELSE Goto(c, "commit")
    /\ UNCHANGED <<residents, pending, threadVars, stray, budget>>

\* SpawnReservation::commit, which registers again, and V2ResidencySlot::commit.
Commit(c) ==
    LET a == call[c].agent IN
    /\ call[c].pc = "commit"
    /\ IF call[c].reservation THEN Enter(a) ELSE UNCHANGED <<owner, reserved>>
    /\ pending' = Released(pending)
    /\ residents' = Touch(residents, a)
    /\ Becomes(c, [call[c] EXCEPT !.pc = "settle", !.slot = FALSE,
                 !.reservation = FALSE, !.path = FALSE])
    /\ UNCHANGED <<total, clashed, threadVars, stray, budget>>

\* persist_durable_thread_spawn or recover_inter_agent_communications; an
\* error ends the call and leaves the agent loaded.
Settle(c) ==
    /\ call[c].pc = "settle"
    /\ Goto(c, "send") \/ Return(c)
    /\ UNCHANGED <<residents, pending, registryVars, threadVars, stray, budget>>

\* release_reserved_agent_path: only an entry that names no agent is removed.
ReleasePath(k) ==
    reserved' = IF k.path THEN reserved \ {PathOf[k.agent]} ELSE reserved

\* Mutant: the path's reservation is released and its count kept.
UnwindKeepsCount(c) ==
    /\ call[c].pc = "unwind"
    /\ pending' = Released(pending)
    /\ ReleasePath(call[c])
    /\ Return(c)
    /\ UNCHANGED <<residents, owner, total, clashed, threadVars, stray, budget>>

\* A spawn fails: SpawnReservation and V2ResidencySlot are dropped.
Unwind(c) ==
    /\ call[c].pc = "unwind"
    /\ pending' = Released(pending)
    /\ total' = Decrement(total)
    /\ ReleasePath(call[c])
    /\ Return(c)
    /\ UNCHANGED <<residents, owner, clashed, threadVars, stray, budget>>

\* A load fails: when another caller has loaded the thread meanwhile, the slot
\* is given back and that thread is used.
LoadLost(c) ==
    /\ call[c].pc = "lost"
    /\ pending' = Released(pending)
    /\ IF Loaded(call[c].agent)
       THEN Becomes(c, [call[c] EXCEPT !.pc = "touch", !.slot = FALSE])
       ELSE Return(c)
    /\ UNCHANGED <<residents, registryVars, threadVars, stray, budget>>

-----------------------------------------------------------------------------
(* Messages, and sessions that are gone.                                   *)

\* send_op looks the thread up ...
Lookup(c) ==
    LET a == call[c].agent IN
    /\ call[c].pc = "send"
    /\ IF Loaded(a) THEN Becomes(c, [call[c] EXCEPT !.pc = "submit", !.held = map[a]])
       ELSE Return(c)
    /\ UNCHANGED <<residents, pending, registryVars, threadVars, stray, budget>>

\* ... and submits to it: a live session gets work, a dead one answers
\* InternalAgentDied.
Submit(c) ==
    LET a == call[c].agent IN
    /\ call[c].pc = "submit"
    /\ \/ /\ <<a, call[c].held>> \in live
          /\ busy' = IF map[a] = call[c].held THEN [busy EXCEPT ![a] = TRUE] ELSE busy
          /\ Return(c)
       \/ /\ <<a, call[c].held>> \notin live
          /\ Becomes(c, [call[c] EXCEPT !.pc = "drop", !.held = 0])
          /\ UNCHANGED busy
    /\ UNCHANGED <<residents, pending, registryVars, map, live, gen, stray, budget>>

\* close_agent and shutdown_live_agent: the session is stopped, or is not
\* there; a failed edge write or flush ends the call first.
Stop(c) ==
    LET a == call[c].agent IN
    /\ call[c].pc = "stop"
    /\ \/ live' = live \ {<<a, map[a]>>} /\ Goto(c, "drop")
       \/ Return(c) /\ UNCHANGED live
    /\ UNCHANGED <<residents, pending, registryVars, map, gen, busy, stray, budget>>

\* remove_thread, for a close and after InternalAgentDied ...
DropThread(c) ==
    LET a == call[c].agent IN
    /\ call[c].pc = "drop"
    /\ map' = [map EXCEPT ![a] = 0]
    /\ busy' = [busy EXCEPT ![a] = FALSE]
    /\ Goto(c, "forget")
    /\ UNCHANGED <<residents, pending, registryVars, live, gen, stray, budget>>

\* ... then forget_v2_residency and release_spawned_thread, even if another
\* caller has loaded the agent again.
Forget(c) ==
    LET a == call[c].agent IN
    /\ call[c].pc = "forget"
    /\ residents' = Without(residents, a)
    /\ IF Known(a)
       THEN /\ owner' = [owner EXCEPT ![PathOf[a]] = NoAgent]
            /\ total' = Decrement(total)
            /\ clashed' = (clashed \/ Clashes(c, a))
            /\ UNCHANGED reserved
       ELSE UNCHANGED registryVars
    /\ Return(c)
    /\ UNCHANGED threadVars /\ Strays(a)
    /\ UNCHANGED <<pending, budget>>

-----------------------------------------------------------------------------
\* Places where a caller waits for a lock, a store or a session.
Awaiting == {"look", "touch", "inspect", "shutdown", "remove", "check", "create",
             "commit", "settle", "lost", "send", "submit", "stop", "drop"}

\* The turn whose tool call this is was interrupted, and the future is dropped
\* at its await.  Its guards give back the slot and the reservation; no guard
\* puts a popped victim back, or commits the thread of a load that is already
\* in the map.  A spawn does not wait between the two.
Cancel(c) ==
    LET k == call[c] IN
    /\ budget["cancel"] > 0 /\ budget' = [budget EXCEPT !["cancel"] = @ - 1]
    /\ k.pc \in Awaiting /\ k.op # "resume" /\ (k.pc = "commit" => k.op = "message")
    /\ pending' = IF k.slot THEN Released(pending) ELSE pending
    /\ total' = IF k.reservation THEN Decrement(total) ELSE total
    /\ ReleasePath(k)
    /\ Return(c)
    /\ UNCHANGED <<residents, threadVars>>
    /\ Strays(IF k.victim # NoAgent THEN k.victim ELSE k.agent)
    /\ UNCHANGED <<owner, clashed>>

\* The agent's turns start and end.
TurnBoundary(a) ==
    /\ <<a, map[a]>> \in live
    /\ busy' = [busy EXCEPT ![a] = ~@]
    /\ UNCHANGED <<residents, pending, registryVars, map, live, gen, call, stray,
                   budget>>

Reserving(c) ==
    ReserveSlot(c) \/ PopCandidate(c) \/ Inspect(c) \/ Shutdown(c) \/ RemoveVictim(c)
Creating(c) ==
    \/ Register(c) \/ CheckThread(c) \/ CreateThread(c) \/ Record(c)
    \/ Commit(c) \/ Settle(c) \/ Unwind(c) \/ LoadLost(c)
Addressing(c) ==
    \/ Look(c) \/ TouchLoaded(c) \/ Lookup(c) \/ Submit(c)
    \/ Stop(c) \/ DropThread(c) \/ Forget(c)
CallerStep(c) == Reserving(c) \/ Creating(c) \/ Addressing(c)

Next ==
    \/ \E c \in Caller : Start(c) \/ CallerStep(c) \/ Cancel(c)
    \/ \E a \in Agent : TurnBoundary(a)

Spec == Init /\ [][Next]_vars

FairSpec == Spec /\ \A c \in Caller : WF_vars(CallerStep(c))

-----------------------------------------------------------------------------
(* Properties.                                                             *)

CallState ==
    [pc : {"idle", "look", "touch", "reserve", "pop", "inspect", "shutdown",
           "remove", "register", "check", "create", "record", "commit", "settle",
           "unwind", "lost", "send", "submit", "stop", "drop", "forget"},
     op : Operation, agent : Agent \cup {NoAgent}, slot : BOOLEAN,
     reservation : BOOLEAN, path : BOOLEAN, scan : Nat,
     victim : Agent \cup {NoAgent}, held : Nat]

\* Every variable keeps its type.
TypeOK ==
    /\ residents \in Seq(Agent) /\ pending \in Nat
    /\ owner \in [Path -> Agent \cup {NoAgent}] /\ reserved \subseteq Path
    /\ total \in 0..UsizeMax
    /\ map \in [Agent -> Nat] /\ live \subseteq Agent \X Nat
    /\ gen \in [Agent -> Nat] /\ busy \in [Agent -> BOOLEAN]
    /\ call \in [Caller -> CallState]
    /\ stray \subseteq Agent /\ clashed \in BOOLEAN
    /\ budget \in [Event -> Nat]

\* Reservations of agents that are not registered yet.
Outstanding == {c \in Caller : call[c].reservation /\ call[c].pc # "commit"}

\* The two counters match what they count: the slots that callers hold, and the
\* registered agents and outstanding reservations.  No failed spawn, lost or
\* late load, cancelled call, close, resume or late InternalAgentDied makes them
\* drift.  Only one thing does: a load, resume or close that writes the entry of
\* a path whose spawn has not committed, which restore_spawned_thread does not
\* count and SpawnReservation does not notice.
CountsAreExact ==
    /\ pending = Cardinality({c \in Caller : call[c].slot})
    /\ ~clashed => total = Cardinality({p \in Path : owner[p] # NoAgent})
                           + Cardinality(Outstanding)

\* An agent that is loaded can be found by the LRU, or is in the hands of the
\* caller that will put it there.  It stays in memory for good only if a call
\* was cancelled with it in hand, if it was resumed directly, or if a close
\* forgot it while another caller loaded it.
LoadedIsTracked == \A a \in Agent : Loaded(a) => a \in Tracked \cup stray

\* Callers that reserve while others have victims in their hands overshoot the
\* limit, but by fewer agents than there are callers; the agents astray come on
\* top, also once a message has touched them back into the list.
ResidentsAreBounded ==
    Cardinality({a \in Agent \ stray : Loaded(a)})
        <= Capacity + Cardinality(Caller) - 1

\* A caller never scans, evicts and retries forever.
RequestEnds == \A c \in Caller : call[c].pc # "idle" ~> call[c].pc = "idle"
==============================================================================
