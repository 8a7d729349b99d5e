------------------------ MODULE TelegramBridgeProofs ------------------------
(***************************************************************************)
(* Proofs about TelegramBridge, for every number of updates and threads,   *)
(* every batch, queue and inbox size and every script.                     *)
(*                                                                         *)
(* The types need no premise.  That the bridge never waits on a turn that  *)
(* is over rests on notices that reach the chat (NoticesFail = FALSE);     *)
(* that no thread is given an input twice, and that the connector          *)
(* implements InputDelivery, also on a window of completed updates that    *)
(* covers every update that can come back.                                 *)
(***************************************************************************)
EXTENDS TelegramBridge, SequenceFacts, FiniteSetTheorems, SequenceTheorems, TLAPS

-----------------------------------------------------------------------------
(* The invariants.                                                         *)

\* A turn the session names belongs to a thread.
TurnHasThread == ses.turn # NoTurn => ses.thread \in Threads

\* What happens to an update between its claim and its completion.  The memory
\* and the file agree; what is claimed is pending and not completed; what the
\* process has carried out is claimed or completed.
Claims ==
    /\ disk = Snapshot(inbox) /\ IsInjective(inbox.completed)
    /\ done = Range(inbox.completed)
    /\ inbox.inFlight \subseteq inbox.pending
    /\ inbox.inFlight \cap done = {}
    /\ done \subseteq acted /\ acted \subseteq inbox.inFlight \cup done

\* The handler has a claim of its own, and its answer tells whether the
\* update was carried out.
HandlerClaims ==
    handler # Idle =>
        /\ handler.update \in inbox.inFlight \ monitors
        /\ handler.step \in {"sent", "failed"} =>
              handler.update \notin acted \cup Range(queue)
        /\ handler.step = "applied" => handler.update \in acted

\* A queued input is claimed and not yet carried out; a signalled one is
\* carried out.
QueueClaims ==
    /\ IsInjective(queue)
    /\ Range(queue) \subseteq inbox.inFlight
    /\ Range(queue) \cap acted = {}
    /\ monitors \subseteq inbox.inFlight /\ signalled \subseteq acted

\* A thread holds an input once, and input it has not recorded was carried
\* out by this process.
HoldsOnce(w, r, given) ==
    /\ IsInjective(w) /\ IsInjective(r) /\ Range(w) \cap Range(r) = {}
    /\ Range(w) \subseteq given

ThreadsHoldOnce ==
    \A t \in Threads : HoldsOnce(srv.waiting[t], srv.rollout[t], acted)

DeliveryInv == Claims /\ HandlerClaims /\ QueueClaims /\ ThreadsHoldOnce

-----------------------------------------------------------------------------
(* What the bridge's handlers leave behind.                                *)

USE TelegramAssumption

Outcome == [ok : BOOLEAN, ses : Session, srv : Server, saved : 0..MaxThreads,
            budget : [Fault -> Nat]]

\* Everything in the threads is as it was.
SameTurns(o, p) ==
    /\ p.srv.waiting = o.srv.waiting /\ p.srv.rollout = o.srv.rollout
    /\ p.srv.running = o.srv.running

\* The session names the turn it named before, or none.
SameTurnOrNone(o, p) ==
    p.ses.turn = NoTurn \/ (p.ses.thread = o.ses.thread /\ p.ses.turn = o.ses.turn)

LEMMA Constants ==
    /\ NoTurn \in Turns /\ FollowUpTurn \in Turns /\ FollowUpTurn # NoTurn
    /\ Updates \subseteq Turns /\ NoTurn \notin Updates
    /\ Threads \subseteq 0..MaxThreads /\ 0 \in 0..MaxThreads
    /\ 0..MaxThreads = Threads \cup {0} /\ 0 \notin Threads
    /\ Fault = {"crash", "disk", "request"}
BY DEF NoTurn, FollowUpTurn, Turns, Updates, Threads, Fault

LEMMA FaultyFacts ==
    ASSUME NEW o \in Outcome, NEW f \in Fault, NEW p \in Faulty(o, f)
    PROVE  p \in Outcome /\ ~p.ok /\ p.ses = o.ses /\ p.srv = o.srv
<1>1. o.budget[f] > 0 /\ p = [Failed(o) EXCEPT !.budget[f] = @ - 1]
  BY DEF Faulty
<1>2. Failed(o) \in Outcome /\ Failed(o).budget = o.budget
  BY DEF Failed, Outcome
<1>3. [o.budget EXCEPT ![f] = @ - 1] \in [Fault -> Nat]
  BY <1>1 DEF Outcome
<1> QED BY <1>1, <1>2, <1>3 DEF Outcome, Failed

\* A new thread has no turn, and the others are left alone.
LEMMA StartNewThreadFacts ==
    ASSUME NEW o \in Outcome, NEW p \in StartNewThread(o)
    PROVE  /\ p \in Outcome /\ SameTurns(o, p) /\ SameTurnOrNone(o, p)
           /\ p.ok => p.ses.thread \in Threads
<1> DEFINE t == o.srv.started + 1
           sn == [thread |-> t, loaded |-> TRUE, turn |-> NoTurn]
           sv == [o.srv EXCEPT !.started = t]
           new == [o EXCEPT !.srv.started = t,
                      !.ses = [thread |-> t, loaded |-> TRUE, turn |-> NoTurn]]
<1>1. CASE o.srv.started = MaxThreads
  <2>1. p = Failed(o)
    BY <1>1 DEF StartNewThread
  <2> QED BY <2>1 DEF Failed, Outcome, SameTurns, SameTurnOrNone
<1>2. CASE o.srv.started # MaxThreads
  <2>1. t \in Threads
    BY <1>2 DEF Outcome, Server, Threads
  <2>2. sn \in Session
    BY <2>1, Constants DEF Session
  <2>3. sv \in Server /\ sv.waiting = o.srv.waiting /\ sv.rollout = o.srv.rollout
        /\ sv.running = o.srv.running
    BY <2>1, Constants DEF Outcome, Server
  <2>4. new = [o EXCEPT !.srv = sv, !.ses = sn]
    BY DEF Outcome
  <2>5. \/ p = [new EXCEPT !.saved = t] \/ p \in Faulty(new, "disk")
        \/ p \in Faulty(o, "request")
    BY <1>2 DEF StartNewThread
  <2> HIDE DEF sn, sv, new
  <2>6. new \in Outcome /\ new.ses = sn /\ new.srv = sv /\ new.ok = o.ok
    BY <2>2, <2>3, <2>4 DEF Outcome
  <2>7. sn.turn = NoTurn /\ sn.thread = t
    BY DEF sn
  <2>8. CASE p = [new EXCEPT !.saved = t]
    <3>1. t \in 0..MaxThreads
      BY <2>1, Constants
    <3> HIDE DEF t
    <3>2. p \in Outcome /\ p.ses = sn /\ p.srv = sv
      BY <2>6, <2>8, <3>1 DEF Outcome
    <3> QED BY <2>1, <2>3, <2>7, <3>2 DEF SameTurns, SameTurnOrNone
  <2>9. CASE p \in Faulty(new, "disk")
    <3>1. p \in Outcome /\ ~p.ok /\ p.ses = sn /\ p.srv = sv
      BY <2>6, <2>9, FaultyFacts DEF Fault
    <3> QED BY <2>3, <2>7, <3>1 DEF SameTurns, SameTurnOrNone
  <2>10. CASE p \in Faulty(o, "request")
    BY <2>10, FaultyFacts DEF Fault, SameTurns, SameTurnOrNone
  <2> QED BY <2>5, <2>8, <2>9, <2>10
<1> QED BY <1>1, <1>2

LEMMA EnsureThreadFacts ==
    ASSUME NEW o \in Outcome, NEW p \in EnsureThread(o)
    PROVE  /\ p \in Outcome /\ SameTurns(o, p) /\ SameTurnOrNone(o, p)
           /\ p.ok => p.ses.thread \in Threads
<1>1. CASE p \in StartNewThread(o)
  BY <1>1, StartNewThreadFacts
<1>2. CASE p = o /\ o.ses.thread # 0
  BY <1>2, Constants DEF SameTurns, SameTurnOrNone, Outcome, Session
<1>3. CASE p = [o EXCEPT !.ses.loaded = TRUE] /\ o.ses.thread # 0
  <2> DEFINE s == [o.ses EXCEPT !.loaded = TRUE]
  <2>1. s \in Session /\ s.thread = o.ses.thread /\ s.turn = o.ses.turn
    BY DEF Outcome, Session
  <2>2. p = [o EXCEPT !.ses = s]
    BY <1>3 DEF Outcome
  <2> HIDE DEF s
  <2>3. p \in Outcome /\ p.ses = s /\ p.srv = o.srv
    BY <2>1, <2>2 DEF Outcome
  <2>4. s.thread \in Threads
    BY <1>3, <2>1, Constants DEF Session
  <2> QED BY <2>1, <2>3, <2>4 DEF SameTurns, SameTurnOrNone
<1>4. CASE p \in Faulty(o, "request")
  BY <1>4, FaultyFacts DEF Fault, SameTurns, SameTurnOrNone
<1> QED BY <1>1, <1>2, <1>3, <1>4 DEF EnsureThread

\* An input is added to at most one thread, which has not recorded it; when
\* notices reach the chat, only by a handler that succeeds.
Given(o, p, u) ==
    /\ p.srv.rollout = o.srv.rollout
    /\ \/ p.srv.waiting = o.srv.waiting
       \/ \E t \in Threads :
             /\ u \notin Range(o.srv.rollout[t]) /\ (p.ok \/ NoticesFail)
             /\ p.srv.waiting = [o.srv.waiting EXCEPT ![t] = Append(@, u)]

\* The session's turn runs, or its thread is one of those in E.
LiveSession(s, v, E) ==
    s.turn # NoTurn =>
        /\ s.thread \in Threads
        /\ v.running[s.thread] # NoTurn \/ s.thread \in E

NamesLive(o, E) == LiveSession(o.ses, o.srv, E)

\* How turn/steer and turn/start change the server.
LEMMA WaitingGrows ==
    ASSUME NEW v \in Server, NEW t \in Threads, NEW u \in Updates
    PROVE  /\ [v.waiting EXCEPT ![t] = Append(@, u)] \in [Threads -> Seq(Updates)]
           /\ [v EXCEPT !.waiting[t] = Append(@, u)] \in Server
<1>1. v.waiting \in [Threads -> Seq(Updates)]
  BY DEF Server
<1>2. Append(v.waiting[t], u) \in Seq(Updates)
  BY <1>1, AppendFacts
<1>3. [v.waiting EXCEPT ![t] = Append(@, u)] \in [Threads -> Seq(Updates)]
  BY <1>1, <1>2
<1> DEFINE w == [v.waiting EXCEPT ![t] = Append(@, u)]
<1>4. [v EXCEPT !.waiting[t] = Append(@, u)] = [v EXCEPT !.waiting = w]
  BY DEF Server
<1> HIDE DEF w
<1>5. [v EXCEPT !.waiting = w] \in Server
  BY <1>3 DEF Server, w
<1> QED BY <1>3, <1>4, <1>5

LEMMA SteerFacts ==
    ASSUME NEW o \in Outcome, o.ses.thread \in Threads, NEW u \in Updates, NEW E,
           NamesLive(o, E), u \notin Range(o.srv.rollout[o.ses.thread]),
           NEW p \in Steer(o, u), o.ok
    PROVE  p \in Outcome /\ Given(o, p, u) /\ NamesLive(p, E)
<1> DEFINE t == o.ses.thread
           w == [o.srv.waiting EXCEPT ![t] = Append(@, u)]
           sv == [o.srv EXCEPT !.waiting = w]
           added == [o EXCEPT !.srv.waiting[t] = Append(@, u)]
<1>1. o.srv \in Server
  BY DEF Outcome
<1>2. w \in [Threads -> Seq(Updates)]
  BY <1>1, WaitingGrows
<1>3. added = [o EXCEPT !.srv = sv]
  BY DEF Outcome, Server
<1>4. p = Failed(o) \/ p = added \/ (NoticesFail /\ p = Failed(added))
  BY DEF Steer
<1> HIDE DEF w, added
<1>5. /\ sv \in Server /\ sv.waiting = w /\ sv.rollout = o.srv.rollout
      /\ sv.running = o.srv.running
  BY <1>1, <1>2 DEF Server
<1> HIDE DEF sv
<1>6. added \in Outcome /\ added.srv = sv /\ added.ses = o.ses /\ added.ok
  BY <1>3, <1>5 DEF Outcome
<1>7. CASE p = Failed(o)
  BY <1>7 DEF Failed, Outcome, Given, LiveSession, NamesLive
<1>8. CASE p = added
  BY <1>5, <1>6, <1>8 DEF Given, LiveSession, NamesLive, w
<1>9. CASE NoticesFail /\ p = Failed(added)
  <2>1. p \in Outcome /\ p.srv = sv /\ p.ses = o.ses
    BY <1>6, <1>9 DEF Failed, Outcome
  <2> QED BY <1>5, <1>9, <2>1 DEF Given, LiveSession, NamesLive, w
<1> QED BY <1>4, <1>7, <1>8, <1>9

LEMMA TurnStartFacts ==
    ASSUME NEW o \in Outcome, o.ses.thread \in Threads, NEW u \in Updates, NEW E,
           u \notin Range(o.srv.rollout[o.ses.thread]),
           NEW p \in TurnStart(o, u), o.ok
    PROVE  p \in Outcome /\ Given(o, p, u) /\ NamesLive(p, E)
<1> DEFINE t == o.ses.thread
           idle == o.srv.running[t] = NoTurn
           w == [o.srv.waiting EXCEPT ![t] = Append(@, u)]
           r == [o.srv.running EXCEPT ![t] = IF idle THEN u ELSE @]
           b == [o.srv.begun EXCEPT ![t] = IF idle THEN FALSE ELSE @]
           sv == [o.srv EXCEPT !.waiting = w, !.running = r, !.begun = b]
           sn == [o.ses EXCEPT !.turn = u]
<1>1. o.srv \in Server /\ o.ses \in Session
  BY DEF Outcome
<1>2. w \in [Threads -> Seq(Updates)]
  BY <1>1, WaitingGrows
<1>3. /\ r \in [Threads -> Turns] /\ b \in [Threads -> BOOLEAN] /\ r[t] # NoTurn
  BY <1>1, Constants DEF Server
<1>4. p = [o EXCEPT !.ses = sn, !.srv = sv]
  BY DEF TurnStart, Outcome, Server
<1> HIDE DEF w, r, b
<1>5. /\ sv \in Server /\ sv.waiting = w /\ sv.rollout = o.srv.rollout
      /\ sv.running = r
  BY <1>1, <1>2, <1>3 DEF Server
<1>6. sn \in Session /\ sn.thread = t
  BY <1>1, Constants DEF Session
<1> HIDE DEF sv, sn
<1>7. p \in Outcome /\ p.srv = sv /\ p.ses = sn /\ p.ok
  BY <1>4, <1>5, <1>6 DEF Outcome
<1>8. Given(o, p, u)
  BY <1>5, <1>7 DEF Given, w
<1>9. NamesLive(p, E)
  BY <1>3, <1>5, <1>6, <1>7 DEF LiveSession, NamesLive
<1> QED BY <1>7, <1>8, <1>9

\* start_turn, with all the ways it can fail.
LEMMA StartTurnFacts ==
    ASSUME NEW o \in Outcome, NEW u \in Updates, NEW E, NamesLive(o, E),
           NEW p \in StartTurn(o, u)
    PROVE  p \in Outcome /\ Given(o, p, u) /\ NamesLive(p, E)
<1>1. PICK q \in EnsureThread(o) :
          p \in IF q.ok THEN Submit(q, u) \cup Faulty(q, "request") ELSE {q}
  BY DEF StartTurn
<1>2. /\ q \in Outcome /\ SameTurns(o, q) /\ SameTurnOrNone(o, q)
      /\ q.ok => q.ses.thread \in Threads
  BY EnsureThreadFacts
<1>3. NamesLive(q, E)
  BY <1>2 DEF LiveSession, NamesLive, SameTurns, SameTurnOrNone
<1>4. CASE p = q
  BY <1>2, <1>3, <1>4 DEF Given, SameTurns
<1>5. CASE p \in Faulty(q, "request")
  <2>1. p \in Outcome /\ p.ses = q.ses /\ p.srv = q.srv
    BY <1>2, <1>5, FaultyFacts DEF Fault
  <2> QED BY <1>2, <1>3, <2>1 DEF Given, SameTurns, LiveSession, NamesLive
<1>6. CASE q.ok /\ p \in Submit(q, u)
  <2>1. CASE p = q
    BY <1>4, <2>1
  <2>2. CASE p # q
    <3>1. /\ u \notin Range(q.srv.rollout[q.ses.thread])
          /\ p \in Steer(q, u) \/ p \in TurnStart(q, u)
      BY <1>6, <2>2 DEF Submit
    <3>2. p \in Outcome /\ Given(q, p, u) /\ NamesLive(p, E)
      BY <1>2, <1>3, <1>6, <3>1, SteerFacts, TurnStartFacts
    <3> QED BY <1>2, <3>2 DEF Given, SameTurns
  <2> QED BY <2>1, <2>2
<1> QED BY <1>1, <1>4, <1>5, <1>6

-----------------------------------------------------------------------------
(* Types.                                                                  *)

TypeInv == TypeOK /\ TurnHasThread

LEMMA LatestFacts ==
    ASSUME NEW S, NEW s \in Seq(S)
    PROVE  /\ Latest(s) \in Seq(S)
           /\ Len(s) <= Window => Latest(s) = s
<1>1. Len(s) \in Nat /\ s \in [1..Len(s) -> S]
  BY LenProperties
<1>2. CASE Len(s) <= Window
  BY <1>1, <1>2 DEF Latest
<1>3. CASE Len(s) > Window
  <2>1. Latest(s) = SubSeq(s, Len(s) - Window + 1, Len(s))
    BY <1>3 DEF Latest
  <2>2. \A i \in (Len(s) - Window + 1)..Len(s) : s[i] \in S
    BY <1>1, <1>3
  <2>3. SubSeq(s, Len(s) - Window + 1, Len(s)) \in Seq(S)
    BY <1>1, <2>2, SubSeqProperties
  <2> QED BY <1>1, <1>3, <2>1, <2>3
<1> QED BY <1>1, <1>2, <1>3

LEMMA SpendType ==
    ASSUME budget \in [Fault -> Nat], NEW f \in Fault, Spend(f)
    PROVE  budget' \in [Fault -> Nat]
BY DEF Spend

LEMMA MarkCompletedType ==
    ASSUME NEW b \in Inbox, NEW u \in Updates
    PROVE  MarkCompleted(b, u) \in Inbox /\ Snapshot(MarkCompleted(b, u)) \in File
<1> DEFINE c == IF u \in Range(b.completed) THEN b.completed ELSE Append(b.completed, u)
<1>1. b.completed \in Seq(Updates) /\ b.pending \subseteq Updates /\ b.inFlight \subseteq Updates
  BY DEF Inbox
<1>2. c \in Seq(Updates)
  BY <1>1, AppendFacts
<1> HIDE DEF c
<1>3. Latest(c) \in Seq(Updates)
  BY <1>2, LatestFacts
<1>4. MarkCompleted(b, u) = [pending |-> b.pending \ {u}, inFlight |-> b.inFlight \ {u},
                             completed |-> Latest(c)]
  BY DEF MarkCompleted, c
<1>5. MarkCompleted(b, u) \in Inbox
  BY <1>1, <1>3, <1>4 DEF Inbox
<1> QED BY <1>5 DEF Snapshot, Inbox, File

LEMMA BeginUpdateType ==
    ASSUME TypeOK, NEW u \in Updates, BeginUpdate(u)
    PROVE  /\ inbox' \in Inbox /\ disk' \in File /\ budget' \in [Fault -> Nat]
           /\ handler' \in Handling \cup {Idle}
<1> USE DEF Inbox, File, Handling
<1> DEFINE begun == [inbox EXCEPT !.pending = @ \cup {u}, !.inFlight = @ \cup {u}]
<1>1. CASE /\ inbox' = begun /\ disk' = Snapshot(begun)
           /\ handler' = [update |-> u, step |-> "sent"] /\ UNCHANGED budget
  <2>1. begun \in Inbox
    BY DEF TypeOK
  <2> HIDE DEF begun
  <2>2. Snapshot(begun) \in File
    BY <2>1 DEF Snapshot
  <2> QED BY <1>1, <2>1, <2>2 DEF TypeOK
<1>2. CASE Spend("disk") /\ UNCHANGED <<inbox, disk, handler>>
  BY <1>2, SpendType DEF TypeOK, Fault
<1> QED BY <1>1, <1>2 DEF BeginUpdate

LEMMA CompleteUpdateType ==
    ASSUME TypeOK, NEW u \in Updates, CompleteUpdate(u)
    PROVE  /\ inbox' \in Inbox /\ disk' \in File /\ budget' \in [Fault -> Nat]
           /\ done' \in SUBSET Updates
<1>1. inbox \in Inbox /\ disk \in File /\ done \in SUBSET Updates
      /\ budget \in [Fault -> Nat]
  BY DEF TypeOK, Inbox, File
<1>2. CASE /\ inbox' = MarkCompleted(inbox, u) /\ disk' = Snapshot(MarkCompleted(inbox, u))
           /\ done' = done \cup {u} /\ UNCHANGED budget
  BY <1>1, <1>2, MarkCompletedType
<1>3. CASE Spend("disk") /\ UNCHANGED <<inbox, disk, done>>
  BY <1>1, <1>3, SpendType DEF Fault
<1> QED BY <1>2, <1>3 DEF CompleteUpdate

LEMMA ReleaseUpdateType ==
    ASSUME TypeOK, NEW u \in Updates, ReleaseUpdate(u)
    PROVE  /\ inbox' \in Inbox /\ disk' \in File /\ budget' \in [Fault -> Nat]
           /\ done' \in SUBSET Updates
BY DEF TypeOK, Inbox, File, ReleaseUpdate

\* What a call of start_turn does to the threads.
Gives(u, ok) ==
    /\ srv'.rollout = srv.rollout
    /\ \/ srv'.waiting = srv.waiting
       \/ \E t \in Threads :
             /\ u \notin Range(srv.rollout[t]) /\ (ok \/ NoticesFail)
             /\ srv'.waiting = [srv.waiting EXCEPT ![t] = Append(@, u)]

LEMMA NowFacts ==
    ASSUME TypeOK, NEW s \in Session
    PROVE  /\ Now \in Outcome /\ Now.ses = ses /\ Now.srv = srv
           /\ [Now EXCEPT !.ses = s] \in Outcome
           /\ [Now EXCEPT !.ses = s].ses = s /\ [Now EXCEPT !.ses = s].srv = srv
BY DEF TypeOK, Now, Outcome

LEMMA StartTurnStep ==
    ASSUME TypeOK, NEW n \in Outcome, n.srv = srv, NEW u \in Updates,
           NEW E, LiveSession(n.ses, srv, E), NEW o \in StartTurn(n, u), Becomes(o)
    PROVE  /\ ses' \in Session /\ srv' \in Server /\ saved' \in 0..MaxThreads
           /\ budget' \in [Fault -> Nat]
           /\ LiveSession(ses', srv', E) /\ Gives(u, o.ok)
<1>0. NamesLive(n, E)
  BY DEF NamesLive
<1>1. o \in Outcome /\ Given(n, o, u) /\ NamesLive(o, E)
  BY <1>0, StartTurnFacts
<1>2. ses' = o.ses /\ srv' = o.srv /\ saved' = o.saved /\ budget' = o.budget
  BY DEF Becomes
<1>3. LiveSession(ses', srv', E)
  BY <1>1, <1>2 DEF NamesLive
<1>4. Gives(u, o.ok)
  BY <1>1, <1>2 DEF Given, Gives
<1> QED BY <1>1, <1>2, <1>3, <1>4 DEF Outcome

\* pump_pending_inputs submits the oldest queued input, or leaves the queue.
LEMMA PumpStep ==
    ASSUME TypeOK, NEW s \in Session, NEW E, LiveSession(s, srv, E), Pump(s)
    PROVE  /\ ses' \in Session /\ srv' \in Server /\ saved' \in 0..MaxThreads
           /\ budget' \in [Fault -> Nat] /\ queue' \in Seq(Updates)
           /\ signalled' \in SUBSET Updates /\ acted' \in SUBSET Updates
           /\ LiveSession(ses', srv', E)
           /\ \/ /\ UNCHANGED <<queue, signalled, acted>>
                 /\ srv'.rollout = srv.rollout
                 /\ srv'.waiting = srv.waiting \/ NoticesFail
              \/ /\ queue # <<>> /\ queue' = Tail(queue)
                 /\ signalled' = signalled \cup {Head(queue)}
                 /\ acted' = acted \cup {Head(queue)}
                 /\ Gives(Head(queue), TRUE)
<1>1. CASE /\ ses' = s
           /\ UNCHANGED <<srv, saved, budget, queue, signalled, acted>>
  BY <1>1 DEF TypeOK
<1>2. CASE /\ queue # <<>>
           /\ \E o \in StartTurn([Now EXCEPT !.ses = s], Head(queue)) :
                 /\ Becomes(o)
                 /\ \/ /\ o.ok
                       /\ queue' = Tail(queue)
                       /\ signalled' = signalled \cup {Head(queue)}
                       /\ acted' = acted \cup {Head(queue)}
                    \/ ~o.ok /\ UNCHANGED <<queue, signalled, acted>>
  <2> DEFINE n == [Now EXCEPT !.ses = s]
             u == Head(queue)
  <2>1. u \in Updates /\ Tail(queue) \in Seq(Updates)
    BY <1>2, TailFacts DEF TypeOK
  <2>2. n \in Outcome /\ n.ses = s /\ n.srv = srv
    BY NowFacts
  <2>3. PICK o \in StartTurn(n, u) :
                 /\ Becomes(o)
                 /\ \/ /\ o.ok
                       /\ queue' = Tail(queue)
                       /\ signalled' = signalled \cup {u}
                       /\ acted' = acted \cup {u}
                    \/ ~o.ok /\ UNCHANGED <<queue, signalled, acted>>
    BY <1>2
  <2> HIDE DEF n, u
  <2>4. /\ ses' \in Session /\ srv' \in Server /\ saved' \in 0..MaxThreads
        /\ budget' \in [Fault -> Nat]
        /\ LiveSession(ses', srv', E) /\ Gives(u, o.ok)
    BY <2>1, <2>2, <2>3, StartTurnStep
  <2>5. CASE /\ o.ok /\ queue' = Tail(queue) /\ signalled' = signalled \cup {u}
             /\ acted' = acted \cup {u}
    <3>1. Gives(u, TRUE)
      BY <2>4, <2>5 DEF Gives
    <3>2. signalled' \in SUBSET Updates /\ acted' \in SUBSET Updates
      BY <2>1, <2>5 DEF TypeOK
    <3> QED BY <1>2, <2>1, <2>4, <2>5, <3>1, <3>2 DEF u
  <2>6. CASE ~o.ok /\ UNCHANGED <<queue, signalled, acted>>
    <3>1. srv'.rollout = srv.rollout /\ (srv'.waiting = srv.waiting \/ NoticesFail)
      BY <2>4, <2>6 DEF Gives
    <3> QED BY <2>4, <2>6, <3>1 DEF TypeOK
  <2> QED BY <2>3, <2>5, <2>6
<1> QED BY <1>1, <1>2 DEF Pump

-----------------------------------------------------------------------------
(* Each step keeps the types, and the bridge's steps keep a session that   *)
(* names a live turn, whatever counts as an end that is still to come.     *)

LEMMA RepliesType ==
    ASSUME TypeOK, handler # Idle,
           NEW step \in {"sent", "applied", "queued", "failed"}, Replies(step)
    PROVE  /\ handler \in Handling /\ handler.update \in Updates
           /\ handler' \in Handling /\ handler'.update = handler.update
           /\ handler'.step = step /\ handler' # Idle
<1>1. handler \in Handling
  BY DEF TypeOK
<1>2. /\ handler' \in Handling /\ handler'.update = handler.update
      /\ handler'.step = step
  BY <1>1 DEF Replies, Handling
<1> QED BY <1>1, <1>2 DEF Handling, Idle

LEMMA CommandedFacts ==
    ASSUME TypeOK, NEW k, Commanded(k)
    PROVE  handler # Idle /\ handler.update \in Updates /\ handler.step = "sent"
<1>1. handler # Idle /\ handler.step = "sent"
  BY DEF Commanded, Idle
<1> QED BY <1>1 DEF TypeOK, Handling

LEMMA HandleUserInputStep ==
    ASSUME TypeOK, NEW E, LiveSession(ses, srv, E), HandleUserInput
    PROVE  TypeOK' /\ LiveSession(ses', srv', E)
<1> DEFINE u == handler.update
<1>1. u \in Updates /\ handler # Idle
  BY CommandedFacts DEF HandleUserInput
<1>2. UNCHANGED <<kind, poll, feed, inbox, disk, monitors, done, signalled, events>>
  BY DEF HandleUserInput
<1>3. PICK o \in StartTurn(Now, u) :
          /\ Becomes(o)
          /\ \/ Replies("applied") /\ acted' = acted \cup {u} /\ UNCHANGED queue
             \/ Replies("queued") /\ queue' = Append(queue, u) /\ UNCHANGED acted
             \/ Replies("failed") /\ UNCHANGED <<queue, acted>>
  BY DEF HandleUserInput
<1>4. Now \in Outcome /\ Now.ses = ses /\ Now.srv = srv
  BY NowFacts DEF TypeOK
<1>5. /\ ses' \in Session /\ srv' \in Server /\ saved' \in 0..MaxThreads
      /\ budget' \in [Fault -> Nat] /\ LiveSession(ses', srv', E)
  BY <1>1, <1>3, <1>4, StartTurnStep
<1>6. handler' \in Handling
  BY <1>1, <1>3, RepliesType
<1>7. Append(queue, u) \in Seq(Updates)
  <2> HIDE DEF u
  <2> QED BY <1>1, AppendFacts DEF TypeOK
<1>8. acted' \in SUBSET Updates /\ queue' \in Seq(Updates)
  BY <1>1, <1>3, <1>7 DEF TypeOK
<1> QED BY <1>2, <1>5, <1>6, <1>8 DEF TypeOK

LEMMA NewThreadStep ==
    ASSUME TypeOK, NEW E, LiveSession(ses, srv, E), NewThread
    PROVE  /\ TypeOK' /\ LiveSession(ses', srv', E)
           /\ srv'.waiting = srv.waiting /\ srv'.rollout = srv.rollout
<1>1. handler.update \in Updates /\ handler # Idle
  BY CommandedFacts DEF NewThread
<1>2. UNCHANGED <<kind, poll, feed, inbox, disk, monitors, done, signalled, queue, events>>
  BY DEF NewThread
<1>3. PICK o \in StartNewThread(Now) :
          /\ Becomes(o) /\ Replies(IF o.ok THEN "applied" ELSE "failed")
          /\ acted' = IF o.ok THEN acted \cup {handler.update} ELSE acted
  BY DEF NewThread
<1>4. Now \in Outcome /\ Now.ses = ses /\ Now.srv = srv
  BY NowFacts DEF TypeOK
<1>5. o \in Outcome /\ SameTurns(Now, o) /\ SameTurnOrNone(Now, o)
  BY <1>4, StartNewThreadFacts
<1>6. ses' = o.ses /\ srv' = o.srv /\ saved' = o.saved /\ budget' = o.budget
  BY <1>3 DEF Becomes
<1>7. LiveSession(ses', srv', E)
  BY <1>4, <1>5, <1>6 DEF LiveSession, SameTurns, SameTurnOrNone
<1>8. srv'.waiting = srv.waiting /\ srv'.rollout = srv.rollout
  BY <1>4, <1>5, <1>6 DEF SameTurns
<1>9. handler' \in Handling
  BY <1>1, <1>3, RepliesType
<1>10. acted' \in SUBSET Updates
  BY <1>1, <1>3 DEF TypeOK
<1>11. /\ ses' \in Session /\ srv' \in Server /\ saved' \in 0..MaxThreads
       /\ budget' \in [Fault -> Nat]
  BY <1>5, <1>6 DEF Outcome
<1> QED BY <1>2, <1>7, <1>8, <1>9, <1>10, <1>11 DEF TypeOK

\* A session that is cleared names no turn.
LEMMA ClearedFacts ==
    ASSUME TypeOK, NEW t
    PROVE  /\ Cleared(t) \in Session
           /\ ses.thread = t => Cleared(t).turn = NoTurn
           /\ ses.thread # t => Cleared(t) = ses
BY Constants DEF TypeOK, Session, Cleared

LEMMA TurnCompletedStep ==
    ASSUME TypeOK, NEW E, TurnCompleted,
           ses.thread # Head(events).thread \/ NoticesFail => LiveSession(ses, srv, E)
    PROVE  TypeOK' /\ LiveSession(ses', srv', E)
<1> DEFINE t == Head(events).thread
<1>1. /\ events' = Tail(events) /\ events # <<>>
      /\ UNCHANGED <<kind, poll, feed, handler, inbox, disk, monitors, done>>
  BY DEF TurnCompleted, inboxVars
<1>2. events' \in Seq(Event)
  BY <1>1, TailFacts DEF TypeOK
<1>3. Cleared(t) \in Session /\ ses \in Session
  BY ClearedFacts DEF TypeOK
<1>4. Pump(Cleared(t)) \/ (NoticesFail /\ Pump(ses))
  BY DEF TurnCompleted
<1>5. CASE Pump(Cleared(t))
  <2>1. LiveSession(Cleared(t), srv, E)
    <3>1. CASE ses.thread = t
      BY <3>1, ClearedFacts DEF LiveSession
    <3>2. CASE ses.thread # t
      BY <3>2, ClearedFacts
    <3> QED BY <3>1, <3>2
  <2> HIDE DEF t
  <2>2. /\ ses' \in Session /\ srv' \in Server /\ saved' \in 0..MaxThreads
        /\ budget' \in [Fault -> Nat] /\ queue' \in Seq(Updates)
        /\ signalled' \in SUBSET Updates /\ acted' \in SUBSET Updates
        /\ LiveSession(ses', srv', E)
    BY <1>3, <1>5, <2>1, PumpStep
  <2> QED BY <1>1, <1>2, <2>2 DEF TypeOK
<1>6. CASE NoticesFail /\ Pump(ses)
  <2>1. LiveSession(ses, srv, E)
    BY <1>6
  <2>2. /\ ses' \in Session /\ srv' \in Server /\ saved' \in 0..MaxThreads
        /\ budget' \in [Fault -> Nat] /\ queue' \in Seq(Updates)
        /\ signalled' \in SUBSET Updates /\ acted' \in SUBSET Updates
        /\ LiveSession(ses', srv', E)
    BY <1>3, <1>6, <2>1, PumpStep
  <2> QED BY <1>1, <1>2, <2>2 DEF TypeOK
<1> QED BY <1>4, <1>5, <1>6

LEMMA OtherNotificationStep ==
    ASSUME TypeOK, NEW E, LiveSession(ses, srv, E), OtherNotification
    PROVE  TypeOK' /\ LiveSession(ses', srv', E)
<1>1. UNCHANGED <<kind, poll, feed, handler, inbox, disk, monitors, done, events>>
  BY DEF OtherNotification, inboxVars
<1>2. /\ ses' \in Session /\ srv' \in Server /\ saved' \in 0..MaxThreads
      /\ budget' \in [Fault -> Nat] /\ queue' \in Seq(Updates)
      /\ signalled' \in SUBSET Updates /\ acted' \in SUBSET Updates
      /\ LiveSession(ses', srv', E)
  BY PumpStep DEF OtherNotification, TypeOK
<1> QED BY <1>1, <1>2 DEF TypeOK

\* turn/interrupt and the app-server's turns.
LEMMA InterruptedFacts ==
    ASSUME TypeOK, NEW t \in Threads
    PROVE  /\ Interrupted(t) \in Server
           /\ Interrupted(t).rollout = srv.rollout
           /\ Interrupted(t).waiting = [srv.waiting EXCEPT ![t] = <<>>]
           /\ Interrupted(t).running = [srv.running EXCEPT ![t] = NoTurn]
<1>1. <<>> \in Seq(Updates)
  BY EmptySeq
<1> QED BY <1>1, Constants DEF TypeOK, Server, Interrupted

LEMMA CancelTurnType ==
    ASSUME TypeInv, CancelTurn
    PROVE  TypeInv'
<1>1. TypeOK /\ handler # Idle /\ handler.update \in Updates
  BY CommandedFacts DEF TypeInv, CancelTurn
<1>2. UNCHANGED <<kind, poll, feed, inbox, disk, monitors, done, ses, saved>>
  BY DEF CancelTurn
<1>3. Range(queue) \subseteq Updates
  BY <1>1, LenProperties DEF TypeOK, Range
<1>4. queue' \in Seq(Updates) /\ signalled' \in SUBSET Updates
  BY <1>1, <1>3, EmptySeq DEF CancelTurn, TypeOK
<1>5. /\ Replies("applied") \/ Replies("failed")
      /\ acted' \in SUBSET Updates
  BY <1>1, <1>3 DEF CancelTurn, TypeOK
<1>6. handler' \in Handling
  BY <1>1, <1>5, RepliesType
<1>7. srv' \in Server /\ events' \in Seq(Event) /\ budget' \in [Fault -> Nat]
  <2>1. CASE UNCHANGED <<srv, events, budget>>
    BY <1>1, <2>1 DEF TypeOK
  <2>2. CASE Spend("request") /\ UNCHANGED <<srv, events>>
    BY <1>1, <2>2, SpendType DEF TypeOK, Fault
  <2>3. CASE /\ ses.turn # NoTurn /\ srv' = Interrupted(ses.thread)
             /\ events' = Append(events, [thread |-> ses.thread, status |-> "interrupted"])
             /\ UNCHANGED budget
    <3>1. ses.thread \in Threads
      BY <2>3 DEF TypeInv, TurnHasThread
    <3> DEFINE e == [thread |-> ses.thread, status |-> "interrupted"]
    <3>2. e \in Event
      BY <3>1 DEF Event
    <3>3. events' = Append(events, e)
      BY <2>3
    <3> HIDE DEF e
    <3>4. events' \in Seq(Event)
      BY <1>1, <3>2, <3>3, AppendFacts DEF TypeOK
    <3> QED BY <1>1, <2>3, <3>1, <3>4, InterruptedFacts DEF TypeOK
  <2> QED BY <2>1, <2>2, <2>3 DEF CancelTurn
<1>8. TurnHasThread'
  BY <1>2 DEF TypeInv, TurnHasThread
<1> QED BY <1>1, <1>2, <1>4, <1>5, <1>6, <1>7, <1>8 DEF TypeInv, TypeOK

LEMMA RecordInputFacts ==
    ASSUME TypeOK, NEW t \in Threads, RecordInput(t)
    PROVE  /\ srv' \in Server /\ srv'.running = srv.running
           /\ srv.waiting[t] # <<>> /\ srv.waiting[t] \in Seq(Updates)
           /\ srv.rollout[t] \in Seq(Updates)
           /\ srv'.waiting = [srv.waiting EXCEPT ![t] = Tail(@)]
           /\ srv'.rollout = [srv.rollout EXCEPT ![t] = Append(@, Head(srv.waiting[t]))]
<1> DEFINE w == [srv.waiting EXCEPT ![t] = Tail(@)]
           r == [srv.rollout EXCEPT ![t] = Append(@, Head(srv.waiting[t]))]
           b == [srv.begun EXCEPT ![t] = TRUE]
<1>1. /\ srv \in Server /\ srv.waiting[t] \in Seq(Updates) /\ srv.rollout[t] \in Seq(Updates)
      /\ srv.waiting[t] # <<>>
  BY DEF TypeOK, Server, RecordInput
<1>2. /\ Head(srv.waiting[t]) \in Updates /\ Tail(srv.waiting[t]) \in Seq(Updates)
  BY <1>1, TailFacts
<1>3. Append(srv.rollout[t], Head(srv.waiting[t])) \in Seq(Updates)
  BY <1>1, <1>2, AppendFacts
<1>4. /\ w \in [Threads -> Seq(Updates)] /\ r \in [Threads -> Seq(Updates)]
      /\ b \in [Threads -> BOOLEAN]
  BY <1>1, <1>2, <1>3 DEF Server
<1>5. srv' = [srv EXCEPT !.rollout = r, !.waiting = w, !.begun = b]
  BY <1>1 DEF RecordInput, Server
<1> HIDE DEF w, r, b
<1>6. srv' \in Server /\ srv'.running = srv.running /\ srv'.waiting = w /\ srv'.rollout = r
  BY <1>1, <1>4, <1>5 DEF Server
<1> QED BY <1>1, <1>6 DEF w, r

LEMMA TurnErrsFacts ==
    ASSUME TypeOK, NEW t \in Threads, TurnErrs(t)
    PROVE  /\ srv' \in Server /\ srv.rollout[t] \in Seq(Updates)
           /\ srv.waiting[t] \in Seq(Updates)
           /\ srv'.running = [srv.running EXCEPT ![t] = NoTurn]
           /\ srv'.waiting = [srv.waiting EXCEPT ![t] = <<>>]
           /\ srv'.rollout = [srv.rollout EXCEPT ![t] = @ \o srv.waiting[t]]
<1> DEFINE w == [srv.waiting EXCEPT ![t] = <<>>]
           r == [srv.rollout EXCEPT ![t] = @ \o srv.waiting[t]]
           n == [srv.running EXCEPT ![t] = NoTurn]
<1>1. srv \in Server /\ srv.waiting[t] \in Seq(Updates) /\ srv.rollout[t] \in Seq(Updates)
  BY DEF TypeOK, Server
<1>2. /\ <<>> \in Seq(Updates) /\ srv.rollout[t] \o srv.waiting[t] \in Seq(Updates)
  BY <1>1, EmptySeq, ConcatFacts
<1>3. /\ w \in [Threads -> Seq(Updates)] /\ r \in [Threads -> Seq(Updates)]
      /\ n \in [Threads -> Turns]
  BY <1>1, <1>2, Constants DEF Server
<1>4. srv' = [srv EXCEPT !.running = n, !.waiting = w, !.rollout = r]
  BY <1>1 DEF TurnErrs, Server
<1> HIDE DEF w, r, n
<1>5. srv' \in Server /\ srv'.running = n /\ srv'.waiting = w /\ srv'.rollout = r
  BY <1>1, <1>3, <1>4 DEF Server
<1> QED BY <1>1, <1>5 DEF w, r, n

LEMMA TurnEndsFacts ==
    ASSUME TypeOK, NEW t \in Threads, TurnEnds(t)
    PROVE  /\ srv' \in Server /\ srv'.running = [srv.running EXCEPT ![t] = NoTurn]
           /\ srv'.waiting = srv.waiting /\ srv'.rollout = srv.rollout
BY Constants DEF TypeOK, Server, TurnEnds

LEMMA FollowUpFacts ==
    ASSUME TypeOK, NEW t \in Threads, FollowUp(t)
    PROVE  /\ srv' \in Server /\ srv'.running = [srv.running EXCEPT ![t] = FollowUpTurn]
           /\ srv'.waiting = srv.waiting /\ srv'.rollout = srv.rollout
BY Constants DEF TypeOK, Server, FollowUp

\* The end of a turn is reported.
LEMMA EndIsReported ==
    ASSUME TypeOK, NEW t \in Threads, TurnEnds(t) \/ TurnErrs(t)
    PROVE  \E e \in Event : e.thread = t /\ events' = Append(events, e)
<1>1. PICK st \in {"completed", "failed"} :
          events' = Append(events, [thread |-> t, status |-> st])
  BY DEF TurnEnds, TurnErrs
<1> DEFINE e == [thread |-> t, status |-> st]
<1>2. e \in Event /\ e.thread = t
  BY DEF Event
<1>3. events' = Append(events, e)
  BY <1>1
<1> QED BY <1>2, <1>3

LEMMA TurnType ==
    ASSUME TypeInv, NEW t \in Threads, Turn(t)
    PROVE  TypeInv'
<1>1. /\ UNCHANGED <<kind, poll, feed, handler, inbox, disk, monitors, done, ses, saved,
                     queue, signalled, acted, budget>>
  BY DEF Turn, RecordInput, TurnEnds, TurnErrs, FollowUp, inboxVars, bridgeVars
<1>2. srv' \in Server
  BY RecordInputFacts, TurnEndsFacts, TurnErrsFacts, FollowUpFacts DEF Turn, TypeInv
<1>3. events' \in Seq(Event)
  <2>1. CASE RecordInput(t) \/ FollowUp(t)
    BY <2>1 DEF RecordInput, FollowUp, TypeInv, TypeOK
  <2>2. CASE TurnEnds(t) \/ TurnErrs(t)
    <3>1. PICK e \in Event : events' = Append(events, e)
      BY <2>2, EndIsReported DEF TypeInv
    <3> QED BY <3>1, AppendFacts DEF TypeInv, TypeOK
  <2> QED BY <2>1, <2>2 DEF Turn
<1> QED BY <1>1, <1>2, <1>3 DEF TypeInv, TypeOK, TurnHasThread

LEMMA GetUpdatesType ==
    ASSUME TypeInv, GetUpdates
    PROVE  TypeInv'
<1>1. PICK n \in 0..Batch :
        /\ poll.fetched + n <= MaxUpdate
        /\ poll' = [fetched |-> poll.fetched + n, confirmed |-> poll.fetched]
        /\ feed' = feed \o [i \in 1..n |-> poll.fetched + i]
  BY DEF GetUpdates
<1>2. UNCHANGED <<kind, handler, inbox, disk, monitors, done, ses, saved, queue, signalled,
                  acted, srv, events, budget>>
  BY DEF GetUpdates, bridgeVars
<1> DEFINE f == poll.fetched
<1>3. f \in 0..MaxUpdate /\ feed \in Seq(Updates)
  BY DEF TypeInv, TypeOK
<1> HIDE DEF f
<1>4. \A i \in 1..n : f + i \in Updates
  BY <1>1, <1>3 DEF Updates, f
<1> DEFINE batch == [i \in 1..n |-> f + i]
<1>5. batch \in Seq(Updates)
  BY <1>4
<1>6. feed' = feed \o batch
  BY <1>1 DEF f
<1> HIDE DEF batch
<1>7. feed' \in Seq(Updates)
  BY <1>3, <1>5, <1>6, ConcatFacts
<1>8. poll' \in [fetched : 0..MaxUpdate, confirmed : 0..MaxUpdate]
  BY <1>1, <1>3 DEF f
<1> QED BY <1>2, <1>7, <1>8 DEF TypeInv, TypeOK, TurnHasThread

LEMMA DispatchType ==
    ASSUME TypeInv, Dispatch
    PROVE  TypeInv'
<1>1. TypeOK /\ feed \in Seq(Updates) /\ feed # <<>>
  BY DEF TypeInv, TypeOK, Dispatch
<1>2. Head(feed) \in Updates /\ Tail(feed) \in Seq(Updates)
  BY <1>1, TailFacts
<1>3. /\ UNCHANGED <<kind, poll, monitors, done, ses, saved, queue, signalled, acted, srv,
                     events>>
      /\ feed' = Tail(feed)
  BY DEF Dispatch, bridgeVars
<1>4. /\ inbox' \in Inbox /\ disk' \in File /\ budget' \in [Fault -> Nat]
      /\ handler' \in Handling \cup {Idle}
  <2>1. CASE UNCHANGED <<handler, inbox, disk, budget>>
    BY <1>1, <2>1 DEF TypeOK
  <2>2. CASE BeginUpdate(Head(feed))
    BY <1>1, <1>2, <2>2, BeginUpdateType
  <2> QED BY <2>1, <2>2 DEF Dispatch
<1> QED BY <1>1, <1>2, <1>3, <1>4 DEF TypeInv, TypeOK, TurnHasThread

LEMMA HandlerFinishesType ==
    ASSUME TypeInv, HandlerFinishes
    PROVE  TypeInv' /\ handler # Idle /\ handler.update \in Updates
<1>1. TypeOK /\ handler # Idle /\ handler' = Idle
  BY DEF TypeInv, HandlerFinishes, Idle
<1>2. handler.update \in Updates
  BY <1>1 DEF TypeOK, Handling
<1>3. UNCHANGED <<kind, poll, feed, ses, saved, queue, signalled, acted, srv, events>>
  BY DEF HandlerFinishes, bridgeVars
<1>4. /\ inbox' \in Inbox /\ disk' \in File /\ budget' \in [Fault -> Nat]
      /\ done' \in SUBSET Updates /\ monitors' \in SUBSET Updates
  <2>1. CASE CompleteUpdate(handler.update) /\ UNCHANGED monitors
    BY <1>1, <1>2, <2>1, CompleteUpdateType DEF TypeOK
  <2>2. CASE monitors' = monitors \cup {handler.update} /\ UNCHANGED <<inbox, disk, done, budget>>
    BY <1>1, <1>2, <2>2 DEF TypeOK
  <2>3. CASE ReleaseUpdate(handler.update) /\ UNCHANGED monitors
    BY <1>1, <1>2, <2>3, ReleaseUpdateType DEF TypeOK
  <2> QED BY <2>1, <2>2, <2>3 DEF HandlerFinishes
<1> QED BY <1>1, <1>2, <1>3, <1>4 DEF TypeInv, TypeOK, TurnHasThread

LEMMA MonitorCompletesType ==
    ASSUME TypeInv, NEW u \in Updates, MonitorCompletes(u)
    PROVE  TypeInv'
<1>1. /\ UNCHANGED <<kind, poll, feed, handler, ses, saved, queue, acted, srv, events>>
      /\ monitors' = monitors \ {u} /\ signalled' = signalled \ {u}
  BY DEF MonitorCompletes
<1>2. /\ inbox' \in Inbox /\ disk' \in File /\ budget' \in [Fault -> Nat]
      /\ done' \in SUBSET Updates
  BY CompleteUpdateType DEF MonitorCompletes, TypeInv
<1> QED BY <1>1, <1>2 DEF TypeInv, TypeOK, TurnHasThread

LEMMA CrashType ==
    ASSUME TypeInv, Crash
    PROVE  /\ TypeInv'
           /\ srv'.rollout = srv.rollout /\ srv'.waiting = [t \in Threads |-> <<>>]
<1>1. TypeOK
  BY DEF TypeInv
<1>2. budget' \in [Fault -> Nat]
  BY <1>1, SpendType DEF Crash, TypeOK, Fault
<1>3. poll' \in [fetched : 0..MaxUpdate, confirmed : 0..MaxUpdate]
  BY <1>1 DEF Crash, TypeOK
<1>4. feed' \in Seq(Updates)
  <2> DEFINE S == disk.pending
             n == Cardinality(S)
  <2>1. S \in SUBSET Updates /\ IsFiniteSet(Updates)
    BY <1>1, FS_Interval DEF TypeOK, File, Updates
  <2>2. n \in Nat
    BY <2>1, FS_Subset, FS_CardinalityType
  <2>3. feed' \in [1..n -> S]
    BY DEF Crash, InOrder
  <2> HIDE DEF S, n
  <2>4. feed' \in [1..n -> Updates]
    BY <2>1, <2>3
  <2> QED BY <2>2, <2>4
<1>5. inbox' \in Inbox
  <2>1. disk.pending \in SUBSET Updates /\ Latest(disk.completed) \in Seq(Updates)
    BY <1>1, LatestFacts DEF TypeOK, File
  <2> QED BY <2>1 DEF Crash, Inbox
<1>6. ses' \in Session /\ ses'.turn = NoTurn
  BY <1>1, Constants DEF Crash, TypeOK, Session
<1>7. /\ srv' \in Server /\ srv'.rollout = srv.rollout
      /\ srv'.waiting = [t \in Threads |-> <<>>]
  <2>1. /\ [t \in Threads |-> <<>>] \in [Threads -> Seq(Updates)]
        /\ [t \in Threads |-> NoTurn] \in [Threads -> Turns]
    BY EmptySeq, Constants
  <2> QED BY <1>1, <2>1 DEF Crash, TypeOK, Server
<1>8. queue' \in Seq(Updates) /\ events' \in Seq(Event)
  BY EmptySeq DEF Crash
<1>9. /\ handler' = Idle /\ monitors' = {} /\ signalled' = {} /\ acted' = done
      /\ UNCHANGED <<kind, disk, saved, done>>
  BY DEF Crash
<1> QED BY <1>1, <1>2, <1>3, <1>4, <1>5, <1>6, <1>7, <1>8, <1>9
        DEF TypeInv, TypeOK, TurnHasThread

LEMMA TypeInit ==
    ASSUME Init
    PROVE  TypeInv
<1>1. <<>> \in Seq(Updates) /\ <<>> \in Seq(Event)
  BY EmptySeq
<1>2. srv \in Server /\ ses \in Session
  BY <1>1, Constants DEF Init, Server, Session
<1>3. inbox \in Inbox /\ disk \in File
  BY <1>1 DEF Init, Inbox, File
<1> QED BY <1>1, <1>2, <1>3, Constants DEF Init, TypeInv, TypeOK, TurnHasThread, Idle

LEMMA LiveIsTurnHasThread ==
    /\ TurnHasThread <=> LiveSession(ses, srv, Threads)
    /\ TurnHasThread' <=> LiveSession(ses', srv', Threads)
BY DEF TurnHasThread, LiveSession

LEMMA TypeNext ==
    ASSUME TypeInv, [Next]_vars
    PROVE  TypeInv'
<1>0. TypeOK /\ LiveSession(ses, srv, Threads)
  BY LiveIsTurnHasThread DEF TypeInv
<1>1. CASE HandleUserInput
  BY <1>0, <1>1, HandleUserInputStep, LiveIsTurnHasThread DEF TypeInv
<1>2. CASE NewThread
  BY <1>0, <1>2, NewThreadStep, LiveIsTurnHasThread DEF TypeInv
<1>3. CASE TurnCompleted
  BY <1>0, <1>3, TurnCompletedStep, LiveIsTurnHasThread DEF TypeInv
<1>4. CASE OtherNotification
  BY <1>0, <1>4, OtherNotificationStep, LiveIsTurnHasThread DEF TypeInv
<1>5. CASE UNCHANGED vars
  BY <1>5 DEF vars, TypeInv, TypeOK, TurnHasThread
<1> QED BY <1>1, <1>2, <1>3, <1>4, <1>5, GetUpdatesType, DispatchType,
           HandlerFinishesType, MonitorCompletesType, CancelTurnType, TurnType, CrashType
        DEF Next, Bridge

\* Every variable keeps its type, whatever the order of commands, events,
\* faults and restarts; a turn the session names is always of a thread.
THEOREM TypeCorrect == Spec => [](TypeOK /\ TurnHasThread)
<1>1. Init => TypeInv
  BY TypeInit
<1>2. TypeInv /\ [Next]_vars => TypeInv'
  BY TypeNext
<1> QED BY <1>1, <1>2, PTL DEF Spec, TypeInv

-----------------------------------------------------------------------------
(* The bridge never waits on a turn that is over.                          *)

EventThreads == {events[i].thread : i \in 1..Len(events)}

LiveInv == TypeInv /\ LiveSession(ses, srv, EventThreads)

LEMMA EventsGrow ==
    ASSUME TypeOK, NEW e \in Event, events' = Append(events, e)
    PROVE  EventThreads \subseteq EventThreads' /\ e.thread \in EventThreads'
<1>1. /\ Len(events') = Len(events) + 1 /\ events'[Len(events) + 1] = e
      /\ \A i \in 1..Len(events) : events'[i] = events[i]
  BY AppendProperties DEF TypeOK
<1>2. Len(events) \in Nat
  BY LenProperties DEF TypeOK
<1>3. \A i \in 1..Len(events) : i \in 1..Len(events') /\ events'[i] = events[i]
  BY <1>1, <1>2
<1>4. Len(events) + 1 \in 1..Len(events')
  BY <1>1, <1>2
<1>5. e.thread \in EventThreads'
  BY <1>1, <1>4 DEF EventThreads
<1>6. EventThreads \subseteq EventThreads'
  BY <1>3 DEF EventThreads
<1> QED BY <1>5, <1>6

LEMMA EventsShrink ==
    ASSUME TypeOK, events # <<>>, events' = Tail(events)
    PROVE  EventThreads \subseteq EventThreads' \cup {Head(events).thread}
<1>1. /\ Len(events') = Len(events) - 1 /\ Len(events) \in Nat \ {0}
      /\ \A i \in 1..Len(events') : events'[i] = events[i + 1]
      /\ Head(events) = events[1]
  BY HeadTailProperties, EmptySeq, LenProperties DEF TypeOK
<1> SUFFICES ASSUME NEW i \in 1..Len(events), i # 1 PROVE events[i].thread \in EventThreads'
  BY <1>1 DEF EventThreads
<1>2. i - 1 \in 1..Len(events') /\ events'[i - 1] = events[i]
  BY <1>1
<1> QED BY <1>2 DEF EventThreads

\* A step that leaves the session alone and loses no end of a turn.
LEMMA LiveKept ==
    ASSUME LiveInv, UNCHANGED ses, EventThreads \subseteq EventThreads',
           \A t \in Threads : srv.running[t] # NoTurn =>
               srv'.running[t] # NoTurn \/ t \in EventThreads'
    PROVE  LiveSession(ses', srv', EventThreads')
BY DEF LiveInv, LiveSession

\* The session is taken to any set that holds the reports to come.
LEMMA LiveGrows ==
    ASSUME NEW s, NEW v, NEW E, NEW F, E \subseteq F, LiveSession(s, v, E)
    PROVE  LiveSession(s, v, F)
BY DEF LiveSession

LEMMA CancelTurnLive ==
    ASSUME LiveInv, CancelTurn
    PROVE  LiveSession(ses', srv', EventThreads')
<1>1. TypeOK /\ UNCHANGED ses
  BY DEF LiveInv, TypeInv, CancelTurn
<1>2. CASE UNCHANGED <<srv, events>>
  BY <1>1, <1>2, LiveKept DEF EventThreads
<1>3. CASE /\ ses.turn # NoTurn /\ srv' = Interrupted(ses.thread)
           /\ events' = Append(events, [thread |-> ses.thread, status |-> "interrupted"])
  <2> DEFINE t == ses.thread
             e == [thread |-> t, status |-> "interrupted"]
  <2>1. t \in Threads
    BY <1>3 DEF LiveInv, TypeInv, TurnHasThread
  <2>2. e \in Event /\ e.thread = t /\ events' = Append(events, e)
    BY <1>3, <2>1 DEF Event
  <2>3. srv'.running = [srv.running EXCEPT ![t] = NoTurn] /\ srv.running \in [Threads -> Turns]
    BY <1>1, <1>3, <2>1, InterruptedFacts DEF TypeOK, Server
  <2> HIDE DEF e, t
  <2>4. EventThreads \subseteq EventThreads' /\ t \in EventThreads'
    BY <1>1, <2>2, EventsGrow
  <2>5. \A d \in Threads : srv.running[d] # NoTurn =>
               srv'.running[d] # NoTurn \/ d \in EventThreads'
    BY <2>3, <2>4
  <2> QED BY <1>1, <2>4, <2>5, LiveKept
<1> QED BY <1>2, <1>3 DEF CancelTurn

LEMMA TurnLive ==
    ASSUME LiveInv, NEW t \in Threads, Turn(t)
    PROVE  LiveSession(ses', srv', EventThreads')
<1>1. TypeOK /\ UNCHANGED ses /\ srv.running \in [Threads -> Turns]
  BY DEF LiveInv, TypeInv, TypeOK, Server, Turn, RecordInput, TurnEnds, TurnErrs, FollowUp,
         bridgeVars
<1>2. CASE RecordInput(t) \/ FollowUp(t)
  <2>1. \A d \in Threads : srv.running[d] # NoTurn => srv'.running[d] # NoTurn
    BY <1>1, <1>2, RecordInputFacts, FollowUpFacts, Constants
  <2>2. EventThreads' = EventThreads
    BY <1>2 DEF RecordInput, FollowUp, EventThreads
  <2> QED BY <1>1, <2>1, <2>2, LiveKept
<1>3. CASE TurnEnds(t) \/ TurnErrs(t)
  <2>1. PICK e \in Event : e.thread = t /\ events' = Append(events, e)
    BY <1>1, <1>3, EndIsReported
  <2>2. EventThreads \subseteq EventThreads' /\ t \in EventThreads'
    BY <1>1, <2>1, EventsGrow
  <2>3. srv'.running = [srv.running EXCEPT ![t] = NoTurn]
    BY <1>1, <1>3, TurnEndsFacts, TurnErrsFacts
  <2>4. \A d \in Threads : srv.running[d] # NoTurn =>
               srv'.running[d] # NoTurn \/ d \in EventThreads'
    BY <1>1, <2>2, <2>3
  <2> QED BY <1>1, <2>2, <2>4, LiveKept
<1> QED BY <1>2, <1>3 DEF Turn

LEMMA TurnCompletedLive ==
    ASSUME LiveInv, TurnCompleted, ~NoticesFail
    PROVE  LiveSession(ses', srv', EventThreads')
<1>1. TypeOK /\ events # <<>> /\ events' = Tail(events)
  BY DEF LiveInv, TypeInv, TurnCompleted
<1>2. EventThreads \subseteq EventThreads' \cup {Head(events).thread}
  BY <1>1, EventsShrink
<1>3. ses.thread # Head(events).thread => LiveSession(ses, srv, EventThreads')
  BY <1>2 DEF LiveInv, LiveSession
<1> QED BY <1>1, <1>3, TurnCompletedStep

LEMMA LiveNext ==
    ASSUME LiveInv, [Next]_vars, ~NoticesFail
    PROVE  LiveInv'
<1>1. TypeOK /\ LiveSession(ses, srv, EventThreads)
  BY DEF LiveInv, TypeInv
<1>2. TypeInv'
  BY TypeNext DEF LiveInv
<1>3. LiveSession(ses', srv', EventThreads')
  <2>1. CASE HandleUserInput
    <3>1. LiveSession(ses', srv', EventThreads)
      BY <1>1, <2>1, HandleUserInputStep
    <3> QED BY <2>1, <3>1 DEF HandleUserInput, EventThreads
  <2>2. CASE NewThread
    <3>1. LiveSession(ses', srv', EventThreads)
      BY <1>1, <2>2, NewThreadStep
    <3> QED BY <2>2, <3>1 DEF NewThread, EventThreads
  <2>3. CASE OtherNotification
    <3>1. LiveSession(ses', srv', EventThreads)
      BY <1>1, <2>3, OtherNotificationStep
    <3> QED BY <2>3, <3>1 DEF OtherNotification, EventThreads
  <2>4. CASE GetUpdates \/ Dispatch \/ HandlerFinishes \/ UNCHANGED vars
             \/ \E u \in Updates : MonitorCompletes(u)
    <3>1. UNCHANGED <<ses, srv, events>>
      BY <2>4 DEF GetUpdates, Dispatch, HandlerFinishes, MonitorCompletes, vars, bridgeVars
    <3>2. EventThreads' = EventThreads
      BY <3>1 DEF EventThreads
    <3> QED BY <1>1, <3>1, <3>2
  <2>5. CASE Crash
    <3>1. ses'.turn = NoTurn
      BY <2>5 DEF Crash
    <3> QED BY <3>1 DEF LiveSession
  <2> QED BY <2>1, <2>2, <2>3, <2>4, <2>5, CancelTurnLive, TurnCompletedLive, TurnLive
          DEF Next, Bridge
<1> QED BY <1>2, <1>3 DEF LiveInv

\* When notices reach the chat, a turn the session believes to be running is
\* running or its end is still to be reported.  NoticesFail = FALSE is the
\* premise the violation run shows to be needed.
THEOREM TurnsAreNeverStuck == ~NoticesFail => (Spec => []NoStuckTurn)
<1> SUFFICES ASSUME ~NoticesFail PROVE Spec => []NoStuckTurn
  OBVIOUS
<1>1. Init => LiveInv
  BY TypeInit DEF Init, LiveInv, LiveSession
<1>2. LiveInv /\ [Next]_vars => LiveInv'
  BY LiveNext
<1>3. LiveInv => NoStuckTurn
  BY DEF LiveInv, LiveSession, EventThreads, NoStuckTurn
<1> QED BY <1>1, <1>2, <1>3, PTL DEF Spec

-----------------------------------------------------------------------------
(* No thread is given an input twice.                                      *)

DInv == TypeInv /\ DeliveryInv

\* A window that covers every update forgets none.
LEMMA WindowForgetsNothing ==
    ASSUME Window >= MaxUpdate, NEW s \in Seq(Updates), IsInjective(s)
    PROVE  Latest(s) = s
<1>1. IsFiniteSet(Updates) /\ Cardinality(Updates) = MaxUpdate
  BY FS_Interval DEF Updates
<1>2. Len(s) <= MaxUpdate
  BY <1>1, InjectiveIsShort
<1>3. Len(s) \in Nat
  BY LenProperties
<1> QED BY <1>2, <1>3, LatestFacts

LEMMA MarkCompletedFacts ==
    ASSUME Window >= MaxUpdate, NEW b \in Inbox, IsInjective(b.completed), NEW u \in Updates
    PROVE  /\ MarkCompleted(b, u).pending = b.pending \ {u}
           /\ MarkCompleted(b, u).inFlight = b.inFlight \ {u}
           /\ IsInjective(MarkCompleted(b, u).completed)
           /\ Range(MarkCompleted(b, u).completed) = Range(b.completed) \cup {u}
<1> DEFINE c == IF u \in Range(b.completed) THEN b.completed ELSE Append(b.completed, u)
<1>1. b.completed \in Seq(Updates)
  BY DEF Inbox
<1>2. /\ c \in Seq(Updates) /\ IsInjective(c) /\ Range(c) = Range(b.completed) \cup {u}
  BY <1>1, AppendFacts
<1> HIDE DEF c
<1>3. Latest(c) = c
  BY <1>2, WindowForgetsNothing
<1>4. MarkCompleted(b, u) = [pending |-> b.pending \ {u}, inFlight |-> b.inFlight \ {u},
                             completed |-> Latest(c)]
  BY DEF MarkCompleted, c
<1> QED BY <1>2, <1>3, <1>4

LEMMA CompleteUpdateFacts ==
    ASSUME Window >= MaxUpdate, DInv, NEW u \in Updates, CompleteUpdate(u), UNCHANGED acted,
           u \in inbox.inFlight, u \in acted
    PROVE  /\ Claims'
           /\ \/ UNCHANGED <<inbox, disk, done>>
              \/ /\ inbox'.inFlight = inbox.inFlight \ {u}
                 /\ disk' = Snapshot(inbox') /\ inbox'.pending = inbox.pending \ {u}
                 /\ done' = done \cup {u}
<1>1. /\ Claims /\ inbox \in Inbox /\ IsInjective(inbox.completed)
  BY DEF DInv, TypeInv, TypeOK, DeliveryInv, Claims
<1>2. CASE UNCHANGED <<inbox, disk, done>>
  BY <1>1, <1>2 DEF Claims, Snapshot
<1>3. CASE /\ inbox' = MarkCompleted(inbox, u) /\ disk' = Snapshot(MarkCompleted(inbox, u))
           /\ done' = done \cup {u}
  <2>1. /\ inbox'.pending = inbox.pending \ {u} /\ inbox'.inFlight = inbox.inFlight \ {u}
        /\ IsInjective(inbox'.completed)
        /\ Range(inbox'.completed) = Range(inbox.completed) \cup {u}
        /\ disk' = Snapshot(inbox')
    BY <1>1, <1>3, MarkCompletedFacts
  <2>2. /\ done = Range(inbox.completed) /\ inbox.inFlight \subseteq inbox.pending
        /\ inbox.inFlight \cap done = {} /\ done \subseteq acted
        /\ acted \subseteq inbox.inFlight \cup done
    BY <1>1 DEF Claims
  <2>3. Claims'
    BY <1>3, <2>1, <2>2 DEF Claims
  <2> QED BY <1>3, <2>1, <2>3
<1> QED BY <1>2, <1>3 DEF CompleteUpdate

\* The threads are as they were.
LEMMA HeldAsBefore ==
    ASSUME ThreadsHoldOnce, acted \subseteq acted',
           srv'.waiting = srv.waiting, srv'.rollout = srv.rollout
    PROVE  ThreadsHoldOnce'
BY DEF ThreadsHoldOnce, HoldsOnce

\* One thread changes.
LEMMA OneThreadChanges ==
    ASSUME TypeOK, ThreadsHoldOnce, acted \subseteq acted', NEW t \in Threads, NEW w, NEW r,
           srv'.waiting = [srv.waiting EXCEPT ![t] = w],
           srv'.rollout = [srv.rollout EXCEPT ![t] = r], HoldsOnce(w, r, acted')
    PROVE  ThreadsHoldOnce'
<1>1. srv.waiting \in [Threads -> Seq(Updates)] /\ srv.rollout \in [Threads -> Seq(Updates)]
  BY DEF TypeOK, Server
<1> SUFFICES ASSUME NEW d \in Threads
             PROVE  HoldsOnce(srv'.waiting[d], srv'.rollout[d], acted')
  BY DEF ThreadsHoldOnce
<1>2. CASE d = t
  <2>1. srv'.waiting[d] = w /\ srv'.rollout[d] = r
    BY <1>1, <1>2
  <2> QED BY <2>1
<1>3. CASE d # t
  <2>1. srv'.waiting[d] = srv.waiting[d] /\ srv'.rollout[d] = srv.rollout[d]
    BY <1>1, <1>3
  <2> QED BY <2>1 DEF ThreadsHoldOnce, HoldsOnce
<1> QED BY <1>2, <1>3

LEMMA ThreadFacts ==
    ASSUME TypeOK, ThreadsHoldOnce, NEW t \in Threads
    PROVE  /\ srv.waiting[t] \in Seq(Updates) /\ srv.rollout[t] \in Seq(Updates)
           /\ srv.waiting = [srv.waiting EXCEPT ![t] = srv.waiting[t]]
           /\ srv.rollout = [srv.rollout EXCEPT ![t] = srv.rollout[t]]
           /\ IsInjective(srv.waiting[t]) /\ IsInjective(srv.rollout[t])
           /\ Range(srv.waiting[t]) \cap Range(srv.rollout[t]) = {}
           /\ Range(srv.waiting[t]) \subseteq acted
BY DEF TypeOK, Server, ThreadsHoldOnce, HoldsOnce

\* An input not yet carried out is given to a thread that has not recorded
\* it.
LEMMA HeldOnceMore ==
    ASSUME TypeOK, ThreadsHoldOnce, NEW u \in Updates, u \notin acted,
           acted' = acted \cup {u}, Gives(u, TRUE)
    PROVE  ThreadsHoldOnce'
<1>1. CASE srv'.waiting = srv.waiting
  BY <1>1, HeldAsBefore DEF Gives
<1>2. CASE srv'.waiting # srv.waiting
  <2>1. PICK t \in Threads :
             /\ u \notin Range(srv.rollout[t])
             /\ srv'.waiting = [srv.waiting EXCEPT ![t] = Append(@, u)]
    BY <1>2 DEF Gives
  <2> DEFINE w == srv.waiting[t]
             r == srv.rollout[t]
  <2>2. /\ w \in Seq(Updates) /\ IsInjective(w) /\ IsInjective(r)
        /\ Range(w) \cap Range(r) = {} /\ Range(w) \subseteq acted
    BY ThreadFacts
  <2>3. srv'.waiting = [srv.waiting EXCEPT ![t] = Append(w, u)]
    BY <2>1 DEF TypeOK, Server
  <2>4. srv'.rollout = [srv.rollout EXCEPT ![t] = r]
    BY ThreadFacts DEF Gives
  <2> HIDE DEF w
  <2>5. IsInjective(Append(w, u)) /\ Range(Append(w, u)) = Range(w) \cup {u}
    BY <2>2, AppendFacts
  <2>6. HoldsOnce(Append(w, u), r, acted')
    BY <2>1, <2>2, <2>5 DEF HoldsOnce
  <2> QED BY <2>3, <2>4, <2>6, OneThreadChanges
<1> QED BY <1>1, <1>2

LEMMA DispatchClaims ==
    ASSUME DInv, Dispatch
    PROVE  DeliveryInv'
<1> DEFINE u == Head(feed)
<1>1. TypeOK /\ DeliveryInv /\ handler = Idle
  BY DEF DInv, TypeInv, Dispatch
<1>2. /\ UNCHANGED <<monitors, done, queue, signalled, acted, srv>>
  BY DEF Dispatch, bridgeVars
<1>3. ThreadsHoldOnce'
  BY <1>1, <1>2, HeldAsBefore DEF DeliveryInv
<1>4. CASE UNCHANGED <<handler, inbox, disk>>
  BY <1>1, <1>2, <1>3, <1>4 DEF DeliveryInv, Claims, HandlerClaims, QueueClaims, Snapshot
<1>5. CASE /\ ~Refused(u)
           /\ inbox' = [inbox EXCEPT !.pending = @ \cup {u}, !.inFlight = @ \cup {u}]
           /\ disk' = Snapshot(inbox')
           /\ handler' = [update |-> u, step |-> "sent"]
  <2>1. u \notin Range(inbox.completed) /\ u \notin inbox.inFlight
    BY <1>5 DEF Refused
  <2>2. /\ inbox'.pending = inbox.pending \cup {u} /\ inbox'.completed = inbox.completed
        /\ inbox'.inFlight = inbox.inFlight \cup {u}
    BY <1>1, <1>5 DEF TypeOK, Inbox
  <2>3. /\ handler'.update = u /\ handler'.step = "sent"
    BY <1>5
  <2> HIDE DEF u
  <2>4. Claims'
    BY <1>1, <1>2, <1>5, <2>1, <2>2 DEF DeliveryInv, Claims
  <2>5. HandlerClaims'
    BY <1>1, <1>2, <2>1, <2>2, <2>3 DEF DeliveryInv, Claims, HandlerClaims, QueueClaims
  <2>6. QueueClaims'
    BY <1>1, <1>2, <2>2 DEF DeliveryInv, QueueClaims
  <2> QED BY <1>3, <2>4, <2>5, <2>6 DEF DeliveryInv
<1> QED BY <1>4, <1>5 DEF Dispatch, BeginUpdate

LEMMA HandlerFinishesClaims ==
    ASSUME Window >= MaxUpdate, DInv, HandlerFinishes
    PROVE  DeliveryInv'
<1> DEFINE u == handler.update
<1>1. TypeOK /\ DeliveryInv /\ handler # Idle /\ u \in Updates
  BY HandlerFinishesType DEF DInv, TypeInv
<1>2. handler' = Idle /\ UNCHANGED <<queue, signalled, acted, srv>>
  BY DEF HandlerFinishes, bridgeVars
<1>3. ThreadsHoldOnce' /\ HandlerClaims'
  BY <1>1, <1>2, HeldAsBefore DEF DeliveryInv, HandlerClaims
<1>4. /\ u \in inbox.inFlight /\ u \notin monitors
      /\ handler.step = "applied" => u \in acted
      /\ handler.step = "failed" => u \notin acted /\ u \notin Range(queue)
  BY <1>1 DEF DeliveryInv, HandlerClaims
<1>5. CASE handler.step = "applied" /\ CompleteUpdate(u) /\ UNCHANGED monitors
  <2> HIDE DEF u
  <2>1. /\ Claims'
        /\ \/ UNCHANGED <<inbox, disk, done>>
           \/ inbox'.inFlight = inbox.inFlight \ {u}
    BY <1>1, <1>2, <1>4, <1>5, CompleteUpdateFacts
  <2>2. QueueClaims'
    BY <1>1, <1>2, <1>4, <1>5, <2>1 DEF DeliveryInv, QueueClaims
  <2> QED BY <1>3, <2>1, <2>2 DEF DeliveryInv
<1>6. CASE /\ handler.step = "queued" /\ monitors' = monitors \cup {u}
           /\ UNCHANGED <<inbox, disk, done>>
  <2> HIDE DEF u
  <2> QED BY <1>1, <1>2, <1>3, <1>4, <1>6 DEF DeliveryInv, Claims, QueueClaims, Snapshot
<1>7. CASE handler.step = "failed" /\ ReleaseUpdate(u) /\ UNCHANGED monitors
  <2>1. /\ inbox'.pending = inbox.pending /\ inbox'.completed = inbox.completed
        /\ inbox'.inFlight = inbox.inFlight \ {u} /\ UNCHANGED <<disk, done>>
    BY <1>1, <1>7 DEF ReleaseUpdate, TypeOK, Inbox
  <2> HIDE DEF u
  <2>2. Claims'
    BY <1>1, <1>2, <1>4, <1>7, <2>1 DEF DeliveryInv, Claims, Snapshot
  <2>3. QueueClaims'
    BY <1>1, <1>2, <1>4, <1>7, <2>1 DEF DeliveryInv, QueueClaims
  <2> QED BY <1>3, <2>2, <2>3 DEF DeliveryInv
<1> QED BY <1>5, <1>6, <1>7 DEF HandlerFinishes

LEMMA MonitorCompletesClaims ==
    ASSUME Window >= MaxUpdate, DInv, NEW u \in Updates, MonitorCompletes(u)
    PROVE  DeliveryInv'
<1>1. TypeOK /\ DeliveryInv
  BY DEF DInv, TypeInv
<1>2. /\ UNCHANGED <<handler, queue, acted, srv>> /\ CompleteUpdate(u)
      /\ monitors' = monitors \ {u} /\ signalled' = signalled \ {u}
      /\ u \in monitors /\ u \in signalled
  BY DEF MonitorCompletes
<1>3. u \in inbox.inFlight /\ u \in acted
  BY <1>1, <1>2 DEF DeliveryInv, QueueClaims
<1>4. /\ Claims'
      /\ \/ UNCHANGED <<inbox, disk, done>>
         \/ inbox'.inFlight = inbox.inFlight \ {u}
  BY <1>2, <1>3, CompleteUpdateFacts
<1>5. ThreadsHoldOnce'
  BY <1>1, <1>2, HeldAsBefore DEF DeliveryInv
<1>6. HandlerClaims' /\ QueueClaims'
  BY <1>1, <1>2, <1>3, <1>4 DEF DeliveryInv, HandlerClaims, QueueClaims
<1> QED BY <1>4, <1>5, <1>6 DEF DeliveryInv

LEMMA EmptyFacts == Range(<<>>) = {} /\ IsInjective(<<>>)
BY DEF Range, IsInjective

\* A command's update is claimed, not carried out and not queued.
LEMMA CommandedClaims ==
    ASSUME DInv, NEW k, Commanded(k)
    PROVE  /\ handler # Idle /\ handler.update \in Updates
           /\ handler.update \in inbox.inFlight /\ handler.update \notin monitors
           /\ handler.update \notin acted /\ handler.update \notin Range(queue)
<1>1. handler # Idle /\ handler.update \in Updates /\ handler.step = "sent"
  BY CommandedFacts DEF DInv, TypeInv
<1> QED BY <1>1 DEF DInv, DeliveryInv, HandlerClaims

\* The claims of a step that answers the handler and leaves the inbox alone:
\* updates that were claimed are carried out, and leave the queue.
LEMMA AnswerClaims ==
    ASSUME DInv, NEW step \in {"applied", "queued", "failed"}, Replies(step),
           NEW k, Commanded(k), UNCHANGED <<inbox, disk, monitors, done>>,
           acted \subseteq acted', acted' \subseteq acted \cup inbox.inFlight,
           step = "applied" => handler.update \in acted',
           step = "failed" => handler.update \notin acted' \cup Range(queue'),
           IsInjective(queue'), Range(queue') \subseteq inbox.inFlight,
           Range(queue') \cap acted' = {}, signalled' \subseteq acted'
    PROVE  Claims' /\ HandlerClaims' /\ QueueClaims'
<1> DEFINE u == handler.update
<1>1. TypeOK /\ DeliveryInv
  BY DEF DInv, TypeInv
<1>2. handler # Idle /\ u \in inbox.inFlight /\ u \notin monitors
  BY CommandedClaims
<1>3. handler'.update = u /\ handler'.step = step
  BY <1>1, <1>2, RepliesType
<1> HIDE DEF u
<1>4. Claims'
  BY <1>1 DEF DeliveryInv, Claims, Snapshot
<1>5. HandlerClaims'
  BY <1>2, <1>3 DEF HandlerClaims, u
<1>6. QueueClaims'
  BY <1>1 DEF DeliveryInv, QueueClaims
<1> QED BY <1>4, <1>5, <1>6

LEMMA HandleUserInputClaims ==
    ASSUME ~NoticesFail, DInv, HandleUserInput
    PROVE  DeliveryInv'
<1> DEFINE u == handler.update
<1>1. TypeOK /\ DeliveryInv /\ Commanded("text") /\ LiveSession(ses, srv, Threads)
  BY LiveIsTurnHasThread DEF DInv, TypeInv, HandleUserInput
<1>2. /\ u \in Updates /\ u \in inbox.inFlight /\ u \notin acted /\ u \notin Range(queue)
  BY <1>1, CommandedClaims
<1>3. UNCHANGED <<inbox, disk, monitors, done, signalled>>
  BY DEF HandleUserInput
<1>4. PICK o \in StartTurn(Now, u) :
          /\ Becomes(o)
          /\ \/ o.ok /\ Replies("applied") /\ acted' = acted \cup {u} /\ UNCHANGED queue
             \/ ~o.ok /\ Replies("queued") /\ queue' = Append(queue, u) /\ UNCHANGED acted
             \/ ~o.ok /\ Replies("failed") /\ UNCHANGED <<queue, acted>>
  BY DEF HandleUserInput
<1>5. Now \in Outcome /\ Now.ses = ses /\ Now.srv = srv
  BY <1>1, NowFacts DEF TypeOK
<1>6. Gives(u, o.ok)
  BY <1>1, <1>2, <1>4, <1>5, StartTurnStep
<1>7. /\ queue \in Seq(Updates) /\ IsInjective(queue) /\ Range(queue) \subseteq inbox.inFlight
      /\ Range(queue) \cap acted = {} /\ signalled \subseteq acted /\ ThreadsHoldOnce
  BY <1>1 DEF DeliveryInv, QueueClaims, TypeOK
<1> HIDE DEF u
<1>8. CASE o.ok /\ Replies("applied") /\ acted' = acted \cup {u} /\ UNCHANGED queue
  <2>1. Claims' /\ HandlerClaims' /\ QueueClaims'
    BY <1>1, <1>2, <1>3, <1>7, <1>8, AnswerClaims DEF u
  <2>2. Gives(u, TRUE)
    BY <1>6, <1>8 DEF Gives
  <2> QED BY <1>1, <1>2, <1>7, <1>8, <2>1, <2>2, HeldOnceMore DEF DeliveryInv
<1>9. ASSUME ~o.ok, UNCHANGED acted PROVE ThreadsHoldOnce'
  BY <1>6, <1>7, <1>9, HeldAsBefore DEF Gives
<1>10. CASE ~o.ok /\ Replies("queued") /\ queue' = Append(queue, u) /\ UNCHANGED acted
  <2>1. IsInjective(queue') /\ Range(queue') = Range(queue) \cup {u}
    BY <1>2, <1>7, <1>10, AppendFacts
  <2>2. Claims' /\ HandlerClaims' /\ QueueClaims'
    BY <1>1, <1>2, <1>3, <1>7, <1>10, <2>1, AnswerClaims
  <2> QED BY <1>9, <1>10, <2>2 DEF DeliveryInv
<1>11. CASE ~o.ok /\ Replies("failed") /\ UNCHANGED <<queue, acted>>
  <2>1. Claims' /\ HandlerClaims' /\ QueueClaims'
    BY <1>1, <1>2, <1>3, <1>7, <1>11, AnswerClaims DEF u
  <2> QED BY <1>9, <1>11, <2>1 DEF DeliveryInv
<1> QED BY <1>4, <1>8, <1>10, <1>11

LEMMA NewThreadClaims ==
    ASSUME DInv, NewThread
    PROVE  DeliveryInv'
<1> DEFINE u == handler.update
<1>1. TypeOK /\ DeliveryInv /\ Commanded("new") /\ LiveSession(ses, srv, Threads)
  BY LiveIsTurnHasThread DEF DInv, TypeInv, NewThread
<1>2. /\ u \in Updates /\ u \in inbox.inFlight /\ u \notin acted /\ u \notin Range(queue)
  BY <1>1, CommandedClaims
<1>3. UNCHANGED <<inbox, disk, monitors, done, signalled, queue>>
  BY DEF NewThread
<1>4. \/ Replies("applied") /\ acted' = acted \cup {u}
      \/ Replies("failed") /\ acted' = acted
  BY DEF NewThread
<1>5. /\ queue \in Seq(Updates) /\ IsInjective(queue) /\ Range(queue) \subseteq inbox.inFlight
      /\ Range(queue) \cap acted = {} /\ signalled \subseteq acted /\ ThreadsHoldOnce
  BY <1>1 DEF DeliveryInv, QueueClaims, TypeOK
<1>6. ThreadsHoldOnce'
  BY <1>1, <1>4, <1>5, NewThreadStep, HeldAsBefore
<1> HIDE DEF u
<1>7. Claims' /\ HandlerClaims' /\ QueueClaims'
  <2>1. CASE Replies("applied") /\ acted' = acted \cup {u}
    BY <1>1, <1>2, <1>3, <1>5, <2>1, AnswerClaims DEF u
  <2>2. CASE Replies("failed") /\ acted' = acted
    BY <1>1, <1>2, <1>3, <1>5, <2>2, AnswerClaims DEF u
  <2> QED BY <1>4, <2>1, <2>2
<1> QED BY <1>6, <1>7 DEF DeliveryInv

LEMMA CancelTurnClaims ==
    ASSUME DInv, CancelTurn
    PROVE  DeliveryInv'
<1> DEFINE u == handler.update
<1>1. TypeOK /\ DeliveryInv /\ Commanded("cancel")
  BY DEF DInv, TypeInv, CancelTurn
<1>2. /\ u \in inbox.inFlight /\ u \notin acted /\ u \notin Range(queue)
  BY <1>1, CommandedClaims
<1>3. /\ UNCHANGED <<inbox, disk, monitors, done>>
      /\ queue' = <<>> /\ signalled' = signalled \cup Range(queue)
  BY DEF CancelTurn
<1>4. \/ Replies("applied") /\ acted' = acted \cup Range(queue) \cup {u}
      \/ Replies("failed") /\ acted' = acted \cup Range(queue)
  BY DEF CancelTurn
<1>5. /\ Range(queue) \subseteq inbox.inFlight /\ signalled \subseteq acted /\ ThreadsHoldOnce
  BY <1>1 DEF DeliveryInv, QueueClaims
<1>6. ThreadsHoldOnce'
  <2>1. CASE UNCHANGED srv
    BY <1>4, <1>5, <2>1, HeldAsBefore
  <2>2. CASE ses.turn # NoTurn /\ srv' = Interrupted(ses.thread)
    <3> DEFINE t == ses.thread
    <3>1. t \in Threads
      BY <2>2 DEF DInv, TypeInv, TurnHasThread
    <3> HIDE DEF t
    <3>2. /\ srv'.waiting = [srv.waiting EXCEPT ![t] = <<>>]
          /\ srv'.rollout = [srv.rollout EXCEPT ![t] = srv.rollout[t]]
      BY <1>1, <1>5, <2>2, <3>1, InterruptedFacts, ThreadFacts DEF t
    <3>3. HoldsOnce(<<>>, srv.rollout[t], acted')
      BY <1>1, <1>5, <3>1, ThreadFacts, EmptyFacts DEF HoldsOnce
    <3>4. acted \subseteq acted'
      BY <1>4
    <3> QED BY <1>1, <1>5, <3>1, <3>2, <3>3, <3>4, OneThreadChanges
  <2> QED BY <2>1, <2>2 DEF CancelTurn
<1> HIDE DEF u
<1>7. Claims' /\ HandlerClaims' /\ QueueClaims'
  <2>1. IsInjective(queue') /\ Range(queue') = {}
    BY <1>3, EmptyFacts
  <2>2. CASE Replies("applied") /\ acted' = acted \cup Range(queue) \cup {u}
    BY <1>1, <1>2, <1>3, <1>5, <2>1, <2>2, AnswerClaims DEF u
  <2>3. CASE Replies("failed") /\ acted' = acted \cup Range(queue)
    BY <1>1, <1>2, <1>3, <1>5, <2>1, <2>3, AnswerClaims DEF u
  <2> QED BY <1>4, <2>2, <2>3
<1> QED BY <1>6, <1>7 DEF DeliveryInv

\* pump_pending_inputs hands the oldest queued input to the session's thread.
LEMMA PumpClaims ==
    ASSUME ~NoticesFail, DInv, NEW s \in Session, LiveSession(s, srv, Threads), Pump(s),
           UNCHANGED <<handler, inbox, disk, monitors, done>>
    PROVE  DeliveryInv'
<1> DEFINE u == Head(queue)
<1>1. TypeOK /\ DeliveryInv /\ ThreadsHoldOnce
  BY DEF DInv, TypeInv, DeliveryInv
<1>2. CASE /\ UNCHANGED <<queue, signalled, acted>>
           /\ srv'.rollout = srv.rollout /\ srv'.waiting = srv.waiting
  <2>1. ThreadsHoldOnce'
    BY <1>1, <1>2, HeldAsBefore
  <2> QED BY <1>1, <1>2, <2>1 DEF DeliveryInv, Claims, Snapshot, HandlerClaims, QueueClaims
<1>3. CASE /\ queue # <<>> /\ queue' = Tail(queue)
           /\ signalled' = signalled \cup {u} /\ acted' = acted \cup {u} /\ Gives(u, TRUE)
  <2>1. /\ u \in Updates /\ Range(queue) = Range(queue') \cup {u}
        /\ IsInjective(queue') /\ u \notin Range(queue')
    BY <1>1, <1>3, TailFacts DEF TypeOK, DeliveryInv, QueueClaims
  <2> HIDE DEF u
  <2>2. u \in inbox.inFlight /\ u \notin acted
    BY <1>1, <2>1 DEF DeliveryInv, QueueClaims
  <2>3. ThreadsHoldOnce'
    BY <1>1, <1>3, <2>1, <2>2, HeldOnceMore
  <2>4. Claims'
    BY <1>1, <1>3, <2>2 DEF DeliveryInv, Claims, Snapshot
  <2>5. QueueClaims'
    BY <1>1, <1>3, <2>1 DEF DeliveryInv, QueueClaims
  <2>6. HandlerClaims'
    BY <1>1, <1>3, <2>1 DEF DeliveryInv, HandlerClaims
  <2> QED BY <2>3, <2>4, <2>5, <2>6 DEF DeliveryInv
<1> QED BY <1>1, <1>2, <1>3, PumpStep

LEMMA EventClaims ==
    ASSUME ~NoticesFail, DInv, TurnCompleted \/ OtherNotification
    PROVE  DeliveryInv'
<1> DEFINE t == Head(events).thread
<1>1. TypeOK /\ ses \in Session /\ LiveSession(ses, srv, Threads)
  BY LiveIsTurnHasThread DEF DInv, TypeInv, TypeOK
<1>2. UNCHANGED <<handler, inbox, disk, monitors, done>>
  BY DEF TurnCompleted, OtherNotification, inboxVars
<1>3. Cleared(t) \in Session /\ LiveSession(Cleared(t), srv, Threads)
  <2>1. CASE ses.thread = t
    BY <1>1, <2>1, ClearedFacts DEF LiveSession
  <2>2. CASE ses.thread # t
    BY <1>1, <2>2, ClearedFacts
  <2> QED BY <2>1, <2>2
<1>4. Pump(Cleared(t)) \/ Pump(ses)
  BY DEF TurnCompleted, OtherNotification
<1> HIDE DEF t
<1> QED BY <1>1, <1>2, <1>3, <1>4, PumpClaims

\* A turn moves input from the accepted to the recorded.
LEMMA TurnClaims ==
    ASSUME DInv, NEW t \in Threads, Turn(t)
    PROVE  DeliveryInv'
<1> DEFINE w == srv.waiting[t]
           r == srv.rollout[t]
<1>1. TypeOK /\ DeliveryInv /\ ThreadsHoldOnce
  BY DEF DInv, TypeInv, DeliveryInv
<1>2. UNCHANGED <<handler, inbox, disk, monitors, done, queue, signalled, acted>>
  BY DEF Turn, RecordInput, TurnEnds, TurnErrs, FollowUp, inboxVars, bridgeVars
<1>3. /\ w \in Seq(Updates) /\ r \in Seq(Updates) /\ IsInjective(w) /\ IsInjective(r)
      /\ Range(w) \cap Range(r) = {} /\ Range(w) \subseteq acted
  BY <1>1, ThreadFacts
<1>4. ThreadsHoldOnce'
  <2>1. CASE RecordInput(t)
    <3>1. /\ w # <<>> /\ srv'.waiting = [srv.waiting EXCEPT ![t] = Tail(w)]
          /\ srv'.rollout = [srv.rollout EXCEPT ![t] = Append(r, Head(w))]
      BY <1>1, <2>1, RecordInputFacts
    <3> HIDE DEF w, r
    <3>2. /\ Head(w) \in Updates /\ Range(w) = Range(Tail(w)) \cup {Head(w)}
          /\ IsInjective(Tail(w)) /\ Head(w) \notin Range(Tail(w))
      BY <1>3, <3>1, TailFacts
    <3>3. /\ IsInjective(Append(r, Head(w)))
          /\ Range(Append(r, Head(w))) = Range(r) \cup {Head(w)}
      BY <1>3, <3>2, AppendFacts
    <3>4. HoldsOnce(Tail(w), Append(r, Head(w)), acted')
      BY <1>2, <1>3, <3>2, <3>3 DEF HoldsOnce
    <3> QED BY <1>1, <1>2, <3>1, <3>4, OneThreadChanges
  <2>2. CASE TurnErrs(t)
    <3>1. /\ srv'.waiting = [srv.waiting EXCEPT ![t] = <<>>]
          /\ srv'.rollout = [srv.rollout EXCEPT ![t] = r \o w]
      BY <1>1, <2>2, TurnErrsFacts
    <3> HIDE DEF w, r
    <3>2. IsInjective(r \o w)
      BY <1>3, ConcatFacts
    <3>3. HoldsOnce(<<>>, r \o w, acted')
      BY <3>2, EmptyFacts DEF HoldsOnce
    <3> QED BY <1>1, <1>2, <3>1, <3>3, OneThreadChanges
  <2>3. CASE TurnEnds(t) \/ FollowUp(t)
    BY <1>1, <1>2, <2>3, TurnEndsFacts, FollowUpFacts, HeldAsBefore
  <2> QED BY <2>1, <2>2, <2>3 DEF Turn
<1> QED BY <1>1, <1>2, <1>4 DEF DeliveryInv, Claims, Snapshot, HandlerClaims, QueueClaims

\* After a restart nothing is claimed, and what was carried out is what is
\* completed.
LEMMA CrashClaims ==
    ASSUME Window >= MaxUpdate, DInv, Crash
    PROVE  DeliveryInv'
<1>1. TypeInv /\ TypeOK /\ DeliveryInv
  BY DEF DInv, TypeInv
<1>2. /\ handler' = Idle /\ monitors' = {} /\ signalled' = {} /\ queue' = <<>>
      /\ acted' = done /\ UNCHANGED <<disk, done>>
      /\ inbox' = [pending |-> disk.pending, completed |-> Latest(disk.completed),
                   inFlight |-> {}]
  BY DEF Crash
<1>3. /\ disk = Snapshot(inbox) /\ IsInjective(inbox.completed)
      /\ done = Range(inbox.completed) /\ inbox.completed \in Seq(Updates)
  BY <1>1 DEF DeliveryInv, Claims, TypeOK, Inbox
<1>4. disk.completed = inbox.completed /\ disk.pending = inbox.pending
  BY <1>3 DEF Snapshot
<1>5. Latest(disk.completed) = inbox.completed
  BY <1>3, <1>4, WindowForgetsNothing
<1>6. Claims'
  <2>1. /\ inbox'.pending = inbox.pending /\ inbox'.completed = inbox.completed
        /\ inbox'.inFlight = {}
    BY <1>2, <1>4, <1>5
  <2>2. disk' = Snapshot(inbox')
    BY <1>2, <1>3, <2>1 DEF Snapshot
  <2> QED BY <1>2, <1>3, <2>1, <2>2 DEF Claims
<1>7. HandlerClaims' /\ QueueClaims'
  BY <1>2, EmptyFacts DEF HandlerClaims, QueueClaims
<1>8. ThreadsHoldOnce'
  <2>1. srv'.rollout = srv.rollout /\ srv'.waiting = [t \in Threads |-> <<>>]
    BY <1>1, CrashType
  <2> SUFFICES ASSUME NEW t \in Threads
               PROVE  HoldsOnce(srv'.waiting[t], srv'.rollout[t], acted')
    BY DEF ThreadsHoldOnce
  <2>2. srv'.waiting[t] = <<>> /\ IsInjective(srv'.rollout[t])
    BY <1>1, <2>1 DEF DeliveryInv, ThreadsHoldOnce, HoldsOnce
  <2> QED BY <2>2, EmptyFacts DEF HoldsOnce
<1> QED BY <1>6, <1>7, <1>8 DEF DeliveryInv

LEMMA DeliveryInit ==
    ASSUME Init
    PROVE  DInv
<1>1. TypeInv
  BY TypeInit
<1>2. Claims /\ HandlerClaims /\ QueueClaims
  BY EmptyFacts DEF Init, Claims, HandlerClaims, QueueClaims, Snapshot
<1>3. ThreadsHoldOnce
  BY EmptyFacts DEF Init, ThreadsHoldOnce, HoldsOnce
<1> QED BY <1>1, <1>2, <1>3 DEF DInv, DeliveryInv

LEMMA DeliveryNext ==
    ASSUME ~NoticesFail, Window >= MaxUpdate, DInv, [Next]_vars
    PROVE  DInv'
<1>1. TypeInv'
  BY TypeNext DEF DInv
<1>2. CASE GetUpdates \/ UNCHANGED vars
  <2>1. UNCHANGED <<handler, inbox, disk, monitors, done, queue, signalled, acted, srv>>
    BY <1>2 DEF GetUpdates, bridgeVars, vars
  <2> QED BY <1>1, <2>1 DEF DInv, DeliveryInv, Claims, Snapshot, HandlerClaims, QueueClaims,
                            ThreadsHoldOnce, HoldsOnce
<1>3. CASE Dispatch
  BY <1>1, <1>3, DispatchClaims DEF DInv
<1>4. CASE HandlerFinishes
  BY <1>1, <1>4, HandlerFinishesClaims DEF DInv
<1>5. CASE \E u \in Updates : MonitorCompletes(u)
  BY <1>1, <1>5, MonitorCompletesClaims DEF DInv
<1>6. CASE HandleUserInput
  BY <1>1, <1>6, HandleUserInputClaims DEF DInv
<1>7. CASE NewThread
  BY <1>1, <1>7, NewThreadClaims DEF DInv
<1>8. CASE CancelTurn
  BY <1>1, <1>8, CancelTurnClaims DEF DInv
<1>9. CASE TurnCompleted \/ OtherNotification
  BY <1>1, <1>9, EventClaims DEF DInv
<1>10. CASE \E t \in Threads : Turn(t)
  BY <1>1, <1>10, TurnClaims DEF DInv
<1>11. CASE Crash
  BY <1>1, <1>11, CrashClaims DEF DInv
<1> QED BY <1>2, <1>3, <1>4, <1>5, <1>6, <1>7, <1>8, <1>9, <1>10, <1>11 DEF Next, Bridge

\* What a thread holds, recorded or not.
Held(t) == Range(srv.waiting[t]) \cup Range(srv.rollout[t])

Places(s, u) == Cardinality({i \in DOMAIN s : s[i] = u})

LEMMA PositionsInBoth ==
    ASSUME NEW w \in Seq(Updates), NEW r \in Seq(Updates), NEW A, HoldsOnce(w, r, A), NEW u
    PROVE  Places(w, u) + Places(r, u) = IF u \in Range(w) \cup Range(r) THEN 1 ELSE 0
<1>1. IsInjective(w) /\ IsInjective(r) /\ Range(w) \cap Range(r) = {}
  BY DEF HoldsOnce
<1>2. Places(w, u) = IF u \in Range(w) THEN 1 ELSE 0
  BY <1>1, PositionsOf DEF Places
<1>3. Places(r, u) = IF u \in Range(r) THEN 1 ELSE 0
  BY <1>1, PositionsOf DEF Places
<1> QED BY <1>1, <1>2, <1>3

LEMMA CopiesAre ==
    ASSUME NEW t \in Threads, NEW u \in Updates
    PROVE  /\ DInv => Copies(t, u) = IF u \in Held(t) THEN 1 ELSE 0
           /\ DInv' => Copies(t, u)' = IF u \in Held(t)' THEN 1 ELSE 0
<1>1. ASSUME DInv PROVE Copies(t, u) = IF u \in Held(t) THEN 1 ELSE 0
  <2>1. /\ srv.waiting[t] \in Seq(Updates) /\ srv.rollout[t] \in Seq(Updates)
        /\ HoldsOnce(srv.waiting[t], srv.rollout[t], acted)
    BY <1>1 DEF DInv, TypeInv, TypeOK, Server, DeliveryInv, ThreadsHoldOnce
  <2>2. Copies(t, u) = Places(srv.waiting[t], u) + Places(srv.rollout[t], u)
    BY DEF Copies, Places
  <2> QED BY <2>1, <2>2, PositionsInBoth DEF Held
<1>2. ASSUME DInv' PROVE Copies(t, u)' = IF u \in Held(t)' THEN 1 ELSE 0
  <2>1. /\ srv'.waiting[t] \in Seq(Updates) /\ srv'.rollout[t] \in Seq(Updates)
        /\ HoldsOnce(srv'.waiting[t], srv'.rollout[t], acted')
    BY <1>2 DEF DInv, TypeInv, TypeOK, Server, DeliveryInv, ThreadsHoldOnce
  <2>2. Copies(t, u)' = Places(srv'.waiting[t], u) + Places(srv'.rollout[t], u)
    BY DEF Copies, Places
  <2> QED BY <2>1, <2>2, PositionsInBoth DEF Held
<1> QED BY <1>1, <1>2

\* However often an update is redelivered, replayed after a restart, queued
\* or pumped, a thread is given its input at most once, when notices reach
\* the chat and the completed window covers every update.
THEOREM InputsAreAppliedOnce ==
    ~NoticesFail /\ Window >= MaxUpdate => (Spec => []AppliedOncePerThread)
<1> SUFFICES ASSUME ~NoticesFail, Window >= MaxUpdate PROVE Spec => []AppliedOncePerThread
  OBVIOUS
<1>1. Init => DInv
  BY DeliveryInit
<1>2. DInv /\ [Next]_vars => DInv'
  BY DeliveryNext
<1>3. DInv => AppliedOncePerThread
  BY CopiesAre DEF AppliedOncePerThread
<1> QED BY <1>1, <1>2, <1>3, PTL DEF Spec

-----------------------------------------------------------------------------
(* The connector implements InputDelivery.                                 *)

StageOf == [u \in Updates |-> Stage(u)]
CopiesOf == [t \in Threads |-> [u \in Updates |-> Copies(t, u)]]

SameStages == UNCHANGED done /\ disk'.pending = disk.pending
SameHeld == \A t \in Threads : Held(t)' = Held(t)

LEMMA SameStagesKept ==
    ASSUME SameStages
    PROVE  StageOf' = StageOf
BY DEF SameStages, StageOf, Stage

LEMMA SameHeldKept ==
    ASSUME DInv, DInv', SameHeld
    PROVE  CopiesOf' = CopiesOf
BY CopiesAre DEF CopiesOf, SameHeld

\* Threads that only lose input.
LEMMA FewerHeld ==
    ASSUME DInv, DInv', \A t \in Threads : Held(t)' \subseteq Held(t)
    PROVE  Delivery!Loses
<1>1. ASSUME NEW t \in Threads, NEW u \in Updates
      PROVE  /\ Copies(t, u)' \in {0, 1} /\ Copies(t, u)' <= Copies(t, u)
  BY CopiesAre
<1> QED BY <1>1 DEF Delivery!Loses

\* Updates are carried out without new input for a thread.
LEMMA ActsOnly ==
    ASSUME DInv, DInv', SameStages, acted \subseteq acted',
           acted' \ acted \subseteq inbox.inFlight,
           \A t \in Threads : Held(t)' \subseteq Held(t)
    PROVE  Delivery!Act
<1>1. Delivery!Loses
  BY FewerHeld
<1>2. StageOf' = StageOf
  BY SameStagesKept
<1>3. \A u \in acted' \ acted : u \in Updates /\ Stage(u) = "accepted"
  <2>1. inbox.inFlight \subseteq disk.pending /\ inbox.inFlight \cap done = {}
    BY DEF DInv, DeliveryInv, Claims, Snapshot
  <2>2. inbox.inFlight \subseteq Updates
    BY DEF DInv, TypeInv, TypeOK, Inbox
  <2> QED BY <2>1, <2>2 DEF Stage
<1> QED BY <1>1, <1>2, <1>3 DEF Delivery!Act, StageOf

\* An update's input is given to one thread.
LEMMA DeliversOne ==
    ASSUME DInv, DInv', SameStages, NEW u \in inbox.inFlight, acted' = acted \cup {u},
           NEW t \in Threads, u \notin Held(t), Held(t)' = Held(t) \cup {u},
           \A d \in Threads \ {t} : Held(d)' = Held(d)
    PROVE  u \in Updates /\ Delivery!Deliver(u, t)
<1>1. u \in Updates /\ Stage(u) = "accepted"
  BY DEF DInv, TypeInv, TypeOK, Inbox, DeliveryInv, Claims, Snapshot, Stage
<1>2. StageOf' = StageOf
  BY SameStagesKept
<1>3. Copies(t, u) = 0 /\ Copies(t, u)' = 1
  BY <1>1, CopiesAre
<1>4. \A v \in Updates \ {u} : Copies(t, v)' = Copies(t, v)
  BY CopiesAre
<1>5. \A d \in Threads \ {t}, v \in Updates : Copies(d, v)' = Copies(d, v)
  BY CopiesAre
<1>6. CopiesOf' = [CopiesOf EXCEPT ![t][u] = 1]
  <2>1. CopiesOf[t] = [v \in Updates |-> Copies(t, v)] /\ DOMAIN CopiesOf = Threads
    BY DEF CopiesOf
  <2>2. CopiesOf'[t] = [v \in Updates |-> Copies(t, v)']
    BY DEF CopiesOf
  <2>3. CopiesOf'[t] = [CopiesOf[t] EXCEPT ![u] = 1]
    BY <1>3, <1>4, <2>1, <2>2
  <2>4. \A d \in Threads \ {t} : CopiesOf'[d] = CopiesOf[d]
    BY <1>5 DEF CopiesOf
  <2>5. CopiesOf' = [d \in Threads |-> CopiesOf'[d]]
    BY DEF CopiesOf
  <2> QED BY <2>1, <2>3, <2>4, <2>5
<1> QED BY <1>1, <1>2, <1>3, <1>6 DEF Delivery!Deliver, StageOf, CopiesOf

LEMMA GivesHeld ==
    ASSUME TypeOK, ThreadsHoldOnce, NEW u \in Updates, u \notin acted, Gives(u, TRUE)
    PROVE  \/ SameHeld
           \/ \E t \in Threads :
                 /\ u \notin Held(t) /\ Held(t)' = Held(t) \cup {u}
                 /\ \A d \in Threads \ {t} : Held(d)' = Held(d)
<1>1. CASE srv'.waiting = srv.waiting
  BY <1>1 DEF Gives, SameHeld, Held
<1>2. CASE srv'.waiting # srv.waiting
  <2>1. PICK t \in Threads :
             /\ u \notin Range(srv.rollout[t])
             /\ srv'.waiting = [srv.waiting EXCEPT ![t] = Append(@, u)]
    BY <1>2 DEF Gives
  <2>2. /\ srv.waiting \in [Threads -> Seq(Updates)] /\ srv'.rollout = srv.rollout
    BY DEF TypeOK, Server, Gives
  <2>3. u \notin Held(t)
    BY <2>1, ThreadFacts DEF Held
  <2>4. Held(t)' = Held(t) \cup {u}
    <3>1. srv'.waiting[t] = Append(srv.waiting[t], u)
      BY <2>1, <2>2
    <3>2. Range(srv'.waiting[t]) = Range(srv.waiting[t]) \cup {u}
      BY <2>2, <3>1, AppendFacts
    <3> QED BY <2>2, <3>2 DEF Held
  <2>5. \A d \in Threads \ {t} : Held(d)' = Held(d)
    BY <2>1, <2>2 DEF Held
  <2> QED BY <2>3, <2>4, <2>5
<1> QED BY <1>1, <1>2

\* A claimed update is carried out by start_turn.
LEMMA InputGiven ==
    ASSUME DInv, DInv', SameStages, NEW u \in inbox.inFlight, u \notin acted,
           acted' = acted \cup {u}, Gives(u, TRUE)
    PROVE  Delivery!Next
<1>1. TypeOK /\ ThreadsHoldOnce /\ u \in Updates
  BY DEF DInv, TypeInv, TypeOK, Inbox, DeliveryInv
<1>2. CASE SameHeld
  <2>1. Delivery!Act
    BY <1>2, ActsOnly DEF SameHeld
  <2> QED BY <2>1 DEF Delivery!Next
<1>3. CASE \E t \in Threads :
                 /\ u \notin Held(t) /\ Held(t)' = Held(t) \cup {u}
                 /\ \A d \in Threads \ {t} : Held(d)' = Held(d)
  <2>1. \E t \in Threads : Delivery!Deliver(u, t)
    BY <1>3, DeliversOne
  <2> QED BY <1>1, <2>1 DEF Delivery!Next
<1> QED BY <1>1, <1>2, <1>3, GivesHeld

\* What the abstract specification sees.
AbstractStep ==
    [Delivery!Next]_<<[u \in Updates |-> Stage(u)], acted,
                      [t \in Threads |-> [u \in Updates |-> Copies(t, u)]]>>

LEMMA SeesNothing ==
    ASSUME DInv, DInv', SameStages, UNCHANGED acted, SameHeld
    PROVE  AbstractStep
<1>1. StageOf' = StageOf /\ CopiesOf' = CopiesOf
  BY SameStagesKept, SameHeldKept
<1> QED BY <1>1 DEF AbstractStep, StageOf, CopiesOf

LEMMA DispatchAccepts ==
    ASSUME DInv, DInv', Dispatch
    PROVE  AbstractStep
<1> DEFINE u == Head(feed)
<1>1. /\ feed # <<>> /\ UNCHANGED <<acted, srv, done>>
      /\ \/ UNCHANGED disk
         \/ /\ ~Refused(u)
            /\ inbox' = [inbox EXCEPT !.pending = @ \cup {u}, !.inFlight = @ \cup {u}]
            /\ disk' = Snapshot(inbox')
  BY DEF Dispatch, BeginUpdate, bridgeVars
<1>2. SameHeld
  BY <1>1 DEF SameHeld, Held
<1>3. u \in Updates
  BY <1>1, TailFacts DEF DInv, TypeInv, TypeOK
<1>4. /\ disk.pending = inbox.pending /\ done = Range(inbox.completed)
  BY DEF DInv, DeliveryInv, Claims, Snapshot
<1> HIDE DEF u
<1>5. CASE UNCHANGED disk
  BY <1>1, <1>2, <1>5, SeesNothing DEF SameStages
<1>6. CASE /\ ~Refused(u)
           /\ inbox' = [inbox EXCEPT !.pending = @ \cup {u}, !.inFlight = @ \cup {u}]
           /\ disk' = Snapshot(inbox')
  <2>1. disk'.pending = disk.pending \cup {u} /\ u \notin done
    BY <1>4, <1>6 DEF Refused, Snapshot, DInv, TypeInv, TypeOK, Inbox
  <2>2. CASE u \in disk.pending
    BY <1>1, <1>2, <2>1, <2>2, SeesNothing DEF SameStages
  <2>3. CASE u \notin disk.pending
    <3>1. StageOf[u] = "offered" /\ StageOf' = [StageOf EXCEPT ![u] = "accepted"]
      BY <1>1, <1>3, <2>1, <2>3 DEF StageOf, Stage
    <3>2. CopiesOf' = CopiesOf
      BY <1>2, SameHeldKept
    <3>3. Delivery!Accept(u)
      BY <1>1, <3>1, <3>2 DEF Delivery!Accept, StageOf, CopiesOf
    <3> QED BY <1>3, <3>3 DEF AbstractStep, Delivery!Next
  <2> QED BY <2>2, <2>3
<1> QED BY <1>1, <1>5, <1>6

\* A completion that reaches the disk finishes an update that was carried out.
LEMMA CompletionFinishes ==
    ASSUME Window >= MaxUpdate, DInv, DInv', NEW u \in Updates, CompleteUpdate(u),
           UNCHANGED <<acted, srv>>, u \in inbox.inFlight, u \in acted
    PROVE  AbstractStep
<1>1. SameHeld
  BY DEF SameHeld, Held
<1>2. CASE UNCHANGED <<disk, done>>
  BY <1>1, <1>2, SeesNothing DEF SameStages
<1>3. CASE /\ disk' = Snapshot(inbox') /\ inbox'.pending = inbox.pending \ {u}
           /\ done' = done \cup {u}
  <2>1. /\ disk.pending = inbox.pending /\ disk'.pending = disk.pending \ {u}
        /\ u \in disk.pending /\ u \notin done
    BY <1>3 DEF DInv, DeliveryInv, Claims, Snapshot
  <2>2. StageOf[u] = "accepted" /\ StageOf' = [StageOf EXCEPT ![u] = "done"]
    BY <1>3, <2>1 DEF StageOf, Stage
  <2>3. CopiesOf' = CopiesOf
    BY <1>1, SameHeldKept
  <2>4. Delivery!Finish(u)
    BY <2>2, <2>3 DEF Delivery!Finish, StageOf, CopiesOf
  <2> QED BY <2>4 DEF AbstractStep, Delivery!Next
<1> QED BY <1>2, <1>3, CompleteUpdateFacts

LEMMA HandlerRefines ==
    ASSUME Window >= MaxUpdate, DInv, DInv', HandlerFinishes
    PROVE  AbstractStep
<1> DEFINE u == handler.update
<1>1. /\ handler # Idle /\ u \in Updates /\ UNCHANGED <<acted, srv>>
      /\ \/ handler.step = "applied" /\ CompleteUpdate(u)
         \/ UNCHANGED <<disk, done>>
  BY HandlerFinishesType DEF DInv, HandlerFinishes, bridgeVars, ReleaseUpdate
<1>2. u \in inbox.inFlight /\ (handler.step = "applied" => u \in acted)
  BY <1>1 DEF DInv, DeliveryInv, HandlerClaims
<1> HIDE DEF u
<1>3. CASE handler.step = "applied" /\ CompleteUpdate(u)
  BY <1>1, <1>2, <1>3, CompletionFinishes
<1>4. CASE UNCHANGED <<disk, done>>
  <2>1. SameStages /\ SameHeld
    BY <1>1, <1>4 DEF SameStages, SameHeld, Held
  <2> QED BY <1>1, <2>1, SeesNothing
<1> QED BY <1>1, <1>3, <1>4

LEMMA MonitorRefines ==
    ASSUME Window >= MaxUpdate, DInv, DInv', NEW u \in Updates, MonitorCompletes(u)
    PROVE  AbstractStep
<1>1. /\ u \in monitors /\ u \in signalled /\ UNCHANGED <<acted, srv>> /\ CompleteUpdate(u)
  BY DEF MonitorCompletes
<1>2. u \in inbox.inFlight /\ u \in acted
  BY <1>1 DEF DInv, DeliveryInv, QueueClaims
<1> QED BY <1>1, <1>2, CompletionFinishes

LEMMA HandleUserInputRefines ==
    ASSUME ~NoticesFail, DInv, DInv', HandleUserInput
    PROVE  AbstractStep
<1> DEFINE u == handler.update
<1>1. TypeOK /\ Commanded("text") /\ LiveSession(ses, srv, Threads)
  BY LiveIsTurnHasThread DEF DInv, TypeInv, HandleUserInput
<1>2. u \in Updates /\ u \in inbox.inFlight /\ u \notin acted
  BY <1>1, CommandedClaims
<1>3. SameStages
  BY DEF HandleUserInput, SameStages
<1>4. PICK o \in StartTurn(Now, u) :
          Becomes(o) /\ ((o.ok /\ acted' = acted \cup {u}) \/ (~o.ok /\ UNCHANGED acted))
  BY DEF HandleUserInput
<1>5. Now \in Outcome /\ Now.ses = ses /\ Now.srv = srv
  BY <1>1, NowFacts DEF TypeOK
<1>6. Gives(u, o.ok)
  BY <1>1, <1>2, <1>4, <1>5, StartTurnStep
<1> HIDE DEF u
<1>7. CASE o.ok /\ acted' = acted \cup {u}
  <2>1. Gives(u, TRUE)
    BY <1>6, <1>7 DEF Gives
  <2>2. Delivery!Next
    BY <1>2, <1>3, <1>7, <2>1, InputGiven
  <2> QED BY <2>2 DEF AbstractStep
<1>8. CASE ~o.ok /\ UNCHANGED acted
  <2>1. SameHeld
    BY <1>6, <1>8 DEF Gives, SameHeld, Held
  <2> QED BY <1>3, <1>8, <2>1, SeesNothing
<1> QED BY <1>4, <1>7, <1>8

LEMMA NewThreadRefines ==
    ASSUME DInv, DInv', NewThread
    PROVE  AbstractStep
<1>1. TypeOK /\ Commanded("new") /\ LiveSession(ses, srv, Threads)
  BY LiveIsTurnHasThread DEF DInv, TypeInv, NewThread
<1>2. handler.update \in inbox.inFlight
  BY <1>1, CommandedClaims
<1>3. SameHeld
  BY <1>1, NewThreadStep DEF SameHeld, Held
<1>4. SameStages /\ (acted' = acted \cup {handler.update} \/ acted' = acted)
  BY DEF NewThread, SameStages
<1>5. Delivery!Act
  BY <1>2, <1>3, <1>4, ActsOnly DEF SameHeld
<1> QED BY <1>5 DEF AbstractStep, Delivery!Next

\* A cancellation carries out what was queued and loses what the turn had not
\* recorded.
LEMMA CancelTurnRefines ==
    ASSUME DInv, DInv', CancelTurn
    PROVE  AbstractStep
<1>1. TypeOK /\ ThreadsHoldOnce /\ Commanded("cancel")
  BY DEF DInv, TypeInv, DeliveryInv, CancelTurn
<1>2. handler.update \in inbox.inFlight /\ Range(queue) \subseteq inbox.inFlight
  BY <1>1, CommandedClaims DEF DInv, DeliveryInv, QueueClaims
<1>3. /\ SameStages
      /\ \/ acted' = acted \cup Range(queue) \cup {handler.update}
         \/ acted' = acted \cup Range(queue)
  BY DEF CancelTurn, SameStages
<1>4. \A t \in Threads : Held(t)' \subseteq Held(t)
  <2>1. CASE UNCHANGED srv
    BY <2>1 DEF Held
  <2>2. CASE ses.turn # NoTurn /\ srv' = Interrupted(ses.thread)
    <3> DEFINE t == ses.thread
    <3>1. t \in Threads
      BY <2>2 DEF DInv, TypeInv, TurnHasThread
    <3>2. /\ srv'.waiting = [srv.waiting EXCEPT ![t] = <<>>] /\ srv'.rollout = srv.rollout
          /\ srv.waiting \in [Threads -> Seq(Updates)]
      BY <1>1, <2>2, <3>1, InterruptedFacts DEF TypeOK, Server
    <3> HIDE DEF t
    <3>3. \A d \in Threads : srv'.waiting[d] = srv.waiting[d] \/ srv'.waiting[d] = <<>>
      BY <3>1, <3>2
    <3> QED BY <3>2, <3>3, EmptyFacts DEF Held
  <2> QED BY <2>1, <2>2 DEF CancelTurn
<1>5. Delivery!Act
  BY <1>2, <1>3, <1>4, ActsOnly
<1> QED BY <1>5 DEF AbstractStep, Delivery!Next

LEMMA PumpRefines ==
    ASSUME ~NoticesFail, DInv, DInv', NEW s \in Session, LiveSession(s, srv, Threads), Pump(s),
           SameStages
    PROVE  AbstractStep
<1> DEFINE u == Head(queue)
<1>1. TypeOK
  BY DEF DInv, TypeInv
<1>2. CASE /\ UNCHANGED acted /\ srv'.rollout = srv.rollout /\ srv'.waiting = srv.waiting
  <2>1. SameHeld
    BY <1>2 DEF SameHeld, Held
  <2> QED BY <1>2, <2>1, SeesNothing
<1>3. CASE queue # <<>> /\ acted' = acted \cup {u} /\ Gives(u, TRUE)
  <2>1. u \in Range(queue)
    BY <1>1, <1>3, TailFacts DEF TypeOK
  <2> HIDE DEF u
  <2>2. u \in inbox.inFlight /\ u \notin acted
    BY <2>1 DEF DInv, DeliveryInv, QueueClaims
  <2>3. Delivery!Next
    BY <1>3, <2>2, InputGiven
  <2> QED BY <2>3 DEF AbstractStep
<1> QED BY <1>1, <1>2, <1>3, PumpStep

LEMMA EventRefines ==
    ASSUME ~NoticesFail, DInv, DInv', TurnCompleted \/ OtherNotification
    PROVE  AbstractStep
<1> DEFINE t == Head(events).thread
<1>1. TypeOK /\ ses \in Session /\ LiveSession(ses, srv, Threads)
  BY LiveIsTurnHasThread DEF DInv, TypeInv, TypeOK
<1>2. SameStages
  BY DEF TurnCompleted, OtherNotification, inboxVars, SameStages
<1>3. Cleared(t) \in Session /\ LiveSession(Cleared(t), srv, Threads)
  <2>1. CASE ses.thread = t
    BY <1>1, <2>1, ClearedFacts DEF LiveSession
  <2>2. CASE ses.thread # t
    BY <1>1, <2>2, ClearedFacts
  <2> QED BY <2>1, <2>2
<1>4. Pump(Cleared(t)) \/ Pump(ses)
  BY DEF TurnCompleted, OtherNotification
<1> HIDE DEF t
<1> QED BY <1>1, <1>2, <1>3, <1>4, PumpRefines

LEMMA TurnRefines ==
    ASSUME DInv, DInv', NEW t \in Threads, Turn(t)
    PROVE  AbstractStep
<1> DEFINE w == srv.waiting[t]
           r == srv.rollout[t]
<1>1. TypeOK /\ ThreadsHoldOnce
  BY DEF DInv, TypeInv, DeliveryInv
<1>2. SameStages /\ UNCHANGED acted
  BY DEF Turn, RecordInput, TurnEnds, TurnErrs, FollowUp, inboxVars, bridgeVars, SameStages
<1>3. /\ srv.waiting \in [Threads -> Seq(Updates)] /\ srv.rollout \in [Threads -> Seq(Updates)]
      /\ w \in Seq(Updates) /\ r \in Seq(Updates)
  BY <1>1 DEF TypeOK, Server
<1>4. SameHeld
  <2>1. CASE RecordInput(t)
    <3>1. /\ w # <<>> /\ srv'.waiting = [srv.waiting EXCEPT ![t] = Tail(w)]
          /\ srv'.rollout = [srv.rollout EXCEPT ![t] = Append(r, Head(w))]
      BY <1>1, <2>1, RecordInputFacts
    <3>2. \A d \in Threads \ {t} : Held(d)' = Held(d)
      BY <1>3, <3>1 DEF Held
    <3>3. srv'.waiting[t] = Tail(w) /\ srv'.rollout[t] = Append(r, Head(w))
      BY <1>3, <3>1
    <3> HIDE DEF w, r
    <3>4. /\ Head(w) \in Updates /\ Range(w) = Range(Tail(w)) \cup {Head(w)}
      BY <1>3, <3>1, TailFacts
    <3>5. Range(Append(r, Head(w))) = Range(r) \cup {Head(w)}
      BY <1>3, <3>4, AppendFacts
    <3>6. Held(t)' = Range(Tail(w)) \cup Range(Append(r, Head(w)))
      BY <3>3 DEF Held
    <3>7. Held(t)' = Held(t)
      BY <3>4, <3>5, <3>6 DEF Held, w, r
    <3> QED BY <3>2, <3>7 DEF SameHeld
  <2>2. CASE TurnErrs(t)
    <3>1. /\ srv'.waiting = [srv.waiting EXCEPT ![t] = <<>>]
          /\ srv'.rollout = [srv.rollout EXCEPT ![t] = r \o w]
      BY <1>1, <2>2, TurnErrsFacts
    <3>2. \A d \in Threads \ {t} : Held(d)' = Held(d)
      BY <1>3, <3>1 DEF Held
    <3>3. srv'.waiting[t] = <<>> /\ srv'.rollout[t] = r \o w
      BY <1>3, <3>1
    <3> HIDE DEF w, r
    <3>4. Range(r \o w) = Range(r) \cup Range(w)
      BY <1>3, ConcatFacts
    <3>5. Held(t)' = {} \cup Range(r \o w)
      BY <3>3, EmptyFacts DEF Held
    <3>6. Held(t)' = Held(t)
      BY <3>4, <3>5 DEF Held, w, r
    <3> QED BY <3>2, <3>6 DEF SameHeld
  <2>3. CASE TurnEnds(t) \/ FollowUp(t)
    BY <1>1, <2>3, TurnEndsFacts, FollowUpFacts DEF SameHeld, Held
  <2> QED BY <2>1, <2>2, <2>3 DEF Turn
<1> QED BY <1>2, <1>4, SeesNothing

LEMMA CrashRefines ==
    ASSUME DInv, DInv', Crash
    PROVE  AbstractStep
<1>1. TypeInv /\ done \subseteq Updates
  BY DEF DInv, TypeInv, TypeOK
<1>2. acted' = done /\ SameStages
  BY DEF Crash, SameStages
<1>3. \A t \in Threads : Held(t)' \subseteq Held(t)
  <2>1. srv'.rollout = srv.rollout /\ \A t \in Threads : srv'.waiting[t] = <<>>
    BY <1>1, CrashType
  <2> QED BY <2>1, EmptyFacts DEF Held
<1>4. StageOf' = StageOf /\ Delivery!Loses
  BY <1>2, <1>3, SameStagesKept, FewerHeld
<1>5. acted' = {u \in Updates : StageOf[u] = "done"}
  BY <1>1, <1>2 DEF StageOf, Stage
<1>6. Delivery!Restart
  BY <1>4, <1>5 DEF Delivery!Restart, StageOf
<1> QED BY <1>6 DEF AbstractStep, Delivery!Next

LEMMA InitRefines ==
    ASSUME Init
    PROVE  Delivery!Init
<1>1. DInv
  BY DeliveryInit
<1>2. \A u \in Updates : Stage(u) = "offered"
  BY DEF Init, Stage
<1>3. \A t \in Threads : Held(t) = {}
  BY EmptyFacts DEF Init, Held
<1>4. \A t \in Threads, u \in Updates : Copies(t, u) = 0
  BY <1>1, <1>3, CopiesAre
<1> QED BY <1>2, <1>4 DEF Init, Delivery!Init

LEMMA NextRefines ==
    ASSUME ~NoticesFail, Window >= MaxUpdate, DInv, DInv', [Next]_vars
    PROVE  AbstractStep
<1>1. CASE GetUpdates \/ UNCHANGED vars
  <2>1. UNCHANGED <<disk, done, acted, srv>>
    BY <1>1 DEF GetUpdates, bridgeVars, vars
  <2>2. SameStages /\ SameHeld
    BY <2>1 DEF SameStages, SameHeld, Held
  <2> QED BY <2>1, <2>2, SeesNothing
<1> QED BY <1>1, DispatchAccepts, HandlerRefines, MonitorRefines, HandleUserInputRefines,
           NewThreadRefines, CancelTurnRefines, EventRefines, TurnRefines, CrashRefines
        DEF Next, Bridge

\* The connector implements InputDelivery, for every number of updates and
\* threads: an update is on disk before anything is done with it, its input
\* is given to a thread at most once, and it is completed only after it was
\* carried out, across crashes, failed writes and failed requests.
THEOREM BridgeImplementsDelivery ==
    ~NoticesFail /\ Window >= MaxUpdate => (Spec => ImplementsDelivery)
<1> SUFFICES ASSUME ~NoticesFail, Window >= MaxUpdate PROVE Spec => ImplementsDelivery
  OBVIOUS
<1>1. Init => DInv /\ Delivery!Init
  BY DeliveryInit, InitRefines
<1>2. DInv /\ [Next]_vars => DInv'
  BY DeliveryNext
<1>3. DInv /\ DInv' /\ [Next]_vars =>
          [Delivery!Next]_<<[u \in Updates |-> Stage(u)], acted,
                            [t \in Threads |-> [u \in Updates |-> Copies(t, u)]]>>
  BY NextRefines DEF AbstractStep
<1> QED BY <1>1, <1>2, <1>3, PTL DEF Spec, ImplementsDelivery, Delivery!Spec
=============================================================================
