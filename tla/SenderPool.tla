----------------------------- MODULE SenderPool -----------------------------
(***************************************************************************)
(* grammers-mtsender/src/sender_pool.rs: callers that are admitted and     *)
(* routed, the runner that owns the connections, the setups it starts, the *)
(* pacing of attempts, disconnect, quit and the loss of the runner.        *)
(*                                                                         *)
(* Callers, disconnect and quit run on threads of their own and touch the  *)
(* route cache, the queue of the runner and the semaphores; the runner     *)
(* handles one event at a time (drive).  A setup is a task and the         *)
(* connection it leads to is another: both have the identifier of the      *)
(* setup.  A connection is what the pool sees of it; Sender has the rest.  *)
(*                                                                         *)
(* Whoever gives up a request drops its permit and then its response: a    *)
(* request that was given up is "doomed", then "released", then "over".    *)
(* When several are given up together any order is allowed.  An instant is *)
(* the time until it or since it, in ticks.                                *)
(***************************************************************************)
EXTENDS Integers, Sequences, FiniteSets

CONSTANTS
    Calls,          \* invocations
    Dcs,            \* datacenters
    Dc,             \* the datacenter of an invocation
    Sizes,          \* the lengths its body may have
    SlotLimit,      \* max_pending_requests
    ByteLimit,      \* max_pending_bytes
    Parking,        \* whether the pool may start parked
    Stable,         \* STABLE_CONNECTION
    DelayLimit,     \* CONNECT_RETRY_DELAY_LIMIT
    MaxSetups,      \* bound on the setups that are started
    Before,         \* failed attempts that may lie behind a quiet pool at the start
    MaxControls,    \* bound on the calls of disconnect_from_dc and quit and on the
                    \* loss of the runner, together
    MaxPanics       \* bound on tasks that panic

VARIABLES
    call,       \* each invocation: where it is and with whom, whether its
                \* caller waits, its permits and what its caller hears
    slots,      \* free permits of the semaphore of requests
    bytes,      \* free permits of the semaphore of bytes
    routes,     \* the RouteCache
    control,    \* disconnect and quit calls that are under way
    requests,   \* the queue of the runner
    open,       \* whether it accepts requests
    phase,      \* what the runner is doing
    failed,     \* whether a task panicked
    pending,    \* the setup of the group that waits for each datacenter
    setups,     \* the setup tasks
    conns,      \* the connection tasks
    listed,     \* the connections the runner knows
    pacing,     \* ConnectPacing of each datacenter
    started,    \* how many setups were started
    old,        \* history: setups older than the last disconnect that returned
    since       \* history: the time since the last failure to connect

callVars == <<call, slots, bytes>>
queueVars == <<requests, open>>
taskVars == <<setups, conns, listed, pending, pacing, started, since>>
vars == <<callVars, routes, control, queueVars, phase, failed, taskVars, old>>

Ids == 1 .. MaxSetups
Nothing == 0
NoSetup == [dc |-> Nothing, state |-> "none", wait |-> 0, owed |-> 0, aborted |-> FALSE]
NewCall == [where |-> "new", at |-> Nothing, alive |-> TRUE, slot |-> FALSE, size |-> 0, weight |-> 0,
            told |-> FALSE, by |-> Nothing, barred |-> {}]
NoConn == [state |-> "none", aborted |-> FALSE]
(* Instants before the first failure and without a connection *)
Never == -1

ASSUME PoolAssumption ==
    /\ IsFiniteSet(Calls) /\ Dc \in [Calls -> Dcs] /\ Sizes \subseteq Nat /\ Nothing \notin Dcs
    /\ Parking \subseteq BOOLEAN /\ Before \subseteq Nat
    /\ {SlotLimit, ByteLimit, Stable, DelayLimit, MaxSetups, MaxControls, MaxPanics} \subseteq Nat

At(place) == {c \in Calls : call[c].where = place}
Waiting(s) == {c \in At("group") : call[c].at = s}
On(k) == {c \in At("queued") \cup At("flight") : call[c].at = k}
Gone == {c \in Calls : ~call[c].alive}

(* The requests C are given up *)
Doomed(f, C) ==
    [c \in Calls |-> IF c \in C THEN [f[c] EXCEPT !.where = "doomed"] ELSE f[c]]

-----------------------------------------------------------------------------
(* Callers *)

(* The body is checked against the byte limit, and a permit of the semaphore of
   requests is taken.  `barred` remembers which connections are too old. *)
Admit(c) ==
    /\ call[c].where = "new"
    /\ \E size \in Sizes :
          \/ /\ size <= ByteLimit /\ slots > 0
             /\ slots' = slots - 1
             /\ call' = [call EXCEPT ![c].where = "counted", ![c].slot = TRUE, ![c].size = size,
                                     ![c].barred = old[Dc[c]]]
          \/ /\ size > ByteLimit \/ slots = 0
             /\ call' = Doomed(call, {c})
             /\ UNCHANGED slots
    /\ UNCHANGED <<bytes, routes, control, queueVars, phase, failed, taskVars, old>>

(* The permits of the semaphore of bytes *)
AdmitBytes(c) ==
    /\ call[c].where = "counted"
    /\ \/ /\ bytes >= call[c].size
          /\ bytes' = bytes - call[c].size
          /\ call' = [call EXCEPT ![c].where = "admitted", ![c].weight = call[c].size]
       \/ /\ bytes < call[c].size
          /\ call' = Doomed(call, {c})
          /\ UNCHANGED bytes
    /\ UNCHANGED <<slots, routes, control, queueVars, phase, failed, taskVars, old>>

(* try_route: refused when the queue is closed (its routes were closed before it)
   or the pool parked; otherwise the route is cloned under the lock *)
TryRoute(c) ==
    /\ call[c].where = "admitted"
    /\ LET k == routes.entries[Dc[c]]
       IN  call' = IF ~open \/ routes.stopping \/ routes.parked THEN Doomed(call, {c})
                   ELSE [call EXCEPT ![c].where = IF k = Nothing THEN "fallback" ELSE "routed",
                                     ![c].at = k]
    /\ UNCHANGED <<slots, bytes, routes, control, queueVars, phase, failed, taskVars, old>>

IsOpen(k) == conns[k].state = "open"

(* The clone is used after the lock; a closed queue gives the request back *)
SendRoute(c) ==
    /\ call[c].where = "routed"
    /\ call' = [call EXCEPT ![c].where = IF IsOpen(call[c].at) THEN "queued" ELSE "fallback",
                            ![c].at = IF IsOpen(call[c].at) THEN @ ELSE Nothing]
    /\ UNCHANGED <<slots, bytes, routes, control, queueVars, phase, failed, taskVars, old>>

(* The request goes to the runner *)
SendPool(c) ==
    /\ call[c].where = "fallback"
    /\ IF open
       THEN /\ requests' = Append(requests, [kind |-> "invoke", call |-> c])
            /\ call' = [call EXCEPT ![c].where = "pool"]
       ELSE call' = Doomed(call, {c}) /\ UNCHANGED requests
    /\ UNCHANGED <<slots, bytes, routes, control, open, phase, failed, taskVars, old>>

(* A caller that was handed its PendingInvocation drops it *)
Cancel(c) ==
    /\ call[c].where \in {"pool", "group", "queued", "flight"} /\ call[c].alive
    /\ call' = [call EXCEPT ![c].alive = FALSE]
    /\ UNCHANGED <<slots, bytes, routes, control, queueVars, phase, failed, taskVars, old>>

(* drop(rpc.permit), or the fields of a dropped request in their order ... *)
FaultyDropPermit(c) ==
    /\ call[c].where = "doomed"
    /\ slots' = slots + (IF call[c].slot THEN 1 ELSE 0) /\ bytes' = bytes + call[c].size
    /\ call' = [call EXCEPT ![c].where = "released", ![c].slot = FALSE, ![c].weight = 0]
    /\ UNCHANGED <<routes, control, queueVars, phase, failed, taskVars, old>>
DropPermit(c) ==
    /\ call[c].where = "doomed"
    /\ slots' = slots + (IF call[c].slot THEN 1 ELSE 0) /\ bytes' = bytes + call[c].weight
    /\ call' = [call EXCEPT ![c].where = "released", ![c].slot = FALSE, ![c].weight = 0]
    /\ UNCHANGED <<routes, control, queueVars, phase, failed, taskVars, old>>

(* ... and then its response; what the call kept besides permits is of no more use *)
FaultyRespond(c) ==
    /\ call[c].where \in {"doomed", "released"}
    /\ call' = [call EXCEPT ![c].where = "over", ![c].told = call[c].alive]
    /\ UNCHANGED <<slots, bytes, routes, control, queueVars, phase, failed, taskVars, old>>
Respond(c) ==
    /\ call[c].where = "released"
    /\ call' = [call EXCEPT ![c] = [NewCall EXCEPT !.where = "over", !.told = call[c].alive,
                                         !.slot = call[c].slot, !.weight = call[c].weight]]
    /\ UNCHANGED <<slots, bytes, routes, control, queueVars, phase, failed, taskVars, old>>

-----------------------------------------------------------------------------
(* Control *)

Activate ==
    /\ routes.parked /\ ~routes.stopping /\ open
    /\ routes' = [routes EXCEPT !.parked = FALSE]
    /\ UNCHANGED <<callVars, control, queueVars, phase, failed, taskVars, old>>

(* disconnect_from_dc: the route goes under the lock (begin_disconnect) ... *)
FaultyBeginDisconnect(d) ==
    /\ control.calls < MaxControls
    /\ routes' = [routes EXCEPT !.entries[d] = Nothing]
    /\ control' = [control EXCEPT !.calls = @ + 1, !.begun[d] = @ + 1]
    /\ UNCHANGED <<callVars, queueVars, phase, failed, taskVars, old>>
BeginDisconnect(d) ==
    /\ control.calls < MaxControls
    /\ routes' = [routes EXCEPT !.entries[d] = Nothing, !.disconnecting[d] = @ + 1]
    /\ control' = [control EXCEPT !.calls = @ + 1, !.begun[d] = @ + 1]
    /\ UNCHANGED <<callVars, queueVars, phase, failed, taskVars, old>>

(* ... and the request follows; then the call returns *)
SendDisconnect(d) ==
    /\ control.begun[d] > 0
    /\ control' = [control EXCEPT !.begun[d] = @ - 1]
    /\ requests' = IF open THEN Append(requests, [kind |-> "disconnect", dc |-> d]) ELSE requests
    /\ old' = [old EXCEPT ![d] = IF open THEN 1 .. started ELSE @]
    /\ UNCHANGED <<callVars, routes, open, phase, failed, taskVars>>

CloseRoutes(r) == [r EXCEPT !.stopping = TRUE, !.entries = [d \in Dcs |-> Nothing]]

BeginQuit ==
    /\ control.calls < MaxControls /\ control.quit = "no"
    /\ routes' = CloseRoutes(routes)
    /\ control' = [control EXCEPT !.calls = @ + 1, !.quit = "begun"]
    /\ UNCHANGED <<callVars, queueVars, phase, failed, taskVars, old>>

SendQuit ==
    /\ control.quit = "begun"
    /\ control' = [control EXCEPT !.quit = "sent"]
    /\ requests' = IF open THEN Append(requests, [kind |-> "quit"]) ELSE requests
    /\ UNCHANGED <<callVars, routes, open, phase, failed, taskVars, old>>

-----------------------------------------------------------------------------
(* Pacing *)

Min2(a, b) == IF a < b THEN a ELSE b
Max2(a, b) == IF a > b THEN a ELSE b

(* connect_retry_delay: the first retry is not delayed *)
RetryDelay(failures) ==
    IF failures <= 1 THEN 0
    ELSE Min2(<<1, 2, 4, 8, 16, 32>>[Min2(failures - 2, 5) + 1], DelayLimit)

IsStable(d) == pacing[d].up >= Stable
(* forget_failures_if_stable *)
Forgotten(d) == IF IsStable(d) THEN [pacing EXCEPT ![d].failures = 0] ELSE pacing
(* note_connect_failure *)
FaultyFailureNoted(d) ==
    [pacing EXCEPT ![d] = [failures |-> @.failures + 1, up |-> Never, wait |-> RetryDelay(@.failures)]]
FailureNoted(d) ==
    [pacing EXCEPT ![d] = [failures |-> @.failures + 1, up |-> Never,
                           wait |-> RetryDelay(@.failures + 1)]]

Tick ==
    /\ \/ \E d \in Dcs : pacing[d].wait > 0 \/ pacing[d].up \in 0 .. Stable - 1
       \/ \E s \in Ids : setups[s].wait > 0
    /\ pacing' = [d \in Dcs |-> [pacing[d] EXCEPT !.wait = Max2(@ - 1, 0),
                                   !.up = IF @ \in 0 .. Stable - 1 THEN @ + 1 ELSE @]]
    /\ setups' = [s \in Ids |-> [setups[s] EXCEPT !.wait = Max2(@ - 1, 0), !.owed = Max2(@ - 1, 0)]]
    /\ since' = [d \in Dcs |-> Min2(since[d] + 1, DelayLimit)]
    /\ UNCHANGED <<callVars, routes, control, queueVars, phase, failed, conns, listed, pending,
                   started, old>>

-----------------------------------------------------------------------------
(* Setups *)

(* start_setup: the request joins the group of its datacenter or starts one *)
StartSetup(c) ==
    LET d == Dc[c]
        s == IF pending[d] = Nothing THEN started + 1 ELSE pending[d]
    IN  /\ s \in Ids
        /\ call' = [call EXCEPT ![c].where = "group", ![c].at = s]
        /\ pending' = [pending EXCEPT ![d] = s]
        /\ started' = Max2(started, s)
        /\ setups' = IF pending[d] # Nothing THEN setups
                     ELSE [setups EXCEPT ![s] =
                             [dc |-> d, state |-> "pacing", wait |-> pacing[d].wait, aborted |-> FALSE,
                              owed |-> Max2(RetryDelay(pacing[d].failures) - since[d], 0)]]

(* What is left of a task that was joined *)
Joined(s) == [NoSetup EXCEPT !.dc = setups[s].dc, !.state = "joined"]

(* The task of a setup waits for its turn, then connects (create_connection) *)
Live(s) == setups[s].state \in {"pacing", "connecting"}
Connect(s) ==
    /\ setups[s].state = "pacing" /\ setups[s].wait = 0
    /\ setups' = [setups EXCEPT ![s].state = "connecting"]
    /\ UNCHANGED <<callVars, routes, control, queueVars, phase, failed, conns, listed, pending,
                   pacing, started, since, old>>

(* ... and ends: connected, failed, or with a datacenter that is not known *)
EndConnect(s) ==
    /\ setups[s].state = "connecting"
    /\ \E result \in {"connected", "failed", "invalid"} :
           setups' = [setups EXCEPT ![s].state = result]
    /\ UNCHANGED <<callVars, routes, control, queueVars, phase, failed, conns, listed, pending,
                   pacing, started, since, old>>

(* wait_for_connection_cancel *)
CancelConnect(s) ==
    /\ Live(s)
    /\ routes.stopping \/ routes.disconnecting[setups[s].dc] > 0
    /\ setups' = [setups EXCEPT ![s].state = "dropped"]
    /\ UNCHANGED <<callVars, routes, control, queueVars, phase, failed, conns, listed, pending,
                   pacing, started, since, old>>

(* An abort reaches the task; what it would have returned is lost *)
AbortConnect(s) ==
    /\ Live(s) /\ setups[s].aborted
    /\ setups' = [setups EXCEPT ![s] = Joined(s)]
    /\ UNCHANGED <<callVars, routes, control, queueVars, phase, failed, conns, listed, pending,
                   pacing, started, since, old>>

Panics == Cardinality({s \in Ids : setups[s].state = "panicked" \/ conns[s].state = "panicked"})
PanicConnect(s) ==
    /\ Live(s) /\ Panics < MaxPanics
    /\ setups' = [setups EXCEPT ![s].state = "panicked"]
    /\ UNCHANGED <<callVars, routes, control, queueVars, phase, failed, conns, listed, pending,
                   pacing, started, since, old>>

(* cancel_setup; the requests of the group are dropped with it *)
Aborted(S) == [s \in Ids |-> IF s \in S /\ Live(s) THEN [setups[s] EXCEPT !.aborted = TRUE] ELSE setups[s]]
CancelSetup(d, f) ==
    /\ call' = Doomed(f, IF pending[d] = Nothing THEN {} ELSE Waiting(pending[d]))
    /\ setups' = Aborted({pending[d]} \cap Ids)
    /\ pending' = [pending EXCEPT ![d] = Nothing]

-----------------------------------------------------------------------------
(* The runner: one action for each branch of drive *)

(* RouteCache::publish *)
FaultyPublish(d, k) == IF routes.stopping THEN routes ELSE [routes EXCEPT !.entries[d] = k]
Publish(d, k) ==
    IF routes.stopping \/ routes.disconnecting[d] > 0 THEN routes
    ELSE [routes EXCEPT !.entries[d] = k]

(* finish_setup knows a result that is not the present setup's *)
FaultySuperseded(s) == pending[setups[s].dc] = Nothing
Superseded(s) == pending[setups[s].dc] # s

(* finish_setup, when it returns early or hands out an error *)
FinishFailed(s) ==
    LET d == setups[s].dc
    IN  /\ phase = "driving"
        /\ \/ setups[s].state \in {"failed", "invalid", "dropped"}
           \/ setups[s].state = "connected" /\ Superseded(s)
        /\ setups' = [setups EXCEPT ![s] = Joined(s)]
        /\ IF Superseded(s) THEN UNCHANGED <<call, pending, pacing, since>>
           ELSE /\ call' = Doomed([c \in Calls |-> IF call[c].where = "group" /\ call[c].at = pending[d]
                                                    THEN [call[c] EXCEPT !.by = s] ELSE call[c]],
                                  Waiting(pending[d]))
                /\ pending' = [pending EXCEPT ![d] = Nothing]
                /\ pacing' = IF setups[s].state = "failed" THEN FailureNoted(d) ELSE pacing
                /\ since' = IF setups[s].state = "failed" THEN [since EXCEPT ![d] = 0] ELSE since
        /\ UNCHANGED <<slots, bytes, routes, control, queueVars, phase, failed, conns, listed, started, old>>

(* finish_setup with a sender: its task starts, the route is published, and
   requests whose caller is gone are dropped *)
FinishConnected(s) ==
    LET d == setups[s].dc
    IN  /\ phase = "driving"
        /\ setups[s].state = "connected" /\ ~Superseded(s)
        /\ setups' = [setups EXCEPT ![s] = Joined(s)]
        /\ pending' = [pending EXCEPT ![d] = Nothing]
        /\ call' = [c \in Calls |->
                       IF c \notin Waiting(pending[d]) THEN call[c]
                       ELSE IF call[c].alive THEN [call[c] EXCEPT !.where = "queued", !.at = s]
                       ELSE [call[c] EXCEPT !.where = "doomed"]]
        /\ pacing' = [pacing EXCEPT ![d].up = 0]
        /\ conns' = [conns EXCEPT ![s].state = "open"]
        /\ routes' = Publish(d, s)
        /\ listed' = listed \cup {s}
        /\ UNCHANGED <<slots, bytes, control, queueVars, phase, failed, started, since, old>>

(* A setup that panicked ends the runner *)
JoinPanicked(s) ==
    /\ phase = "driving" /\ setups[s].state = "panicked" /\ ~failed
    /\ phase' = "closing" /\ failed' = TRUE
    /\ UNCHANGED <<callVars, routes, control, queueVars, taskVars, old>>

(* poll_closed drops the requests whose callers are gone; cancel_setup follows
   when nobody is left *)
PollClosed(d) ==
    LET gone == Waiting(pending[d]) \cap Gone
    IN  /\ phase = "driving" /\ pending[d] # Nothing /\ gone # {}
        /\ IF gone = Waiting(pending[d]) THEN CancelSetup(d, call)
           ELSE call' = Doomed(call, gone) /\ UNCHANGED <<setups, pending>>
        /\ UNCHANGED <<slots, bytes, routes, control, queueVars, phase, failed, conns, listed, pacing,
                       started, since, old>>

Ended(k) == conns[k].state \in {"ended", "broken", "cancelled", "panicked"}

(* record_completion of the connection k; a panic ends the runner *)
RecordCompletion(k) ==
    LET d == setups[k].dc
        panicked == conns[k].state = "panicked"
        broken == conns[k].state = "broken" /\ ~IsStable(d)
    IN  /\ phase \in {"driving", "joining"} /\ Ended(k)
        /\ conns' = [conns EXCEPT ![k] = [NoConn EXCEPT !.state = "joined"]]
        /\ listed' = {j \in listed : ~Ended(j)}
        /\ routes' = [routes EXCEPT !.entries = [e \in Dcs |->
                        IF @[e] # Nothing /\ IsOpen(@[e]) THEN @[e] ELSE Nothing]]
        /\ pacing' = IF conns[k].state \in {"cancelled", "panicked"} THEN pacing
                     ELSE IF broken THEN FailureNoted(d) ELSE Forgotten(d)
        /\ since' = IF broken THEN [since EXCEPT ![d] = 0] ELSE since
        /\ failed' = (failed \/ panicked)
        /\ phase' = IF panicked /\ phase = "driving" THEN "closing" ELSE phase
        /\ UNCHANGED <<callVars, control, queueVars, setups, pending, started, old>>

Popped(kind) == phase = "driving" /\ requests # <<>> /\ Head(requests).kind = kind
FaultyUsable(d) == {k \in {routes.entries[d]} \cap listed : IsOpen(k)}
Usable(d) == {k \in listed : setups[k].dc = d /\ IsOpen(k)}

(* process_request, Invoke: dropped when its caller is gone, queued to a
   connection of the datacenter that is still open, or waiting for one *)
ProcessInvoke ==
    /\ Popped("invoke")
    /\ requests' = Tail(requests)
    /\ LET c == Head(requests).call
       IN  \/ /\ ~call[c].alive
              /\ call' = Doomed(call, {c})
              /\ UNCHANGED <<pending, setups, started>>
           \/ /\ call[c].alive
              /\ \E k \in Usable(Dc[c]) : call' = [call EXCEPT ![c].where = "queued", ![c].at = k]
              /\ UNCHANGED <<pending, setups, started>>
           \/ /\ call[c].alive /\ Usable(Dc[c]) = {}
              /\ StartSetup(c)
    /\ UNCHANGED <<slots, bytes, routes, control, open, phase, failed, conns, listed, pacing, since, old>>

Abort(K) == [k \in Ids |-> IF k \in K /\ conns[k].state \in {"open", "closed"} THEN [conns[k] EXCEPT !.aborted = TRUE] ELSE conns[k]]

(* process_request, Disconnect: cancel_setup, forget_failures_if_stable,
   finish_disconnect, and the connections of the datacenter are aborted *)
ProcessDisconnect ==
    /\ Popped("disconnect")
    /\ requests' = Tail(requests)
    /\ LET d == Head(requests).dc
           K == {k \in listed : setups[k].dc = d}
       IN  /\ CancelSetup(d, call)
           /\ pacing' = Forgotten(d)
           /\ routes' = [routes EXCEPT !.entries[d] = Nothing, !.disconnecting[d] = @ - 1]
           /\ conns' = Abort(K)
           /\ listed' = listed \ K
    /\ UNCHANGED <<slots, bytes, control, open, phase, failed, started, since, old>>

(* process_request, Quit; or the last handle is gone *)
ProcessQuit ==
    /\ \/ Popped("quit")
       \/ /\ phase = "driving" /\ requests = <<>>
          /\ control.quit = "no" /\ \A d \in Dcs : control.begun[d] = 0
          /\ \A c \in Calls : call[c].where \in {"group", "queued", "flight", "doomed", "released", "over"}
    /\ phase' = "closing"
    /\ UNCHANGED <<callVars, routes, control, queueVars, failed, taskVars, old>>

(* run_then: close_routes ... *)
CloseAfterDrive ==
    /\ phase = "closing"
    /\ routes' = CloseRoutes(routes)
    /\ phase' = "draining"
    /\ UNCHANGED <<callVars, control, queueVars, failed, taskVars, old>>

(* ... the queue is closed and emptied, connections and groups are let go, setups
   aborted; connections too if a task panicked *)
FaultyDrain ==
    /\ phase = "draining"
    /\ phase' = "joining"
    /\ requests' = <<>> /\ UNCHANGED open
    /\ call' = Doomed(call, At("pool") \cup At("group"))
    /\ listed' = {}
    /\ pending' = [d \in Dcs |-> Nothing]
    /\ setups' = Aborted(Ids)
    /\ conns' = IF failed THEN Abort(Ids) ELSE conns
    /\ UNCHANGED <<slots, bytes, routes, control, failed, pacing, started, since, old>>
Drain ==
    /\ phase = "draining"
    /\ phase' = "joining"
    /\ open' = FALSE /\ requests' = <<>>
    /\ call' = Doomed(call, At("pool") \cup At("group"))
    /\ listed' = {}
    /\ pending' = [d \in Dcs |-> Nothing]
    /\ setups' = Aborted(Ids)
    /\ conns' = IF failed THEN Abort(Ids) ELSE conns
    /\ UNCHANGED <<slots, bytes, routes, control, failed, pacing, started, since, old>>

(* run_then waits for every task *)
Over(s) == ~Live(s) /\ conns[s].state \in {"none", "joined"}
FinishRun ==
    /\ phase = "joining" /\ \A s \in Ids : Over(s)
    /\ phase' = "stopped"
    /\ UNCHANGED <<callVars, routes, control, queueVars, failed, taskVars, old>>

(* The future of the runner is dropped: Drop closes the routes, and the fields
   follow: groups, setups, the queue, connections *)
DropRunner ==
    /\ phase \in {"driving", "joining"} /\ control.calls < MaxControls
    /\ control' = [control EXCEPT !.calls = @ + 1]
    /\ routes' = CloseRoutes(routes)
    /\ phase' = "dropping"
    /\ UNCHANGED <<callVars, queueVars, failed, taskVars, old>>

DropFields ==
    /\ phase = "dropping"
    /\ phase' = "stopped"
    /\ open' = FALSE /\ requests' = <<>>
    /\ call' = Doomed(call, At("pool") \cup At("group"))
    /\ listed' = {}
    /\ pending' = [d \in Dcs |-> Nothing]
    /\ setups' = Aborted(Ids)
    /\ conns' = Abort(Ids)
    /\ UNCHANGED <<slots, bytes, routes, control, failed, pacing, started, since, old>>

-----------------------------------------------------------------------------
(* Connections (run_sender), as far as the pool can tell *)

Receive(c) ==
    /\ call[c].where = "queued" /\ IsOpen(call[c].at)
    /\ call' = [call EXCEPT ![c].where = "flight"]
    /\ UNCHANGED <<slots, bytes, routes, control, queueVars, phase, failed, taskVars, old>>

(* A request is answered, or discarded because its caller is gone *)
Answer(c) ==
    /\ call[c].where = "flight" /\ IsOpen(call[c].at)
    /\ call' = Doomed(call, {c})
    /\ UNCHANGED <<slots, bytes, routes, control, queueVars, phase, failed, taskVars, old>>

(* The connection fails: its queue is closed and drained ... *)
Break(k) ==
    /\ IsOpen(k)
    /\ conns' = [conns EXCEPT ![k].state = "closed"]
    /\ call' = Doomed(call, On(k))
    /\ UNCHANGED <<slots, bytes, routes, control, queueVars, phase, failed, setups, listed, pending,
                   pacing, started, since, old>>

(* ... and the task ends; it also ends when nobody can send to it any more, when
   it is aborted, and when it panics.  What it holds is dropped with it. *)
Unreachable(k) ==
    /\ k \notin listed /\ \A d \in Dcs : routes.entries[d] # k
    /\ \A c \in At("routed") : call[c].at # k
    /\ \A c \in At("queued") : call[c].at # k
EndTask(k) ==
    /\ \E how \in {"broken", "ended", "cancelled", "panicked"} :
          /\ \/ how = "broken" /\ conns[k].state = "closed"
             \/ how = "ended" /\ IsOpen(k) /\ Unreachable(k)
             \/ how = "cancelled" /\ conns[k].aborted /\ conns[k].state \in {"open", "closed"}
             \/ how = "panicked" /\ IsOpen(k) /\ Panics < MaxPanics
          /\ conns' = [conns EXCEPT ![k].state = how]
    /\ call' = Doomed(call, On(k))
    /\ UNCHANGED <<slots, bytes, routes, control, queueVars, phase, failed, setups, listed, pending,
                   pacing, started, since, old>>

-----------------------------------------------------------------------------
(* SenderPool::construct *)
Init ==
    /\ call = [c \in Calls |-> NewCall]
    /\ slots = SlotLimit /\ bytes = ByteLimit
    /\ \E p \in Parking : routes = [entries |-> [d \in Dcs |-> Nothing],
                                    disconnecting |-> [d \in Dcs |-> 0], stopping |-> FALSE, parked |-> p]
    /\ control = [calls |-> 0, begun |-> [d \in Dcs |-> 0], quit |-> "no"]
    /\ requests = <<>> /\ open = TRUE /\ phase = "driving" /\ failed = FALSE
    /\ pending = [d \in Dcs |-> Nothing]
    /\ setups = [s \in Ids |-> NoSetup] /\ conns = [s \in Ids |-> NoConn]
    /\ listed = {} /\ started = 0
    /\ \E n \in Before : pacing = [d \in Dcs |-> [failures |-> n, wait |-> 0, up |-> Never]]
    /\ old = [d \in Dcs |-> {}] /\ since = [d \in Dcs |-> DelayLimit]

Submit(c) == AdmitBytes(c) \/ TryRoute(c) \/ SendRoute(c) \/ SendPool(c)
Retire(c) == DropPermit(c) \/ Respond(c)
Setup(s) == Connect(s) \/ EndConnect(s) \/ CancelConnect(s) \/ AbortConnect(s)
Runner ==
    \/ \E s \in Ids : FinishFailed(s) \/ FinishConnected(s) \/ JoinPanicked(s) \/ RecordCompletion(s)
    \/ \E d \in Dcs : PollClosed(d)
    \/ ProcessInvoke \/ ProcessDisconnect \/ ProcessQuit
    \/ CloseAfterDrive \/ Drain \/ FinishRun \/ DropFields
(* A call that was started goes on; a task runs, and nothing makes it panic *)
Advance(c) == Submit(c) \/ Retire(c) \/ Receive(c) \/ Answer(c)
TaskRuns(s) == Setup(s) \/ (EndTask(s) /\ conns'[s].state # "panicked")
Connection == \E k \in Ids : Break(k) \/ EndTask(k)
Control ==
    \/ Activate \/ BeginQuit \/ SendQuit \/ DropRunner
    \/ \E d \in Dcs : BeginDisconnect(d) \/ SendDisconnect(d)

Next ==
    \/ \E c \in Calls : Admit(c) \/ Submit(c) \/ Cancel(c) \/ Retire(c) \/ Receive(c) \/ Answer(c)
    \/ \E s \in Ids : Setup(s) \/ PanicConnect(s)
    \/ Runner \/ Connection \/ Control \/ Tick

Spec == Init /\ [][Next]_vars

-----------------------------------------------------------------------------
(* Properties *)

Places == {"new", "counted", "admitted", "routed", "fallback", "pool", "group", "queued",
           "flight", "doomed", "released", "over"}
Request == [kind : {"invoke"}, call : Calls] \cup [kind : {"disconnect"}, dc : Dcs]
           \cup [kind : {"quit"}]

CallRecord ==
    [where : Places, at : Ids \cup {Nothing}, alive : BOOLEAN, slot : BOOLEAN, size : Nat,
     weight : Nat, told : BOOLEAN, by : Ids \cup {Nothing}, barred : SUBSET Ids]
SetupRecord ==
    [dc : Dcs \cup {Nothing}, wait : Nat, owed : Nat, aborted : BOOLEAN,
     state : {"none", "pacing", "connecting", "connected", "failed", "invalid", "dropped",
              "panicked", "joined"}]
ConnRecord ==
    [state : {"none", "open", "closed", "broken", "ended", "cancelled", "panicked", "joined"},
     aborted : BOOLEAN]

(* The variables keep their types *)
TypeOK ==
    /\ call \in [Calls -> CallRecord]
    /\ slots \in Nat /\ bytes \in Nat
    /\ routes \in [entries : [Dcs -> Ids \cup {Nothing}], disconnecting : [Dcs -> Nat],
                   stopping : BOOLEAN, parked : BOOLEAN]
    /\ control \in [calls : Nat, begun : [Dcs -> Nat], quit : {"no", "begun", "sent"}]
    /\ requests \in Seq(Request) /\ open \in BOOLEAN /\ failed \in BOOLEAN
    /\ phase \in {"driving", "closing", "draining", "joining", "dropping", "stopped"}
    /\ pending \in [Dcs -> Ids \cup {Nothing}]
    /\ setups \in [Ids -> SetupRecord] /\ conns \in [Ids -> ConnRecord]
    /\ listed \subseteq Ids /\ started \in 0 .. MaxSetups
    /\ pacing \in [Dcs -> [failures : Nat, wait : Nat, up : Never .. Stable]]
    /\ old \in [Dcs -> SUBSET Ids] /\ since \in [Dcs -> 0 .. DelayLimit]

(* Calls with a slot, and the permits of the semaphore of bytes that calls hold,
   one element for each *)
Holders == {c \in Calls : call[c].slot}
BytesHeld == {p \in Calls \X (1 .. ByteLimit) : p[2] <= call[p[1]].weight}

(* The free permits and those that requests hold add up to the limits on every
   path a request takes through admission, routing and failure: nothing leaks
   and nothing is returned twice *)
PermitsAccounted ==
    /\ slots + Cardinality(Holders) = SlotLimit
    /\ bytes + Cardinality(BytesHeld) = ByteLimit

(* Whoever has heard the outcome of a request finds its permits free, whether
   the request was refused, answered, drained or dropped with its task: a caller
   that makes one request after another is never refused because of itself, and
   when nothing is under way both semaphores are full *)
PermitBackBeforeTold ==
    /\ \A c \in Calls : call[c].told => ~call[c].slot /\ call[c].weight = 0
    /\ (\A c \in Calls : call[c].where \in {"new", "over"}) => slots = SlotLimit /\ bytes = ByteLimit

(* The permits of the admission are kept: both semaphores add up, and a permit is
   back before its caller is told *)
PermitsKept == PermitsAccounted /\ PermitBackBeforeTold

(* A datacenter has one usable connection and no setup while it has one, and a
   published route belongs to a connection the runner knows, to the same
   datacenter *)
OneConnection ==
    \A d \in Dcs :
        LET usable == {k \in listed : setups[k].dc = d /\ IsOpen(k)}
        IN  /\ Cardinality(usable) <= 1
            /\ pending[d] # Nothing => usable = {}
            /\ routes.entries[d] # Nothing =>
                 routes.entries[d] \in listed /\ setups[routes.entries[d]].dc = d

(* The result of a setup reaches only the requests that waited for that setup:
   one that was cancelled and finishes late changes nothing for its successor *)
StaleSetupIgnored ==
    \A c \in Calls : call[c].by # Nothing => call[c].by = call[c].at

(* A call that is made after disconnect_from_dc has returned never runs on a
   connection, or on the setup of one, that existed when it returned *)
FreshAfterDisconnect ==
    \A c \in Calls : call[c].where \in {"group", "queued", "flight"} => call[c].at \notin call[c].barred

(* A setup goes to the network only when the delay that the failures before it
   demand has passed since the last of them, whatever was cancelled and started
   again in between *)
Paced == \A s \in Ids : setups[s].state \in {"connecting", "connected", "failed"} => setups[s].owed = 0

(* A call that was started has to be settled: it is told, or was given up by its
   caller and its permits are back *)
Started(c) == call[c].where # "new"
Settled(c) == call[c].where = "over"
=============================================================================
