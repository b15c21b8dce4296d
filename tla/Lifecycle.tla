----------------------------- MODULE Lifecycle ------------------------------
(***************************************************************************)
(* The managed client: start, connect, run, run_until, stop and            *)
(* stop_with_timeout of grammers-client/src/client/runtime.rs, called at   *)
(* once by several tasks, over a runner that ends, hangs or panics.  A     *)
(* section under the state's lock is one step; the record of completion    *)
(* has a lock of its own.                                                  *)
(***************************************************************************)
EXTENDS Naturals, Sequences, FiniteSets

CONSTANTS
    Users,      \* tasks that hold the client
    Plans,      \* which operation each of them calls
    MaxPings    \* bound on the shared checks of connectivity

VARIABLES
    user,       \* a task: its operation, where it is, the ping it awaits, the
                \* error its start met, what run() or stop() returned to it,
                \* and whether run_until() is at its own stop
    state,      \* LifecycleState: runner present, stopping, and the shared check
    task,       \* the runner's task: "none", "running", "closing", "published",
                \* "ended", its result, and whether it is to be aborted
    completion, \* the record of completion
    pings       \* the results of the shared checks

lifeVars == <<user, state, task, completion, pings>>

Unknown == [rec |-> "none", result |-> "none"]
Final(r) == [rec |-> "final", result |-> r]
Idle(op) == [op |-> op, pc |-> "idle", ping |-> 0, error |-> "none", result |-> "none", last |-> FALSE]
PoolClosed == state.stopping \/ task.pc \in {"closing", "published", "ended"}

(* publish_completion: the first final result stays; a request that was closed
   gives way to what the runner's end tells, unless that is no error *)
Published(r) ==
    CASE completion.rec = "final" -> completion
      [] completion.rec = "closed" /\ r = "ok" -> Final(completion.result)
      [] OTHER -> Final(r)
Publish(r) == completion' = Published(r)

Step(u, pc) == user' = [user EXCEPT ![u].pc = pc]
(* run() returns r: run_until() then stops the client *)
RunReturns(u, r) ==
    user' = [user EXCEPT ![u].pc = IF user[u].op = "until" THEN "stop" ELSE "done", ![u].result = r, ![u].ping = 0,
                         ![u].last = user[u].op = "until"]
(* stop() returns r; run_until() tells an error of run() first *)
StopReturns(u, r) ==
    IF user[u].op = "stop" \/ user[u].last
    THEN user' = [user EXCEPT ![u].pc = "done", ![u].result = IF @ \in {"none", "ok"} THEN r ELSE @]
    ELSE RunReturns(u, r)

-----------------------------------------------------------------------------
(* start(): for run, run_until and connect *)

Begin(u) ==
    /\ user[u].pc = "idle" /\ user[u].op # "none"
    /\ Step(u, IF user[u].op = "stop" THEN "stop" ELSE "start")
    /\ UNCHANGED <<state, task, completion, pings>>
Start(u) ==
    /\ user[u].pc = "start"
    /\ IF state.stopping \/ task.pc = "ended"
       THEN RunReturns(u, "stopped") /\ UNCHANGED <<state, task>>
       ELSE /\ Step(u, IF user[u].op = "connect" THEN "check" ELSE "startup")
            /\ IF task.pc = "none"
               THEN task' = [task EXCEPT !.pc = "running"] /\ state' = [state EXCEPT !.runner = FALSE]
               ELSE UNCHANGED <<state, task>>
    /\ UNCHANGED <<completion, pings>>

(* A wait for the task that ended: its result, unless another was first *)
Ended == task.pc = "ended"
Verdict == Published(task.result).result

(* connect(): stop() may have come since start(); then a ping of its own, against
   the end of the runner.  The select is biased: an end that is there is taken *)
ConnectCheck(u) ==
    /\ user[u].pc = "check"
    /\ IF state.stopping THEN RunReturns(u, "stopped") ELSE Step(u, "ping")
    /\ UNCHANGED <<state, task, completion, pings>>
ConnectPing(u) ==
    /\ user[u].pc = "ping"
    /\ \/ Ended /\ Publish(task.result) /\ RunReturns(u, IF Verdict = "ok" THEN "stopped" ELSE Verdict)
       \/ ~Ended /\ UNCHANGED completion
          /\ \E r \in {"ok", "network", "overloaded"} : ~PoolClosed /\ RunReturns(u, r)
       \/ ~Ended /\ UNCHANGED completion /\ PoolClosed /\ RunReturns(u, "closed")
    /\ UNCHANGED <<state, task, pings>>

-----------------------------------------------------------------------------
(* run(): shared_startup, then the end *)

(* One check is shared by all; it is made when there is none *)
Startup(u) ==
    /\ user[u].pc = "startup"
    /\ IF state.stopping
       THEN /\ user' = [user EXCEPT ![u].pc = "failed", ![u].error = "stopped"]
            /\ UNCHANGED <<state, pings>>
       ELSE IF state.connection # 0
       THEN /\ user' = [user EXCEPT ![u].pc = "await", ![u].ping = state.connection]
            /\ UNCHANGED <<state, pings>>
       ELSE /\ Len(pings) < MaxPings
            /\ pings' = Append(pings, "pending")
            /\ state' = [state EXCEPT !.connection = Len(pings) + 1]
            /\ user' = [user EXCEPT ![u].pc = "await", ![u].ping = Len(pings) + 1]
    /\ UNCHANGED <<task, completion>>
(* The check is polled by those who wait for it *)
PingEnds(p, r) ==
    /\ pings[p] = "pending" /\ \E u \in Users : user[u].ping = p
    /\ (r = "closed") = PoolClosed
    /\ pings' = [pings EXCEPT ![p] = r]
    /\ UNCHANGED <<user, state, task, completion>>
(* The end of the runner is looked at before the check *)
RunnerEndsFirst(u) ==
    /\ user[u].pc = "await" /\ Ended
    /\ Publish(task.result) /\ RunReturns(u, Verdict)
    /\ UNCHANGED <<state, task, pings>>
FaultyCleared(u) == [state EXCEPT !.connection = 0]
Cleared(u) == IF state.connection = user[u].ping THEN [state EXCEPT !.connection = 0] ELSE state
Connected(u) ==
    LET r == pings[user[u].ping]
    IN  /\ user[u].pc = "await" /\ ~Ended /\ r # "pending"
        /\ CASE r = "ok" -> user' = [user EXCEPT ![u].pc = "wait", ![u].ping = 0] /\ UNCHANGED state
             [] r = "overloaded" ->
                  RunReturns(u, r) /\ state' = Cleared(u)
             [] OTHER -> user' = [user EXCEPT ![u].pc = "failed", ![u].error = r, ![u].ping = 0] /\ UNCHANGED state
        /\ UNCHANGED <<task, completion, pings>>
(* A failed start is recorded, unless the client stops anyway; a closed request
   only for now.  Then run() stops the client. *)
FaultyRecorded(e) == Published(e)
Recorded(e) ==
    IF e = "closed" THEN (IF completion.rec = "none" THEN [rec |-> "closed", result |-> e] ELSE completion)
    ELSE Published(e)
StartFailed(u) ==
    /\ user[u].pc = "failed"
    /\ completion' = IF state.stopping THEN completion ELSE Recorded(user[u].error)
    /\ Step(u, "stop")
    /\ UNCHANGED <<state, task, pings>>
RunEnds(u) ==
    /\ user[u].pc = "wait" /\ Ended
    /\ Publish(task.result) /\ RunReturns(u, Verdict)
    /\ UNCHANGED <<state, task, pings>>
(* run_until drops run() where it awaits, and stops the client *)
Shutdown(u) ==
    /\ user[u].op = "until" /\ user[u].pc \in {"await", "wait", "join", "joinAborted"} /\ ~user[u].last
    /\ user' = [user EXCEPT ![u].pc = "stop", ![u].last = TRUE, ![u].ping = 0]
    /\ UNCHANGED <<state, task, completion, pings>>

-----------------------------------------------------------------------------
(* stop_with_timeout() *)

Stop(u) ==
    /\ user[u].pc = "stop"
    /\ state' = [runner |-> FALSE, stopping |-> TRUE, connection |-> 0]
    /\ IF task.pc = "none" THEN Publish("ok") /\ StopReturns(u, Published("ok").result)
       ELSE Step(u, "join") /\ UNCHANGED completion
    /\ UNCHANGED <<task, pings>>
FaultyJoined(u) ==
    /\ user[u].pc \in {"join", "joinAborted"} /\ Ended
    /\ Publish(task.result) /\ StopReturns(u, task.result)
    /\ UNCHANGED <<state, task, pings>>
Joined(u) ==
    /\ user[u].pc \in {"join", "joinAborted"} /\ Ended
    /\ Publish(task.result) /\ StopReturns(u, Verdict)
    /\ UNCHANGED <<state, task, pings>>
(* The timeout: its record comes before the abort *)
FaultyTimesOut(u) ==
    /\ user[u].pc = "join" /\ ~Ended
    /\ Step(u, "abort")
    /\ UNCHANGED <<state, task, completion, pings>>
TimesOut(u) ==
    /\ user[u].pc = "join" /\ ~Ended
    /\ Publish("timeout") /\ Step(u, "abort")
    /\ UNCHANGED <<state, task, pings>>
FaultyAbort(u) ==
    /\ user[u].pc = "abort"
    /\ task' = [task EXCEPT !.abort = TRUE] /\ StopReturns(u, completion.result)
    /\ UNCHANGED <<state, completion, pings>>
LazyAbort(u) ==
    /\ user[u].pc = "abort" /\ Step(u, "joinAborted")
    /\ UNCHANGED <<state, task, completion, pings>>
Abort(u) ==
    /\ user[u].pc = "abort"
    /\ task' = [task EXCEPT !.abort = TRUE] /\ Step(u, "joinAborted")
    /\ UNCHANGED <<state, completion, pings>>

-----------------------------------------------------------------------------
(* The runner's task: it closes the pool's queue first, publishes its result
   next, and then its join is ready *)

RunnerCloses ==
    /\ task.pc = "running" /\ state.stopping
    /\ task' = [task EXCEPT !.pc = "closing", !.result = "ok"]
    /\ UNCHANGED <<user, state, completion, pings>>
RunnerPanics ==
    /\ task.pc \in {"running", "closing"} /\ task.result # "panicked"
    /\ task' = [task EXCEPT !.pc = "closing", !.result = "panicked"]
    /\ UNCHANGED <<user, state, completion, pings>>
RunnerPublishes ==
    /\ task.pc = "closing"
    /\ Publish(task.result) /\ task' = [task EXCEPT !.pc = "published"]
    /\ UNCHANGED <<user, state, pings>>
TaskEnds ==
    /\ task.pc = "published"
    /\ task' = [task EXCEPT !.pc = "ended"]
    /\ UNCHANGED <<user, state, completion, pings>>
TaskAborted ==
    /\ task.pc \in {"running", "closing"} /\ task.abort /\ task.result # "panicked"
    /\ task' = [task EXCEPT !.pc = "ended", !.result = "cancelled"]
    /\ UNCHANGED <<user, state, completion, pings>>

-----------------------------------------------------------------------------
Init ==
    /\ \E plan \in Plans : user = [u \in Users |-> Idle(plan[u])]
    /\ state = [runner |-> TRUE, stopping |-> FALSE, connection |-> 0]
    /\ task = [pc |-> "none", result |-> "none", abort |-> FALSE]
    /\ completion = Unknown /\ pings = <<>>

Call(u) ==
    \/ Start(u) \/ ConnectCheck(u) \/ ConnectPing(u) \/ Startup(u) \/ RunnerEndsFirst(u) \/ Connected(u) \/ StartFailed(u)
    \/ RunEnds(u) \/ Stop(u) \/ Joined(u) \/ Abort(u)
Timer(u) == TimesOut(u)
(* What does not depend on the runner's good will *)
PingsEnd == \E p \in DOMAIN pings, r \in {"ok", "network", "closed"} : PingEnds(p, r)
TaskStops == TaskEnds \/ TaskAborted
PanicIsPublished == task.result = "panicked" /\ RunnerPublishes
Next ==
    \/ \E u \in Users : Call(u) \/ Timer(u) \/ Shutdown(u) \/ Begin(u)
    \/ \E p \in DOMAIN pings, r \in {"ok", "network", "overloaded", "closed"} : PingEnds(p, r)
    \/ RunnerCloses \/ RunnerPanics \/ RunnerPublishes \/ TaskEnds \/ TaskAborted

Spec == Init /\ [][Next]_lifeVars

-----------------------------------------------------------------------------
(* Properties *)

(* When stop() or run_until() has returned, no runner is running, and none will
   be *)
Returned(u) == user[u].pc = "done" /\ user[u].op \in {"stop", "until"}
StoppedForGood == (\E u \in Users : Returned(u)) => task.pc \in {"none", "ended"} /\ ~state.runner

(* A panic of the runner is what callers are told: not the closed request that is
   its first symptom, and not success *)
PanicIsReported ==
    \A u \in Users :
        task.result = "panicked" /\ user[u].pc = "done" /\ user[u].op \in {"run", "stop"} =>
            user[u].result \notin {"closed", "ok", "cancelled"}

(* Everyone who waited for the end of the client is told the same *)
OneVerdict ==
    \A u, v \in Users :
        LET told == {"ok", "panicked", "cancelled", "timeout", "network", "closed"}
        IN  user[u].op \in {"run", "stop"} /\ user[v].op \in {"run", "stop"}
              /\ user[u].result \in told /\ user[v].result \in told => user[u].result = user[v].result

(* The abort that follows a timeout is never what a caller is told *)
TimeoutIsReported == \A u \in Users : user[u].result # "cancelled"

(* A check of connectivity that still runs stays shared: the task that saw an
   earlier one refused for overload does not take it away *)
CheckStaysShared ==
    state.connection # 0 /\ pings[state.connection] = "pending" /\ ~state'.stopping =>
        state'.connection = state.connection

(* Calls are under way although the client is to stop: every one of them must
   return, whether its runner ends, hangs or panics *)
Quiet == \A u \in Users : user[u].pc \in {"idle", "done"}
Stopping == state.stopping /\ ~Quiet
=============================================================================
