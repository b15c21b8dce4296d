---------------------------- MODULE ClosureWatch ----------------------------
(***************************************************************************)
(* How the runner of the pool learns that the callers of a pending group   *)
(* have gone (ClosureWake and PendingConnection::poll_closed in            *)
(* grammers-mtsender/src/sender_pool.rs).  Callers are dropped on their    *)
(* own threads while the runner's task polls: what each side does is split *)
(* at every access to a shared word or lock.                               *)
(***************************************************************************)
EXTENDS Naturals, Sequences, FiniteSets, SequencesExt

CONSTANT Waiters    \* callers with a request for the datacenter

VARIABLES
    call,       \* a caller: "new", "sent", "waiting", the steps of its drop,
                \* "closed" and "dirty", and "left", of no more interest
    watching,   \* callers whose response sender holds the closure's waker
    closure,    \* ClosureWake: the flag and whether the runner's waker is there
    group,      \* PendingConnection: its requests and how many were polled
    runner      \* the task of the runner: "asleep", "ready", "registered",
                \* "scan" or "receive", the next request to poll, and whether
                \* it was woken while it runs

watchVars == <<call, watching, closure, group, runner>>

Gone == {"closed", "dirty", "left"}
Awake(r) == IF r.pc = "asleep" THEN [r EXCEPT !.pc = "ready"] ELSE [r EXCEPT !.again = TRUE]

-----------------------------------------------------------------------------
(* A caller *)

Send(c) ==
    /\ call[c] = "new"
    /\ call' = [call EXCEPT ![c] = "sent"]
    /\ runner' = Awake(runner)
    /\ UNCHANGED <<watching, closure, group>>
(* The receiver of the response is dropped: tokio marks the channel, and wakes
   the waker the sender registered, if it did *)
Drop(c) ==
    /\ call[c] \in {"sent", "waiting"}
    /\ call' = [call EXCEPT ![c] = IF c \in watching THEN "closed" ELSE "left"]
    /\ UNCHANGED <<watching, closure, group, runner>>
(* wake_by_ref: the flag first, then the runner's waker *)
SetDirty(c) ==
    /\ call[c] = "closed"
    /\ call' = [call EXCEPT ![c] = "dirty"]
    /\ closure' = [closure EXCEPT !.dirty = TRUE]
    /\ UNCHANGED <<watching, group, runner>>
WakeRunner(c) ==
    /\ call[c] = "dirty"
    /\ call' = [call EXCEPT ![c] = "left"]
    /\ closure' = [closure EXCEPT !.waker = FALSE]
    /\ runner' = IF closure.waker THEN Awake(runner) ELSE runner
    /\ UNCHANGED <<watching, group>>

-----------------------------------------------------------------------------
(* The runner *)

(* poll_closed puts the runner's waker in place before it looks at the flag *)
FaultyRegister ==
    /\ runner.pc = "ready" /\ group.open
    /\ closure' = [closure EXCEPT !.waker = @ \/ group.watched = 0]
    /\ runner' = [runner EXCEPT !.pc = "registered"]
    /\ UNCHANGED <<call, watching, group>>
Register ==
    /\ runner.pc = "ready" /\ group.open
    /\ closure' = [closure EXCEPT !.waker = TRUE]
    /\ runner' = [runner EXCEPT !.pc = "registered"]
    /\ UNCHANGED <<call, watching, group>>
FaultyScanFrom(dirty, watched) == watched + 1
ScanFrom(dirty, watched) == IF dirty THEN 1 ELSE watched + 1
SwapDirty ==
    /\ runner.pc = "registered"
    /\ runner' = [runner EXCEPT !.pc = "scan", !.next = ScanFrom(closure.dirty, group.watched)]
    /\ closure' = [closure EXCEPT !.dirty = FALSE]
    /\ UNCHANGED <<call, watching, group>>
(* Each response sender is polled: closed ones leave, others keep the waker *)
PollOne ==
    LET c == group.requests[runner.next]
    IN  /\ runner.pc = "scan" /\ runner.next <= Len(group.requests)
        /\ IF call[c] \in Gone
           THEN /\ group' = [group EXCEPT !.requests = RemoveAt(@, runner.next)]
                /\ UNCHANGED <<watching, runner>>
           ELSE /\ runner' = [runner EXCEPT !.next = @ + 1]
                /\ watching' = watching \cup {c}
                /\ UNCHANGED group
        /\ UNCHANGED <<call, closure>>
(* The poll ends: an empty group is cancelled, which takes the runner's waker
   away; else the task sleeps, unless it was woken meanwhile *)
NewClosure == [dirty |-> FALSE, waker |-> FALSE]
NoGroup == [requests |-> <<>>, watched |-> 0, open |-> FALSE]
(* Drops that wake the closure of a group that is gone reach nobody *)
Unheard == [c \in Waiters |-> IF call[c] \in {"closed", "dirty"} THEN "left" ELSE call[c]]
Sleeps == IF runner.again THEN [pc |-> "ready", next |-> 1, again |-> FALSE] ELSE [pc |-> "asleep", next |-> 1, again |-> FALSE]
EndPoll ==
    /\ runner.pc = "scan" /\ runner.next > Len(group.requests)
    /\ IF group.requests = <<>>
       THEN /\ group' = NoGroup /\ closure' = NewClosure /\ call' = Unheard
            /\ runner' = [runner EXCEPT !.pc = "ready", !.next = 1]
       ELSE /\ group' = [group EXCEPT !.watched = Len(group.requests)]
            /\ runner' = IF \E c \in Waiters : call[c] = "sent" THEN [runner EXCEPT !.pc = "receive"] ELSE Sleeps
            /\ UNCHANGED <<closure, call>>
    /\ UNCHANGED watching
(* A request whose caller is still there is received: the first one opens a
   group.  The loop then polls again. *)
Receive(c) ==
    /\ \/ runner.pc = "receive"
       \/ runner.pc = "ready" /\ ~group.open
    /\ call[c] = "sent"
    /\ call' = [call EXCEPT ![c] = "waiting"]
    /\ group' = IF group.open THEN [group EXCEPT !.requests = Append(@, c)]
                ELSE [requests |-> <<c>>, watched |-> 0, open |-> TRUE]
    /\ UNCHANGED closure
    /\ runner' = [runner EXCEPT !.pc = "ready"]
    /\ UNCHANGED watching
(* The setup ends: the requests are on their way *)
FinishSetup ==
    /\ runner.pc \in {"asleep", "ready"} /\ group.open
    /\ group' = NoGroup /\ closure' = NewClosure
    /\ call' = [c \in Waiters |-> IF c \in ToSet(group.requests) THEN "left" ELSE Unheard[c]]
    /\ runner' = [runner EXCEPT !.pc = "ready"]
    /\ UNCHANGED watching
Idle ==
    /\ \/ runner.pc = "receive"
       \/ runner.pc = "ready" /\ ~group.open
    /\ ~\E c \in Waiters : call[c] = "sent"
    /\ runner' = Sleeps
    /\ UNCHANGED <<call, watching, closure, group>>

-----------------------------------------------------------------------------
Init ==
    /\ call = [c \in Waiters |-> "new"] /\ watching = {}
    /\ closure = NewClosure /\ group = NoGroup
    /\ runner = [pc |-> "asleep", next |-> 1, again |-> FALSE]

Caller(c) == SetDirty(c) \/ WakeRunner(c)
Poll == Register \/ SwapDirty \/ PollOne \/ EndPoll \/ Idle \/ \E c \in Waiters : Receive(c)
Next == Poll \/ FinishSetup \/ \E c \in Waiters : Send(c) \/ Drop(c) \/ Caller(c)

Spec == Init /\ [][Next]_watchVars

-----------------------------------------------------------------------------
(* Properties *)

(* A runner that sleeps over a group learns of every caller that is gone: the
   drop of one of them still has to wake it, and finds its waker *)
NoLostClosure ==
    runner.pc = "asleep" /\ group.open =>
        \A i \in DOMAIN group.requests :
            call[group.requests[i]] \in Gone =>
                closure.waker /\ \E c \in Waiters : call[c] \in {"closed", "dirty"}

(* A group whose callers are all gone has to be cancelled, so that its setup does
   not go on for nobody and its permits come back, unless another caller comes *)
Abandoned == group.open /\ \A c \in Waiters : call[c] \in Gone \cup {"new"}
Cancelled == ~group.open \/ \E c \in Waiters : call[c] = "sent"
=============================================================================
