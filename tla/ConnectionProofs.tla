--------------------------- MODULE ConnectionProofs -------------------------
(***************************************************************************)
(* Proofs about the modules of Network: how the pool's runner learns that  *)
(* callers have gone (ClosureWatch), the retries of a request (Retry), the *)
(* exchange of keys (Handshake), what setups store (ConnectionSetup) and   *)
(* the receiver of updates (UpdatesReceiver); and of the properties that   *)
(* Network states of them.                                                 *)
(***************************************************************************)
EXTENDS Network, FiniteSets, FiniteSetTheorems, SequenceTheorems, TLAPS

-----------------------------------------------------------------------------
(* ClosureWatch *)

Called == {"new", "sent", "waiting", "closed", "dirty", "left"}
Pcs == {"asleep", "ready", "registered", "scan", "receive"}
WatchTypeOK ==
    /\ call \in [Waiters -> Called]
    /\ watching \in SUBSET Waiters
    /\ closure \in [dirty : BOOLEAN, waker : BOOLEAN]
    /\ group \in [requests : Seq(Waiters), watched : Nat, open : BOOLEAN]
    /\ runner \in [pc : Pcs, next : Nat \ {0}, again : BOOLEAN]

(* The requests that the runner has polled and will not look at again unless it
   finds the flag set *)
Passed == IF runner.pc = "scan" THEN runner.next - 1 ELSE group.watched
PassedAreWatched ==
    \A i \in DOMAIN group.requests : i <= Passed =>
        /\ group.requests[i] \in watching
        /\ call[group.requests[i]] \in {"dirty", "left"} => closure.dirty

(* A runner that may go to sleep has polled every request *)
AllPolled ==
    /\ runner.pc \in {"asleep", "receive"} /\ group.open => group.watched = Len(group.requests)
    /\ runner.pc \in {"registered", "scan", "receive"} => group.open

(* A flag that is set will be seen: somebody has yet to wake the runner, or the
   runner is about to look *)
FlagIsSeen ==
    group.open /\ closure.dirty =>
        \/ \E c \in Waiters : call[c] = "dirty"
        \/ runner.pc \in {"ready", "registered"}
        \/ runner.again

(* Whoever took the runner's waker has woken it *)
WakerIsThere ==
    /\ group.open /\ ~closure.waker => runner.pc = "ready" \/ runner.again
    /\ runner.pc = "asleep" => ~runner.again

WatchInv == WatchTypeOK /\ PassedAreWatched /\ AllPolled /\ FlagIsSeen /\ WakerIsThere

LEMMA WatchInit == Watch!Init => WatchInv
<1> SUFFICES ASSUME Watch!Init PROVE WatchInv
  OBVIOUS
<1> USE DEF Watch!Init, Watch!NewClosure, Watch!NoGroup
<1>1. WatchTypeOK
  BY DEF WatchTypeOK, Called, Pcs
<1>2. PassedAreWatched /\ AllPolled
  BY DEF PassedAreWatched, AllPolled
<1>3. FlagIsSeen /\ WakerIsThere
  BY DEF FlagIsSeen, WakerIsThere
<1> QED
  BY <1>1, <1>2, <1>3 DEF WatchInv

(* Someone is woken: nothing but the runner's own state changes *)
LEMMA AwakeType ==
  ASSUME runner \in [pc : Pcs, next : Nat \ {0}, again : BOOLEAN]
  PROVE  /\ Watch!Awake(runner) \in [pc : Pcs, next : Nat \ {0}, again : BOOLEAN]
         /\ Watch!Awake(runner).next = runner.next
         /\ runner.pc # "asleep" => Watch!Awake(runner).pc = runner.pc /\ Watch!Awake(runner).again
         /\ runner.pc = "asleep" => Watch!Awake(runner).pc = "ready" /\ Watch!Awake(runner).again = runner.again
  BY DEF Watch!Awake, Pcs

LEMMA WatchSend == ASSUME WatchInv, NEW c \in Waiters, Watch!Send(c) PROVE WatchInv'
<1> USE DEF WatchInv
<1>0. /\ runner' = Watch!Awake(runner)
      /\ UNCHANGED <<watching, closure, group>>
      /\ \A d \in Waiters : call'[d] = IF d = c THEN "sent" ELSE call[d]
      /\ call[c] = "new"
  BY DEF Watch!Send, WatchTypeOK
<1>1. WatchTypeOK'
  BY AwakeType DEF WatchTypeOK, Watch!Send, Called
<1>2. PassedAreWatched'
  BY <1>0, AwakeType DEF PassedAreWatched, Passed, WatchTypeOK
<1>3. AllPolled'
  BY <1>0, AwakeType DEF AllPolled, WatchTypeOK, Pcs
<1>4. FlagIsSeen'
  BY <1>0, AwakeType DEF FlagIsSeen, WatchTypeOK, Pcs
<1>5. WakerIsThere'
  BY <1>0, AwakeType DEF WakerIsThere, WatchTypeOK, Pcs
<1> QED
  BY <1>1, <1>2, <1>3, <1>4, <1>5

LEMMA WatchDrop == ASSUME WatchInv, NEW c \in Waiters, Watch!Drop(c) PROVE WatchInv'
<1> USE DEF WatchInv
<1>0. /\ UNCHANGED <<watching, closure, group, runner>>
      /\ \A d \in Waiters : d # c => call'[d] = call[d]
      /\ c \in watching => call'[c] = "closed"
      /\ call[c] # "dirty"
  BY DEF Watch!Drop, WatchTypeOK
<1>1. WatchTypeOK'
  BY DEF WatchTypeOK, Watch!Drop, Called
<1>2. PassedAreWatched'
  BY <1>0 DEF PassedAreWatched, Passed, WatchTypeOK
<1>3. AllPolled' /\ WakerIsThere'
  BY <1>0 DEF AllPolled, WakerIsThere
<1>4. FlagIsSeen'
  BY <1>0 DEF FlagIsSeen, WatchTypeOK
<1> QED
  BY <1>1, <1>2, <1>3, <1>4

LEMMA WatchSetDirty == ASSUME WatchInv, NEW c \in Waiters, Watch!SetDirty(c) PROVE WatchInv'
<1> USE DEF WatchInv
<1>0. /\ UNCHANGED <<watching, group, runner>>
      /\ \A d \in Waiters : call'[d] = IF d = c THEN "dirty" ELSE call[d]
      /\ closure'.dirty = TRUE /\ closure'.waker = closure.waker
  BY DEF Watch!SetDirty, WatchTypeOK
<1>1. WatchTypeOK'
  BY DEF WatchTypeOK, Watch!SetDirty, Called
<1>2. PassedAreWatched'
  BY <1>0 DEF PassedAreWatched, Passed, WatchTypeOK
<1>3. AllPolled' /\ WakerIsThere'
  BY <1>0 DEF AllPolled, WakerIsThere
<1>4. FlagIsSeen'
  BY <1>0 DEF FlagIsSeen
<1> QED
  BY <1>1, <1>2, <1>3, <1>4

LEMMA WatchWakeRunner == ASSUME WatchInv, NEW c \in Waiters, Watch!WakeRunner(c) PROVE WatchInv'
<1> USE DEF WatchInv
<1>0. /\ UNCHANGED <<watching, group>>
      /\ \A d \in Waiters : call'[d] = IF d = c THEN "left" ELSE call[d]
      /\ call[c] = "dirty"
      /\ closure'.dirty = closure.dirty /\ closure'.waker = FALSE
      /\ runner' = IF closure.waker THEN Watch!Awake(runner) ELSE runner
  BY DEF Watch!WakeRunner, WatchTypeOK
<1>1. WatchTypeOK'
  BY AwakeType DEF WatchTypeOK, Watch!WakeRunner, Called
<1>2. PassedAreWatched'
  BY <1>0, AwakeType DEF PassedAreWatched, Passed, WatchTypeOK
<1>3. AllPolled'
  BY <1>0, AwakeType DEF AllPolled, WatchTypeOK, Pcs
<1>4. WakerIsThere'
  BY <1>0, AwakeType DEF WakerIsThere, WatchTypeOK, Pcs
<1>5. FlagIsSeen'
  BY <1>0, <1>4 DEF FlagIsSeen, WakerIsThere
<1> QED
  BY <1>1, <1>2, <1>3, <1>4, <1>5

LEMMA WatchRegister == ASSUME WatchInv, Watch!Register PROVE WatchInv'
<1> USE DEF WatchInv
<1>0. /\ UNCHANGED <<call, watching, group>>
      /\ runner.pc = "ready" /\ group.open
      /\ closure'.dirty = closure.dirty /\ closure'.waker = TRUE
      /\ runner'.pc = "registered" /\ runner'.again = runner.again
  BY DEF Watch!Register, WatchTypeOK
<1>1. WatchTypeOK'
  BY DEF WatchTypeOK, Watch!Register, Pcs
<1>2. PassedAreWatched'
  BY <1>0 DEF PassedAreWatched, Passed
<1>3. AllPolled' /\ WakerIsThere' /\ FlagIsSeen'
  BY <1>0 DEF AllPolled, WakerIsThere, FlagIsSeen
<1> QED
  BY <1>1, <1>2, <1>3

LEMMA WatchSwapDirty == ASSUME WatchInv, Watch!SwapDirty PROVE WatchInv'
<1> USE DEF WatchInv
<1>0. /\ UNCHANGED <<call, watching, group>>
      /\ runner.pc = "registered"
      /\ closure'.dirty = FALSE /\ closure'.waker = closure.waker
      /\ runner'.pc = "scan" /\ runner'.again = runner.again
      /\ runner'.next = IF closure.dirty THEN 1 ELSE group.watched + 1
  BY DEF Watch!SwapDirty, WatchTypeOK, Watch!ScanFrom
<1>1. WatchTypeOK'
  <2>1. Watch!ScanFrom(closure.dirty, group.watched) \in Nat \ {0}
    BY DEF WatchTypeOK, Watch!ScanFrom
  <2>2. "scan" \in Pcs
    BY DEF Pcs
  <2> QED
    BY <2>1, <2>2 DEF WatchTypeOK, Watch!SwapDirty
<1>2. PassedAreWatched'
  BY <1>0 DEF PassedAreWatched, Passed, WatchTypeOK
<1>3. AllPolled' /\ WakerIsThere' /\ FlagIsSeen'
  BY <1>0 DEF AllPolled, WakerIsThere, FlagIsSeen
<1> QED
  BY <1>1, <1>2, <1>3

(* What is left of a sequence when one of its elements is taken out *)
LEMMA RemovedAt ==
  ASSUME NEW S, NEW s \in Seq(S), NEW n \in 1 .. Len(s)
  PROVE  /\ Watch!RemoveAt(s, n) \in Seq(S)
         /\ Len(Watch!RemoveAt(s, n)) = Len(s) - 1
         /\ \A i \in 1 .. (n - 1) : Watch!RemoveAt(s, n)[i] = s[i]
<1> DEFINE a == SubSeq(s, 1, n - 1)
           b == SubSeq(s, n + 1, Len(s))
<1>1. a \in Seq(S) /\ Len(a) = n - 1 /\ \A i \in 1 .. (n - 1) : a[i] = s[i]
  OBVIOUS
<1>2. b \in Seq(S) /\ Len(b) = Len(s) - n
  OBVIOUS
<1>3. Watch!RemoveAt(s, n) = a \o b
  BY DEF Watch!RemoveAt
<1> HIDE DEF a, b
<1>4. /\ a \o b \in Seq(S) /\ Len(a \o b) = Len(a) + Len(b)
      /\ \A i \in 1 .. Len(a) + Len(b) : (a \o b)[i] = IF i <= Len(a) THEN a[i] ELSE b[i - Len(a)]
  BY <1>1, <1>2, ConcatProperties
<1> QED
  BY <1>1, <1>2, <1>3, <1>4

LEMMA WatchPollOne == ASSUME WatchInv, Watch!PollOne PROVE WatchInv'
<1> USE DEF WatchInv
<1> DEFINE c == group.requests[runner.next]
<1>0. /\ UNCHANGED <<call, closure>>
      /\ runner.pc = "scan" /\ runner.next \in 1 .. Len(group.requests) /\ c \in Waiters
  BY DEF Watch!PollOne, WatchTypeOK
<1>1. CASE call[c] \in Watch!Gone
  <2>1. /\ UNCHANGED <<watching, runner>>
        /\ group' = [group EXCEPT !.requests = Watch!RemoveAt(group.requests, runner.next)]
    BY <1>1 DEF Watch!PollOne
  <2>2. group.requests \in Seq(Waiters)
    BY DEF WatchTypeOK
  <2>3. /\ Watch!RemoveAt(group.requests, runner.next) \in Seq(Waiters)
        /\ Len(Watch!RemoveAt(group.requests, runner.next)) = Len(group.requests) - 1
        /\ \A i \in 1 .. (runner.next - 1) :
              Watch!RemoveAt(group.requests, runner.next)[i] = group.requests[i]
    BY <1>0, <2>2, RemovedAt
  <2>4. group'.requests = Watch!RemoveAt(group.requests, runner.next) /\ group'.open = group.open
    BY <2>1 DEF WatchTypeOK
  <2>5. WatchTypeOK'
    BY <1>0, <2>1, <2>3 DEF WatchTypeOK
  <2>6. PassedAreWatched'
    BY <1>0, <2>1, <2>3, <2>4 DEF PassedAreWatched, Passed, WatchTypeOK
  <2>7. AllPolled' /\ WakerIsThere' /\ FlagIsSeen'
    BY <1>0, <2>1, <2>4 DEF AllPolled, WakerIsThere, FlagIsSeen
  <2> QED
    BY <2>5, <2>6, <2>7
<1>2. CASE call[c] \notin Watch!Gone
  <2>1. /\ runner' = [runner EXCEPT !.next = @ + 1]
        /\ watching' = watching \cup {c}
        /\ UNCHANGED group
    BY <1>2 DEF Watch!PollOne
  <2>2. runner'.pc = "scan" /\ runner'.next = runner.next + 1 /\ runner'.again = runner.again
    BY <1>0, <2>1 DEF WatchTypeOK
  <2>5. WatchTypeOK'
    BY <1>0, <2>1 DEF WatchTypeOK
  <2>6. PassedAreWatched'
    BY <1>0, <1>2, <2>1, <2>2 DEF PassedAreWatched, Passed, WatchTypeOK, Watch!Gone
  <2>7. AllPolled' /\ WakerIsThere' /\ FlagIsSeen'
    BY <1>0, <2>1, <2>2 DEF AllPolled, WakerIsThere, FlagIsSeen
  <2> QED
    BY <2>5, <2>6, <2>7
<1> QED
  BY <1>1, <1>2

(* A group that is closed has no requests to speak of *)
LEMMA GroupCloses ==
  ASSUME WatchInv, call' \in [Waiters -> Called], UNCHANGED watching,
         group' = Watch!NoGroup, closure' = Watch!NewClosure,
         runner' \in [pc : Pcs, next : Nat \ {0}, again : BOOLEAN], runner'.pc = "ready"
  PROVE  WatchInv'
<1> USE DEF WatchInv, Watch!NoGroup, Watch!NewClosure
<1>1. WatchTypeOK'
  BY DEF WatchTypeOK
<1>2. PassedAreWatched'
  BY DEF PassedAreWatched
<1>3. AllPolled' /\ WakerIsThere' /\ FlagIsSeen'
  BY DEF AllPolled, WakerIsThere, FlagIsSeen
<1> QED
  BY <1>1, <1>2, <1>3

LEMMA UnheardType == ASSUME WatchTypeOK PROVE Watch!Unheard \in [Waiters -> Called]
  BY DEF WatchTypeOK, Watch!Unheard, Called

(* The runner goes to sleep, unless it was woken meanwhile *)
LEMMA WatchSleeps ==
  ASSUME WatchTypeOK
  PROVE  /\ Watch!Sleeps \in [pc : Pcs, next : Nat \ {0}, again : BOOLEAN]
         /\ ~Watch!Sleeps.again
         /\ Watch!Sleeps.pc = IF runner.again THEN "ready" ELSE "asleep"
  BY DEF WatchTypeOK, Watch!Sleeps, Pcs

LEMMA WatchEndPoll == ASSUME WatchInv, Watch!EndPoll PROVE WatchInv'
<1> USE DEF WatchInv
<1>0. runner.pc = "scan" /\ runner.next > Len(group.requests) /\ UNCHANGED watching
  BY DEF Watch!EndPoll
<1>1. CASE group.requests = <<>>
  <2>1. /\ group' = Watch!NoGroup /\ closure' = Watch!NewClosure /\ call' = Watch!Unheard
        /\ runner' = [runner EXCEPT !.pc = "ready", !.next = 1]
    BY <1>1 DEF Watch!EndPoll
  <2>2. runner' \in [pc : Pcs, next : Nat \ {0}, again : BOOLEAN] /\ runner'.pc = "ready"
    <3>1. "ready" \in Pcs /\ 1 \in Nat \ {0}
      BY DEF Pcs
    <3> QED
      BY <2>1, <3>1 DEF WatchTypeOK
  <2> QED
    BY <1>0, <2>1, <2>2, UnheardType, GroupCloses
<1>2. CASE group.requests # <<>>
  <2>1. /\ group' = [group EXCEPT !.watched = Len(group.requests)]
        /\ UNCHANGED <<closure, call>>
        /\ runner' \in {[runner EXCEPT !.pc = "receive"], Watch!Sleeps}
    BY <1>2 DEF Watch!EndPoll
  <2>2. /\ group'.requests = group.requests /\ group'.open = group.open
        /\ group'.watched = Len(group.requests) /\ Len(group.requests) \in Nat
    BY <2>1 DEF WatchTypeOK
  <2>3. /\ runner' \in [pc : Pcs, next : Nat \ {0}, again : BOOLEAN]
        /\ \/ runner'.pc = "receive" /\ runner'.again = runner.again
           \/ ~runner'.again /\ runner'.pc = IF runner.again THEN "ready" ELSE "asleep"
    BY <2>1, WatchSleeps DEF WatchTypeOK, Pcs
  <2>4. WatchTypeOK'
    BY <1>0, <2>1, <2>2, <2>3 DEF WatchTypeOK
  <2>5. PassedAreWatched'
    BY <1>0, <2>1, <2>2, <2>3 DEF PassedAreWatched, Passed, WatchTypeOK
  <2>6. AllPolled'
    BY <1>0, <2>1, <2>2, <2>3 DEF AllPolled
  <2>7. WakerIsThere' /\ FlagIsSeen'
    BY <1>0, <2>1, <2>2, <2>3 DEF WakerIsThere, FlagIsSeen
  <2> QED
    BY <2>4, <2>5, <2>6, <2>7
<1> QED
  BY <1>1, <1>2

LEMMA WatchReceive == ASSUME WatchInv, NEW c \in Waiters, Watch!Receive(c) PROVE WatchInv'
<1> USE DEF WatchInv
<1>0. /\ UNCHANGED <<watching, closure>>
      /\ \A d \in Waiters : call'[d] = IF d = c THEN "waiting" ELSE call[d]
      /\ call[c] = "sent" /\ call' \in [Waiters -> Called]
  BY DEF Watch!Receive, WatchTypeOK, Called
<1>1. /\ runner' \in [pc : Pcs, next : Nat \ {0}, again : BOOLEAN]
      /\ runner'.pc = "ready" /\ runner'.again = runner.again
  BY DEF Watch!Receive, WatchTypeOK, Pcs
<1>2. CASE group.open
  <2>1. runner.pc = "receive" /\ group' = [group EXCEPT !.requests = Append(@, c)]
    BY <1>2 DEF Watch!Receive
  <2>2. Append(group.requests, c) \in Seq(Waiters) /\ group.requests \in Seq(Waiters)
    BY DEF WatchTypeOK
  <2>3. /\ group'.requests = Append(group.requests, c) /\ group'.open = group.open
        /\ group'.watched = Len(group.requests)
    BY <1>2, <2>1 DEF WatchTypeOK, AllPolled
  <2>4. WatchTypeOK'
    BY <1>0, <1>1, <2>1, <2>2 DEF WatchTypeOK
  <2>5. PassedAreWatched'
    BY <1>0, <1>1, <1>2, <2>1, <2>2, <2>3 DEF PassedAreWatched, Passed, AllPolled, WatchTypeOK
  <2>6. AllPolled' /\ FlagIsSeen' /\ WakerIsThere'
    BY <1>0, <1>1, <2>3 DEF AllPolled, FlagIsSeen, WakerIsThere
  <2> QED
    BY <2>4, <2>5, <2>6
<1>3. CASE ~group.open
  <2>1. group' = [requests |-> <<c>>, watched |-> 0, open |-> TRUE]
    BY <1>3 DEF Watch!Receive
  <2>2. WatchTypeOK'
    BY <1>0, <1>1, <2>1 DEF WatchTypeOK
  <2>3. PassedAreWatched'
    BY <1>1, <2>1 DEF PassedAreWatched, Passed
  <2>4. AllPolled' /\ FlagIsSeen' /\ WakerIsThere'
    BY <1>1, <2>1 DEF AllPolled, FlagIsSeen, WakerIsThere
  <2> QED
    BY <2>2, <2>3, <2>4
<1> QED
  BY <1>2, <1>3 DEF WatchTypeOK

LEMMA WatchFinishSetup == ASSUME WatchInv, Watch!FinishSetup PROVE WatchInv'
<1>1. call' \in [Waiters -> Called]
  <2>1. \A c \in Waiters : Watch!Unheard[c] \in Called
    BY UnheardType DEF WatchInv
  <2> QED
    BY <2>1 DEF Watch!FinishSetup, Called
<1>2. runner' \in [pc : Pcs, next : Nat \ {0}, again : BOOLEAN] /\ runner'.pc = "ready"
  BY DEF Watch!FinishSetup, WatchInv, WatchTypeOK, Pcs
<1> QED
  BY <1>1, <1>2, GroupCloses DEF Watch!FinishSetup

LEMMA WatchIdle == ASSUME WatchInv, Watch!Idle PROVE WatchInv'
<1> USE DEF WatchInv
<1>0. /\ UNCHANGED <<call, watching, closure, group>>
      /\ runner.pc = "receive" \/ (runner.pc = "ready" /\ ~group.open)
      /\ runner' = Watch!Sleeps
  BY DEF Watch!Idle
<1>1. WatchTypeOK'
  BY <1>0, WatchSleeps DEF WatchTypeOK
<1>2. PassedAreWatched'
  BY <1>0, WatchSleeps DEF PassedAreWatched, Passed
<1>3. AllPolled'
  BY <1>0, WatchSleeps DEF AllPolled
<1>4. FlagIsSeen' /\ WakerIsThere'
  BY <1>0, WatchSleeps DEF FlagIsSeen, WakerIsThere
<1> QED
  BY <1>1, <1>2, <1>3, <1>4

LEMMA WatchNext ==
  ASSUME WatchInv, [Watch!Next]_(Watch!watchVars) PROVE WatchInv'
<1>1. CASE UNCHANGED Watch!watchVars
  BY <1>1 DEF Watch!watchVars, WatchInv, WatchTypeOK, PassedAreWatched, Passed, AllPolled,
              FlagIsSeen, WakerIsThere
<1>2. CASE Watch!Next
  BY <1>2, WatchSend, WatchDrop, WatchSetDirty, WatchWakeRunner, WatchRegister, WatchSwapDirty,
     WatchPollOne, WatchEndPoll, WatchReceive, WatchFinishSetup, WatchIdle
     DEF Watch!Next, Watch!Poll, Watch!Caller
<1> QED
  BY <1>1, <1>2

(* The invariant behind NoLostClosure holds for any number of callers, whichever way the
   steps of ClosureWake's two sides (wake_by_ref on the callers' threads, poll_closed in
   the runner) interleave *)
THEOREM WatchInvariance == Watch!Spec => []WatchInv
<1>1. Watch!Init => WatchInv
  BY WatchInit
<1>2. WatchInv /\ [Watch!Next]_(Watch!watchVars) => WatchInv'
  BY WatchNext
<1> QED
  BY <1>1, <1>2, PTL DEF Watch!Spec

LEMMA WatchImplies == WatchInv => Watch!NoLostClosure
<1> SUFFICES ASSUME WatchInv, runner.pc = "asleep", group.open,
                    NEW i \in DOMAIN group.requests, call[group.requests[i]] \in Watch!Gone
             PROVE  closure.waker /\ \E c \in Waiters : call[c] \in {"closed", "dirty"}
  BY DEF Watch!NoLostClosure
<1>1. closure.waker
  BY DEF WatchInv, WatchTypeOK, WakerIsThere
<1>2. i <= Passed /\ group.requests[i] \in Waiters
  BY DEF WatchInv, WatchTypeOK, AllPolled, Passed
<1>3. CASE call[group.requests[i]] \in {"closed", "dirty"}
  BY <1>1, <1>2, <1>3
<1>4. CASE call[group.requests[i]] = "left"
  <2>1. closure.dirty
    BY <1>2, <1>4 DEF WatchInv, PassedAreWatched
  <2>2. \E c \in Waiters : call[c] = "dirty"
    BY <2>1 DEF WatchInv, FlagIsSeen, WakerIsThere
  <2> QED
    BY <1>1, <2>2
<1> QED
  BY <1>3, <1>4 DEF Watch!Gone

(* A runner that sleeps over a group learns of every caller that is gone: ClosureWake
   loses no closure *)
THEOREM WatchCorrect == Watch!Spec => []Watch!NoLostClosure
  BY WatchInvariance, WatchImplies, PTL

-----------------------------------------------------------------------------
(* Retry *)

RetryErrors == Retries!NotSent \cup Retries!MaySent \cup {Retries!NoError, Retries!Dropped}
RetryTypeOK ==
    /\ request \in [pc : {"invoke", "check", "ask", "asked", "sleep", "ok", "failed"},
                    count : Nat, slept : Nat, delay : Nat, error : RetryErrors]
    /\ pool \in {"running", "stopping", "gone"}
    /\ executed \in Nat /\ waited \in Nat

(* Whenever the request may go out again it has not been executed, and the error that
   is being judged says so *)
NotYetExecuted ==
    /\ request.pc \in {"invoke", "sleep"} => executed = 0
    /\ request.pc \in {"check", "ask", "asked"} /\ ~request.error.sent => executed = 0
    /\ executed <= 1

(* What was slept is what the budget has counted, and a sleep that was granted fits in *)
SleptIsCounted ==
    /\ waited = request.slept /\ waited <= MaxSleep
    /\ request.pc = "sleep" => request.slept + request.delay <= MaxSleep

RetryInv == RetryTypeOK /\ NotYetExecuted /\ SleptIsCounted

(* What an error says about whether the request was sent *)
LEMMA ErrorKinds ==
  ASSUME NEW e \in RetryErrors
  PROVE  /\ e.wait \in Nat
         /\ e.kind \in {"io", "flood"} => ~e.sent
  BY RetryAssumption DEF RetryErrors, Retries!NotSent, Retries!MaySent, Retries!NoError,
         Retries!Dropped, Retries!Read, Retries!Flood, Retries!Io, Retries!Refused

(* RetryBudget grants a sleep only after an error that excludes delivery, and only what
   is left of the budget *)
LEMMA Granted ==
  ASSUME NEW e \in RetryErrors, NEW count \in Nat, NEW slept \in Nat,
         Retries!ShouldRetry(e, count, slept) # Retries!Break
  PROVE  /\ Retries!ShouldRetry(e, count, slept) \in Nat
         /\ ~e.sent
         /\ slept + Retries!ShouldRetry(e, count, slept) <= MaxSleep
<1> DEFINE delay == Retries!AutoSleep(e, count)
<1>1. delay # Retries!Break => delay \in Nat /\ ~e.sent
  BY ErrorKinds, RetryAssumption DEF Retries!AutoSleep, Retries!Break
<1>2. /\ Retries!ShouldRetry(e, count, slept) = delay
      /\ delay # Retries!Break /\ slept + delay <= MaxSleep
  BY DEF Retries!ShouldRetry
<1> QED
  BY <1>1, <1>2

LEMMA RetryInit == ASSUME Retries!Init PROVE RetryInv
<1>1. RetryTypeOK
  BY DEF RetryTypeOK, Retries!Init, RetryErrors
<1>2. NotYetExecuted /\ SleptIsCounted
  BY RetryAssumption DEF NotYetExecuted, SleptIsCounted, Retries!Init
<1> QED
  BY <1>1, <1>2 DEF RetryInv

LEMMA RetryAnswer == ASSUME RetryInv, Retries!Answer PROVE RetryInv'
<1> USE DEF RetryInv
<1>1. RetryTypeOK'
  BY DEF RetryTypeOK, Retries!Answer
<1>2. NotYetExecuted'
  BY DEF NotYetExecuted, Retries!Answer, RetryTypeOK
<1>3. SleptIsCounted'
  BY DEF SleptIsCounted, Retries!Answer, RetryTypeOK
<1> QED
  BY <1>1, <1>2, <1>3

LEMMA RetryFail ==
  ASSUME RetryInv, NEW e \in RetryErrors, NEW ran \in BOOLEAN, Retries!Fail(e, ran)
  PROVE  RetryInv'
<1> USE DEF RetryInv
<1>1. RetryTypeOK'
  <2>1. request' = [pc |-> "check", count |-> request.count, slept |-> request.slept,
                    delay |-> request.delay, error |-> e]
    BY DEF RetryTypeOK, Retries!Fail
  <2>2. executed' \in Nat
    BY DEF RetryTypeOK, Retries!Fail
  <2> QED
    BY <2>1, <2>2 DEF RetryTypeOK, Retries!Fail
<1>2. NotYetExecuted'
  <2>1. request'.pc = "check" /\ request'.error = e /\ (ran => e.sent)
    BY DEF Retries!Fail, RetryTypeOK
  <2>2. executed = 0 /\ executed' = IF ran THEN executed + 1 ELSE executed
    BY DEF Retries!Fail, NotYetExecuted
  <2> QED
    BY <2>1, <2>2 DEF NotYetExecuted
<1>3. SleptIsCounted'
  BY DEF SleptIsCounted, Retries!Fail, RetryTypeOK
<1> QED
  BY <1>1, <1>2, <1>3

(* check_retry and what becomes of its question: nothing is executed meanwhile *)
LEMMA RetryAsks ==
  ASSUME RetryInv, Retries!CheckRetry \/ Retries!SendCheck \/ Retries!RunnerGone
  PROVE  RetryInv'
<1> USE DEF RetryInv
<1> Retries!Dropped \in RetryErrors
  BY DEF RetryErrors
<1>1. CASE Retries!CheckRetry
  BY <1>1 DEF Retries!CheckRetry, RetryTypeOK, NotYetExecuted, SleptIsCounted
<1>2. CASE Retries!SendCheck
  <2>1. CASE pool = "gone"
    BY <1>2, <2>1 DEF Retries!SendCheck, RetryTypeOK, NotYetExecuted, SleptIsCounted
  <2>2. CASE pool # "gone"
    BY <1>2, <2>2 DEF Retries!SendCheck, RetryTypeOK, NotYetExecuted, SleptIsCounted
  <2> QED
    BY <2>1, <2>2
<1>3. CASE Retries!RunnerGone
  BY <1>3 DEF Retries!RunnerGone, RetryTypeOK, NotYetExecuted, SleptIsCounted
<1> QED
  BY <1>1, <1>2, <1>3

LEMMA RetryRunnerAnswers ==
  ASSUME RetryInv, Retries!RunnerAnswers
  PROVE  RetryInv'
<1> USE DEF RetryInv
<1> DEFINE delay == Retries!ShouldRetry(request.error, request.count, request.slept)
<1>0. /\ request.error \in RetryErrors /\ request.count \in Nat /\ request.slept \in Nat
      /\ request.pc = "asked" /\ UNCHANGED <<pool, executed, waited>>
  BY DEF RetryTypeOK, Retries!RunnerAnswers
<1>1. CASE delay = Retries!Break
  <2>1. request' = [request EXCEPT !.pc = "failed"]
    BY <1>1 DEF Retries!RunnerAnswers
  <2> QED
    BY <1>0, <2>1 DEF RetryTypeOK, NotYetExecuted, SleptIsCounted
<1>2. CASE delay # Retries!Break
  <2>1. request' = [request EXCEPT !.pc = "sleep", !.delay = delay]
    BY <1>2 DEF Retries!RunnerAnswers
  <2>2. delay \in Nat /\ ~request.error.sent /\ request.slept + delay <= MaxSleep
    BY <1>0, <1>2, Granted
  <2> HIDE DEF delay
  <2>3. /\ request'.pc = "sleep" /\ request'.delay = delay
        /\ request'.slept = request.slept
    BY <2>1 DEF RetryTypeOK
  <2>4. RetryTypeOK'
    BY <1>0, <2>1, <2>2 DEF RetryTypeOK
  <2>5. NotYetExecuted'
    BY <1>0, <2>2, <2>3 DEF NotYetExecuted
  <2>6. SleptIsCounted'
    BY <1>0, <2>2, <2>3 DEF SleptIsCounted
  <2> QED
    BY <2>4, <2>5, <2>6
<1> QED
  BY <1>1, <1>2

LEMMA RetryWake == ASSUME RetryInv, Retries!Wake PROVE RetryInv'
<1> USE DEF RetryInv
<1>1. /\ request.pc = "sleep" /\ UNCHANGED <<pool, executed>>
      /\ waited' = waited + request.delay
      /\ request' = [pc |-> "invoke", count |-> request.count + 1, slept |-> request.slept + request.delay,
                     delay |-> 0, error |-> request.error]
  BY DEF Retries!Wake, RetryTypeOK
<1>2. RetryTypeOK'
  BY <1>1 DEF RetryTypeOK
<1>3. NotYetExecuted'
  BY <1>1 DEF NotYetExecuted
<1>4. SleptIsCounted'
  BY <1>1 DEF SleptIsCounted, RetryTypeOK
<1> QED
  BY <1>2, <1>3, <1>4

LEMMA RetryNext ==
  ASSUME RetryInv, [Retries!Next]_(Retries!retryVars) PROVE RetryInv'
<1>1. CASE UNCHANGED Retries!retryVars
  BY <1>1 DEF Retries!retryVars, RetryInv, RetryTypeOK, NotYetExecuted, SleptIsCounted
<1>2. CASE Retries!Run
  <2>1. Retries!NotSent \subseteq RetryErrors
    BY DEF RetryErrors
  <2> QED
    BY <1>2, <2>1, RetryAnswer, RetryFail, RetryAsks, RetryRunnerAnswers, RetryWake
       DEF Retries!Run, Retries!Invoke
<1>3. CASE Retries!Stop
  BY <1>3 DEF Retries!Stop, RetryInv, RetryTypeOK, NotYetExecuted, SleptIsCounted
<1>4. CASE \E e \in Retries!MaySent, ran \in BOOLEAN : Retries!Fail(e, ran)
  BY <1>4, RetryFail DEF RetryErrors
<1> QED
  BY <1>1, <1>2, <1>3, <1>4 DEF Retries!Next

(* The invariant behind the two properties of retries, whatever the limits of AutoSleep
   and RetryBudget are and whenever the pool stops *)
THEOREM RetryInvariance == Retries!Spec => []RetryInv
<1>1. Retries!Init => RetryInv
  BY RetryInit
<1>2. RetryInv /\ [Retries!Next]_(Retries!retryVars) => RetryInv'
  BY RetryNext
<1> QED
  BY <1>1, <1>2, PTL DEF Retries!Spec

LEMMA RetryImplies == RetryInv => Retries!SentOnce /\ Retries!WithinBudget
  BY DEF RetryInv, NotYetExecuted, SleptIsCounted, Retries!SentOnce, Retries!WithinBudget

(* However attempts fail, do_invoke_in_dc sends nothing again that may have been executed,
   and all sleeps of a request together stay within RetryBudget's limit *)
THEOREM RetryCorrect == Retries!Spec => [](Retries!SentOnce /\ Retries!WithinBudget)
  BY RetryInvariance, RetryImplies, PTL

-----------------------------------------------------------------------------
(* Handshake *)

Names == Attempts \cup {Shakes!Nobody}
Places == {"start"} \cup Shakes!Waiting \cup Shakes!Computing \cup Shakes!Ended
AnswerTypes == {"pq", "closed", "dhOk", "dhFail", "ok", "retry", "fail"}
Proofs == {<<>>} \cup {<<a>> : a \in Attempts}
            \cup {<<n, a, Shakes!KeyOf(a, a)>> : n \in 1 .. 3, a \in Attempts}
Messages == [type : AnswerTypes, nonce : Names, serverNonce : Names,
             content : Shakes!Damages \cup {"good"}, half : Names, proof : Proofs]
Shaking == [at : Places, serverNonce : Names, half : Names, answer : Seq(Messages)]
Verdicts == {Shakes!Undecided} \cup {Shakes!Decision(n, a) : n \in 1 .. 3, a \in Attempts}
ShakeTypeOK ==
    /\ shake \in [Attempts -> Shaking]
    /\ asked \in SUBSET Attempts
    /\ incoming \in [Attempts -> Seq(Messages)]
    /\ verdict \in [Attempts -> Verdicts]
    /\ jobs \in SUBSET Attempts

(* A job works on the answer that the attempt holds, and an attempt that has a job waits
   for it or was given up *)
JobsCompute ==
    \A a \in Attempts :
        /\ shake[a].at \in Shakes!Computing => Len(shake[a].answer) = 1
        /\ a \in jobs => shake[a].at \in Shakes!Computing \cup {"dropped"}

(* Telegram decides about an attempt once, at its last request, and only with the nonce
   that both sides hold *)
VerdictIsLast ==
    \A a \in Attempts : verdict[a] # Shakes!Undecided =>
        /\ shake[a].at \in {"gen"} \cup Shakes!Ended
        /\ shake[a].serverNonce = a
        /\ shake[a].at = "gen" => a \notin asked

(* A hash over the new nonce that is on its way tells what Telegram decided, whatever else
   of its message is damaged *)
ProofIsTrue(a, p) ==
    Len(p) = 3 => \E n \in 1 .. 3 : /\ p = <<n, a, Shakes!KeyOf(a, a)>>
                                    /\ verdict[a] = Shakes!Decision(n, a)
ProofsAreTrue == \A a \in Attempts : \A i \in DOMAIN incoming[a] : ProofIsTrue(a, incoming[a][i].proof)

(* A permit is free or held by a job that runs *)
PermitsHeld ==
    /\ IsFiniteSet(jobs) /\ permits \in Nat
    /\ permits + Cardinality(jobs) = DhJobs

ShakeInv ==
    /\ ShakeTypeOK /\ JobsCompute /\ VerdictIsLast /\ ProofsAreTrue /\ PermitsHeld
    /\ Shakes!KeyAgreed /\ Shakes!RetryIsTelegrams

(* What the symbols stand for *)
LEMMA SaysAre == \A n \in 1 .. 3 : Shakes!Says[n] \in {"ok", "retry", "fail"}
  BY DEF Shakes!Says

LEMMA Decided ==
  \A n \in 1 .. 3, a \in Attempts : Shakes!Decision(n, a) # Shakes!Undecided
  BY SaysAre DEF Shakes!Decision, Shakes!Undecided

LEMMA AnswersAre ==
  ASSUME NEW a \in Attempts, NEW type \in AnswerTypes, NEW p \in Proofs
  PROVE  /\ Shakes!Answer(type, a) \in Messages /\ Shakes!Answer(type, a).proof = <<>>
         /\ [Shakes!Answer(type, a) EXCEPT !.proof = p] \in Messages
         /\ [Shakes!Answer(type, a) EXCEPT !.proof = p].proof = p
<1>1. <<>> \in Proofs /\ a \in Names /\ "good" \in Shakes!Damages \cup {"good"}
  BY DEF Proofs, Names
<1>2. Shakes!Answer(type, a) \in Messages /\ Shakes!Answer(type, a).proof = <<>>
  BY <1>1 DEF Shakes!Answer, Messages
<1> QED
  BY <1>2 DEF Messages

LEMMA ShakeInit == ASSUME Shakes!Init PROVE ShakeInv
<1> USE DEF Shakes!Init
<1>1. ShakeTypeOK
  <2>1. [at |-> "start", serverNonce |-> Shakes!Nobody, half |-> Shakes!Nobody, answer |-> <<>>] \in Shaking
    BY DEF Shaking, Places, Names
  <2>2. Shakes!Undecided \in Verdicts
    BY DEF Verdicts
  <2> QED
    BY <2>1, <2>2 DEF ShakeTypeOK
<1>2. JobsCompute
  BY DEF JobsCompute, Shakes!Computing
<1>3. VerdictIsLast
  BY DEF VerdictIsLast
<1>4. ProofsAreTrue
  BY DEF ProofsAreTrue
<1>5. PermitsHeld
  BY FS_EmptySet, JobsAssumption DEF PermitsHeld
<1>6. Shakes!KeyAgreed /\ Shakes!RetryIsTelegrams
  BY DEF Shakes!KeyAgreed, Shakes!RetryIsTelegrams
<1> QED
  BY <1>1, <1>2, <1>3, <1>4, <1>5, <1>6 DEF ShakeInv

(* A message joins a stream, together with a decision or without one *)
LEMMA MessageArrives ==
  ASSUME ShakeInv, NEW a \in Attempts, NEW m \in Messages, Shakes!Put(a, m),
         \A b \in Attempts \ {a} : verdict'[b] = verdict[b],
         verdict'[a] = verdict[a] \/ verdict[a] = Shakes!Undecided,
         ProofIsTrue(a, m.proof)'
  PROVE  incoming' \in [Attempts -> Seq(Messages)] /\ ProofsAreTrue'
<1>1. incoming \in [Attempts -> Seq(Messages)]
  BY DEF ShakeInv, ShakeTypeOK
<1>2. /\ incoming' \in [Attempts -> Seq(Messages)]
      /\ incoming'[a] = Append(incoming[a], m)
      /\ \A b \in Attempts \ {a} : incoming'[b] = incoming[b]
  BY <1>1 DEF Shakes!Put
<1>3. \A b \in Attempts : \A p : ProofIsTrue(b, p) => ProofIsTrue(b, p)'
  <2> SUFFICES ASSUME NEW b \in Attempts, NEW p, ProofIsTrue(b, p), Len(p) = 3
               PROVE  \E n \in 1 .. 3 : /\ p = <<n, b, Shakes!KeyOf(b, b)>>
                                        /\ verdict'[b] = Shakes!Decision(n, b)
    BY DEF ProofIsTrue
  <2>1. PICK n \in 1 .. 3 : p = <<n, b, Shakes!KeyOf(b, b)>> /\ verdict[b] = Shakes!Decision(n, b)
    BY DEF ProofIsTrue
  <2>2. verdict[b] # Shakes!Undecided
    BY <2>1, Decided
  <2> QED
    BY <2>1, <2>2
<1>4. ASSUME NEW b \in Attempts, NEW i \in DOMAIN incoming'[b]
      PROVE  ProofIsTrue(b, incoming[b][i].proof)' 
  <2>1. CASE b # a
    BY <1>2, <1>3, <1>4, <2>1 DEF ShakeInv, ProofsAreTrue
  <2>2. CASE b = a /\ i \in DOMAIN incoming[a]
    <3>1. incoming'[a][i] = incoming[a][i]
      BY <1>1, <1>2, <2>2
    <3> QED
      BY <1>3, <2>2, <3>1 DEF ShakeInv, ProofsAreTrue
  <2>3. CASE b = a /\ i = Len(incoming[a]) + 1
    <3>1. incoming'[a][i] = m
      BY <1>1, <1>2, <2>3
    <3> QED
      BY <2>3, <3>1
  <2> QED
    BY <1>1, <1>2, <1>4, <2>1, <2>2, <2>3
<1> QED
  BY <1>2, <1>4 DEF ProofsAreTrue

LEMMA ShakeTelegramAnswers ==
  ASSUME ShakeInv, NEW a \in Attempts, Shakes!TelegramAnswers(a)
  PROVE  ShakeInv'
<1>0. /\ UNCHANGED <<shake, jobs, permits>>
      /\ asked' = asked \ {a} /\ a \in asked
  BY DEF Shakes!TelegramAnswers
<1>1. <<>> \in Proofs /\ <<a>> \in Proofs /\ \A n \in 1 .. 3 : <<n, a, Shakes!KeyOf(a, a)>> \in Proofs
  BY DEF Proofs
<1>2. CASE UNCHANGED <<incoming, verdict>>
  BY <1>0, <1>2 DEF ShakeInv, ShakeTypeOK, JobsCompute, VerdictIsLast, ProofsAreTrue, ProofIsTrue,
                    PermitsHeld, Shakes!KeyAgreed, Shakes!RetryIsTelegrams
<1>3. CASE UNCHANGED verdict /\ \E m \in Messages : Len(m.proof) # 3 /\ Shakes!Put(a, m)
  <2>1. PICK m \in Messages : Len(m.proof) # 3 /\ Shakes!Put(a, m)
    BY <1>3
  <2>2. incoming' \in [Attempts -> Seq(Messages)] /\ ProofsAreTrue'
    <3>1. ProofIsTrue(a, m.proof)'
      BY <2>1 DEF ProofIsTrue
    <3> QED
      BY <1>3, <2>1, <3>1, MessageArrives
  <2> QED
    BY <1>0, <1>3, <2>2 DEF ShakeInv, ShakeTypeOK, JobsCompute, VerdictIsLast, PermitsHeld,
                            Shakes!KeyAgreed, Shakes!RetryIsTelegrams
<1>4. CASE /\ shake[a].at = "gen" /\ shake[a].serverNonce = a
           /\ \E n \in 1 .. 3 : /\ verdict' = [verdict EXCEPT ![a] = Shakes!Decision(n, a)]
                                /\ Shakes!Put(a, Shakes!Told(n, a))
  <2>1. PICK n \in 1 .. 3 : /\ verdict' = [verdict EXCEPT ![a] = Shakes!Decision(n, a)]
                            /\ Shakes!Put(a, Shakes!Told(n, a))
    BY <1>4
  <2>2. /\ verdict' \in [Attempts -> Verdicts]
        /\ verdict'[a] = Shakes!Decision(n, a)
        /\ \A b \in Attempts \ {a} : verdict'[b] = verdict[b]
    BY <2>1 DEF ShakeInv, ShakeTypeOK, Verdicts
  <2>3. Shakes!Told(n, a) \in Messages /\ Shakes!Told(n, a).proof = <<n, a, Shakes!KeyOf(a, a)>>
    <3>1. Shakes!Says[n] \in AnswerTypes
      BY SaysAre DEF AnswerTypes
    <3> QED
      BY <1>1, <3>1, AnswersAre DEF Shakes!Told
  <2>4. verdict[a] = Shakes!Undecided
    BY <1>0, <1>4 DEF ShakeInv, VerdictIsLast
  <2>5. incoming' \in [Attempts -> Seq(Messages)] /\ ProofsAreTrue'
    <3>1. ProofIsTrue(a, Shakes!Told(n, a).proof)'
      <4>1. \E k \in 1 .. 3 : /\ Shakes!Told(n, a).proof = <<k, a, Shakes!KeyOf(a, a)>>
                              /\ verdict'[a] = Shakes!Decision(k, a)
        BY <2>2, <2>3
      <4> QED
        BY <4>1 DEF ProofIsTrue
    <3> DEFINE m == Shakes!Told(n, a)
    <3>2. m \in Messages /\ Shakes!Put(a, m) /\ ProofIsTrue(a, m.proof)'
      BY <2>1, <2>3, <3>1
    <3> HIDE DEF m
    <3> QED
      BY <2>2, <2>4, <3>2, MessageArrives
  <2>6. ShakeTypeOK'
    BY <1>0, <2>2, <2>5 DEF ShakeInv, ShakeTypeOK
  <2>7. JobsCompute' /\ PermitsHeld'
    BY <1>0 DEF ShakeInv, JobsCompute, PermitsHeld
  <2>8. VerdictIsLast'
    BY <1>0, <1>4, <2>2 DEF ShakeInv, VerdictIsLast
  <2>9. Shakes!KeyAgreed' /\ Shakes!RetryIsTelegrams'
    BY <1>0, <1>4, <2>2 DEF ShakeInv, Shakes!KeyAgreed, Shakes!RetryIsTelegrams
  <2> QED
    BY <2>5, <2>6, <2>7, <2>8, <2>9 DEF ShakeInv
<1>5. CASE shake[a].at = "pq" /\ Shakes!Put(a, Shakes!Answer("pq", a)) /\ UNCHANGED verdict
  <2>0. "pq" \in AnswerTypes
    BY DEF AnswerTypes
  <2>1. Shakes!Answer("pq", a) \in Messages /\ Shakes!Answer("pq", a).proof = <<>>
    BY <1>1, <2>0, AnswersAre
  <2> QED
    BY <1>3, <1>5, <2>1
<1>6. CASE Shakes!Put(a, Shakes!Answer("closed", a)) /\ UNCHANGED verdict
  <2>0. "closed" \in AnswerTypes
    BY DEF AnswerTypes
  <2>1. Shakes!Answer("closed", a) \in Messages /\ Shakes!Answer("closed", a).proof = <<>>
    BY <1>1, <2>0, AnswersAre
  <2> QED
    BY <1>3, <1>6, <2>1
<1>7. CASE /\ \E type \in {"dhOk", "dhFail"} : Shakes!Put(a, [Shakes!Answer(type, a) EXCEPT !.proof = <<a>>])
           /\ UNCHANGED verdict
  <2>1. PICK type \in {"dhOk", "dhFail"} : Shakes!Put(a, [Shakes!Answer(type, a) EXCEPT !.proof = <<a>>])
    BY <1>7
  <2> DEFINE m == [Shakes!Answer(type, a) EXCEPT !.proof = <<a>>]
  <2>0. type \in AnswerTypes
    BY DEF AnswerTypes
  <2>2. m \in Messages /\ m.proof = <<a>>
    BY <1>1, <2>0, AnswersAre
  <2>3. Len(m.proof) # 3
    BY <2>2
  <2> QED
    BY <1>3, <1>7, <2>1, <2>2, <2>3
<1> QED
  BY <1>2, <1>4, <1>5, <1>6, <1>7 DEF Shakes!TelegramAnswers

(* What may happen to the first message of a stream leaves its proof as it was *)
LEMMA DamageKeepsProof ==
  ASSUME NEW m \in Messages, NEW d \in Shakes!Damaged(m)
  PROVE  d \in Messages /\ d.proof = m.proof
<1>1. Shakes!Nobody \in Names
  BY DEF Names
<1>2. \A n \in 1 .. 3 : Shakes!Says[n] \in AnswerTypes
  BY SaysAre DEF AnswerTypes
<1>3. \/ d \in {[m EXCEPT !.nonce = Shakes!Nobody], [m EXCEPT !.serverNonce = Shakes!Nobody],
                [m EXCEPT !.half = Shakes!Nobody]}
      \/ \E c \in Shakes!Damages : d = [m EXCEPT !.content = c]
      \/ \E n \in 1 .. 3 : d = [m EXCEPT !.type = Shakes!Says[n]]
  BY DEF Shakes!Damaged
<1>4. CASE d \in {[m EXCEPT !.nonce = Shakes!Nobody], [m EXCEPT !.serverNonce = Shakes!Nobody],
                  [m EXCEPT !.half = Shakes!Nobody]}
  BY <1>1, <1>4 DEF Messages
<1>5. CASE \E c \in Shakes!Damages : d = [m EXCEPT !.content = c]
  <2>1. PICK c \in Shakes!Damages : d = [m EXCEPT !.content = c]
    BY <1>5
  <2>2. c \in Shakes!Damages \cup {"good"}
    OBVIOUS
  <2> QED
    BY <2>1, <2>2 DEF Messages
<1>6. CASE \E n \in 1 .. 3 : d = [m EXCEPT !.type = Shakes!Says[n]]
  <2>1. PICK n \in 1 .. 3 : d = [m EXCEPT !.type = Shakes!Says[n]]
    BY <1>6
  <2> QED
    BY <1>2, <2>1 DEF Messages
<1> QED
  BY <1>3, <1>4, <1>5, <1>6

(* A step that takes nothing from the streams but lets messages of them be repeated,
   damaged or dropped *)
LEMMA ProofsStay ==
  ASSUME ShakeInv, NEW a \in Attempts, UNCHANGED verdict,
         incoming' \in [Attempts -> Seq(Messages)],
         \A b \in Attempts \ {a} : incoming'[b] = incoming[b],
         \A i \in DOMAIN incoming'[a] :
            \E j \in DOMAIN incoming[a] : incoming'[a][i].proof = incoming[a][j].proof
  PROVE  ProofsAreTrue'
<1>1. \A b \in Attempts : \A p : ProofIsTrue(b, p) => ProofIsTrue(b, p)'
  BY DEF ProofIsTrue
<1>2. ASSUME NEW b \in Attempts, NEW i \in DOMAIN incoming'[b]
      PROVE  ProofIsTrue(b, incoming[b][i].proof)'
  <2>1. CASE b # a
    BY <1>1, <1>2, <2>1 DEF ShakeInv, ProofsAreTrue
  <2>2. CASE b = a
    <3>1. PICK j \in DOMAIN incoming[a] : incoming'[a][i].proof = incoming[a][j].proof
      BY <1>2, <2>2
    <3>2. ProofIsTrue(a, incoming[a][j].proof)
      BY DEF ShakeInv, ProofsAreTrue
    <3> QED
      BY <1>1, <2>2, <3>1, <3>2
  <2> QED
    BY <2>1, <2>2
<1> QED
  BY <1>2 DEF ProofsAreTrue

LEMMA ShakeOddity == ASSUME ShakeInv, NEW a \in Attempts, Shakes!Oddity(a) PROVE ShakeInv'
<1>0. /\ UNCHANGED <<shake, asked, verdict, jobs, permits>>
      /\ incoming \in [Attempts -> Seq(Messages)] /\ incoming[a] # <<>>
  BY DEF Shakes!Oddity, ShakeInv, ShakeTypeOK
<1>1. incoming[a] \in Seq(Messages) /\ Len(incoming[a]) >= 1 /\ incoming[a][1] \in Messages
  BY <1>0
<1>2. /\ incoming' \in [Attempts -> Seq(Messages)]
      /\ \A b \in Attempts \ {a} : incoming'[b] = incoming[b]
      /\ \A i \in DOMAIN incoming'[a] :
            \E j \in DOMAIN incoming[a] : incoming'[a][i].proof = incoming[a][j].proof
  <2>1. CASE \E m \in Shakes!Damaged(incoming[a][1]) : incoming' = [incoming EXCEPT ![a][1] = m]
    <3>1. PICK m \in Shakes!Damaged(incoming[a][1]) : incoming' = [incoming EXCEPT ![a][1] = m]
      BY <2>1
    <3>2. m \in Messages /\ m.proof = incoming[a][1].proof
      BY <1>1, DamageKeepsProof
    <3>3. incoming'[a] = [incoming[a] EXCEPT ![1] = m] /\ \A b \in Attempts \ {a} : incoming'[b] = incoming[b]
      BY <1>0, <3>1
    <3>4. /\ [incoming[a] EXCEPT ![1] = m] \in Seq(Messages)
          /\ Len([incoming[a] EXCEPT ![1] = m]) = Len(incoming[a])
          /\ \A i \in 1 .. Len(incoming[a]) :
                [incoming[a] EXCEPT ![1] = m][i] = IF i = 1 THEN m ELSE incoming[a][i]
      BY <1>1, <3>2
    <3>5. incoming' \in [Attempts -> Seq(Messages)]
      BY <1>0, <3>1, <3>4
    <3>6. \A i \in DOMAIN incoming'[a] : i \in DOMAIN incoming[a] /\ incoming'[a][i].proof = incoming[a][i].proof
      BY <1>1, <3>2, <3>3, <3>4
    <3> QED
      BY <3>3, <3>5, <3>6
  <2>2. CASE incoming' = [incoming EXCEPT ![a] = <<@[1]>> \o @]
    <3> DEFINE s == <<incoming[a][1]>>
               t == incoming[a]
    <3>1. s \in Seq(Messages) /\ Len(s) = 1 /\ s[1] = t[1] /\ t \in Seq(Messages)
      BY <1>1
    <3>2. incoming'[a] = s \o t /\ \A b \in Attempts \ {a} : incoming'[b] = incoming[b]
      BY <1>0, <2>2
    <3> HIDE DEF s
    <3>3. /\ s \o t \in Seq(Messages) /\ Len(s \o t) = Len(s) + Len(t)
          /\ \A i \in 1 .. Len(s) + Len(t) : (s \o t)[i] = IF i <= Len(s) THEN s[i] ELSE t[i - Len(s)]
      BY <3>1, ConcatProperties
    <3>4. incoming' \in [Attempts -> Seq(Messages)]
      BY <1>0, <2>2, <3>3 DEF s
    <3>5. \A i \in DOMAIN incoming'[a] : \E j \in DOMAIN incoming[a] : incoming'[a][i] = incoming[a][j]
      <4> SUFFICES ASSUME NEW i \in 1 .. Len(s) + Len(t)
                   PROVE  \E j \in 1 .. Len(t) : (s \o t)[i] = t[j]
        BY <3>1, <3>2, <3>3
      <4>1. CASE i = 1
        BY <1>1, <3>1, <3>3, <4>1
      <4>2. CASE i # 1
        <5>1. i - 1 \in 1 .. Len(t) /\ (s \o t)[i] = t[i - 1]
          BY <3>1, <3>3, <4>2
        <5> QED
          BY <5>1
      <4> QED
        BY <4>1, <4>2
    <3> QED
      BY <3>2, <3>4, <3>5
  <2> QED
    BY <2>1, <2>2 DEF Shakes!Oddity
<1>3. ProofsAreTrue'
  BY <1>0, <1>2, ProofsStay
<1> QED
  BY <1>0, <1>2, <1>3 DEF ShakeInv, ShakeTypeOK, JobsCompute, VerdictIsLast, PermitsHeld,
                          Shakes!KeyAgreed, Shakes!RetryIsTelegrams

(* One attempt moves to s, while Telegram's decisions stay *)
LEMMA ShakeMoves ==
  ASSUME ShakeInv, NEW a \in Attempts, NEW s \in Shaking,
         shake' = [shake EXCEPT ![a] = s], UNCHANGED verdict,
         asked' \in SUBSET Attempts, asked' \ {a} = asked \ {a},
         jobs' \in SUBSET Attempts, jobs' \ {a} = jobs \ {a},
         incoming' \in [Attempts -> Seq(Messages)], ProofsAreTrue', PermitsHeld',
         s.at \in Shakes!Computing => Len(s.answer) = 1,
         a \in jobs' => s.at \in Shakes!Computing \cup {"dropped"},
         verdict[a] # Shakes!Undecided => s.at \in Shakes!Ended /\ s.serverNonce = a,
         s.at = "done" => verdict[a] = [said |-> "ok", key |-> Shakes!KeyOf(a, s.half),
                                        salt |-> Shakes!SaltOf(a, s.serverNonce)],
         s.at = "retry" => verdict[a].said = "retry"
  PROVE  ShakeInv'
<1>1. /\ shake' \in [Attempts -> Shaking] /\ shake'[a] = s
      /\ \A b \in Attempts \ {a} : shake'[b] = shake[b]
  BY DEF ShakeInv, ShakeTypeOK
<1>2. \A b \in Attempts \ {a} : (b \in asked' <=> b \in asked) /\ (b \in jobs' <=> b \in jobs)
  OBVIOUS
<1>3. ShakeTypeOK'
  BY <1>1 DEF ShakeInv, ShakeTypeOK
<1>4. JobsCompute'
  BY <1>1, <1>2 DEF ShakeInv, JobsCompute
<1>5. VerdictIsLast'
  BY <1>1, <1>2 DEF ShakeInv, VerdictIsLast, Shakes!Ended
<1>6. Shakes!KeyAgreed'
  BY <1>1 DEF ShakeInv, Shakes!KeyAgreed
<1>7. Shakes!RetryIsTelegrams'
  BY <1>1 DEF ShakeInv, Shakes!RetryIsTelegrams
<1> QED
  BY <1>3, <1>4, <1>5, <1>6, <1>7 DEF ShakeInv

LEMMA ShakeStep1 == ASSUME ShakeInv, NEW a \in Attempts, Shakes!Step1(a) PROVE ShakeInv'
<1> DEFINE s == [shake[a] EXCEPT !.at = "pq"]
<1>0. /\ shake \in [Attempts -> Shaking] /\ shake[a] \in Shaking /\ shake[a].at = "start"
      /\ UNCHANGED <<incoming, verdict, jobs, permits>> /\ asked' = asked \cup {a}
      /\ shake' = [shake EXCEPT ![a].at = "pq"]
  BY DEF ShakeInv, ShakeTypeOK, Shakes!Step1
<1>1. "pq" \in Places
  BY DEF Places, Shakes!Waiting
<1>2. s \in Shaking /\ s.at = "pq"
  BY <1>0, <1>1 DEF Shaking
<1>3. shake' = [shake EXCEPT ![a] = s]
  BY <1>0
<1>4. ProofsAreTrue' /\ PermitsHeld' /\ incoming' \in [Attempts -> Seq(Messages)]
  BY <1>0 DEF ShakeInv, ShakeTypeOK, ProofsAreTrue, ProofIsTrue, PermitsHeld
<1>5. a \notin jobs /\ verdict[a] = Shakes!Undecided
  BY <1>0 DEF ShakeInv, JobsCompute, VerdictIsLast, Shakes!Computing, Shakes!Ended
<1>6. /\ asked' \in SUBSET Attempts /\ asked' \ {a} = asked \ {a}
      /\ jobs' \in SUBSET Attempts /\ jobs' \ {a} = jobs \ {a}
  BY <1>0 DEF ShakeInv, ShakeTypeOK
<1>7. s.at \notin Shakes!Computing
  BY <1>2 DEF Shakes!Computing
<1> HIDE DEF s
<1> QED
  BY <1>0, <1>2, <1>3, <1>4, <1>5, <1>6, <1>7, ShakeMoves

(* create_key: a checked hash says what Telegram decided *)
LEMMA CreateKeyChecks ==
  ASSUME ShakeInv, NEW a \in Attempts, incoming[a] # <<>>, shake[a].at = "gen",
         NEW m, m = incoming[a][1], m.type \in {"ok", "retry", "fail"}
  PROVE  LET at == Shakes!CreateKey(a, m)
         IN  /\ at \in {"done", "retry", "refused", "invalid"}
             /\ at = "done" => verdict[a] = [said |-> "ok", key |-> Shakes!KeyOf(a, shake[a].half),
                                             salt |-> Shakes!SaltOf(a, shake[a].serverNonce)]
             /\ at = "retry" => verdict[a].said = "retry"
<1> DEFINE k == Shakes!Number(m)
<1>1. \E n \in 1 .. 3 : Shakes!Says[n] = m.type
  BY DEF Shakes!Says
<1>2. k \in 1 .. 3 /\ Shakes!Says[k] = m.type
  BY <1>1 DEF Shakes!Number
<1>3. CASE ~Shakes!CheckNonces(a, m) \/ ~Shakes!CheckNewNonceHash(a, m, k)
  BY <1>3 DEF Shakes!CreateKey
<1>4. CASE Shakes!CheckNonces(a, m) /\ Shakes!CheckNewNonceHash(a, m, k)
  <2>1. 1 \in DOMAIN incoming[a]
    BY DEF ShakeInv, ShakeTypeOK
  <2>2. ProofIsTrue(a, m.proof)
    BY <2>1 DEF ShakeInv, ProofsAreTrue
  <2>3. m.proof = <<k, a, Shakes!KeyOf(a, shake[a].half)>>
    BY <1>4 DEF Shakes!CheckNewNonceHash
  <2> HIDE DEF k
  <2>4. PICK n \in 1 .. 3 : m.proof = <<n, a, Shakes!KeyOf(a, a)>> /\ verdict[a] = Shakes!Decision(n, a)
    BY <2>2, <2>3 DEF ProofIsTrue
  <2>5. n = k /\ Shakes!KeyOf(a, shake[a].half) = Shakes!KeyOf(a, a)
    BY <2>3, <2>4
  <2>6. shake[a].serverNonce = a
    BY <2>4, Decided DEF ShakeInv, VerdictIsLast
  <2>7. verdict[a] = [said |-> Shakes!Says[k], key |-> Shakes!KeyOf(a, shake[a].half),
                      salt |-> Shakes!SaltOf(a, shake[a].serverNonce)]
    BY <2>4, <2>5, <2>6 DEF Shakes!Decision
  <2>8. Shakes!CreateKey(a, m) = <<"done", "retry", "refused">>[k]
    BY <1>4 DEF Shakes!CreateKey, k
  <2> QED
    BY <1>2, <2>7, <2>8 DEF Shakes!Says
<1> QED
  BY <1>3, <1>4

LEMMA ShakeReceive == ASSUME ShakeInv, NEW a \in Attempts, Shakes!Receive(a) PROVE ShakeInv'
<1> DEFINE m == incoming[a][1]
           r == shake[a]
           s == IF m.type = "closed" THEN [r EXCEPT !.at = "lost"]
                ELSE IF ~Shakes!Readable(a, m) THEN [r EXCEPT !.at = "invalid"]
                ELSE IF r.at = "gen" THEN [r EXCEPT !.at = Shakes!CreateKey(a, m)]
                ELSE [r EXCEPT !.at = IF r.at = "pq" THEN "step2" ELSE "step3", !.answer = <<m>>]
<1>0. /\ shake \in [Attempts -> Shaking] /\ r \in Shaking /\ r.at \in Shakes!Waiting
      /\ incoming \in [Attempts -> Seq(Messages)] /\ incoming[a] # <<>>
      /\ UNCHANGED <<asked, verdict, jobs, permits>>
      /\ incoming' = [incoming EXCEPT ![a] = Tail(incoming[a])]
      /\ shake' = [shake EXCEPT ![a] = s]
  BY DEF ShakeInv, ShakeTypeOK, Shakes!Receive
<1>1. m \in Messages
  BY <1>0
<1>2. {"lost", "invalid", "step2", "step3", "done", "retry", "refused"} \subseteq Places
  BY DEF Places, Shakes!Computing, Shakes!Ended
<1>3. /\ incoming' \in [Attempts -> Seq(Messages)] /\ incoming'[a] = Tail(incoming[a])
      /\ \A b \in Attempts \ {a} : incoming'[b] = incoming[b]
  BY <1>0
<1>4. ProofsAreTrue'
  <2>1. \A i \in DOMAIN incoming'[a] : i + 1 \in DOMAIN incoming[a] /\ incoming'[a][i] = incoming[a][i + 1]
    BY <1>0, <1>3
  <2>2. \A i \in DOMAIN incoming'[a] :
           \E j \in DOMAIN incoming[a] : incoming'[a][i].proof = incoming[a][j].proof
    BY <2>1
  <2> QED
    BY <1>0, <1>3, <2>2, ProofsStay
<1>5. PermitsHeld'
  BY <1>0 DEF ShakeInv, PermitsHeld
<1>6. a \notin jobs
  BY <1>0 DEF ShakeInv, JobsCompute, Shakes!Computing, Shakes!Waiting
<1>7. /\ asked' \in SUBSET Attempts /\ asked' \ {a} = asked \ {a}
      /\ jobs' \in SUBSET Attempts /\ jobs' \ {a} = jobs \ {a}
  BY <1>0 DEF ShakeInv, ShakeTypeOK
<1>8. verdict[a] # Shakes!Undecided => r.at = "gen" /\ r.serverNonce = a
  BY <1>0 DEF ShakeInv, VerdictIsLast, Shakes!Waiting, Shakes!Ended
<1>9. /\ s \in Shaking
      /\ s.at \in Shakes!Computing => Len(s.answer) = 1
      /\ s.serverNonce = r.serverNonce /\ s.half = r.half
      /\ r.at = "gen" => s.at \in Shakes!Ended
      /\ s.at = "done" => verdict[a] = [said |-> "ok", key |-> Shakes!KeyOf(a, s.half),
                                        salt |-> Shakes!SaltOf(a, s.serverNonce)]
      /\ s.at = "retry" => verdict[a].said = "retry"
  <2> HIDE DEF m, r
  <2>1. CASE m.type = "closed"
    <3>1. s = [r EXCEPT !.at = "lost"]
      BY <2>1
    <3> QED
      BY <1>0, <1>2, <3>1 DEF Shaking, Shakes!Computing, Shakes!Ended
  <2>2. CASE m.type # "closed" /\ ~Shakes!Readable(a, m)
    <3>1. s = [r EXCEPT !.at = "invalid"]
      BY <2>2
    <3> QED
      BY <1>0, <1>2, <3>1 DEF Shaking, Shakes!Computing, Shakes!Ended
  <2>3. CASE m.type # "closed" /\ Shakes!Readable(a, m) /\ r.at = "gen"
    <3>1. s = [r EXCEPT !.at = Shakes!CreateKey(a, m)]
      BY <2>3
    <3>2. m.type \in {"ok", "retry", "fail"}
      BY <2>3 DEF Shakes!Readable, Shakes!Expected, r
    <3> DEFINE at == Shakes!CreateKey(a, m)
    <3>3. /\ at \in {"done", "retry", "refused", "invalid"}
          /\ at = "done" => verdict[a] = [said |-> "ok", key |-> Shakes!KeyOf(a, r.half),
                                          salt |-> Shakes!SaltOf(a, r.serverNonce)]
          /\ at = "retry" => verdict[a].said = "retry"
      BY <1>0, <2>3, <3>2, CreateKeyChecks DEF m, r
    <3> HIDE DEF at
    <3>4. s = [r EXCEPT !.at = at]
      BY <3>1 DEF at
    <3> HIDE DEF s
    <3>5. s \in Shaking /\ s.at = at /\ s.serverNonce = r.serverNonce /\ s.half = r.half
      BY <1>0, <1>2, <3>3, <3>4 DEF Shaking
    <3>6. at \in Shakes!Ended /\ at \notin Shakes!Computing
      BY <3>3 DEF Shakes!Ended, Shakes!Computing
    <3> QED
      BY <3>3, <3>5, <3>6
  <2>4. CASE m.type # "closed" /\ Shakes!Readable(a, m) /\ r.at # "gen"
    <3> DEFINE at == IF r.at = "pq" THEN "step2" ELSE "step3"
    <3>1. s = [r EXCEPT !.at = at, !.answer = <<m>>]
      BY <2>4
    <3>2. at \in {"step2", "step3"}
      OBVIOUS
    <3>3. at \in Places
      BY <1>2, <3>2
    <3>4. <<m>> \in Seq(Messages) /\ Len(<<m>>) = 1
      BY <1>1
    <3> HIDE DEF at, s
    <3>5. s \in Shaking /\ s.at = at /\ s.answer = <<m>> /\ s.serverNonce = r.serverNonce /\ s.half = r.half
      BY <1>0, <3>1, <3>3, <3>4 DEF Shaking
    <3> QED
      BY <2>4, <3>2, <3>4, <3>5
  <2> QED
    BY <2>1, <2>2, <2>3, <2>4
<1> HIDE DEF s, m, r
<1> QED
  BY <1>0, <1>3, <1>4, <1>5, <1>6, <1>7, <1>8, <1>9, ShakeMoves

LEMMA ShakeStartJob == ASSUME ShakeInv, NEW a \in Attempts, Shakes!StartJob(a) PROVE ShakeInv'
<1>0. /\ UNCHANGED <<shake, asked, incoming, verdict>> /\ jobs' = jobs \cup {a} /\ a \notin jobs
      /\ permits' = permits - 1 /\ permits > 0 /\ shake[a].at \in Shakes!Computing
  BY DEF Shakes!StartJob
<1>1. PermitsHeld'
  <2>1. IsFiniteSet(jobs) /\ permits \in Nat /\ permits + Cardinality(jobs) = DhJobs
    BY DEF ShakeInv, PermitsHeld
  <2>2. IsFiniteSet(jobs \cup {a}) /\ Cardinality(jobs \cup {a}) = Cardinality(jobs) + 1
    BY <1>0, <2>1, FS_AddElement
  <2>3. Cardinality(jobs) \in Nat
    BY <2>1, FS_CardinalityType
  <2> QED
    BY <1>0, <2>1, <2>2, <2>3 DEF PermitsHeld
<1> QED
  BY <1>0, <1>1 DEF ShakeInv, ShakeTypeOK, JobsCompute, VerdictIsLast, ProofsAreTrue, ProofIsTrue,
                    Shakes!KeyAgreed, Shakes!RetryIsTelegrams

LEMMA ShakeJobEnds == ASSUME ShakeInv, NEW a \in Attempts, Shakes!JobEnds(a) PROVE ShakeInv'
<1> DEFINE r == shake[a]
           m == r.answer[1]
<1>0. /\ shake \in [Attempts -> Shaking] /\ r \in Shaking /\ r.at \in Shakes!Computing \cup {"dropped"}
      /\ incoming \in [Attempts -> Seq(Messages)]
      /\ UNCHANGED <<incoming, verdict>> /\ jobs' = jobs \ {a} /\ a \in jobs
      /\ permits' = permits + 1
  BY DEF ShakeInv, ShakeTypeOK, JobsCompute, Shakes!JobEnds, Shakes!Release
<1>1. PermitsHeld'
  <2>1. IsFiniteSet(jobs) /\ permits \in Nat /\ permits + Cardinality(jobs) = DhJobs
    BY DEF ShakeInv, PermitsHeld
  <2>2. IsFiniteSet(jobs \ {a}) /\ Cardinality(jobs \ {a}) = Cardinality(jobs) - 1
    BY <1>0, <2>1, FS_RemoveElement
  <2>3. Cardinality(jobs) \in Nat
    BY <2>1, FS_CardinalityType
  <2> QED
    BY <1>0, <2>1, <2>2, <2>3 DEF PermitsHeld
<1>2. ProofsAreTrue' /\ incoming' \in [Attempts -> Seq(Messages)]
  BY <1>0 DEF ShakeInv, ProofsAreTrue, ProofIsTrue
<1>3. jobs' \in SUBSET Attempts /\ jobs' \ {a} = jobs \ {a} /\ a \notin jobs'
  BY <1>0 DEF ShakeInv, ShakeTypeOK
<1>4. asked' \in SUBSET Attempts /\ asked' \ {a} = asked \ {a}
  BY DEF ShakeInv, ShakeTypeOK, Shakes!JobEnds
<1>5. {"invalid", "dh", "refused", "gen"} \subseteq Places
  BY DEF Places, Shakes!Waiting, Shakes!Ended
<1>6. <<>> \in Seq(Messages)
  OBVIOUS
<1>7. CASE r.at \in Shakes!Computing
  <2> DEFINE s == IF r.at = "step2" THEN Shakes!Step2(a, m) ELSE Shakes!Step3(a, m)
  <2>1. shake' = [shake EXCEPT ![a] = s]
    BY <1>7 DEF Shakes!JobEnds, Shakes!Computing
  <2>2. m \in Messages
    BY <1>0, <1>7 DEF ShakeInv, JobsCompute, Shaking
  <2>3. m.serverNonce \in Names /\ m.half \in Names
    BY <2>2 DEF Messages
  <2>4. verdict[a] = Shakes!Undecided
    BY <1>7 DEF ShakeInv, VerdictIsLast, Shakes!Computing, Shakes!Ended
  <2>5. s \in Shaking /\ s.at \in {"invalid", "dh", "refused", "gen"}
    <3> HIDE DEF m
    <3> DEFINE No == [shake[a] EXCEPT !.at = "invalid", !.answer = <<>>]
               Dh == [shake[a] EXCEPT !.at = "dh", !.serverNonce = m.serverNonce, !.answer = <<>>]
               Ref == [shake[a] EXCEPT !.at = "refused", !.answer = <<>>]
               Gen == [shake[a] EXCEPT !.at = "gen", !.half = m.half, !.answer = <<>>]
    <3>1. s \in {No, Dh, Ref, Gen}
      BY DEF Shakes!Step2, Shakes!Step3
    <3> HIDE DEF s
    <3>2. No \in Shaking /\ No.at = "invalid"
      BY <1>0, <1>5, <1>6 DEF Shaking
    <3>3. Dh \in Shaking /\ Dh.at = "dh"
      BY <1>0, <1>5, <1>6, <2>3 DEF Shaking
    <3>4. Ref \in Shaking /\ Ref.at = "refused"
      BY <1>0, <1>5, <1>6 DEF Shaking
    <3>5. Gen \in Shaking /\ Gen.at = "gen"
      BY <1>0, <1>5, <1>6, <2>3 DEF Shaking
    <3> HIDE DEF No, Dh, Ref, Gen
    <3> QED
      BY <3>1, <3>2, <3>3, <3>4, <3>5
  <2>6. s.at \notin Shakes!Computing /\ s.at # "done" /\ s.at # "retry"
    BY <2>5 DEF Shakes!Computing
  <2> HIDE DEF s
  <2> QED
    BY <1>0, <1>1, <1>2, <1>3, <1>4, <2>1, <2>4, <2>5, <2>6, ShakeMoves
<1>8. CASE r.at = "dropped"
  <2>1. UNCHANGED <<shake, asked>>
    BY <1>8 DEF Shakes!JobEnds, Shakes!Waiting
  <2> QED
    BY <1>0, <1>1, <1>2, <1>3, <2>1
       DEF ShakeInv, ShakeTypeOK, JobsCompute, VerdictIsLast, Shakes!KeyAgreed, Shakes!RetryIsTelegrams
<1> QED
  BY <1>0, <1>7, <1>8

LEMMA ShakeAbandon == ASSUME ShakeInv, NEW a \in Attempts, Shakes!Abandon(a) PROVE ShakeInv'
<1> DEFINE s == [shake[a] EXCEPT !.at = "dropped", !.answer = <<>>]
<1>0. /\ shake \in [Attempts -> Shaking] /\ shake[a] \in Shaking /\ shake[a].at \notin Shakes!Ended
      /\ incoming \in [Attempts -> Seq(Messages)]
      /\ UNCHANGED <<verdict, jobs, permits>> /\ asked' = asked \ {a}
      /\ incoming' = [incoming EXCEPT ![a] = <<>>]
      /\ shake' = [shake EXCEPT ![a].at = "dropped", ![a].answer = <<>>]
  BY DEF ShakeInv, ShakeTypeOK, Shakes!Abandon, Shakes!DropPermit
<1>1. "dropped" \in Places /\ "dropped" \notin Shakes!Computing /\ "dropped" \in Shakes!Ended
  BY DEF Places, Shakes!Ended, Shakes!Computing
<1>2. s \in Shaking /\ s.at = "dropped" /\ s.serverNonce = shake[a].serverNonce
  <2>1. <<>> \in Seq(Messages)
    OBVIOUS
  <2> QED
    BY <1>0, <1>1, <2>1 DEF Shaking
<1>3. shake' = [shake EXCEPT ![a] = s]
  BY <1>0
<1>4. /\ incoming' \in [Attempts -> Seq(Messages)] /\ incoming'[a] = <<>>
      /\ \A b \in Attempts \ {a} : incoming'[b] = incoming[b]
  BY <1>0
<1>5. ProofsAreTrue'
  BY <1>0, <1>4, ProofsStay
<1>6. PermitsHeld'
  BY <1>0 DEF ShakeInv, PermitsHeld
<1>7. /\ asked' \in SUBSET Attempts /\ asked' \ {a} = asked \ {a}
      /\ jobs' \in SUBSET Attempts /\ jobs' \ {a} = jobs \ {a}
  BY <1>0 DEF ShakeInv, ShakeTypeOK
<1>8. verdict[a] # Shakes!Undecided => s.at \in Shakes!Ended /\ s.serverNonce = a
  BY <1>1, <1>2 DEF ShakeInv, VerdictIsLast
<1>9. s.at \notin Shakes!Computing /\ s.at # "done" /\ s.at # "retry" /\ s.at \in Shakes!Computing \cup {"dropped"}
  BY <1>1, <1>2
<1> HIDE DEF s
<1> QED
  BY <1>0, <1>9, <1>2, <1>3, <1>4, <1>5, <1>6, <1>7, <1>8, ShakeMoves

LEMMA ShakeNext ==
  ASSUME ShakeInv, [Shakes!Next]_(Shakes!handshakeVars) PROVE ShakeInv'
<1>1. CASE UNCHANGED Shakes!handshakeVars
  BY <1>1 DEF Shakes!handshakeVars, ShakeInv, ShakeTypeOK, JobsCompute, VerdictIsLast, ProofsAreTrue,
              ProofIsTrue, PermitsHeld, Shakes!KeyAgreed, Shakes!RetryIsTelegrams
<1>2. CASE Shakes!Next
  <2>1. PICK a \in Attempts : Shakes!Progress(a) \/ Shakes!Oddity(a) \/ Shakes!Abandon(a)
    BY <1>2 DEF Shakes!Next
  <2> QED
    BY <2>1, ShakeTelegramAnswers, ShakeStep1, ShakeReceive, ShakeStartJob, ShakeJobEnds,
       ShakeOddity, ShakeAbandon DEF Shakes!Progress
<1> QED
  BY <1>1, <1>2

(* The invariant of the handshakes, for any number of attempts, permits, damaged answers
   and callers that go away *)
THEOREM ShakeInvariance == Shakes!Spec => []ShakeInv
<1>1. Shakes!Init => ShakeInv
  BY ShakeInit
<1>2. ShakeInv /\ [Shakes!Next]_(Shakes!handshakeVars) => ShakeInv'
  BY ShakeNext
<1> QED
  BY <1>1, <1>2, PTL DEF Shakes!Spec

LEMMA ShakeImplies ==
  ASSUME ShakeInv PROVE Shakes!KeyAgreed /\ Shakes!RetryIsTelegrams /\ Shakes!JobsBounded
<1>1. IsFiniteSet(jobs) /\ permits \in Nat /\ permits + Cardinality(jobs) = DhJobs
  BY DEF ShakeInv, PermitsHeld
<1>2. Cardinality(jobs) \in Nat
  BY <1>1, FS_CardinalityType
<1>3. Shakes!Cardinality(jobs) = Cardinality(jobs)
  BY DEF Shakes!Cardinality, Cardinality
<1>4. Shakes!JobsBounded
  BY <1>1, <1>2, <1>3, JobsAssumption DEF Shakes!JobsBounded
<1> QED
  BY <1>4 DEF ShakeInv

(* A connection that goes on with a key has the key and the salt that Telegram holds for it,
   generate_auth_key reports a retry only when Telegram asked for one, and no more blocking
   jobs run than DH_JOBS has permits *)
THEOREM ShakeCorrect ==
  Shakes!Spec => [](Shakes!KeyAgreed /\ Shakes!RetryIsTelegrams /\ Shakes!JobsBounded)
<1>1. ShakeInv => Shakes!KeyAgreed /\ Shakes!RetryIsTelegrams /\ Shakes!JobsBounded
  BY ShakeImplies
<1> QED
  BY <1>1, ShakeInvariance, PTL

-----------------------------------------------------------------------------
(* ConnectionSetup *)

SetupPcs == {"down", "handshake", "init", "merge", "option", "writeOption", "merged", "refuse",
             "persist", "writeKey", "up"}
SetupRecords == [pc : SetupPcs, read : DcRecords, key : Nat, hold : DcRecords, again : BOOLEAN,
                 config : Seq(Options), next : Nat \ {0}]

DcsTypeOK == DOMAIN dcs \subseteq Dcs /\ dcs \in [DOMAIN dcs -> DcRecords]
KeysTypeOK == keys \in [made : Nat, known : SUBSET Nat, authorized : SUBSET Nat]
SetupTypeOK ==
    /\ DcsTypeOK /\ KeysTypeOK
    /\ setup \in [Dcs -> SetupRecords]
    /\ copier \in [pc : {"idle", "nearest", "export", "import", "record"}, key : Nat]
    /\ given \in [Dcs -> [v4 : Addresses, v6 : Addresses]]

Holding == {"option", "writeOption", "merged", "refuse", "writeKey"}
Early == {"down", "handshake", "init", "merge", "refuse"}
KeyAt(d) == Setups!Stored(d).key

(* What a setup knows of the lock, of its configuration and of what is stored: it holds
   the lock while it writes, so that what it has read is still what is stored, and no
   stored key of its datacenter is newer than its own *)
SetupIsSound(d, s) ==
    /\ s.pc \in Holding <=> configLock = d
    /\ s.pc # "down" => KeyAt(d) <= s.key /\ s.key <= keys.made
    /\ s.pc = "merge" => s.config \in Configs
    /\ s.pc \in Early => s.next = 1
    /\ s.pc \notin Early => Setups!Valid(s.config)
    /\ s.pc = "writeOption" =>
          /\ s.next <= Len(s.config)
          /\ s.hold = Setups!Merged(Setups!Stored(s.config[s.next].dc), s.config[s.next])
    /\ s.pc = "writeKey" => s.hold = [Setups!Stored(d) EXCEPT !.key = s.key]
    /\ s.pc = "up" => d \in DOMAIN dcs /\ dcs[d].key = s.key
SetupsSound == \A d \in Dcs : SetupIsSound(d, setup[d]) /\ KeyAt(d) <= keys.made

(* A datacenter that is not stored was given nothing *)
AddressesSound ==
    /\ Setups!AddressesKept
    /\ \A d \in Dcs \ DOMAIN dcs : given[d] = [v4 |-> Setups!NoAddr, v6 |-> Setups!NoAddr]

(* The copier's key is not newer than the stored one, and once it has imported it is
   authorized, or the stored one is newer *)
CopierSound ==
    /\ copier.key <= KeyAt(TargetDc)
    /\ copier.pc = "record" =>
         copier.key = 0 \/ copier.key \in keys.authorized \/ copier.key < KeyAt(TargetDc)

SetupInv ==
    SetupTypeOK /\ SetupsSound /\ AddressesSound /\ CopierSound /\ Setups!CopiedIsAuthorized

(* The records that stand for nothing are well formed *)
LEMMA BlankRecords ==
  /\ Setups!NoAddr \in Addresses /\ Setups!NewDc \in DcRecords /\ Setups!NewDc.key = 0
  /\ Setups!Down \in SetupRecords /\ Setups!Down.pc = "down" /\ Setups!Down.next = 1
<1>1. Setups!NoAddr \in Addresses
  BY SetupAssumption DEF Setups!NoAddr, Addresses
<1>2. Setups!NewDc \in DcRecords /\ Setups!NewDc.key = 0
  BY <1>1 DEF Setups!NewDc, Setups!NoKey, DcRecords
<1>3. "down" \in SetupPcs /\ <<>> \in Seq(Options) /\ 1 \in Nat \ {0}
  BY DEF SetupPcs
<1>4. Setups!Down \in SetupRecords /\ Setups!Down.pc = "down" /\ Setups!Down.next = 1
  BY <1>2, <1>3 DEF Setups!Down, SetupRecords, Setups!NoKey
<1> QED
  BY <1>1, <1>2, <1>4

LEMMA StoredType ==
  ASSUME DcsTypeOK, NEW d PROVE Setups!Stored(d) \in DcRecords /\ KeyAt(d) \in Nat
<1>1. Setups!Stored(d) \in DcRecords
  BY BlankRecords DEF Setups!Stored, DcsTypeOK
<1> QED
  BY <1>1 DEF KeyAt, DcRecords

LEMMA TargetKeyIs == Setups!TargetKey = KeyAt(TargetDc)
  BY BlankRecords DEF Setups!TargetKey, KeyAt, Setups!Stored, Setups!NoKey

(* An option changes the addresses of a datacenter and nothing else *)
LEMMA MergedType ==
  ASSUME NEW dc \in DcRecords, NEW o \in Options
  PROVE  /\ Setups!Merged(dc, o) \in DcRecords /\ Setups!Merged(dc, o).key = dc.key
         /\ o.ipv6 => Setups!Merged(dc, o).v6 = o.addr /\ Setups!Merged(dc, o).v4 = dc.v4
         /\ ~o.ipv6 => /\ Setups!Merged(dc, o).v4 = o.addr
                       /\ dc.v6 # Setups!NoAddr => Setups!Merged(dc, o).v6 = dc.v6
<1>1. o.addr \in Addresses /\ o.ipv6 \in BOOLEAN
  BY DEF Options
<1>2. Setups!Mapped(o.addr) \in Addresses
  BY <1>1 DEF Setups!Mapped, Addresses
<1>3. CASE o.ipv6
  BY <1>1, <1>3 DEF Setups!Merged, DcRecords
<1>4. CASE ~o.ipv6
  <2> DEFINE w == IF dc.v6 = Setups!NoAddr THEN Setups!Mapped(o.addr) ELSE dc.v6
  <2>1. w \in Addresses
    BY <1>2 DEF DcRecords
  <2>2. Setups!Merged(dc, o) = [dc EXCEPT !.v4 = o.addr, !.v6 = w]
    BY <1>4 DEF Setups!Merged
  <2>3. dc.v6 # Setups!NoAddr => w = dc.v6
    OBVIOUS
  <2> HIDE DEF w
  <2> QED
    BY <1>1, <1>4, <2>1, <2>2, <2>3 DEF DcRecords
<1> QED
  BY <1>1, <1>3, <1>4

LEMMA SetupInit == ASSUME Setups!Init PROVE SetupInv
<1>0. /\ dcs = Stored0 /\ setup = [d \in Dcs |-> Setups!Down] /\ configLock = Setups!Nobody
      /\ keys = [made |-> 1, known |-> {1}, authorized |-> {}]
      /\ copier = [pc |-> "idle", key |-> 0] /\ copied = {}
      /\ given = [d \in Dcs |-> [v4 |-> Setups!NoAddr, v6 |-> Setups!NoAddr]]
  BY DEF Setups!Init, Setups!NoKey
<1>1. DcsTypeOK
  BY <1>0, SetupAssumption DEF DcsTypeOK
<1>2. KeysTypeOK /\ keys.made = 1
  BY <1>0 DEF KeysTypeOK
<1>3. SetupTypeOK
  BY <1>0, <1>1, <1>2, BlankRecords DEF SetupTypeOK
<1>4. ASSUME NEW d \in Dcs PROVE KeyAt(d) <= 1
  BY <1>0, BlankRecords, SetupAssumption DEF KeyAt, Setups!Stored
<1>5. SetupsSound
  <2> SUFFICES ASSUME NEW d \in Dcs PROVE SetupIsSound(d, setup[d]) /\ KeyAt(d) <= keys.made
    BY DEF SetupsSound
  <2>1. setup[d].pc = "down" /\ setup[d].next = 1 /\ configLock # d
    BY <1>0, BlankRecords, SetupAssumption
  <2> QED
    BY <1>2, <1>4, <2>1 DEF SetupIsSound, Holding, Early
<1>6. AddressesSound
  <2>1. \A d \in Dcs : given[d].v4 = Setups!NoAddr /\ given[d].v6 = Setups!NoAddr
    BY <1>0
  <2>2. Setups!AddressesKept
    BY <1>1, <2>1 DEF Setups!AddressesKept, DcsTypeOK
  <2> QED
    BY <1>0, <2>2 DEF AddressesSound
<1>7. CopierSound /\ Setups!CopiedIsAuthorized
  BY <1>0, <1>1, StoredType DEF CopierSound, Setups!CopiedIsAuthorized
<1> QED
  BY <1>3, <1>5, <1>6, <1>7 DEF SetupInv

(* The setup of d goes on to s, perhaps with a write under the lock that it holds *)
LEMMA SetupStep ==
  ASSUME SetupInv, NEW d \in Dcs, NEW s \in SetupRecords,
         setup' = [setup EXCEPT ![d] = s],
         SetupIsSound(d, s)', DcsTypeOK', KeysTypeOK',
         keys.made <= keys.made', UNCHANGED <<keys.authorized, copier, copied>>,
         \A e \in Dcs \ {d} : configLock' = e <=> configLock = e,
         UNCHANGED dcs \/ configLock = d,
         DOMAIN dcs \subseteq DOMAIN dcs',
         \A e \in Dcs \ {d} : KeyAt(e)' = KeyAt(e),
         KeyAt(d) <= KeyAt(d)', KeyAt(d)' <= keys.made',
         given' \in [Dcs -> [v4 : Addresses, v6 : Addresses]], AddressesSound'
  PROVE  SetupInv'
<1>0. SetupTypeOK /\ SetupsSound /\ CopierSound /\ TargetDc \in Dcs /\ KeysTypeOK /\ DcsTypeOK
  BY SetupAssumption DEF SetupInv, SetupTypeOK
<1>1. /\ setup' \in [Dcs -> SetupRecords] /\ setup'[d] = s
      /\ \A e \in Dcs \ {d} : setup'[e] = setup[e]
  BY <1>0 DEF SetupTypeOK
<1>2. SetupTypeOK'
  BY <1>0, <1>1 DEF SetupTypeOK
<1>3. /\ \A e \in Dcs : KeyAt(e) \in Nat /\ KeyAt(e)' \in Nat /\ KeyAt(e) <= KeyAt(e)'
      /\ keys.made \in Nat /\ keys.made' \in Nat
  <2>1. \A e \in Dcs : KeyAt(e) \in Nat
    BY <1>0, StoredType
  <2>2. \A e \in Dcs : KeyAt(e)' \in Nat
    <3> SUFFICES ASSUME NEW e \in Dcs PROVE KeyAt(e)' \in Nat
      OBVIOUS
    <3>1. dcs' \in [DOMAIN dcs' -> DcRecords]
      BY DEF DcsTypeOK
    <3>2. (Setups!Stored(e))' \in DcRecords
      BY <3>1, BlankRecords DEF Setups!Stored
    <3> QED
      BY <3>2 DEF KeyAt, DcRecords
  <2> QED
    BY <1>0, <2>1, <2>2 DEF KeysTypeOK
<1>4. SetupsSound'
  <2> SUFFICES ASSUME NEW e \in Dcs PROVE SetupIsSound(e, setup[e])' /\ KeyAt(e)' <= keys.made'
    BY DEF SetupsSound
  <2>1. CASE e = d
    BY <1>1, <2>1 DEF SetupIsSound
  <2>2. CASE e # d
    <3>0. PICK r : r = setup[e]
      OBVIOUS
    <3>1. setup'[e] = r /\ r \in SetupRecords /\ r.key \in Nat
      BY <1>0, <1>1, <2>2, <3>0 DEF SetupTypeOK, SetupRecords
    <3>2. SetupIsSound(e, r) /\ KeyAt(e) <= keys.made /\ SetupIsSound(d, setup[d])
      BY <1>0, <3>0 DEF SetupsSound
    <3>3. KeyAt(e)' = KeyAt(e) /\ (configLock' = e <=> configLock = e)
      BY <2>2
    <3>4. KeyAt(e)' <= keys.made'
      BY <1>3, <3>2, <3>3
    <3>5. CASE UNCHANGED dcs
      <4>1. \A x : Setups!Stored(x)' = Setups!Stored(x)
        BY <3>5 DEF Setups!Stored
      <4>2. r.pc # "down" => KeyAt(e)' <= r.key /\ r.key <= keys.made'
        BY <1>3, <3>1, <3>2, <3>3 DEF SetupIsSound
      <4>3. /\ r.pc = "writeOption" =>
                 /\ r.next <= Len(r.config)
                 /\ r.hold = Setups!Merged(Setups!Stored(r.config[r.next].dc)', r.config[r.next])
            /\ r.pc = "writeKey" => r.hold = [Setups!Stored(e)' EXCEPT !.key = r.key]
            /\ r.pc = "up" => e \in DOMAIN dcs' /\ dcs'[e].key = r.key
        BY <3>2, <3>5, <4>1 DEF SetupIsSound
      <4>4. /\ r.pc \in Holding <=> configLock' = e
            /\ r.pc = "merge" => r.config \in Configs
            /\ r.pc \in Early => r.next = 1
            /\ r.pc \notin Early => Setups!Valid(r.config)
        BY <3>2, <3>3 DEF SetupIsSound
      <4> QED
        BY <3>1, <3>4, <4>2, <4>3, <4>4 DEF SetupIsSound
    <3>6. CASE configLock = d
      <4>1. r.pc \notin Holding
        BY <2>2, <3>2, <3>6 DEF SetupIsSound
      <4>2. r.pc # "down" => KeyAt(e)' <= r.key /\ r.key <= keys.made'
        BY <1>3, <3>1, <3>2, <3>3 DEF SetupIsSound
      <4>3. r.pc = "up" => e \in DOMAIN dcs' /\ dcs'[e].key = r.key
        <5>1. e \in DOMAIN dcs => dcs'[e].key = dcs[e].key
          BY <3>3 DEF KeyAt, Setups!Stored
        <5> QED
          BY <3>2, <5>1 DEF SetupIsSound
      <4>4. /\ r.pc \in Holding <=> configLock' = e
            /\ r.pc = "merge" => r.config \in Configs
            /\ r.pc \in Early => r.next = 1
            /\ r.pc \notin Early => Setups!Valid(r.config)
            /\ r.pc # "writeOption" /\ r.pc # "writeKey"
        BY <3>2, <3>3, <4>1 DEF SetupIsSound, Holding
      <4> QED
        BY <3>1, <3>4, <4>2, <4>3, <4>4 DEF SetupIsSound, Setups!Valid
    <3> QED
      BY <3>5, <3>6
  <2> QED
    BY <2>1, <2>2
<1>5. CopierSound'
  <2>1. copier.key \in Nat
    BY <1>0 DEF SetupTypeOK
  <2> QED
    BY <1>0, <1>3, <2>1 DEF CopierSound
<1>6. Setups!CopiedIsAuthorized'
  BY DEF SetupInv, Setups!CopiedIsAuthorized
<1> QED
  BY <1>2, <1>4, <1>5, <1>6 DEF SetupInv

(* The setup of d goes on to s and writes nothing *)
LEMMA SetupQuiet ==
  ASSUME SetupInv, NEW d \in Dcs, NEW s \in SetupRecords,
         setup' = [setup EXCEPT ![d] = s],
         UNCHANGED <<dcs, given, copier, copied, keys.authorized>>,
         KeysTypeOK', keys.made <= keys.made',
         \A e \in Dcs \ {d} : configLock' = e <=> configLock = e,
         s.pc \in Holding <=> configLock' = d,
         s.pc # "down" => KeyAt(d) <= s.key /\ s.key <= keys.made',
         s.pc = "merge" => s.config \in Configs,
         s.pc \in Early => s.next = 1,
         s.pc \notin Early => Setups!Valid(s.config),
         s.pc = "writeOption" =>
            /\ s.next <= Len(s.config)
            /\ s.hold = Setups!Merged(Setups!Stored(s.config[s.next].dc), s.config[s.next]),
         s.pc = "writeKey" => s.hold = [Setups!Stored(d) EXCEPT !.key = s.key],
         s.pc = "up" => d \in DOMAIN dcs /\ dcs[d].key = s.key
  PROVE  SetupInv'
<1>0. SetupTypeOK /\ SetupsSound /\ AddressesSound /\ KeysTypeOK /\ DcsTypeOK
  BY DEF SetupInv, SetupTypeOK
<1>1. \A x : Setups!Stored(x)' = Setups!Stored(x)
  BY DEF Setups!Stored
<1>2. \A x : KeyAt(x)' = KeyAt(x)
  BY <1>1 DEF KeyAt
<1>3. SetupIsSound(d, s)'
  BY <1>1, <1>2 DEF SetupIsSound
<1>4. DcsTypeOK' /\ AddressesSound' /\ given' \in [Dcs -> [v4 : Addresses, v6 : Addresses]]
  BY <1>0 DEF DcsTypeOK, AddressesSound, Setups!AddressesKept, SetupTypeOK
<1>5. KeyAt(d) \in Nat /\ KeyAt(d) <= keys.made /\ keys.made \in Nat /\ keys.made' \in Nat
  BY <1>0, StoredType DEF SetupsSound, KeysTypeOK
<1>6. KeyAt(d) <= KeyAt(d)' /\ KeyAt(d)' <= keys.made'
  BY <1>2, <1>5
<1>7. \A e \in Dcs \ {d} : KeyAt(e)' = KeyAt(e)
  BY <1>2
<1>8. UNCHANGED <<keys.authorized, copier, copied>> /\ (UNCHANGED dcs \/ configLock = d)
      /\ DOMAIN dcs \subseteq DOMAIN dcs'
  OBVIOUS
<1> QED
  BY <1>3, <1>4, <1>6, <1>7, <1>8, SetupStep

LEMMA PcsAre == "down" \in SetupPcs /\ "handshake" \in SetupPcs /\ "init" \in SetupPcs
                /\ "merge" \in SetupPcs /\ "option" \in SetupPcs /\ "writeOption" \in SetupPcs
                /\ "merged" \in SetupPcs /\ "refuse" \in SetupPcs /\ "persist" \in SetupPcs
                /\ "writeKey" \in SetupPcs /\ "up" \in SetupPcs
  BY DEF SetupPcs

LEMMA SetupStart ==
  ASSUME SetupInv, NEW d \in Dcs, Setups!Start(d) PROVE SetupInv'
<1>0. /\ SetupTypeOK /\ SetupsSound /\ DcsTypeOK /\ KeysTypeOK
      /\ setup[d].pc = "down" /\ d \in DOMAIN dcs /\ UNCHANGED <<dcs, configLock, keys, copier, copied, given>>
  BY DEF SetupInv, SetupTypeOK, Setups!Start
<1>1. dcs[d] \in DcRecords /\ dcs[d].key \in Nat /\ KeyAt(d) = dcs[d].key /\ KeyAt(d) <= keys.made
  BY <1>0 DEF DcsTypeOK, DcRecords, KeyAt, Setups!Stored, SetupsSound
<1>2. PICK pc \in {"handshake", "init"} :
         setup' = [setup EXCEPT ![d] = [Setups!Down EXCEPT !.pc = pc, !.key = dcs[d].key, !.read = dcs[d]]]
  BY DEF Setups!Start
<1>3. pc \in SetupPcs
  BY PcsAre
<1>4. PICK s : s = [Setups!Down EXCEPT !.pc = pc, !.key = dcs[d].key, !.read = dcs[d]]
  OBVIOUS
<1>5. s \in SetupRecords /\ s.pc = pc /\ s.key = dcs[d].key /\ s.next = 1
  BY <1>1, <1>3, <1>4, BlankRecords DEF SetupRecords
<1>6. setup' = [setup EXCEPT ![d] = s]
  BY <1>2, <1>4
<1>7. configLock # d
  BY <1>0 DEF SetupsSound, SetupIsSound, Holding
<1>8. /\ s.pc \notin Holding /\ s.pc # "down" /\ s.pc # "merge" /\ s.pc \in Early
      /\ s.pc # "writeOption" /\ s.pc # "writeKey" /\ s.pc # "up"
  BY <1>5 DEF Holding, Early
<1>9. KeysTypeOK' /\ keys.made <= keys.made' /\ s.key <= keys.made' /\ KeyAt(d) <= s.key
  BY <1>0, <1>1, <1>5 DEF KeysTypeOK
<1> QED
  BY <1>0, <1>5, <1>6, <1>7, <1>8, <1>9, SetupQuiet

LEMMA SetupHandshake ==
  ASSUME SetupInv, NEW d \in Dcs, Setups!Handshake(d) PROVE SetupInv'
<1>0. /\ SetupTypeOK /\ SetupsSound /\ DcsTypeOK /\ KeysTypeOK /\ setup[d] \in SetupRecords
      /\ setup[d].pc = "handshake" /\ UNCHANGED <<dcs, configLock, copier, copied, given>>
      /\ keys' = [keys EXCEPT !.made = @ + 1, !.known = @ \cup {keys.made + 1}]
      /\ setup' = [setup EXCEPT ![d].pc = "init", ![d].key = keys.made + 1]
  BY DEF SetupInv, SetupTypeOK, Setups!Handshake
<1>1. keys.made \in Nat /\ keys.made + 1 \in Nat
  BY <1>0 DEF KeysTypeOK
<1>2. KeysTypeOK' /\ keys'.made = keys.made + 1 /\ keys'.authorized = keys.authorized
  BY <1>0, <1>1 DEF KeysTypeOK
<1>3. PICK s : s = [setup[d] EXCEPT !.pc = "init", !.key = keys.made + 1]
  OBVIOUS
<1>4. s \in SetupRecords /\ s.pc = "init" /\ s.key = keys.made + 1 /\ s.next = setup[d].next
  BY <1>0, <1>1, <1>3, PcsAre DEF SetupRecords
<1>5. setup' = [setup EXCEPT ![d] = s]
  BY <1>0, <1>3
<1>6. configLock # d /\ s.next = 1 /\ KeyAt(d) <= keys.made /\ KeyAt(d) \in Nat
  BY <1>0, <1>4, StoredType DEF SetupsSound, SetupIsSound, Holding, Early
<1>7. KeyAt(d) <= s.key /\ s.key <= keys.made' /\ keys.made <= keys.made'
  BY <1>1, <1>2, <1>4, <1>6
<1>8. /\ s.pc \notin Holding /\ s.pc # "merge" /\ s.pc \in Early
      /\ s.pc # "writeOption" /\ s.pc # "writeKey" /\ s.pc # "up"
  BY <1>4 DEF Holding, Early
<1> QED
  BY <1>0, <1>2, <1>4, <1>5, <1>6, <1>7, <1>8, SetupQuiet

LEMMA SetupInitConnection ==
  ASSUME SetupInv, NEW d \in Dcs, Setups!InitConnection(d) PROVE SetupInv'
<1>0. /\ SetupTypeOK /\ SetupsSound /\ DcsTypeOK /\ KeysTypeOK /\ setup[d] \in SetupRecords
      /\ setup[d].pc = "init" /\ UNCHANGED <<dcs, configLock, keys, copier, copied, given>>
  BY DEF SetupInv, SetupTypeOK, Setups!InitConnection
<1>1. /\ configLock # d /\ setup[d].next = 1 /\ KeyAt(d) <= setup[d].key /\ setup[d].key <= keys.made
  BY <1>0 DEF SetupsSound, SetupIsSound, Holding, Early
<1>2. KeysTypeOK' /\ keys.made <= keys.made'
  BY <1>0 DEF KeysTypeOK
<1>3. CASE \E c \in Configs : setup' = [setup EXCEPT ![d].pc = "merge", ![d].config = c]
  <2>1. PICK c \in Configs : setup' = [setup EXCEPT ![d].pc = "merge", ![d].config = c]
    BY <1>3
  <2>2. c \in Seq(Options)
    BY SetupAssumption
  <2>3. PICK s : s = [setup[d] EXCEPT !.pc = "merge", !.config = c]
    OBVIOUS
  <2>4. s \in SetupRecords /\ s.pc = "merge" /\ s.config = c /\ s.next = 1 /\ s.key = setup[d].key
    BY <1>0, <1>1, <2>2, <2>3, PcsAre DEF SetupRecords
  <2>5. setup' = [setup EXCEPT ![d] = s]
    BY <1>0, <2>1, <2>3
  <2>6. /\ s.pc \notin Holding /\ s.pc \in Early
        /\ s.pc # "writeOption" /\ s.pc # "writeKey" /\ s.pc # "up"
    BY <2>4 DEF Holding, Early
  <2> QED
    BY <1>0, <1>1, <1>2, <2>4, <2>5, <2>6, SetupQuiet
<1>4. CASE setup' = [setup EXCEPT ![d] = Setups!Down]
  BY <1>0, <1>1, <1>2, <1>4, BlankRecords, SetupQuiet DEF Holding, Early
<1>5. CASE setup' = [setup EXCEPT ![d] = [@ EXCEPT !.pc = "handshake", !.again = TRUE]]
  <2>1. PICK s : s = [setup[d] EXCEPT !.pc = "handshake", !.again = TRUE]
    OBVIOUS
  <2>2. s \in SetupRecords /\ s.pc = "handshake" /\ s.next = 1 /\ s.key = setup[d].key
    BY <1>0, <1>1, <2>1, PcsAre DEF SetupRecords
  <2>3. setup' = [setup EXCEPT ![d] = s]
    BY <1>0, <1>5, <2>1
  <2>4. /\ s.pc \notin Holding /\ s.pc \in Early /\ s.pc # "merge"
        /\ s.pc # "writeOption" /\ s.pc # "writeKey" /\ s.pc # "up"
    BY <2>2 DEF Holding, Early
  <2> QED
    BY <1>0, <1>1, <1>2, <2>2, <2>3, <2>4, SetupQuiet
<1> QED
  BY <1>3, <1>4, <1>5 DEF Setups!InitConnection

LEMMA SetupMerge ==
  ASSUME SetupInv, NEW d \in Dcs, Setups!Merge(d) PROVE SetupInv'
<1>0. /\ SetupTypeOK /\ SetupsSound /\ DcsTypeOK /\ KeysTypeOK /\ setup[d] \in SetupRecords
      /\ setup[d].pc = "merge" /\ UNCHANGED <<dcs, keys, copier, copied, given>>
      /\ configLock = Setups!Nobody /\ configLock' = d
  BY DEF SetupInv, SetupTypeOK, Setups!Merge, Setups!Lock
<1>1. /\ setup[d].next = 1 /\ KeyAt(d) <= setup[d].key /\ setup[d].key <= keys.made /\ setup[d].config \in Configs
  BY <1>0 DEF SetupsSound, SetupIsSound, Early
<1>2. KeysTypeOK' /\ keys.made <= keys.made'
  BY <1>0 DEF KeysTypeOK
<1>3. PICK c : c = Setups!Usable(setup[d].config)
  OBVIOUS
<1>4. c \in Seq(Options)
  BY <1>1, <1>3, SetupAssumption
<1>5. PICK pc : pc = IF Setups!Valid(c) THEN "option" ELSE "refuse"
  OBVIOUS
<1>6. setup' = [setup EXCEPT ![d].pc = pc, ![d].config = c]
  BY <1>3, <1>5 DEF Setups!Merge
<1>7. PICK s : s = [setup[d] EXCEPT !.pc = pc, !.config = c]
  OBVIOUS
<1>8. s \in SetupRecords /\ s.pc = pc /\ s.config = c /\ s.next = 1 /\ s.key = setup[d].key
  BY <1>0, <1>1, <1>4, <1>5, <1>7, PcsAre DEF SetupRecords
<1>9. setup' = [setup EXCEPT ![d] = s]
  BY <1>0, <1>6, <1>7
<1>10. /\ s.pc \in Holding /\ s.pc # "merge" /\ s.pc # "writeOption" /\ s.pc # "writeKey" /\ s.pc # "up"
       /\ s.pc \notin Early => Setups!Valid(s.config)
  BY <1>5, <1>8 DEF Holding, Early
<1>11. \A e \in Dcs \ {d} : configLock' = e <=> configLock = e
  BY <1>0, SetupAssumption
<1> QED
  BY <1>0, <1>1, <1>2, <1>8, <1>9, <1>10, <1>11, SetupQuiet

LEMMA SetupReadOption ==
  ASSUME SetupInv, NEW d \in Dcs, Setups!ReadOption(d) PROVE SetupInv'
<1>0. /\ SetupTypeOK /\ SetupsSound /\ DcsTypeOK /\ KeysTypeOK /\ setup[d] \in SetupRecords
      /\ setup[d].pc = "option" /\ UNCHANGED <<dcs, configLock, keys, copier, copied, given>>
  BY DEF SetupInv, SetupTypeOK, Setups!ReadOption
<1>1. /\ configLock = d /\ Setups!Valid(setup[d].config)
      /\ KeyAt(d) <= setup[d].key /\ setup[d].key <= keys.made
  BY <1>0 DEF SetupsSound, SetupIsSound, Holding, Early
<1>2. KeysTypeOK' /\ keys.made <= keys.made'
  BY <1>0 DEF KeysTypeOK
<1>3. CASE setup[d].next > Len(setup[d].config)
  <2>1. PICK s : s = [setup[d] EXCEPT !.pc = "merged"]
    OBVIOUS
  <2>2. s \in SetupRecords /\ s.pc = "merged" /\ s.config = setup[d].config /\ s.key = setup[d].key
    BY <1>0, <2>1, PcsAre DEF SetupRecords
  <2>3. setup' = [setup EXCEPT ![d] = s]
    BY <1>3, <2>1 DEF Setups!ReadOption
  <2>4. /\ s.pc \in Holding /\ s.pc \notin Early /\ s.pc # "merge"
        /\ s.pc # "writeOption" /\ s.pc # "writeKey" /\ s.pc # "up"
    BY <2>2 DEF Holding, Early
  <2> QED
    BY <1>0, <1>1, <1>2, <2>2, <2>3, <2>4, SetupQuiet
<1>4. CASE ~(setup[d].next > Len(setup[d].config))
  <2>1. PICK o : o = Setups!Option(d)
    OBVIOUS
  <2>2. setup[d].config \in Seq(Options) /\ setup[d].next \in Nat \ {0}
    BY <1>0 DEF SetupRecords
  <2>3. o = setup[d].config[setup[d].next] /\ o \in Options /\ setup[d].next <= Len(setup[d].config)
    BY <1>4, <2>1, <2>2 DEF Setups!Option
  <2>4. PICK h : h = Setups!Merged(Setups!Stored(o.dc), o)
    OBVIOUS
  <2>5. h \in DcRecords
    BY <1>0, <2>3, <2>4, StoredType, MergedType
  <2>6. PICK s : s = [setup[d] EXCEPT !.pc = "writeOption", !.hold = h]
    OBVIOUS
  <2>7. /\ s \in SetupRecords /\ s.pc = "writeOption" /\ s.hold = h /\ s.config = setup[d].config
        /\ s.key = setup[d].key /\ s.next = setup[d].next
    BY <1>0, <2>5, <2>6, PcsAre DEF SetupRecords
  <2>8. setup' = [setup EXCEPT ![d] = s]
    BY <1>4, <2>1, <2>4, <2>6 DEF Setups!ReadOption
  <2>9. s.pc \in Holding /\ s.pc \notin Early
    BY <2>7 DEF Holding, Early
  <2>10. s.next <= Len(s.config) /\ s.hold = Setups!Merged(Setups!Stored(s.config[s.next].dc), s.config[s.next])
    BY <2>3, <2>4, <2>7
  <2> QED
    BY <1>0, <1>1, <1>2, <2>7, <2>8, <2>9, <2>10, SetupQuiet
<1> QED
  BY <1>3, <1>4

LEMMA SetupUnlock ==
  ASSUME SetupInv, NEW d \in Dcs, Setups!Unlock(d) PROVE SetupInv'
<1>0. /\ SetupTypeOK /\ SetupsSound /\ DcsTypeOK /\ KeysTypeOK /\ setup[d] \in SetupRecords
      /\ setup[d].pc \in {"merged", "refuse"} /\ UNCHANGED <<dcs, keys, copier, copied, given>>
      /\ configLock' = Setups!Nobody
  BY DEF SetupInv, SetupTypeOK, Setups!Unlock
<1>1. configLock = d /\ KeyAt(d) <= setup[d].key /\ setup[d].key <= keys.made
  BY <1>0 DEF SetupsSound, SetupIsSound, Holding
<1>2. KeysTypeOK' /\ keys.made <= keys.made'
  BY <1>0 DEF KeysTypeOK
<1>3. configLock' # d /\ \A e \in Dcs \ {d} : configLock' = e <=> configLock = e
  BY <1>0, <1>1, SetupAssumption
<1>4. CASE setup[d].pc = "merged"
  <2>1. PICK s : s = [setup[d] EXCEPT !.pc = "persist"]
    OBVIOUS
  <2>2. s \in SetupRecords /\ s.pc = "persist" /\ s.config = setup[d].config /\ s.key = setup[d].key
    BY <1>0, <2>1, PcsAre DEF SetupRecords
  <2>3. setup' = [setup EXCEPT ![d] = s]
    BY <1>4, <2>1 DEF Setups!Unlock
  <2>4. /\ s.pc \notin Holding /\ s.pc \notin Early /\ s.pc # "merge"
        /\ s.pc # "writeOption" /\ s.pc # "writeKey" /\ s.pc # "up"
    BY <2>2 DEF Holding, Early
  <2>5. Setups!Valid(s.config)
    BY <1>0, <1>4, <2>2 DEF SetupsSound, SetupIsSound, Early
  <2> QED
    BY <1>0, <1>1, <1>2, <1>3, <2>2, <2>3, <2>4, <2>5, SetupQuiet
<1>5. CASE setup[d].pc = "refuse"
  <2>1. setup' = [setup EXCEPT ![d] = Setups!Down]
    BY <1>5 DEF Setups!Unlock
  <2> QED
    BY <1>0, <1>2, <1>3, <2>1, BlankRecords, SetupQuiet DEF Holding, Early
<1> QED
  BY <1>0, <1>4, <1>5

LEMMA SetupReadKept ==
  ASSUME SetupInv, NEW d \in Dcs, Setups!ReadKept(d) PROVE SetupInv'
<1>0. /\ SetupTypeOK /\ SetupsSound /\ DcsTypeOK /\ KeysTypeOK /\ setup[d] \in SetupRecords
      /\ setup[d].pc = "persist" /\ UNCHANGED <<dcs, keys, copier, copied, given>>
      /\ configLock = Setups!Nobody /\ configLock' = d
  BY DEF SetupInv, SetupTypeOK, Setups!ReadKept, Setups!Lock
<1>1. /\ KeyAt(d) <= setup[d].key /\ setup[d].key <= keys.made /\ Setups!Valid(setup[d].config)
      /\ setup[d].key \in Nat
  BY <1>0 DEF SetupsSound, SetupIsSound, Early, SetupRecords
<1>2. KeysTypeOK' /\ keys.made <= keys.made'
  BY <1>0 DEF KeysTypeOK
<1>3. PICK h : h = [Setups!Stored(d) EXCEPT !.key = setup[d].key]
  OBVIOUS
<1>4. h \in DcRecords
  BY <1>0, <1>1, <1>3, StoredType DEF DcRecords
<1>5. PICK s : s = [setup[d] EXCEPT !.pc = "writeKey", !.hold = h]
  OBVIOUS
<1>6. s \in SetupRecords /\ s.pc = "writeKey" /\ s.hold = h /\ s.config = setup[d].config /\ s.key = setup[d].key
  BY <1>0, <1>4, <1>5, PcsAre DEF SetupRecords
<1>7. setup' = [setup EXCEPT ![d] = s]
  BY <1>0, <1>3, <1>5 DEF Setups!ReadKept, Setups!Kept
<1>8. /\ s.pc \in Holding /\ s.pc \notin Early
  BY <1>6 DEF Holding, Early
<1>9. \A e \in Dcs \ {d} : configLock' = e <=> configLock = e
  BY <1>0, SetupAssumption
<1> QED
  BY <1>0, <1>1, <1>2, <1>3, <1>6, <1>7, <1>8, <1>9, SetupQuiet

(* What the write of an option under the lock leaves as it was *)
LEMMA OptionWritten ==
  ASSUME SetupInv, NEW d \in Dcs, setup[d].pc = "writeOption", Setups!OptionStored(d)
  PROVE  /\ DcsTypeOK' /\ DOMAIN dcs \subseteq DOMAIN dcs'
         /\ \A x \in Dcs : KeyAt(x)' = KeyAt(x)
         /\ given' \in [Dcs -> [v4 : Addresses, v6 : Addresses]] /\ AddressesSound'
<1>0. /\ DcsTypeOK /\ AddressesSound /\ setup[d] \in SetupRecords /\ SetupIsSound(d, setup[d])
      /\ given \in [Dcs -> [v4 : Addresses, v6 : Addresses]]
  BY DEF SetupInv, SetupTypeOK, SetupsSound
<1>1. PICK o : o = Setups!Option(d)
  OBVIOUS
<1>2. PICK h : h = setup[d].hold
  OBVIOUS
<1>3. o \in Options /\ h = Setups!Merged(Setups!Stored(o.dc), o)
  <2>1. setup[d].config \in Seq(Options) /\ setup[d].next \in Nat \ {0} /\ setup[d].next <= Len(setup[d].config)
    BY <1>0 DEF SetupRecords, SetupIsSound
  <2>2. o = setup[d].config[setup[d].next]
    BY <1>1 DEF Setups!Option
  <2> QED
    BY <1>0, <1>2, <2>1, <2>2 DEF SetupIsSound
<1>4. o.dc \in Dcs /\ o.addr \in Addresses /\ o.ipv6 \in BOOLEAN
  BY <1>3 DEF Options
<1>5. Setups!Stored(o.dc) \in DcRecords
  BY <1>0, StoredType
<1>6. /\ h \in DcRecords /\ h.key = KeyAt(o.dc)
      /\ o.ipv6 => h.v6 = o.addr /\ h.v4 = Setups!Stored(o.dc).v4
      /\ ~o.ipv6 => h.v4 = o.addr /\ (Setups!Stored(o.dc).v6 # Setups!NoAddr => h.v6 = Setups!Stored(o.dc).v6)
  BY <1>3, <1>5, MergedType DEF KeyAt
<1>7. /\ dcs' = [z \in DOMAIN dcs \cup {o.dc} |-> IF z = o.dc THEN h ELSE dcs[z]]
      /\ given' = IF o.ipv6 THEN [given EXCEPT ![o.dc].v6 = o.addr] ELSE [given EXCEPT ![o.dc].v4 = o.addr]
  BY <1>1, <1>2 DEF Setups!OptionStored, Setups!Put, Setups!Given
<1>8. /\ DOMAIN dcs' = DOMAIN dcs \cup {o.dc} /\ dcs'[o.dc] = h
      /\ \A z \in DOMAIN dcs \ {o.dc} : dcs'[z] = dcs[z]
  BY <1>7
<1>9. DcsTypeOK'
  BY <1>0, <1>4, <1>6, <1>7 DEF DcsTypeOK
<1>10. ASSUME NEW x \in Dcs PROVE KeyAt(x)' = KeyAt(x)
  <2>1. CASE x = o.dc
    BY <1>6, <1>8, <2>1 DEF KeyAt, Setups!Stored
  <2>2. CASE x # o.dc
    BY <1>8, <2>2 DEF KeyAt, Setups!Stored
  <2> QED
    BY <2>1, <2>2
<1>11. /\ given' \in [Dcs -> [v4 : Addresses, v6 : Addresses]]
       /\ \A x \in Dcs \ {o.dc} : given'[x] = given[x]
       /\ o.ipv6 => given'[o.dc].v6 = o.addr /\ given'[o.dc].v4 = given[o.dc].v4
       /\ ~o.ipv6 => given'[o.dc].v4 = o.addr /\ given'[o.dc].v6 = given[o.dc].v6
  <2>1. CASE o.ipv6
    <3>1. given' = [given EXCEPT ![o.dc] = [given[o.dc] EXCEPT !.v6 = o.addr]]
      BY <1>7, <2>1
    <3> QED
      BY <1>0, <1>4, <2>1, <3>1
  <2>2. CASE ~o.ipv6
    <3>1. given' = [given EXCEPT ![o.dc] = [given[o.dc] EXCEPT !.v4 = o.addr]]
      BY <1>7, <2>2
    <3> QED
      BY <1>0, <1>4, <2>2, <3>1
  <2> QED
    BY <1>4, <2>1, <2>2
<1>12. /\ given[o.dc].v4 # Setups!NoAddr => given[o.dc].v4 = Setups!Stored(o.dc).v4
       /\ given[o.dc].v6 # Setups!NoAddr => given[o.dc].v6 = Setups!Stored(o.dc).v6
  <2>1. CASE o.dc \in DOMAIN dcs
    BY <1>0, <2>1 DEF AddressesSound, Setups!AddressesKept, Setups!Stored
  <2>2. CASE o.dc \notin DOMAIN dcs
    BY <1>0, <1>4, <2>2 DEF AddressesSound
  <2> QED
    BY <2>1, <2>2
<1>13. AddressesSound'
  <2>1. ASSUME NEW x \in DOMAIN dcs', NEW a \in {"v4", "v6"}, given'[x][a] # Setups!NoAddr
        PROVE  dcs'[x][a] = given'[x][a]
    <3>1. CASE x # o.dc
      <4>1. x \in Dcs /\ x \in DOMAIN dcs
        BY <1>0, <1>8, <2>1, <3>1 DEF DcsTypeOK
      <4> QED
        BY <1>0, <1>8, <1>11, <2>1, <3>1, <4>1 DEF AddressesSound, Setups!AddressesKept
    <3>2. CASE x = o.dc
      <4>1. given'[o.dc].v4 # Setups!NoAddr => h.v4 = given'[o.dc].v4
        BY <1>4, <1>6, <1>11, <1>12
      <4>2. given'[o.dc].v6 # Setups!NoAddr => h.v6 = given'[o.dc].v6
        BY <1>4, <1>6, <1>11, <1>12
      <4> QED
        BY <1>8, <2>1, <3>2, <4>1, <4>2
    <3> QED
      BY <3>1, <3>2
  <2>2. Setups!AddressesKept'
    BY <2>1 DEF Setups!AddressesKept, Setups!NoAddr
  <2>3. \A x \in Dcs \ DOMAIN dcs' : given'[x] = [v4 |-> Setups!NoAddr, v6 |-> Setups!NoAddr]
    BY <1>0, <1>8, <1>11 DEF AddressesSound
  <2> QED
    BY <2>2, <2>3 DEF AddressesSound, Setups!NoAddr
<1> QED
  BY <1>8, <1>9, <1>10, <1>11, <1>13

(* What the write of a key under the lock leaves as it was *)
LEMMA KeyWritten ==
  ASSUME SetupInv, NEW d \in Dcs, setup[d].pc = "writeKey", Setups!KeyStored(d)
  PROVE  /\ DcsTypeOK' /\ DOMAIN dcs \subseteq DOMAIN dcs'
         /\ \A x \in Dcs \ {d} : KeyAt(x)' = KeyAt(x)
         /\ d \in DOMAIN dcs' /\ dcs'[d].key = setup[d].key /\ KeyAt(d)' = setup[d].key
         /\ given' \in [Dcs -> [v4 : Addresses, v6 : Addresses]] /\ AddressesSound'
<1>0. /\ DcsTypeOK /\ AddressesSound /\ setup[d] \in SetupRecords /\ SetupIsSound(d, setup[d])
      /\ given \in [Dcs -> [v4 : Addresses, v6 : Addresses]] /\ given' = given
  BY DEF SetupInv, SetupTypeOK, SetupsSound, Setups!KeyStored
<1>1. PICK h : h = setup[d].hold
  OBVIOUS
<1>2. h = [Setups!Stored(d) EXCEPT !.key = setup[d].key]
  BY <1>0, <1>1 DEF SetupIsSound
<1>3. /\ h \in DcRecords /\ h.key = setup[d].key
      /\ h.v4 = Setups!Stored(d).v4 /\ h.v6 = Setups!Stored(d).v6
  <2>1. Setups!Stored(d) \in DcRecords /\ setup[d].key \in Nat
    BY <1>0, StoredType DEF SetupRecords
  <2> QED
    BY <1>2, <2>1 DEF DcRecords
<1>4. dcs' = [z \in DOMAIN dcs \cup {d} |-> IF z = d THEN h ELSE dcs[z]]
  BY <1>1 DEF Setups!KeyStored, Setups!Put
<1>5. /\ DOMAIN dcs' = DOMAIN dcs \cup {d} /\ dcs'[d] = h
      /\ \A z \in DOMAIN dcs \ {d} : dcs'[z] = dcs[z]
  BY <1>4
<1>6. DcsTypeOK'
  BY <1>0, <1>3, <1>4 DEF DcsTypeOK
<1>7. \A x \in Dcs \ {d} : KeyAt(x)' = KeyAt(x)
  BY <1>5 DEF KeyAt, Setups!Stored
<1>8. KeyAt(d)' = setup[d].key
  BY <1>3, <1>5 DEF KeyAt, Setups!Stored
<1>9. AddressesSound'
  <2>1. ASSUME NEW x \in DOMAIN dcs', NEW a \in {"v4", "v6"}, given'[x][a] # Setups!NoAddr
        PROVE  dcs'[x][a] = given'[x][a]
    <3>1. CASE x \in DOMAIN dcs
      <4>1. given[x][a] = dcs[x][a]
        BY <1>0, <2>1, <3>1 DEF AddressesSound, Setups!AddressesKept
      <4>2. dcs'[x][a] = dcs[x][a]
        BY <1>3, <1>5, <3>1 DEF Setups!Stored
      <4> QED
        BY <1>0, <4>1, <4>2
    <3>2. CASE x = d /\ x \notin DOMAIN dcs
      BY <1>0, <2>1, <3>2 DEF AddressesSound
    <3> QED
      BY <1>5, <3>1, <3>2
  <2>2. Setups!AddressesKept'
    BY <2>1 DEF Setups!AddressesKept, Setups!NoAddr
  <2>3. \A x \in Dcs \ DOMAIN dcs' : given'[x] = [v4 |-> Setups!NoAddr, v6 |-> Setups!NoAddr]
    BY <1>0, <1>5 DEF AddressesSound
  <2> QED
    BY <2>2, <2>3 DEF AddressesSound, Setups!NoAddr
<1> QED
  BY <1>0, <1>3, <1>5, <1>6, <1>7, <1>8, <1>9

LEMMA SetupWriteOption ==
  ASSUME SetupInv, NEW d \in Dcs, Setups!WriteOption(d) PROVE SetupInv'
<1>0. /\ SetupTypeOK /\ SetupsSound /\ DcsTypeOK /\ KeysTypeOK /\ setup[d] \in SetupRecords
      /\ setup[d].pc = "writeOption" /\ UNCHANGED <<configLock, keys, copier, copied>>
      /\ Setups!OptionStored(d)
      /\ setup' = [setup EXCEPT ![d].pc = "option", ![d].next = @ + 1]
  BY DEF SetupInv, SetupTypeOK, Setups!WriteOption
<1>1. /\ configLock = d /\ Setups!Valid(setup[d].config)
      /\ KeyAt(d) <= setup[d].key /\ setup[d].key <= keys.made /\ KeyAt(d) <= keys.made
  BY <1>0 DEF SetupsSound, SetupIsSound, Holding, Early
<1>2. /\ DcsTypeOK' /\ DOMAIN dcs \subseteq DOMAIN dcs'
      /\ \A x \in Dcs : KeyAt(x)' = KeyAt(x)
      /\ given' \in [Dcs -> [v4 : Addresses, v6 : Addresses]] /\ AddressesSound'
  BY <1>0, OptionWritten
<1>3. setup[d].next + 1 \in Nat \ {0}
  BY <1>0 DEF SetupRecords
<1>4. PICK s : s = [setup[d] EXCEPT !.pc = "option", !.next = setup[d].next + 1]
  OBVIOUS
<1>5. s \in SetupRecords /\ s.pc = "option" /\ s.config = setup[d].config /\ s.key = setup[d].key
  BY <1>0, <1>3, <1>4, PcsAre DEF SetupRecords
<1>6. setup' = [setup EXCEPT ![d] = s]
  BY <1>0, <1>4
<1>7. KeysTypeOK' /\ keys.made <= keys.made' /\ UNCHANGED <<keys.authorized, copier, copied>>
      /\ KeyAt(d) \in Nat
  BY <1>0, StoredType DEF KeysTypeOK
<1>8. KeyAt(d)' <= s.key /\ s.key <= keys.made' /\ KeyAt(d) <= KeyAt(d)' /\ KeyAt(d)' <= keys.made'
  BY <1>0, <1>1, <1>2, <1>5, <1>7
<1>9. SetupIsSound(d, s)'
  <2>1. configLock' = d /\ Setups!Valid(s.config)
    BY <1>0, <1>1, <1>5
  <2> QED
    BY <1>5, <1>8, <2>1 DEF SetupIsSound, Holding, Early, Setups!Valid
<1>10. (\A e \in Dcs \ {d} : configLock' = e <=> configLock = e) /\ \A e \in Dcs \ {d} : KeyAt(e)' = KeyAt(e)
  BY <1>0, <1>2
<1> QED
  BY <1>1, <1>2, <1>5, <1>6, <1>7, <1>8, <1>9, <1>10, SetupStep

LEMMA SetupPersistKey ==
  ASSUME SetupInv, NEW d \in Dcs, Setups!PersistKey(d) PROVE SetupInv'
<1>0. /\ SetupTypeOK /\ SetupsSound /\ DcsTypeOK /\ KeysTypeOK /\ setup[d] \in SetupRecords
      /\ setup[d].pc = "writeKey" /\ UNCHANGED <<keys, copier, copied>> /\ configLock' = Setups!Nobody
      /\ Setups!KeyStored(d)
      /\ setup' = [setup EXCEPT ![d].pc = "up"]
  BY DEF SetupInv, SetupTypeOK, Setups!PersistKey, Setups!At
<1>1. /\ configLock = d /\ Setups!Valid(setup[d].config)
      /\ KeyAt(d) <= setup[d].key /\ setup[d].key <= keys.made /\ setup[d].key \in Nat
  BY <1>0 DEF SetupsSound, SetupIsSound, Holding, Early, SetupRecords
<1>2. /\ DcsTypeOK' /\ DOMAIN dcs \subseteq DOMAIN dcs'
      /\ \A x \in Dcs \ {d} : KeyAt(x)' = KeyAt(x)
      /\ d \in DOMAIN dcs' /\ dcs'[d].key = setup[d].key /\ KeyAt(d)' = setup[d].key
      /\ given' \in [Dcs -> [v4 : Addresses, v6 : Addresses]] /\ AddressesSound'
  BY <1>0, KeyWritten
<1>3. PICK s : s = [setup[d] EXCEPT !.pc = "up"]
  OBVIOUS
<1>4. s \in SetupRecords /\ s.pc = "up" /\ s.config = setup[d].config /\ s.key = setup[d].key
  BY <1>0, <1>3, PcsAre DEF SetupRecords
<1>5. setup' = [setup EXCEPT ![d] = s]
  BY <1>0, <1>3
<1>6. KeysTypeOK' /\ keys.made <= keys.made' /\ UNCHANGED <<keys.authorized, copier, copied>>
  BY <1>0 DEF KeysTypeOK
<1>7. KeyAt(d)' <= s.key /\ s.key <= keys.made' /\ KeyAt(d) <= KeyAt(d)' /\ KeyAt(d)' <= keys.made'
  BY <1>0, <1>1, <1>2, <1>4
<1>8. configLock' # d /\ \A e \in Dcs \ {d} : configLock' = e <=> configLock = e
  BY <1>0, <1>1, SetupAssumption
<1>9. SetupIsSound(d, s)'
  <2>1. Setups!Valid(s.config) /\ d \in DOMAIN dcs' /\ dcs'[d].key = s.key
    BY <1>1, <1>2, <1>4
  <2> QED
    BY <1>4, <1>7, <1>8, <2>1 DEF SetupIsSound, Holding, Early, Setups!Valid
<1> QED
  BY <1>1, <1>2, <1>4, <1>5, <1>6, <1>7, <1>8, <1>9, SetupStep

LEMMA SetupStop ==
  ASSUME SetupInv, NEW d \in Dcs, Setups!Stop(d) PROVE SetupInv'
<1>0. /\ SetupTypeOK /\ SetupsSound /\ DcsTypeOK /\ KeysTypeOK
      /\ UNCHANGED <<keys, copier, copied>> /\ setup' = [setup EXCEPT ![d] = Setups!Down]
      /\ configLock' = IF configLock = d THEN Setups!Nobody ELSE configLock
  BY DEF SetupInv, SetupTypeOK, Setups!Stop, Setups!Released
<1>1. configLock' # d /\ \A e \in Dcs \ {d} : configLock' = e <=> configLock = e
  BY <1>0, SetupAssumption
<1>2. KeysTypeOK' /\ keys.made <= keys.made' /\ UNCHANGED <<keys.authorized, copier, copied>>
      /\ keys.made \in Nat /\ KeyAt(d) \in Nat /\ KeyAt(d) <= keys.made
  BY <1>0, StoredType DEF KeysTypeOK, SetupsSound
<1>3. PICK s : s = Setups!Down
  OBVIOUS
<1>4. s \in SetupRecords /\ s.pc = "down" /\ s.next = 1 /\ setup' = [setup EXCEPT ![d] = s]
  BY <1>0, <1>3, BlankRecords
<1>5. SetupIsSound(d, s)'
  BY <1>1, <1>4 DEF SetupIsSound, Holding, Early
<1>6. CASE UNCHANGED <<dcs, given>>
  <2>1. s.pc \notin Holding /\ s.pc \in Early
    BY <1>4 DEF Holding, Early
  <2> QED
    BY <1>1, <1>2, <1>4, <1>6, <2>1, SetupQuiet
<1>7. CASE setup[d].pc = "writeOption" /\ Setups!OptionStored(d)
  <2>1. /\ DcsTypeOK' /\ DOMAIN dcs \subseteq DOMAIN dcs'
        /\ \A x \in Dcs : KeyAt(x)' = KeyAt(x)
        /\ given' \in [Dcs -> [v4 : Addresses, v6 : Addresses]] /\ AddressesSound'
    BY <1>7, OptionWritten
  <2>2. configLock = d
    BY <1>0, <1>7 DEF SetupsSound, SetupIsSound, Holding
  <2>3. KeyAt(d) <= KeyAt(d)' /\ KeyAt(d)' <= keys.made'
    BY <1>0, <1>2, <2>1
  <2> QED
    BY <1>1, <1>2, <1>4, <1>5, <2>1, <2>2, <2>3, SetupStep
<1>8. CASE setup[d].pc = "writeKey" /\ Setups!KeyStored(d)
  <2>1. /\ DcsTypeOK' /\ DOMAIN dcs \subseteq DOMAIN dcs'
        /\ \A x \in Dcs \ {d} : KeyAt(x)' = KeyAt(x) 
        /\ KeyAt(d)' = setup[d].key
        /\ given' \in [Dcs -> [v4 : Addresses, v6 : Addresses]] /\ AddressesSound'
    BY <1>8, KeyWritten
  <2>2. configLock = d /\ KeyAt(d) <= setup[d].key /\ setup[d].key <= keys.made
    BY <1>0, <1>8 DEF SetupsSound, SetupIsSound, Holding
  <2>3. KeyAt(d) <= KeyAt(d)' /\ KeyAt(d)' <= keys.made'
    BY <1>0, <1>2, <2>1, <2>2
  <2> QED
    BY <1>1, <1>2, <1>4, <1>5, <2>1, <2>2, <2>3, SetupStep
<1> QED
  BY <1>6, <1>7, <1>8 DEF Setups!Stop

LEMMA SetupForgetKey ==
  ASSUME SetupInv, NEW k, Setups!ForgetKey(k) PROVE SetupInv'
<1>0. /\ SetupTypeOK /\ SetupsSound /\ DcsTypeOK /\ KeysTypeOK /\ setup \in [Dcs -> SetupRecords]
      /\ UNCHANGED <<dcs, configLock, copier, copied, given>>
      /\ keys' = [keys EXCEPT !.known = @ \ {k}]
      /\ setup' = [d \in Dcs |-> IF setup[d].pc = "up" /\ setup[d].key = k THEN Setups!Down ELSE setup[d]]
  BY DEF SetupInv, SetupTypeOK, Setups!ForgetKey
<1>1. KeysTypeOK' /\ keys'.made = keys.made /\ keys'.authorized = keys.authorized
  BY <1>0 DEF KeysTypeOK
<1>2. \A x : Setups!Stored(x)' = Setups!Stored(x)
  BY <1>0 DEF Setups!Stored
<1>3. \A x : KeyAt(x)' = KeyAt(x)
  BY <1>2 DEF KeyAt
<1>4. SetupTypeOK'
  <2>1. setup' \in [Dcs -> SetupRecords]
    BY <1>0, BlankRecords
  <2> QED
    BY <1>0, <1>1, <2>1 DEF SetupTypeOK, DcsTypeOK
<1>5. SetupsSound'
  <2> SUFFICES ASSUME NEW d \in Dcs PROVE SetupIsSound(d, setup[d])' /\ KeyAt(d)' <= keys.made'
    BY DEF SetupsSound
  <2>1. SetupIsSound(d, setup[d]) /\ KeyAt(d) <= keys.made
    BY <1>0 DEF SetupsSound
  <2>2. CASE setup'[d] = setup[d]
    <3>1. PICK r : r = setup[d]
      OBVIOUS
    <3>2. SetupIsSound(d, r)
      BY <2>1, <3>1
    <3>3. SetupIsSound(d, r)'
      BY <1>0, <1>1, <1>2, <1>3, <3>2 DEF SetupIsSound
    <3> QED
      BY <1>1, <1>3, <2>1, <2>2, <3>1, <3>3
  <2>3. CASE setup[d].pc = "up" /\ setup'[d] = Setups!Down
    <3>1. configLock # d
      BY <2>1, <2>3 DEF SetupIsSound, Holding
    <3>2. setup'[d].pc = "down" /\ setup'[d].next = 1
      BY <2>3, BlankRecords
    <3> QED
      BY <1>0, <1>1, <1>3, <2>1, <3>1, <3>2 DEF SetupIsSound, Holding, Early
  <2> QED
    BY <1>0, <2>2, <2>3
<1>6. AddressesSound' /\ CopierSound' /\ Setups!CopiedIsAuthorized'
  BY <1>0, <1>1, <1>3 DEF SetupInv, AddressesSound, Setups!AddressesKept, CopierSound,
                          Setups!CopiedIsAuthorized
<1> QED
  BY <1>4, <1>5, <1>6 DEF SetupInv

(* The copier goes on, and the setups do not notice *)
LEMMA CopierStep ==
  ASSUME SetupInv, UNCHANGED <<dcs, setup, configLock, given, keys.made>>, KeysTypeOK',
         keys.authorized \subseteq keys.authorized',
         copier' \in [pc : {"idle", "nearest", "export", "import", "record"}, key : Nat],
         copier'.key <= KeyAt(TargetDc),
         copier'.pc = "record" =>
            copier'.key = 0 \/ copier'.key \in keys.authorized' \/ copier'.key < KeyAt(TargetDc),
         \A c \in copied' : c \in copied \/ c.key \in keys.authorized'
  PROVE  SetupInv'
<1>0. SetupTypeOK /\ SetupsSound /\ AddressesSound
  BY DEF SetupInv
<1>2. \A x : Setups!Stored(x)' = Setups!Stored(x)
  BY DEF Setups!Stored
<1>3. \A x : KeyAt(x)' = KeyAt(x)
  BY <1>2 DEF KeyAt
<1>4. SetupTypeOK' /\ AddressesSound'
  BY <1>0 DEF SetupTypeOK, DcsTypeOK, AddressesSound, Setups!AddressesKept
<1>5. SetupsSound'
  <2> SUFFICES ASSUME NEW d \in Dcs PROVE SetupIsSound(d, setup[d])' /\ KeyAt(d)' <= keys.made'
    BY DEF SetupsSound
  <2>1. PICK r : r = setup[d]
    OBVIOUS
  <2>2. SetupIsSound(d, r) /\ KeyAt(d) <= keys.made
    BY <1>0, <2>1 DEF SetupsSound
  <2>3. SetupIsSound(d, r)'
    BY <1>2, <1>3, <2>2 DEF SetupIsSound
  <2> QED
    BY <1>3, <2>1, <2>2, <2>3
<1>6. CopierSound'
  BY <1>3 DEF CopierSound
<1>7. Setups!CopiedIsAuthorized'
  BY DEF SetupInv, Setups!CopiedIsAuthorized
<1> QED
  BY <1>4, <1>5, <1>6, <1>7 DEF SetupInv

LEMMA CopierBasics ==
  ASSUME SetupInv
  PROVE  /\ KeysTypeOK /\ KeyAt(TargetDc) \in Nat /\ Setups!TargetKey = KeyAt(TargetDc)
         /\ copier \in [pc : {"idle", "nearest", "export", "import", "record"}, key : Nat]
         /\ copier.key <= KeyAt(TargetDc)
  BY StoredType, TargetKeyIs DEF SetupInv, SetupTypeOK, CopierSound

LEMMA SetupLooks ==
  ASSUME SetupInv, UNCHANGED <<dcs, setup, configLock, given, keys>>,
         Setups!Looks(Setups!TargetKey)
  PROVE  SetupInv'
<1>1. /\ \/ copier' = [pc |-> "idle", key |-> 0]
         \/ copier' = [pc |-> "export", key |-> KeyAt(TargetDc)]
      /\ copied' \subseteq copied
  BY CopierBasics DEF Setups!Looks, Setups!NoKey
<1>2. /\ copier' \in [pc : {"idle", "nearest", "export", "import", "record"}, key : Nat]
      /\ copier'.key <= KeyAt(TargetDc) /\ copier'.pc # "record"
  BY <1>1, CopierBasics
<1>3. KeysTypeOK' /\ keys'.made = keys.made /\ keys'.authorized = keys.authorized
  BY CopierBasics DEF KeysTypeOK
<1> QED
  BY <1>1, <1>2, <1>3, CopierStep

LEMMA SetupCopyAuth == ASSUME SetupInv, Setups!CopyAuth PROVE SetupInv'
<1>0. UNCHANGED <<dcs, setup, configLock, given, keys>>
  BY DEF Setups!CopyAuth
<1>1. CASE Setups!Looks(Setups!TargetKey)
  BY <1>0, <1>1, SetupLooks
<1>2. CASE copied' = {} /\ Setups!Goes("nearest")
  <2>1. copier' = [copier EXCEPT !.pc = "nearest"]
    BY <1>2 DEF Setups!Goes
  <2>2. /\ copier' \in [pc : {"idle", "nearest", "export", "import", "record"}, key : Nat]
        /\ copier'.key <= KeyAt(TargetDc) /\ copier'.pc # "record"
    BY <2>1, CopierBasics
  <2>3. KeysTypeOK' /\ keys'.made = keys.made /\ keys'.authorized = keys.authorized
    BY <1>0, CopierBasics DEF KeysTypeOK
  <2> QED
    BY <1>0, <1>2, <2>2, <2>3, CopierStep
<1> QED
  BY <1>1, <1>2 DEF Setups!CopyAuth

LEMMA SetupExportAuth == ASSUME SetupInv, Setups!ExportAuth PROVE SetupInv'
<1>0. UNCHANGED <<dcs, setup, configLock, given, keys, copied>> /\ copier' = [copier EXCEPT !.pc = "import"]
  BY DEF Setups!ExportAuth, Setups!Goes
<1>1. /\ copier' \in [pc : {"idle", "nearest", "export", "import", "record"}, key : Nat]
      /\ copier'.key <= KeyAt(TargetDc) /\ copier'.pc # "record"
  BY <1>0, CopierBasics
<1>2. KeysTypeOK' /\ keys'.made = keys.made /\ keys'.authorized = keys.authorized
  BY <1>0, CopierBasics DEF KeysTypeOK
<1> QED
  BY <1>0, <1>1, <1>2, CopierStep

(* The connection that the import runs on has the stored key, so that the copier's key is
   the one that is authorized or an older one *)
LEMMA SetupImportAuth == ASSUME SetupInv, Setups!ImportAuth PROVE SetupInv'
<1>0. /\ UNCHANGED <<dcs, setup, configLock, given, copied>> /\ copier' = [copier EXCEPT !.pc = "record"]
      /\ keys' = [keys EXCEPT !.authorized = @ \cup {setup[TargetDc].key}] /\ setup[TargetDc].pc = "up"
  BY DEF Setups!ImportAuth, Setups!Goes
<1>1. setup[TargetDc].key = KeyAt(TargetDc)
  BY <1>0, SetupAssumption DEF SetupInv, SetupsSound, SetupIsSound, KeyAt, Setups!Stored
<1>2. /\ KeysTypeOK' /\ keys'.made = keys.made /\ keys'.authorized = keys.authorized \cup {KeyAt(TargetDc)}
  BY <1>0, <1>1, CopierBasics DEF KeysTypeOK
<1>3. /\ copier' \in [pc : {"idle", "nearest", "export", "import", "record"}, key : Nat]
      /\ copier'.key = copier.key
  BY <1>0, CopierBasics
<1>4. copier'.key \in keys.authorized' \/ copier'.key < KeyAt(TargetDc)
  BY <1>2, <1>3, CopierBasics
<1>5. keys.authorized \subseteq keys.authorized' /\ copier'.key <= KeyAt(TargetDc)
      /\ UNCHANGED <<dcs, setup, configLock, given, keys.made>>
      /\ \A c \in copied' : c \in copied \/ c.key \in keys.authorized'
  BY <1>0, <1>2, <1>3, CopierBasics
<1> QED
  BY <1>2, <1>3, <1>4, <1>5, CopierStep

LEMMA SetupRecordCopy == ASSUME SetupInv, Setups!RecordCopy PROVE SetupInv'
<1>0. /\ UNCHANGED <<dcs, setup, configLock, given, keys>> /\ copier' = [pc |-> "idle", key |-> 0]
      /\ copier.pc = "record"
      /\ copied' = IF Setups!Records THEN copied \cup {[dc |-> TargetDc, key |-> Setups!TargetKey]} ELSE copied
  BY DEF Setups!RecordCopy, Setups!NoKey
<1>1. /\ copier' \in [pc : {"idle", "nearest", "export", "import", "record"}, key : Nat]
      /\ copier'.key <= KeyAt(TargetDc) /\ copier'.pc # "record"
  BY <1>0, CopierBasics
<1>2. KeysTypeOK' /\ keys'.made = keys.made /\ keys'.authorized = keys.authorized
  BY <1>0, CopierBasics DEF KeysTypeOK
<1>3. Setups!Records => Setups!TargetKey \in keys.authorized
  BY <1>0, CopierBasics DEF SetupInv, CopierSound, Setups!Records, Setups!NoKey
<1>4. \A c \in copied' : c \in copied \/ c.key \in keys.authorized'
  BY <1>0, <1>2, <1>3
<1> QED
  BY <1>0, <1>1, <1>2, <1>4, CopierStep

LEMMA SetupCopyFails == ASSUME SetupInv, Setups!CopyFails PROVE SetupInv'
<1>0. UNCHANGED <<dcs, setup, configLock, given, keys, copied>> /\ copier' = [pc |-> "idle", key |-> 0]
  BY DEF Setups!CopyFails, Setups!NoKey
<1>1. /\ copier' \in [pc : {"idle", "nearest", "export", "import", "record"}, key : Nat]
      /\ copier'.key <= KeyAt(TargetDc) /\ copier'.pc # "record"
  BY <1>0, CopierBasics
<1>2. KeysTypeOK' /\ keys'.made = keys.made /\ keys'.authorized = keys.authorized
  BY <1>0, CopierBasics DEF KeysTypeOK
<1> QED
  BY <1>0, <1>1, <1>2, CopierStep

LEMMA SetupNext ==
  ASSUME SetupInv, [Setups!Next]_(Setups!setupVars) PROVE SetupInv'
<1>1. CASE UNCHANGED Setups!setupVars
  <2>1. UNCHANGED <<dcs, setup, configLock, keys, copier, copied, given>>
    BY <1>1 DEF Setups!setupVars
  <2>2. KeysTypeOK' /\ keys'.made = keys.made /\ keys'.authorized = keys.authorized
    BY <2>1, CopierBasics DEF KeysTypeOK
  <2>3. /\ copier' = copier /\ copier.key <= KeyAt(TargetDc)
        /\ copier.pc = "record" =>
             copier.key = 0 \/ copier.key \in keys.authorized \/ copier.key < KeyAt(TargetDc)
    BY <2>1 DEF SetupInv, CopierSound
  <2>4. copier' \in [pc : {"idle", "nearest", "export", "import", "record"}, key : Nat]
    BY <2>3, CopierBasics
  <2> QED
    BY <2>1, <2>2, <2>3, <2>4, CopierStep
<1>2. ASSUME NEW d \in Dcs, Setups!Start(d) \/ Setups!SetUp(d) \/ Setups!Stop(d) PROVE SetupInv'
  BY <1>2, SetupStart, SetupHandshake, SetupInitConnection, SetupMerge, SetupReadOption, SetupWriteOption,
     SetupUnlock, SetupReadKept, SetupPersistKey, SetupStop DEF Setups!SetUp
<1>3. CASE Setups!CopyAuth \/ Setups!Copy \/ Setups!CopyFails
  <2>1. CASE Setups!NearestDc
    BY <2>1, SetupLooks DEF Setups!NearestDc
  <2> QED
    BY <1>3, <2>1, SetupCopyAuth, SetupExportAuth, SetupImportAuth, SetupRecordCopy, SetupCopyFails
       DEF Setups!Copy
<1>4. ASSUME NEW k, Setups!ForgetKey(k) PROVE SetupInv'
  BY <1>4, SetupForgetKey
<1> QED
  BY <1>1, <1>2, <1>3, <1>4 DEF Setups!Next

(* The invariant of the setups, for any datacenters, configurations and faults *)
THEOREM SetupInvariance == Setups!Spec => []SetupInv
<1>1. Setups!Init => SetupInv
  BY SetupInit
<1>2. SetupInv /\ [Setups!Next]_(Setups!setupVars) => SetupInv'
  BY SetupNext
<1> QED
  BY <1>1, <1>2, PTL DEF Setups!Spec

LEMMA SetupImplies ==
  ASSUME SetupInv
  PROVE  /\ Setups!KeyKept /\ Setups!AddressesKept
         /\ Setups!InvalidConfigIgnored /\ Setups!CopiedIsAuthorized
<1>1. Setups!KeyKept
  BY DEF SetupInv, SetupsSound, SetupIsSound, Setups!KeyKept
<1>2. Setups!AddressesKept /\ Setups!CopiedIsAuthorized
  BY DEF SetupInv, AddressesSound
<1>3. Setups!InvalidConfigIgnored
  <2> SUFFICES ASSUME NEW d \in Dcs, setup[d].next > 1 PROVE Setups!Valid(setup[d].config)
    BY DEF Setups!InvalidConfigIgnored, Setups!Valid
  <2>1. SetupIsSound(d, setup[d])
    BY DEF SetupInv, SetupsSound
  <2> QED
    BY <2>1 DEF SetupIsSound
<1> QED
  BY <1>1, <1>2, <1>3

(* The key of a connection that is up is the stored one, whatever configurations were merged
   and keys stored meanwhile; update_dc_options and persist_connection_key never bring back
   older addresses; nothing of a configuration with an invalid address is applied; and
   copy_auth_to_dc takes a key for authorized only if an import authorized that very key *)
THEOREM SetupCorrect ==
  Setups!Spec => [](/\ Setups!KeyKept /\ Setups!AddressesKept
                    /\ Setups!InvalidConfigIgnored /\ Setups!CopiedIsAuthorized)
<1>1. SetupInv => /\ Setups!KeyKept /\ Setups!AddressesKept
                  /\ Setups!InvalidConfigIgnored /\ Setups!CopiedIsAuthorized
  BY SetupImplies
<1> QED
  BY <1>1, SetupInvariance, PTL

-----------------------------------------------------------------------------
(* UpdatesReceiver *)

UpdateEvents == [seq : Updates!Seqs \cup {"none", "closed"}, n : Int]
Batches == Seq(UpdateEvents) \ {<<>>}
ReceiverSteps == {"idle", "cache", "top", "self", "plan", "state", "save", "live", "choose", "kind", "peer",
                  "diff", "channelDiff", "wait"}
Receivers ==
    [pc : ReceiverSteps, auth : {"unknown", "inferred", "confirmed", "rejected"}, should : BOOLEAN,
     preferChannel : BOOLEAN, preferLive : BOOLEAN, kind : {"unknown", "user", "bot"}, checkDue : BOOLEAN,
     paused : BOOLEAN, unreadable : [Updates!Seqs -> Nat], buffer : Seq(Batches), reply : Int,
     wait : {"none", "check", "pause", "deadline"}]
Entries == [pos : Int, pending : BOOLEAN, deferred : BOOLEAN, due : BOOLEAN, deferrals : Nat]
Boxes == [Updates!Seqs -> Entries]
Streams == [buffer : Seq(UpdateEvents), cache : BOOLEAN]
Channels == [queue : Seq(UpdateEvents), batch : Seq(UpdateEvents), stalled : BOOLEAN, news : BOOLEAN]
Telegrams == [last : [Updates!Seqs -> Nat], loggedIn : BOOLEAN, bot : BOOLEAN,
              events : [Updates!Seqs -> Nat], noise : BOOLEAN]
Sessions == [saved : [Updates!Seqs -> Int], self : BOOLEAN, hash : BOOLEAN]
Histories == [inHand : SUBSET UpdateEvents, streak : [Updates!Seqs -> Nat], hasty : BOOLEAN, refused : BOOLEAN]
UpdatesTypes ==
    /\ rcv \in Receivers /\ box \in Boxes /\ stream \in Streams /\ chan \in Channels
    /\ telegram \in Telegrams /\ session \in Sessions /\ seen \in Histories

(* An event is in the buffer of the stream or in a batch of the receiver's *)
InSeq(e, s) == \E i \in DOMAIN s : s[i] = e
Held(e, given_, batches) == InSeq(e, given_) \/ \E i \in DOMAIN batches : InSeq(e, batches[i])
AllHeld(S, given_, batches) == \A e \in S : Held(e, given_, batches)
NothingLost == AllHeld(seen.inHand, stream.buffer, rcv.buffer)

(* next() returns what is buffered before it awaits anything else *)
EmptyWhileAwaiting(r, st) ==
    /\ r.pc \notin {"idle", "cache"} => st.buffer = <<>>
    /\ r.pc \notin {"idle", "cache", "top"} => r.buffer = <<>>
    /\ r.pc = "cache" \/ st.cache => st.buffer # <<>>

(* The counter of unreadable replies is their number in a row *)
CountersRight(r, h) == r.unreadable = h.streak /\ ~h.hasty

(* Without a stored user, a refusal stops recovery *)
StaysQuiet(r, h, ss) ==
    h.refused /\ ~ss.self =>
        /\ r.auth = "rejected" /\ ~r.should
        /\ r.pc \notin {"state", "save", "kind", "peer", "diff", "channelDiff"}

UpdatesInv ==
    /\ UpdatesTypes /\ NothingLost
    /\ EmptyWhileAwaiting(rcv, stream) /\ CountersRight(rcv, seen) /\ StaysQuiet(rcv, seen, session)

LEMMA HeldStays ==
    ASSUME NEW e, NEW s, NEW b \in Seq(Batches), NEW x, Held(e, s, b)
    PROVE  Held(e, s, Append(b, x))
<1>1. DOMAIN b \subseteq DOMAIN Append(b, x) /\ \A i \in DOMAIN b : Append(b, x)[i] = b[i]
  OBVIOUS
<1> QED BY <1>1 DEF Held
LEMMA HeldInNew ==
    ASSUME NEW e, NEW s, NEW b \in Seq(Batches), NEW x, InSeq(e, x)
    PROVE  Held(e, s, Append(b, x))
<1>1. Len(b) + 1 \in DOMAIN Append(b, x) /\ Append(b, x)[Len(b) + 1] = x
  OBVIOUS
<1> QED BY <1>1 DEF Held
(* next() hands its first batch to the stream *)
LEMMA HeldMoves ==
    ASSUME NEW e, NEW s \in Seq(UpdateEvents), NEW b \in Seq(Batches), b # <<>>, Held(e, s, b)
    PROVE  Held(e, s \o Head(b), Tail(b))
<1>1. Head(b) \in Seq(UpdateEvents) /\ Head(b) = b[1]
  BY DEF Batches
<1>2. PICK h \in Seq(UpdateEvents) : h = Head(b)
  BY <1>1, Zenon
<1>3. CASE InSeq(e, s)
  <2>1. PICK i \in DOMAIN s : s[i] = e
    BY <1>3 DEF InSeq
  <2>2. i \in DOMAIN (s \o h) /\ (s \o h)[i] = s[i]
    BY <2>1
  <2> QED BY <1>2, <2>1, <2>2 DEF Held, InSeq
<1>4. CASE \E i \in DOMAIN b : InSeq(e, b[i])
  <2>1. PICK i \in DOMAIN b : InSeq(e, b[i])
    BY <1>4
  <2>2. CASE i = 1
    <3>1. PICK j \in DOMAIN h : h[j] = e
      BY <1>1, <1>2, <2>1, <2>2 DEF InSeq
    <3>2. Len(s) + j \in DOMAIN (s \o h) /\ (s \o h)[Len(s) + j] = h[j]
      BY <3>1
    <3> QED BY <1>2, <3>1, <3>2 DEF Held, InSeq
  <2>3. CASE i # 1
    <3>1. i - 1 \in DOMAIN Tail(b) /\ Tail(b)[i - 1] = b[i]
      BY <2>1, <2>3
    <3> QED BY <2>1, <3>1 DEF Held
  <2> QED BY <2>2, <2>3
<1> QED BY <1>3, <1>4 DEF Held
LEMMA HeldAfterFirst ==
    ASSUME NEW e, NEW s \in Seq(UpdateEvents), NEW b, s # <<>>, e # Head(s), Held(e, s, b)
    PROVE  Held(e, Tail(s), b)
<1>1. CASE InSeq(e, s)
  <2>1. PICK i \in DOMAIN s : s[i] = e
    BY <1>1 DEF InSeq
  <2>2. i # 1
    BY <2>1
  <2>3. i - 1 \in DOMAIN Tail(s) /\ Tail(s)[i - 1] = s[i]
    BY <2>1, <2>2
  <2> QED BY <2>1, <2>3 DEF Held, InSeq
<1> QED BY <1>1 DEF Held

LEMMA NoticeIs == Updates!ConnectionClosed \in UpdateEvents /\ Updates!Noise \in UpdateEvents
BY DEF Updates!ConnectionClosed, Updates!Noise, UpdateEvents
LEMMA UnknownIs == Updates!Unknown \in Entries
BY DEF Updates!Unknown, Updates!None, Entries
LEMMA AtIs == ASSUME NEW n \in Int PROVE Updates!At(n) \in Entries
BY UnknownIs DEF Updates!At, Entries
LEMMA SingleBatch == ASSUME NEW u \in UpdateEvents PROVE <<u>> \in Batches /\ InSeq(u, <<u>>)
<1>1. <<u>> \in Seq(UpdateEvents) /\ <<u>> # <<>> /\ 1 \in DOMAIN <<u>> /\ <<u>>[1] = u
  OBVIOUS
<1> QED BY <1>1 DEF Batches, InSeq

(* What an update changes of the receiver, the box and the history *)
Login(r, p) ==
    /\ p.pc = r.pc /\ p.should = r.should /\ p.unreadable = r.unreadable
    /\ p.auth = r.auth \/ r.auth = "unknown"
LEMMA ReceiverProcesses ==
    ASSUME NEW r \in Receivers, NEW b \in Boxes, NEW u \in UpdateEvents, NEW s, seen \in Histories,
           AllHeld(seen.inHand, s, r.buffer)
    PROVE  /\ Updates!Processed(r, b, u) \in Receivers /\ Login(r, Updates!Processed(r, b, u))
           /\ Updates!Record(b, u) \in Histories
           /\ Updates!Record(b, u).streak = seen.streak /\ Updates!Record(b, u).hasty = seen.hasty
           /\ Updates!Record(b, u).refused = seen.refused
           /\ AllHeld(Updates!Record(b, u).inHand, s, Updates!Processed(r, b, u).buffer)
           /\ AllHeld(seen.inHand, s, Updates!Processed(r, b, u).buffer)
<1>1. PICK auth \in {"unknown", "inferred", "confirmed", "rejected"} :
        auth = Updates!Inferred(r.auth, u) /\ (auth = r.auth \/ r.auth = "unknown")
  BY DEF Updates!Inferred, Receivers
<1>2. PICK q \in Seq(Batches) :
        /\ q = IF u = Updates!Noise \/ Updates!Applies(b, u) THEN Append(r.buffer, <<u>>) ELSE r.buffer
        /\ AllHeld(seen.inHand, s, q) /\ (Updates!Applies(b, u) => Held(u, s, q))
  <2>1. r.buffer \in Seq(Batches)
    BY DEF Receivers
  <2>2. PICK x \in Batches : x = <<u>> /\ InSeq(u, x)
    BY SingleBatch, Zenon
  <2>3. Append(r.buffer, x) \in Seq(Batches)
    BY <2>1
  <2>4. AllHeld(seen.inHand, s, Append(r.buffer, x)) /\ Held(u, s, Append(r.buffer, x))
    BY <2>1, <2>2, HeldStays, HeldInNew DEF AllHeld
  <2>5. CASE u = Updates!Noise \/ Updates!Applies(b, u)
    BY <2>2, <2>3, <2>4, <2>5, Zenon
  <2>6. CASE ~(u = Updates!Noise \/ Updates!Applies(b, u))
    BY <2>1, <2>6, Zenon
  <2> QED BY <2>5, <2>6
<1>3. Updates!Processed(r, b, u) = [r EXCEPT !.preferLive = FALSE, !.auth = auth, !.buffer = q]
  BY <1>1, <1>2 DEF Updates!Processed, Receivers
<1>4. /\ [r EXCEPT !.preferLive = FALSE, !.auth = auth, !.buffer = q] \in Receivers
      /\ Login(r, [r EXCEPT !.preferLive = FALSE, !.auth = auth, !.buffer = q])
      /\ [r EXCEPT !.preferLive = FALSE, !.auth = auth, !.buffer = q].buffer = q
  BY <1>1 DEF Receivers, Login
<1>5. Updates!Record(b, u) = IF Updates!Applies(b, u) THEN [seen EXCEPT !.inHand = @ \cup {u}] ELSE seen
  BY DEF Updates!Record
<1>6. /\ [seen EXCEPT !.inHand = @ \cup {u}] \in Histories
      /\ [seen EXCEPT !.inHand = @ \cup {u}].streak = seen.streak
      /\ [seen EXCEPT !.inHand = @ \cup {u}].hasty = seen.hasty
      /\ [seen EXCEPT !.inHand = @ \cup {u}].refused = seen.refused
      /\ [seen EXCEPT !.inHand = @ \cup {u}].inHand = seen.inHand \cup {u}
  BY DEF Histories
<1>7. Updates!Applies(b, u) => AllHeld(seen.inHand \cup {u}, s, q)
  BY <1>2 DEF AllHeld
<1>8. CASE Updates!Applies(b, u)
  BY <1>2, <1>3, <1>4, <1>5, <1>6, <1>7, <1>8, Zenon
<1>9. CASE ~Updates!Applies(b, u)
  BY <1>2, <1>3, <1>4, <1>5, <1>9, Zenon
<1> QED BY <1>8, <1>9
LEMMA BoxAfterUpdate ==
    ASSUME NEW b \in Boxes, NEW u \in UpdateEvents
    PROVE  Updates!AfterUpdate(b, u) \in Boxes
<1>1. ASSUME NEW s \in Updates!Seqs PROVE [b EXCEPT ![s].pending = TRUE] \in Boxes
  BY DEF Boxes, Entries
<1>2. ASSUME NEW s \in Updates!Seqs, NEW n \in Int PROVE [b EXCEPT ![s].pos = n] \in Boxes
  BY DEF Boxes, Entries
<1>3. "account" \in Updates!Seqs
  BY DEF Updates!Seqs
<1>4. Updates!BeginDiff(b, "account") \in Boxes
  BY <1>1, <1>3 DEF Updates!BeginDiff
<1>5. Updates!Applies(b, u) => u.seq \in Updates!Seqs
  BY DEF Updates!Applies
<1>6. u.n \in Int
  BY DEF UpdateEvents
<1> QED BY <1>2, <1>4, <1>5, <1>6 DEF Updates!AfterUpdate
LEMMA BoxChecked == ASSUME NEW b \in Boxes PROVE Updates!CheckDeadlines(b) \in Boxes
<1>1. ASSUME NEW s \in Updates!Seqs
      PROVE  [b[s] EXCEPT !.due = FALSE, !.pending = TRUE, !.deferred = FALSE] \in Entries /\ b[s] \in Entries
  BY DEF Boxes, Entries
<1> QED BY <1>1 DEF Updates!CheckDeadlines, Boxes

(* What most steps keep: the buffers, the counters and the history *)
LEMMA ReceiverStep ==
    ASSUME UpdatesInv, UNCHANGED <<stream, seen>>,
           rcv' \in Receivers, rcv'.buffer = rcv.buffer, rcv'.unreadable = rcv.unreadable,
           box' \in Boxes, chan' \in Channels, telegram' \in Telegrams, session' \in Sessions,
           EmptyWhileAwaiting(rcv', stream), StaysQuiet(rcv', seen, session')
    PROVE  UpdatesInv'
<1>1. /\ NothingLost /\ CountersRight(rcv, seen)
      /\ stream \in Streams /\ seen \in Histories /\ stream' = stream /\ seen' = seen
  BY DEF UpdatesInv, UpdatesTypes
<1>2. UpdatesTypes'
  BY <1>1 DEF UpdatesTypes
<1>3. NothingLost'
  BY <1>1 DEF NothingLost
<1>4. CountersRight(rcv', seen')
  BY <1>1 DEF CountersRight
<1>5. EmptyWhileAwaiting(rcv', stream') /\ StaysQuiet(rcv', seen', session')
  BY <1>1
<1> QED BY <1>2, <1>3, <1>4, <1>5 DEF UpdatesInv

LEMMA LookForSelfKeeps == ASSUME UpdatesInv, Updates!LookForSelf PROVE UpdatesInv'
<1>1. rcv' \in Receivers /\ rcv'.buffer = rcv.buffer /\ rcv'.unreadable = rcv.unreadable
  BY DEF UpdatesInv, UpdatesTypes, Updates!LookForSelf, Updates!Kind, Receivers, ReceiverSteps, Telegrams, Sessions
<1>2. EmptyWhileAwaiting(rcv', stream) /\ StaysQuiet(rcv', seen, session)
  BY DEF UpdatesInv, UpdatesTypes, Updates!LookForSelf, Updates!Kind, Receivers, EmptyWhileAwaiting, StaysQuiet
<1> QED BY <1>1, <1>2, ReceiverStep DEF UpdatesInv, UpdatesTypes, Updates!LookForSelf

LEMMA PlanKeeps == ASSUME UpdatesInv, Updates!Plan PROVE UpdatesInv'
<1>1. rcv' \in Receivers /\ rcv'.buffer = rcv.buffer /\ rcv'.unreadable = rcv.unreadable
  BY DEF UpdatesInv, UpdatesTypes, Updates!Plan, Updates!CanRecover, Receivers, ReceiverSteps
<1>2. EmptyWhileAwaiting(rcv', stream) /\ StaysQuiet(rcv', seen, session)
  BY DEF UpdatesInv, UpdatesTypes, Updates!Plan, Updates!CanRecover, Receivers, EmptyWhileAwaiting, StaysQuiet
<1> QED BY <1>1, <1>2, ReceiverStep DEF UpdatesInv, UpdatesTypes, Updates!Plan

LEMMA StateArrivesKeeps == ASSUME UpdatesInv, Updates!StateArrives PROVE UpdatesInv'
<1>1. telegram.last["account"] \in Int
  BY DEF UpdatesInv, UpdatesTypes, Telegrams, Updates!Seqs
<1>2. rcv' \in Receivers /\ rcv'.buffer = rcv.buffer /\ rcv'.unreadable = rcv.unreadable
  BY <1>1 DEF UpdatesInv, UpdatesTypes, Updates!StateArrives, Receivers, ReceiverSteps
<1>3. EmptyWhileAwaiting(rcv', stream) /\ StaysQuiet(rcv', seen, session)
  BY DEF UpdatesInv, UpdatesTypes, Updates!StateArrives, Receivers, EmptyWhileAwaiting, StaysQuiet
<1> QED BY <1>2, <1>3, ReceiverStep DEF UpdatesInv, UpdatesTypes, Updates!StateArrives

(* GetState is stored while nothing is in hand *)
LEMMA StoredIs ==
    ASSUME UpdatesInv
    PROVE  Updates!Stored \in Sessions /\ Updates!Stored.self = session.self
<1>1. [account |-> rcv.reply, channel |-> box["channel"].pos] \in [Updates!Seqs -> Int]
  <2>1. rcv.reply \in Int /\ box["channel"].pos \in Int
    BY DEF UpdatesInv, UpdatesTypes, Receivers, Boxes, Entries, Updates!Seqs
  <2> QED BY <2>1 DEF Updates!Seqs
<1> QED BY <1>1 DEF UpdatesInv, UpdatesTypes, Updates!Stored, Sessions
LEMMA NothingInHand ==
    ASSUME UpdatesInv, stream.buffer = <<>>, rcv.buffer = <<>>
    PROVE  seen.inHand = {}
<1>1. \A e \in seen.inHand : Held(e, <<>>, <<>>)
  BY DEF UpdatesInv, NothingLost, AllHeld
<1>2. \A e : ~Held(e, <<>>, <<>>)
  BY DEF Held, InSeq
<1> QED BY <1>1, <1>2
LEMMA StateSavedKeeps == ASSUME UpdatesInv, Updates!StateSaved PROVE UpdatesInv' /\ seen.inHand = {}
<1>1. box' \in Boxes
  <2>1. Updates!At(rcv.reply) \in Entries
    BY AtIs DEF UpdatesInv, UpdatesTypes, Receivers
  <2> QED BY <2>1 DEF UpdatesInv, UpdatesTypes, Updates!StateSaved, Boxes
<1>2. rcv' \in Receivers /\ rcv'.buffer = rcv.buffer /\ rcv'.unreadable = rcv.unreadable
  <2>1. PICK n \in Int : n = Updates!None
    BY DEF Updates!None
  <2>2. rcv' = [rcv EXCEPT !.pc = "live", !.auth = "confirmed", !.should = FALSE, !.reply = n]
    BY <2>1, Zenon DEF Updates!StateSaved
  <2>3. rcv \in Receivers
    BY DEF UpdatesInv, UpdatesTypes
  <2> QED BY <2>2, <2>3 DEF Receivers, ReceiverSteps
<1>3. session' \in Sessions /\ session'.self = session.self
  BY StoredIs DEF Updates!StateSaved
<1>4. EmptyWhileAwaiting(rcv', stream) /\ StaysQuiet(rcv', seen, session')
  BY <1>3 DEF UpdatesInv, UpdatesTypes, Updates!StateSaved, Receivers, EmptyWhileAwaiting, StaysQuiet
<1>5. UpdatesInv'
  BY <1>1, <1>2, <1>3, <1>4, ReceiverStep DEF UpdatesInv, UpdatesTypes, Updates!StateSaved
<1>6. seen.inHand = {}
  BY NothingInHand DEF UpdatesInv, EmptyWhileAwaiting, Updates!StateSaved
<1> QED BY <1>5, <1>6

LEMMA StateRejectedKeeps == ASSUME UpdatesInv, Updates!StateRejected PROVE UpdatesInv'
<1>1. UpdatesTypes'
  BY DEF UpdatesInv, UpdatesTypes, Updates!StateRejected, Updates!Rejected, Receivers, ReceiverSteps, Histories
<1>2. rcv'.buffer = rcv.buffer /\ seen'.inHand = seen.inHand /\ stream' = stream
  BY DEF UpdatesInv, UpdatesTypes, Updates!StateRejected, Updates!Rejected, Receivers, Histories
<1>3. NothingLost'
  BY <1>2 DEF UpdatesInv, NothingLost
<1>4. EmptyWhileAwaiting(rcv', stream') /\ CountersRight(rcv', seen') /\ StaysQuiet(rcv', seen', session')
  BY DEF UpdatesInv, UpdatesTypes, Updates!StateRejected, Updates!Rejected, Receivers, Histories,
         EmptyWhileAwaiting, CountersRight, StaysQuiet
<1> QED BY <1>1, <1>3, <1>4 DEF UpdatesInv

LEMMA ChooseKeeps == ASSUME UpdatesInv, Updates!Choose PROVE UpdatesInv'
<1>1. Updates!WaitsFor \in {"none", "check", "pause", "deadline"}
  BY DEF Updates!WaitsFor
<1>2. rcv' \in Receivers /\ rcv'.buffer = rcv.buffer /\ rcv'.unreadable = rcv.unreadable
  BY <1>1 DEF UpdatesInv, UpdatesTypes, Updates!Choose, Receivers, ReceiverSteps
<1>3. EmptyWhileAwaiting(rcv', stream) /\ StaysQuiet(rcv', seen, session)
  BY DEF UpdatesInv, UpdatesTypes, Updates!Choose, Updates!May, Updates!CanRecover, Receivers, EmptyWhileAwaiting,
         StaysQuiet
<1> QED BY <1>2, <1>3, ReceiverStep DEF UpdatesInv, UpdatesTypes, Updates!Choose

LEMMA ResolveKindKeeps == ASSUME UpdatesInv, Updates!ResolveKind PROVE UpdatesInv'
<1>1. rcv' \in Receivers /\ rcv'.buffer = rcv.buffer /\ rcv'.unreadable = rcv.unreadable
  BY DEF UpdatesInv, UpdatesTypes, Updates!ResolveKind, Updates!Kind, Receivers, ReceiverSteps
<1>2. EmptyWhileAwaiting(rcv', stream) /\ StaysQuiet(rcv', seen, session)
  BY DEF UpdatesInv, UpdatesTypes, Updates!ResolveKind, Receivers, EmptyWhileAwaiting, StaysQuiet
<1> QED BY <1>1, <1>2, ReceiverStep DEF UpdatesInv, UpdatesTypes, Updates!ResolveKind

LEMMA PrepareKeeps == ASSUME UpdatesInv, Updates!Prepare PROVE UpdatesInv'
<1> USE DEF UpdatesInv, UpdatesTypes
<1>1. rcv' \in Receivers /\ rcv'.buffer = rcv.buffer /\ rcv'.unreadable = rcv.unreadable
  <2>1. rcv \in Receivers
    OBVIOUS
  <2>2. \/ rcv' = [rcv EXCEPT !.pc = "diff", !.preferChannel = TRUE]
        \/ rcv' = [rcv EXCEPT !.pc = "channelDiff", !.preferChannel = FALSE]
        \/ rcv' = [rcv EXCEPT !.pc = "top", !.preferLive = TRUE]
    BY Zenon DEF Updates!Prepare
  <2> QED BY <2>1, <2>2 DEF Receivers, ReceiverSteps
<1>2. EmptyWhileAwaiting(rcv', stream) /\ StaysQuiet(rcv', seen, session)
  BY DEF Updates!Prepare, Receivers, EmptyWhileAwaiting, StaysQuiet
<1>3. box' \in Boxes
  <2>1. "channel" \in Updates!Seqs
    BY DEF Updates!Seqs
  <2>2. [box EXCEPT !["channel"].deferrals = 0] \in Boxes
    BY <2>1 DEF Boxes, Entries
  <2>3. [box EXCEPT !["channel"] = Updates!Unknown] \in Boxes
    BY UnknownIs DEF Boxes
  <2>4. [box EXCEPT !["channel"].deferred = TRUE, !["channel"].deferrals = @ + 1] \in Boxes
    <3>1. PICK n \in Nat : n = box["channel"].deferrals + 1
      BY <2>1 DEF Boxes, Entries
    <3>2. [box["channel"] EXCEPT !.deferred = TRUE, !.deferrals = n] \in Entries
      BY <2>1, <3>1 DEF Boxes, Entries
    <3>3. [box EXCEPT !["channel"].deferred = TRUE, !["channel"].deferrals = @ + 1]
            = [box EXCEPT !["channel"] = [box["channel"] EXCEPT !.deferred = TRUE, !.deferrals = n]]
      BY <2>1, <3>1 DEF Boxes, Entries
    <3>4. [box EXCEPT !["channel"] = [box["channel"] EXCEPT !.deferred = TRUE, !.deferrals = n]] \in Boxes
      BY <2>1, <3>2 DEF Boxes
    <3> QED BY <3>3, <3>4
  <2> QED BY <2>2, <2>3, <2>4, Zenon DEF Updates!Prepare
<1> QED BY <1>1, <1>2, <1>3, ReceiverStep DEF Updates!Prepare

LEMMA WakeOnFailureOrTimerKeeps == ASSUME UpdatesInv, Updates!WakeOnFailureOrTimer PROVE UpdatesInv'
<1>1. rcv' \in Receivers /\ rcv'.buffer = rcv.buffer /\ rcv'.unreadable = rcv.unreadable
  BY DEF UpdatesInv, UpdatesTypes, Updates!WakeOnFailureOrTimer, Receivers, ReceiverSteps
<1>2. EmptyWhileAwaiting(rcv', stream) /\ StaysQuiet(rcv', seen, session)
  BY DEF UpdatesInv, UpdatesTypes, Updates!WakeOnFailureOrTimer, Receivers, EmptyWhileAwaiting, StaysQuiet
<1> QED BY <1>1, <1>2, ReceiverStep DEF UpdatesInv, UpdatesTypes, Updates!WakeOnFailureOrTimer

LEMMA ClockKeeps == ASSUME UpdatesInv, Updates!PauseEnds \/ Updates!CheckIsDue PROVE UpdatesInv'
<1> USE DEF UpdatesInv, UpdatesTypes, Updates!PauseEnds, Updates!CheckIsDue
<1>1. rcv' \in Receivers /\ rcv'.buffer = rcv.buffer /\ rcv'.unreadable = rcv.unreadable
  BY DEF Receivers
<1>2. EmptyWhileAwaiting(rcv', stream) /\ StaysQuiet(rcv', seen, session)
  BY DEF Receivers, EmptyWhileAwaiting, StaysQuiet
<1> QED BY <1>1, <1>2, ReceiverStep
LEMMA DeadlinePassesKeeps == ASSUME UpdatesInv, NEW s \in Updates!Seqs, Updates!DeadlinePasses(s) PROVE UpdatesInv'
<1>1. box' \in Boxes
  BY DEF UpdatesInv, UpdatesTypes, Updates!DeadlinePasses, Boxes, Entries
<1> QED BY <1>1, ReceiverStep DEF UpdatesInv, UpdatesTypes, Updates!DeadlinePasses

LEMMA PausedIs ==
    ASSUME NEW r \in Receivers
    PROVE  /\ Updates!Paused(r) \in Receivers /\ Updates!Paused(r).pc = "idle" /\ Updates!Paused(r).auth = r.auth
           /\ Updates!Paused(r).should = (r.should \/ r.pc = "state")
           /\ Updates!Paused(r).buffer = r.buffer /\ Updates!Paused(r).unreadable = r.unreadable
<1>1. PICK n \in Int : n = Updates!None
  BY DEF Updates!None
<1>2. PICK b \in BOOLEAN : b = (r.should \/ r.pc = "state")
  OBVIOUS
<1>3. Updates!Paused(r) = [r EXCEPT !.paused = TRUE, !.pc = "idle", !.should = b, !.reply = n]
  BY <1>1, <1>2 DEF Updates!Paused, Receivers
<1> QED BY <1>2, <1>3 DEF Receivers, ReceiverSteps
LEMMA FailsKeeps == ASSUME UpdatesInv, Updates!Fails PROVE UpdatesInv'
<1>1. rcv \in Receivers /\ rcv' = Updates!Paused(rcv)
  BY DEF UpdatesInv, UpdatesTypes, Updates!Fails
<1>2. EmptyWhileAwaiting(rcv', stream) /\ StaysQuiet(rcv', seen, session)
  BY <1>1, PausedIs DEF UpdatesInv, Updates!Fails, EmptyWhileAwaiting, StaysQuiet
<1>3. rcv' \in Receivers /\ rcv'.buffer = rcv.buffer /\ rcv'.unreadable = rcv.unreadable
  BY <1>1, PausedIs
<1> QED BY <1>2, <1>3, ReceiverStep DEF UpdatesInv, UpdatesTypes, Updates!Fails

LEMMA CancelKeeps ==
    ASSUME UpdatesInv, Updates!Cancel PROVE UpdatesInv' /\ (session' # session => seen.inHand = {})
<1>1. PICK n \in Int : n = Updates!None
  BY DEF Updates!None
<1>2. rcv \in Receivers /\ rcv' = [rcv EXCEPT !.pc = "idle", !.wait = "none", !.reply = n]
  BY <1>1, Zenon DEF UpdatesInv, UpdatesTypes, Updates!Cancel
<1>3. rcv' \in Receivers /\ rcv'.buffer = rcv.buffer /\ rcv'.unreadable = rcv.unreadable
  BY <1>2 DEF Receivers, ReceiverSteps
<1>4. session' = session \/ (rcv.pc = "save" /\ session' = Updates!Stored)
  BY DEF Updates!Cancel
<1>5. session' \in Sessions /\ session'.self = session.self
  BY <1>4, StoredIs DEF UpdatesInv, UpdatesTypes
<1>6. EmptyWhileAwaiting(rcv', stream) /\ StaysQuiet(rcv', seen, session')
  BY <1>2, <1>5 DEF UpdatesInv, Updates!Cancel, Receivers, EmptyWhileAwaiting, StaysQuiet
<1>7. UpdatesInv'
  BY <1>3, <1>5, <1>6, ReceiverStep DEF UpdatesInv, UpdatesTypes, Updates!Cancel
<1>8. session' # session => seen.inHand = {}
  BY <1>4, NothingInHand DEF UpdatesInv, EmptyWhileAwaiting
<1> QED BY <1>7, <1>8

LEMMA SyncKeeps == ASSUME UpdatesInv, Updates!Sync PROVE UpdatesInv'
<1>1. [s \in Updates!Seqs |-> box[s].pos] \in [Updates!Seqs -> Int]
  BY DEF UpdatesInv, UpdatesTypes, Boxes, Entries
<1>2. session' \in Sessions /\ session'.self = session.self
  BY <1>1 DEF UpdatesInv, UpdatesTypes, Updates!Sync, Sessions
<1>3. StaysQuiet(rcv', seen, session')
  BY <1>2 DEF UpdatesInv, Updates!Sync, StaysQuiet
<1> QED
  BY <1>2, <1>3, ReceiverStep DEF UpdatesInv, UpdatesTypes, Updates!Sync

LEMMA CacheSelfKeeps == ASSUME UpdatesInv, Updates!CacheSelf PROVE UpdatesInv'
<1>1. session' \in Sessions /\ session'.self
  BY DEF UpdatesInv, UpdatesTypes, Updates!CacheSelf, Sessions
<1>2. StaysQuiet(rcv', seen, session')
  BY <1>1 DEF StaysQuiet
<1> QED BY <1>1, <1>2, ReceiverStep DEF UpdatesInv, UpdatesTypes, Updates!CacheSelf

(* What the task of the connection and Telegram do *)
LEMMA OutsideKeeps ==
    ASSUME UpdatesInv, UNCHANGED <<rcv, box, stream, session, seen>>, chan' \in Channels, telegram' \in Telegrams
    PROVE  UpdatesInv'
BY ReceiverStep DEF UpdatesInv, UpdatesTypes
LEMMA LogInKeeps == ASSUME UpdatesInv, Updates!LogIn PROVE UpdatesInv'
<1>1. telegram' \in Telegrams
  BY DEF UpdatesInv, UpdatesTypes, Updates!LogIn, Telegrams
<1> QED BY <1>1, OutsideKeeps DEF UpdatesInv, UpdatesTypes, Updates!LogIn
LEMMA EmitNoiseKeeps == ASSUME UpdatesInv, Updates!EmitNoise PROVE UpdatesInv'
<1>1. PICK x \in Seq(UpdateEvents) : x = <<Updates!Noise>>
  BY SingleBatch, NoticeIs DEF Batches
<1>2. chan' = [chan EXCEPT !.batch = x] /\ chan \in Channels
  BY <1>1 DEF UpdatesInv, UpdatesTypes, Updates!EmitNoise
<1>3. chan' \in Channels
  BY <1>2 DEF Channels
<1> QED BY <1>3, OutsideKeeps DEF UpdatesInv, UpdatesTypes, Updates!EmitNoise
LEMMA EmitKeeps == ASSUME UpdatesInv, NEW s \in Updates!Seqs, Updates!Emit(s) PROVE UpdatesInv'
<1>1. PICK n \in Nat : n = telegram.last[s] + 1
  BY DEF UpdatesInv, UpdatesTypes, Telegrams
<1>2. telegram' \in Telegrams
  <2>1. telegram' = [telegram EXCEPT !.last = [telegram.last EXCEPT ![s] = n]]
    BY <1>1 DEF UpdatesInv, UpdatesTypes, Updates!Emit, Telegrams
  <2> QED BY <2>1 DEF UpdatesInv, UpdatesTypes, Telegrams
<1>3. PICK x \in Seq(UpdateEvents) : x = <<[seq |-> s, n |-> telegram.last[s] + 1]>>
  <2>1. [seq |-> s, n |-> telegram.last[s] + 1] \in UpdateEvents
    BY <1>1 DEF UpdateEvents
  <2> QED BY <2>1, SingleBatch DEF Batches
<1>4. chan \in Channels /\ (chan' = [chan EXCEPT !.batch = x] \/ chan' = chan)
  BY <1>3, Zenon DEF UpdatesInv, UpdatesTypes, Updates!Emit
<1>5. chan' \in Channels
  BY <1>4 DEF Channels
<1> QED BY <1>2, <1>5, OutsideKeeps DEF UpdatesInv, UpdatesTypes, Updates!Emit
LEMMA TaskKeeps == ASSUME UpdatesInv, Updates!Task PROVE UpdatesInv'
<1>1. chan \in Channels /\ chan.batch \in Seq(UpdateEvents) /\ chan.queue \in Seq(UpdateEvents) /\ chan.batch # <<>>
  BY DEF UpdatesInv, UpdatesTypes, Channels, Updates!Task, Updates!Forward, Updates!Overflow
<1>2. PICK t \in Seq(UpdateEvents) : t = Tail(chan.batch)
  <2>1. Tail(chan.batch) \in Seq(UpdateEvents)
    BY <1>1
  <2> QED BY <2>1, Zenon
<1>3. PICK q \in Seq(UpdateEvents) : q = Append(chan.queue, Head(chan.batch))
  <2>1. Append(chan.queue, Head(chan.batch)) \in Seq(UpdateEvents)
    BY <1>1
  <2> QED BY <2>1, Zenon
<1>4. \/ chan' = [chan EXCEPT !.queue = q, !.batch = t, !.stalled = FALSE]
      \/ chan' = [chan EXCEPT !.batch = t, !.stalled = FALSE]
      \/ chan' = [chan EXCEPT !.stalled = TRUE]
  BY <1>1, <1>2, <1>3 DEF Channels, Updates!Task, Updates!Forward, Updates!Overflow
<1>5. chan' \in Channels
  BY <1>1, <1>4 DEF Channels
<1> QED BY <1>5, OutsideKeeps DEF UpdatesInv, UpdatesTypes, Updates!Task, Updates!Forward, Updates!Overflow
LEMMA ConnectionFailsKeeps == ASSUME UpdatesInv, Updates!ConnectionFails PROVE UpdatesInv'
<1>1. chan \in Channels /\ chan.queue \in Seq(UpdateEvents)
  BY DEF UpdatesInv, UpdatesTypes, Channels
<1>2. PICK q \in Seq(UpdateEvents) : q = Append(chan.queue, Updates!ConnectionClosed)
  <2>1. Append(chan.queue, Updates!ConnectionClosed) \in Seq(UpdateEvents)
    BY <1>1, NoticeIs
  <2> QED BY <2>1, Zenon
<1>3. \/ chan' = [chan EXCEPT !.news = TRUE, !.queue = q]
      \/ chan' = [chan EXCEPT !.news = TRUE, !.queue = chan.queue]
  BY <1>1, <1>2 DEF Channels, Updates!ConnectionFails
<1>4. chan' \in Channels
  BY <1>1, <1>3 DEF Channels
<1> QED BY <1>4, OutsideKeeps DEF UpdatesInv, UpdatesTypes, Updates!ConnectionFails

(* The caller gets what is buffered, in the order in which it came *)
LEMMA HandOutKeeps ==
    ASSUME UpdatesInv, Updates!HandOut, UNCHANGED <<box, chan, telegram, session>>,
           stream.buffer # <<>>, rcv.pc \in {"idle", "cache"}
    PROVE  UpdatesInv'
<1>0. rcv \in Receivers /\ seen \in Histories /\ stream \in Streams
  BY DEF UpdatesInv, UpdatesTypes
<1>1. PICK t \in Seq(UpdateEvents) : t = Tail(stream.buffer)
  <2>1. Tail(stream.buffer) \in Seq(UpdateEvents)
    BY <1>0 DEF Streams
  <2> QED BY <2>1, Zenon
<1>2. stream' = [stream EXCEPT !.buffer = t, !.cache = FALSE]
  BY <1>0, <1>1 DEF Updates!HandOut, Streams
<1>3. stream' \in Streams /\ stream'.buffer = t /\ ~stream'.cache
  BY <1>0, <1>2 DEF Streams
<1>4. rcv' \in Receivers /\ rcv'.pc = "idle" /\ rcv'.buffer = rcv.buffer /\ rcv'.unreadable = rcv.unreadable
      /\ rcv'.auth = rcv.auth /\ rcv'.should = rcv.should
  BY <1>0 DEF Updates!HandOut, Updates!Goes, Receivers, ReceiverSteps
<1>5. /\ seen' \in Histories /\ seen'.inHand = seen.inHand \ {Head(stream.buffer)} /\ seen'.streak = seen.streak
      /\ seen'.hasty = seen.hasty /\ seen'.refused = seen.refused
  BY <1>0 DEF Updates!HandOut, Histories
<1>6. UpdatesTypes'
  BY <1>3, <1>4, <1>5 DEF UpdatesInv, UpdatesTypes
<1>7. NothingLost'
  <2>1. ASSUME NEW e \in seen'.inHand PROVE Held(e, t, rcv.buffer)
    <3>1. Held(e, stream.buffer, rcv.buffer) /\ e # Head(stream.buffer)
      BY <1>5, <2>1 DEF UpdatesInv, NothingLost, AllHeld
    <3>2. stream.buffer \in Seq(UpdateEvents)
      BY <1>0 DEF Streams
    <3>3. Held(e, Tail(stream.buffer), rcv.buffer)
      BY <3>1, <3>2, HeldAfterFirst
    <3> QED BY <1>1, <3>3
  <2> QED BY <1>3, <1>4, <2>1 DEF NothingLost, AllHeld
<1>8. EmptyWhileAwaiting(rcv', stream')
  BY <1>3, <1>4 DEF EmptyWhileAwaiting
<1>9. CountersRight(rcv', seen') /\ StaysQuiet(rcv', seen', session')
  BY <1>4, <1>5 DEF UpdatesInv, CountersRight, StaysQuiet
<1> QED BY <1>6, <1>7, <1>8, <1>9 DEF UpdatesInv
LEMMA CachePeersKeeps == ASSUME UpdatesInv, Updates!CachePeers PROVE UpdatesInv'
<1>1. stream.buffer # <<>>
  BY DEF UpdatesInv, EmptyWhileAwaiting, Updates!CachePeers
<1> QED BY <1>1, HandOutKeeps DEF Updates!CachePeers
LEMMA CallNextKeeps == ASSUME UpdatesInv, Updates!CallNext PROVE UpdatesInv'
<1>1. CASE ~stream.cache /\ stream.buffer # <<>> /\ Updates!HandOut
  BY <1>1, HandOutKeeps DEF Updates!CallNext
<1>2. CASE /\ (stream.cache /\ Updates!Goes("cache")) \/ (~stream.cache /\ stream.buffer = <<>> /\ Updates!Goes("top"))
           /\ UNCHANGED <<stream, seen>>
  <2>1. rcv' \in Receivers /\ rcv'.buffer = rcv.buffer /\ rcv'.unreadable = rcv.unreadable
    BY <1>2 DEF UpdatesInv, UpdatesTypes, Updates!Goes, Receivers, ReceiverSteps
  <2>2. EmptyWhileAwaiting(rcv', stream) /\ StaysQuiet(rcv', seen, session)
    BY <1>2 DEF UpdatesInv, UpdatesTypes, Updates!CallNext, Updates!Goes, Receivers, EmptyWhileAwaiting, StaysQuiet
  <2> QED BY <1>2, <2>1, <2>2, ReceiverStep DEF UpdatesInv, UpdatesTypes, Updates!CallNext
<1> QED BY <1>1, <1>2 DEF Updates!CallNext

(* A receiver with something in its buffer gives it to the stream *)
LEMMA ReturnsHeld ==
    ASSUME NEW r \in Receivers, r.buffer # <<>>, Updates!Returns(r), stream \in Streams, NEW S,
           AllHeld(S, stream.buffer, r.buffer)
    PROVE  /\ rcv' \in Receivers /\ rcv'.pc = "cache" /\ rcv'.auth = r.auth /\ rcv'.should = r.should
           /\ rcv'.unreadable = r.unreadable
           /\ stream' \in Streams /\ stream'.buffer # <<>>
           /\ AllHeld(S, stream'.buffer, rcv'.buffer)
<1>1. r.buffer \in Seq(Batches) /\ stream.buffer \in Seq(UpdateEvents)
  BY DEF Receivers, Streams
<1>2. PICK s \in Seq(UpdateEvents), b \in Seq(Batches) : s = stream.buffer /\ b = r.buffer
  BY <1>1, Zenon
<1>3. PICK h \in Seq(UpdateEvents) : h = Head(b) /\ h # <<>>
  <2>1. Head(b) \in Batches
    BY <1>2
  <2> QED BY <2>1, Zenon DEF Batches
<1>4. PICK t \in Seq(Batches) : t = Tail(b)
  <2>1. Tail(b) \in Seq(Batches)
    BY <1>2
  <2> QED BY <2>1, Zenon
<1>5. PICK g \in Seq(UpdateEvents) : g = s \o h /\ g # <<>>
  <2>1. s \o h \in Seq(UpdateEvents) /\ Len(s \o h) = Len(s) + Len(h) /\ Len(h) > 0
    BY <1>3
  <2>2. s \o h # <<>>
    BY <2>1
  <2> QED BY <2>1, <2>2, Zenon
<1>6. stream' = [buffer |-> g, cache |-> TRUE] /\ rcv' = [r EXCEPT !.buffer = t, !.pc = "cache"]
  <2>1. stream' = [buffer |-> stream.buffer \o Head(r.buffer), cache |-> TRUE]
    BY Zenon DEF Updates!Returns
  <2>2. rcv' = [r EXCEPT !.buffer = Tail(r.buffer), !.pc = "cache"]
    BY DEF Updates!Returns, Receivers
  <2> QED BY <1>2, <1>3, <1>4, <1>5, <2>1, <2>2, Zenon
<1>7. /\ rcv' \in Receivers /\ rcv'.pc = "cache" /\ rcv'.auth = r.auth /\ rcv'.should = r.should
      /\ rcv'.unreadable = r.unreadable /\ rcv'.buffer = t
  BY <1>6 DEF Receivers, ReceiverSteps
<1>8. stream' \in Streams /\ stream'.buffer = g
  BY <1>6 DEF Streams
<1>9. AllHeld(S, g, t)
  <2>1. ASSUME NEW e \in S PROVE Held(e, s \o Head(b), Tail(b))
    BY <1>2, HeldMoves DEF AllHeld
  <2> QED BY <1>3, <1>4, <1>5, <2>1, Zenon DEF AllHeld
<1> QED BY <1>5, <1>7, <1>8, <1>9

(* What the receiver, its box and the history are once updates were processed *)
Took(r, b, h) ==
    /\ r \in Receivers /\ Login(rcv, r) /\ b \in Boxes
    /\ h \in Histories /\ h.streak = seen.streak /\ h.hasty = seen.hasty /\ h.refused = seen.refused
    /\ AllHeld(h.inHand, stream.buffer, r.buffer)
LEMMA TookNothing == ASSUME UpdatesInv PROVE Took(rcv, box, seen)
BY DEF UpdatesInv, UpdatesTypes, NothingLost, Took, Login
LEMMA TookOne ==
    ASSUME NEW r, NEW b, Took(r, b, seen), NEW u \in UpdateEvents
    PROVE  Took(Updates!Processed(r, b, u), Updates!AfterUpdate(b, u), Updates!Record(b, u))
<1>1. r \in Receivers /\ b \in Boxes /\ seen \in Histories /\ AllHeld(seen.inHand, stream.buffer, r.buffer)
      /\ Login(rcv, r)
  BY DEF Took
<1>2. /\ Updates!Processed(r, b, u) \in Receivers /\ Login(r, Updates!Processed(r, b, u))
      /\ Updates!Record(b, u) \in Histories
      /\ Updates!Record(b, u).streak = seen.streak /\ Updates!Record(b, u).hasty = seen.hasty
      /\ Updates!Record(b, u).refused = seen.refused
      /\ AllHeld(Updates!Record(b, u).inHand, stream.buffer, Updates!Processed(r, b, u).buffer)
  BY <1>1, ReceiverProcesses
<1>3. Updates!AfterUpdate(b, u) \in Boxes
  BY <1>1, BoxAfterUpdate
<1>4. Login(rcv, Updates!Processed(r, b, u))
  BY <1>1, <1>2, Zenon DEF Login
<1> QED BY <1>2, <1>3, <1>4 DEF Took
LEMMA NoticeIsNoEvent == ASSUME NEW b PROVE Updates!Record(b, Updates!ConnectionClosed) = seen
BY DEF Updates!Record, Updates!Applies, Updates!ConnectionClosed, Updates!Seqs

LEMMA ReturnKeeps ==
    ASSUME UpdatesInv, NEW r, NEW b, Took(r, b, seen'), r.buffer # <<>>, Updates!Returns(r),
           box' \in Boxes, chan' \in Channels, UNCHANGED <<telegram, session>>
    PROVE  UpdatesInv'
<1>1. r \in Receivers /\ stream \in Streams /\ AllHeld(seen'.inHand, stream.buffer, r.buffer)
  BY DEF Took, UpdatesInv, UpdatesTypes
<1>2. /\ rcv' \in Receivers /\ rcv'.pc = "cache" /\ rcv'.auth = r.auth /\ rcv'.should = r.should
      /\ rcv'.unreadable = r.unreadable
      /\ stream' \in Streams /\ stream'.buffer # <<>>
      /\ AllHeld(seen'.inHand, stream'.buffer, rcv'.buffer)
  BY <1>1, ReturnsHeld
<1>3. UpdatesTypes'
  BY <1>2 DEF Took, UpdatesInv, UpdatesTypes
<1>4. NothingLost'
  BY <1>2 DEF NothingLost
<1>5. EmptyWhileAwaiting(rcv', stream')
  BY <1>2 DEF EmptyWhileAwaiting
<1>6. CountersRight(rcv', seen')
  BY <1>2 DEF Took, Login, UpdatesInv, CountersRight
<1>7. StaysQuiet(rcv', seen', session')
  BY <1>2 DEF Took, Login, UpdatesInv, StaysQuiet
<1> QED BY <1>3, <1>4, <1>5, <1>6, <1>7 DEF UpdatesInv
LEMMA GoOnKeeps ==
    ASSUME UpdatesInv, NEW r, NEW b, Took(r, b, seen'), UNCHANGED <<stream, telegram, session>>,
           rcv' \in Receivers, rcv'.buffer = r.buffer, rcv'.auth = r.auth, rcv'.should = r.should,
           rcv'.unreadable = r.unreadable, stream.buffer = <<>>,
           \/ rcv'.pc \in {"self", "plan", "choose"} /\ r.buffer = <<>>
           \/ rcv'.pc = "top",
           box' \in Boxes, chan' \in Channels
    PROVE  UpdatesInv'
<1>1. UpdatesTypes'
  BY DEF Took, UpdatesInv, UpdatesTypes
<1>2. NothingLost'
  <2>1. AllHeld(seen'.inHand, stream.buffer, r.buffer) /\ stream' = stream /\ rcv'.buffer = r.buffer
    BY DEF Took
  <2> QED BY <2>1 DEF NothingLost
<1>3. EmptyWhileAwaiting(rcv', stream')
  BY DEF UpdatesInv, EmptyWhileAwaiting
<1>4. CountersRight(rcv', seen')
  BY DEF Took, Login, UpdatesInv, CountersRight
<1>5. StaysQuiet(rcv', seen', session')
  BY DEF Took, Login, UpdatesInv, StaysQuiet
<1> QED BY <1>1, <1>2, <1>3, <1>4, <1>5 DEF UpdatesInv

LEMMA QueueTail ==
    ASSUME UpdatesInv, NEW n \in BOOLEAN, NEW takes \in BOOLEAN, takes => chan.queue # <<>>
    PROVE  /\ [chan EXCEPT !.news = n, !.queue = IF takes THEN Tail(@) ELSE @] \in Channels
           /\ takes => Head(chan.queue) \in UpdateEvents
<1>1. chan \in Channels /\ chan.queue \in Seq(UpdateEvents)
  BY DEF UpdatesInv, UpdatesTypes, Channels
<1>2. takes => Head(chan.queue) \in UpdateEvents
  BY <1>1
<1>3. PICK q \in Seq(UpdateEvents) : q = IF takes THEN Tail(chan.queue) ELSE chan.queue
  <2>1. takes => Tail(chan.queue) \in Seq(UpdateEvents)
    BY <1>1
  <2> QED BY <1>1, <2>1, Zenon
<1>4. [chan EXCEPT !.news = n, !.queue = IF takes THEN Tail(@) ELSE @] = [chan EXCEPT !.news = n, !.queue = q]
  BY <1>1, <1>3 DEF Channels
<1> QED BY <1>1, <1>2, <1>4 DEF Channels

LEMMA TopKeeps == ASSUME UpdatesInv, Updates!Top PROVE UpdatesInv'
<1> DEFINE r1 == IF chan.news THEN Updates!Processed(rcv, box, Updates!ConnectionClosed) ELSE rcv
<1> DEFINE b1 == IF chan.news THEN Updates!AfterUpdate(box, Updates!ConnectionClosed) ELSE box
<1> DEFINE takes == /\ ~Updates!Buffered(r1) /\ ~Updates!CanRecover(r1) /\ ~r1.should /\ r1.preferLive
                    /\ chan.queue # <<>>
<1> DEFINE u == Head(chan.queue)
<1> DEFINE r2 == IF takes THEN Updates!Processed(r1, b1, u) ELSE r1
<1> DEFINE b2 == IF takes THEN Updates!AfterUpdate(b1, u) ELSE b1
<1> DEFINE b3 == Updates!CheckDeadlines(b2)
<1> DEFINE looks == ~Updates!CanRecover(r2) /\ Updates!NeedsAuthorization(b3) /\ r2.checkDue
<1>1. /\ rcv.pc = "top"
      /\ chan' = [chan EXCEPT !.news = FALSE, !.queue = IF takes THEN Tail(@) ELSE @]
      /\ seen' = IF takes THEN Updates!Record(b1, u) ELSE seen
      /\ IF Updates!Buffered(r2) THEN Updates!Returns(r2) /\ box' = b2
         ELSE /\ box' = b3
              /\ rcv' = [r2 EXCEPT !.pc = IF looks THEN "self" ELSE "plan",
                                   !.checkDue = @ /\ ~looks]
              /\ UNCHANGED stream
      /\ UNCHANGED <<telegram, session>>
  BY Zenon DEF Updates!Top
<1>2. Took(r1, b1, seen)
  <2>1. Took(rcv, box, seen)
    BY TookNothing
  <2>2. Took(Updates!Processed(rcv, box, Updates!ConnectionClosed),
             Updates!AfterUpdate(box, Updates!ConnectionClosed), seen)
    BY <2>1, TookOne, NoticeIs, NoticeIsNoEvent
  <2> QED BY <2>1, <2>2, Zenon
<1> HIDE DEF r1, b1
<1>3. takes \in BOOLEAN /\ (takes => chan.queue # <<>>)
  OBVIOUS
<1>4. chan' \in Channels /\ (takes => u \in UpdateEvents)
  <2> HIDE DEF takes
  <2>1. /\ [chan EXCEPT !.news = FALSE, !.queue = IF takes THEN Tail(@) ELSE @] \in Channels
        /\ takes => Head(chan.queue) \in UpdateEvents
    BY <1>3, QueueTail
  <2> QED BY <1>1, <2>1, Zenon
<1>5. Took(r2, b2, seen')
  <2> HIDE DEF takes
  <2>1. CASE takes
    BY <1>1, <1>2, <1>4, <2>1, TookOne, Zenon
  <2>2. CASE ~takes
    BY <1>1, <1>2, <2>2, Zenon
  <2> QED BY <2>1, <2>2
<1>6. b3 \in Boxes /\ b2 \in Boxes /\ r2 \in Receivers
  BY <1>5, BoxChecked DEF Took
<1> HIDE DEF r2, b2, b3, takes
<1>7. CASE r2.buffer # <<>>
  BY <1>1, <1>4, <1>5, <1>6, <1>7, ReturnKeeps, Zenon DEF Updates!Buffered
<1>8. CASE r2.buffer = <<>>
  <2>1. looks \in BOOLEAN
    OBVIOUS
  <2> HIDE DEF looks
  <2>2. rcv' = [r2 EXCEPT !.pc = IF looks THEN "self" ELSE "plan", !.checkDue = @ /\ ~looks] /\ box' = b3
        /\ UNCHANGED stream
    BY <1>1, <1>8, Zenon DEF Updates!Buffered
  <2>3. PICK c \in BOOLEAN : c = (r2.checkDue /\ ~looks)
    OBVIOUS
  <2>4. rcv' = [r2 EXCEPT !.pc = IF looks THEN "self" ELSE "plan", !.checkDue = c]
    BY <1>6, <2>2, <2>3 DEF Receivers
  <2>5. /\ rcv' \in Receivers /\ rcv'.buffer = r2.buffer /\ rcv'.auth = r2.auth /\ rcv'.should = r2.should
        /\ rcv'.unreadable = r2.unreadable /\ rcv'.pc \in {"self", "plan"}
    BY <1>6, <2>4 DEF Receivers, ReceiverSteps
  <2>6. stream.buffer = <<>>
    BY <1>1 DEF UpdatesInv, EmptyWhileAwaiting
  <2> QED BY <1>1, <1>4, <1>5, <1>6, <1>8, <2>2, <2>5, <2>6, GoOnKeeps
<1> QED BY <1>7, <1>8

LEMMA LiveKeeps == ASSUME UpdatesInv, Updates!Live PROVE UpdatesInv'
<1> DEFINE ready == Updates!CanRecover(rcv) /\ ~rcv.paused /\ \E s \in Updates!Seqs : Updates!Ready(box, s)
<1> DEFINE takes == (rcv.preferLive \/ ~ready) /\ chan.queue # <<>>
<1> DEFINE u == Head(chan.queue)
<1> DEFINE r == IF takes THEN Updates!Processed(rcv, box, u) ELSE rcv
<1> DEFINE b == IF takes THEN Updates!AfterUpdate(box, u) ELSE box
<1>1. /\ rcv.pc = "live"
      /\ chan' = IF takes THEN [chan EXCEPT !.queue = Tail(@)] ELSE chan
      /\ seen' = IF takes THEN Updates!Record(box, u) ELSE seen
      /\ IF Updates!Buffered(r) THEN Updates!Returns(r) /\ box' = b
         ELSE /\ box' = Updates!CheckDeadlines(b) /\ rcv' = [r EXCEPT !.pc = "choose"]
              /\ UNCHANGED stream
      /\ UNCHANGED <<telegram, session>>
  BY Zenon DEF Updates!Live
<1>2. takes \in BOOLEAN /\ (takes => chan.queue # <<>>)
  OBVIOUS
<1> HIDE DEF takes
<1>3. chan' \in Channels /\ (takes => u \in UpdateEvents)
  <2>1. chan \in Channels /\ chan.queue \in Seq(UpdateEvents)
    BY DEF UpdatesInv, UpdatesTypes, Channels
  <2>2. takes => u \in UpdateEvents /\ Tail(chan.queue) \in Seq(UpdateEvents)
    BY <1>2, <2>1
  <2>3. CASE takes
    <3>1. PICK q \in Seq(UpdateEvents) : q = Tail(chan.queue)
      BY <2>2, <2>3, Zenon
    <3>2. chan' = [chan EXCEPT !.queue = q]
      BY <1>1, <2>1, <2>3, <3>1 DEF Channels
    <3> QED BY <2>1, <2>2, <3>2 DEF Channels
  <2> QED BY <1>1, <2>1, <2>3, Zenon
<1>4. Took(r, b, seen')
  <2>1. Took(rcv, box, seen)
    BY TookNothing
  <2>2. CASE takes
    BY <1>1, <1>3, <2>1, <2>2, TookOne, Zenon
  <2>3. CASE ~takes
    BY <1>1, <2>1, <2>3, Zenon
  <2> QED BY <2>2, <2>3
<1>5. b \in Boxes /\ Updates!CheckDeadlines(b) \in Boxes /\ r \in Receivers
  BY <1>4, BoxChecked DEF Took
<1> HIDE DEF r, b
<1>6. CASE r.buffer # <<>>
  BY <1>1, <1>3, <1>4, <1>5, <1>6, ReturnKeeps, Zenon DEF Updates!Buffered
<1>7. CASE r.buffer = <<>>
  <2>1. rcv' = [r EXCEPT !.pc = "choose"] /\ box' = Updates!CheckDeadlines(b) /\ UNCHANGED stream
    BY <1>1, <1>7, Zenon DEF Updates!Buffered
  <2>2. /\ rcv' \in Receivers /\ rcv'.buffer = r.buffer /\ rcv'.auth = r.auth /\ rcv'.should = r.should
        /\ rcv'.unreadable = r.unreadable /\ rcv'.pc = "choose"
    BY <1>5, <2>1 DEF Receivers, ReceiverSteps
  <2>3. stream.buffer = <<>>
    BY <1>1 DEF UpdatesInv, EmptyWhileAwaiting
  <2> QED BY <1>1, <1>3, <1>4, <1>5, <1>7, <2>1, <2>2, <2>3, GoOnKeeps
<1> QED BY <1>6, <1>7

LEMMA WakeOnUpdateKeeps == ASSUME UpdatesInv, Updates!WakeOnUpdate PROVE UpdatesInv'
<1> DEFINE u == Head(chan.queue)
<1>1. chan \in Channels /\ chan.queue \in Seq(UpdateEvents) /\ chan.queue # <<>>
  BY DEF UpdatesInv, UpdatesTypes, Channels, Updates!WakeOnUpdate
<1>2. u \in UpdateEvents /\ Tail(chan.queue) \in Seq(UpdateEvents)
  BY <1>1
<1>3. chan' \in Channels
  <2>1. PICK q \in Seq(UpdateEvents) : q = Tail(chan.queue)
    BY <1>2, Zenon
  <2>2. chan' = [chan EXCEPT !.queue = q]
    BY <1>1, <2>1 DEF Channels, Updates!WakeOnUpdate
  <2> QED BY <1>1, <2>2 DEF Channels
<1> HIDE DEF u
<1>4. /\ rcv' = [Updates!Processed(rcv, box, u) EXCEPT !.pc = "top", !.wait = "none"]
      /\ box' = Updates!AfterUpdate(box, u) /\ seen' = Updates!Record(box, u)
      /\ rcv.pc = "wait" /\ UNCHANGED <<stream, telegram, session>>
  BY Zenon DEF Updates!WakeOnUpdate, u
<1>5. PICK r \in Receivers : r = Updates!Processed(rcv, box, u) /\ Took(r, box', seen')
  <2>1. Took(Updates!Processed(rcv, box, u), box', seen')
    BY <1>2, <1>4, TookNothing, TookOne
  <2> QED BY <2>1, Zenon DEF Took
<1>6. /\ rcv' \in Receivers /\ rcv'.buffer = r.buffer /\ rcv'.auth = r.auth /\ rcv'.should = r.should
      /\ rcv'.unreadable = r.unreadable /\ rcv'.pc = "top"
  <2>1. rcv' = [r EXCEPT !.pc = "top", !.wait = "none"]
    BY <1>4, <1>5, Zenon
  <2> QED BY <2>1 DEF Receivers, ReceiverSteps
<1>7. stream.buffer = <<>>
  BY <1>4 DEF UpdatesInv, EmptyWhileAwaiting
<1>8. box' \in Boxes
  BY <1>5 DEF Took
<1> QED BY <1>3, <1>4, <1>5, <1>6, <1>7, <1>8, GoOnKeeps

(* While a request is on its way nothing is in hand, and no refusal stands *)
LEMMA WhileAsking ==
    ASSUME UpdatesInv, rcv.pc \in {"diff", "channelDiff"}
    PROVE  /\ stream.buffer = <<>> /\ rcv.buffer = <<>> /\ seen.inHand = {} /\ ~(seen.refused /\ ~session.self)
           /\ Updates!Asked \in Updates!Seqs
<1>1. stream.buffer = <<>> /\ rcv.buffer = <<>>
  BY DEF UpdatesInv, EmptyWhileAwaiting
<1>2. ~(seen.refused /\ ~session.self)
  BY DEF UpdatesInv, StaysQuiet
<1>3. Updates!Asked \in Updates!Seqs
  BY DEF Updates!Asked, Updates!Seqs
<1> QED BY <1>1, <1>2, <1>3, NothingInHand
(* The answer leaves the buffers alone and counts the replies of one sequence *)
LEMMA AnswerKeeps ==
    ASSUME UpdatesInv, rcv.pc \in {"diff", "channelDiff"}, UNCHANGED <<stream, chan, telegram, session>>,
           rcv' \in Receivers, box' \in Boxes, seen' \in Histories,
           rcv'.pc \in {"idle", "top"}, AllHeld(seen'.inHand, <<>>, rcv'.buffer), seen'.refused = seen.refused,
           rcv'.unreadable = seen'.streak, ~seen'.hasty
    PROVE  UpdatesInv'
<1>1. stream.buffer = <<>> /\ ~(seen.refused /\ ~session.self)
  BY WhileAsking
<1>2. UpdatesTypes'
  BY DEF UpdatesInv, UpdatesTypes
<1>3. NothingLost'
  BY <1>1 DEF NothingLost
<1>4. EmptyWhileAwaiting(rcv', stream')
  BY <1>1 DEF UpdatesInv, EmptyWhileAwaiting
<1>5. CountersRight(rcv', seen') /\ StaysQuiet(rcv', seen', session')
  BY <1>1 DEF CountersRight, StaysQuiet
<1> QED BY <1>2, <1>3, <1>4, <1>5 DEF UpdatesInv
LEMMA NoneHeld == ASSUME NEW b PROVE AllHeld({}, <<>>, b)
BY DEF AllHeld

LEMMA MissingIs ==
    ASSUME NEW b \in Boxes, NEW s \in Updates!Seqs, NEW to \in Int
    PROVE  Updates!Missing(b, s, to) \in Seq(UpdateEvents)
<1>1. PICK p \in Int : p = b[s].pos
  BY DEF Boxes, Entries
<1>2. \A i \in 1 .. (to - p) : [seq |-> s, n |-> p + i] \in UpdateEvents
  BY DEF UpdateEvents
<1>3. CASE to - p \in Nat
  <2>1. PICK k \in Nat : k = to - p
    BY <1>3
  <2>2. [i \in 1 .. k |-> [seq |-> s, n |-> p + i]] \in [1 .. k -> UpdateEvents]
    BY <1>2, <2>1, Zenon
  <2>3. [i \in 1 .. k |-> [seq |-> s, n |-> p + i]] \in Seq(UpdateEvents)
    BY <2>1, <2>2, SeqDef
  <2> QED BY <1>1, <2>1, <2>3, Zenon DEF Updates!Missing
<1>4. CASE to - p \notin Nat
  <2>1. 1 .. (to - p) = 1 .. 0
    BY <1>4
  <2>2. [i \in 1 .. 0 |-> [seq |-> s, n |-> p + i]] \in Seq(UpdateEvents)
    <3>1. [i \in 1 .. 0 |-> [seq |-> s, n |-> p + i]] \in [1 .. 0 -> UpdateEvents]
      OBVIOUS
    <3> QED BY <3>1, SeqDef
  <2> QED BY <1>1, <2>1, <2>2, Zenon DEF Updates!Missing
<1> QED BY <1>3, <1>4

LEMMA DifferenceArrivesKeeps == ASSUME UpdatesInv, Updates!DifferenceArrives PROVE UpdatesInv'
<1>0. rcv \in Receivers /\ box \in Boxes /\ seen \in Histories /\ telegram \in Telegrams
  BY DEF UpdatesInv, UpdatesTypes
<1>1. PICK s \in Updates!Seqs : s = Updates!Asked
  BY WhileAsking, Zenon DEF Updates!DifferenceArrives
<1>2. PICK to :
        /\ to \in {telegram.last[s], box[s].pos + 1}
        /\ box' = [box EXCEPT ![s] = [Updates!At(to) EXCEPT !.pending = to < telegram.last[s]]]
        /\ rcv' = [rcv EXCEPT !.pc = "top", !.preferLive = TRUE, !.unreadable[s] = 0,
                              !.buffer = IF Updates!Missing(box, s, to) = <<>> THEN @
                                         ELSE Append(@, Updates!Missing(box, s, to))]
        /\ seen' = [seen EXCEPT !.inHand = @ \cup Updates!ToSet(Updates!Missing(box, s, to)), !.streak[s] = 0]
  BY <1>1, Zenon DEF Updates!DifferenceArrives
<1>3. to \in Int
  BY <1>0, <1>2 DEF Telegrams, Boxes, Entries
<1>4. PICK x \in Seq(UpdateEvents) : x = Updates!Missing(box, s, to)
  BY <1>0, <1>3, MissingIs
<1>5. box' \in Boxes
  <2>1. [Updates!At(to) EXCEPT !.pending = to < telegram.last[s]] \in Entries
    <3>1. PICK p \in BOOLEAN : p = (to < telegram.last[s])
      <4>1. (to < telegram.last[s]) \in BOOLEAN
        BY <1>0, <1>3 DEF Telegrams
      <4> QED BY <4>1, Zenon
    <3>2. PICK a \in Entries : a = Updates!At(to)
      BY <1>3, AtIs
    <3>3. [a EXCEPT !.pending = p] \in Entries
      BY DEF Entries
    <3> QED BY <3>1, <3>2, <3>3, Zenon
  <2> QED BY <1>0, <1>2, <2>1 DEF Boxes
<1>6. PICK q \in Seq(Batches) :
        /\ q = IF x = <<>> THEN rcv.buffer ELSE Append(rcv.buffer, x)
        /\ \A e \in UpdateEvents : InSeq(e, x) => Held(e, <<>>, q)
  <2>1. rcv.buffer \in Seq(Batches)
    BY <1>0 DEF Receivers
  <2>2. CASE x = <<>>
    <3>1. \A e : ~InSeq(e, x)
      BY <2>2 DEF InSeq
    <3> QED BY <2>1, <2>2, <3>1, Zenon
  <2>3. CASE x # <<>>
    <3>1. x \in Batches
      BY <2>3 DEF Batches
    <3>2. Append(rcv.buffer, x) \in Seq(Batches)
      BY <2>1, <3>1
    <3>3. \A e \in UpdateEvents : InSeq(e, x) => Held(e, <<>>, Append(rcv.buffer, x))
      BY <2>1, HeldInNew
    <3> QED BY <2>3, <3>2, <3>3, Zenon
  <2> QED BY <2>2, <2>3
<1>7. PICK n \in [Updates!Seqs -> Nat] : n = [rcv.unreadable EXCEPT ![s] = 0] /\ rcv.unreadable = seen.streak
  <2>1. [rcv.unreadable EXCEPT ![s] = 0] \in [Updates!Seqs -> Nat]
    BY <1>0 DEF Receivers
  <2>2. rcv.unreadable = seen.streak
    BY DEF UpdatesInv, CountersRight
  <2> QED BY <2>1, <2>2, Zenon
<1>8. rcv' = [rcv EXCEPT !.pc = "top", !.preferLive = TRUE, !.unreadable = n, !.buffer = q]
  BY <1>0, <1>2, <1>4, <1>6, <1>7 DEF Receivers
<1>9. rcv' \in Receivers /\ rcv'.pc = "top" /\ rcv'.unreadable = n /\ rcv'.buffer = q
  BY <1>0, <1>8 DEF Receivers, ReceiverSteps
<1>10. PICK S \in SUBSET UpdateEvents : S = seen.inHand \cup Updates!ToSet(x)
  <2>1. Updates!ToSet(x) \subseteq UpdateEvents /\ seen.inHand \subseteq UpdateEvents
    BY <1>0 DEF Updates!ToSet, Histories
  <2>2. seen.inHand \cup Updates!ToSet(x) \in SUBSET UpdateEvents
    BY <2>1, Zenon
  <2> QED BY <2>2, Zenon
<1>11. seen' = [seen EXCEPT !.inHand = S, !.streak = n]
  BY <1>0, <1>2, <1>4, <1>7, <1>10 DEF Histories
<1>12. /\ seen' \in Histories /\ seen'.inHand = S /\ seen'.streak = n /\ seen'.hasty = seen.hasty
       /\ seen'.refused = seen.refused
  BY <1>0, <1>11 DEF Histories
<1>13. AllHeld(S, <<>>, q)
  <2>1. seen.inHand = {}
    BY WhileAsking DEF Updates!DifferenceArrives
  <2>2. \A e \in S : e \in UpdateEvents /\ InSeq(e, x)
    BY <1>10, <2>1 DEF Updates!ToSet, InSeq
  <2> QED BY <1>6, <2>2 DEF AllHeld
<1>14. ~seen.hasty
  BY DEF UpdatesInv, CountersRight
<1> QED BY <1>5, <1>9, <1>12, <1>13, <1>14, AnswerKeeps DEF Updates!DifferenceArrives

LEMMA DifferenceRefusedKeeps == ASSUME UpdatesInv, Updates!DifferenceRefused PROVE UpdatesInv'
<1>0. rcv \in Receivers /\ box \in Boxes /\ seen \in Histories
  BY DEF UpdatesInv, UpdatesTypes
<1>1. PICK s \in Updates!Seqs : s = Updates!Asked
  BY WhileAsking, Zenon DEF Updates!DifferenceRefused
<1>2. PICK p \in Receivers : p = Updates!Paused(rcv) /\ p.pc = "idle" /\ p.unreadable = rcv.unreadable
  BY <1>0, PausedIs, Zenon
<1>3. PICK n \in [Updates!Seqs -> Nat] : n = [rcv.unreadable EXCEPT ![s] = 0] /\ rcv.unreadable = seen.streak
  <2>1. [rcv.unreadable EXCEPT ![s] = 0] \in [Updates!Seqs -> Nat]
    BY <1>0 DEF Receivers
  <2>2. rcv.unreadable = seen.streak
    BY DEF UpdatesInv, CountersRight
  <2> QED BY <2>1, <2>2, Zenon
<1>4. PICK l \in BOOLEAN : l = (p.preferLive \/ rcv.pc = "channelDiff")
  OBVIOUS
<1>5. rcv' = [p EXCEPT !.unreadable[s] = 0, !.preferLive = @ \/ rcv.pc = "channelDiff"]
  BY <1>1, <1>2, Zenon DEF Updates!DifferenceRefused
<1>6. rcv' = [p EXCEPT !.unreadable = n, !.preferLive = l]
  BY <1>2, <1>3, <1>4, <1>5 DEF Receivers
<1>7. rcv' \in Receivers /\ rcv'.pc = "idle" /\ rcv'.unreadable = n
  BY <1>2, <1>6 DEF Receivers
<1>8. seen' = [seen EXCEPT !.streak = n]
  BY <1>0, <1>1, <1>3 DEF Histories, Updates!DifferenceRefused
<1>9. /\ seen' \in Histories /\ seen'.inHand = seen.inHand /\ seen'.streak = n /\ seen'.hasty = seen.hasty
      /\ seen'.refused = seen.refused
  BY <1>0, <1>8 DEF Histories
<1>10. seen.inHand = {} /\ ~seen.hasty
  BY WhileAsking DEF Updates!DifferenceRefused, UpdatesInv, CountersRight
<1>11. AllHeld(seen'.inHand, <<>>, rcv'.buffer)
  BY <1>9, <1>10, NoneHeld
<1> QED BY <1>0, <1>7, <1>9, <1>10, <1>11, AnswerKeeps DEF Updates!DifferenceRefused

LEMMA ChannelEndsKeeps == ASSUME UpdatesInv, NEW banned \in BOOLEAN, Updates!ChannelEnds(banned) PROVE UpdatesInv'
<1>0. rcv \in Receivers /\ box \in Boxes /\ seen \in Histories /\ "channel" \in Updates!Seqs
  BY DEF UpdatesInv, UpdatesTypes, Updates!Seqs
<1>1. box' \in Boxes
  <2>1. [box EXCEPT !["channel"] = Updates!Unknown] \in Boxes
    BY <1>0, UnknownIs DEF Boxes
  <2>2. [box EXCEPT !["channel"].pending = FALSE] \in Boxes
    BY <1>0 DEF Boxes, Entries
  <2> QED BY <2>1, <2>2, Zenon DEF Updates!ChannelEnds
<1>2. PICK n \in [Updates!Seqs -> Nat] : n = [rcv.unreadable EXCEPT !["channel"] = 0] /\ rcv.unreadable = seen.streak
  <2>1. [rcv.unreadable EXCEPT !["channel"] = 0] \in [Updates!Seqs -> Nat]
    BY <1>0 DEF Receivers
  <2>2. rcv.unreadable = seen.streak
    BY DEF UpdatesInv, CountersRight
  <2> QED BY <2>1, <2>2, Zenon
<1>3. rcv' = [rcv EXCEPT !.pc = "top", !.preferLive = TRUE, !.unreadable = n]
  BY <1>0, <1>2 DEF Receivers, Updates!ChannelEnds
<1>4. rcv' \in Receivers /\ rcv'.pc = "top" /\ rcv'.unreadable = n
  BY <1>0, <1>3 DEF Receivers, ReceiverSteps
<1>5. seen' = [seen EXCEPT !.streak = n]
  BY <1>0, <1>2 DEF Histories, Updates!ChannelEnds
<1>6. /\ seen' \in Histories /\ seen'.inHand = seen.inHand /\ seen'.streak = n /\ seen'.hasty = seen.hasty
      /\ seen'.refused = seen.refused
  BY <1>0, <1>5 DEF Histories
<1>7. seen.inHand = {} /\ ~seen.hasty
  BY WhileAsking DEF Updates!ChannelEnds, UpdatesInv, CountersRight
<1>8. AllHeld(seen'.inHand, <<>>, rcv'.buffer)
  BY <1>6, <1>7, NoneHeld
<1> QED BY <1>1, <1>4, <1>6, <1>7, <1>8, AnswerKeeps DEF Updates!ChannelEnds

(* The count of a sequence is its streak, so the limit is reached only by a streak *)
LEMMA DifferenceFailsKeeps ==
    ASSUME UpdatesInv, NEW unreadable \in BOOLEAN, Updates!DifferenceFails(unreadable)
    PROVE  UpdatesInv'
<1>0. rcv \in Receivers /\ box \in Boxes /\ seen \in Histories /\ MaxUnreadable \in Nat
      /\ rcv.unreadable = seen.streak /\ ~seen.hasty
  BY UpdatesAssumption DEF UpdatesInv, UpdatesTypes, CountersRight
<1>1. PICK s \in Updates!Seqs : s = Updates!Asked
  BY WhileAsking, Zenon DEF Updates!DifferenceFails
<1> DEFINE count == Updates!Counted(rcv, s, unreadable)
<1> DEFINE abandons == count >= MaxUnreadable
<1>2. /\ box' = IF abandons THEN [box EXCEPT ![s] = Updates!Unknown]
                ELSE IF unreadable /\ s = "channel" THEN [box EXCEPT ![s].pending = FALSE] ELSE box
      /\ rcv' = [rcv EXCEPT !.pc = "idle", !.paused = TRUE, !.preferLive = @ \/ s = "channel",
                            !.unreadable[s] = IF abandons THEN 0 ELSE count]
      /\ seen' = [seen EXCEPT !.streak[s] = IF abandons \/ ~unreadable THEN 0 ELSE @ + 1,
                              !.hasty = @ \/ (abandons /\ seen.streak[s] + 1 < MaxUnreadable)]
  BY <1>1, Zenon DEF Updates!DifferenceFails
<1>3. count \in Nat /\ count = (IF unreadable THEN seen.streak[s] + 1 ELSE 0) /\ seen.streak[s] \in Nat
  BY <1>0 DEF Updates!Counted, Histories
<1> HIDE DEF count
<1>4. box' \in Boxes
  <2>1. [box EXCEPT ![s] = Updates!Unknown] \in Boxes
    BY <1>0, UnknownIs DEF Boxes
  <2>2. [box EXCEPT ![s].pending = FALSE] \in Boxes
    BY <1>0 DEF Boxes, Entries
  <2> QED BY <1>0, <1>2, <2>1, <2>2, Zenon
<1>5. PICK k \in Nat : k = IF abandons THEN 0 ELSE count
  BY <1>0, <1>3
<1>6. k = IF abandons \/ ~unreadable THEN 0 ELSE seen.streak[s] + 1
  BY <1>3, <1>5
<1>7. abandons => ~(seen.streak[s] + 1 < MaxUnreadable)
  BY <1>0, <1>3
<1>8. PICK n \in [Updates!Seqs -> Nat] : n = [seen.streak EXCEPT ![s] = k]
  BY <1>0 DEF Histories
<1>9. PICK l \in BOOLEAN : l = (rcv.preferLive \/ s = "channel")
  OBVIOUS
<1>10. rcv' = [rcv EXCEPT !.pc = "idle", !.paused = TRUE, !.preferLive = l, !.unreadable = n]
  BY <1>0, <1>2, <1>5, <1>8, <1>9 DEF Receivers
<1>11. rcv' \in Receivers /\ rcv'.pc = "idle" /\ rcv'.unreadable = n
  BY <1>0, <1>10 DEF Receivers, ReceiverSteps
<1>12. seen' = [seen EXCEPT !.streak = n, !.hasty = FALSE]
  BY <1>0, <1>2, <1>6, <1>7, <1>8 DEF Histories
<1>13. /\ seen' \in Histories /\ seen'.inHand = seen.inHand /\ seen'.streak = n /\ ~seen'.hasty
       /\ seen'.refused = seen.refused
  BY <1>0, <1>12 DEF Histories
<1>14. seen.inHand = {}
  BY WhileAsking DEF Updates!DifferenceFails
<1>15. AllHeld(seen'.inHand, <<>>, rcv'.buffer)
  BY <1>13, <1>14, NoneHeld
<1> QED BY <1>4, <1>11, <1>13, <1>15, AnswerKeeps DEF Updates!DifferenceFails

LEMMA LoadIs == ASSUME NEW saved \in [Updates!Seqs -> Int] PROVE Updates!Load(saved) \in Boxes
<1>1. ASSUME NEW s \in Updates!Seqs PROVE [Updates!At(saved[s]) EXCEPT !.pending = TRUE] \in Entries
  <2>1. PICK a \in Entries : a = Updates!At(saved[s])
    BY AtIs
  <2>2. [a EXCEPT !.pending = TRUE] \in Entries
    BY DEF Entries
  <2> QED BY <2>1, <2>2
<1> QED BY <1>1, UnknownIs DEF Updates!Load, Boxes
LEMMA CreatedIs ==
    /\ Updates!Created \in Receivers /\ Updates!Created.pc = "idle" /\ Updates!Created.buffer = <<>>
    /\ Updates!Created.unreadable = [s \in Updates!Seqs |-> 0]
<1>1. <<>> \in Seq(Batches) /\ [s \in Updates!Seqs |-> 0] \in [Updates!Seqs -> Nat] /\ Updates!None \in Int
  BY DEF Updates!None
<1> QED BY <1>1 DEF Updates!Created, Receivers, ReceiverSteps
LEMMA FreshIs ==
    /\ [buffer |-> <<>>, cache |-> FALSE] \in Streams
    /\ [queue |-> <<>>, batch |-> <<>>, stalled |-> FALSE, news |-> FALSE] \in Channels
BY DEF Streams, Channels

LEMMA RestartKeeps == ASSUME UpdatesInv, Updates!Restart PROVE UpdatesInv'
<1>0. session \in Sessions /\ telegram \in Telegrams /\ seen \in Histories /\ ~seen.hasty
  BY DEF UpdatesInv, UpdatesTypes, CountersRight
<1>1. rcv' = Updates!Created /\ box' = Updates!Load(session.saved) /\ stream' = [buffer |-> <<>>, cache |-> FALSE]
      /\ chan' = [queue |-> <<>>, batch |-> <<>>, stalled |-> FALSE, news |-> FALSE]
      /\ session' = session /\ telegram' = telegram
  BY DEF Updates!Restart
<1>2. PICK n \in [Updates!Seqs -> Nat] : n = [s \in Updates!Seqs |-> 0]
  OBVIOUS
<1>3. seen' = [seen EXCEPT !.inHand = {}, !.streak = n, !.refused = FALSE]
  BY <1>2 DEF Updates!Restart
<1>4. seen' \in Histories /\ seen'.inHand = {} /\ seen'.streak = n /\ ~seen'.refused /\ ~seen'.hasty
  BY <1>0, <1>3 DEF Histories
<1>5. box' \in Boxes
  BY <1>0, <1>1, LoadIs DEF Sessions
<1>6. UpdatesTypes'
  BY <1>0, <1>1, <1>4, <1>5, CreatedIs, FreshIs DEF UpdatesTypes
<1>7. NothingLost'
  BY <1>4 DEF NothingLost, AllHeld
<1>8. EmptyWhileAwaiting(rcv', stream')
  BY <1>1, CreatedIs DEF EmptyWhileAwaiting
<1>9. CountersRight(rcv', seen') /\ StaysQuiet(rcv', seen', session')
  BY <1>1, <1>2, <1>4, CreatedIs DEF CountersRight, StaysQuiet
<1> QED BY <1>6, <1>7, <1>8, <1>9 DEF UpdatesInv

LEMMA UpdatesBegin == ASSUME Updates!Init PROVE UpdatesInv
<1>1. PICK start \in Beginnings :
        /\ session = [saved |-> start.saved, self |-> start.self, hash |-> start.hash]
        /\ telegram = [last |-> [s \in Updates!Seqs |-> 0], loggedIn |-> start.loggedIn, bot |-> start.bot,
                        events |-> start.events, noise |-> start.noise]
  BY UpdatesAssumption, Zenon DEF Updates!Init
<1>2. session \in Sessions
  BY <1>1 DEF Beginnings, Sessions
<1>3. telegram \in Telegrams
  BY <1>1 DEF Beginnings, Telegrams
<1>4. /\ rcv = Updates!Created /\ box = Updates!Load(session.saved) /\ stream = [buffer |-> <<>>, cache |-> FALSE]
      /\ chan = [queue |-> <<>>, batch |-> <<>>, stalled |-> FALSE, news |-> FALSE]
      /\ seen = [inHand |-> {}, streak |-> [s \in Updates!Seqs |-> 0], hasty |-> FALSE, refused |-> FALSE]
  BY Zenon DEF Updates!Init
<1>5. seen \in Histories /\ seen.inHand = {} /\ seen.streak = [s \in Updates!Seqs |-> 0] /\ ~seen.hasty
      /\ ~seen.refused
  BY <1>4 DEF Histories
<1>6. box \in Boxes
  BY <1>2, <1>4, LoadIs DEF Sessions
<1>7. UpdatesTypes
  BY <1>2, <1>3, <1>4, <1>5, <1>6, CreatedIs, FreshIs DEF UpdatesTypes
<1>8. NothingLost
  BY <1>5 DEF NothingLost, AllHeld
<1>9. EmptyWhileAwaiting(rcv, stream)
  BY <1>4, CreatedIs DEF EmptyWhileAwaiting
<1>10. CountersRight(rcv, seen) /\ StaysQuiet(rcv, seen, session)
  BY <1>4, <1>5, CreatedIs DEF CountersRight, StaysQuiet
<1> QED BY <1>7, <1>8, <1>9, <1>10 DEF UpdatesInv

(* A step of next() changes the session's positions only while nothing is in hand *)
LEMMA StoresWhenEmpty ==
    ASSUME UpdatesInv, Updates!Next, session'.saved # session.saved, rcv.pc # "idle"
    PROVE  seen.inHand = {}
<1>1. CASE Updates!StateSaved
  BY <1>1, StateSavedKeeps
<1>2. CASE Updates!Cancel
  BY <1>2, CancelKeeps
<1>3. CASE Updates!Sync
  BY <1>3 DEF Updates!Sync
<1>4. CASE Updates!CacheSelf
  BY <1>4 DEF UpdatesInv, UpdatesTypes, Sessions, Updates!CacheSelf
<1>5. CASE \/ Updates!Top \/ Updates!LookForSelf \/ Updates!Plan \/ Updates!StateArrives \/ Updates!StateRejected
           \/ Updates!Live \/ Updates!Choose \/ Updates!ResolveKind \/ Updates!Prepare
  BY <1>5 DEF Updates!Top, Updates!LookForSelf, Updates!Plan, Updates!StateArrives, Updates!StateRejected,
         Updates!Live, Updates!Choose, Updates!ResolveKind, Updates!Prepare
<1>6. CASE \/ Updates!DifferenceArrives \/ Updates!DifferenceRefused \/ Updates!WakeOnUpdate
           \/ Updates!WakeOnFailureOrTimer \/ Updates!CallNext \/ Updates!CachePeers
  BY <1>6 DEF Updates!DifferenceArrives, Updates!DifferenceRefused, Updates!WakeOnUpdate,
         Updates!WakeOnFailureOrTimer, Updates!CallNext, Updates!CachePeers
<1>7. CASE Updates!Task \/ Updates!Fails \/ Updates!Restart \/ Updates!ConnectionFails
  BY <1>7 DEF Updates!Task, Updates!Forward, Updates!Overflow, Updates!Fails, Updates!Restart,
         Updates!ConnectionFails
<1>8. CASE \E b \in BOOLEAN : Updates!DifferenceFails(b) \/ Updates!ChannelEnds(b)
  BY <1>8 DEF Updates!DifferenceFails, Updates!ChannelEnds
<1>9. CASE \/ Updates!EmitNoise \/ Updates!LogIn \/ Updates!PauseEnds \/ Updates!CheckIsDue
           \/ \E s \in Updates!Seqs : Updates!Emit(s) \/ Updates!DeadlinePasses(s)
  BY <1>9 DEF Updates!EmitNoise, Updates!LogIn, Updates!PauseEnds, Updates!CheckIsDue, Updates!Emit,
         Updates!DeadlinePasses
<1> QED BY <1>1, <1>2, <1>3, <1>4, <1>5, <1>6, <1>7, <1>8, <1>9, Zenon DEF Updates!Next, Updates!Run

(* Every step of the receiver of updates, of the task that feeds it, of the
   application and of Telegram keeps the invariant: an update that was applied is in
   a buffer until it is handed out, also when the application stores the positions
   before it has taken what is buffered; the buffers are empty wherever next() awaits
   Telegram or the session, so that next() stores nothing that was not handed out; and a refused login stops recovery until the user is
   stored *)
THEOREM UpdatesInvariance ==
    ASSUME UpdatesInv, Updates!Next
    PROVE  UpdatesInv' /\ Updates!StoredIsHandedOut
<1>1. UpdatesInv'
  <2>1. CASE Updates!Run
    BY <2>1, TopKeeps, LookForSelfKeeps, PlanKeeps, StateArrivesKeeps, StateSavedKeeps, StateRejectedKeeps, LiveKeeps,
       ChooseKeeps, ResolveKindKeeps, PrepareKeeps, DifferenceArrivesKeeps, DifferenceRefusedKeeps,
       WakeOnUpdateKeeps, WakeOnFailureOrTimerKeeps, CallNextKeeps, CachePeersKeeps, Zenon DEF Updates!Run
  <2>2. CASE Updates!Task \/ Updates!Fails \/ Updates!Cancel \/ Updates!Sync \/ Updates!Restart
             \/ Updates!ConnectionFails
    BY <2>2, TaskKeeps, FailsKeeps, CancelKeeps, SyncKeeps, RestartKeeps, ConnectionFailsKeeps, Zenon
  <2>3. CASE \E b \in BOOLEAN : Updates!DifferenceFails(b) \/ Updates!ChannelEnds(b)
    BY <2>3, DifferenceFailsKeeps, ChannelEndsKeeps
  <2>4. CASE Updates!EmitNoise \/ Updates!LogIn \/ Updates!CacheSelf \/ Updates!PauseEnds \/ Updates!CheckIsDue
    BY <2>4, EmitNoiseKeeps, LogInKeeps, CacheSelfKeeps, ClockKeeps, Zenon
  <2>5. CASE \E s \in Updates!Seqs : Updates!Emit(s) \/ Updates!DeadlinePasses(s)
    BY <2>5, EmitKeeps, DeadlinePassesKeeps
  <2> QED BY <2>1, <2>2, <2>3, <2>4, <2>5, Zenon DEF Updates!Next
<1>2. Updates!StoredIsHandedOut
  BY StoresWhenEmpty, Zenon DEF Updates!StoredIsHandedOut
<1> QED BY <1>1, <1>2

LEMMA UpdatesFollows ==
    ASSUME UpdatesInv
    PROVE  Updates!UpdatesKept /\ Updates!GivenUpLate /\ Updates!QuietAfterRejection
<1>1. Updates!UpdatesKept
  <2>1. ASSUME NEW e \in seen.inHand
        PROVE  e \in Updates!ToSet(stream.buffer)
                 \cup UNION {Updates!ToSet(rcv.buffer[i]) : i \in DOMAIN rcv.buffer}
    <3>1. Held(e, stream.buffer, rcv.buffer)
      BY DEF UpdatesInv, NothingLost, AllHeld
    <3>2. \A x : InSeq(e, x) => e \in Updates!ToSet(x)
      BY DEF InSeq, Updates!ToSet
    <3> QED BY <3>1, <3>2, Zenon DEF Held
  <2> QED BY <2>1 DEF Updates!UpdatesKept
<1>2. Updates!GivenUpLate
  BY DEF UpdatesInv, CountersRight, Updates!GivenUpLate
<1>3. Updates!QuietAfterRejection
  BY DEF UpdatesInv, StaysQuiet, Updates!QuietAfterRejection
<1> QED BY <1>1, <1>2, <1>3

LEMMA UpdatesRest == ASSUME UpdatesInv, UNCHANGED updatesVars PROVE UpdatesInv'
BY OutsideKeeps DEF UpdatesInv, UpdatesTypes, updatesVars

-----------------------------------------------------------------------------
(* The network: the component in focus keeps its invariant *)

NetworkInv ==
    /\ focus = "closures" => WatchInv
    /\ focus = "retry" => RetryInv
    /\ focus = "handshake" => ShakeInv
    /\ focus = "setups" => SetupInv
    /\ focus = "updates" => UpdatesInv

(* Whichever component a behaviour of the network is about keeps the invariant of that
   component: the callers that the runner watches, the retries of a request, the exchanges
   of keys, the setups or the receiver of updates *)
THEOREM NetworkInvariance == NetworkSpec => []NetworkInv
<1>1. NetworkInit => NetworkInv
  BY WatchInit, RetryInit, ShakeInit, SetupInit, UpdatesBegin DEF NetworkInit, NetworkInv
<1>2. NetworkInv /\ [NetworkNext]_networkVars => NetworkInv'
  <2> SUFFICES ASSUME NetworkInv, [NetworkNext]_networkVars PROVE NetworkInv'
    OBVIOUS
  <2>1. focus' = focus
    BY DEF NetworkNext, InWatch, InRetries, InShakes, InSetups, InUpdates, networkVars
  <2>2. ASSUME focus = "closures" PROVE WatchInv'
    <3>1. [Watch!Next]_(Watch!watchVars)
      BY <2>2 DEF NetworkNext, InWatch, InRetries, InShakes, InSetups, InUpdates, networkVars, watchVars, Watch!watchVars
    <3> QED
      BY <2>2, <3>1, WatchNext DEF NetworkInv
  <2>3. ASSUME focus = "retry" PROVE RetryInv'
    <3>1. [Retries!Next]_(Retries!retryVars)
      BY <2>3 DEF NetworkNext, InWatch, InRetries, InShakes, InSetups, InUpdates, networkVars, retryVars, Retries!retryVars
    <3> QED
      BY <2>3, <3>1, RetryNext DEF NetworkInv
  <2>4. ASSUME focus = "handshake" PROVE ShakeInv'
    <3>1. [Shakes!Next]_(Shakes!handshakeVars)
      BY <2>4 DEF NetworkNext, InWatch, InRetries, InShakes, InSetups, InUpdates, networkVars, shakeVars,
                  Shakes!handshakeVars
    <3> QED
      BY <2>4, <3>1, ShakeNext DEF NetworkInv
  <2>5. ASSUME focus = "setups" PROVE SetupInv'
    <3>1. [Setups!Next]_(Setups!setupVars)
      BY <2>5 DEF NetworkNext, InWatch, InRetries, InShakes, InSetups, InUpdates, networkVars, setupVars, Setups!setupVars
    <3> QED
      BY <2>5, <3>1, SetupNext DEF NetworkInv
  <2>6. ASSUME focus = "updates" PROVE UpdatesInv'
    <3>1. Updates!Next \/ UNCHANGED updatesVars
      BY <2>6 DEF NetworkNext, InWatch, InRetries, InShakes, InSetups, InUpdates, networkVars
    <3>2. CASE UNCHANGED updatesVars
      BY <2>6, <3>2, UpdatesRest DEF NetworkInv
    <3> QED
      BY <2>6, <3>1, <3>2, UpdatesInvariance DEF NetworkInv
  <2> QED
    BY <2>1, <2>2, <2>3, <2>4, <2>5, <2>6 DEF NetworkInv
<1> QED
  BY <1>1, <1>2, PTL DEF NetworkSpec

(* Calls are accounted for: no closure is lost, nothing that may have been executed is sent
   again, and sleeps stay within RetryBudget *)
THEOREM CallsAccountedCorrect == NetworkSpec => []CallsAccounted
<1>1. NetworkInv => CallsAccounted
  BY WatchImplies, RetryImplies DEF NetworkInv, CallsAccounted
<1> QED
  BY <1>1, NetworkInvariance, PTL

(* Keys that create_key returns, the retries it reports and the jobs of run_dh_job agree
   with Telegram's decisions and with DH_JOBS *)
THEOREM KeysAgreeCorrect == NetworkSpec => []KeysAgree
<1>1. NetworkInv => KeysAgree
  BY ShakeImplies DEF NetworkInv, KeysAgree
<1> QED
  BY <1>1, NetworkInvariance, PTL

(* Keys, addresses and authorizations that are stored agree with what happened, although
   setups interleave and are aborted at every await *)
THEOREM SetupsAgreeCorrect == NetworkSpec => []SetupsAgree
<1>1. NetworkInv => SetupsAgree
  BY SetupImplies DEF NetworkInv, SetupsAgree
<1> QED
  BY <1>1, NetworkInvariance, PTL

(* An update that was applied reaches the application or waits in a buffer, whenever next() is
   dropped; next() stores positions only when everything up to them was handed out; a backlog is
   given up only after as many unreadable replies in a row as the limit says; and a refused
   login stays refused until the user is stored *)
THEOREM UpdatesKeptCorrect == NetworkSpec => UpdatesKept
<1>1. NetworkInv => (focus = "updates" =>
        Updates!UpdatesKept /\ Updates!GivenUpLate /\ Updates!QuietAfterRejection)
  BY UpdatesFollows DEF NetworkInv
<1>2. NetworkInv /\ [NetworkNext]_networkVars => [focus = "updates" => Updates!StoredIsHandedOut]_networkVars
  <2> SUFFICES ASSUME NetworkInv, NetworkNext, focus = "updates" PROVE Updates!StoredIsHandedOut
    BY DEF networkVars
  <2>1. Updates!Next
    BY DEF NetworkNext, InWatch, InRetries, InShakes, InSetups, InUpdates
  <2> QED
    BY <2>1, UpdatesInvariance DEF NetworkInv
<1> QED
  BY <1>1, <1>2, NetworkInvariance, PTL DEF NetworkSpec, UpdatesKept
=============================================================================
