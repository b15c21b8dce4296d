------------------------------- MODULE Retry --------------------------------
(***************************************************************************)
(* The retries of one request: do_invoke_in_dc, check_retry and the        *)
(* runner's answer to it (grammers-mtsender/src/sender_pool.rs) under the  *)
(* policies of grammers-mtsender/src/configuration.rs: AutoSleep within a  *)
(* RetryBudget.  The pool may stop at any moment.  Durations are seconds.  *)
(***************************************************************************)
EXTENDS Naturals

CONSTANTS
    Tries, Threshold, IoDelay,  \* AutoSleep
    MaxSleep,                   \* RetryBudget
    FloodWaits,                 \* the waits that Telegram asks for
    WidthMax                    \* the greatest Duration: sums beyond it overflow

VARIABLES
    request,    \* where do_invoke_in_dc is, its fail_count and slept_so_far, and
                \* the last error
    pool,       \* "running", "stopping" or "gone"
    executed,   \* history: how often Telegram executed the request
    waited      \* history: the time that has passed in sleeps

retryVars == <<request, pool, executed, waited>>

(* Errors by what the policy tells apart.  A shared error is its root cause. *)
Read(sent, io) == [kind |-> "read", sent |-> sent, io |-> io, wait |-> 0]
Flood(n) == [kind |-> "flood", sent |-> FALSE, io |-> "none", wait |-> n]
Io(io) == [kind |-> "io", sent |-> FALSE, io |-> io, wait |-> 0]
Refused == [kind |-> "rpc", sent |-> FALSE, io |-> "none", wait |-> 0]
Dropped == [kind |-> "dropped", sent |-> TRUE, io |-> "none", wait |-> 0]
NoError == [kind |-> "none", sent |-> FALSE, io |-> "none", wait |-> 0]
NotSent == {Read(FALSE, "lost"), Read(FALSE, "none"), Io("lost"), Io("full"), Refused} \cup {Flood(n) : n \in FloodWaits}
MaySent == {Read(TRUE, "lost"), Read(TRUE, "none")}

-----------------------------------------------------------------------------
Break == WidthMax + 1
RetryableIo(e) == e.io = "lost"
(* AutoSleep::should_retry *)
FaultyAutoSleep(e, count) ==
    IF count <= Tries /\ e.kind \in {"read", "io"} /\ RetryableIo(e) THEN IoDelay
    ELSE IF count <= Tries /\ e.kind = "flood" /\ e.wait <= Threshold THEN e.wait
    ELSE Break
AutoSleep(e, count) ==
    IF count <= Tries /\ RetryableIo(e) /\ (e.kind = "io" \/ (e.kind = "read" /\ ~e.sent)) THEN IoDelay
    ELSE IF count <= Tries /\ e.kind = "flood" /\ e.wait <= Threshold THEN e.wait
    ELSE Break
(* RetryBudget::should_retry; a sum that overflows is no answer *)
FaultyShouldRetry(e, count, slept) ==
    LET delay == AutoSleep(e, count)
    IN  IF delay # Break /\ slept <= MaxSleep THEN delay ELSE Break
ShouldRetry(e, count, slept) ==
    LET delay == AutoSleep(e, count)
    IN  IF delay # Break /\ slept + delay <= WidthMax /\ slept + delay <= MaxSleep THEN delay ELSE Break

-----------------------------------------------------------------------------
(* raw_invoke_shared_in_dc answers *)
Answer ==
    /\ request.pc = "invoke" /\ pool = "running"
    /\ executed' = executed + 1 /\ request' = [request EXCEPT !.pc = "ok"]
    /\ UNCHANGED <<pool, waited>>
Fail(e, ran) ==
    /\ request.pc = "invoke" /\ (ran => e.sent)
    /\ executed' = IF ran THEN executed + 1 ELSE executed
    /\ request' = [request EXCEPT !.pc = "check", !.error = e]
    /\ UNCHANGED <<pool, waited>>
(* check_retry: a pool that stops and one that is full are not asked ... *)
CheckRetry ==
    /\ request.pc = "check"
    /\ request' = [request EXCEPT !.pc = IF pool # "running" \/ request.error.io = "full" THEN "failed" ELSE "ask"]
    /\ UNCHANGED <<pool, executed, waited>>
(* ... the question is queued, unless the runner is gone meanwhile ... *)
SendCheck ==
    /\ request.pc = "ask"
    /\ request' = IF pool = "gone" THEN [request EXCEPT !.pc = "failed", !.error = Dropped]
                  ELSE [request EXCEPT !.pc = "asked"]
    /\ UNCHANGED <<pool, executed, waited>>
(* ... and the runner answers it, or drops it *)
RunnerAnswers ==
    LET delay == ShouldRetry(request.error, request.count, request.slept)
    IN  /\ request.pc = "asked" /\ pool # "gone"
        /\ request' = IF delay = Break THEN [request EXCEPT !.pc = "failed"]
                      ELSE [request EXCEPT !.pc = "sleep", !.delay = delay]
        /\ UNCHANGED <<pool, executed, waited>>
RunnerGone ==
    /\ request.pc = "asked" /\ pool = "gone"
    /\ request' = [request EXCEPT !.pc = "failed", !.error = Dropped]
    /\ UNCHANGED <<pool, executed, waited>>
FaultyWake ==
    /\ request.pc = "sleep"
    /\ request' = [request EXCEPT !.pc = "invoke", !.slept = @ + request.delay, !.delay = 0]
    /\ waited' = waited + request.delay
    /\ UNCHANGED <<pool, executed>>
Wake ==
    /\ request.pc = "sleep"
    /\ request' = [request EXCEPT !.pc = "invoke", !.count = @ + 1, !.slept = @ + request.delay, !.delay = 0]
    /\ waited' = waited + request.delay
    /\ UNCHANGED <<pool, executed>>
Stop ==
    /\ pool # "gone" /\ pool' = IF pool = "running" THEN "stopping" ELSE "gone"
    /\ UNCHANGED <<request, executed, waited>>

-----------------------------------------------------------------------------
Init ==
    /\ request = [pc |-> "invoke", count |-> 1, slept |-> 0, delay |-> 0, error |-> NoError]
    /\ pool = "running" /\ executed = 0 /\ waited = 0

Invoke == Answer \/ \E e \in NotSent : Fail(e, FALSE)
Run == Invoke \/ CheckRetry \/ SendCheck \/ RunnerAnswers \/ RunnerGone \/ Wake
Next == Run \/ Stop \/ \E e \in MaySent, ran \in BOOLEAN : Fail(e, ran)

Spec == Init /\ [][Next]_retryVars

-----------------------------------------------------------------------------
(* Properties *)

(* However attempts fail, the request is executed at most once: what may have
   been sent is not sent again *)
SentOnce == executed <= 1

(* All its sleeps together stay within the budget *)
WithinBudget == waited <= MaxSleep

(* What every request must come to, although each retry may fail again and the
   pool may stop while it is asked *)
HasEnded == request.pc \in {"ok", "failed"}
=============================================================================
