------------------------------ MODULE MCNetwork -----------------------------
(* Instances for TLC of the modules about connections.  The components are
   independent: `focus` says which of them a behaviour is about.  Those that Network
   does not have keep their state in variables that Network leaves unused then, of
   which only the values matter, not the names. *)
EXTENDS Network

(* For Network: two callers that wait and go away, one request that may sleep three
   units of time, and two exchanges that share one permit; and two datacenters, of
   which one is not stored, with configurations that give it an address of either
   kind, and one that is invalid *)
Addr(at) == [via |-> IF at = "bad" THEN "bad" ELSE "net", at |-> at]
DcOption(dc, v6th, at, special) == [dc |-> dc, ipv6 |-> v6th, addr |-> Addr(at), special |-> special]
Answers == {<<DcOption("far", TRUE, "a", FALSE), DcOption("far", FALSE, "b", FALSE)>>,
            <<DcOption("far", FALSE, "c", FALSE), DcOption("home", FALSE, "bad", TRUE)>>,
            <<DcOption("far", FALSE, "d", FALSE), DcOption("home", FALSE, "bad", FALSE)>>}
HomeStored == [d \in {"home"} |-> [v4 |-> Addr("old"), v6 |-> [via |-> "none", at |-> "none"], key |-> 1]]

(* Packets of several sizes, plain and encrypted, one too large, and a status, in
   segments of three *)
Cells(size, pad, plain, status) == [size |-> size, pad |-> pad, plain |-> plain, status |-> status]
Sends == {<<Cells(2, 1, TRUE, FALSE), Cells(3, 1, FALSE, FALSE), Cells(2, 0, TRUE, FALSE)>>,
          <<Cells(5, 0, FALSE, FALSE), Cells(1, 0, FALSE, TRUE)>>,
          <<Cells(3, 0, FALSE, FALSE), Cells(6, 0, TRUE, FALSE)>>}
Reader == INSTANCE PacketReader WITH
    Transports <- {"abridged", "intermediate", "full", "padded"}, Plans <- Sends, Short <- 4,
    FirstBuffer <- 2, BusyBuffer <- 4, MaximumData <- 7, Segment <- 3,
    transport <- dcs, plan <- setup, arrived <- configLock, ready <- keys, rx <- copier,
    expired <- copied, probe <- given, due <- setupFaults

(* Proxies that accept, at once or after informational responses, and refuse *)
Response(size, code) == [size |-> size, code |-> code]
Responses == {<<Response(2, 200)>>, <<Response(1, 100), Response(2, 200)>>, <<Response(2, 407)>>,
              <<Response(1, 100), Response(1, 100), Response(1, 200)>>, <<Response(6, 200)>>}
Proxies == INSTANCE ProxyStream WITH
    Kinds <- {"http", "tls", "faketls"}, Replies <- Responses, MaxHeader <- 4, MaxInformational <- 1,
    Tunnel <- 5, Records <- <<2, 1, 2>>, Writes <- <<3, 2>>, RecordMax <- 2,
    proxy <- request, tunnel <- pool, reply <- executed, taken <- waited, rxHead <- dcs,
    rxLeft <- setup, given <- configLock, out <- keys, tx <- copier, pending <- copied, outer <- given, wire <- setupFaults

(* A receiver that knows its positions and hears noise, one that meets faults, one
   whose login was revoked, one that was never logged in, and one that lacks the
   access hash of the channel *)
Positions(a, c) == [account |-> a, channel |-> c]
Known == [saved |-> Positions(0, 0), self |-> TRUE, hash |-> TRUE, loggedIn |-> TRUE, bot |-> FALSE,
          events |-> Positions(1, 1), noise |-> FALSE, faults |-> 0]
Begins == {[Known EXCEPT !.noise = TRUE],
           [Known EXCEPT !.faults = 2, !.events = Positions(1, 0)],
           [Known EXCEPT !.events = Positions(1, 0), !.loggedIn = FALSE],
           [Known EXCEPT !.saved = Positions(-1, -1), !.events = Positions(1, 0), !.self = FALSE,
                         !.loggedIn = FALSE, !.noise = TRUE]}
          \cup {[Known EXCEPT !.saved = Positions(-1, 0), !.events = Positions(0, 1), !.hash = FALSE,
                              !.bot = b] : b \in BOOLEAN}

(* The message box of a receiver: a channel that catches up through gaps, deferrals
   and recoveries that are put off *)
ChannelEvent(pts, msg) == [kind |-> "pts", key |-> 2, pts |-> pts, count |-> 1, msg |-> msg]
Box == INSTANCE MessageBox WITH
    Channels <- {2}, Events <- {ChannelEvent(2, FALSE), ChannelEvent(3, TRUE)},
    Start <- 1, Saved <- {{2}}, LogIn <- FALSE, MaxSeq <- 0, MaxBatch <- 1, MaxExtra <- 0,
    Timeouts <- {1}, GapTimeout <- 1, NoUpdatesTimeout <- 1, RetryDelayLimit <- 1, DeferDelay <- 1,
    MaxHeld <- 1, MaxDeferrals <- 0, MaxFailures <- 1,
    mb <- shake, call <- asked, srv <- incoming, srvSeq <- verdict, base <- jobs, delivered <- permits

(* A pool at the limits of admission: two calls, a body that may exceed the limit,
   a pool that may be parked, and one panic *)
Pool == INSTANCE SenderPool WITH
    Calls <- {"c1", "c2"}, Dcs <- {2}, Dc <- [c \in {"c1", "c2"} |-> 2], Sizes <- {1, 2},
    SlotLimit <- 2, ByteLimit <- 1, Parking <- BOOLEAN, Stable <- 1, DelayLimit <- 1,
    MaxSetups <- 2, Before <- {0}, MaxControls <- 0, MaxPanics <- 1,
    call <- call, slots <- watching, bytes <- closure, routes <- group, control <- runner,
    requests <- request, open <- pool, phase <- executed, failed <- waited, pending <- shake,
    setups <- asked, conns <- incoming, listed <- verdict, pacing <- jobs, started <- permits, old <- odd, since <- abandoned

-----------------------------------------------------------------------------
Init ==
    \/ NetworkInit
    \/ focus = "reader" /\ Reader!Init /\ NoWatch /\ NoRetries /\ NoShakes /\ NoUpdates
    \/ focus = "proxy" /\ Proxies!Init /\ NoWatch /\ NoShakes /\ NoUpdates
    \/ focus = "box" /\ Box!Init /\ odd = Blank /\ abandoned = Blank
                     /\ NoWatch /\ NoRetries /\ NoSetups /\ NoUpdates
    \/ focus = "pool" /\ Pool!Init /\ NoSetups /\ NoUpdates

(* A step of the component in focus leaves the other variables alone *)
InReader == focus = "reader" /\ UNCHANGED <<focus, watchVars, retryVars, shakeVars, updatesVars>>
InProxies == focus = "proxy" /\ UNCHANGED <<focus, watchVars, shakeVars, updatesVars>>
InBox == focus = "box" /\ UNCHANGED <<focus, watchVars, retryVars, odd, abandoned, setupVars, updatesVars>>
InPool == focus = "pool" /\ UNCHANGED <<focus, setupVars, updatesVars>>

Next ==
    \/ NetworkNext
    \/ InReader /\ Reader!Next
    \/ InProxies /\ Proxies!Next
    \/ InBox /\ Box!Next
    \/ InPool /\ Pool!Next

Spec == Init /\ [][Next]_networkVars

-----------------------------------------------------------------------------
(* Fairness.  As `focus` never changes, a condition on steps of several components
   is one condition for each of them.  The README says why the code justifies
   each. *)
Fair1 ==
    \/ InWatch /\ Watch!Poll
    \/ InSetups /\ Setups!Start("home")
    \/ InShakes /\ Shakes!Progress("h1")
    \/ InRetries /\ Retries!Run
    \/ InUpdates /\ Updates!Run
    \/ InBox /\ Box!Continue
    \/ InPool /\ Pool!Runner
Fair2 ==
    \/ InWatch /\ Watch!Caller("w1")
    \/ InSetups /\ Setups!Start("far")
    \/ InShakes /\ Shakes!Progress("h2")
    \/ InRetries /\ pool = "stopping" /\ Retries!Stop
    \/ InUpdates /\ Updates!Task
    \/ InPool /\ Pool!Tick
Fair3 ==
    \/ InWatch /\ Watch!Caller("w2")
    \/ InSetups /\ Setups!CopyAuth
    \/ InUpdates /\ Updates!CacheSelf
    \/ InPool /\ Pool!Advance("c1")
Fair4 == InPool /\ Pool!Advance("c2")
Fair5 == InPool /\ Pool!TaskRuns(1)
Fair6 == InPool /\ Pool!TaskRuns(2)
(* Steps that are held up again and again *)
Strong1 ==
    \/ InSetups /\ Setups!SetUp("home")
    \/ InUpdates /\ Updates!PauseEnds
    \/ InBox /\ Box!Tick
Strong2 ==
    \/ InSetups /\ Setups!SetUp("far")
    \/ InUpdates /\ Updates!CheckIsDue
    \/ InBox /\ Box!CheckDeadlines
Strong3 ==
    \/ InSetups /\ Setups!Copy
    \/ InUpdates /\ Updates!DeadlinePasses("account")
    \/ InBox /\ Box!TakeReleasedUpdates
Strong4 ==
    \/ InUpdates /\ Updates!DeadlinePasses("channel")
    \/ InBox /\ Box!ChannelCaughtUp(2)

FairSpec ==
    /\ Spec
    /\ WF_networkVars(Fair1) /\ WF_networkVars(Fair2) /\ WF_networkVars(Fair3) /\ WF_networkVars(Fair4)
    /\ WF_networkVars(Fair5) /\ WF_networkVars(Fair6)
    /\ SF_networkVars(Strong1) /\ SF_networkVars(Strong2) /\ SF_networkVars(Strong3) /\ SF_networkVars(Strong4)

-----------------------------------------------------------------------------
(* Properties: what the modules state, of the component in focus.  Each part has its
   explanation in its module. *)

(* However streams are cut and calls dropped and repeated, the session is given the
   packets that were sent, whole, deciphered and in order; the connection ends for
   the reason there is, and not by a deadline that an answer beat; a tunnel carries
   the bytes of both sides once and in order; and what counts as sent has left *)
BytesIntact ==
    /\ focus = "reader" =>
           Reader!PacketsIntact /\ Reader!EndsForAReason /\ Reader!AnswerBeatsDeadline
    /\ focus = "proxy" =>
           Proxies!TunnelIntact /\ Proxies!WrittenOnce /\ Proxies!SentIsFlushed

(* Whoever waits is served.  A call in the pool is told or its permits are back; a
   group of which every caller is gone is cancelled; a request that is tried again
   ends although the pool may stop meanwhile; no key exchange waits for a permit
   that is never given back; and the stored key of the other datacenter gets
   authorized, however often it was lost before.  Calls and attempts differ in
   nothing, so one stands for all. *)
Waiting ==
    \/ focus = "pool" /\ Pool!Started("c1")
    \/ focus = "closures" /\ Watch!Abandoned
    \/ focus = "retry" /\ ~Retries!HasEnded
    \/ focus = "handshake" /\ ~Shakes!HasEnded("h1")
    \/ focus = "setups" /\ ~Setups!Authorized
Served ==
    \/ focus = "pool" /\ Pool!Settled("c1")
    \/ focus = "closures" /\ Watch!Cancelled
    \/ focus = "retry" /\ Retries!HasEnded
    \/ focus = "handshake" /\ Shakes!HasEnded("h1")
    \/ focus = "setups" /\ Setups!Authorized
CallersServed == Waiting ~> Served

(* A user that is logged in catches up again and again, although updates are
   dropped, the notice of a failure finds no room, next() is cancelled, requests
   fail, and live updates never stop; and so does a channel, whatever is deferred,
   put off or held back *)
CaughtUp == []<>(/\ focus = "updates" => Updates!UpToDate
                 /\ focus = "box" => Box!CaughtUp(2))
=============================================================================
