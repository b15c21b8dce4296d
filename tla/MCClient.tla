------------------------------- MODULE MCClient -----------------------------
(* Instances for TLC of the modules about the client and its session.  As in
   MCNetwork, `focus` says which component a behaviour is about, and those that Client
   does not have keep their state in variables that it leaves unused then. *)
EXTENDS Client, TLC

(* For Client: three tasks that run, connect or stop one client; three datacenters, as
   many as one step of a login may visit; two tasks that write three times, one of which
   may be killed; two peers, of which one changes back and forth, with two calls at a
   time; a file of two chunks, or of three of which the last one is short, that moves
   between datacenters; streams that are shorter or longer than announced, or just as
   long; and albums and forwards of up to four messages *)
Plan(a, b, c) == ("u1" :> a) @@ ("u2" :> b) @@ ("u3" :> c)
Mix == {Plan("run", "run", "run"), Plan("run", "stop", "none"), Plan("run", "until", "none"),
        Plan("connect", "stop", "none"), Plan("until", "stop", "none")}

(* Listings without items, with one, and with gaps *)
Pages == INSTANCE Paging WITH
    Histories <- {{}, {1}, {1, 2, 3, 4}, {1, 2, 5, 6, 7}}, Limits <- {2, 3, 9}, MaxListed <- 9,
    MaxPage <- 2, MaxPageFaults <- 2,
    kind <- disk, history <- work, iter <- holder, query <- cached, step <- writer, given <- stage, ended <- acked,
    cut <- loose, again <- known, pageFaults <- kills

(* A connection with two invocations: one that is tracked and sent again once, and
   one that is malformed *)
Connection == INSTANCE Sender WITH
    Calls <- {"c1", "c2"}, Trackers <- {"t"}, Group <- ("c1" :> "t") @@ ("c2" :> "free"),
    NoTracker <- "free", Malformed <- {"c2"}, Ping <- "ping", MaxPacket <- 1, MaxRetries <- 1,
    MaxPings <- 0, MaxServices <- 1,
    caller <- disk, outcome <- work, stage <- holder, sentAt <- cached, queue <- writer,
    closed <- stage, routed <- acked, task <- loose, req <- known, packet <- kills,
    partial <- writes, made <- truth, done <- written, bad <- slots, limits <- evictions, inbox <- forgetIn, arrived <- caching, replies <- unsure, executed <- cacheFaults

-----------------------------------------------------------------------------
Init ==
    \/ ClientInit
    \/ focus = "pages" /\ Pages!Init /\ split = Blank /\ writes = Blank /\ NoLife /\ NoLogin /\ NoCache /\ NoTransfers
    \/ focus = "sender" /\ Connection!Init /\ split = Blank /\ NoLife /\ NoLogin /\ NoTransfers

(* A step of the component in focus leaves the other variables alone *)
InPages == focus = "pages" /\ UNCHANGED <<focus, lifeVars, loginVars, split, writes, cacheVars, transferVars>>
InConnection == focus = "sender" /\ UNCHANGED <<focus, lifeVars, loginVars, split, transferVars>>

Next ==
    \/ ClientNext
    \/ InPages /\ Pages!Next
    \/ InConnection /\ Connection!Next

Spec == Init /\ [][Next]_clientVars

-----------------------------------------------------------------------------
(* Fairness, as in MCNetwork: one condition for each component *)
Fair1 ==
    \/ InLife /\ Life!Call("u1")
    \/ InDownload /\ Download!Chunked(0)
    \/ InUpload /\ outcome = "running" /\ Upload!Work("up1")
    \/ InCache /\ Cache!CallRuns("k1")
    \/ InLogin /\ SignIn!Steps
    \/ InConnection /\ Connection!Proceed
Fair2 ==
    \/ InLife /\ Life!Call("u2")
    \/ InDownload /\ Download!Chunked(2)
    \/ InUpload /\ outcome = "running" /\ Upload!Work("up2")
    \/ InCache /\ Cache!CallRuns("k2")
    \/ InConnection /\ Connection!Fill
Fair3 ==
    \/ InLife /\ Life!Call("u3")
    \/ InDownload /\ Download!Chunked(4)
    \/ InUpload /\ outcome = "running" /\ Upload!Collect
    \/ InCache /\ Cache!Elapse
    \/ InConnection /\ Connection!Telegram
Fair4 ==
    \/ InLife /\ Life!PingsEnd
    \/ InDownload /\ Download!Caller
Fair5 == InLife /\ Life!TaskStops
Fair6 == InLife /\ Life!PanicIsPublished
Timer(u) == InLife /\ Life!Timer(u)
(* Steps that are held up again and again.  Answers that name a peer come over and
   over, and some find a call free *)
Heard(p) == InCache /\ (\E c \in CacheCalls : Cache!Hear(c, {p}))
Strong1 == Heard(1) \/ (InConnection /\ Connection!Receive)
Strong2 == Heard(2) \/ (InConnection /\ Connection!OnNetWrite(TRUE))
Strong3 == InConnection /\ Connection!Frames("c1")
Strong4 == InConnection /\ Connection!IsAnswered("c1")

FairSpec ==
    /\ Spec
    /\ WF_clientVars(Fair1) /\ WF_clientVars(Fair2) /\ WF_clientVars(Fair3) /\ WF_clientVars(Fair4)
    /\ WF_clientVars(Fair5) /\ WF_clientVars(Fair6)
    /\ \A u \in Users : WF_clientVars(Timer(u))
    /\ SF_clientVars(Strong1) /\ SF_clientVars(Strong2) /\ SF_clientVars(Strong3) /\ SF_clientVars(Strong4)

-----------------------------------------------------------------------------
(* Properties: what the modules state, of the component in focus.  Each part has its
   explanation in its module. *)

(* A listing gives its items in order and none twice, and leaves none out unless a
   call was given up at the wrong point *)
ListedOnce == focus = "pages" => Pages!GivenOnce /\ Pages!NothingSkipped

(* Calls return.  Once the client is to stop, every call of its runner returns,
   whether the runner ends, hangs or panics; and an invocation that was queued is
   settled: its caller is told unless it left, and the reservation is free, also when
   the request is rejected and framed again, or the connection fails or is torn down
   while callers still hold the route *)
Pending ==
    \/ focus = "life" /\ Life!Stopping
    \/ focus = "sender" /\ Connection!Unsettled("c1")
Returned ==
    \/ focus = "life" /\ Life!Quiet
    \/ focus = "sender" /\ ~Connection!Unsettled("c1")
CallsReturn == Pending ~> Returned

(* Work ends: every download and upload, although the file moves between
   datacenters and requests and reads fail; every step of a login, however the
   datacenters send it about; what is known of a peer gets into the session,
   although fingerprints of other versions and peers collide and calls overlap; and
   a malformed invocation is refused *)
Unfinished ==
    \/ focus = "download" /\ ~Download!HasEnded
    \/ focus = "upload" /\ ~Upload!HasEnded
    \/ focus = "login" /\ ~SignIn!HasReturned
    \/ focus = "cache" /\ ~Cache!Stored(1)
    \/ focus = "sender" /\ Connection!Unsettled("c2")
WorkEnds ==
    Unfinished ~> (focus \in {"download", "upload", "login", "cache", "sender"} /\ ~Unfinished)
=============================================================================
