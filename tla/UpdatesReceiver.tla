-------------------------- MODULE UpdatesReceiver ---------------------------
(***************************************************************************)
(* grammers-mtsender/src/updates_receiver.rs with the channel that feeds   *)
(* it (forward_update and run_sender in sender_pool.rs) and the stream     *)
(* that reads from it (grammers-client/src/client/updates.rs): the loop of *)
(* UpdatesReceiver::next, which awaits the session, Telegram and the       *)
(* channel and may be cancelled at every await.                            *)
(*                                                                         *)
(* The message box is reduced to a position per sequence: MessageBox has   *)
(* its detail.  Events of a sequence are numbered from 1; a gap waits for  *)
(* a deadline.  An update outside any sequence is Noise, of which Telegram *)
(* may send any number.  Pauses and deadlines are flags that expire.       *)
(***************************************************************************)
EXTENDS Integers, Sequences, FiniteSets, SequencesExt

CONSTANTS
    Starts,         \* what is stored at first, the kind of account, how many
                    \* events there are, whether there is Noise, and a bound on
                    \* failures, cancellations and crashes together
    Capacity,       \* capacity of the channel of updates
    MaxUnreadable,  \* MAX_UNREADABLE_DIFFERENCES
    MaxDeferrals    \* MAX_CHANNEL_DEFERRALS

VARIABLES
    rcv,        \* UpdatesReceiver without its message box; where next() is
    box,        \* its message box: a position for each sequence
    stream,     \* UpdateStream: its buffer and whether peers are to be cached
    chan,       \* the channel of updates, the batch on its way into it,
                \* and whether a failure of the home connection is news
    telegram,   \* the last event of each sequence, and whether the user is
                \* logged in
    session,    \* stored positions, and whether self and the channel's
                \* access hash are stored
    seen,       \* history: events that were applied and that the application
                \* did not get yet, unreadable replies in a row, and
                \* whether a login that was inferred has been refused
    faults      \* how many may still happen

vars == <<rcv, box, stream, chan, telegram, session, seen, faults>>

Seqs == {"account", "channel"}
None == -1
Noise == [seq |-> "none", n |-> 0]
ConnectionClosed == [seq |-> "closed", n |-> 0]
Unknown == [pos |-> None, pending |-> FALSE, deferred |-> FALSE, due |-> FALSE, deferrals |-> 0]
Fault == faults > 0 /\ faults' = faults - 1

-----------------------------------------------------------------------------
(* What the receiver needs of the message box *)

At(n) == [Unknown EXCEPT !.pos = n]
Load(saved) == [s \in Seqs |-> IF saved[s] = None THEN Unknown ELSE [At(saved[s]) EXCEPT !.pending = TRUE]]
BeginDiff(b, s) == IF b[s].pos = None THEN b ELSE [b EXCEPT ![s].pending = TRUE]
Ready(b, s) == b[s].pending /\ ~b[s].deferred
CheckDeadlines(b) ==
    [s \in Seqs |-> IF ~b[s].due THEN b[s]
                    ELSE [b[s] EXCEPT !.due = FALSE, !.pending = TRUE, !.deferred = FALSE]]

(* process_updates: the events that are applied *)
Applies(b, u) == u.seq \in Seqs /\ ~b[u.seq].pending /\ b[u.seq].pos \in {None, u.n - 1}
AfterUpdate(b, u) ==
    IF u = ConnectionClosed THEN BeginDiff(b, "account")
    ELSE IF Applies(b, u) THEN [b EXCEPT ![u.seq].pos = u.n] ELSE b

Missing(b, s, to) == [i \in 1 .. (to - b[s].pos) |-> [seq |-> s, n |-> b[s].pos + i]]

-----------------------------------------------------------------------------
(* The receiver *)

CanRecover(r) == r.auth \in {"inferred", "confirmed"}
NeedsAuthorization(b) == b["account"].pos = None \/ \E s \in Seqs : Ready(b, s)

(* process_socket_updates *)
FaultyInferred(auth, u) == IF u = ConnectionClosed THEN auth ELSE "inferred"
Inferred(auth, u) == IF auth = "unknown" /\ u # ConnectionClosed THEN "inferred" ELSE auth
FaultyProcessed(r, b, u) ==
    [r EXCEPT !.auth = Inferred(@, u),
              !.buffer = IF u = Noise \/ Applies(b, u) THEN Append(@, <<u>>) ELSE @]
Processed(r, b, u) ==
    [r EXCEPT !.preferLive = FALSE, !.auth = Inferred(@, u),
              !.buffer = IF u = Noise \/ Applies(b, u) THEN Append(@, <<u>>) ELSE @]
Record(b, u) == IF Applies(b, u) THEN [seen EXCEPT !.inHand = @ \cup {u}] ELSE seen

(* next() returns a batch: the stream keeps it before it caches the peers *)
FaultyReturns(r) ==
    /\ stream' = [stream EXCEPT !.cache = TRUE]
    /\ rcv' = [r EXCEPT !.buffer = Tail(@), !.pc = "cache"]
Returns(r) ==
    /\ stream' = [buffer |-> stream.buffer \o Head(r.buffer), cache |-> TRUE]
    /\ rcv' = [r EXCEPT !.buffer = Tail(@), !.pc = "cache"]
Goes(pc) == rcv' = [rcv EXCEPT !.pc = pc]

(* The head of the loop: news of a failure, what is buffered, one update that
   may tell of a login, deadlines, and a look for the login in the session *)
FaultyBuffered(r) == FALSE
Buffered(r) == r.buffer # <<>>
Top ==
    LET r1 == IF chan.news THEN Processed(rcv, box, ConnectionClosed) ELSE rcv
        b1 == IF chan.news THEN AfterUpdate(box, ConnectionClosed) ELSE box
        takes == /\ ~Buffered(r1) /\ ~CanRecover(r1) /\ ~r1.should /\ r1.preferLive
                 /\ chan.queue # <<>>
        u == Head(chan.queue)
        r2 == IF takes THEN Processed(r1, b1, u) ELSE r1
        b2 == IF takes THEN AfterUpdate(b1, u) ELSE b1
        b3 == CheckDeadlines(b2)
        looks == ~CanRecover(r2) /\ NeedsAuthorization(b3) /\ r2.checkDue
    IN  /\ rcv.pc = "top"
        /\ chan' = [chan EXCEPT !.news = FALSE, !.queue = IF takes THEN Tail(@) ELSE @]
        /\ seen' = IF takes THEN Record(b1, u) ELSE seen
        /\ IF Buffered(r2) THEN Returns(r2) /\ box' = b2
           ELSE /\ box' = b3
                /\ rcv' = [r2 EXCEPT !.pc = IF looks THEN "self" ELSE "plan",
                                     !.checkDue = @ /\ ~looks]
                /\ UNCHANGED stream
        /\ UNCHANGED <<telegram, session, faults>>

Kind == IF session.self /\ telegram.bot THEN "bot" ELSE "user"
LookForSelf ==
    /\ rcv.pc = "self"
    /\ rcv' = IF session.self THEN [rcv EXCEPT !.pc = "plan", !.auth = "confirmed", !.kind = Kind]
              ELSE [rcv EXCEPT !.pc = "plan"]
    /\ UNCHANGED <<box, stream, chan, telegram, session, seen, faults>>

Plan ==
    LET should == rcv.should \/ (CanRecover(rcv) /\ box["account"].pos = None)
    IN  /\ rcv.pc = "plan"
        /\ rcv' = [rcv EXCEPT !.should = should, !.pc = IF should /\ ~rcv.paused THEN "state" ELSE "live"]
        /\ UNCHANGED <<box, stream, chan, telegram, session, seen, faults>>

(* GetState is answered: stored first, then applied; or refused *)
StateArrives ==
    /\ rcv.pc = "state" /\ telegram.loggedIn
    /\ rcv' = [rcv EXCEPT !.pc = "save", !.reply = telegram.last["account"]]
    /\ UNCHANGED <<box, stream, chan, telegram, session, seen, faults>>
Stored == [session EXCEPT !.saved = [account |-> rcv.reply, channel |-> box["channel"].pos]]
StateSaved ==
    /\ rcv.pc = "save"
    /\ session' = Stored
    /\ box' = [box EXCEPT !["account"] = At(rcv.reply)]
    /\ rcv' = [rcv EXCEPT !.pc = "live", !.auth = "confirmed", !.should = FALSE, !.reply = None]
    /\ UNCHANGED <<stream, chan, telegram, seen, faults>>
Rejected(r) == [r EXCEPT !.auth = "rejected", !.should = FALSE, !.checkDue = FALSE, !.pc = "top"]
StateRejected ==
    /\ rcv.pc = "state" /\ ~telegram.loggedIn
    /\ rcv' = IF rcv.auth = "inferred" THEN Rejected(rcv)
              ELSE [rcv EXCEPT !.should = TRUE, !.paused = TRUE, !.pc = "idle"]
    /\ seen' = [seen EXCEPT !.refused = @ \/ rcv.auth = "inferred"]
    /\ UNCHANGED <<box, stream, chan, telegram, session, faults>>
(* The request, the session or a look-up fails: the caller is told, and recovery
   pauses *)
Paused(r) == [r EXCEPT !.paused = TRUE, !.pc = "idle", !.should = @ \/ r.pc = "state", !.reply = None]
Fails ==
    /\ rcv.pc \in {"state", "save", "kind", "peer"} /\ Fault
    /\ rcv' = Paused(rcv)
    /\ UNCHANGED <<box, stream, chan, telegram, session, seen>>

(* Live updates alternate with recovery *)
Live ==
    LET ready == CanRecover(rcv) /\ ~rcv.paused /\ \E s \in Seqs : Ready(box, s)
        takes == (rcv.preferLive \/ ~ready) /\ chan.queue # <<>>
        u == Head(chan.queue)
        r == IF takes THEN Processed(rcv, box, u) ELSE rcv
        b == IF takes THEN AfterUpdate(box, u) ELSE box
    IN  /\ rcv.pc = "live"
        /\ chan' = IF takes THEN [chan EXCEPT !.queue = Tail(@)] ELSE chan
        /\ seen' = IF takes THEN Record(box, u) ELSE seen
        /\ IF Buffered(r) THEN Returns(r) /\ box' = b
           ELSE /\ box' = CheckDeadlines(b) /\ rcv' = [r EXCEPT !.pc = "choose"]
                /\ UNCHANGED stream
        /\ UNCHANGED <<telegram, session, faults>>

(* Which request, if any; a channel's needs its access hash *)
May(s) == CanRecover(rcv) /\ ~rcv.paused /\ Ready(box, s)
WaitsFor ==
    IF ~CanRecover(rcv) /\ NeedsAuthorization(box) THEN "check" ELSE IF rcv.paused THEN "pause" ELSE "deadline"
Choose ==
    /\ rcv.pc = "choose"
    /\ rcv' = IF May("channel") THEN [rcv EXCEPT !.pc = IF rcv.kind = "unknown" THEN "kind" ELSE "peer"]
              ELSE IF May("account") THEN [rcv EXCEPT !.pc = "diff", !.preferChannel = TRUE]
              ELSE [rcv EXCEPT !.pc = "wait", !.wait = WaitsFor]
    /\ UNCHANGED <<box, stream, chan, telegram, session, seen, faults>>
ResolveKind ==
    /\ rcv.pc = "kind"
    /\ rcv' = [rcv EXCEPT !.pc = "peer", !.kind = Kind, !.auth = IF session.self THEN "confirmed" ELSE @]
    /\ UNCHANGED <<box, stream, chan, telegram, session, seen, faults>>
(* prepare_channel_difference: without a hash the recovery is deferred a few
   times, then given up, unless a bot may ask without one *)
Prepare ==
    LET c == box["channel"]
        asks == session.hash \/ (rcv.kind = "bot" /\ c.deferrals >= MaxDeferrals)
    IN  /\ rcv.pc = "peer"
        /\ IF asks
           THEN /\ rcv' = IF May("account") /\ ~rcv.preferChannel
                          THEN [rcv EXCEPT !.pc = "diff", !.preferChannel = TRUE]
                          ELSE [rcv EXCEPT !.pc = "channelDiff", !.preferChannel = FALSE]
                /\ box' = IF session.hash THEN [box EXCEPT !["channel"].deferrals = 0] ELSE box
           ELSE /\ rcv' = [rcv EXCEPT !.pc = "top", !.preferLive = TRUE]
                /\ box' = IF c.deferrals >= MaxDeferrals THEN [box EXCEPT !["channel"] = Unknown]
                          ELSE [box EXCEPT !["channel"].deferred = TRUE, !["channel"].deferrals = @ + 1]
        /\ UNCHANGED <<stream, chan, telegram, session, seen, faults>>

(* A difference arrives, whole or a slice of it *)
Asked == IF rcv.pc = "diff" THEN "account" ELSE "channel"
DifferenceArrives ==
    LET s == Asked
    IN  /\ rcv.pc \in {"diff", "channelDiff"} /\ telegram.loggedIn
        /\ \E to \in {telegram.last[s], box[s].pos + 1} :
             LET events == Missing(box, s, to)
             IN  /\ to <= telegram.last[s]
                 /\ box' = [box EXCEPT ![s] = [At(to) EXCEPT !.pending = to < telegram.last[s]]]
                 /\ rcv' = [rcv EXCEPT !.pc = "top", !.preferLive = TRUE, !.unreadable[s] = 0,
                                       !.buffer = IF events = <<>> THEN @ ELSE Append(@, events)]
                 /\ seen' = [seen EXCEPT !.inHand = @ \cup ToSet(events), !.streak[s] = 0]
        /\ UNCHANGED <<stream, chan, telegram, session, faults>>

(* difference_unreadable: after too many in a row the backlog is given up *)
FaultyCounted(r, s, unreadable) == IF unreadable THEN r.unreadable["account"] + r.unreadable["channel"] + 1 ELSE 0
Counted(r, s, unreadable) == IF unreadable THEN r.unreadable[s] + 1 ELSE 0
DifferenceFails(unreadable) ==
    LET s == Asked
        count == Counted(rcv, s, unreadable)
        abandons == count >= MaxUnreadable
    IN  /\ rcv.pc \in {"diff", "channelDiff"} /\ Fault
        /\ box' = IF abandons THEN [box EXCEPT ![s] = Unknown]
                  ELSE IF unreadable /\ s = "channel" THEN [box EXCEPT ![s].pending = FALSE] ELSE box
        /\ rcv' = [rcv EXCEPT !.pc = "idle", !.paused = TRUE, !.preferLive = @ \/ s = "channel",
                              !.unreadable[s] = IF abandons THEN 0 ELSE count]
        /\ seen' = [seen EXCEPT !.streak[s] = IF abandons \/ ~unreadable THEN 0 ELSE @ + 1,
                                !.hasty = @ \/ (abandons /\ seen.streak[s] + 1 < MaxUnreadable)]
        /\ UNCHANGED <<stream, chan, telegram, session>>
DifferenceRefused ==
    /\ rcv.pc \in {"diff", "channelDiff"} /\ ~telegram.loggedIn
    /\ rcv' = [Paused(rcv) EXCEPT !.unreadable[Asked] = 0, !.preferLive = @ \/ rcv.pc = "channelDiff"]
    /\ seen' = [seen EXCEPT !.streak[Asked] = 0]
    /\ UNCHANGED <<box, stream, chan, telegram, session, faults>>

(* end_channel_difference: Telegram has a problem with the channel, or access to
   it is gone *)
ChannelEnds(banned) ==
    /\ rcv.pc = "channelDiff" /\ Fault
    /\ box' = IF banned THEN [box EXCEPT !["channel"] = Unknown] ELSE [box EXCEPT !["channel"].pending = FALSE]
    /\ rcv' = [rcv EXCEPT !.pc = "top", !.preferLive = TRUE, !.unreadable["channel"] = 0]
    /\ seen' = [seen EXCEPT !.streak["channel"] = 0]
    /\ UNCHANGED <<stream, chan, telegram, session>>

(* Nothing to do: an update, news of a failure, or the timer *)
WakeOnUpdate ==
    LET u == Head(chan.queue)
    IN  /\ rcv.pc = "wait" /\ chan.queue # <<>>
        /\ chan' = [chan EXCEPT !.queue = Tail(@)]
        /\ rcv' = [Processed(rcv, box, u) EXCEPT !.pc = "top", !.wait = "none"]
        /\ box' = AfterUpdate(box, u) /\ seen' = Record(box, u)
        /\ UNCHANGED <<stream, telegram, session, faults>>
Due ==
    CASE rcv.wait = "check" -> rcv.checkDue
      [] rcv.wait = "pause" -> ~rcv.paused
      [] rcv.wait = "deadline" -> \E s \in Seqs : box[s].due
      [] OTHER -> FALSE
WakeOnFailureOrTimer ==
    /\ rcv.pc = "wait" /\ (chan.news \/ Due)
    /\ rcv' = [rcv EXCEPT !.pc = "top", !.wait = "none"]
    /\ UNCHANGED <<box, stream, chan, telegram, session, seen, faults>>

-----------------------------------------------------------------------------
(* The stream and the application *)

(* next_raw: peers are cached before updates are handed out *)
HandOut ==
    /\ stream' = [stream EXCEPT !.buffer = Tail(@), !.cache = FALSE]
    /\ seen' = [seen EXCEPT !.inHand = @ \ {Head(stream.buffer)}]
    /\ Goes("idle")
CallNext ==
    /\ rcv.pc = "idle"
    /\ \/ stream.cache /\ Goes("cache") /\ UNCHANGED <<stream, seen>>
       \/ ~stream.cache /\ stream.buffer # <<>> /\ HandOut
       \/ ~stream.cache /\ stream.buffer = <<>> /\ Goes("top") /\ UNCHANGED <<stream, seen>>
    /\ UNCHANGED <<box, chan, telegram, session, faults>>
CachePeers ==
    /\ rcv.pc = "cache" /\ HandOut
    /\ UNCHANGED <<box, chan, telegram, session, faults>>

(* The application drops next() at an await, or the look for self fails.  What
   was being stored may be *)
Cancel ==
    /\ rcv.pc \notin {"idle", "plan", "live", "choose"} /\ Fault
    /\ rcv' = [rcv EXCEPT !.pc = "idle", !.wait = "none", !.reply = None]
    /\ session' \in {session} \cup (IF rcv.pc = "save" THEN {Stored} ELSE {})
    /\ UNCHANGED <<box, stream, chan, telegram, seen>>

(* sync_update_state, which the application may call between any two calls of
   next(): the positions of the message box are stored, although the updates that
   led to them may still be in a buffer *)
Sync ==
    /\ rcv.pc = "idle"
    /\ \E s \in Seqs : box[s].pos # None
    /\ session' = [session EXCEPT !.saved = [s \in Seqs |-> box[s].pos]]
    /\ UNCHANGED <<rcv, box, stream, chan, telegram, seen, faults>>

(* UpdatesReceiver::create *)
Created == [pc |-> "idle", auth |-> "unknown", should |-> FALSE, preferChannel |-> FALSE, preferLive |-> TRUE,
            kind |-> "unknown", checkDue |-> TRUE, paused |-> FALSE, unreadable |-> [s \in Seqs |-> 0],
            buffer |-> <<>>, reply |-> None, wait |-> "none"]
Restart ==
    /\ Fault
    /\ rcv' = Created /\ box' = Load(session.saved) /\ stream' = [buffer |-> <<>>, cache |-> FALSE]
    /\ chan' = [queue |-> <<>>, batch |-> <<>>, stalled |-> FALSE, news |-> FALSE]
    /\ seen' = [seen EXCEPT !.inHand = {}, !.streak = [s \in Seqs |-> 0], !.refused = FALSE]
    /\ UNCHANGED <<telegram, session>>

-----------------------------------------------------------------------------
(* The connection's task: forward_update *)

HasRoom == Len(chan.queue) < Capacity
Forward ==
    /\ chan.batch # <<>> /\ HasRoom
    /\ chan' = [chan EXCEPT !.queue = Append(@, Head(chan.batch)), !.batch = Tail(@),
                            !.stalled = FALSE]
    /\ UNCHANGED <<rcv, box, stream, telegram, session, seen, faults>>
(* The channel is full: the task yields once, and drops what still does not fit.
   A batch holds one update. *)
Overflow ==
    /\ chan.batch # <<>> /\ ~HasRoom
    /\ chan' = IF chan.stalled THEN [chan EXCEPT !.batch = Tail(@), !.stalled = FALSE]
               ELSE [chan EXCEPT !.stalled = TRUE]
    /\ UNCHANGED <<rcv, box, stream, telegram, session, seen, faults>>
(* The home connection fails: the generation changes whether or not there is
   room for the notice *)
ConnectionFails ==
    /\ Fault /\ chan.batch = <<>>
    /\ chan' = [chan EXCEPT !.news = TRUE, !.queue = IF HasRoom THEN Append(@, ConnectionClosed) ELSE @]
    /\ UNCHANGED <<rcv, box, stream, telegram, session, seen>>

-----------------------------------------------------------------------------
(* Telegram, the session and the clock *)

Emit(s) ==
    /\ telegram.loggedIn /\ telegram.last[s] < telegram.events[s] /\ chan.batch = <<>>
    /\ telegram' = [telegram EXCEPT !.last[s] = @ + 1]
    /\ \/ chan' = [chan EXCEPT !.batch = <<[seq |-> s, n |-> telegram.last[s] + 1]>>] /\ UNCHANGED faults
       \/ UNCHANGED chan /\ Fault
    /\ UNCHANGED <<rcv, box, stream, session, seen>>
EmitNoise ==
    /\ telegram.noise /\ chan.batch = <<>> /\ HasRoom
    /\ chan' = [chan EXCEPT !.batch = <<Noise>>]
    /\ UNCHANGED <<rcv, box, stream, telegram, session, seen, faults>>
LogIn ==
    /\ ~telegram.loggedIn /\ telegram' = [telegram EXCEPT !.loggedIn = TRUE]
    /\ UNCHANGED <<rcv, box, stream, chan, session, seen, faults>>
CacheSelf ==
    /\ telegram.loggedIn /\ ~session.self /\ session' = [session EXCEPT !.self = TRUE]
    /\ UNCHANGED <<rcv, box, stream, chan, telegram, seen, faults>>
(* Time passes while the receiver waits and between two calls *)
TimePasses == rcv.pc \in {"wait", "idle"}
PauseEnds ==
    /\ TimePasses /\ rcv.paused /\ rcv' = [rcv EXCEPT !.paused = FALSE]
    /\ UNCHANGED <<box, stream, chan, telegram, session, seen, faults>>
CheckIsDue ==
    /\ TimePasses /\ ~rcv.checkDue /\ rcv' = [rcv EXCEPT !.checkDue = TRUE]
    /\ UNCHANGED <<box, stream, chan, telegram, session, seen, faults>>
DeadlinePasses(s) ==
    /\ TimePasses /\ box[s].pos # None /\ ~box[s].due /\ ~Ready(box, s)
    /\ box' = [box EXCEPT ![s].due = TRUE]
    /\ UNCHANGED <<rcv, stream, chan, telegram, session, seen, faults>>

-----------------------------------------------------------------------------
Init ==
    /\ \E start \in Starts :
         /\ session = [saved |-> start.saved, self |-> start.self, hash |-> start.hash]
         /\ telegram = [last |-> [s \in Seqs |-> 0], loggedIn |-> start.loggedIn, bot |-> start.bot,
                         events |-> start.events, noise |-> start.noise]
         /\ faults = start.faults
    /\ rcv = Created /\ box = Load(session.saved) /\ stream = [buffer |-> <<>>, cache |-> FALSE]
    /\ chan = [queue |-> <<>>, batch |-> <<>>, stalled |-> FALSE, news |-> FALSE]
    /\ seen = [inHand |-> {}, streak |-> [s \in Seqs |-> 0], hasty |-> FALSE, refused |-> FALSE]

Run ==
    \/ Top \/ LookForSelf \/ Plan \/ StateArrives \/ StateSaved \/ StateRejected
    \/ Live \/ Choose \/ ResolveKind \/ Prepare \/ DifferenceArrives \/ DifferenceRefused
    \/ WakeOnUpdate \/ WakeOnFailureOrTimer \/ CallNext \/ CachePeers
Task == Forward \/ Overflow
Next ==
    \/ Run \/ Task \/ Fails \/ Cancel \/ Sync \/ Restart \/ ConnectionFails
    \/ \E b \in BOOLEAN : DifferenceFails(b) \/ ChannelEnds(b)
    \/ EmitNoise \/ LogIn \/ CacheSelf \/ PauseEnds \/ CheckIsDue
    \/ \E s \in Seqs : Emit(s) \/ DeadlinePasses(s)

Spec == Init /\ [][Next]_vars

-----------------------------------------------------------------------------
(* Properties *)

(* An event that was applied reaches the application or waits in a buffer, at
   whichever await next() is dropped *)
UpdatesKept ==
    seen.inHand \subseteq ToSet(stream.buffer) \cup UNION {ToSet(rcv.buffer[i]) : i \in DOMAIN rcv.buffer}

(* Positions that next() itself stores, when Telegram has told it where to start,
   are never past an update that the application has still to get: dropping next()
   there and restarting loses nothing that was applied.  Only the application can
   store positions past what is buffered, with sync_update_state between two calls
   (as the test in client/updates.rs does); a restart before
   it has taken the rest loses that. *)
StoredIsHandedOut ==
    session'.saved # session.saved /\ rcv.pc # "idle" => \A e \in seen.inHand : e.n > session'.saved[e.seq]

(* A backlog is given up only after replies that could not be read, one after
   the other, as many as the limit says *)
GivenUpLate == ~seen.hasty

(* When Telegram has refused what looked like a login, nothing but the stored
   self user starts recovery again: queued updates do not *)
QuietAfterRejection ==
    seen.refused /\ ~session.self => rcv.pc \notin {"state", "diff", "channelDiff"}

(* A user that is logged in has caught up.  That must happen again and again,
   although updates are dropped, the notice of a failure finds no room, next() is
   cancelled, requests fail, and live updates never stop. *)
UpToDate ==
    telegram.loggedIn =>
        \A s \in Seqs : box[s].pos = telegram.last[s] \/ (s = "channel" /\ box[s].pos = None)
=============================================================================
