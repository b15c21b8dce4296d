------------------------------- MODULE Network ------------------------------
(***************************************************************************)
(* The modules about connections that are proved correct, side by side:    *)
(* how the pool's runner learns that callers have gone (ClosureWatch), the *)
(* retries of a request (Retry), the exchange of keys (Handshake), what    *)
(* setups store (ConnectionSetup) and the receiver of updates              *)
(* (UpdatesReceiver).  They share no state: `focus` says which of them a   *)
(* behaviour is about.                                                     *)
(***************************************************************************)
EXTENDS Integers, Sequences

CONSTANTS
    Waiters,                                                    \* ClosureWatch
    Tries, Threshold, IoDelay, MaxSleep, FloodWaits, WidthMax,  \* Retry
    Attempts, DhJobs, MaxOddAnswers, MaxAbandoned,              \* Handshake
    Dcs, HomeDc, TargetDc, Configs, Stored0, MaxFaults,         \* ConnectionSetup
    Hosts,                                                      \* where its addresses lead
    Starts, Capacity, MaxUnreadable, MaxDeferrals               \* UpdatesReceiver

VARIABLES
    focus,
    call, watching, closure, group, runner,
    request, pool, executed, waited,
    shake, asked, incoming, verdict, jobs, permits, odd, abandoned,
    dcs, setup, configLock, keys, copier, copied, given, setupFaults,
    rcv, box, stream, chan, telegram, session, seen, updateFaults

Watch == INSTANCE ClosureWatch
Retries == INSTANCE Retry
Shakes == INSTANCE Handshake
Setups == INSTANCE ConnectionSetup
Updates == INSTANCE UpdatesReceiver WITH faults <- updateFaults

watchVars == <<call, watching, closure, group, runner>>
retryVars == <<request, pool, executed, waited>>
shakeVars == <<shake, asked, incoming, verdict, jobs, permits, odd, abandoned>>
setupVars == <<dcs, setup, configLock, keys, copier, copied, given, setupFaults>>
updatesVars == <<rcv, box, stream, chan, telegram, session, seen, updateFaults>>
networkVars == <<focus, watchVars, retryVars, shakeVars, setupVars, updatesVars>>

-----------------------------------------------------------------------------
(* The limits of AutoSleep and RetryBudget, and the waits of Telegram, are numbers *)
ASSUME RetryAssumption ==
    /\ Tries \in Nat /\ Threshold \in Nat /\ IoDelay \in Nat /\ MaxSleep \in Nat
    /\ FloodWaits \in SUBSET Nat /\ WidthMax \in Nat

(* DH_JOBS has a number of permits *)
ASSUME JobsAssumption == DhJobs \in Nat

(* The stored datacenters and the configurations are well formed, what is left of a
   configuration without its special options is one too, and the keys that are stored at
   first are no newer than the one key that Telegram has made by then *)
Addresses == [via : {"none", "net", "mapped", "bad"}, at : Hosts]
DcRecords == [v4 : Addresses, v6 : Addresses, key : Nat]
Options == [dc : Dcs, ipv6 : BOOLEAN, addr : Addresses, special : BOOLEAN]
ASSUME SetupAssumption ==
    /\ "none" \in Hosts
    /\ TargetDc \in Dcs /\ Setups!Nobody \notin Dcs
    /\ \A c \in Configs : c \in Seq(Options) /\ Setups!Usable(c) \in Seq(Options)
    /\ DOMAIN Stored0 \subseteq Dcs /\ Stored0 \in [DOMAIN Stored0 -> DcRecords]
    /\ \A d \in DOMAIN Stored0 : Stored0[d].key <= 1

(* What the session holds when the receiver is made: positions, or None for them *)
Beginnings == [saved : [Updates!Seqs -> Int], self : BOOLEAN, hash : BOOLEAN, loggedIn : BOOLEAN,
               bot : BOOLEAN, events : [Updates!Seqs -> Nat], noise : BOOLEAN, faults : Nat]
ASSUME UpdatesAssumption == MaxUnreadable \in Nat /\ Starts \subseteq Beginnings

-----------------------------------------------------------------------------
(* Variables that are not in use *)
Blank == "unused"
NoWatch == call = Blank /\ watching = Blank /\ closure = Blank /\ group = Blank /\ runner = Blank
NoRetries == request = Blank /\ pool = Blank /\ executed = Blank /\ waited = Blank
NoShakes ==
    /\ shake = Blank /\ asked = Blank /\ incoming = Blank /\ verdict = Blank
    /\ jobs = Blank /\ permits = Blank /\ odd = Blank /\ abandoned = Blank
NoSetups ==
    /\ dcs = Blank /\ setup = Blank /\ configLock = Blank /\ keys = Blank
    /\ copier = Blank /\ copied = Blank /\ given = Blank /\ setupFaults = Blank
NoUpdates ==
    /\ rcv = Blank /\ box = Blank /\ stream = Blank /\ chan = Blank
    /\ telegram = Blank /\ session = Blank /\ seen = Blank /\ updateFaults = Blank

NetworkInit ==
    \/ focus = "closures" /\ Watch!Init /\ NoRetries /\ NoShakes /\ NoSetups /\ NoUpdates
    \/ focus = "retry" /\ Retries!Init /\ NoWatch /\ NoShakes /\ NoSetups /\ NoUpdates
    \/ focus = "handshake" /\ Shakes!Init /\ NoWatch /\ NoRetries /\ NoSetups /\ NoUpdates
    \/ focus = "setups" /\ Setups!Init /\ NoWatch /\ NoRetries /\ NoShakes /\ NoUpdates
    \/ focus = "updates" /\ Updates!Init /\ NoWatch /\ NoRetries /\ NoShakes /\ NoSetups

(* A step of the component in focus leaves the others alone *)
InWatch == focus = "closures" /\ UNCHANGED <<focus, retryVars, shakeVars, setupVars, updatesVars>>
InRetries == focus = "retry" /\ UNCHANGED <<focus, watchVars, shakeVars, setupVars, updatesVars>>
InShakes == focus = "handshake" /\ UNCHANGED <<focus, watchVars, retryVars, setupVars, updatesVars>>
InSetups == focus = "setups" /\ UNCHANGED <<focus, watchVars, retryVars, shakeVars, updatesVars>>
InUpdates == focus = "updates" /\ UNCHANGED <<focus, watchVars, retryVars, shakeVars, setupVars>>

NetworkNext ==
    \/ InWatch /\ Watch!Next
    \/ InRetries /\ Retries!Next
    \/ InShakes /\ Shakes!Next
    \/ InSetups /\ Setups!Next
    \/ InUpdates /\ Updates!Next

NetworkSpec == NetworkInit /\ [][NetworkNext]_networkVars

-----------------------------------------------------------------------------
(* Properties: what the modules state, of the component in focus.  Each part has its
   explanation in its module. *)

(* Calls are accounted for: a runner that sleeps over a group learns of every caller
   that is gone; and however attempts fail, a request is executed at most once, and
   its sleeps stay within its budget *)
CallsAccounted ==
    /\ focus = "closures" => Watch!NoLostClosure
    /\ focus = "retry" => Retries!SentOnce /\ Retries!WithinBudget

(* What setups store agrees with what happened: the key of a connection that is up
   is the stored one, the stored addresses are the last ones given, an invalid
   configuration changes nothing, and a key is held to be authorized only if an
   import ran on a connection with it *)
SetupsAgree ==
    focus = "setups" =>
        /\ Setups!KeyKept /\ Setups!AddressesKept
        /\ Setups!InvalidConfigIgnored /\ Setups!CopiedIsAuthorized

(* A connection that goes on with a key goes on with the key and the salt that
   Telegram holds for it, hears of a retry only when Telegram asked for one, and no
   more blocking jobs run than DH_JOBS allows, although callers go away *)
KeysAgree ==
    focus = "handshake" => Shakes!KeyAgreed /\ Shakes!RetryIsTelegrams /\ Shakes!JobsBounded

(* An event that was applied reaches the application or waits in a buffer, at
   whichever await next() is dropped; a backlog is given up only after as many
   unreadable replies as the limit says; a client that Telegram refused does not ask
   again; and when next() itself stores positions, what was applied up to them has
   been handed out *)
UpdatesKept ==
    /\ [](focus = "updates" =>
             Updates!UpdatesKept /\ Updates!GivenUpLate /\ Updates!QuietAfterRejection)
    /\ [][focus = "updates" => Updates!StoredIsHandedOut]_networkVars
=============================================================================
