------------------------------- MODULE Client -------------------------------
(***************************************************************************)
(* The modules about the client that are proved correct, side by side: how *)
(* the managed client starts and stops (Lifecycle), logins (Login), the    *)
(* SQLite session (SqliteSession), the cache of peers (PeerCache),         *)
(* transfers of files (FileDownload, FileUpload), and sending              *)
(* (SentMessages).                                                         *)
(* They share no state: `focus` says which of them a behaviour is about.   *)
(***************************************************************************)
EXTENDS Integers, Sequences

CONSTANTS
    Users, Plans, MaxPings,                                     \* Lifecycle
    LoginDcs, MaxVisited, MaxLoginFaults, MaxLogins,            \* Login
    Writers, Facts, Unreadable, MaxWrites, MaxKills,            \* SqliteSession
    CachedPeers, Versions, Volatile, Batches, CacheCalls,       \* PeerCache
    MinSlots, MaxSlots, Lifetime, MaxCacheFaults,
    Sizes, Chunk, Workers, LastDc, MaxRecoveries, MaxDownloadFaults,    \* FileDownload
    Uploaders, Announced, Available, PartSize, MaxUploadFaults,         \* FileUpload
    MaxInputs, MaxSendFaults                                            \* SentMessages

VARIABLES
    focus,
    user, state, task, completion, pings,
    place, twoFactor, account, home, recorded, login, result, loginFaults, logins,
    disk, work, holder, cached, writer, stage, acked, known, loose, split, kills, writes,
    truth, written, slots, evictions, forgetIn, caching, unsure, cacheFaults,
    mode, fetch, route, fileDc, file, iter, fetched, downloadFaults,
    stream, parts, worker, saved, outcome, uploadFaults,
    sending, created, answer, sendFaults

Life == INSTANCE Lifecycle
SignIn == INSTANCE Login
Sqlite == INSTANCE SqliteSession
Cache == INSTANCE PeerCache
Download == INSTANCE FileDownload WITH disk <- file, result <- fetched
Upload == INSTANCE FileUpload
Sent == INSTANCE SentMessages

lifeVars == <<user, state, task, completion, pings>>
loginVars == <<place, twoFactor, account, home, recorded, login, result, loginFaults, logins>>
sqliteVars == <<disk, work, holder, cached, writer, stage, acked, known, loose, split, kills, writes>>
cacheVars == <<truth, written, slots, evictions, forgetIn, caching, unsure, cacheFaults>>
downloadVars == <<mode, fetch, route, fileDc, file, iter, fetched, downloadFaults>>
uploadVars == <<stream, parts, worker, saved, outcome, uploadFaults>>
sentVars == <<sending, created, answer, sendFaults>>
transferVars == <<downloadVars, uploadVars, sentVars>>
clientVars == <<focus, lifeVars, loginVars, sqliteVars, cacheVars, transferVars>>

-----------------------------------------------------------------------------
(* Each task calls one operation of the client, or none *)
ASSUME PlansAssumption == Plans \subseteq [Users -> {"none", "connect", "run", "until", "stop"}]

(* A task is not mistaken for the free lock *)
ASSUME WritersAssumption == Sqlite!Nobody \notin Writers

(* Identifiers are numbers, a version is no empty entry, the table of fingerprints has a
   least size, and answers name peers *)
ASSUME CacheAssumption ==
    /\ CachedPeers \subseteq Nat /\ Versions \subseteq Nat \ {0}
    /\ MinSlots \in Nat \ {0} /\ MaxSlots \in Nat
    /\ Batches \subseteq SUBSET CachedPeers

(* Sizes are numbers, chunks and parts have bytes, and somebody does the work *)
ASSUME TransfersAssumption ==
    /\ Sizes \subseteq Nat /\ Chunk \in Nat \ {0} /\ Workers \in Nat \ {0}
    /\ MaxRecoveries \in Nat /\ LastDc \in Nat
    /\ Announced \subseteq Nat /\ Available \subseteq Nat /\ PartSize \in Nat \ {0}
    /\ Uploaders # {} /\ Upload!Nobody \notin Uploaders

(* An album or a forward has up to so many messages *)
ASSUME SentAssumption == MaxInputs \in Nat

-----------------------------------------------------------------------------
(* Variables that are not in use *)
Blank == "unused"
NoLife == user = Blank /\ state = Blank /\ task = Blank /\ completion = Blank /\ pings = Blank
NoLogin ==
    /\ place = Blank /\ twoFactor = Blank /\ account = Blank /\ home = Blank /\ recorded = Blank
    /\ login = Blank /\ result = Blank /\ loginFaults = Blank /\ logins = Blank
NoSqlite ==
    /\ disk = Blank /\ work = Blank /\ holder = Blank /\ cached = Blank /\ writer = Blank /\ stage = Blank
    /\ acked = Blank /\ known = Blank /\ loose = Blank /\ split = Blank /\ kills = Blank /\ writes = Blank
NoCache ==
    /\ truth = Blank /\ written = Blank /\ slots = Blank /\ evictions = Blank
    /\ forgetIn = Blank /\ caching = Blank /\ unsure = Blank /\ cacheFaults = Blank
NoDownload ==
    /\ mode = Blank /\ fetch = Blank /\ route = Blank /\ fileDc = Blank
    /\ file = Blank /\ iter = Blank /\ fetched = Blank /\ downloadFaults = Blank
NoUpload ==
    /\ stream = Blank /\ parts = Blank /\ worker = Blank
    /\ saved = Blank /\ outcome = Blank /\ uploadFaults = Blank
NoSent == sending = Blank /\ created = Blank /\ answer = Blank /\ sendFaults = Blank
NoTransfers == NoDownload /\ NoUpload /\ NoSent

ClientInit ==
    \/ focus = "life" /\ Life!Init /\ NoLogin /\ NoSqlite /\ NoCache /\ NoTransfers
    \/ focus = "login" /\ SignIn!Init /\ NoLife /\ NoSqlite /\ NoCache /\ NoTransfers
    \/ focus = "sqlite" /\ Sqlite!Init /\ NoLife /\ NoLogin /\ NoCache /\ NoTransfers
    \/ focus = "cache" /\ Cache!Init /\ NoLife /\ NoLogin /\ NoSqlite /\ NoTransfers
    \/ focus = "download" /\ Download!Init /\ NoLife /\ NoLogin /\ NoSqlite /\ NoCache /\ NoUpload /\ NoSent
    \/ focus = "upload" /\ Upload!Init /\ NoLife /\ NoLogin /\ NoSqlite /\ NoCache /\ NoDownload /\ NoSent
    \/ focus = "sent" /\ Sent!Init /\ NoLife /\ NoLogin /\ NoSqlite /\ NoCache /\ NoDownload /\ NoUpload

(* A step of the component in focus leaves the others alone *)
InLife == focus = "life" /\ UNCHANGED <<focus, loginVars, sqliteVars, cacheVars, transferVars>>
InLogin == focus = "login" /\ UNCHANGED <<focus, lifeVars, sqliteVars, cacheVars, transferVars>>
InSqlite == focus = "sqlite" /\ UNCHANGED <<focus, lifeVars, loginVars, cacheVars, transferVars>>
InCache == focus = "cache" /\ UNCHANGED <<focus, lifeVars, loginVars, sqliteVars, transferVars>>
InDownload ==
    focus = "download" /\ UNCHANGED <<focus, lifeVars, loginVars, sqliteVars, cacheVars, uploadVars, sentVars>>
InUpload ==
    focus = "upload" /\ UNCHANGED <<focus, lifeVars, loginVars, sqliteVars, cacheVars, downloadVars, sentVars>>
InSent ==
    focus = "sent" /\ UNCHANGED <<focus, lifeVars, loginVars, sqliteVars, cacheVars, downloadVars, uploadVars>>

ClientNext ==
    \/ InLife /\ Life!Next
    \/ InLogin /\ SignIn!Next
    \/ InSqlite /\ Sqlite!Next
    \/ InCache /\ Cache!Next
    \/ InDownload /\ Download!Next
    \/ InUpload /\ Upload!Next
    \/ InSent /\ Sent!Next

ClientSpec == ClientInit /\ [][ClientNext]_clientVars

-----------------------------------------------------------------------------
(* Properties: what the modules state, of the component in focus.  Each part has its
   explanation in its module. *)

(* Callers agree on how the client ended: no runner runs when stop() or run_until()
   has returned, a panic is what callers are told, everyone is told the same, an
   abort that follows a timeout is never what a caller is told, and a check of
   connectivity that still runs stays shared *)
EndsAgree ==
    /\ [](focus = "life" => /\ Life!StoppedForGood /\ Life!PanicIsReported
                            /\ Life!OneVerdict /\ Life!TimeoutIsReported)
    /\ [][focus = "life" => Life!CheckStaysShared]_clientVars

(* A call that returns the user has recorded it at the datacenter of the key, a
   password is asked for only where it is awaited, and a migration moves the home
   datacenter only to one that knows the user *)
LoginRecorded ==
    /\ [](focus = "login" => SignIn!SignedInIsRecorded /\ SignIn!PasswordAtHome)
    /\ [][focus = "login" => SignIn!HomeMovesLate]_clientVars

(* What the session has confirmed it keeps, over calls that overlap, fail or are
   dropped, and kills: answered writes, positions from one and the same call unless one
   was stored alone, what can be read back about a peer; and a peer is left out of a
   write only when the session holds what is known of it *)
SessionKeeps ==
    /\ focus = "sqlite" =>
           Sqlite!AckedIsStored /\ Sqlite!PositionsWhole /\ Sqlite!PeerNotForgotten
    /\ focus = "cache" => Cache!SkippedIsStored

(* A parallel download that succeeds has every byte at its place, an iterator gives
   the chunks in order and without a gap, a late answer does not undo what another
   chunk has learned of where the file is, and an upload that succeeds has stored
   every part *)
TransfersIntact ==
    /\ [](focus = "download" => Download!WrittenWhole /\ Download!GivenInOrder)
    /\ [](focus = "upload" => Upload!StoredWhole)
    /\ [][focus = "download" => Download!RouteMovesOn]_clientVars

(* No message stands for two inputs, no input has another's message when all became
   one, and once Telegram has answered the call does not fail *)
SentIsReturned == focus = "sent" => Sent!OwnMessage /\ Sent!DeliveredIsOk
=============================================================================
