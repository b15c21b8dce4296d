--------------------------- MODULE SqliteSession ---------------------------
(***************************************************************************)
(* The SQLite storage of grammers-session/src/storages/sqlite.rs: one      *)
(* connection behind a lock, and a cache of the home datacenter and the    *)
(* datacenter options in front of it.  Callers use it at the same time,    *)
(* drop their calls at awaits, and the process may be killed at any point  *)
(* and open the file again.  Of SQLite: a connection has one transaction   *)
(* at most, every statement meanwhile is a part of it, dropping it rolls   *)
(* all of them back, and what is committed stays.                          *)
(***************************************************************************)
EXTENDS Integers, FiniteSets

CONSTANTS
    Writers,        \* tasks that use the session
    Facts,          \* what can be known about a peer: the fields that are set.  A flag that
                    \* is false is stored as one that is not set, and is none of them
    Unreadable,     \* facts that peer_from_row does not give back: ChannelKind::Community
    MaxWrites,      \* calls that are made
    MaxKills        \* calls that are dropped or fail, and processes that are killed

VARIABLES
    disk,       \* what is committed: user_version and the tables
    work,       \* the tables as the open transaction sees them, or Closed
    holder,     \* who has the lock of the connection
    cached,     \* the cache: home_dc and a datacenter option
    writer,     \* each task's call
    stage,      \* how far open() is
    acked,      \* the last value of each table that was answered Ok, 0 while or
                \* when overlapping calls leave it open
    known,      \* facts about the peer that were answered Ok
    loose,      \* tables and facts that were answered Ok inside the transaction of
                \* another call, which is still open
    split,      \* a call that stores one of the two tables of positions alone was
                \* committed after the last one that stores both
    kills,
    writes      \* calls made: the values they store

sqliteVars == <<disk, work, holder, cached, writer, stage, acked, known, loose, split, kills, writes>>

NoRows == [home |-> 0, option |-> 0, pts |-> 0, channels |-> 0, peer |-> {}]
Closed == [open |-> FALSE, rows |-> NoRows]
Nobody == "nobody"
Plain == {"home", "option", "pts", "channels"}      \* tables that hold one value
Tables == Plain \cup {"peer"}
Resting == [op |-> "none", pc |-> "rest", value |-> 0, facts |-> {}, alone |-> TRUE, row |-> "ok"]
NoneLoose == [tables |-> {}, facts |-> {}]
Kill == kills > 0 /\ kills' = kills - 1

(* set_update_state stores all positions, those of the account (Primary,   *)
(* Secondary) or that of a channel (Channel)                               *)
Ops == {"home", "option", "positions", "account", "channel", "peer", "peers"}
Transacts(op) == op \notin {"option", "peer"}
(* The tables a call writes: update positions are kept in two *)
FirstTable(op) ==
    CASE op \in {"positions", "account"} -> "pts"
      [] op = "channel" -> "channels"
      [] op = "peers" -> "peer"
      [] OTHER -> op
Written(op) == {FirstTable(op)} \cup (IF op = "positions" THEN {"channels"} ELSE {})
Touches(w, t) == writer[w].op # "none" /\ t \in Written(writer[w].op)
(* The calls that are inside a transaction of their own *)
Owns(w) == Transacts(writer[w].op) /\ writer[w].pc \in {"read", "write", "second", "commit"}

-----------------------------------------------------------------------------
(* open(): the tables are made in a transaction, the version is set after it *)

Load == stage' = "open" /\ cached' = [home |-> disk.rows.home, option |-> disk.rows.option]
Open ==
    /\ stage = "closed"
    /\ IF disk.version = 1 THEN Load /\ UNCHANGED disk
       ELSE IF disk.made THEN stage' = "broken" /\ UNCHANGED <<cached, disk>>    \* CREATE TABLE fails
       ELSE stage' = "made" /\ disk' = [disk EXCEPT !.made = TRUE] /\ UNCHANGED cached
    /\ UNCHANGED <<work, holder, writer, acked, known, loose, split, kills, writes>>
SetVersion ==
    /\ stage = "made" /\ disk' = [disk EXCEPT !.version = 1] /\ Load
    /\ UNCHANGED <<work, holder, writer, acked, known, loose, split, kills, writes>>

-----------------------------------------------------------------------------
(* A call.  The setters of the home datacenter and of options change the   *)
(* cache when they are called, before they wait for the lock               *)

Call(w, op) ==
    LET overlapping == {x \in Writers : \E t \in Written(op) : Touches(x, t)}
    IN  /\ stage = "open" /\ writer[w] = Resting /\ writes < MaxWrites /\ writes' = writes + 1
        /\ \E facts \in IF "peer" \in Written(op) THEN {{f} : f \in Facts} ELSE {{}} :
             writer' = [x \in Writers |->
                 IF x = w THEN [op |-> op, pc |-> "wait", value |-> writes', facts |-> facts,
                                alone |-> overlapping = {}, row |-> "ok"]
                 ELSE [writer[x] EXCEPT !.alone = @ /\ x \notin overlapping]]
        /\ cached' = IF op \in {"home", "option"} THEN [cached EXCEPT ![op] = writes'] ELSE cached
        /\ acked' = [t \in Plain |-> IF t \in Written(op) THEN 0 ELSE acked[t]]
        /\ UNCHANGED <<disk, work, holder, stage, known, loose, split, kills>>
Lock(w) ==
    /\ writer[w].pc = "wait" /\ holder = Nobody /\ holder' = w
    /\ writer' = [writer EXCEPT ![w].pc =
          IF Transacts(writer[w].op) THEN "begin" ELSE IF writer[w].op = "peer" THEN "read" ELSE "write"]
    /\ UNCHANGED <<disk, work, cached, stage, acked, known, loose, split, kills, writes>>

(* There is no second transaction on a connection.  set_home_dc_id has the *)
(* lock only while its transaction begins                                  *)
FaultyBegin(w) ==
    /\ writer[w].pc = "begin"
    /\ IF writer[w].op = "positions"
       THEN writer' = [writer EXCEPT ![w].pc = "write"] /\ UNCHANGED <<work, holder>>
       ELSE /\ ~work.open /\ work' = [open |-> TRUE, rows |-> disk.rows]
            /\ writer' = [writer EXCEPT ![w].pc = IF writer[w].op = "peers" THEN "read" ELSE "write"]
            /\ holder' = IF writer[w].op = "home" THEN Nobody ELSE w
    /\ UNCHANGED <<disk, cached, stage, acked, known, loose, split, kills, writes>>
Begin(w) ==
    /\ writer[w].pc = "begin"
    /\ IF work.open
       THEN writer' = [writer EXCEPT ![w] = Resting] /\ holder' = Nobody /\ UNCHANGED work
       ELSE /\ work' = [open |-> TRUE, rows |-> disk.rows]
            /\ writer' = [writer EXCEPT ![w].pc = IF writer[w].op = "peers" THEN "read" ELSE "write"]
            /\ holder' = IF writer[w].op = "home" THEN Nobody ELSE w
    /\ UNCHANGED <<disk, cached, stage, acked, known, loose, split, kills, writes>>

Rows == IF work.open THEN work.rows ELSE disk.rows
Put(rows) ==
    IF work.open THEN work' = [work EXCEPT !.rows = rows] /\ UNCHANGED disk
    ELSE disk' = [disk EXCEPT !.rows = rows] /\ UNCHANGED work
(* What is known already is read, as far as a row tells, and extended,     *)
(* under the same lock                                                     *)
Readable == Rows.peer \ Unreadable
FaultyRead(w) ==
    /\ writer[w].pc = "read" /\ holder' = Nobody
    /\ writer' = [writer EXCEPT ![w].pc = "write", ![w].facts = @ \cup Readable]
    /\ UNCHANGED <<disk, work, cached, stage, acked, known, loose, split, kills, writes>>
Read(w) ==
    /\ writer[w].pc = "read"
    /\ writer' = [writer EXCEPT ![w].pc = "write", ![w].facts = @ \cup Readable]
    /\ UNCHANGED <<disk, work, holder, cached, stage, acked, known, loose, split, kills, writes>>
(* cache_peers goes on when it cannot read or write a row, and answers     *)
(* with the error: it overwrites a row that it could not read              *)
RowUnread(w) ==
    /\ writer[w].pc = "read" /\ writer[w].op = "peers" /\ Kill
    /\ writer' = [writer EXCEPT ![w].pc = "write", ![w].row = "unread"]
    /\ UNCHANGED <<disk, work, holder, cached, stage, acked, known, loose, split, writes>>
RowUnwritten(w) ==
    /\ writer[w].pc = "write" /\ writer[w].op = "peers" /\ Kill
    /\ writer' = [writer EXCEPT ![w].pc = "commit", ![w].row = "unwritten"]
    /\ UNCHANGED <<disk, work, holder, cached, stage, acked, known, loose, split, writes>>
Store(w, t) == Put([Rows EXCEPT ![t] = IF t = "peer" THEN writer[w].facts ELSE writer[w].value])

(* A call that is answered, Ok or with the error of a row *)
Told(w) ==
    CASE "peer" \notin Written(writer[w].op) -> known
      [] writer[w].row = "unread" -> known \cap writer[w].facts
      [] writer[w].row = "unwritten" -> known
      [] OTHER -> known \cup writer[w].facts
Answered(w) ==
    /\ writer' = [writer EXCEPT ![w] = Resting]
    /\ holder' = IF holder = w THEN Nobody ELSE holder
    /\ acked' = [t \in Plain |-> IF t \in Written(writer[w].op) /\ writer[w].alone THEN writer[w].value ELSE acked[t]]
Write(w) ==
    /\ writer[w].pc = "write"
    /\ Store(w, FirstTable(writer[w].op))
    /\ IF Transacts(writer[w].op)
       THEN /\ writer' = [writer EXCEPT ![w].pc = IF writer[w].op = "positions" THEN "second" ELSE "commit"]
            /\ UNCHANGED <<holder, acked, known, loose>>
       ELSE /\ Answered(w)
            /\ IF work.open
               THEN /\ loose' = [tables |-> loose.tables \cup Written(writer[w].op),
                                 facts |-> loose.facts \cup writer[w].facts]
                    /\ UNCHANGED known
               ELSE known' = Told(w) /\ UNCHANGED loose
    /\ UNCHANGED <<cached, stage, split, kills, writes>>
WriteChannels(w) ==
    /\ writer[w].pc = "second" /\ Store(w, "channels")
    /\ writer' = [writer EXCEPT ![w].pc = "commit"]
    /\ UNCHANGED <<holder, cached, stage, acked, known, loose, split, kills, writes>>
(* With the transaction of a call, what others stored in it is committed *)
Settled(w) ==
    /\ known' = Told(w) \cup loose.facts /\ loose' = NoneLoose
    /\ split' = CASE writer[w].op = "positions" -> FALSE
                  [] writer[w].op \in {"account", "channel"} -> TRUE
                  [] OTHER -> split
FaultyCommit(w) ==
    /\ writer[w].pc = "commit"
    /\ work' = Closed /\ Answered(w) /\ Settled(w)
    /\ UNCHANGED <<disk, cached, stage, kills, writes>>
Commit(w) ==
    /\ writer[w].pc = "commit"
    /\ disk' = [disk EXCEPT !.rows = Rows] /\ work' = Closed /\ Answered(w) /\ Settled(w)
    /\ UNCHANGED <<cached, stage, kills, writes>>

(* With a transaction that is rolled back, what others stored in it is     *)
(* lost, although they were answered Ok                                    *)
RollBack ==
    /\ work' = Closed /\ loose' = NoneLoose
    /\ acked' = [t \in Plain |-> IF t \in loose.tables THEN 0 ELSE acked[t]]
(* The caller drops a call, or a statement of it fails and it returns the  *)
(* error: its transaction is dropped as well                               *)
Drop(w) ==
    /\ writer[w] # Resting /\ Kill
    /\ IF Owns(w) THEN RollBack ELSE UNCHANGED <<work, loose, acked>>
    /\ holder' = IF holder = w THEN Nobody ELSE holder
    /\ writer' = [writer EXCEPT ![w] = Resting]
    /\ UNCHANGED <<disk, cached, stage, known, split, writes>>
Crash ==
    /\ stage # "broken" /\ Kill /\ stage' = "closed" /\ RollBack /\ holder' = Nobody
    /\ writer' = [w \in Writers |-> Resting] /\ cached' = [home |-> 0, option |-> 0]
    /\ UNCHANGED <<disk, known, split, writes>>

Init ==
    /\ disk = [version |-> 0, made |-> FALSE, rows |-> NoRows] /\ work = Closed /\ holder = Nobody
    /\ cached = [home |-> 0, option |-> 0] /\ writer = [w \in Writers |-> Resting] /\ stage = "closed"
    /\ acked = [t \in Plain |-> 0] /\ known = {} /\ loose = NoneLoose /\ split = FALSE
    /\ kills = MaxKills /\ writes = 0

Next ==
    \/ Open \/ SetVersion \/ Crash
    \/ \E w \in Writers :
         \/ \E op \in Ops : Call(w, op)
         \/ Lock(w) \/ Begin(w) \/ Read(w) \/ RowUnread(w)
         \/ Write(w) \/ RowUnwritten(w) \/ WriteChannels(w) \/ Commit(w) \/ Drop(w)

Spec == Init /\ [][Next]_sqliteVars

-----------------------------------------------------------------------------

(* What a call was answered Ok for is in the file, and in the cache that   *)
(* answers the readers, after calls that overlap, are dropped or fail, and *)
(* after the process is killed and opens the file again.  What is answered *)
(* while set_home_dc_id has its transaction open, without the lock, is in  *)
(* that transaction: it is committed with it, and the code loses it when   *)
(* set_home_dc_id fails or is dropped, or the process is killed before.    *)
AckedIsStored ==
    \A t \in Plain : acked[t] # 0 =>
      /\ IF t \in loose.tables THEN work.open /\ work.rows[t] = acked[t] ELSE disk.rows[t] = acked[t]
      /\ stage = "open" /\ t \in {"home", "option"} => cached[t] = acked[t]

(* A set_update_state that stores all positions stores those of the        *)
(* account and of its channels together: whenever a call is dropped or     *)
(* fails, or the process is killed, the file has both from the same call.  *)
(* They come from different calls only once one that stores a single one   *)
(* of them (UpdateState::Primary, Secondary or Channel) was committed.     *)
PositionsWhole == ~split => disk.rows.pts = disk.rows.channels

(* What was once stored about a peer, and can be read back, is not lost to *)
(* a later, smaller piece of information, nor to one that is stored at the *)
(* same time or in the open transaction of set_home_dc_id, nor to a call   *)
(* that is dropped; only a cache_peers that fails to read the row forgets, *)
(* and answers with an error.  The kind of a community is Unreadable: the  *)
(* next write that leaves it out erases it from the file, which the code   *)
(* does although its test expects an old `Some` to be kept.                *)
PeerNotForgotten ==
    /\ known \ Unreadable \subseteq disk.rows.peer
    /\ work.open /\ loose.facts # {} => (known \cup loose.facts) \ Unreadable \subseteq work.rows.peer
=============================================================================
