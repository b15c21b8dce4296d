----------------------------- MODULE PeerCache -----------------------------
(***************************************************************************)
(* cache_peer_map and StoredPeers of grammers-client/src/client/chats.rs:  *)
(* peers that come with answers and updates are written to the session,    *)
(* and a small table of fingerprints keeps what was written from being     *)
(* written again.  Calls run concurrently, and a table position stands for *)
(* whichever peer was written to it last.                                  *)
(***************************************************************************)
EXTENDS Integers, FiniteSets

CONSTANTS
    CachedPeers,    \* peer identifiers
    Versions,       \* what may be known about a peer: above 0
    Volatile,       \* peers whose versions come back
    Batches,        \* sets of peers that answers name together
    CacheCalls,     \* calls of cache_peer_map that run at the same time
    MinSlots,       \* MIN_STORED_PEER_SLOTS
    MaxSlots,       \* MAX_STORED_PEER_SLOTS
    Lifetime,       \* STORED_PEER_LIFETIME
    MaxCacheFaults  \* writes that fail and calls that are dropped

VARIABLES
    truth,      \* what Telegram says about each peer now
    written,    \* the session's entry for each peer, 0 when there is none
    slots,      \* the fingerprints: a peer with a version, or Empty
    evictions,
    forgetIn,   \* time until forget_at, or Never
    caching,    \* a call: where it is, and the peers it found changed
    unsure,     \* peers two calls wrote at once, or a dropped call may have written
    cacheFaults

cacheVars == <<truth, written, slots, evictions, forgetIn, caching, unsure, cacheFaults>>

Empty == [peer |-> 0, version |-> 0]
Never == Lifetime + 1
Fault == cacheFaults > 0 /\ cacheFaults' = cacheFaults - 1
NoPeers == [p \in {} |-> 0]
Fingerprint(p, v) == [peer |-> p, version |-> v]
Slots == DOMAIN slots
Index(p, n) == p % n
Contains(p, v) == Slots # {} /\ slots[Index(p, Cardinality(Slots))] = Fingerprint(p, v)

-----------------------------------------------------------------------------

(* Telegram names another version of a peer, possibly an earlier one again *)
Change(p) ==
    /\ \E v \in Versions : /\ v > truth[p] \/ p \in Volatile
                          /\ truth' = [truth EXCEPT ![p] = v]
    /\ UNCHANGED <<written, slots, evictions, forgetIn, caching, unsure, cacheFaults>>

(* An answer names peers: the table forgets when it is old, and what it    *)
(* does not contain is written                                             *)
Old == forgetIn = 0
Kept == IF Old THEN [i \in Slots |-> Empty] ELSE slots
Changed(heard) ==
    {p \in DOMAIN heard : Slots = {} \/ Kept[Index(p, Cardinality(Slots))] # Fingerprint(p, heard[p])}
Hear(c, S) ==
    LET changed == Changed([p \in S |-> truth[p]])
        InFlight(p) == \E d \in CacheCalls \ {c} : p \in DOMAIN caching[d].peers
    IN  /\ caching[c].pc = "idle"
        /\ slots' = Kept /\ forgetIn' = IF Old THEN Never ELSE forgetIn
        /\ caching' = IF changed = {} THEN caching
                      ELSE [caching EXCEPT ![c] = [pc |-> "write", peers |-> [p \in changed |-> truth[p]]]]
        /\ unsure' = {p \in unsure : Old => InFlight(p)} \cup {p \in changed : InFlight(p)}
        /\ UNCHANGED <<truth, written, evictions, cacheFaults>>

(* session.cache_peers stores them all, or fails *)
Write(c) ==
    /\ caching[c].pc = "write"
    /\ written' = [p \in CachedPeers |-> IF p \in DOMAIN caching[c].peers THEN caching[c].peers[p] ELSE written[p]]
    /\ caching' = [caching EXCEPT ![c].pc = "written"]
    /\ UNCHANGED <<truth, slots, evictions, forgetIn, unsure, cacheFaults>>
FaultyWriteFails(c) ==
    /\ caching[c].pc = "write" /\ Fault
    /\ caching' = [caching EXCEPT ![c].pc = "written"]
    /\ UNCHANGED <<truth, written, slots, evictions, forgetIn, unsure>>
WriteFails(c) ==
    /\ caching[c].pc = "write" /\ Fault
    /\ caching' = [caching EXCEPT ![c] = [pc |-> "idle", peers |-> NoPeers]]
    /\ UNCHANGED <<truth, written, slots, evictions, forgetIn, unsure>>
(* The caller drops the call: the write may have happened, nothing is      *)
(* remembered                                                              *)
Dropped(c) ==
    /\ caching[c].pc = "written" /\ Fault
    /\ caching' = [caching EXCEPT ![c] = [pc |-> "idle", peers |-> NoPeers]]
    /\ unsure' = unsure \cup DOMAIN caching[c].peers
    /\ UNCHANGED <<truth, written, slots, evictions, forgetIn>>

(* remember: one peer at a time; the table grows when it evicts too much,  *)
(* and the positions it has then are empty                                 *)
FaultyForgetAfter == Lifetime
ForgetAfter == IF forgetIn = Never THEN Lifetime ELSE forgetIn
Remember(c) ==
    \E p \in DOMAIN caching[c].peers :
      LET table == IF Slots = {} THEN [i \in 0 .. MinSlots - 1 |-> Empty] ELSE slots
          size == Cardinality(DOMAIN table)
          print == Fingerprint(p, caching[c].peers[p])
          evicted == evictions + (IF table[Index(p, size)] \in {Empty, print} THEN 0 ELSE 1)
          grows == evicted >= size /\ size < MaxSlots
          rest == DOMAIN caching[c].peers \ {p}
      IN  /\ caching[c].pc \in {"written", "remember"}
          /\ slots' = IF grows THEN [i \in 0 .. 2 * size - 1 |-> Empty]
                      ELSE [table EXCEPT ![Index(p, size)] = print]
          /\ evictions' = IF grows \/ size = MaxSlots THEN 0 ELSE evicted   \* no use for it in the largest table
          /\ forgetIn' = ForgetAfter
          /\ caching' = [caching EXCEPT ![c] =
                IF rest = {} THEN [pc |-> "idle", peers |-> NoPeers]
                ELSE [pc |-> "remember", peers |-> [q \in rest |-> caching[c].peers[q]]]]
          /\ UNCHANGED <<truth, written, unsure, cacheFaults>>

Elapse ==
    /\ forgetIn \in 1 .. Lifetime /\ forgetIn' = forgetIn - 1
    /\ UNCHANGED <<truth, written, slots, evictions, caching, unsure, cacheFaults>>

Init ==
    /\ truth = [p \in CachedPeers |-> 1] /\ written = [p \in CachedPeers |-> 0]
    /\ slots = [i \in {} |-> Empty] /\ evictions = 0 /\ forgetIn = Never
    /\ caching = [c \in CacheCalls |-> [pc |-> "idle", peers |-> NoPeers]] /\ unsure = {} /\ cacheFaults = MaxCacheFaults

CallRuns(c) == Write(c) \/ Remember(c)
Next ==
    \/ \E p \in CachedPeers : Change(p)
    \/ \E c \in CacheCalls, S \in Batches : Hear(c, S)
    \/ \E c \in CacheCalls : CallRuns(c) \/ WriteFails(c) \/ Dropped(c)
    \/ Elapse

Spec == Init /\ [][Next]_cacheVars

-----------------------------------------------------------------------------

(* A peer is left out of a write only when the session already holds what  *)
(* is known of it, although positions are shared, writes fail, calls are   *)
(* dropped and the table grows.  Only a peer that a call is writing, that   *)
(* two calls wrote at the same time, or whose write was dropped when it    *)
(* had happened, may be remembered as something else.                      *)
SkippedIsStored ==
    \A p \in CachedPeers \ unsure : \A v \in Versions :
      Contains(p, v) /\ (\A c \in CacheCalls : p \notin DOMAIN caching[c].peers) => written[p] = v

(* Such a disorder must not stay: the table forgets STORED_PEER_LIFETIME   *)
(* after its first entry, however much is written, and a peer that is      *)
(* heard of again gets its entry.                                          *)
Stored(p) == written[p] = truth[p]
=============================================================================
