-------------------------- MODULE ConnectionSetup ---------------------------
(***************************************************************************)
(* What the setups of connections to several datacenters do to the stored  *)
(* datacenters (ConnectionSetup in grammers-mtsender/src/sender_pool.rs),  *)
(* and how a client copies its authorization to another datacenter while   *)
(* setups may replace the key (copy_auth_to_dc in grammers-client/src/     *)
(* client/net.rs).  Setups run at once, are aborted at every await, and    *)
(* share one lock.                                                         *)
(***************************************************************************)
EXTENDS Naturals, Sequences, FiniteSets, SequencesExt

CONSTANTS
    Dcs, HomeDc, TargetDc,  \* the datacenters, two of them by name
    Configs,                \* what Telegram may answer: sequences of options
    Stored0,                \* the datacenters stored at first
    MaxFaults               \* failures, aborts and keys that Telegram forgets

VARIABLES
    dcs,        \* Session: for each datacenter its addresses and key
    setup,      \* for each datacenter, its connection and where its setup is
    configLock, \* PoolState.config_lock: who has it
    keys,       \* Telegram: how many keys were made, which of them it knows
                \* and which are authorized
    copier,     \* copy_auth_to_dc: where it is, and the key it has read
    copied,     \* auth_copied_to_dcs, for TargetDc
    given,      \* history: the addresses each datacenter was last given
    setupFaults \* how many faults may still happen

setupVars == <<dcs, setup, configLock, keys, copier, copied, given, setupFaults>>

NoKey == 0
NoAddr == [via |-> "none", at |-> "none"]
Nobody == "nobody"
Mapped(addr) == [addr EXCEPT !.via = "mapped"]
NewDc == [v4 |-> NoAddr, v6 |-> NoAddr, key |-> NoKey]
Down == [pc |-> "down", read |-> NewDc, key |-> NoKey, hold |-> NewDc, again |-> FALSE, config |-> <<>>, next |-> 1]
Fault == setupFaults > 0 /\ setupFaults' = setupFaults - 1
At(d, pc) == setup' = [setup EXCEPT ![d].pc = pc]
Released(d) == IF configLock = d THEN Nobody ELSE configLock

-----------------------------------------------------------------------------
(* connect_sender: with the stored key, or with a new one *)

Start(d) ==
    /\ setup[d].pc = "down" /\ d \in DOMAIN dcs
    /\ setup' = [setup EXCEPT ![d] = [Down EXCEPT !.pc = IF dcs[d].key = NoKey THEN "handshake" ELSE "init",
                                                  !.key = dcs[d].key, !.read = dcs[d]]]
    /\ UNCHANGED <<dcs, configLock, keys, copier, copied, given, setupFaults>>
Handshake(d) ==
    /\ setup[d].pc = "handshake"
    /\ keys' = [keys EXCEPT !.made = @ + 1, !.known = @ \cup {keys.made + 1}]
    /\ setup' = [setup EXCEPT ![d].pc = "init", ![d].key = keys.made + 1]
    /\ UNCHANGED <<dcs, configLock, copier, copied, given, setupFaults>>
Broken(c) == \E i \in DOMAIN c : ~c[i].special /\ c[i].addr.via = "bad"
(* initConnection: the configuration, or 404 for a key that Telegram forgot, for
   which the connection starts again with a new key, once *)
InitConnection(d) ==
    /\ setup[d].pc = "init"
    /\ \/ /\ setup[d].key \in keys.known
          /\ \E c \in Configs :
               /\ Broken(c) => setupFaults > 0
               /\ setupFaults' = IF Broken(c) THEN setupFaults - 1 ELSE setupFaults
               /\ setup' = [setup EXCEPT ![d].pc = "merge", ![d].config = c]
       \/ /\ UNCHANGED setupFaults
          /\ setup[d].key \notin keys.known
          /\ setup' = [setup EXCEPT ![d] = IF @.again THEN Down ELSE [@ EXCEPT !.pc = "handshake", !.again = TRUE]]
    /\ UNCHANGED <<dcs, configLock, keys, copier, copied, given>>

-----------------------------------------------------------------------------
(* update_dc_options, under the lock *)

Usable(c) == SelectSeq(c, LAMBDA o : ~o.special)
FaultyValid(c) == TRUE
Valid(c) == \A i \in DOMAIN c : c[i].addr.via # "bad"
FaultyLock(d) == configLock' = d
Lock(d) == configLock = Nobody /\ configLock' = d
Merge(d) ==
    /\ setup[d].pc = "merge" /\ Lock(d)
    /\ setup' = [setup EXCEPT ![d].pc = IF Valid(Usable(setup[d].config)) THEN "option" ELSE "refuse",
                              ![d].config = Usable(@)]
    /\ UNCHANGED <<dcs, keys, copier, copied, given, setupFaults>>
(* Each option is read and changed, and written, which is awaited *)
Stored(dc) == IF dc \in DOMAIN dcs THEN dcs[dc] ELSE NewDc
Merged(dc, o) ==
    IF o.ipv6 THEN [dc EXCEPT !.v6 = o.addr]
    ELSE [dc EXCEPT !.v4 = o.addr, !.v6 = IF @ = NoAddr THEN Mapped(o.addr) ELSE @]
Option(d) == setup[d].config[setup[d].next]
ReadOption(d) ==
    LET s == setup[d]
    IN  /\ s.pc = "option"
        /\ setup' = [setup EXCEPT ![d] =
                       IF s.next > Len(s.config) THEN [s EXCEPT !.pc = "merged"]
                       ELSE [s EXCEPT !.pc = "writeOption", !.hold = Merged(Stored(Option(d).dc), Option(d))]]
        /\ UNCHANGED <<dcs, configLock, keys, copier, copied, given, setupFaults>>
Put(f, x, y) == [z \in DOMAIN f \cup {x} |-> IF z = x THEN y ELSE f[z]]
Given(g, o) == IF o.ipv6 THEN [g EXCEPT ![o.dc].v6 = o.addr] ELSE [g EXCEPT ![o.dc].v4 = o.addr]
OptionStored(d) ==
    dcs' = Put(dcs, Option(d).dc, setup[d].hold) /\ given' = Given(given, Option(d))
WriteOption(d) ==
    /\ setup[d].pc = "writeOption" /\ OptionStored(d)
    /\ setup' = [setup EXCEPT ![d].pc = "option", ![d].next = @ + 1]
    /\ UNCHANGED <<configLock, keys, copier, copied, setupFaults>>
Unlock(d) ==
    /\ setup[d].pc \in {"merged", "refuse"} /\ configLock' = Nobody
    /\ setup' = [setup EXCEPT ![d] = IF setup[d].pc = "merged" THEN [@ EXCEPT !.pc = "persist"] ELSE Down]
    /\ UNCHANGED <<dcs, keys, copier, copied, given, setupFaults>>

(* persist_connection_key, under the lock: what is stored now, with the key *)
FaultyKept(d) == setup[d].read
Kept(d) == Stored(d)
ReadKept(d) ==
    /\ setup[d].pc = "persist" /\ Lock(d)
    /\ setup' = [setup EXCEPT ![d].pc = "writeKey", ![d].hold = [Kept(d) EXCEPT !.key = setup[d].key]]
    /\ UNCHANGED <<dcs, keys, copier, copied, given, setupFaults>>
KeyStored(d) == dcs' = Put(dcs, d, setup[d].hold) /\ UNCHANGED given
PersistKey(d) ==
    /\ setup[d].pc = "writeKey" /\ KeyStored(d)
    /\ configLock' = Nobody /\ At(d, "up")
    /\ UNCHANGED <<keys, copier, copied, setupFaults>>

(* A setup fails, is aborted or times out, and a connection fails: what was being
   written may have been *)
Stop(d) ==
    /\ setup[d].pc # "down" /\ Fault
    /\ setup' = [setup EXCEPT ![d] = Down]
    /\ configLock' = Released(d)
    /\ \/ UNCHANGED <<dcs, given>>
       \/ setup[d].pc = "writeOption" /\ OptionStored(d)
       \/ setup[d].pc = "writeKey" /\ KeyStored(d)
    /\ UNCHANGED <<keys, copier, copied>>
ForgetKey(k) ==
    /\ k \in keys.known /\ Fault
    /\ keys' = [keys EXCEPT !.known = @ \ {k}]
    /\ setup' = [d \in Dcs |-> IF setup[d].pc = "up" /\ setup[d].key = k THEN Down ELSE setup[d]]
    /\ UNCHANGED <<dcs, configLock, copier, copied, given>>

-----------------------------------------------------------------------------
(* copy_auth_to_dc, one at a time under its lock *)

TargetKey == IF TargetDc \in DOMAIN dcs THEN dcs[TargetDc].key ELSE NoKey
Goes(pc) == copier' = [copier EXCEPT !.pc = pc]
(* With the key that is stored: nothing to do, or an authorization to export *)
FaultyLooks(key) ==
    IF TargetDc \in {c.dc : c \in copied} THEN copier' = [pc |-> "idle", key |-> NoKey] /\ UNCHANGED copied
    ELSE copier' = [pc |-> "export", key |-> key] /\ copied' = {}
Looks(key) ==
    IF \E c \in copied : c.key = key /\ key # NoKey
    THEN copier' = [pc |-> "idle", key |-> NoKey] /\ UNCHANGED copied
    ELSE copier' = [pc |-> "export", key |-> key] /\ copied' = {}
CopyAuth ==
    /\ copier.pc = "idle"
    /\ IF TargetKey = NoKey THEN copied' = {} /\ Goes("nearest") ELSE Looks(TargetKey)
    /\ UNCHANGED <<dcs, setup, configLock, keys, given, setupFaults>>
(* A call that needs no authorization makes the key *)
NearestDc ==
    /\ copier.pc = "nearest" /\ setup[TargetDc].pc = "up"
    /\ Looks(TargetKey)
    /\ UNCHANGED <<dcs, setup, configLock, keys, given, setupFaults>>
ExportAuth ==
    /\ copier.pc = "export" /\ setup[HomeDc].pc = "up"
    /\ Goes("import")
    /\ UNCHANGED <<dcs, setup, configLock, keys, copied, given, setupFaults>>
(* The import authorizes the key of the connection it runs on *)
ImportAuth ==
    /\ copier.pc = "import" /\ setup[TargetDc].pc = "up"
    /\ keys' = [keys EXCEPT !.authorized = @ \cup {setup[TargetDc].key}]
    /\ Goes("record")
    /\ UNCHANGED <<dcs, setup, configLock, copied, given, setupFaults>>
FaultyRecords == TRUE
Records == copier.key # NoKey /\ TargetKey = copier.key
RecordCopy ==
    /\ copier.pc = "record"
    /\ copied' = IF Records THEN copied \cup {[dc |-> TargetDc, key |-> TargetKey]} ELSE copied
    /\ copier' = [pc |-> "idle", key |-> NoKey]
    /\ UNCHANGED <<dcs, setup, configLock, keys, given, setupFaults>>
CopyFails ==
    /\ copier.pc \in {"nearest", "export", "import", "record"} /\ Fault
    /\ copier' = [pc |-> "idle", key |-> NoKey]
    /\ UNCHANGED <<dcs, setup, configLock, keys, copied, given>>

-----------------------------------------------------------------------------
Init ==
    /\ dcs = Stored0
    /\ setup = [d \in Dcs |-> Down] /\ configLock = Nobody
    /\ keys = [made |-> 1, known |-> {1}, authorized |-> {}]
    /\ copier = [pc |-> "idle", key |-> NoKey] /\ copied = {}
    /\ given = [d \in Dcs |-> [v4 |-> NoAddr, v6 |-> NoAddr]]
    /\ setupFaults = MaxFaults

SetUp(d) ==
    \/ Handshake(d) \/ InitConnection(d) \/ Merge(d) \/ ReadOption(d) \/ WriteOption(d)
    \/ Unlock(d) \/ ReadKept(d) \/ PersistKey(d)
Copy == NearestDc \/ ExportAuth \/ ImportAuth \/ RecordCopy
Next ==
    \/ \E d \in Dcs : Start(d) \/ SetUp(d) \/ Stop(d)
    \/ CopyAuth \/ Copy \/ CopyFails
    \/ \E k \in 1 .. keys.made : ForgetKey(k)

Spec == Init /\ [][Next]_setupVars

-----------------------------------------------------------------------------
(* Properties *)

(* The key of a connection that is up is the stored one: no configuration, and no
   setup of another datacenter, erases a key that was just made *)
KeyKept == \A d \in Dcs : setup[d].pc = "up" => dcs[d].key = setup[d].key

(* The stored addresses are the last ones that a configuration gave, also after
   the setup that read older ones has stored its key; and an IPv6 address that
   was given is never replaced by one derived from IPv4 *)
AddressesKept ==
    \A d \in DOMAIN dcs : \A a \in {"v4", "v6"} : given[d][a] # NoAddr => dcs[d][a] = given[d][a]

(* A configuration with an invalid address changes nothing *)
InvalidConfigIgnored ==
    \A d \in Dcs : setup[d].next > 1 => \A i \in DOMAIN setup[d].config : setup[d].config[i].addr.via # "bad"

(* A key is held to be authorized only if an import ran on a connection with that
   key, whichever setup replaced keys meanwhile *)
CopiedIsAuthorized == \A c \in copied : c.key \in keys.authorized

(* The stored key of the datacenter is authorized and known to be: what must come
   once failures end, however often the key was lost before *)
Authorized == TargetKey \in keys.authorized /\ \E c \in copied : c.key = TargetKey
=============================================================================
